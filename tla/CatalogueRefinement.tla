------------------------ MODULE CatalogueRefinement ------------------------
(***************************************************************************)
(* Catalogue, with its overlapping and failing calls, implements           *)
(* AccessTables: the committed rows.                                       *)
(***************************************************************************)
EXTENDS Catalogue

Tables == INSTANCE AccessTables

\* What a call commits is one change of AccessTables, made from the rows as they are
\* at the commit: no overlap of calls touches the joins of another holder, brings back
\* what was deleted, or gets past the rules about system roles and the owner.
ImplementsAccessTables == Tables!Spec
=============================================================================
