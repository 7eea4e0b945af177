----------------------------- MODULE MCCatalogue -----------------------------
(***************************************************************************)
(* The catalogue on a small instance: one user beside the owner, with a    *)
(* membership and the identifier of a second one, two roles, the first a   *)
(* system role, and two permissions.  Calls begin in the order of their    *)
(* numbers: they are interchangeable.                                      *)
(***************************************************************************)
EXTENDS CatalogueRefinement, Naturals

CONSTANTS u1, m1, x1, x2, p1, p2

ASSUME MCAssumption == Requests \subseteq Nat

OneUser == [m \in Members |-> u1]

SmallInit ==
  /\ Init
  /\ \A m \in Members : row[m] = IF m = m1 THEN "active" ELSE "absent"
  /\ row[x1] = "active" /\ row[x2] \in {"active", "absent"}
  /\ row[p1] = "active" /\ row[p2] = row[x2]
  /\ <<m1, x1>> \in join /\ join \subseteq {<<m1, x1>>, <<m1, x2>>, <<x2, p1>>, <<u1, p1>>, <<u1, p2>>}
  /\ deny = {}

SmallSpec == SmallInit /\ [][Next]_vars /\ \A r \in Requests : WF_vars(Continue(r))

BeginInOrder == \A r, q \in Requests : q < r /\ pc'[r] # "idle" => pc'[q] # "idle"
=============================================================================
