----------------------- MODULE InvitationsRefinement -----------------------
(***************************************************************************)
(* Invitations, with its overlapping and failing calls, implements         *)
(* Membership: the committed rows.                                         *)
(***************************************************************************)
EXTENDS Invitations

SentTo == [i \in Invitations |-> IF Known(i) THEN <<invOrg[i], invEmail[i]>> ELSE << >>]

Members == INSTANCE Membership WITH accounts <- Users, sentTo <- SentTo

\* What a call commits is one change of Membership, made from the rows as they are at
\* the commit and not as the call had read them.
ImplementsMembership == [][Members!Next]_Members!membership
=============================================================================
