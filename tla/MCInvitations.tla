---------------------------- MODULE MCInvitations ----------------------------
(***************************************************************************)
(* Invitations on a small instance.  Invitations may have been sent, by    *)
(* calls that have been answered, before the run begins: that leaves the   *)
(* calls of the run to those that overlap.  Calls are interchangeable and  *)
(* begin in the order of their numbers.                                    *)
(***************************************************************************)
EXTENDS InvitationsRefinement, Naturals

CONSTANT MaxOutside   \* lapses of invitations and registrations within a run

ASSUME MCAssumption == /\ Requests \cup Invitations \cup Emails \subseteq Nat
                       /\ MaxOutside \in Nat

\* The states after Init and any number of answered calls of createInvitation by
\* one organization, up to the names of invitations and addresses.
SentInit ==
  \E n \in {0} \cup Invitations, o \in Orgs :
    LET sent == Invitations \cap (1 .. n)
    IN /\ creator = [e \in Emails |-> NoOne]
       /\ status = [p \in Orgs |-> [e \in Emails |-> "NONE"]]
       /\ roleMade = {}
       /\ sent \subseteq Emails
       /\ invOrg = [i \in Invitations |-> IF i \in sent THEN o ELSE NoOrg]
       /\ invEmail = [i \in Invitations |-> IF i \in sent THEN i ELSE NoEmail]
       /\ accepted = {} /\ revoked = {} /\ lapsed = {}
       /\ pc = [r \in Requests |-> "idle"]
       /\ org = [r \in Requests |-> NoOrg]
       /\ email = [r \in Requests |-> NoEmail]
       /\ inv = [r \in Requests |-> NoInvitation]
       /\ had = [r \in Requests |-> FALSE]

SentSpec == SentInit /\ [][Next]_vars /\ \A r \in Requests : WF_vars(Continue(r))

BeginInOrder == \A r, q \in Requests : q < r /\ pc'[r] # "idle" => pc'[q] # "idle"

\* An invitation is left for every call that is about to create one.
MayInvite == {r \in Requests : pc'[r] \in {"invite", "inviteNew"}}
Unsent == {i \in Invitations : invEmail'[i] = NoEmail}

Bounds == /\ BeginInOrder
          /\ Cardinality(MayInvite) <= Cardinality(Unsent)
          /\ Cardinality(lapsed') + Cardinality({e \in Emails : creator'[e] = Elsewhere}) <= MaxOutside
=============================================================================
