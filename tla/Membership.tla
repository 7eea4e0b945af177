----------------------------- MODULE Membership -----------------------------
(***************************************************************************)
(* What invitations and additions of members promise, with no calls and no *)
(* transactions: each change of an account, a membership or an invitation  *)
(* is one step.  An invitation is accepted once, if at all, never after it *)
(* was revoked, and only for an address without an account; acceptance     *)
(* makes the account and the membership.  Nobody joins where he is.        *)
(***************************************************************************)
CONSTANTS Orgs, Emails, Invitations

VARIABLES accounts,           \* the addresses that have one
          status,             \* of a member, by organization and address, or "NONE"
          sentTo,             \* the organization and address of an invitation
          accepted, revoked   \* invitations

membership == <<accounts, status, sentTo, accepted, revoked>>

Unsent == << >>

Init == /\ accounts = {}
        /\ status = [o \in Orgs |-> [e \in Emails |-> "NONE"]]
        /\ sentTo = [i \in Invitations |-> Unsent]
        /\ accepted = {} /\ revoked = {}

Join(o, e) == /\ status[o][e] = "NONE"
              /\ status' = [status EXCEPT ![o][e] = "ACTIVE"]
              /\ accounts' = accounts \cup {e}

Invite(i, o, e) == /\ sentTo[i] = Unsent
                   /\ sentTo' = [sentTo EXCEPT ![i] = <<o, e>>]
                   /\ UNCHANGED <<accounts, status, accepted, revoked>>

\* Also of an accepted one, and without effect then.
Revoke(i) == /\ sentTo[i] # Unsent
             /\ revoked' = revoked \cup {i}
             /\ UNCHANGED <<accounts, status, sentTo, accepted>>

Accept(i, o, e) == /\ sentTo[i] = <<o, e>> /\ i \notin accepted \cup revoked
                   /\ e \notin accounts
                   /\ Join(o, e)
                   /\ accepted' = accepted \cup {i}
                   /\ UNCHANGED <<sentTo, revoked>>

Enroll(o, e) == Join(o, e) /\ UNCHANGED <<sentTo, accepted, revoked>>

\* Of an organization of his own.
Register(e) == /\ e \notin accounts
               /\ accounts' = accounts \cup {e}
               /\ UNCHANGED <<status, sentTo, accepted, revoked>>

\* An administrator suspends, reinstates or removes a member; the account stays.
Manage(o, e) == /\ status[o][e] # "NONE"
                /\ \E st \in {"ACTIVE", "SUSPENDED", "NONE"} :
                     status' = [status EXCEPT ![o][e] = st]
                /\ UNCHANGED <<accounts, sentTo, accepted, revoked>>

Next == \/ \E i \in Invitations : \/ Revoke(i)
                                  \/ \E o \in Orgs, e \in Emails : Invite(i, o, e) \/ Accept(i, o, e)
        \/ \E o \in Orgs, e \in Emails : Enroll(o, e) \/ Manage(o, e)
        \/ \E e \in Emails : Register(e)

Spec == Init /\ [][Next]_membership
=============================================================================
