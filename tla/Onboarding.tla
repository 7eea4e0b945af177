----------------------------- MODULE Onboarding -----------------------------
(***************************************************************************)
(* What a registration promises, with no stages, transactions or queue:    *)
(* registrations happen one at a time, each makes an account and an        *)
(* organization in one step, the organization gets the least number of its *)
(* name that is free, and welcome mails follow.  Nothing is taken back:    *)
(* an address keeps its account and an organization its slug.              *)
(***************************************************************************)
EXTENDS Naturals, Sequences

CONSTANTS Requests, Emails, Names, NoOne,
          Numbers,   \* that may follow a name
          Copies     \* of one welcome mail, at most

VARIABLES account,        \* address -> the registration that made its account
          organization,   \* registration -> the slug of its organization
          welcomes        \* registration -> the welcome mails it was sent

onboarding == <<account, organization, welcomes>>

None == << >>
Numbered(b, n) == IF n = 0 THEN b ELSE Append(b, n)
InUse(s) == \E r \in Requests : organization[r] = s
Least(b, n) == ~InUse(Numbered(b, n)) /\ \A k \in 0 .. n - 1 : InUse(Numbered(b, k))

Init == /\ account = [e \in Emails |-> NoOne]
        /\ organization = [r \in Requests |-> None]
        /\ welcomes = [r \in Requests |-> 0]

Onboard(r, e, b, n) ==
  /\ organization[r] = None /\ account[e] = NoOne /\ Least(b, n)
  /\ account' = [account EXCEPT ![e] = r]
  /\ organization' = [organization EXCEPT ![r] = Numbered(b, n)]
  /\ UNCHANGED welcomes

Welcome(r) ==
  /\ organization[r] # None /\ welcomes[r] < Copies
  /\ welcomes' = [welcomes EXCEPT ![r] = @ + 1]
  /\ UNCHANGED <<account, organization>>

Next == \E r \in Requests :
          \/ \E e \in Emails, b \in Names, n \in Numbers : Onboard(r, e, b, n)
          \/ Welcome(r)

Spec == Init /\ [][Next]_onboarding
=============================================================================
