---------------------------- MODULE Registration ----------------------------
(***************************************************************************)
(* The registration of a user with an organization of his own              *)
(* (registration.service.ts, organization.repository.ts, slug.util.ts and  *)
(* role-provisioning.service.ts), and the welcome mail that follows it.    *)
(*                                                                         *)
(* One transaction makes the account, the organization, the membership and *)
(* its role.  The slug of the organization is looked for by lookups in     *)
(* that transaction, at READ COMMITTED: the first of base, base-1, base-2  *)
(* ... that no committed organization has.  An insert waits for an open    *)
(* transaction that has inserted the same address or slug.                 *)
(*                                                                         *)
(* The mail of registration r is job r of MailQueue; the other jobs are    *)
(* mails that other services ask for.                                      *)
(***************************************************************************)
EXTENDS MailQueue, Sequences, FiniteSets

CONSTANTS Requests,
          Emails,
          Names,      \* the base slugs of the names: see Slug
          NoOne, NoEmail

\* generateBaseSlug: a slug is the sequence of its words, never empty.  Words are
\* numbers, so that a name may end with one.
NoSlug == << >>
ASSUME RegistrationAssumption ==
  /\ IsFiniteSet(Requests)
  /\ Requests \subseteq Jobs /\ NoOne \notin Requests /\ NoEmail \notin Emails
  /\ Names \subseteq Seq(Nat) \ {NoSlug}

\* formatSequentialSlug: the slug of one name may be the base of another.
Slug(b, n) == IF n = 0 THEN b ELSE Append(b, n)

VARIABLES
  account,   \* the registration that made the account of each address
  slug,      \* the slug of the organization that the registration made
  pc, email, base,
  counter    \* of the candidate slug

tables == <<account, slug>>
calls == <<pc, email, base, counter>>
regVars == <<account, slug, pc, email, base, counter>>
vars == <<regVars, mailVars>>

\* hash: the address was free.  lookup, insert, retry, made: in the transaction, the
\* account is inserted; made: the organization too.  mail: committed.
HoldsEmail == {"lookup", "insert", "retry", "made"}
Stages == {"hash", "mail"} \cup HoldsEmail

Init == /\ MailInit
        /\ account = [e \in Emails |-> NoOne]
        /\ slug = [r \in Requests |-> NoSlug]
        /\ pc = [r \in Requests |-> "idle"]
        /\ email = [r \in Requests |-> NoEmail]
        /\ base = [r \in Requests |-> NoSlug]
        /\ counter = [r \in Requests |-> 0]

Candidate(r) == Slug(base[r], counter[r])
Taken(s) == \E r \in Requests : slug[r] = s

EmailFree(r) == \A q \in Requests \ {r} : ~(pc[q] \in HoldsEmail /\ email[q] = email[r])
SlugFree(r) == \A q \in Requests \ {r} : ~(pc[q] = "made" /\ Candidate(q) = Candidate(r))

Go(r, from, to) == pc[r] = from /\ pc' = [pc EXCEPT ![r] = to]

\* The call ends, and what it was about is forgotten.
End(r) == /\ pc' = [pc EXCEPT ![r] = "over"]
          /\ email' = [email EXCEPT ![r] = NoEmail]
          /\ base' = [base EXCEPT ![r] = NoSlug]
          /\ counter' = [counter EXCEPT ![r] = 0]
          /\ UNCHANGED tables

-----------------------------------------------------------------------------
Register(r, e, b) ==
  /\ account[e] = NoOne
  /\ Go(r, "idle", "hash")
  /\ email' = [email EXCEPT ![r] = e]
  /\ base' = [base EXCEPT ![r] = b]
  /\ UNCHANGED <<tables, counter, mailVars>>

CreateUser(r) ==
  /\ Go(r, "hash", "lookup")
  /\ EmailFree(r) /\ account[email[r]] = NoOne
  /\ UNCHANGED <<tables, email, base, counter, mailVars>>

\* The unique index of users.email.
EmailTaken(r) == /\ pc[r] = "hash" /\ account[email[r]] # NoOne
                 /\ End(r) /\ UNCHANGED mailVars

\* Variant: the number is increased before and after the lookup.
FindEverySecondSlug(r) ==
  /\ pc[r] = "lookup"
  /\ IF Taken(Candidate(r)) THEN counter' = [counter EXCEPT ![r] = @ + 2] /\ UNCHANGED pc
                            ELSE Go(r, "lookup", "insert") /\ UNCHANGED counter
  /\ UNCHANGED <<tables, email, base, mailVars>>

\* Variant: the number is not increased.
FindSameSlug(r) ==
  /\ pc[r] = "lookup"
  /\ ~Taken(Candidate(r)) /\ Go(r, "lookup", "insert")
  /\ UNCHANGED <<tables, email, base, counter, mailVars>>

\* One turn of the loop.
FindAvailableSlug(r) ==
  /\ pc[r] = "lookup"
  /\ IF Taken(Candidate(r)) THEN counter' = [counter EXCEPT ![r] = @ + 1] /\ UNCHANGED pc
                            ELSE Go(r, "lookup", "insert") /\ UNCHANGED counter
  /\ UNCHANGED <<tables, email, base, mailVars>>

\* Variant: no unique index, so the insert neither waits nor fails.
CreateOrganizationUnindexed(r) == /\ Go(r, "insert", "made")
                                  /\ UNCHANGED <<tables, email, base, counter, mailVars>>

\* Variant: the mail is asked for inside the transaction.
CreateOrganizationAndMail(r) ==
  /\ Go(r, "insert", "made")
  /\ SlugFree(r) /\ ~Taken(Candidate(r))
  /\ AskFor(r, "welcome-email")
  /\ UNCHANGED <<tables, email, base, counter>>

CreateOrganization(r) ==
  /\ Go(r, "insert", "made")
  /\ SlugFree(r) /\ ~Taken(Candidate(r))
  /\ UNCHANGED <<tables, email, base, counter, mailVars>>

\* P2002: the next candidate is taken.
SlugTaken(r) ==
  /\ Go(r, "insert", "retry") /\ Taken(Candidate(r))
  /\ counter' = [counter EXCEPT ![r] = @ + 1]
  /\ UNCHANGED <<tables, email, base, mailVars>>

\* The violation has put the transaction into the aborted state: the insert of the next
\* candidate is refused with another error, which is not caught.
RetryThrows(r) == pc[r] = "retry" /\ End(r) /\ UNCHANGED mailVars

\* The membership, the OWNER role with every active permission and the audit record
\* belong to the new organization and meet nobody; they and the commit are one step.
Commit(r) ==
  /\ Go(r, "made", "mail")
  /\ account' = [account EXCEPT ![email[r]] = r]
  /\ slug' = [slug EXCEPT ![r] = Candidate(r)]
  /\ UNCHANGED <<email, base, counter>>
  /\ AskFor(r, "welcome-email")

\* Variant: the call forgets what it was about and does not end.
AnswerForgets(r) == /\ pc[r] = "mail" /\ asks[r] = "done"
                    /\ email' = [email EXCEPT ![r] = NoEmail]
                    /\ UNCHANGED <<tables, pc, base, counter, mailVars>>

Answer(r) == pc[r] = "mail" /\ asks[r] = "done" /\ End(r) /\ UNCHANGED mailVars

\* A statement fails, a public slug is taken, or the process stops.
Abort(r) == pc[r] \in {"hash", "lookup", "insert", "made"} /\ End(r) /\ UNCHANGED mailVars

\* The process stops after the commit and before the job is added: no mail follows.
Stop(r) == /\ pc[r] = "mail" /\ Asks(r, "add", "done") /\ End(r)
           /\ UNCHANGED <<mail, queue>>

Continue(r) == \/ CreateUser(r) \/ EmailTaken(r) \/ FindAvailableSlug(r) \/ CreateOrganization(r)
               \/ SlugTaken(r) \/ RetryThrows(r) \/ Commit(r) \/ Answer(r)

OtherMail(j, m) == j \notin Requests /\ m # "welcome-email" /\ AskFor(j, m) /\ UNCHANGED regVars

Next == \/ \E r \in Requests : \/ \E e \in Emails, b \in Names : Register(r, e, b)
                               \/ Continue(r) \/ Abort(r) \/ Stop(r)
        \/ \E j \in Jobs, m \in Mails : OtherMail(j, m)
        \/ MailStep /\ UNCHANGED regVars

Spec == Init /\ [][Next]_vars
FairSpec == /\ Spec
            /\ \A r \in Requests : WF_vars(Continue(r))
            /\ \A j \in Jobs : WF_vars(EnqueueEmail(j) /\ UNCHANGED regVars)
                               /\ WF_vars(Work(j) /\ UNCHANGED regVars)

-----------------------------------------------------------------------------
\* Properties

TypeOK ==
  /\ MailTypeOK
  /\ account \in [Emails -> Requests \cup {NoOne}]
  /\ pc \in [Requests -> Stages \cup {"idle", "over"}]
  /\ email \in [Requests -> Emails \cup {NoEmail}]
  /\ counter \in [Requests -> Nat]
  /\ \A r \in Requests : pc[r] \in Stages => email[r] \in Emails /\ base[r] \in Names

\* Organizations get their numbers without a gap: below the slug base-n of one, the
\* base and every number up to n are slugs of organizations, whichever registrations
\* overlapped and failed.  No two have the same slug.
SlugsAreSequential ==
  /\ \A r \in Requests : slug[r] # NoSlug =>
       \E b \in Names, n \in 0 .. Cardinality(Requests) :
         slug[r] = Slug(b, n) /\ \A k \in 0 .. n - 1 : Taken(Slug(b, k))
  /\ \A r, q \in Requests : slug[r] = slug[q] /\ slug[r] # NoSlug => r = q

\* An account and its organization are made together, and a welcome mail leaves only
\* for a registration that made both.
WelcomeIsForTheRegistered ==
  \A r \in Requests : /\ slug[r] # NoSlug <=> \E e \in Emails : account[e] = r
                      /\ sent[r] > 0 => slug[r] # NoSlug

\* Every registration is answered: lookups end, and so do waits for other registrations.
RegistrationsAreAnswered == \A r \in Requests : (pc[r] \in Stages) ~> (pc[r] = "over")

\* An insert that finds its slug taken is tried again with the next one.
SlugClashIsRetried ==
  [][\A r \in Requests : pc[r] = "retry" /\ pc'[r] # "retry" => pc'[r] \in {"insert", "made"}]_vars
=============================================================================
