------------------------- MODULE RegistrationProofs -------------------------
(***************************************************************************)
(* Registrations only ask the mail queue for mails, so its theorems hold   *)
(* under them; slugs are given without a gap and never twice; and an       *)
(* account, its organization and its welcome mail go together.             *)
(***************************************************************************)
EXTENDS RegistrationRefinement, MailQueueProofs, FiniteSetTheorems, SequenceTheorems

-----------------------------------------------------------------------------
\* Slugs

\* A candidate is never the empty slug, and the candidates of one base are distinct.
LEMMA SlugNotEmpty ==
  ASSUME NEW b \in Names, NEW n \in Nat
  PROVE  Slug(b, n) # NoSlug
<1>1. b \in Seq(Nat) /\ b # NoSlug
  BY RegistrationAssumption
<1> QED
  BY <1>1, AppendProperties DEF Slug, NoSlug

LEMMA SlugInjective ==
  ASSUME NEW b \in Names, NEW m \in Nat, NEW n \in Nat, Slug(b, m) = Slug(b, n)
  PROVE  m = n
<1>1. b \in Seq(Nat)
  BY RegistrationAssumption
<1>2. \A k \in Nat : /\ Len(Append(b, k)) = Len(b) + 1
                     /\ Append(b, k)[Len(b) + 1] = k
  BY <1>1, AppendProperties
<1>3. Len(b) \in Nat
  BY <1>1, LenProperties
<1>4. CASE m = 0 \/ n = 0
  <2>1. \A k \in Nat : Append(b, k) # b
    BY <1>2, <1>3
  <2> QED
    BY <1>4, <2>1 DEF Slug
<1>5. CASE m # 0 /\ n # 0
  <2>1. Append(b, m) = Append(b, n)
    BY <1>5 DEF Slug
  <2>2. Append(b, m)[Len(b) + 1] = m /\ Append(b, n)[Len(b) + 1] = n
    BY <1>2
  <2> QED
    BY <2>1, <2>2
<1> QED
  BY <1>4, <1>5

\* No more candidates of one base are taken than there are registrations.
LEMMA TakenAreFew ==
  ASSUME NEW b \in Names, NEW n \in Nat, \A k \in 0 .. n - 1 : Taken(Slug(b, k))
  PROVE  n <= Cardinality(Requests)
<1> DEFINE f == [k \in 0 .. n - 1 |-> CHOOSE r \in Requests : slug[r] = Slug(b, k)]
<1>1. \A k \in 0 .. n - 1 : f[k] \in Requests /\ slug[f[k]] = Slug(b, k)
  BY DEF Taken
<1>2. \A k, l \in 0 .. n - 1 : f[k] = f[l] => k = l
  BY <1>1, SlugInjective
<1>3. f \in Injection(0 .. n - 1, Requests)
  BY <1>1, <1>2 DEF Injection, IsInjective
<1>4. Cardinality(0 .. n - 1) <= Cardinality(Requests)
  BY <1>3, FS_Injection, RegistrationAssumption
<1>5. Cardinality(0 .. n - 1) = n
  BY FS_Interval
<1> QED
  BY <1>4, <1>5

-----------------------------------------------------------------------------
\* The invariant

RegTypeOK ==
  /\ account \in [Emails -> Requests \cup {NoOne}]
  /\ slug \in [Requests -> {NoSlug} \cup {Slug(b, n) : b \in Names, n \in Nat}]
  /\ pc \in [Requests -> Stages \cup {"idle", "over"}]
  /\ email \in [Requests -> Emails \cup {NoEmail}]
  /\ base \in [Requests -> Names \cup {NoSlug}]
  /\ counter \in [Requests -> Nat]
  /\ \A r \in Requests : pc[r] \in Stages => email[r] \in Emails /\ base[r] \in Names

\* Every number below the candidate's is taken.
Below(b, n) == \A k \in 0 .. n - 1 : Taken(Slug(b, k))
CountersOK == \A r \in Requests : pc[r] \in HoldsEmail => Below(base[r], counter[r])

\* Before it commits a registration has no organization, and its mail is not asked for.
Uncommitted == {"idle", "hash"} \cup HoldsEmail
UncommittedOK ==
  \A r \in Requests : /\ pc[r] \in Uncommitted => slug[r] = NoSlug
                      /\ pc[r] = "idle" \/ pc[r] = "hash" => counter[r] = 0
                      /\ slug[r] = NoSlug => asks[r] = "no"

\* An open transaction has its address and, once it has inserted it, its slug to itself.
AddressesOK ==
  \A r \in Requests : pc[r] \in HoldsEmail =>
    /\ account[email[r]] = NoOne
    /\ \A q \in Requests \ {r} : pc[q] \in HoldsEmail => email[q] # email[r]
CandidatesOK ==
  \A r \in Requests : pc[r] = "made" =>
    /\ ~Taken(Candidate(r))
    /\ \A q \in Requests \ {r} : pc[q] = "made" => Candidate(q) # Candidate(r)

Dense == \A r \in Requests : slug[r] # NoSlug =>
           \E b \in Names, n \in Nat : slug[r] = Slug(b, n) /\ Below(b, n)
Unique == \A r, q \in Requests : slug[r] = slug[q] /\ slug[r] # NoSlug => r = q
Together == \A r \in Requests : slug[r] # NoSlug <=> \E e \in Emails : account[e] = r

RegInv == /\ RegTypeOK /\ CountersOK /\ UncommittedOK /\ AddressesOK /\ CandidatesOK
          /\ Dense /\ Unique /\ Together

Inv == MailInv /\ RegInv

LEMMA InvInit == Init => Inv
<1> SUFFICES ASSUME Init PROVE Inv
  OBVIOUS
<1>1. MailInv
  BY MailInvInit DEF Init
<1>2. RegInv
  BY RegistrationAssumption
  DEF Init, MailInit, RegInv, RegTypeOK, CountersOK, UncommittedOK, AddressesOK, CandidatesOK, Dense,
      Unique, Together, HoldsEmail, Stages
<1> QED
  BY <1>1, <1>2 DEF Inv

-----------------------------------------------------------------------------
\* Mails

\* Every step of the registrations is a step of the mail queue, or does not touch it.
LEMMA RegistrationStepIsMailStep ==
  ASSUME Inv, [Next]_vars
  PROVE  [MailNext]_mailVars
<1> USE RegistrationAssumption
<1>1. ASSUME NEW r \in Requests, NEW e \in Emails, NEW b \in Names, Register(r, e, b)
      PROVE  UNCHANGED mailVars
  BY <1>1 DEF Register
<1>2. ASSUME NEW r \in Requests, Continue(r) PROVE [MailNext]_mailVars
  <2>1. CASE Commit(r)
    BY <2>1 DEF Commit, MailNext, Mails
  <2>2. CASE \/ CreateUser(r) \/ EmailTaken(r) \/ FindAvailableSlug(r) \/ CreateOrganization(r)
             \/ SlugTaken(r) \/ RetryThrows(r) \/ Answer(r)
    BY <2>2 DEF CreateUser, EmailTaken, FindAvailableSlug, CreateOrganization, SlugTaken,
                RetryThrows, Answer
  <2> QED
    BY <1>2, <2>1, <2>2 DEF Continue
<1>3. ASSUME NEW r \in Requests, Abort(r) PROVE UNCHANGED mailVars
  BY <1>3 DEF Abort
<1>4. ASSUME NEW r \in Requests, Stop(r) PROVE MailNext
  <2>1. r \in Jobs /\ mail[r] \in Mails
    BY <1>4 DEF Inv, MailInv, JobOK, Stop, Asks
  <2>2. AddFails(r)
    BY <1>4 DEF Stop, AddFails, queue
  <2>3. EnqueueEmail(r)
    BY <2>1, <2>2 DEF EnqueueEmail, EnqueueWelcomeEmail, EnqueueInvitationEmail,
                      EnqueuePasswordResetEmail, EnqueueLoginOtpEmail, Enqueue, Mails
  <2> QED
    BY <2>1, <2>3 DEF MailNext, MailStep
<1>5. ASSUME NEW j \in Jobs, NEW m \in Mails, OtherMail(j, m) PROVE MailNext
  BY <1>5 DEF OtherMail, MailNext
<1>6. CASE MailStep
  BY <1>6 DEF MailNext
<1>7. CASE UNCHANGED vars
  BY <1>7 DEF vars
<1> QED
  BY <1>1, <1>2, <1>3, <1>4, <1>5, <1>6, <1>7 DEF Next

\* A step of the mail queue leaves every mail that was asked for asked for.
LEMMA AskedStaysAsked ==
  ASSUME MailInv, MailStep, NEW r \in Jobs
  PROVE  asks[r] = "no" <=> asks'[r] = "no"
<1>1. PICK j \in Jobs : EnqueueEmail(j) \/ Work(j) \/ Stall(j)
  BY DEF MailStep
<1>2. CASE EnqueueEmail(j)
  BY <1>2 DEF EnqueueEmail, EnqueueWelcomeEmail, EnqueueInvitationEmail,
              EnqueuePasswordResetEmail, EnqueueLoginOtpEmail, Enqueue, AddJob, AddFails,
              RecordQueued, Asks, MailInv, MailTypeOK
<1>3. CASE Work(j) \/ Stall(j)
  BY <1>3 DEF Work, Take, Wake, Complete, Stall, Process, HandleWelcomeEmail,
              HandleInvitationEmail, HandlePasswordResetEmail, HandleLoginOtpEmail, Handle
<1> QED
  BY <1>1, <1>2, <1>3
-----------------------------------------------------------------------------
\* Registrations

\* No step but a commit changes what is committed.
LEMMA TablesStay ==
  ASSUME RegInv, UNCHANGED tables
  PROVE  /\ \A s : Taken(s)' <=> Taken(s)
         /\ \A b, n : Below(b, n)' <=> Below(b, n)
         /\ Dense' /\ Unique' /\ Together'
BY DEF RegInv, tables, Taken, Below, Dense, Unique, Together

\* A registration that ends, and steps that do not touch registrations.
LEMMA EndStep ==
  ASSUME RegInv, NEW r \in Requests, End(r),
         \A q \in Requests : asks'[q] = "no" <=> asks[q] = "no"
  PROVE  RegInv'
<1> USE DEF RegInv, RegTypeOK, End
<1>1. RegTypeOK'
  BY DEF tables, Stages, HoldsEmail
<1>2. Dense' /\ Unique' /\ Together' /\ CountersOK'
  BY TablesStay DEF CountersOK, HoldsEmail
<1>3. UncommittedOK'
  BY DEF tables, UncommittedOK, Uncommitted, HoldsEmail
<1>4. AddressesOK'
  BY DEF tables, AddressesOK, HoldsEmail
<1>5. CandidatesOK'
  BY TablesStay DEF CandidatesOK, Candidate
<1> QED
  BY <1>1, <1>2, <1>3, <1>4, <1>5

LEMMA QuietStep ==
  ASSUME RegInv, UNCHANGED regVars,
         \A q \in Requests : asks'[q] = "no" <=> asks[q] = "no"
  PROVE  RegInv'
<1> USE DEF RegInv, regVars, tables
<1>1. RegTypeOK' /\ UncommittedOK' /\ AddressesOK'
  BY DEF RegTypeOK, UncommittedOK, AddressesOK
<1>2. Dense' /\ Unique' /\ Together' /\ CountersOK' /\ CandidatesOK'
  BY TablesStay DEF CountersOK, CandidatesOK, Candidate
<1> QED
  BY <1>1, <1>2

LEMMA RegisterStep ==
  ASSUME RegInv, NEW r \in Requests, NEW e \in Emails, NEW b \in Names, Register(r, e, b)
  PROVE  RegInv'
<1> USE DEF RegInv, Register, Go
<1>1. RegTypeOK'
  BY DEF RegTypeOK, tables, Stages
<1>2. Dense' /\ Unique' /\ Together' /\ CountersOK'
  BY TablesStay DEF CountersOK, HoldsEmail, RegTypeOK
<1>3. UncommittedOK' /\ AddressesOK' /\ CandidatesOK'
  BY TablesStay DEF UncommittedOK, Uncommitted, AddressesOK, CandidatesOK, Candidate, HoldsEmail,
                    tables, mailVars, RegTypeOK
<1> QED
  BY <1>1, <1>2, <1>3

LEMMA CreateUserStep ==
  ASSUME RegInv, NEW r \in Requests, CreateUser(r)
  PROVE  RegInv'
<1> USE DEF RegInv, CreateUser, Go
<1>1. RegTypeOK'
  BY DEF RegTypeOK, tables, Stages, HoldsEmail
<1>2. Dense' /\ Unique' /\ Together' /\ CountersOK'
  BY TablesStay DEF CountersOK, UncommittedOK, HoldsEmail, Below, RegTypeOK
<1>3. AddressesOK'
  BY DEF AddressesOK, EmailFree, HoldsEmail, RegTypeOK, tables
<1>4. UncommittedOK' /\ CandidatesOK'
  BY TablesStay DEF UncommittedOK, Uncommitted, CandidatesOK, Candidate, HoldsEmail, tables,
                    mailVars, RegTypeOK
<1> QED
  BY <1>1, <1>2, <1>3, <1>4

\* What was looked up stays taken, so the numbers below the counter are.
LEMMA CounterStep ==
  ASSUME RegInv, NEW r \in Requests, FindAvailableSlug(r) \/ SlugTaken(r)
  PROVE  RegInv'
<1> USE DEF RegInv, FindAvailableSlug, SlugTaken, Go
<1>1. RegTypeOK'
  BY DEF RegTypeOK, tables, Stages, HoldsEmail
<1>2. Dense' /\ Unique' /\ Together'
  BY TablesStay
<1>3. CountersOK'
  <2>1. \A q \in Requests : Below(base[q], counter[q])' <=> Below(base[q], counter'[q])
    <3>1. \A b, n : Below(b, n)' <=> Below(b, n)
      BY TablesStay
    <3> QED
      BY <3>1 DEF Below
  <2>2. pc[r] \in HoldsEmail
    BY DEF HoldsEmail
  <2>3. Below(base[r], counter'[r])
    <3>1. Below(base[r], counter[r]) /\ counter[r] \in Nat
      BY <2>2 DEF CountersOK, RegTypeOK
    <3>2. counter'[r] = counter[r] \/ (counter'[r] = counter[r] + 1 /\ Taken(Slug(base[r], counter[r])))
      BY DEF Candidate, RegTypeOK
    <3> QED
      BY <3>1, <3>2 DEF Below
  <2>4. \A q \in Requests \ {r} : counter'[q] = counter[q]
    BY DEF RegTypeOK
  <2> QED
    BY <2>1, <2>2, <2>3, <2>4 DEF CountersOK, HoldsEmail, RegTypeOK
<1>4. UncommittedOK' /\ AddressesOK' /\ CandidatesOK'
  BY TablesStay DEF UncommittedOK, Uncommitted, AddressesOK, CandidatesOK, Candidate, HoldsEmail,
                    tables, mailVars, RegTypeOK
<1> QED
  BY <1>1, <1>2, <1>3, <1>4

LEMMA CreateOrganizationStep ==
  ASSUME RegInv, NEW r \in Requests, CreateOrganization(r)
  PROVE  RegInv'
<1> USE DEF RegInv, CreateOrganization, Go
<1>1. RegTypeOK'
  BY DEF RegTypeOK, tables, Stages, HoldsEmail
<1>2. Dense' /\ Unique' /\ Together' /\ CountersOK'
  BY TablesStay DEF CountersOK, HoldsEmail, RegTypeOK
<1>3. CandidatesOK'
  BY TablesStay DEF CandidatesOK, Candidate, SlugFree, RegTypeOK
<1>4. UncommittedOK' /\ AddressesOK'
  BY DEF UncommittedOK, Uncommitted, AddressesOK, HoldsEmail, tables, mailVars, RegTypeOK
<1> QED
  BY <1>1, <1>2, <1>3, <1>4

\* The slug that is committed is the next of its base, and nobody else's.
LEMMA CommitStep ==
  ASSUME Inv, NEW r \in Requests, Commit(r)
  PROVE  RegInv'
<1> USE RegistrationAssumption
<1> USE DEF Inv, RegInv
<1>1. /\ base[r] \in Names /\ counter[r] \in Nat /\ email[r] \in Emails
      /\ slug[r] = NoSlug /\ account[email[r]] = NoOne
      /\ ~Taken(Candidate(r)) /\ Below(base[r], counter[r])
      /\ pc[r] = "made" /\ pc' = [pc EXCEPT ![r] = "mail"]
      /\ account' = [account EXCEPT ![email[r]] = r]
      /\ slug' = [slug EXCEPT ![r] = Candidate(r)]
      /\ UNCHANGED <<email, base, counter>>
      /\ asks' = [asks EXCEPT ![r] = "add"]
  BY DEF Commit, Go, AskFor, Asks, RegTypeOK, CountersOK, UncommittedOK, Uncommitted, AddressesOK,
         CandidatesOK, HoldsEmail, Stages
<1>2. Candidate(r) # NoSlug /\ Candidate(r) = Slug(base[r], counter[r])
  BY <1>1, SlugNotEmpty DEF Candidate
<1>3. slug'[r] = Candidate(r) /\ \A q \in Requests \ {r} : slug'[q] = slug[q]
  BY <1>1 DEF RegTypeOK
<1>4. \A s : s # NoSlug => (Taken(s)' <=> Taken(s) \/ s = Candidate(r))
  BY <1>1, <1>3 DEF Taken
<1>5. \A b \in Names, n \in Nat : Below(b, n) => Below(b, n)'
  <2> SUFFICES ASSUME NEW b \in Names, NEW n \in Nat, Below(b, n), NEW k \in 0 .. n - 1
               PROVE  Taken(Slug(b, k))'
    BY DEF Below
  <2>1. k \in Nat /\ Taken(Slug(b, k))
    BY DEF Below
  <2> QED
    BY <2>1, <1>4, SlugNotEmpty
<1>6. RegTypeOK'
  BY <1>1, <1>2 DEF RegTypeOK, Stages, HoldsEmail
<1>7. CountersOK'
  <2>1. ASSUME NEW q \in Requests, pc'[q] \in HoldsEmail PROVE Below(base[q], counter[q])'
    <3>1. pc[q] \in HoldsEmail /\ base[q] \in Names /\ counter[q] \in Nat
      BY <1>1, <2>1 DEF RegTypeOK, HoldsEmail, Stages
    <3>2. Below(base[q], counter[q])
      BY <3>1 DEF CountersOK
    <3>3. base'[q] = base[q] /\ counter'[q] = counter[q]
      BY <1>1
    <3> QED
      BY <3>1, <3>2, <3>3, <1>5 DEF Below
  <2> QED
    BY <1>1, <2>1 DEF CountersOK
<1>8. UncommittedOK'
  BY <1>1, <1>2, <1>3 DEF UncommittedOK, Uncommitted, HoldsEmail, RegTypeOK, MailInv, MailTypeOK
<1>9. AddressesOK'
  BY <1>1 DEF AddressesOK, HoldsEmail, RegTypeOK, Stages
<1>10. CandidatesOK'
  <2> SUFFICES ASSUME NEW q \in Requests, pc'[q] = "made"
               PROVE  /\ ~Taken(Candidate(q))'
                      /\ \A p \in Requests \ {q} : pc'[p] = "made" => Candidate(p)' # Candidate(q)'
    BY DEF CandidatesOK
  <2>1. q # r /\ pc[q] = "made"
    BY <1>1 DEF RegTypeOK
  <2>2. \A p \in Requests : Candidate(p)' = Candidate(p)
    BY <1>1 DEF Candidate
  <2>3. Candidate(q) # Candidate(r) /\ ~Taken(Candidate(q))
    BY <2>1, <1>1 DEF CandidatesOK
  <2>4. Candidate(q) # NoSlug
    BY <2>1, SlugNotEmpty DEF RegTypeOK, Candidate, Stages, HoldsEmail
  <2>5. ~Taken(Candidate(q))'
    <3>1. \A p \in Requests : slug'[p] # Candidate(q)
      BY <1>3, <2>3 DEF Taken
    <3> QED
      BY <3>1, <2>2 DEF Taken
  <2>6. \A p \in Requests : pc'[p] = "made" => pc[p] = "made"
    BY <1>1 DEF RegTypeOK
  <2> QED
    BY <2>1, <2>2, <2>5, <2>6 DEF CandidatesOK
<1>11. Dense'
  <2>1. \E b \in Names, n \in Nat : slug'[r] = Slug(b, n) /\ Below(b, n)'
    BY <1>1, <1>2, <1>3, <1>5
  <2>2. ASSUME NEW q \in Requests \ {r}, slug'[q] # NoSlug
        PROVE  \E b \in Names, n \in Nat : slug'[q] = Slug(b, n) /\ Below(b, n)'
    BY <1>3, <1>5, <2>2 DEF Dense
  <2> QED
    BY <2>1, <2>2 DEF Dense
<1>12. Unique'
  BY <1>1, <1>2, <1>3 DEF Unique, Taken
<1>13. Together'
  BY <1>1, <1>2, <1>3 DEF Together, RegTypeOK
<1> QED
  BY <1>6, <1>7, <1>8, <1>9, <1>10, <1>11, <1>12, <1>13

LEMMA RegInvNext ==
  ASSUME Inv, [Next]_vars
  PROVE  RegInv'
<1> USE RegistrationAssumption
<1> USE DEF Inv
<1>1. ASSUME NEW r \in Requests, NEW e \in Emails, NEW b \in Names, Register(r, e, b)
      PROVE  RegInv'
  BY <1>1, RegisterStep
<1>2. ASSUME NEW r \in Requests, Continue(r) PROVE RegInv'
  <2>1. CASE EmailTaken(r) \/ RetryThrows(r) \/ Answer(r)
    BY <2>1, EndStep DEF EmailTaken, RetryThrows, Answer, mailVars
  <2> QED
    BY <1>2, <2>1, CreateUserStep, CounterStep, CreateOrganizationStep, CommitStep DEF Continue
<1>3. ASSUME NEW r \in Requests, Abort(r) \/ Stop(r) PROVE RegInv'
  <2>1. \A q \in Requests : asks'[q] = "no" <=> asks[q] = "no"
    BY <1>3 DEF Abort, Stop, Asks, mailVars, MailInv, MailTypeOK
  <2> QED
    BY <1>3, <2>1, EndStep DEF Abort, Stop
<1>4. ASSUME NEW j \in Jobs, NEW m \in Mails, OtherMail(j, m) PROVE RegInv'
  <2>1. \A q \in Requests : asks'[q] = asks[q]
    BY <1>4 DEF OtherMail, AskFor, Asks, MailInv, MailTypeOK
  <2> QED
    BY <1>4, <2>1, QuietStep DEF OtherMail
<1>5. CASE MailStep /\ UNCHANGED regVars
  BY <1>5, AskedStaysAsked, QuietStep
<1>6. CASE UNCHANGED vars
  BY <1>6, QuietStep DEF vars, mailVars
<1> QED
  BY <1>1, <1>2, <1>3, <1>4, <1>5, <1>6 DEF Next

LEMMA InvNext == Inv /\ [Next]_vars => Inv'
BY RegistrationStepIsMailStep, MailInvNext, RegInvNext DEF Inv

-----------------------------------------------------------------------------
\* The theorems

LEMMA InvImplies == Inv => TypeOK /\ SlugsAreSequential /\ WelcomeIsForTheRegistered
<1> SUFFICES ASSUME Inv PROVE TypeOK /\ SlugsAreSequential /\ WelcomeIsForTheRegistered
  OBVIOUS
<1> USE DEF Inv, RegInv
<1>1. TypeOK
  BY DEF TypeOK, MailInv, RegTypeOK
<1>2. SlugsAreSequential
  <2>1. ASSUME NEW r \in Requests, slug[r] # NoSlug
        PROVE  \E b \in Names, n \in 0 .. Cardinality(Requests) :
                 slug[r] = Slug(b, n) /\ \A k \in 0 .. n - 1 : Taken(Slug(b, k))
    <3>1. PICK b \in Names, n \in Nat : slug[r] = Slug(b, n) /\ Below(b, n)
      BY <2>1 DEF Dense
    <3>2. n <= Cardinality(Requests) /\ Cardinality(Requests) \in Nat
      BY <3>1, TakenAreFew, FS_CardinalityType, RegistrationAssumption DEF Below
    <3> QED
      BY <3>1, <3>2 DEF Below
  <2> QED
    BY <2>1 DEF SlugsAreSequential, Unique
<1>3. WelcomeIsForTheRegistered
  <2>1. ASSUME NEW r \in Requests, sent[r] > 0 PROVE slug[r] # NoSlug
    <3>1. r \in Jobs
      BY RegistrationAssumption
    <3>2. asks[r] # "no"
      BY <2>1, <3>1 DEF MailInv, MailTypeOK, JobOK
    <3> QED
      BY <3>2 DEF UncommittedOK
  <2> QED
    BY <2>1 DEF WelcomeIsForTheRegistered, Together
<1> QED
  BY <1>1, <1>2, <1>3

LEMMA InvHolds == Spec => []Inv
<1>1. Inv /\ [Next]_vars => Inv'
  BY InvNext
<1> QED
  BY <1>1, InvInit, PTL DEF Spec

\* Registrations use the mail queue only through its calls: their specification
\* implements that of the queue, whose theorems therefore hold of the welcome mails.
THEOREM RegistrationImplementsMailQueue == Spec => MailSpec
<1>1. Init => MailInit
  BY DEF Init
<1>2. Inv /\ [Next]_vars => [MailNext]_mailVars
  BY RegistrationStepIsMailStep
<1> QED
  BY <1>1, <1>2, InvHolds, PTL DEF Spec, MailSpec

\* Rows, calls and jobs keep their types, with any number of registrations at once.
THEOREM RegistrationTypesCorrect == Spec => []TypeOK
BY InvHolds, InvImplies, PTL

\* The lookups of findAvailableSlug and the unique index under its insert: two
\* organizations never get one slug, and a number is given only when all below it are.
THEOREM SlugsHaveNoGaps == Spec => []SlugsAreSequential
BY InvHolds, InvImplies, PTL

\* The transaction of register: an account comes with its organization, and a welcome
\* mail leaves only for a registration that committed both.
THEOREM WelcomesAreEarned == Spec => []WelcomeIsForTheRegistered
BY InvHolds, InvImplies, PTL

\* No more copies of a mail leave than its job may start, under registrations too.
THEOREM RegistrationMailsBounded == Spec => []MailsAreBounded
BY RegistrationImplementsMailQueue, MailsBounded, PTL

\* Every copy after the first is owed to a fault of its own.
THEOREM RegistrationCopiesNeedFaults == Spec => []CopiesAreOwedToFaults
BY RegistrationImplementsMailQueue, CopiesNeedFaults, PTL

\* The audit log records no welcome mail that has not left.
THEOREM RegistrationLogsStayTrue == Spec => []LogsAreTrue
BY RegistrationImplementsMailQueue, LogsStayTrue, PTL

-----------------------------------------------------------------------------
\* The refinement of Onboarding

\* What an open transaction is about to commit is the next of its name.
LEMMA CommitOnboards ==
  ASSUME Inv, NEW r \in Requests, Commit(r)
  PROVE  Onboarded!Next
<1> USE DEF Inv, RegInv
<1>1. /\ base[r] \in Names /\ counter[r] \in Nat /\ email[r] \in Emails
      /\ slug[r] = NoSlug /\ account[email[r]] = NoOne
      /\ ~Taken(Candidate(r)) /\ Below(base[r], counter[r])
  BY DEF Commit, Go, RegTypeOK, CountersOK, UncommittedOK, Uncommitted, AddressesOK, CandidatesOK,
         HoldsEmail, Stages
<1>2. counter[r] \in 0 .. Cardinality(Requests)
  BY <1>1, TakenAreFew, FS_CardinalityType, RegistrationAssumption DEF Below
<1>3. Onboarded!Least(base[r], counter[r])
  BY <1>1 DEF Onboarded!Least, Onboarded!InUse, Onboarded!Numbered, Below, Taken, Candidate, Slug
<1>4. Onboarded!Onboard(r, email[r], base[r], counter[r])
  BY <1>1, <1>3 DEF Onboarded!Onboard, Onboarded!Numbered, Onboarded!None, NoSlug, Commit, Candidate,
                    Slug, AskFor, queue
<1> QED
  BY <1>1, <1>2, <1>4 DEF Onboarded!Next

\* No other step of a registration touches the tables or the mails that left.
LEMMA OtherStepsOnboardNobody ==
  ASSUME [Next]_vars, ~\E r \in Requests : Commit(r)
  PROVE  UNCHANGED <<account, slug>> /\ (UNCHANGED sent \/ (MailStep /\ UNCHANGED regVars))
<1>1. ASSUME NEW r \in Requests, NEW e \in Emails, NEW b \in Names, Register(r, e, b)
      PROVE  UNCHANGED <<account, slug, sent>>
  BY <1>1 DEF Register, tables, mailVars
<1>2. ASSUME NEW r \in Requests, Continue(r) PROVE UNCHANGED <<account, slug, sent>>
  BY <1>2 DEF Continue, CreateUser, EmailTaken, FindAvailableSlug, CreateOrganization, SlugTaken,
              RetryThrows, Answer, End, tables, mailVars
<1>3. ASSUME NEW r \in Requests, Abort(r) \/ Stop(r) PROVE UNCHANGED <<account, slug, sent>>
  BY <1>3 DEF Abort, Stop, End, tables, mailVars, queue
<1>4. ASSUME NEW j \in Jobs, NEW m \in Mails, OtherMail(j, m) PROVE UNCHANGED <<account, slug, sent>>
  BY <1>4 DEF OtherMail, AskFor, regVars, queue
<1>5. MailStep /\ UNCHANGED regVars => UNCHANGED <<account, slug>>
  BY DEF regVars
<1>6. UNCHANGED vars => UNCHANGED <<account, slug, sent>>
  BY DEF vars, regVars, mailVars
<1> QED
  BY <1>1, <1>2, <1>3, <1>4, <1>5, <1>6 DEF Next

\* A step of the queue lets at most one mail leave.
LEMMA OneMailLeaves ==
  ASSUME MailInv, MailStep
  PROVE  UNCHANGED sent \/ \E j \in Jobs : sent' = [sent EXCEPT ![j] = @ + 1]
<1>1. PICK j \in Jobs : EnqueueEmail(j) \/ Work(j) \/ Stall(j)
  BY DEF MailStep
<1>2. CASE EnqueueEmail(j)
  BY <1>2 DEF EnqueueEmail, EnqueueWelcomeEmail, EnqueueInvitationEmail, EnqueuePasswordResetEmail,
              EnqueueLoginOtpEmail, Enqueue, AddJob, AddFails, RecordQueued, queue
<1>3. CASE Take(j) \/ Wake(j) \/ Complete(j) \/ Stall(j)
  BY <1>3 DEF Take, Wake, Complete, Stall
<1>4. CASE Process(j)
  BY <1>4 DEF Process, HandleWelcomeEmail, HandleInvitationEmail, HandlePasswordResetEmail,
              HandleLoginOtpEmail, Handle, SendMail, SendMailThrows, RecordSent, RecordSentThrows,
              Throw, Plus
<1> QED
  BY <1>1, <1>2, <1>3, <1>4 DEF Work

\* A mail that leaves was asked for.
LEMMA SentIsAskedFor ==
  ASSUME MailInv, MailStep, NEW j \in Jobs, sent'[j] # sent[j]
  PROVE  asks[j] # "no"
<1>1. PICK i \in Jobs : EnqueueEmail(i) \/ Work(i) \/ Stall(i)
  BY DEF MailStep
<1>2. ~EnqueueEmail(i) /\ ~(Take(i) \/ Wake(i) \/ Complete(i) \/ Stall(i))
  BY DEF EnqueueEmail, EnqueueWelcomeEmail, EnqueueInvitationEmail, EnqueuePasswordResetEmail,
         EnqueueLoginOtpEmail, Enqueue, AddJob, AddFails, RecordQueued, queue, Take, Wake, Complete, Stall
<1>3. SendMail(i) \/ SendMailThrows(i)
  BY <1>1, <1>2 DEF Work, Process, HandleWelcomeEmail, HandleInvitationEmail,
                    HandlePasswordResetEmail, HandleLoginOtpEmail, Handle, RecordSent,
                    RecordSentThrows, Throw
<1>4. i = j /\ job[j] # "none"
  BY <1>3 DEF SendMail, SendMailThrows, Turns, Plus, MailInv, MailTypeOK
<1> QED
  BY <1>4 DEF MailInv, JobOK

LEMMA MailStepWelcomes ==
  ASSUME Inv, MailsAreBounded', MailStep, UNCHANGED regVars
  PROVE  [Onboarded!Next]_Onboarded!onboarding
<1> USE DEF Onboarded!onboarding
<1>1. Requests \subseteq Jobs /\ UNCHANGED <<account, slug>>
  BY RegistrationAssumption DEF regVars
<1>2. CASE UNCHANGED sent
  BY <1>1, <1>2
<1>3. ASSUME NEW j \in Jobs \ Requests, sent' = [sent EXCEPT ![j] = @ + 1]
      PROVE  UNCHANGED <<account, slug, [r \in Requests |-> sent[r]]>>
  BY <1>1, <1>3 DEF Inv, MailInv, MailTypeOK
<1>4. ASSUME NEW r \in Requests, sent' = [sent EXCEPT ![r] = @ + 1] PROVE Onboarded!Welcome(r)
  <2>1. sent'[r] = sent[r] + 1 /\ sent[r] \in Nat /\ sent'[r] <= Attempts + MaxStalls
    BY <1>1, <1>4 DEF Inv, MailInv, MailTypeOK, MailsAreBounded
  <2>2. sent[r] < Attempts + MaxStalls
    BY <2>1, MailAssumption
  <2>3. slug[r] # NoSlug
    <3>1. MailStep /\ ~UNCHANGED sent => asks[r] # "no"
      BY <1>1, <2>1, SentIsAskedFor DEF Inv
    <3> QED
      BY <2>1, <3>1 DEF Inv, RegInv, UncommittedOK
  <2>4. [q \in Requests |-> sent'[q]] = [[q \in Requests |-> sent[q]] EXCEPT ![r] = @ + 1]
    BY <1>1, <1>4 DEF Inv, MailInv, MailTypeOK
  <2> QED
    BY <1>1, <2>2, <2>3, <2>4 DEF Onboarded!Welcome, Onboarded!None, NoSlug
<1> QED
  BY <1>2, <1>3, <1>4, OneMailLeaves DEF Inv, Onboarded!Next

\* However registrations overlap, fail and stop, they commit what registrations one
\* after the other would: the transaction of register, its locks on the unique keys
\* and its lookups make account and organization one step, under the least number of
\* the name that is free at the commit, and the mail queue bounds the welcome mails.
THEOREM RegistrationImplementsOnboarding == Spec => ImplementsOnboarding
<1>1. Init => Onboarded!Init
  BY RegistrationAssumption DEF Init, MailInit, Onboarded!Init, Onboarded!None, NoSlug
<1>2. Inv /\ MailsAreBounded' /\ [Next]_vars => [Onboarded!Next]_Onboarded!onboarding
  <2> SUFFICES ASSUME Inv, MailsAreBounded', [Next]_vars PROVE [Onboarded!Next]_Onboarded!onboarding
    OBVIOUS
  <2>1. CASE \E r \in Requests : Commit(r)
    BY <2>1, CommitOnboards
  <2>2. CASE ~\E r \in Requests : Commit(r)
    BY <2>2, OtherStepsOnboardNobody, MailStepWelcomes DEF Onboarded!onboarding
  <2> QED
    BY <2>1, <2>2
<1>3. Inv => MailsAreBounded
  BY MailInvImplies DEF Inv
<1> QED
  BY <1>1, <1>2, <1>3, InvHolds, PTL DEF Spec, ImplementsOnboarding, Onboarded!Spec
=============================================================================
