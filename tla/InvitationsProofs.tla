-------------------------- MODULE InvitationsProofs --------------------------
(***************************************************************************)
(* The safety properties of Invitations for any organizations, addresses,  *)
(* invitations and calls.  The unique keys and rows a transaction has      *)
(* written are its own until it ends, which the inductive invariant says   *)
(* of each stage.                                                          *)
(***************************************************************************)
EXTENDS InvitationsRefinement, TLAPS, Naturals

InviteStages == {"invite", "inviteNew"}
AcceptStages == {"accept", "acceptNew"} \cup AcceptTx
AddStages == {"add"} \cup AddTx

\* A call knows whom it is about; one that has an invitation has its address.
LocalsOK(r) ==
  /\ pc[r] \in Stages \cup {"accepted"} => org[r] \in Orgs /\ email[r] \in Emails
  /\ pc[r] \in AcceptStages \cup {"revoke", "accepted"} =>
       /\ inv[r] \in Invitations
       /\ invOrg[inv[r]] = org[r] /\ invEmail[inv[r]] = email[r]

\* What a call has written is not committed by anyone else.
WrittenOK(r) ==
  /\ HoldsInvitation(r) => inv[r] \notin accepted \cup revoked
  /\ HoldsEmail(r) => email[r] \notin Users
  /\ pc[r] = "addKnown" \/ (pc[r] = "addJoined" /\ had[r]) => email[r] \in Users
  /\ pc[r] \in {"addNew", "addUser"} => ~had[r]
  /\ pc[r] = "addKnown" => had[r]
  /\ pc[r] = "addJoined" => status[org[r]][email[r]] = "NONE"
  /\ pc[r] = "accepted" => inv[r] \in accepted /\ creator[email[r]] = r

\* No row or key is written by two open transactions.
Apart(q, r) ==
  /\ HoldsInvitation(q) /\ HoldsInvitation(r) => inv[q] # inv[r]
  /\ HoldsEmail(q) /\ HoldsEmail(r) => email[q] # email[r]
  /\ pc[q] = "addJoined" /\ pc[r] = "addJoined" => org[q] # org[r] \/ email[q] # email[r]

AcceptedMadeAccount ==
  \A i \in accepted : \E r \in Requests : /\ creator[invEmail[i]] = r
                                          /\ pc[r] = "accepted" /\ inv[r] = i

IInv == /\ TypeOK
        /\ \A r \in Requests : LocalsOK(r) /\ WrittenOK(r)
        /\ \A q, r \in Requests : q # r => Apart(q, r)
        /\ AcceptedMadeAccount

-----------------------------------------------------------------------------
\* The steps of one call, by what they leave unchanged.
Reads(r) ==
  \/ InviteCheckOpen(r) \/ AlreadyInvited(r) \/ AcceptCheckUser(r) \/ AcceptKnownUser(r)
  \/ AcceptTooLate(r) \/ AcceptJoin(r) \/ RoleTaken(r) \/ AddFindUser(r) \/ MemberTaken(r)
  \/ EmailTaken(r) \/ Abort(r)

Writes(r) ==
  \/ AcceptMark(r) \/ AcceptCreateUser(r) \/ AcceptCreateRole(r) \/ AddCreateUser(r) \/ AddJoin(r)

Commits(r) == InviteCreate(r) \/ RevokeWrite(r) \/ AcceptCommit(r) \/ AddCommit(r)

World == \/ \E e \in Emails : RegisterElsewhere(e)
         \/ \E o \in Orgs, e \in Emails : Remove(o, e) \/ \E st \in Statuses : SetStatus(o, e, st)
         \/ \E i \in Invitations : Lapse(i)

LEMMA NextCases ==
  ASSUME [Next]_vars
  PROVE  \/ \E r \in Requests : Begin(r) \/ Reads(r) \/ Writes(r) \/ Commits(r)
         \/ World
         \/ UNCHANGED vars
  BY DEF Next, Continue, Reads, Writes, Commits, World

LEMMA RowsKept ==
  ASSUME NEW r \in Requests, Begin(r) \/ Reads(r) \/ Writes(r)
  PROVE  UNCHANGED rows
<1> USE DEF Step, Refuse
<1>1. CASE Begin(r)
  BY <1>1 DEF Begin, InviteCheckMember, AddRead, RevokeRead, AcceptRead, RefuseAtOnce
<1>2. CASE Reads(r)
  BY <1>2 DEF Reads, InviteCheckOpen, AlreadyInvited, AcceptCheckUser, AcceptKnownUser, AcceptTooLate,
              AcceptJoin, RoleTaken, AddFindUser, MemberTaken, EmailTaken, Abort
<1>3. CASE Writes(r)
  BY <1>3 DEF Writes, AcceptMark, AcceptCreateUser, AcceptCreateRole, AddCreateUser, AddJoin
<1> QED
  BY <1>1, <1>2, <1>3

SameCall(q) == /\ pc'[q] = pc[q] /\ org'[q] = org[q] /\ email'[q] = email[q]
               /\ inv'[q] = inv[q] /\ had'[q] = had[q]

\* A call writes its own locals only.
LEMMA OthersKept ==
  ASSUME TypeOK, NEW r \in Requests, Begin(r) \/ Reads(r) \/ Writes(r) \/ Commits(r),
         NEW q \in Requests, q # r
  PROVE  SameCall(q)
<1> USE DEF TypeOK, Go, Step, Refuse, End, Concerns, SameCall
<1>1. CASE Begin(r)
  BY <1>1 DEF Begin, InviteCheckMember, AddRead, RevokeRead, AcceptRead, RefuseAtOnce
<1>2. CASE Reads(r)
  BY <1>2 DEF Reads, InviteCheckOpen, AlreadyInvited, AcceptCheckUser, AcceptKnownUser, AcceptTooLate,
              AcceptJoin, RoleTaken, AddFindUser, MemberTaken, EmailTaken, Abort
<1>3. CASE Writes(r)
  BY <1>3 DEF Writes, AcceptMark, AcceptCreateUser, AcceptCreateRole, AddCreateUser, AddJoin
<1>4. CASE Commits(r)
  BY <1>4 DEF Commits, InviteCreate, RevokeWrite, AcceptCommit, AddCommit
<1> QED
  BY <1>1, <1>2, <1>3, <1>4

LEMMA WorldKeepsCalls ==
  ASSUME World \/ UNCHANGED vars
  PROVE  UNCHANGED <<pc, org, email, inv, had, invOrg, invEmail, accepted, revoked>>
  BY DEF World, RegisterElsewhere, Remove, SetStatus, Lapse, calls, invRows, vars

\* An invitation keeps its organization and address.
LEMMA InvitationsKept ==
  ASSUME TypeOK, [Next]_vars, NEW i \in Invitations, Known(i)
  PROVE  invOrg'[i] = invOrg[i] /\ invEmail'[i] = invEmail[i]
<1>1. ASSUME NEW r \in Requests, Commits(r) PROVE invOrg'[i] = invOrg[i] /\ invEmail'[i] = invEmail[i]
  <2>1. CASE InviteCreate(r)
    <3>1. PICK j \in Invitations : /\ ~Known(j)
                                  /\ invOrg' = [invOrg EXCEPT ![j] = org[r]]
                                  /\ invEmail' = [invEmail EXCEPT ![j] = email[r]]
      BY <2>1 DEF InviteCreate
    <3> QED
      BY <3>1 DEF TypeOK
  <2>2. CASE RevokeWrite(r) \/ AcceptCommit(r) \/ AddCommit(r)
    BY <2>2 DEF RevokeWrite, AcceptCommit, AddCommit, invRows
  <2> QED
    BY <1>1, <2>1, <2>2 DEF Commits
<1> QED
  BY <1>1, NextCases, RowsKept, WorldKeepsCalls DEF rows

LEMMA TypeStep ==
  ASSUME IInv, [Next]_vars
  PROVE  TypeOK'
<1> USE DEF IInv, TypeOK, LocalsOK, WrittenOK, Stages, AcceptTx, AddTx, Ends, AcceptStages, AddStages, Go, Step, End,
            Concerns, Refuse, rows, Known, Users, HoldsEmail, HoldsInvitation
<1>1. ASSUME NEW r \in Requests, Begin(r) PROVE TypeOK'
  <2>0. TypeOK
    OBVIOUS
  <2> HIDE DEF IInv, LocalsOK, WrittenOK
  <2>1. ASSUME NEW o \in Orgs, NEW e \in Emails, InviteCheckMember(r, o, e) \/ AddRead(r, o, e)
        PROVE  TypeOK'
    <3>1. /\ pc' \in [Requests -> Stages \cup Ends \cup {"idle"}]
          /\ Concerns(r, o, e, NoInvitation) /\ UNCHANGED <<rows, had>>
      BY <2>0, <2>1 DEF InviteCheckMember, AddRead
    <3> QED
      BY <2>0, <3>1
  <2>2. ASSUME NEW i \in Invitations, RevokeRead(r, i) \/ AcceptRead(r, i)
        PROVE  TypeOK'
    <3>1. invOrg[i] \in Orgs /\ invEmail[i] \in Emails /\ UNCHANGED <<rows, had>>
      BY <2>0, <2>2 DEF RevokeRead, AcceptRead, Open
    <3>2. Concerns(r, invOrg[i], invEmail[i], i) /\ pc' \in [Requests -> Stages \cup Ends \cup {"idle"}]
      BY <2>0, <2>2 DEF RevokeRead, AcceptRead
    <3> QED
      BY <2>0, <3>1, <3>2
  <2>3. CASE RefuseAtOnce(r)
    BY <2>0, <2>3 DEF RefuseAtOnce
  <2> QED
    BY <1>1, <2>1, <2>2, <2>3 DEF Begin
<1>2. ASSUME NEW r \in Requests, Reads(r) PROVE TypeOK'
  <2>1. CASE InviteCheckOpen(r) \/ AcceptCheckUser(r) \/ AcceptJoin(r)
    BY <2>1 DEF InviteCheckOpen, AcceptCheckUser, AcceptJoin
  <2>2. CASE AlreadyInvited(r) \/ AcceptKnownUser(r) \/ AcceptTooLate(r) \/ RoleTaken(r)
             \/ MemberTaken(r) \/ EmailTaken(r) \/ Abort(r)
    <3>1. Refuse(r)
      BY <2>2 DEF AlreadyInvited, AcceptKnownUser, AcceptTooLate, RoleTaken, MemberTaken, EmailTaken, Abort
    <3> QED
      BY <3>1
  <2>3. CASE AddFindUser(r)
    BY <2>3 DEF AddFindUser
  <2> QED
    BY <1>2, <2>1, <2>2, <2>3 DEF Reads
<1>3. ASSUME NEW r \in Requests, Writes(r) PROVE TypeOK'
  BY <1>3 DEF Writes, AcceptMark, AcceptCreateUser, AcceptCreateRole, AddCreateUser, AddJoin
<1>4. ASSUME NEW r \in Requests, Commits(r) PROVE TypeOK'
  <2>1. CASE InviteCreate(r)
    BY <2>1 DEF InviteCreate
  <2>2. CASE RevokeWrite(r)
    BY <2>2 DEF RevokeWrite
  <2>3. CASE AcceptCommit(r)
    <3>1. /\ org[r] \in Orgs /\ email[r] \in Emails /\ inv[r] \in Invitations
          /\ r \notin {NoOne, Elsewhere}
      BY <2>3, InvitationMarks DEF AcceptCommit
    <3>2. status' = [status EXCEPT ![org[r]][email[r]] = "ACTIVE"]
      BY <2>3 DEF AcceptCommit
    <3>3. status' \in [Orgs -> [Emails -> Statuses \cup {"NONE"}]]
      BY <3>1, <3>2 DEF Statuses
    <3> QED
      BY <2>3, <3>1, <3>2, <3>3 DEF AcceptCommit
  <2>4. CASE AddCommit(r)
    <3>1. /\ org[r] \in Orgs /\ email[r] \in Emails
          /\ r \notin {NoOne, Elsewhere}
      BY <2>4, InvitationMarks DEF AddCommit
    <3>2. status' = [status EXCEPT ![org[r]][email[r]] = "ACTIVE"]
      BY <2>4 DEF AddCommit
    <3>3. status' \in [Orgs -> [Emails -> Statuses \cup {"NONE"}]]
      BY <3>1, <3>2 DEF Statuses
    <3>4. \A e \in Users : e \in Users'
      BY <2>4, <3>1 DEF AddCommit
    <3>5. email[r] \in Users'
      BY <2>4, <3>1 DEF AddCommit
    <3> QED
      BY <2>4, <3>1, <3>2, <3>3, <3>4, <3>5 DEF AddCommit, invRows
  <2> QED
    BY <1>4, <2>1, <2>2, <2>3, <2>4 DEF Commits
<1>5. CASE World
  <2>1. ASSUME NEW e \in Emails, RegisterElsewhere(e) PROVE TypeOK'
    BY <2>1, InvitationMarks DEF RegisterElsewhere, calls, invRows
  <2>2. ASSUME NEW o \in Orgs, NEW e \in Emails, Remove(o, e) PROVE TypeOK'
    BY <2>2 DEF Remove, calls, invRows
  <2>3. ASSUME NEW o \in Orgs, NEW e \in Emails, NEW st \in Statuses, SetStatus(o, e, st) PROVE TypeOK'
    BY <2>3 DEF SetStatus, calls, invRows
  <2>4. ASSUME NEW i \in Invitations, Lapse(i) PROVE TypeOK'
    BY <2>4 DEF Lapse, calls
  <2> QED
    BY <1>5, <2>1, <2>2, <2>3, <2>4 DEF World
<1>6. CASE UNCHANGED vars
  BY <1>6 DEF vars
<1> QED
  BY <1>1, <1>2, <1>3, <1>4, <1>5, <1>6, NextCases

LEMMA LocalsStep ==
  ASSUME IInv, [Next]_vars, NEW q \in Requests
  PROVE  LocalsOK(q)'
<1> USE DEF TypeOK, LocalsOK, Stages, AcceptTx, AddTx, AcceptStages, AddStages
<1>1. TypeOK /\ LocalsOK(q)
  BY DEF IInv
<1>2. CASE SameCall(q)
  <2>1. CASE pc[q] \in AcceptStages \cup {"revoke", "accepted"}
    <3>1. inv[q] \in Invitations /\ Known(inv[q])
      BY <1>1, <2>1, InvitationMarks DEF Known
    <3> QED
      BY <1>1, <1>2, <2>1, <3>1, InvitationsKept DEF SameCall
  <2>2. CASE pc[q] \notin AcceptStages \cup {"revoke", "accepted"}
    BY <1>1, <1>2, <2>2 DEF SameCall
  <2> QED
    BY <2>1, <2>2
<1>3. CASE Begin(q)
  <2> USE DEF Go, Concerns, rows
  <2>1. ASSUME NEW o \in Orgs, NEW e \in Emails, InviteCheckMember(q, o, e) \/ AddRead(q, o, e)
        PROVE  LocalsOK(q)'
    BY <1>1, <2>1 DEF InviteCheckMember, AddRead
  <2>2. ASSUME NEW i \in Invitations, RevokeRead(q, i) \/ AcceptRead(q, i)
        PROVE  LocalsOK(q)'
    <3>1. invOrg[i] \in Orgs /\ invEmail[i] \in Emails
      BY <1>1, <2>2 DEF RevokeRead, AcceptRead, Open, Known
    <3> QED
      BY <1>1, <2>2, <3>1 DEF RevokeRead, AcceptRead
  <2>3. CASE RefuseAtOnce(q)
    BY <1>1, <2>3 DEF RefuseAtOnce, Step
  <2> QED
    BY <1>3, <2>1, <2>2, <2>3 DEF Begin
<1>4. CASE Reads(q) \/ Writes(q)
  <2> USE DEF Go, Step, rows
  <2>1. CASE InviteCheckOpen(q) \/ AcceptCheckUser(q) \/ AcceptJoin(q) \/ AddFindUser(q)
    BY <1>1, <2>1 DEF InviteCheckOpen, AcceptCheckUser, AcceptJoin, AddFindUser
  <2>2. CASE AlreadyInvited(q) \/ AcceptKnownUser(q) \/ AcceptTooLate(q) \/ RoleTaken(q)
             \/ MemberTaken(q) \/ EmailTaken(q) \/ Abort(q)
    BY <1>1, <2>2 DEF AlreadyInvited, AcceptKnownUser, AcceptTooLate, RoleTaken, MemberTaken, EmailTaken,
                      Abort, Refuse, End
  <2>3. CASE Writes(q)
    BY <1>1, <2>3 DEF Writes, AcceptMark, AcceptCreateUser, AcceptCreateRole, AddCreateUser, AddJoin
  <2> QED
    BY <1>4, <2>1, <2>2, <2>3 DEF Reads
<1>5. CASE Commits(q)
  <2>1. CASE InviteCreate(q) \/ RevokeWrite(q) \/ AddCommit(q)
    BY <1>1, <2>1 DEF InviteCreate, RevokeWrite, AddCommit, End
  <2>2. CASE AcceptCommit(q)
    BY <1>1, <2>2 DEF AcceptCommit
  <2> QED
    BY <1>5, <2>1, <2>2 DEF Commits
<1> QED
  BY <1>1, <1>2, <1>3, <1>4, <1>5, NextCases, OthersKept, WorldKeepsCalls DEF SameCall

\* What the other calls and the world commit is not what q has written.
LEMMA WrittenByOthers ==
  ASSUME IInv, [Next]_vars, NEW q \in Requests, SameCall(q), WrittenOK(q)
  PROVE  WrittenOK(q)'
<1> USE DEF TypeOK, WrittenOK, SameCall, HoldsInvitation, HoldsEmail, Users, AcceptTx
<1>1. TypeOK /\ LocalsOK(q)
  BY DEF IInv
<1>2. CASE UNCHANGED <<creator, status, accepted, revoked>>
  BY <1>2
<1>3. ASSUME NEW r \in Requests, RevokeWrite(r) PROVE WrittenOK(q)'
  <2>1. HoldsInvitation(q) => inv[q] # inv[r]
    BY <1>3, <1>1 DEF RevokeWrite, InvitationFree, End
  <2> QED
    BY <1>1, <1>3, <2>1 DEF RevokeWrite
<1>4. ASSUME NEW r \in Requests, AcceptCommit(r), r # q PROVE WrittenOK(q)'
  <2>1. /\ pc[r] \in AcceptTx \ {"marked"}
        /\ creator' = [creator EXCEPT ![email[r]] = r] /\ accepted' = accepted \cup {inv[r]}
        /\ status' = [status EXCEPT ![org[r]][email[r]] = "ACTIVE"]
        /\ UNCHANGED revoked
    BY <1>4 DEF AcceptCommit
  <2>2. email[r] \in Emails \ Users /\ org[r] \in Orgs /\ r # NoOne
    BY <2>1, InvitationMarks DEF IInv, LocalsOK, Stages
  <2>3. Apart(q, r)
    BY <1>4 DEF IInv
  <2>4. HoldsEmail(q) \/ (pc[q] \in {"addKnown", "addJoined"} /\ had[q]) \/ pc[q] = "accepted"
          => email[q] # email[r] \/ pc[q] = "addKnown"
    BY <2>1, <2>2, <2>3, InvitationMarks DEF Apart
  <2>5. pc[q] \in AcceptTx \cup {"accepted", "addKnown", "addUser", "addJoined"} => email[q] \in Emails /\ org[q] \in Orgs
    BY <1>1 DEF LocalsOK, Stages, AddTx
  <2>6. pc[q] = "addJoined" => email[q] # email[r]
    BY <2>4
  <2>7. pc[q] = "accepted" => email[q] # email[r]
    BY <2>4
  <2> QED
    BY <1>1, <2>1, <2>2, <2>3, <2>4, <2>5, <2>6, <2>7 DEF Apart
<1>5. ASSUME NEW r \in Requests, AddCommit(r), r # q PROVE WrittenOK(q)'
  <2>1. /\ pc[r] = "addJoined"
        /\ creator' = IF had[r] THEN creator ELSE [creator EXCEPT ![email[r]] = r]
        /\ status' = [status EXCEPT ![org[r]][email[r]] = "ACTIVE"]
        /\ UNCHANGED <<accepted, revoked>>
    BY <1>5 DEF AddCommit, invRows
  <2>2. email[r] \in Emails /\ org[r] \in Orgs /\ r # NoOne /\ (~had[r] => email[r] \notin Users)
    BY <2>1, InvitationMarks DEF IInv, LocalsOK, Stages, AddTx
  <2>3. Apart(q, r)
    BY <1>5 DEF IInv
  <2>4. pc[q] \in AcceptTx \cup {"accepted", "addKnown", "addUser", "addJoined"} => email[q] \in Emails /\ org[q] \in Orgs
    BY <1>1 DEF LocalsOK, Stages, AddTx
  <2>5. HoldsEmail(q) /\ ~had[r] => email[q] # email[r]
    BY <2>1, <2>3 DEF Apart
  <2>6. HoldsEmail(q) => email[q] \notin Users'
    BY <1>1, <2>1, <2>2, <2>4, <2>5
  <2>7. pc[q] = "addJoined" => status'[org[q]][email[q]] = "NONE"
    BY <1>1, <2>1, <2>2, <2>3, <2>4 DEF Apart
  <2>8. pc[q] = "accepted" => creator'[email[q]] = q
    BY <1>1, <2>1, <2>2, <2>4, InvitationMarks
  <2>9. pc[q] = "addKnown" \/ (pc[q] = "addJoined" /\ had[q]) => email[q] \in Users'
    BY <1>1, <2>1, <2>2, <2>4
  <2> QED
    BY <1>1, <2>1, <2>6, <2>7, <2>8, <2>9
<1>6. ASSUME NEW r \in Requests, InviteCreate(r) PROVE WrittenOK(q)'
  BY <1>6 DEF InviteCreate
<1>7. ASSUME NEW e \in Emails, RegisterElsewhere(e) PROVE WrittenOK(q)'
  <2>1. HoldsEmail(q) => email[q] # e
    BY <1>7 DEF RegisterElsewhere
  <2> QED
    BY <1>1, <1>7, <2>1, InvitationMarks DEF RegisterElsewhere, calls, invRows
<1>8. ASSUME NEW o \in Orgs, NEW e \in Emails, Remove(o, e) \/ \E st \in Statuses : SetStatus(o, e, st)
      PROVE  WrittenOK(q)'
  <2>1. pc[q] = "addJoined" => email[q] \in Emails /\ org[q] \in Orgs /\ (org[q] # o \/ email[q] # e)
    BY <1>1, <1>8 DEF Remove, SetStatus, LocalsOK, Stages, AddTx
  <2> QED
    BY <1>1, <1>8, <2>1 DEF Remove, SetStatus, calls, invRows
<1>9. ASSUME NEW i \in Invitations, Lapse(i) PROVE WrittenOK(q)'
  BY <1>9 DEF Lapse, calls
<1>10. ASSUME NEW r \in Requests, Commits(r), r = q PROVE WrittenOK(q)'
  BY <1>1, <1>10 DEF Commits, InviteCreate, RevokeWrite, AcceptCommit, AddCommit, End
<1> QED
  BY <1>2, <1>3, <1>4, <1>5, <1>6, <1>7, <1>8, <1>9, <1>10, NextCases, RowsKept DEF Commits, World, rows, vars

\* What a call has written itself it has found free.
LEMMA WrittenByItself ==
  ASSUME IInv, NEW q \in Requests, Begin(q) \/ Reads(q) \/ Writes(q) \/ Commits(q)
  PROVE  WrittenOK(q)'
<1> USE DEF TypeOK, WrittenOK, HoldsInvitation, HoldsEmail, Users, AcceptTx, Go, Step
<1>1. TypeOK /\ LocalsOK(q) /\ WrittenOK(q)
  BY DEF IInv
<1>2. CASE Begin(q)
  <2>1. pc'[q] \in {"invite", "add", "revoke", "accept", "over"}
    BY <1>1, <1>2 DEF Begin, InviteCheckMember, AddRead, RevokeRead, AcceptRead, RefuseAtOnce
  <2> QED
    BY <2>1
<1>3. CASE Reads(q)
  <2>1. CASE InviteCheckOpen(q) \/ AcceptCheckUser(q)
    BY <1>1, <2>1 DEF InviteCheckOpen, AcceptCheckUser
  <2>2. CASE AcceptJoin(q) \/ AddFindUser(q)
    BY <1>1, <2>2 DEF AcceptJoin, AddFindUser, rows
  <2>3. CASE AlreadyInvited(q) \/ AcceptKnownUser(q) \/ AcceptTooLate(q) \/ RoleTaken(q)
             \/ MemberTaken(q) \/ EmailTaken(q) \/ Abort(q)
    <3>1. pc'[q] = "over"
      BY <1>1, <2>3 DEF AlreadyInvited, AcceptKnownUser, AcceptTooLate, RoleTaken, MemberTaken, EmailTaken,
                        Abort, Refuse, End
    <3> QED
      BY <3>1
  <2> QED
    BY <1>3, <2>1, <2>2, <2>3 DEF Reads
<1>4. CASE Writes(q)
  <2>1. CASE AcceptMark(q) \/ AcceptCreateUser(q) \/ AcceptCreateRole(q) \/ AddCreateUser(q)
    BY <1>1, <2>1 DEF AcceptMark, AcceptCreateUser, AcceptCreateRole, AddCreateUser, rows
  <2>2. CASE AddJoin(q)
    BY <1>1, <2>2 DEF AddJoin, rows
  <2> QED
    BY <1>4, <2>1, <2>2 DEF Writes
<1>5. CASE Commits(q)
  <2>1. CASE InviteCreate(q) \/ RevokeWrite(q) \/ AddCommit(q)
    <3>1. pc'[q] = "over"
      BY <1>1, <2>1 DEF InviteCreate, RevokeWrite, AddCommit, End
    <3> QED
      BY <3>1
  <2>2. CASE AcceptCommit(q)
    <3>1. email[q] \in Emails
      BY <1>1, <2>2 DEF AcceptCommit, LocalsOK, Stages
    <3> QED
      BY <1>1, <2>2, <3>1 DEF AcceptCommit
  <2> QED
    BY <1>5, <2>1, <2>2 DEF Commits
<1> QED
  BY <1>2, <1>3, <1>4, <1>5

LEMMA WrittenStep ==
  ASSUME IInv, [Next]_vars, NEW q \in Requests
  PROVE  WrittenOK(q)'
<1>1. TypeOK /\ WrittenOK(q)
  BY DEF IInv
<1> QED
  BY <1>1, WrittenByItself, WrittenByOthers, NextCases, OthersKept, WorldKeepsCalls DEF vars, SameCall

\* A call writes only what the other has not.
LEMMA ApartByOne ==
  ASSUME IInv, NEW q \in Requests, Begin(q) \/ Reads(q) \/ Writes(q) \/ Commits(q),
         NEW r \in Requests, r # q, SameCall(r)
  PROVE  Apart(q, r)'
<1> USE DEF TypeOK, Apart, SameCall, HoldsInvitation, HoldsEmail, AcceptTx, Go, Step
<1>1. TypeOK /\ WrittenOK(q) /\ Apart(q, r)
  BY DEF IInv
<1>2. CASE Writes(q)
  <2>1. CASE AcceptMark(q)
    BY <1>1, <2>1 DEF AcceptMark, InvitationFree
  <2>2. CASE AcceptCreateUser(q) \/ AddCreateUser(q)
    BY <1>1, <2>2 DEF AcceptCreateUser, AddCreateUser, EmailFree
  <2>3. CASE AcceptCreateRole(q)
    BY <1>1, <2>3 DEF AcceptCreateRole
  <2>4. CASE AddJoin(q)
    <3>1. pc'[r] = "addJoined" => org[q] # org[r] \/ email[q] # email[r]
      BY <2>4 DEF AddJoin, MemberFree, HoldsMember
    <3>2. HoldsEmail(q)' => HoldsEmail(q)
      BY <1>1, <2>4 DEF AddJoin, WrittenOK
    <3> QED
      BY <1>1, <2>4, <3>1, <3>2 DEF AddJoin
  <2> QED
    BY <1>2, <2>1, <2>2, <2>3, <2>4 DEF Writes
<1>3. CASE AcceptJoin(q)
  BY <1>1, <1>3 DEF AcceptJoin
<1>4. CASE (Begin(q) \/ Reads(q) \/ Commits(q)) /\ ~AcceptJoin(q)
  <2>1. CASE Begin(q)
    BY <1>1, <2>1 DEF Begin, InviteCheckMember, AddRead, RevokeRead, AcceptRead, RefuseAtOnce
  <2>2. CASE InviteCheckOpen(q) \/ AcceptCheckUser(q) \/ AddFindUser(q)
    BY <1>1, <2>2 DEF InviteCheckOpen, AcceptCheckUser, AddFindUser
  <2>3. CASE AlreadyInvited(q) \/ AcceptKnownUser(q) \/ AcceptTooLate(q) \/ RoleTaken(q)
             \/ MemberTaken(q) \/ EmailTaken(q) \/ Abort(q)
    BY <1>1, <2>3 DEF AlreadyInvited, AcceptKnownUser, AcceptTooLate, RoleTaken, MemberTaken, EmailTaken,
                      Abort, Refuse, End
  <2>4. CASE Commits(q)
    BY <1>1, <2>4 DEF Commits, InviteCreate, RevokeWrite, AcceptCommit, AddCommit, End
  <2> QED
    BY <1>4, <2>1, <2>2, <2>3, <2>4 DEF Reads
<1> QED
  BY <1>2, <1>3, <1>4

LEMMA ApartStep ==
  ASSUME IInv, [Next]_vars, NEW q \in Requests, NEW r \in Requests, q # r
  PROVE  Apart(q, r)'
<1>1. TypeOK /\ Apart(q, r)
  BY DEF IInv
<1>2. CASE SameCall(q) /\ SameCall(r)
  BY <1>1, <1>2 DEF Apart, SameCall, HoldsInvitation, HoldsEmail
<1>3. ASSUME Begin(q) \/ Reads(q) \/ Writes(q) \/ Commits(q) PROVE Apart(q, r)'
  BY <1>1, <1>3, OthersKept, ApartByOne
<1>4. ASSUME Begin(r) \/ Reads(r) \/ Writes(r) \/ Commits(r) PROVE Apart(q, r)'
  <2>1. Apart(r, q)'
    BY <1>1, <1>4, OthersKept, ApartByOne
  <2> QED
    BY <2>1 DEF Apart
<1> QED
  BY <1>1, <1>2, <1>3, <1>4, NextCases, OthersKept, WorldKeepsCalls DEF vars, SameCall

\* An acceptance is final.
LEMMA AcceptedStays ==
  ASSUME IInv, [Next]_vars, NEW r \in Requests, pc[r] = "accepted"
  PROVE  SameCall(r)
<1>1. TypeOK
  BY DEF IInv
<1>2. ~(Begin(r) \/ Reads(r) \/ Writes(r) \/ Commits(r))
  BY DEF Begin, Reads, Writes, Commits, Go, Step, Refuse, InviteCheckMember, AddRead, RevokeRead, AcceptRead,
         RefuseAtOnce, InviteCheckOpen, AlreadyInvited, AcceptCheckUser, AcceptKnownUser, AcceptTooLate,
         AcceptJoin, RoleTaken, AddFindUser, MemberTaken, EmailTaken, Abort, Stages, AcceptTx, AddTx,
         AcceptMark, AcceptCreateUser, AcceptCreateRole, AddCreateUser, AddJoin,
         InviteCreate, RevokeWrite, AcceptCommit, AddCommit
<1> QED
  BY <1>1, <1>2, NextCases, OthersKept, WorldKeepsCalls DEF vars, SameCall

\* Only a commit of an acceptance makes an invitation accepted.
LEMMA NewlyAccepted ==
  ASSUME [Next]_vars, NEW i \in accepted', i \notin accepted
  PROVE  \E r \in Requests : AcceptCommit(r) /\ inv[r] = i
<1>1. ASSUME NEW r \in Requests, Commits(r) PROVE AcceptCommit(r) /\ inv[r] = i
  BY <1>1 DEF Commits, InviteCreate, RevokeWrite, AcceptCommit, AddCommit, invRows
<1> QED
  BY <1>1, NextCases, RowsKept, WorldKeepsCalls DEF rows

LEMMA AcceptedStep ==
  ASSUME IInv, [Next]_vars
  PROVE  AcceptedMadeAccount'
<1> SUFFICES ASSUME NEW i \in accepted'
             PROVE  \E r \in Requests : /\ creator'[invEmail'[i]] = r
                                        /\ pc'[r] = "accepted" /\ inv'[r] = i
  BY DEF AcceptedMadeAccount
<1>1. \E r \in Requests : pc'[r] = "accepted" /\ inv'[r] = i
  <2>1. CASE i \in accepted
    <3>1. PICK r \in Requests : pc[r] = "accepted" /\ inv[r] = i
      BY <2>1 DEF IInv, AcceptedMadeAccount
    <3> QED
      BY <3>1, AcceptedStays DEF SameCall
  <2>2. CASE i \notin accepted
    <3>1. PICK r \in Requests : AcceptCommit(r) /\ inv[r] = i
      BY <2>2, NewlyAccepted
    <3> QED
      BY <3>1 DEF AcceptCommit, IInv, TypeOK
  <2> QED
    BY <2>1, <2>2
<1>2. PICK r \in Requests : pc'[r] = "accepted" /\ inv'[r] = i
  BY <1>1
<1>3. LocalsOK(r)' /\ WrittenOK(r)'
  BY LocalsStep, WrittenStep
<1>4. invEmail'[i] = email'[r] /\ creator'[email'[r]] = r
  BY <1>2, <1>3 DEF LocalsOK, WrittenOK
<1> QED
  BY <1>2, <1>4

-----------------------------------------------------------------------------
LEMMA InitInductive == Init => IInv
<1> SUFFICES ASSUME Init PROVE IInv
  OBVIOUS
<1>1. TypeOK
  BY InvitationMarks DEF Init, TypeOK, Known
<1>2. \A r \in Requests : pc[r] = "idle"
  BY DEF Init
<1>3. \A r \in Requests : LocalsOK(r) /\ WrittenOK(r)
  BY <1>2 DEF LocalsOK, WrittenOK, Stages, AcceptTx, AddTx, AcceptStages, HoldsInvitation, HoldsEmail
<1>4. \A q, r \in Requests : Apart(q, r)
  BY <1>2 DEF Apart, AcceptTx, HoldsInvitation, HoldsEmail
<1> QED
  BY <1>1, <1>3, <1>4 DEF Init, IInv, AcceptedMadeAccount

LEMMA NextInductive == IInv /\ [Next]_vars => IInv'
<1> SUFFICES ASSUME IInv, [Next]_vars PROVE IInv'
  OBVIOUS
<1> QED
  BY TypeStep, LocalsStep, WrittenStep, ApartStep, AcceptedStep DEF IInv

LEMMA Inductive == Spec => []IInv
  BY InitInductive, NextInductive, PTL DEF Spec

\* Every value keeps its type, every member has an account and every invitation
\* its organization, at every step of every call.
THEOREM InvitationTypesCorrect == Spec => []TypeOK
<1>1. IInv => TypeOK
  BY DEF IInv
<1> QED
  BY <1>1, Inductive, PTL

\* The transaction of acceptInvite: the account of the address of an accepted
\* invitation was made by the call that accepted it.
THEOREM AcceptancesMakeAccounts == Spec => []AcceptanceMakesTheAccount
<1>1. IInv => AcceptanceMakesTheAccount
  BY DEF IInv, WrittenOK, AcceptedMadeAccount, AcceptanceMakesTheAccount
<1> QED
  BY <1>1, Inductive, PTL

\* markAsAcceptedAtomic: what was revoked before is not accepted after.
THEOREM RevokedStaysUnaccepted == Spec => RevokedIsNotAccepted
<1>1. IInv /\ [Next]_vars => [\A i \in revoked : i \in accepted' => i \in accepted]_vars
  <2> SUFFICES ASSUME IInv, [Next]_vars, NEW i \in revoked, i \in accepted', i \notin accepted
               PROVE  FALSE
    OBVIOUS
  <2>1. PICK r \in Requests : AcceptCommit(r) /\ inv[r] = i
    BY NewlyAccepted
  <2> QED
    BY <2>1 DEF AcceptCommit, IInv, WrittenOK, HoldsInvitation, AcceptTx
<1> QED
  BY <1>1, Inductive, PTL DEF Spec, RevokedIsNotAccepted

\* Neither an acceptance nor an addition writes over a membership that is there.
THEOREM MembershipsStay == Spec => MembershipsAreNotOverwritten
<1>1. IInv /\ [Next]_vars => [pc' # pc => \A o \in Orgs, e \in Emails :
                                status[o][e] # "NONE" => status'[o][e] = status[o][e]]_vars
  <2> SUFFICES ASSUME IInv, [Next]_vars, pc' # pc,
                      NEW o \in Orgs, NEW e \in Emails, status[o][e] # "NONE"
               PROVE  status'[o][e] = status[o][e]
    OBVIOUS
  <2>1. TypeOK
    BY DEF IInv
  <2>2. ASSUME NEW r \in Requests, AcceptCommit(r) \/ AddCommit(r) PROVE status'[o][e] = status[o][e]
    <3>1. /\ status' = [status EXCEPT ![org[r]][email[r]] = "ACTIVE"]
          /\ org[r] \in Orgs /\ email[r] \in Emails
      BY <2>2 DEF AcceptCommit, AddCommit, IInv, LocalsOK, Stages, AcceptTx, AddTx
    <3>2. status[org[r]][email[r]] = "NONE"
      BY <2>1, <2>2, <3>1 DEF AcceptCommit, AddCommit, IInv, WrittenOK, HoldsEmail, AcceptTx, TypeOK
    <3> QED
      BY <2>1, <3>1, <3>2 DEF TypeOK
  <2>3. ASSUME NEW r \in Requests, InviteCreate(r) \/ RevokeWrite(r) PROVE status'[o][e] = status[o][e]
    BY <2>3 DEF InviteCreate, RevokeWrite
  <2> QED
    BY <2>2, <2>3, NextCases, RowsKept, WorldKeepsCalls DEF Commits, rows
<1> QED
  BY <1>1, Inductive, PTL DEF Spec, MembershipsAreNotOverwritten
-----------------------------------------------------------------------------
\* Waiting

\* The next statement of call r meets what the open transaction of q has written.
WaitsFor(r, q) ==
  /\ q # r
  /\ \/ /\ pc[r] \in {"acceptNew", "revoke"}
        /\ HoldsInvitation(q) /\ inv[q] = inv[r]
     \/ /\ pc[r] \in {"marked", "addNew"}
        /\ HoldsEmail(q) /\ email[q] = email[r]
     \/ /\ pc[r] \in {"addKnown", "addUser"}
        /\ HoldsMember(q) /\ org[q] = org[r] /\ email[q] = email[r]
     \/ /\ pc[r] = "roleMissing"
        /\ HoldsRole(q) /\ org[q] = org[r]

NoCircleOfWaits ==
  \A S \in SUBSET Requests : S # {} => \E r \in S : \A q \in S : ~WaitsFor(r, q)

\* A call that waits for nobody finds the rows and keys of its next statement free.
LEMMA WaitsAreTheLocks ==
  ASSUME NEW r \in Requests
  PROVE  /\ pc[r] \in {"acceptNew", "revoke"} =>
              (InvitationFree(r) <=> \A q \in Requests : ~WaitsFor(r, q))
         /\ pc[r] \in {"marked", "addNew"} =>
              (EmailFree(email[r], r) <=> \A q \in Requests : ~WaitsFor(r, q))
         /\ pc[r] \in {"addKnown", "addUser"} =>
              (MemberFree(r) <=> \A q \in Requests : ~WaitsFor(r, q))
         /\ pc[r] = "roleMissing" =>
              (RoleFree(r) <=> \A q \in Requests : ~WaitsFor(r, q))
BY DEF WaitsFor, InvitationFree, EmailFree, MemberFree, RoleFree

\* How far a call is with its keys: invitation, address, member, role.
Level(r) == IF pc[r] \in {"acceptNew", "revoke"} THEN 0
            ELSE IF pc[r] \in {"marked", "addNew"} THEN 1
            ELSE IF pc[r] \in {"userMade", "addKnown", "addUser"} THEN 2
            ELSE IF pc[r] = "roleMissing" THEN 3
            ELSE 4

\* A call waits only for calls that are further.
LEMMA WaitsAscend ==
  ASSUME NEW r \in Requests, NEW q \in Requests, WaitsFor(r, q)
  PROVE  Level(r) < Level(q)
BY DEF WaitsFor, Level, HoldsInvitation, HoldsEmail, HoldsMember, HoldsRole, AcceptTx

\* Accepting, adding and revoking calls never wait in a circle for each other's rows and
\* unique keys: acceptInvite and members.create insert the account before the member, and
\* the member before the role.
THEOREM InvitationsNeverDeadlock == Spec => []NoCircleOfWaits
<1>1. NoCircleOfWaits
  <2> SUFFICES ASSUME NEW S \in SUBSET Requests, S # {},
                      \A r \in S : \E q \in S : WaitsFor(r, q)
               PROVE  FALSE
    BY DEF NoCircleOfWaits
  <2>1. \A r \in S : Level(r) \in 0 .. 4
    BY DEF Level
  <2>2. \A r \in S : \E q \in S : Level(r) < Level(q)
    BY WaitsAscend
  <2>3. PICK r1 \in S : Level(r1) > 0
    BY <2>1, <2>2
  <2>4. PICK r2 \in S : Level(r2) > 1
    BY <2>1, <2>2, <2>3
  <2>5. PICK r3 \in S : Level(r3) > 2
    BY <2>1, <2>2, <2>4
  <2>6. PICK r4 \in S : Level(r4) > 3
    BY <2>1, <2>2, <2>5
  <2> QED
    BY <2>1, <2>2, <2>6
<1> QED
  BY <1>1, PTL

-----------------------------------------------------------------------------
\* The refinement of Membership

LEMMA UsersAre == TypeOK => \A e \in Emails : e \in Users <=> creator[e] # NoOne
BY DEF Users

LEMMA InviteStep ==
  ASSUME IInv, NEW r \in Requests, InviteCreate(r)
  PROVE  Members!Next
<1>1. PICK i \in Invitations : /\ ~Known(i)
                              /\ invOrg' = [invOrg EXCEPT ![i] = org[r]]
                              /\ invEmail' = [invEmail EXCEPT ![i] = email[r]]
  BY DEF InviteCreate
<1>2. org[r] \in Orgs /\ email[r] \in Emails
  BY DEF InviteCreate, IInv, LocalsOK, Stages
<1>3. UNCHANGED <<creator, status, accepted, revoked>>
  BY DEF InviteCreate
<1>4. SentTo' = [SentTo EXCEPT ![i] = <<org[r], email[r]>>]
  BY <1>1, <1>2, InvitationMarks DEF SentTo, Known, IInv, TypeOK
<1>5. SentTo[i] = << >>
  BY <1>1 DEF SentTo
<1>6. Members!Invite(i, org[r], email[r])
  BY <1>3, <1>4, <1>5 DEF Members!Invite, Members!Unsent, Users
<1> QED
  BY <1>2, <1>6 DEF Members!Next

\* What an invitation knows is what the call read.
LEMMA SentToIs ==
  ASSUME NEW i \in Invitations
  PROVE  /\ Known(i) => SentTo[i] = <<invOrg[i], invEmail[i]>>
         /\ ~Known(i) => SentTo[i] = << >>
BY DEF SentTo

LEMMA RevokeStep ==
  ASSUME IInv, NEW r \in Requests, RevokeWrite(r)
  PROVE  Members!Next
<1>1. inv[r] \in Invitations /\ Known(inv[r])
  BY InvitationMarks DEF RevokeWrite, IInv, LocalsOK, Stages, Known
<1>2. SentTo[inv[r]] # << >>
  BY <1>1, SentToIs
<1>3. Members!Revoke(inv[r])
  BY <1>2 DEF Members!Revoke, Members!Unsent, RevokeWrite, Users, SentTo, Known
<1> QED
  BY <1>1, <1>3 DEF Members!Next

LEMMA AcceptStep ==
  ASSUME IInv, NEW r \in Requests, AcceptCommit(r)
  PROVE  Members!Next
<1>1. /\ org[r] \in Orgs /\ email[r] \in Emails /\ inv[r] \in Invitations
      /\ invOrg[inv[r]] = org[r] /\ invEmail[inv[r]] = email[r]
      /\ inv[r] \notin accepted \cup revoked /\ email[r] \notin Users
  BY DEF AcceptCommit, IInv, LocalsOK, WrittenOK, Stages, AcceptStages, AcceptTx, HoldsInvitation, HoldsEmail
<1>2. SentTo[inv[r]] = <<org[r], email[r]>>
  BY <1>1, SentToIs, InvitationMarks DEF Known
<1>3. status[org[r]][email[r]] = "NONE"
  BY <1>1 DEF IInv, TypeOK
<1>4. Users' = Users \cup {email[r]}
  BY <1>1, InvitationMarks DEF AcceptCommit, IInv, TypeOK, Users
<1>5. Members!Accept(inv[r], org[r], email[r])
  BY <1>1, <1>2, <1>3, <1>4 DEF Members!Accept, Members!Join, AcceptCommit, SentTo, Known
<1> QED
  BY <1>1, <1>5 DEF Members!Next

LEMMA EnrollStep ==
  ASSUME IInv, NEW r \in Requests, AddCommit(r)
  PROVE  Members!Next
<1>1. /\ org[r] \in Orgs /\ email[r] \in Emails /\ status[org[r]][email[r]] = "NONE"
      /\ had[r] => email[r] \in Users
  BY DEF AddCommit, IInv, LocalsOK, WrittenOK, Stages, AddTx
<1>2. Users' = Users \cup {email[r]}
  BY <1>1, InvitationMarks DEF AddCommit, IInv, TypeOK, Users
<1>3. Members!Enroll(org[r], email[r])
  BY <1>1, <1>2 DEF Members!Enroll, Members!Join, AddCommit, invRows, SentTo, Known
<1> QED
  BY <1>1, <1>3 DEF Members!Next

LEMMA WorldStep ==
  ASSUME IInv, World
  PROVE  [Members!Next]_Members!membership
<1>1. ASSUME NEW e \in Emails, RegisterElsewhere(e) PROVE Members!Register(e)
  <2>1. Users' = Users \cup {e}
    BY <1>1, InvitationMarks DEF RegisterElsewhere, IInv, TypeOK, Users
  <2> QED
    BY <1>1, <2>1 DEF Members!Register, RegisterElsewhere, invRows, SentTo, Known
<1>2. ASSUME NEW o \in Orgs, NEW e \in Emails, NEW st \in Statuses, SetStatus(o, e, st)
      PROVE  Members!Manage(o, e)
  BY <1>2 DEF Members!Manage, SetStatus, Statuses, invRows, SentTo, Known, Users
<1>3. ASSUME NEW o \in Orgs, NEW e \in Emails, Remove(o, e)
      PROVE  Members!Manage(o, e)
  BY <1>3 DEF Members!Manage, Remove, invRows, SentTo, Known, Users
<1>4. ASSUME NEW i \in Invitations, Lapse(i) PROVE UNCHANGED Members!membership
  BY <1>4 DEF Members!membership, Lapse, SentTo, Known, Users
<1> QED
  BY <1>1, <1>2, <1>3, <1>4 DEF World, Members!Next

\* Whatever the calls of an organization read before their transactions, and however these
\* overlap, fail and wait, their commits are single changes of accounts, memberships and
\* invitations that were allowed at that moment: an acceptance is all or nothing, happens
\* once, never after a revocation, and makes the account and the membership.
THEOREM InvitationsImplementMembership == Spec => Members!Init /\ ImplementsMembership
<1>1. Init => Members!Init
  BY DEF Init, Members!Init, Members!Unsent, SentTo, Known, Users
<1>2. IInv /\ [Next]_vars => [Members!Next]_Members!membership
  <2> SUFFICES ASSUME IInv, [Next]_vars PROVE [Members!Next]_Members!membership
    OBVIOUS
  <2>1. ASSUME NEW r \in Requests, Begin(r) \/ Reads(r) \/ Writes(r) PROVE UNCHANGED Members!membership
    BY <2>1, RowsKept DEF rows, Members!membership, SentTo, Known, Users
  <2>2. ASSUME NEW r \in Requests, Commits(r) PROVE Members!Next
    BY <2>2, InviteStep, RevokeStep, AcceptStep, EnrollStep DEF Commits
  <2>3. CASE UNCHANGED vars
    BY <2>3 DEF vars, Members!membership, SentTo, Known, Users
  <2> QED
    BY <2>1, <2>2, <2>3, WorldStep, NextCases
<1> QED
  BY <1>1, <1>2, Inductive, PTL DEF Spec, ImplementsMembership
=============================================================================
