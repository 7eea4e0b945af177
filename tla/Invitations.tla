----------------------------- MODULE Invitations -----------------------------
(***************************************************************************)
(* How people become members of an organization: invitations are sent,     *)
(* revoked and accepted (invitations-management.service.ts and the         *)
(* invitation.service.ts of auth), or an administrator adds the member     *)
(* (members.service.ts).                                                   *)
(*                                                                         *)
(* Each call reads rows outside any transaction, decides, and then writes  *)
(* in one transaction.  A transaction inserts under the unique indexes of  *)
(* users.email, organization_users(organizationId, email) and              *)
(* roles(organizationId, key), and updates invitations by id; what it has  *)
(* written but not committed follows from its stage pc[r].  An insert or   *)
(* update that meets the uncommitted work of another waits for its end.    *)
(***************************************************************************)
EXTENDS FiniteSets

CONSTANTS Orgs, Emails, Invitations, Requests, NoOrg, NoEmail, NoInvitation, NoOne, Elsewhere

ASSUME InvitationMarks == /\ NoOrg \notin Orgs
                          /\ NoEmail \notin Emails
                          /\ NoInvitation \notin Invitations
                          /\ NoOne # Elsewhere
                          /\ {NoOne, Elsewhere} \cap Requests = {}

VARIABLES
  \* committed rows
  creator,       \* the call that created the account of the address, if any
  status,        \* OrganizationUser.status by organization and address, or "NONE"
  roleMade,      \* organizations that have their MEMBER role
  invOrg, invEmail,
  accepted, revoked, lapsed,   \* acceptedAt and revokedAt are set, expiresAt has passed
  \* calls
  pc, org, email, inv,
  had            \* the account existed when the call looked it up

rows == <<creator, status, roleMade, invOrg, invEmail, accepted, revoked, lapsed>>
invRows == <<invOrg, invEmail, accepted, revoked, lapsed>>
calls == <<pc, org, email, inv, had>>
vars == <<creator, status, roleMade, invOrg, invEmail, accepted, revoked, lapsed,
          pc, org, email, inv, had>>

\* INVITED is read as ACTIVE and REMOVED as SUSPENDED: nothing here tells them apart.
Statuses == {"ACTIVE", "SUSPENDED"}

AcceptTx == {"marked", "userMade", "roleMissing", "roleReady", "roleCreated"}
AddTx == {"addKnown", "addNew", "addUser", "addJoined"}
Stages == {"accept", "acceptNew", "invite", "inviteNew", "revoke", "add"} \cup AcceptTx \cup AddTx
Ends == {"accepted", "over"}

Users == {e \in Emails : creator[e] # NoOne}
Known(i) == invEmail[i] # NoEmail
Open(i) == Known(i) /\ i \notin accepted \cup revoked \cup lapsed

Init ==
  /\ creator = [e \in Emails |-> NoOne]
  /\ status = [o \in Orgs |-> [e \in Emails |-> "NONE"]]
  /\ roleMade = {}
  /\ invOrg = [i \in Invitations |-> NoOrg]
  /\ invEmail = [i \in Invitations |-> NoEmail]
  /\ accepted = {} /\ revoked = {} /\ lapsed = {}
  /\ pc = [r \in Requests |-> "idle"]
  /\ org = [r \in Requests |-> NoOrg]
  /\ email = [r \in Requests |-> NoEmail]
  /\ inv = [r \in Requests |-> NoInvitation]
  /\ had = [r \in Requests |-> FALSE]

-----------------------------------------------------------------------------
\* What the open transactions have written

HoldsInvitation(r) == pc[r] \in AcceptTx
HoldsEmail(r) == \/ pc[r] \in AcceptTx \ {"marked"}
                 \/ pc[r] = "addUser"
                 \/ pc[r] = "addJoined" /\ ~had[r]
HoldsMember(r) == pc[r] \in AcceptTx \ {"marked", "userMade"} \/ pc[r] = "addJoined"
HoldsRole(r) == pc[r] = "roleCreated"

InvitationFree(r) == \A q \in Requests \ {r} : ~(HoldsInvitation(q) /\ inv[q] = inv[r])
EmailFree(e, r) == \A q \in Requests \ {r} : ~(HoldsEmail(q) /\ email[q] = e)
MemberFree(r) == \A q \in Requests \ {r} : ~(HoldsMember(q) /\ org[q] = org[r] /\ email[q] = email[r])
RoleFree(r) == \A q \in Requests \ {r} : ~(HoldsRole(q) /\ org[q] = org[r])

Go(r, from, to) == pc[r] = from /\ pc' = [pc EXCEPT ![r] = to]
Step(r, from, to) == Go(r, from, to) /\ UNCHANGED <<rows, org, email, inv, had>>
Concerns(r, o, e, i) == /\ org' = [org EXCEPT ![r] = o]
                        /\ email' = [email EXCEPT ![r] = e]
                        /\ inv' = [inv EXCEPT ![r] = i]

\* The call ends, and nothing remembers what it was about nor how it ended: only
\* an acceptance does.
End(r) == /\ pc' = [pc EXCEPT ![r] = "over"]
          /\ Concerns(r, NoOrg, NoEmail, NoInvitation)
          /\ had' = [had EXCEPT ![r] = FALSE]

\* The transaction is rolled back, or there was none: the call leaves nothing.
Refuse(r) == End(r) /\ UNCHANGED rows

-----------------------------------------------------------------------------
\* createInvitation

\* An active or invited member is not invited; a suspended or removed one, or an
\* account that is no member, is.
InviteCheckMember(r, o, e) ==
  /\ status[o][e] # "ACTIVE"
  /\ Go(r, "idle", "invite")
  /\ Concerns(r, o, e, NoInvitation)
  /\ UNCHANGED <<rows, had>>

OpenFor(o, e) == \E i \in Invitations : Open(i) /\ invOrg[i] = o /\ invEmail[i] = e

InviteCheckOpen(r) == ~OpenFor(org[r], email[r]) /\ Step(r, "invite", "inviteNew")

AlreadyInvited(r) == pc[r] = "invite" /\ OpenFor(org[r], email[r]) /\ Refuse(r)

InviteCreate(r) ==
  /\ pc[r] = "inviteNew" /\ End(r)
  /\ \E i \in Invitations : ~Known(i)
  /\ LET i == CHOOSE i \in Invitations : ~Known(i)
     IN /\ invOrg' = [invOrg EXCEPT ![i] = org[r]]
        /\ invEmail' = [invEmail EXCEPT ![i] = email[r]]
  /\ UNCHANGED <<creator, status, roleMade, accepted, revoked, lapsed>>

-----------------------------------------------------------------------------
\* revokeInvitation

RevokeRead(r, i) ==
  /\ Known(i) /\ i \notin accepted \cup revoked
  /\ Go(r, "idle", "revoke")
  /\ Concerns(r, invOrg[i], invEmail[i], i)
  /\ UNCHANGED <<rows, had>>

\* The update sets revokedAt by id alone.
RevokeWrite(r) ==
  /\ pc[r] = "revoke" /\ End(r)
  /\ InvitationFree(r)
  /\ revoked' = revoked \cup {inv[r]}
  /\ UNCHANGED <<creator, status, roleMade, invOrg, invEmail, accepted, lapsed>>

-----------------------------------------------------------------------------
\* acceptInvite

AcceptRead(r, i) ==
  /\ Open(i)
  /\ Go(r, "idle", "accept")
  /\ Concerns(r, invOrg[i], invEmail[i], i)
  /\ UNCHANGED <<rows, had>>

AcceptCheckUser(r) == email[r] \notin Users /\ Step(r, "accept", "acceptNew")

AcceptKnownUser(r) == pc[r] = "accept" /\ email[r] \in Users /\ Refuse(r)

\* Variant: markAsAccepted, which updates by id alone.
AcceptMarkBlind(r) == Step(r, "acceptNew", "marked") /\ InvitationFree(r)

\* markAsAcceptedAtomic: the update that finds the row neither accepted nor
\* revoked.  Its date is not looked at again.
AcceptMark(r) ==
  /\ Step(r, "acceptNew", "marked")
  /\ InvitationFree(r)
  /\ inv[r] \notin accepted \cup revoked

AcceptTooLate(r) ==
  /\ pc[r] = "acceptNew"
  /\ InvitationFree(r)
  /\ inv[r] \in accepted \cup revoked
  /\ Refuse(r)

\* Variant: the account of the address is taken over if there is one by now.
AcceptAnyUser(r) == Step(r, "marked", "userMade") /\ EmailFree(email[r], r)

AcceptCreateUser(r) ==
  /\ Step(r, "marked", "userMade")
  /\ EmailFree(email[r], r) /\ email[r] \notin Users

\* Variant: the unique violation is caught and the insert tried again.
EmailTakenRetried(r) ==
  /\ pc[r] \in {"marked", "addNew"}
  /\ email[r] \in Users
  /\ UNCHANGED vars

\* The unique index of users.email, for an acceptance and for an addition.
EmailTaken(r) ==
  /\ pc[r] \in {"marked", "addNew"}
  /\ email[r] \in Users
  /\ Refuse(r)

\* The membership is inserted - it cannot clash, as no one else has the account -
\* and provisionSystemRole looks for the MEMBER role.
AcceptJoin(r) ==
  /\ pc[r] = "userMade"
  /\ Step(r, "userMade", IF org[r] \in roleMade THEN "roleReady" ELSE "roleMissing")

AcceptCreateRole(r) ==
  /\ Step(r, "roleMissing", "roleCreated")
  /\ RoleFree(r) /\ org[r] \notin roleMade

\* The unique index of roles(organizationId, key).
RoleTaken(r) ==
  /\ pc[r] = "roleMissing"
  /\ org[r] \in roleMade
  /\ Refuse(r)

\* Variant: the membership is inserted by another transaction.
AcceptCommitAccount(r) ==
  /\ pc[r] \in {"roleReady", "roleCreated"}
  /\ pc' = [pc EXCEPT ![r] = "accepted"]
  /\ accepted' = accepted \cup {inv[r]}
  /\ creator' = [creator EXCEPT ![email[r]] = r]
  /\ roleMade' = roleMade \cup {org[r]}
  /\ UNCHANGED <<status, invOrg, invEmail, revoked, lapsed, org, email, inv, had>>

AcceptCommit(r) ==
  /\ pc[r] \in {"roleReady", "roleCreated"}
  /\ pc' = [pc EXCEPT ![r] = "accepted"]
  /\ accepted' = accepted \cup {inv[r]}
  /\ creator' = [creator EXCEPT ![email[r]] = r]
  /\ status' = [status EXCEPT ![org[r]][email[r]] = "ACTIVE"]
  /\ roleMade' = roleMade \cup {org[r]}
  /\ UNCHANGED <<invOrg, invEmail, revoked, lapsed, org, email, inv, had>>

-----------------------------------------------------------------------------
\* MembersService.create

AddRead(r, o, e) ==
  /\ status[o][e] = "NONE"
  /\ Go(r, "idle", "add")
  /\ Concerns(r, o, e, NoInvitation)
  /\ UNCHANGED <<rows, had>>

\* The account is looked up before the transaction begins.
AddFindUser(r) ==
  /\ Go(r, "add", IF email[r] \in Users THEN "addKnown" ELSE "addNew")
  /\ had' = [had EXCEPT ![r] = email[r] \in Users]
  /\ UNCHANGED <<rows, org, email, inv>>

AddCreateUser(r) ==
  /\ Step(r, "addNew", "addUser")
  /\ EmailFree(email[r], r) /\ email[r] \notin Users

\* Variant: the membership is upserted.
AddJoinAnyway(r) ==
  /\ pc[r] \in {"addKnown", "addUser"}
  /\ Step(r, pc[r], "addJoined")
  /\ MemberFree(r)

AddJoin(r) ==
  /\ pc[r] \in {"addKnown", "addUser"}
  /\ Step(r, pc[r], "addJoined")
  /\ MemberFree(r) /\ status[org[r]][email[r]] = "NONE"

\* The unique index of organization_users(organizationId, email).
MemberTaken(r) ==
  /\ pc[r] = "addKnown"
  /\ status[org[r]][email[r]] # "NONE"
  /\ Refuse(r)

\* Variant: the account is left to another step.
AddCommitMember(r) ==
  /\ pc[r] = "addJoined" /\ End(r)
  /\ status' = [status EXCEPT ![org[r]][email[r]] = "ACTIVE"]
  /\ UNCHANGED <<creator, roleMade, invRows>>

AddCommit(r) ==
  /\ pc[r] = "addJoined" /\ End(r)
  /\ creator' = IF had[r] THEN creator ELSE [creator EXCEPT ![email[r]] = r]
  /\ status' = [status EXCEPT ![org[r]][email[r]] = "ACTIVE"]
  /\ UNCHANGED <<roleMade, invRows>>

-----------------------------------------------------------------------------
\* The rest of the world

\* The server or the process goes away, or the time limit of a transaction passes.
Abort(r) ==
  /\ pc[r] \in Stages
  /\ End(r)
  /\ UNCHANGED rows

\* The call is refused on what it reads first: an unknown, expired, accepted or
\* revoked invitation, or a member who is one already.
RefuseAtOnce(r) == Step(r, "idle", "over")

\* A registration, which makes an organization of its own, commits.
RegisterElsewhere(e) ==
  /\ e \notin Users
  /\ \A q \in Requests : ~(HoldsEmail(q) /\ email[q] = e)
  /\ creator' = [creator EXCEPT ![e] = Elsewhere]
  /\ UNCHANGED <<status, roleMade, invRows, calls>>

\* MembersService.update of the status of a member.
SetStatus(o, e, st) ==
  /\ status[o][e] \notin {"NONE", st}
  /\ status' = [status EXCEPT ![o][e] = st]
  /\ UNCHANGED <<creator, roleMade, invRows, calls>>

\* MembersService.remove deletes the membership and leaves the account.
Remove(o, e) ==
  /\ status[o][e] # "NONE"
  /\ status' = [status EXCEPT ![o][e] = "NONE"]
  /\ UNCHANGED <<creator, roleMade, invRows, calls>>

Lapse(i) ==
  /\ Known(i) /\ i \notin lapsed
  /\ lapsed' = lapsed \cup {i}
  /\ UNCHANGED <<creator, status, roleMade, invOrg, invEmail, accepted, revoked, calls>>

Begin(r) == \/ \E o \in Orgs, e \in Emails : InviteCheckMember(r, o, e) \/ AddRead(r, o, e)
            \/ \E i \in Invitations : RevokeRead(r, i) \/ AcceptRead(r, i)
            \/ RefuseAtOnce(r)

Continue(r) == \/ InviteCheckOpen(r) \/ AlreadyInvited(r) \/ InviteCreate(r) \/ RevokeWrite(r)
               \/ AcceptCheckUser(r) \/ AcceptKnownUser(r) \/ AcceptMark(r) \/ AcceptTooLate(r)
               \/ AcceptCreateUser(r)
               \/ AcceptJoin(r) \/ AcceptCreateRole(r) \/ RoleTaken(r) \/ AcceptCommit(r)
               \/ AddFindUser(r) \/ AddCreateUser(r) \/ AddJoin(r) \/ MemberTaken(r) \/ AddCommit(r)
               \/ EmailTaken(r)

Next == \/ \E r \in Requests : Begin(r) \/ Continue(r) \/ Abort(r)
        \/ \E e \in Emails : RegisterElsewhere(e)
        \/ \E o \in Orgs, e \in Emails : Remove(o, e) \/ \E st \in Statuses : SetStatus(o, e, st)
        \/ \E i \in Invitations : Lapse(i)

Spec == Init /\ [][Next]_vars

\* The event loop and the server run every call to its answer.
FairSpec == Spec /\ \A r \in Requests : WF_vars(Continue(r))

-----------------------------------------------------------------------------
\* Properties

\* Types, and the foreign keys: a member has an account, an invitation an
\* organization and an address.
TypeOK ==
  /\ creator \in [Emails -> Requests \cup {NoOne, Elsewhere}]
  /\ status \in [Orgs -> [Emails -> Statuses \cup {"NONE"}]]
  /\ roleMade \subseteq Orgs
  /\ invOrg \in [Invitations -> Orgs \cup {NoOrg}]
  /\ invEmail \in [Invitations -> Emails \cup {NoEmail}]
  /\ accepted \subseteq Invitations /\ revoked \subseteq Invitations /\ lapsed \subseteq Invitations
  /\ pc \in [Requests -> Stages \cup Ends \cup {"idle"}]
  /\ org \in [Requests -> Orgs \cup {NoOrg}]
  /\ email \in [Requests -> Emails \cup {NoEmail}]
  /\ inv \in [Requests -> Invitations \cup {NoInvitation}]
  /\ had \in [Requests -> BOOLEAN]
  /\ \A o \in Orgs, e \in Emails : status[o][e] # "NONE" => e \in Users
  /\ \A i \in Invitations : Known(i) => invOrg[i] \in Orgs

\* An accepted invitation and the account of its address were made by one call:
\* no one joins through an invitation on an account that existed, no invitation is
\* accepted twice, and of the invitations of an address only one ever is.
AcceptanceMakesTheAccount ==
  /\ \A r \in Requests : pc[r] = "accepted" => inv[r] \in accepted /\ creator[email[r]] = r
  /\ \A i \in accepted : \E r \in Requests : /\ creator[invEmail[i]] = r
                                             /\ pc[r] = "accepted" /\ inv[r] = i

\* A revoked invitation is not accepted any more, even by a call that had read it
\* before it was revoked.
RevokedIsNotAccepted == [][\A i \in revoked : i \in accepted' => i \in accepted]_vars

\* No call changes a membership that exists: an invitation or an addition does not
\* lift the suspension of a member, nor undo what an administrator did meanwhile.
MembershipsAreNotOverwritten ==
  [][pc' # pc => \A o \in Orgs, e \in Emails :
       status[o][e] # "NONE" => status'[o][e] = status[o][e]]_vars

\* Every call answers: no two transactions wait for each other's unique keys.
EveryCallAnswers == \A r \in Requests : pc[r] \in Stages ~> pc[r] \in Ends

\* "Cannot revoke an already accepted invitation."
AcceptedIsNotRevoked == accepted \cap revoked = {}

\* "Prevent duplicate active invitations for the same organization + email"
OneOpenInvitation == \A i, j \in Invitations :
  Open(i) /\ Open(j) /\ invOrg[i] = invOrg[j] /\ invEmail[i] = invEmail[j] => i = j
=============================================================================
