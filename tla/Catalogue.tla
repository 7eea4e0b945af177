------------------------------ MODULE Catalogue ------------------------------
(***************************************************************************)
(* Who may do what in one organization: its memberships, its roles, the    *)
(* permissions, and the three tables that join them: MemberRole,           *)
(* RolePermission and UserPermissionOverride (members.service.ts,          *)
(* roles.service.ts, permissions.service.ts and                            *)
(* user-permission-override.service.ts).                                   *)
(*                                                                         *)
(* A call reads and validates outside any transaction, then writes at READ *)
(* COMMITTED.  To replace the joins of a holder it deletes the rows that   *)
(* its statement sees and inserts the rows it was asked for, overrides one *)
(* by one; a statement waits for the open transactions whose rows it       *)
(* meets.  Reads with no write of the same call between them are one step, *)
(* a statement takes its rows at once, the row of a deleted thing before   *)
(* those that cascade, and the last statement of a transaction is one step *)
(* with the commit.                                                        *)
(*                                                                         *)
(* Identifiers are UUIDs: a deleted one does not come back.  Clashes of    *)
(* names and keys only refuse a call, as Abort does, and are left out, and *)
(* so are the names of a user, the renaming of a permission and the        *)
(* invitedBy that a removed member leaves NULL.                            *)
(***************************************************************************)
EXTENDS FiniteSets

CONSTANTS Users, Members, Roles, Permissions,
          UserOf,        \* OrganizationUser.userId
          Owner,         \* Organization.ownerId
          SystemRoles,   \* Role.isSystem
          Requests, NoOne, Keep

Things == Members \cup Roles \cup Permissions

ASSUME CatalogueAssumption ==
  /\ UserOf \in [Members -> Users]
  /\ SystemRoles \subseteq Roles
  /\ Users \cap Things = {} /\ NoOne \notin Users \cup Things
  /\ Members \cap (Roles \cup Permissions) = {} /\ Roles \cap Permissions = {}
  /\ Keep \notin {"absent", "active", "inactive", "gone", "renamed"}

VARIABLES
  \* committed rows
  row,      \* the row of each thing: OrganizationUser.status, Permission.isActive
  join,     \* the rows of the three join tables
  deny,     \* the overrides whose effect is DENY
  \* calls
  pc,
  holder,   \* the thing, or the user, the call is about
  want,     \* the joins it is to leave its holder with
  bars,     \* those of want whose effect is DENY
  sets,     \* the status it writes into its holder's row, "renamed", or Keep: no UPDATE
  cut,      \* the joins it is to delete, or has deleted
  writes,   \* those its next INSERT writes
  put,      \* those it has upserted
  since     \* history: joins of its holder committed by others since it read them

rows == <<row, join, deny>>
asked == <<holder, want, bars, sets>>
vars == <<row, join, deny, pc, holder, want, bars, sets, cut, writes, put, since>>

\* A role that is there is active.  INVITED, SUSPENDED and REMOVED members are inactive.
States == {"absent", "active", "inactive", "gone"}
Present(x) == row[x] \in {"active", "inactive"}

MemberRole == Members \X Roles
RolePermission == Roles \X Permissions
UserPermissionOverride == Users \X Permissions
Joins == MemberRole \cup RolePermission \cup UserPermissionOverride

Of(h) == {j \in Joins : j[1] = h}
Touching(x) == {j \in Joins : x \in {j[1], j[2]}}

\* begin: validated.  deleting, inserting: in the transaction, before its DELETE and
\* before an INSERT.  erasing, altering: before the one statement of a call.
\* cascading: its row is deleted, the rows that refer to it are not.
\* clearUser, clearAll, sweeping: committed, and the cache is yet to be cleared.
Committed == {"clearUser", "clearAll", "sweeping"}
Stages == {"begin", "deleting", "inserting", "erasing", "cascading", "altering"} \cup Committed

Consistent(j) == /\ Present(j[2])
                 /\ j[1] \notin Users => Present(j[1])

\* Any state of the tables that keeps the foreign keys, before the first call.
Init == /\ row \in [Things -> States] /\ \A x \in Roles : row[x] # "inactive"
        /\ join \in SUBSET Joins /\ \A j \in join : Consistent(j)
        /\ deny \in SUBSET (join \cap UserPermissionOverride)
        /\ \A m, n \in Members : Present(m) /\ Present(n) /\ UserOf[m] = UserOf[n] => m = n
        /\ pc = [r \in Requests |-> "idle"]
        /\ holder = [r \in Requests |-> NoOne]
        /\ want = [r \in Requests |-> {}]
        /\ bars = [r \in Requests |-> {}]
        /\ sets = [r \in Requests |-> Keep]
        /\ cut = [r \in Requests |-> {}]
        /\ writes = [r \in Requests |-> {}]
        /\ put = [r \in Requests |-> {}]
        /\ since = [r \in Requests |-> {}]

-----------------------------------------------------------------------------
\* What the open transactions hold

\* The UPDATE of a member's status or of a role, first in its transaction.  With nothing
\* to set but the permissions, role.update sends a SELECT.
Locks(r) == sets[r] # Keep
HoldsLock(r) == pc[r] \in {"deleting", "inserting"} /\ Locks(r)

\* The row of x; its key too, which the foreign keys of inserted rows share: a role's
\* name and key are of unique indexes.
HoldsRow(q, x) == holder[q] = x /\ (pc[q] = "cascading" \/ HoldsLock(q))
HoldsKey(q, x) == HoldsRow(q, x) /\ (pc[q] = "cascading" \/ sets[q] = "renamed")
SharesKey(q, x) == \E j \in put[q] \ join : j[2] = x

Deleted(r) == IF pc[r] = "inserting" THEN cut[r] ELSE {}
Changed(r) == Deleted(r) \cup put[r]

Waits(r, q) ==
  /\ q # r
  /\ \/ /\ pc[r] \in {"erasing", "altering"} \/ (pc[r] = "begin" /\ Locks(r))
        /\ HoldsRow(q, holder[r])
     \/ pc[r] = "erasing" /\ SharesKey(q, holder[r])
     \/ pc[r] = "cascading" /\ Touching(holder[r]) \cap join \cap Changed(q) # {}
     \/ pc[r] = "deleting" /\ cut[r] \cap Changed(q) # {}
     \/ writes[r] \cap Changed(q) # {}
     \/ \E j \in writes[r] \ (join \ cut[r]) : HoldsKey(q, j[1]) \/ HoldsKey(q, j[2])
Free(r) == \A q \in Requests : ~Waits(r, q)

\* The call has read the joins of its holder, to delete or to count them.
HasRead(q) == \/ pc[q] \in {"deleting", "inserting", "erasing", "cascading"}
              \/ pc[q] = "begin" /\ holder[q] \in Users

\* The rows gone are deleted and the rows new inserted, for every reader at once.  A
\* DELETE that waited for these rows skips them, even one that was inserted again.
Commit(r, gone, new, then) ==
  /\ join' = (join \ gone) \cup new
  /\ pc' = [pc EXCEPT ![r] = then]
  /\ cut' = [q \in Requests |-> IF q # r /\ pc[q] = "deleting" THEN cut[q] \ gone ELSE cut[q]]
  /\ since' = [q \in Requests |->
                 IF q # r /\ HasRead(q) THEN since[q] \cup (new \cap Touching(holder[q])) ELSE since[q]]
  /\ writes' = [writes EXCEPT ![r] = {}]
  /\ put' = [put EXCEPT ![r] = {}]
  /\ UNCHANGED asked

Goes(r, from, to) == pc[r] = from /\ Free(r) /\ pc' = [pc EXCEPT ![r] = to]

Start(r, h, to, w, b, s, c) ==
  /\ pc[r] = "idle"
  /\ pc' = [pc EXCEPT ![r] = to]
  /\ holder' = [holder EXCEPT ![r] = h]
  /\ want' = [want EXCEPT ![r] = w]
  /\ bars' = [bars EXCEPT ![r] = b]
  /\ sets' = [sets EXCEPT ![r] = s]
  /\ cut' = [cut EXCEPT ![r] = c]
  /\ writes' = [writes EXCEPT ![r] = IF to = "inserting" THEN w ELSE {}]
  /\ UNCHANGED <<rows, put, since>>

\* The call ends; nothing remembers what it was about.
End(r) == /\ pc' = [pc EXCEPT ![r] = "over"]
          /\ holder' = [holder EXCEPT ![r] = NoOne]
          /\ want' = [want EXCEPT ![r] = {}]
          /\ bars' = [bars EXCEPT ![r] = {}]
          /\ sets' = [sets EXCEPT ![r] = Keep]
          /\ cut' = [cut EXCEPT ![r] = {}]
          /\ writes' = [writes EXCEPT ![r] = {}]
          /\ put' = [put EXCEPT ![r] = {}]
          /\ since' = [since EXCEPT ![r] = {}]
          /\ UNCHANGED rows

-----------------------------------------------------------------------------
\* Calls begin: what they read and validate before they write

\* roleIds and status are optional: without roleIds the request is UpdateMemberStatus,
\* and with neither it writes the user's names only and is left out.
UpdateMember(r, m, S, st) ==
  /\ Present(m)
  /\ UserOf[m] = Owner => st # "inactive"
  /\ \A x \in S : Present(x)
  /\ Start(r, m, "begin", {m} \X S, {}, st, {})

UpdateMemberStatus(r, m, st) ==
  /\ Present(m) /\ st # Keep
  /\ UserOf[m] = Owner => st # "inactive"
  /\ Start(r, m, "altering", {}, {}, st, {})

RemoveMember(r, m) ==
  Present(m) /\ UserOf[m] # Owner /\ Start(r, m, "erasing", {}, {}, Keep, {})

AllActive(P) == \A p \in P : row[p] = "active"

CreateRole(r, x, P) ==
  /\ row[x] = "absent" /\ x \notin SystemRoles /\ \A q \in Requests : holder[q] # x
  /\ AllActive(P)
  /\ Start(r, x, "inserting", {x} \X P, {}, "active", {})

\* All fields are optional.  Without permissionIds a request writes names only and is
\* left out; "active" is one that changes neither name nor key.
UpdateRole(r, x, P, st) ==
  /\ Present(x) /\ AllActive(P)
  /\ x \in SystemRoles => st # "renamed"
  /\ Start(r, x, "begin", {x} \X P, {}, st, {})

AssignedTo(x) == {j \in join : j[2] = x /\ j[1] \notin Users}

\* Variant: the members of the role are not counted.
DeleteRoleUncounted(r, x) ==
  Present(x) /\ x \notin SystemRoles /\ Start(r, x, "erasing", {}, {}, Keep, {})

DeleteRole(r, x) ==
  /\ Present(x) /\ x \notin SystemRoles
  /\ AssignedTo(x) = {}
  /\ Start(r, x, "erasing", {}, {}, Keep, {})

CreatePermission(r, p) ==
  /\ row[p] = "absent" /\ \A q \in Requests : holder[q] # p
  /\ Start(r, p, "altering", {}, {}, "active", {})

\* A request that does not name isActive writes back the value it has read.
UpdatePermission(r, p, st) ==
  Present(p) /\ Start(r, p, "altering", {}, {}, IF st = Keep THEN row[p] ELSE st, {})

DeletePermission(r, p) ==
  Present(p) /\ AssignedTo(p) = {} /\ Start(r, p, "erasing", {}, {}, Keep, {})

\* The overrides to delete are computed here, before the transaction.  The user need
\* not be a member, nor a permission active.
BulkUpdate(r, u, P, D) ==
  /\ \A p \in P : Present(p)
  /\ Start(r, u, "begin", {u} \X P, {u} \X D, Keep, (join \cap Of(u)) \ ({u} \X P))

Begin(r) ==
  \/ \E m \in Members :
       \/ \E st \in {"active", "inactive", Keep} :
            \/ \E S \in SUBSET Roles : UpdateMember(r, m, S, st)
            \/ UpdateMemberStatus(r, m, st)
       \/ RemoveMember(r, m)
  \/ \E x \in Roles :
       \/ \E P \in SUBSET Permissions :
            \/ CreateRole(r, x, P)
            \/ \E st \in {"active", "renamed", Keep} : UpdateRole(r, x, P, st)
       \/ DeleteRole(r, x)
  \/ \E p \in Permissions :
       \/ CreatePermission(r, p)
       \/ \E st \in {"active", "inactive", Keep} : UpdatePermission(r, p, st)
       \/ DeletePermission(r, p)
  \/ \E u \in Users, P \in SUBSET Permissions : \E D \in SUBSET P : BulkUpdate(r, u, P, D)

-----------------------------------------------------------------------------
\* Calls write

\* Variant: only rows that are to be inserted again are deleted.
SelectSameRows(r) ==
  /\ Goes(r, "begin", "deleting")
  /\ Locks(r) => Present(holder[r])
  /\ cut' = [cut EXCEPT ![r] = IF holder[r] \in Users THEN @ \cap join ELSE join \cap want[r]]
  /\ UNCHANGED <<rows, asked, writes, put, since>>

\* Variant: rows that are to be inserted again are not deleted.
SelectOtherRows(r) ==
  /\ Goes(r, "begin", "deleting")
  /\ Locks(r) => Present(holder[r])
  /\ cut' = [cut EXCEPT ![r] = IF holder[r] \in Users THEN @ \cap join
                              ELSE (join \cap Of(holder[r])) \ want[r]]
  /\ UNCHANGED <<rows, asked, writes, put, since>>

\* Variant: an upsert, which makes a row that was deleted again.
SelectOrMakeRows(r) ==
  /\ Goes(r, "begin", "deleting")
  /\ cut' = [cut EXCEPT ![r] = IF holder[r] \in Users THEN @ \cap join ELSE join \cap Of(holder[r])]
  /\ UNCHANGED <<rows, asked, writes, put, since>>

\* The row is locked, if the call updates it, and the DELETE takes its snapshot.
SelectRows(r) ==
  /\ Goes(r, "begin", "deleting")
  /\ Locks(r) => Present(holder[r])
  /\ cut' = [cut EXCEPT ![r] = IF holder[r] \in Users THEN @ \cap join ELSE join \cap Of(holder[r])]
  /\ UNCHANGED <<rows, asked, writes, put, since>>

\* What the first INSERT after the DELETE writes.
FirstWrites(r) == IF holder[r] \in Users /\ want[r] # {} THEN {{j} : j \in want[r]} ELSE {want[r]}

DeleteRows(r) == /\ Goes(r, "deleting", "inserting")
                 /\ \E W \in FirstWrites(r) : writes' = [writes EXCEPT ![r] = W]
                 /\ UNCHANGED <<rows, asked, cut, put, since>>

\* The foreign keys of the rows to insert; a role that is being created is not there yet.
Linked(r) == /\ \A j \in writes[r] : Present(j[2])
             /\ writes[r] # {} /\ holder[r] \notin Users => row[holder[r]] # "gone"

\* An override that is there is updated; a role or permission that is there clashes.
Unclashing(r) == holder[r] \notin Users => want[r] \cap join \subseteq cut[r]

\* One override is upserted and more are to come, in the order of the request.
UpsertRow(r) ==
  /\ pc[r] = "inserting" /\ Free(r) /\ Linked(r)
  /\ put' = [put EXCEPT ![r] = @ \cup writes[r]]
  /\ \E j \in want[r] \ (put[r] \cup writes[r]) : writes' = [writes EXCEPT ![r] = {j}]
  /\ UNCHANGED <<rows, pc, asked, cut, since>>

\* The last of them, or createMany, or none.
InsertRows(r) ==
  /\ pc[r] = "inserting" /\ Free(r) /\ Linked(r) /\ Unclashing(r)
  /\ writes[r] = want[r] \ put[r]
  /\ Commit(r, cut[r], want[r], IF holder[r] \in Roles THEN "clearAll" ELSE "clearUser")
  /\ deny' = (deny \ (cut[r] \cup want[r])) \cup bars[r]
  /\ row' = IF sets[r] \in States THEN [row EXCEPT ![holder[r]] = sets[r]] ELSE row

\* role.delete, permission.delete and organizationUser.delete: the row itself.
DeleteThing(r) == /\ Goes(r, "erasing", "cascading") /\ Present(holder[r])
                  /\ UNCHANGED <<rows, asked, cut, writes, put, since>>

\* Variant: a relation without onDelete: Cascade.
EraseRowAlone(r) ==
  /\ pc[r] = "cascading" /\ Free(r)
  /\ Commit(r, {}, {}, IF holder[r] \in Members THEN "clearUser" ELSE "clearAll")
  /\ row' = [row EXCEPT ![holder[r]] = "gone"]
  /\ UNCHANGED deny

\* The rows that refer to it cascade, which ends the statement and with it the call.
EraseRow(r) ==
  /\ pc[r] = "cascading" /\ Free(r)
  /\ Commit(r, Touching(holder[r]), {}, IF holder[r] \in Members THEN "clearUser" ELSE "clearAll")
  /\ deny' = deny \ Touching(holder[r])
  /\ row' = [row EXCEPT ![holder[r]] = "gone"]

\* permission.create, permission.update, and the status of a member alone.
AlterRow(r) ==
  /\ pc[r] = "altering" /\ Free(r) /\ row[holder[r]] # "gone"
  /\ Commit(r, {}, {}, IF holder[r] \in Members THEN "clearUser" ELSE "clearAll")
  /\ row' = [row EXCEPT ![holder[r]] = sets[r]]
  /\ UNCHANGED deny

\* Variant: a call whose row is gone is left waiting for it.
RefusedForeignKey(r) == /\ pc[r] = "inserting" /\ Free(r) /\ ~(Linked(r) /\ Unclashing(r))
                        /\ End(r)

\* The row is gone (P2025), a foreign key fails (P2003) or a row is there (P2002).
Refused(r) ==
  /\ \/ pc[r] = "begin" /\ (Locks(r) \/ holder[r] \in Roles) /\ ~Present(holder[r])
     \/ pc[r] = "inserting" /\ Free(r) /\ ~(Linked(r) /\ Unclashing(r))
     \/ pc[r] \in {"erasing", "altering"} /\ row[holder[r]] = "gone"
  /\ End(r)

\* PostgreSQL ends a transaction of those that wait for each other, directly or not.
Deadlocked(r) ==
  /\ \E S \in SUBSET Requests :
       r \in S /\ \A p \in S : \E q \in S : Waits(p, q)
  /\ End(r)

\* A statement or the commit fails, or the process stops.
Abort(r) == pc[r] \in Stages \ Committed /\ End(r)

\* The cache is cleared (see PermissionCache), the answer and its audit records follow.
Answer(r) == pc[r] \in Committed /\ End(r)

\* acceptInvite and members.create commit a new membership: no call of this module,
\* and no key of the cache is dropped.  Its statements before the commit are left out.
Join(m, S) ==
  /\ row[m] = "absent" /\ \A n \in Members : UserOf[n] = UserOf[m] => ~Present(n)
  /\ \A x \in S : Present(x) /\ \A q \in Requests : ~HoldsKey(q, x)
  /\ join' = join \cup ({m} \X S)
  /\ row' = [row EXCEPT ![m] = "active"]
  /\ since' = [q \in Requests |->
                 IF HasRead(q) THEN since[q] \cup (({m} \X S) \cap Touching(holder[q])) ELSE since[q]]
  /\ UNCHANGED <<deny, pc, asked, cut, writes, put>>

Write(r) == \/ SelectRows(r) \/ DeleteRows(r) \/ UpsertRow(r) \/ InsertRows(r)
            \/ DeleteThing(r) \/ EraseRow(r) \/ AlterRow(r)
            \/ Refused(r) \/ Deadlocked(r)
Continue(r) == Write(r) \/ Answer(r)

Next == \/ \E r \in Requests : Begin(r) \/ Continue(r) \/ Abort(r)
        \/ \E m \in Members, S \in SUBSET Roles : Join(m, S)

Spec == Init /\ [][Next]_vars
FairSpec == Spec /\ \A r \in Requests : WF_vars(Continue(r))

-----------------------------------------------------------------------------
\* Properties

\* The rows of the three tables satisfy their foreign keys and the calls under way are
\* about rows that exist or existed.
TypeOK ==
  /\ row \in [Things -> States] /\ \A x \in Roles : row[x] # "inactive"
  /\ join \in SUBSET Joins /\ \A j \in join : Consistent(j)
  /\ deny \in SUBSET (join \cap UserPermissionOverride)
  /\ pc \in [Requests -> Stages \cup {"idle", "over"}]
  /\ holder \in [Requests -> Users \cup Things \cup {NoOne}]
  /\ want \in [Requests -> SUBSET Joins]
  /\ bars \in [Requests -> SUBSET UserPermissionOverride]
  /\ sets \in [Requests -> {"active", "inactive", "renamed", Keep}]
  /\ cut \in [Requests -> SUBSET Joins]
  /\ writes \in [Requests -> SUBSET Joins]
  /\ put \in [Requests -> SUBSET Joins]
  /\ since \in [Requests -> SUBSET Joins]

Inserts(r) == pc[r] = "inserting" /\ pc'[r] \in Committed
Erases(r) == pc[r] = "cascading" /\ pc'[r] \in Committed
Held(r) == join' \cap Of(holder[r])

\* A call that replaces the roles of a member, the permissions of a role or the
\* overrides of a user leaves what it was asked for, and beyond that only rows that
\* other calls committed after it had read: overlapping calls can leave the union of
\* what they were asked for, never a row that was there before both.
ReplacedWholly ==
  [][\A r \in Requests :
       Inserts(r) => want[r] \subseteq Held(r) /\ Held(r) \subseteq want[r] \cup since[r]]_vars

\* Deleting a role takes from members only assignments committed after its members
\* were counted, and deleting a permission takes from roles only such grants.  The
\* overrides of users, which nobody counts, go in any case.
OnlyLateAssignmentsAreLost ==
  [][\A r \in Requests : Erases(r) => AssignedTo(holder[r]) \subseteq since[r]]_vars

\* Every one of S waits for one of S and is waited for by one.
Circle(S) == \A r \in S : /\ \E q \in S : Waits(r, q)
                          /\ \E q \in S : Waits(q, r)

\* By the order of their statements, whatever rows these take: where no row is being
\* deleted and no role renamed, only overlapping changes of one user's overrides can
\* deadlock.  They delete what was read before the transaction, which another is to
\* upsert, and upsert one by one; a call that replaces the roles of a member or the
\* permissions of a role deletes all that there are, so that of two such calls one waits
\* before it has deleted anything.  A deletion can deadlock with them: it holds the key of
\* the row that the rows they insert refer to, and waits for the rows they have changed.
CirclesNeedOverridesOrKeys ==
  \A S \in SUBSET Requests :
    Circle(S) => \/ \E r \in S : HoldsKey(r, holder[r])
                 \/ \A r \in S : /\ holder[r] \in Users /\ pc[r] = "inserting"
                                  /\ \E q \in S \ {r} : holder[q] = holder[r]

\* Every call is answered: waits for locks end, circles of them included.
EveryCallAnswers == \A r \in Requests : (pc[r] \in Stages) ~> (pc[r] = "over")
=============================================================================
