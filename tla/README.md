# A TLA+ development of the user-management backend

The backend (NestJS, Prisma over PostgreSQL, Redis, BullMQ) keeps users,
organizations and memberships, signs people in, and answers what a member may
do. The modules here model its transactions and the steps between them; TLC
checks them on small instances and TLAPS proves the central properties for
every size. Paths below are relative to `src/src/modules/` unless they start
with `src/`.

All concurrency is between HTTP requests: each handler is a sequence of awaits,
every await is one statement or one `prisma.$transaction`, and other requests
run between any two. All transactions run at PostgreSQL's READ COMMITTED. So
the questions worth asking are about rows read outside the transaction that
uses them, about updates that do or do not repeat their test, about what a throw
inside a callback undoes, and about a flow that stops between two transactions.

## 1. Inventory

| Part | State | Operations | Interacts with | What is hard | What makes it correct |
|---|---|---|---|---|---|
| Token service (`auth/services/token.service.ts`, two repositories) | `Session.status`, `RefreshToken.revokedAt/expiresAt` | createSessionTokens, refreshTokens, revokeRefreshToken, revokeAllUserSessions | all sign-in flows, password reset | overlapping refreshes and logouts, row locks, throws that roll back | one live token per open session; dead tokens refused; logouts final; every call answers |
| Login, OTP login, reset (`login`, `otp-login`, `password-reset.service.ts`) | `LoginOtp.usedAt`, `PasswordResetToken.usedAt`, `User.passwordHash` | login, sendLoginOtp, loginWithOtp, forgotPassword, resetPasswordWithToken/Otp | token service, mail, members | reads before bcrypt, two transactions per flow, stops in between | a code has one effect; a finished reset leaves no earlier session |
| Invitations (`invitations-management.service.ts`, `auth/services/invitation.service.ts`) | `Invitation.acceptedAt/revokedAt/expiresAt` | create, revoke, accept | users, memberships, roles, mail | checks outside the transaction, unique keys | accepted once and never after a revocation; the account is made by the acceptance |
| Members (`members/services/members.service.ts`) | `OrganizationUser.status`, member roles | create, update, remove | users, permission cache, reset mail | account looked up before the transaction; roles deleted and inserted without a lock; cache dropped after the commit | no call overwrites a membership; roles are those asked for, or those of overlapping requests; the cache follows |
| Registration, slugs (`registration.service.ts`, `organization.repository.ts`) | `User`, `Organization.slug` | register, createWithSlugRetry | role provisioning, mail | two registrations that find one slug free; retry inside an aborted transaction; mail after the commit | one slug per organization, numbered without gaps; every registration is answered |
| Role provisioning (`organizations/services/role-provisioning.service.ts`) | `Role` (system) | provisionSystemRole, assignRoleToMember | registration, invitations | find-then-insert | one MEMBER and one OWNER role |
| Permission resolution and cache (`permission-resolution.service.ts`, `src/src/cache/cache.service.ts`) | Redis entry per user and organization | getGrantedPermissionKeys, invalidateUserCache | guards, logins, `GET /auth/me`, members, roles, overrides | queries in no transaction; a fill racing an invalidation; readers that no guard stops; a scan racing fills | DENY beats GRANT; an entry says what the tables say unless its reader was overtaken or an invalidation failed |
| Overrides (`user-permission-override.service.ts`) | `UserPermissionOverride` | bulkUpdatePermissions | cache, audit | set difference computed before the transaction; upserts one by one | nothing stays that was there before both of two overlapping requests |
| Roles, permissions (`roles.service.ts`, `permissions.service.ts`) | `Role`, `Permission`, join tables | create, update, delete | cache | count read before a cascading delete; references validated before the transaction; an update that sets nothing takes no lock | only late assignments are lost; a role has the permissions asked for, or those of overlapping requests |
| Guards, JWT (`permissions.guard.ts`, `tenant-org.guard.ts`, `jwt.strategy.ts`) | none | canActivate, validate | cache, memberships | the session is not consulted | suspended and inactive users are refused |
| Mail queue, processor (`src/src/mail/`) | BullMQ jobs | enqueue*, process | every flow | lost enqueue, retry after the mail was sent, stopped worker | copies are bounded and owed to faults; the log tells the truth; every job is settled |
| Audit, users, controllers, filter, utilities, start-up | audit rows; none | record; lookups; routing | everyone | - | - |

`PROJECT.json` lists each part with what is modelled of it, and every hazard at
its line with the properties that cover it or the reason none does yet.

## 2. Plan

1. `TokenFamilies` (abstract), `TokenService`, `TokenRefinement`: the core that
   every sign-in, sign-out and reset relies on. **Done**, checked and proved.
2. `AuthFlows`, which EXTENDS `TokenService`: the flows over it, with codes and
   stops between transactions. **Done**, checked and proved.
3. `Invitations`: invitations, acceptance and added members over shared unique
   keys. **Done**, checked and proved.
4. `Catalogue`: memberships, roles, permissions and the three join tables, under
   updates, deletions and bulk overrides that overlap. **Done**, checked and
   proved.
5. `PermissionCache`, which EXTENDS `Catalogue`: readers that miss, resolve and
   store, against calls that commit and then delete, with expiry, failures of
   Redis and stops. **Done**, checked and proved.
6. `MailQueue`: enqueue after the commit, attempts, stalls, duplicates. **Done**,
   checked and proved.
7. `Registration`, which EXTENDS `MailQueue`: the unique keys of address and slug,
   the retry of `createWithSlugRetry`, the welcome mail. **Done**, checked and
   proved.
8. What each of them promises, without calls and transactions: `Membership` for
   `Invitations`, `AccessTables` for `Catalogue`, `Onboarding` for
   `Registration`, with the mappings in `*Refinement`. **Done**, checked and
   proved.

Runs: one passing run per module with its properties (the mail queue is checked
and proved under the registrations that use it), and one run for each
disagreement between code and comment. What is left is in section 6.

## 3. The modules

### TokenService

A *request* `r` is one call. `pc[r]` is the statement it will execute next or the
way it ended. The committed rows are `sessionStatus`, `sessionUser`,
`tokenStatus`, `tokenSession`, `userActive` and `expired`. A transaction's own
updates are in `revT[r]` and `revS[r]`: nobody else sees them, and nobody else
can update those rows until it commits (`CommitRevocations`, `RefreshCommit`) or
rolls back (`Rollback`). An update tests its WHERE clause on the row as it is
when the lock is granted, as PostgreSQL does, so `revokeIfActive` becomes two
actions: `RefreshRotate` found the row live, `RefreshClash` did not. A statement
over several rows selects them in one step and updates them in a later one.

`refreshTokens` is `RefreshReadToken`, `RefreshReadSession` (or
`RefreshSessionOver`), then the reuse branch (`RefreshReuse`,
`RefreshRevokeFamily`, `RefreshRevokeSession`, `RefreshThrowReuse`), the expiry
branch, or the rotation (`RefreshRotate`, then `RefreshUserInactive` or
`RefreshCommit`). `revokeRefreshToken` and `revokeAllUserSessions` are the
`Logout*` and `RevokeAll*` actions. `Abort` ends any open transaction: lost
connection, failed query, or Prisma's five-second limit, also while it waits for
a lock. `late`, `saw` and `tok` remember what a call found, for the properties.

`Init` is the empty database. Sessions appear through `CreateSessionTokens`,
whose transaction inserts only and is one step.

### TokenFamilies and TokenRefinement

`TokenFamilies` says what a client may rely on: a session is unopened, closed,
or held by one token; a refresh hands it to a fresh token; closing is final; a
spent token stays spent. `TokenRefinement` maps rows to it (`Holder`, `Spent`).
The abstract `IssueTooLate` is the one surprise: a refresh that passed the
session check before a logout can commit after it, and answers with a token of a
session that is already closed.

### AuthFlows

`flow[r]` is where a login, OTP login or reset is; when it calls the token
service, the same `r` runs there. `ReadCode` covers the reads of the user row
and of the code row and the tests on both: that they are two queries makes no
difference, as an inactive user never becomes active and a used code never
becomes unused, so reading both at the later of the two instants gives a result
the code can give. The reads of bcrypt-protected data and the memberships,
the transaction, and the call of the token service are separate steps, and
`Crash` stops a flow between any two. `barred` stands for "has memberships and
all are SUSPENDED". `opened`, `password`, `spent` and `stale` are history.

### Invitations

`pc[r]` again gives the stage of a call; the keys an open transaction has
inserted follow from its stage (`HoldsEmail`, `HoldsMember`, `HoldsRole`,
`HoldsInvitation`), and an insert waits until no other transaction holds its key
(`EmailFree`, `MemberFree`, `RoleFree`), then succeeds or meets the unique
violation (`EmailTaken`, `MemberTaken`, `RoleTaken`). `createInvitation`,
`revokeInvitation`, `acceptInvite` and `MembersService.create` are the
`Invite*`, `Revoke*`, `Accept*` and `Add*` actions; `SetStatus` and `Remove` are
the other changes of a membership, `RegisterElsewhere` an account that appears.
INVITED is read as ACTIVE and REMOVED as SUSPENDED, as nothing here tells them
apart. Calls are those of an authorized actor (`assertAuthorizedActor` reads
only). A call that ended forgets what it was about, except an acceptance.

### Membership and InvitationsRefinement

`Membership` has accounts, memberships and invitations as plain rows and one step
for each thing that can happen to them: an acceptance makes account and
membership at once, of an invitation that is neither accepted nor revoked and an
address that has no account; nobody joins where he is already. The mapping
forgets calls and their stages, and reads organization and address of an
invitation that has been sent (`SentTo`). Revoking an accepted invitation is a
step of `Membership`, as the code does it (`invitation_revoked`).
`ImplementsMembership` is about steps only, as the runs may start after
invitations have been sent.

### Catalogue

`row[x]` is the row of a member, role or permission, `join` the set of rows of
`MemberRole`, `RolePermission` and `UserPermissionOverride`, and `deny` those
overrides that deny. A call is about one `holder`: a member, a role or a user
whose joins it replaces, or a thing it creates, changes or deletes. The nine
kinds of calls begin in `UpdateMember` ... `BulkUpdate` with all they read and
validate, and go on, statement by statement: `SelectRows` (row lock, snapshot of
the DELETE), `DeleteRows`, `InsertRows` (the last INSERT, with the commit), for
overrides `UpsertRow` for each one before the last (they are awaited one by one,
`user-permission-override.repository.ts:23-42`), `DeleteThing` and `EraseRow` (a
delete takes its row first and then those that cascade), and `AlterRow`.
`cut[r]` is what the DELETE selected (for overrides: what the call computed before
its transaction), `put[r]` what it has upserted, `writes[r]` what its next INSERT
writes. `Commit` takes from the selections of others the rows it deletes, as a
DELETE that waited skips a row that is gone. `since` remembers what others have
inserted since a call read.

`Locks` says which calls update a row before they touch its joins: those of a
member when a status is given, and those of a role when a name, key or
description is. All of these are optional. With `permissionIds` alone
`role.update` has empty data (`role.repository.ts:252-260`), for which Prisma
sends no UPDATE, so two such requests overlap without a lock and can leave the
union of what they asked for, as two updates of a member without a status can.
No comment or test says otherwise, so this is no finding; what holds of every
replacement is `ReplacedWholly`.

`Waits(r, q)` lists what a statement of `r` waits for: the lock of a row that it
updates or deletes (`HoldsRow`), a row to delete or insert that `q` has changed
(`Changed`), and, through the foreign keys of the rows it inserts, the key of a row
that `q` deletes or renames (`HoldsKey`); a deletion waits for those that have
inserted a reference to its row (`SharesKey`). So a member update that has deleted
his roles (`members.service.ts:247`) and the removal of that member
(`member.repository.ts:174`) can wait for each other, and so can two bulk updates
of one user among their upserts. `CirclesNeedOverridesOrKeys` says that this is
all; `Deadlocked` is the server ending one of them.

`Init` is any consistent state of the tables. `Join` is the membership that an
acceptance or `MembersService.create` commits (module `Invitations`).

### AccessTables and CatalogueRefinement

`AccessTables` has the three tables alone (the same variables, so the mapping is
the identity on them) and changes them in whole steps made from the rows as they
are: `ReplaceRoles`, `ReplacePermissions`, `ReplaceOverrides`, `Alter`, `Erase`,
`Enroll`. It says what no overlap of calls may do: touch the joins of another
holder, give what is not there, bring back what was deleted, delete a system role
or the membership of the owner. It also says how much the code promises of a
replacement: the holder has afterwards what was asked for, and nothing but that
and what he had (`Given`).

### PermissionCache

`cache[k]` is the entry of a user, or of the meta data of permissions, whose key
matches the same pattern. A reader `d` passes `TenantOrgGuard` as an active member,
or is a `GET /auth/me` or a login, which read for a membership of any status
(`GetProfile`: `auth.controller.ts:205-225`, `login.service.ts:85`,
`otp-login.service.ts:168`). It looks its key up (`Hit`, `Miss`) and reads table by
table, as the nested `include` is one SELECT for each (`ReadMemberRoles`,
`ReadRolePermissions`, `ReadPermissions`), then `ResolveUserOverrides`, or the
active permissions (`ReadActivePermissions`), and stores (`StoreEntry`). A bulk
update asks for its actor's permissions a second time within one request and so
passes no guard again (`LookAgain`). A call of `Catalogue` that has committed is in `clearUser`
or `clearAll`, and drops its key or scans: `DeleteByPattern` starts with the keys
that are there, `DeletePage` deletes any key that is there, as SCAN may return
one stored meanwhile, and `EndOfScan` waits until all the first ones have been
met. `Resolution(k)` is the reference: what the tables say at one instant.
`moved` and `tainted` are history, and mark the two ways in which an entry may
be wrong without anybody being about to drop it: its reader was overtaken by a
change, or the drop failed. A reader is overtaken from the moment it has found the
membership: a suspended member's `GET /auth/me` that stores its empty list after he
was removed and his key dropped leaves an entry that adding him again does not
drop (`members.service.ts:94-173` deletes no key), and that stays for its five
minutes. `EntriesAreFresh` counts it among the exceptions, and says that there are
no others.

### MailQueue

`asks[j]` follows `enqueue*` (add, record, done, any of which may fail and be
swallowed), `job[j]` the job from `waiting` through its handler (`active`,
`accepted` once the mail has left, `refused` when something threw, `recorded`) to
`completed` or `failed`. The four enqueue methods and the four handlers have the
same control and are told apart by the name of the job. The record of EMAIL_SENT
is inside the `try` of the handler, so a record that throws is handled as a mail
that was not sent (`RecordSentThrows`). `Take`, `Wake`, `Complete` and `Stall` are
BullMQ: an attempt is counted when a handler throws, and a job whose worker
stopped is started again at most `MaxStalls` times.

### Registration

`Register` is the early lookup, `CreateUser` the insert of the account, one
`FindAvailableSlug` one turn of the loop, `CreateOrganization` the insert,
`SlugTaken` its unique violation, `Commit` the rest of the transaction, which
touches nothing others can see. A slug is a sequence of words, so that the slug
of "acme 1" is also the second slug of "acme". `RetryThrows` is what PostgreSQL
does with the retry: after the violation the transaction accepts no statement.
The mail of registration `r` is job `r` of the queue; `Answer` waits for it to be
asked for, `Stop` is a stop between commit and queue.

### Onboarding and RegistrationRefinement

`Onboarding` has one step per registration, account and organization together,
with the least number that is free, and then welcome mails up to a limit. The
mapping takes the committed tables and the mails that have left; a job of another
service maps to nothing.

## 4. The runs

| Run | Module, config | Instance | Shows |
|---|---|---|---|
| `token_service` | `MCTokenService`, `TokenService.cfg` | 1 user, 2 sessions, 4 tokens, 3 calls, 1 expiry | `TypeOK`, `ActiveSessionHasOneLiveToken`, `DeadTokenNeverRefreshes`, `LogoutEndsSession`, `LogoutAllEndsSessions`, the refinement `ImplementsFamilies`, and `EveryCallAnswers` |
| `token_reuse` | `MCTokenService`, `TokenReuse.cfg` | 2 calls | `ReuseRevokesFamily` is violated |
| `auth_flows` | `MCAuthFlows`, `AuthFlows.cfg` | 1 user, 2 sessions, 3 tokens, 2 codes, 3 calls, 1 expiry | `FlowTypeOK`, `ResetEndsEarlierSessions`, `SpentCodeIsRefused` |
| `code_works_once` | `MCAuthFlows`, `CodeWorksOnce.cfg` | the same | `CodeWorksOnce` is violated |
| `invitations` | `MCInvitations`, `Invitations.cfg` | 1 organization, 2 addresses, 2 invitations, of which 0 to 2 have been sent, 3 calls, 1 lapse or outside registration | `TypeOK`, `AcceptanceMakesTheAccount`, `RevokedIsNotAccepted`, `MembershipsAreNotOverwritten`, the refinement `ImplementsMembership`, `EveryCallAnswers` |
| `invitation_revoked` | `MCInvitations`, `InvitationRevoked.cfg` | 2 organizations, 1 address, none sent, 3 calls | `AcceptedIsNotRevoked` is violated |
| `invitation_twice` | `MCInvitations`, `InvitationTwice.cfg` | the same | `OneOpenInvitation` is violated |
| `catalogue` | `MCCatalogue`, `Catalogue.cfg` | 1 user beside the owner, 2 member identifiers, 2 roles (one of the system), 2 permissions, 2 calls, 18 states of the tables to begin with | `TypeOK`, `ReplacedWholly`, `OnlyLateAssignmentsAreLost`, `CirclesNeedOverridesOrKeys`, the refinement `ImplementsAccessTables`, `EveryCallAnswers` |
| `permission_cache` | `MCPermissionCache`, `PermissionCache.cfg` | 1 user beside the owner, 2 member identifiers, 1 role beside the owner's, 1 permission, 2 calls, 1 reader | `CacheTypeOK`, `EntriesAreFresh`, `OverridesPrevail`, `StaleEntriesGo` |
| `deny_precedence` | `MCPermissionCache`, `DenyPrecedence.cfg` | the same, with the role of the owner given to the user, 1 call | `DenyTakesPrecedence` is violated |
| `registration` | `MCRegistration`, `Registration.cfg` | 3 registrations, 3 addresses, the names "acme" and "acme 1", 4 jobs, 3 attempts, 1 stall | `TypeOK`, `SlugsAreSequential`, `WelcomeIsForTheRegistered`, the refinement `ImplementsOnboarding`, `RegistrationsAreAnswered`, `MailsAreBounded`, `CopiesAreOwedToFaults`, `LogsAreTrue`, `JobsSettle` |
| `slug_retry` | `MCRegistration`, `SlugRetry.cfg` | the same | `SlugClashIsRetried` is violated |

The six violations are disagreements of the code with its own messages,
comments or tests:

- **A reused token does not revoke its family.** The revocation is inside the
  transaction whose callback then throws (`token.service.ts:99-104`, and 114-119
  for a clash), so it is rolled back; the log message says "Revoking entire
  family". The reused token itself is refused, which is why the safety
  properties hold.
- **A reset code works twice** if two resets read it before either commits
  (`password-reset.service.ts:110-128`): `markAsUsed` updates by id alone. A call
  that begins after the first effect is refused (`SpentCodeIsRefused`).
- **An accepted invitation can be revoked** when the acceptance falls between the
  checks and the update of `revokeInvitation`. The reverse order is safe: an
  acceptance repeats its test under the lock (`RevokedIsNotAccepted`).
- **Two open invitations** for one address and organization when two calls
  overlap. At most one of them is ever accepted (`AcceptanceMakesTheAccount`).
- **A DENY override does not bar a member with the owner's role**: the role
  brings the wildcard `*`, which the override leaves in the list and the guard
  accepts (`permission-resolution.service.ts:133`, `permissions.guard.ts:39`).
  Without that role DENY does win: `Override` takes the denied keys out.
- **The retry on a slug clash never succeeds**, as it runs inside the transaction
  that the clash has aborted (`organization.repository.ts:93`). The registration
  fails as a whole and leaves no gap (`SlugsAreSequential`).

### Bounds

Bounds are in the MC modules as an action constraint, `Bounds`, on the next
state. `MaxExpired` limits how often a date passes, `MaxOutside` how often a date passes
or an address registers elsewhere; one is enough to have an expired and an
unexpired row side by side. `EnoughTokens` (and the
invitations left, in `MCInvitations`) keeps an unused row for every call that may
still insert one, so that no call is stopped by the size of a pool, which would
make the liveness property fail or hold for the wrong reason. Three calls let
two overlap while a third, or the world, changes what both have read. Two
acceptances of different addresses that race for the MEMBER role need two
invitations that have been sent, which would be five calls: `SentInit` therefore
starts the invitations run after any of the states that answered calls of
`createInvitation` leave, up to renaming (one address can still have both
invitations, the second sent once the first has lapsed or while another call
sends one). One user is enough where users share no rows (the statements of a
logout-all select by user), and one organization where contention is for its
role and its memberships; the proofs cover any number.

In the catalogue the second membership is absent, the second role and permission
are both absent or both there, and the member has the first role, with any of the
other joins, so that calls meet things that come, stay and go and replacements
have something to delete; two calls and a `Join` give every pair of kinds every
order. A circle of waits needs two rows and two calls, which the instance has; the
proof covers longer ones. In `permission_cache` at most one
transaction is open at a time: their overlapping is the subject of the catalogue
run, while what they do to the cache afterwards overlaps freely here, and
`PermissionCacheProofs` covers both at once. Role updates are those that give permissions
alone (`PermissionsOnly`): a name matters to transactions that overlap only. One reader is enough for a store
that is overtaken; owner and owner's role are left out of this instance (their
entries are `{*}` and the active permissions, which the meta key stands for) and
are in `deny_precedence` and the proofs.

Jobs do not touch each other, so `MCRegistration` has either registrations or a
mail of another service (`OthersAlone`), lets Redis take the jobs `Queued`, and
lets only `Faulty` ones meet faults; the job of another service meets every
combination of three attempts and one stall. Three registrations give a slug
that is free, one taken at the lookup and one taken at the insert.

`BeginInOrder` lets calls begin in the order of their numbers. Calls differ only
in their number, so every behaviour is one of these up to a renaming; unlike
SYMMETRY this is sound for the liveness properties. `CHECK_DEADLOCK FALSE` is
set because a run ends when every call has been answered and no date is left to
pass; that no call is stuck before is `EveryCallAnswers`.

### Fairness

`WF_vars(Continue(r))` for each call: the event loop resumes a handler whose
await is done, and the server grants a free lock. Nothing obliges a client to
call, a date to pass, an administrator to act or a transaction to fail: `Begin`,
`Abort` and the world are not fair, so `EveryCallAnswers` is not achieved by
failing. In `StaleEntriesGo` a call that has committed and does not fail clears
the cache, and a reader that has begun goes on. SCAN is fair in that the keys it
has to return are returned (`DeletePage` of a key of `sweep` is in `Invalidate`);
keys stored meanwhile need not be. For mails, `Work` of every job is fair: a
worker is running again after a stop. Faults are not fair, and `Stall` and throws
are bounded by the queue itself, so `JobsSettle` needs no bound of the instance.

Locks on several rows are taken by one action. The server takes them one by one,
and could deadlock two statements that visit the same rows in different orders;
it then aborts one of them, which is `Abort`. Circles over the locks that the
models do tell apart are `Deadlocked` in `Catalogue`, where
`OnlyOverridesOrKeysDeadlock` says which there are, and are excluded by the
theorems `...NeverDeadlock` elsewhere: all of these are about the order in which the
statements of a call take their rows, not about the order within one
statement.

## 5. Proofs

TLAPS checks every step; the only assumptions are the ASSUMEs that the "none"
marks are not members of the sets, that the kinds of things are disjoint, that
requests are finitely many and that a job has at least one attempt.

| Module | Theorems |
|---|---|
| `TokenServiceProofs` | `TypeCorrect`, `RotationKeepsOneLiveToken`, `DeadTokensAreRefused`, `LogoutCloses`, `LogoutAllCloses`, `TokenServiceNeverDeadlocks` |
| `TokenRefinementProofs` | `ServiceImplementsFamilies` |
| `AuthFlowsProofs` | `FlowTypesCorrect`, `FlowsImplementTokenService`, `FlowsKeepOneLiveToken`, `FlowsRefuseDeadTokens`, `FlowsCloseOnLogout`, `FlowsNeverDeadlock`, `FlowsImplementFamilies`, `ResetsCloseSessions`, `SpentCodesAreRefused` |
| `InvitationsProofs` | `InvitationTypesCorrect`, `AcceptancesMakeAccounts`, `RevokedStaysUnaccepted`, `MembershipsStay`, `InvitationsNeverDeadlock`, `InvitationsImplementMembership` |
| `CatalogueProofs` | `ForeignKeysHold`, `CallsReplaceWholly`, `DeletionsLoseLateAssignments`, `CatalogueImplementsAccessTables`, `OnlyOverridesOrKeysDeadlock` |
| `PermissionCacheProofs` | `CacheTypesHold`, `EntriesStayFresh`, `CachedOverridesPrevail`, `CacheImplementsAccessTables`, `CatalogueHoldsUnderCache` |
| `MailQueueProofs` | `MailsBounded`, `CopiesNeedFaults`, `LogsStayTrue` |
| `RegistrationProofs` | `RegistrationImplementsMailQueue`, `RegistrationTypesCorrect`, `SlugsHaveNoGaps`, `WelcomesAreEarned`, `RegistrationMailsBounded`, `RegistrationCopiesNeedFaults`, `RegistrationLogsStayTrue`, `RegistrationImplementsOnboarding` |

**Token service.** One live token per session is not inductive: a rotation in
progress must know that the row it locked is still the live one. `IInv` adds that
no token is locked twice (`LocksExclusive`), what each stage has locked
(`LocksOK`: a call in `"rotated"` holds exactly its token, and it is live), what
a logout (`LogoutOK`) and a logout-all (`LogoutAllOK`) have covered so far, and
why a late refresh will be refused at each later test (`LateOK`). The heart is
`RefreshCommit`: the family of the session was `{t}` with `t` locked by the call
alone, and is `{NewToken}` afterwards. Calls never wait for each other in a
circle (`TokenServiceNeverDeadlocks`): `WaitsFor` is shown to be what the guards
of the model wait for (`WaitsAreTheLocks`), a call takes tokens before sessions,
and whoever holds sessions has no statement on rows left (`SessionsLast`), so one
who holds what another waits for is further on, or waits for nothing.

**Refinement.** Every commit that changes rows is one abstract step, by cases on
the action; `HolderOf` reads the holder off the rows, which needs the invariant
as the mapping is a CHOOSE.

**Flows.** `FlowStepIsTokenStep` shows that every step of the flows is a step of
`TokenService` or leaves its variables alone, so `FlowSpec => Spec` and the
theorems above, the refinement included, carry over. For the resets the invariant is
`EarlierSessionsCovered`: for each open session older than the last password
change there is a reset that will close it (it has not selected the sessions
yet, or has this one selected or locked) or that failed.

**Invitations.** `IInv` says of each stage that what the call has inserted or
updated is free in the committed rows (`WrittenOK`) and that no two open
transactions have written the same key (`Apart`). With that, `AcceptCommit` can
only add rows that were not there, which gives three of the properties; for the
fourth, the call that accepted an invitation is kept as the witness
(`AcceptedMadeAccount`). The refinement is by cases on the action: only the
commits change the rows, and `WrittenOK` says that what they were allowed to
write when they tested is still allowed. No circle of waits: invitation, address,
member and role are taken in this order (`Level`), so in any set of calls that
wait the one at the highest level waits for nobody in it.

**Catalogue.** The foreign keys need to know what each call is about (`CallOK`),
and that an upserted override cannot lose its permission before it is committed
(`PutOK`): the upsert shares its key, and a deletion has to wait. `Apart` says that
no two transactions hold the row of one holder or have changed one join. `ReadOK`
says that the joins of a holder are, beside those its call is to delete and to
insert, only what others committed since, and `CountOK` that what is assigned to
a thing about to be deleted was committed after the count. For the refinement,
`AskOK` carries what a call was allowed to begin with (the checks on system roles
and on the owner are made outside of the transaction) to its commit: they are
about what never changes, so they still hold. The abstract step of a commit is
then given by the kind of the call, and its foreign keys by `ForeignKeysHold`.
`OnlyOverridesOrKeysDeadlock` rests on `CutInv`: what a transaction has selected
is there until another commits, and of two selections of the joins of one member
or role the later is what is left of the earlier (`SelectionsNest`), so of two
that both hold rows neither can wait for the other. In a circle every call holds
what another waits for; where no key is held, all are at an INSERT
(`CirclesInsert`), and what an INSERT then waits for is a row of its own holder.
Overrides are selected by identifiers computed before the transaction, and do not
nest.

**Permission cache.** A commit changes what the tables say of a user only if it
is about that user, or about roles or permissions, and then its keys are about to
be dropped (`OneUserChanges`, `CommitIsCleared`). `Join` drops nothing; it changes
a user who has no membership, and the invariant says that nobody without one has
an entry that is trusted (`EntryOK`, `JoinIsHarmless`): a reader needs a membership
to begin, and one whose membership goes while it reads is in `moved`. A reader
that is not in `moved` has read what the tables say, query by query (`Knows`).
`TableStep` is a step of `Catalogue`, so that its theorems carry over, the
refinement included. `CachedOverridesPrevail` follows from `EntriesStayFresh`, by
what `Override` does to the keys of the roles.

**Mails.** Copies are counted by where the job is: an accepted mail has left once
more than the attempts and stalls behind it, and each of those but the first has
left a fault (`CopiesNeedFaults`). A record of EMAIL_SENT is written in the
stage after the mail has left (`LogsStayTrue`).

**Registrations.** Every step is a step of `MailQueue` or leaves its
variables alone, so `Spec => MailSpec`. That slugs have no gaps follows from the
loop: below the counter of a call every candidate is taken (and committed slugs
stay). That the number is at most the number of registrations is a pigeonhole
argument over the finite set of requests (`TakenAreFew`). `Onboarding` takes its
step at `Commit`: the account is free because the insert holds its key, the slug
is the least free one by the invariant of the loop, and a mail leaves only for a
registration that has committed (`WelcomesAreEarned`).

## 6. What is only model-checked, and what is left out

Every invariant and every action property of the passing runs, and every
refinement, is stated by a theorem of section 5. Liveness (`EveryCallAnswers` of the three modules that have it, `StaleEntriesGo`,
`RegistrationsAreAnswered` and `JobsSettle`) depends on fairness and ENABLED and
is checked by TLC only. The violated properties are counterexamples, not
theorems.

Not modelled: the JWT strategy, users, controllers, configuration and start-up,
which keep no state of their own; the contents of hashes, JWTs, mails and responses; the lengths of
lifetimes (a date passes at any time); `Session.expiresAt`, which the code writes
and never reads; rate limits and cookies. In the
catalogue: names and keys with their clashes, requests that change names only,
which permissions a non-owner may delegate, the creation of the MEMBER role by an
acceptance and the statements of a new membership before its commit (see
`Invitations`), `invitedBy`, which the removal of a member sets to NULL, and the
audit rows written after the answer is decided. A statement takes its rows in one
step, after the row it deletes: the order among rows that cascade is left out.
Inserts by `createMany` are one statement; overrides are upserted one by one. In the cache:
renames, which change the key a permission is stored under. In the mail queue:
the inline path, which cannot be reached as `mail.module.ts` registers the queue,
and the lengths of delays.

An update of a permission that does not name `isActive` writes back the value it
read, and so can undo an overlapping deactivation (`permissions.service.ts:111`).
`UpdatePermission` models this; nothing in the repository says who should win, so
no property does.

Still worth doing: the composition of the invitation flow with `Catalogue`, so
that `Join` is the acceptance itself; the flows of `AuthFlows` with their mails;
a second organization that shares a user with the first.

A login that compared the old password and opens its session after a reset has
revoked all others is possible in the model as in the code; no document of the
repository speaks of it, so no property does. `ResetEndsEarlierSessions` is
about sessions that were opened before the password changed.

## 7. Running

    tlc -config TokenService.cfg MCTokenService.tla
    tlc -config AuthFlows.cfg MCAuthFlows.tla
    tlc -config Invitations.cfg MCInvitations.tla
    tlc -config Catalogue.cfg MCCatalogue.tla
    tlc -config PermissionCache.cfg MCPermissionCache.tla
    tlc -config Registration.cfg MCRegistration.tla
    tlapm TokenServiceProofs.tla      (and the other *Proofs modules)

Definitions marked "Variant" in the modules are deliberate faults, one for each
property; with the variant in the place of the definition below it, TLC finds
that property violated.
