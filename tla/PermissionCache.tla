--------------------------- MODULE PermissionCache ---------------------------
(***************************************************************************)
(* The permissions that the guards decide by: resolved from the tables of  *)
(* Catalogue, kept in Redis for a while, and dropped from Redis by the     *)
(* calls that change the tables, after they have committed                 *)
(* (permission-resolution.service.ts, cache.service.ts and the guards).    *)
(*                                                                         *)
(* A reader is a request on its way through the guards, a login or a       *)
(* GET /auth/me, which list the permissions of the user and pass no guard  *)
(* of the organization, or one that asks for the modules and actions there *)
(* are (getPermissionMeta), whose key matches the pattern of the           *)
(* permission keys too.  It looks its key up, and on a miss reads the      *)
(* tables, one query after another and outside any transaction, and stores *)
(* what it has read.                                                       *)
(***************************************************************************)
EXTENDS Catalogue

CONSTANTS Readers,
          OwnerRole,   \* the system role with the key 'owner'
          Meta,        \* the key 'auth:permissions:meta'
          Wildcard,    \* the permission '*'
          NoKey, NoEntry

ASSUME CacheAssumption ==
  /\ OwnerRole \in SystemRoles
  /\ Meta \notin Users \cup Things /\ NoKey \notin Users \cup {Meta}
  /\ Wildcard \notin Permissions
  /\ \A P \in SUBSET (Permissions \cup {Wildcard}) : P # NoEntry

VARIABLES
  cache,     \* Redis: the entry of each key
  at,        \* where each reader is
  key, seen, \* the key it reads for; the roles or the permissions it has read
  sweep,     \* the keys a scan has yet to visit
  moved,     \* history: readers whose tables have changed since they found the membership
  tainted    \* history: keys stored by such a reader, or whose invalidation failed

redis == <<cache, at, key, seen, sweep, moved, tainted>>
allVars == <<vars, redis>>

Keys == Users \cup {Meta}
Grants == Permissions \cup {Wildcard}
Entries == SUBSET Grants

CacheInit == /\ Init
             /\ cache = [k \in Keys |-> NoEntry]
             /\ at = [d \in Readers |-> "idle"]
             /\ key = [d \in Readers |-> NoKey]
             /\ seen = [d \in Readers |-> {}]
             /\ sweep = [r \in Requests |-> {}]
             /\ moved = {} /\ tainted = {}

-----------------------------------------------------------------------------
\* What the tables say

ActivePermissions == {p \in Permissions : row[p] = "active"}
Enrolled(u) == {m \in Members : UserOf[m] = u /\ Present(m)}
Memberships(u) == {m \in Enrolled(u) : row[m] = "active"}
RolesOf(u) == {x \in Roles : \E m \in Memberships(u) : <<m, x>> \in join}

\* The permissions of the roles, and the wildcard of the role 'owner'.
GrantsOf(X) == {p \in Permissions : \E x \in X : <<x, p>> \in join}
               \cup {w \in {Wildcard} : OwnerRole \in X}
OnlyActive(P) == P \cap (ActivePermissions \cup {Wildcard})
GrantedBy(X) == OnlyActive(GrantsOf(X))

\* Overrides do not ask for an active permission, nor for an active membership.
Overridden(u) == {p \in Permissions : <<u, p>> \in join}  \* Variant: the effect is not read.
Granted(u) == {p \in Permissions : <<u, p>> \in join \ deny}
Denied(u) == {p \in Permissions : <<u, p>> \in deny}
Override(u, P) == (P \ Denied(u)) \cup Granted(u)

Resolution(k) == IF k = Meta THEN ActivePermissions
                 ELSE IF k = Owner THEN {Wildcard} \cup ActivePermissions
                 ELSE Override(k, GrantedBy(RolesOf(k)))

\* What a reader of k reads, query by query, and that there is a membership at all.
Inputs(k) == IF k \in {Meta, Owner} THEN <<Resolution(k)>>
             ELSE <<Enrolled(k), RolesOf(k), GrantsOf(RolesOf(k)), GrantedBy(RolesOf(k)),
                    Granted(k), Denied(k)>>

\* permissionCacheKeys: the keys a committed call has yet to drop.
KeysFor(r) == IF pc[r] = "clearAll" THEN Keys
              ELSE IF holder[r] \in Users THEN {holder[r]} ELSE {UserOf[holder[r]]}
ToDrop(r) == IF pc[r] \in {"clearUser", "clearAll"} THEN KeysFor(r) ELSE sweep[r]

-----------------------------------------------------------------------------
\* Readers

\* The history of a step that may change the tables, which touches nothing in Redis.
Notice == /\ UNCHANGED <<cache, at, key, seen, sweep, tainted>>
          /\ moved' = moved \cup {d \in Readers : \E k \in Keys : key[d] = k /\ Inputs(k)' # Inputs(k)}

Reads(d, from, to) == at[d] = from /\ at' = [at EXCEPT ![d] = to]
ReaderOnly == UNCHANGED <<vars, sweep, moved, tainted>>

Leave(d) == /\ at' = [at EXCEPT ![d] = "idle"]
            /\ key' = [key EXCEPT ![d] = NoKey]
            /\ seen' = [seen EXCEPT ![d] = {}]
            /\ moved' = moved \ {d}

Arrives(d, k) == /\ Reads(d, "idle", "look")
                 /\ key' = [key EXCEPT ![d] = k]
                 /\ ReaderOnly /\ UNCHANGED <<cache, seen>>

\* An active member passes.
TenantOrgGuard(d, u) == Memberships(u) # {} /\ Arrives(d, u)

\* GET /auth/me and the logins take a membership of any status.
GetProfile(d, u) == Enrolled(u) # {} /\ Arrives(d, u)

GetPermissionMeta(d) == Arrives(d, Meta)

\* A hit: the guard decides by the entry.
Hit(d) == /\ at[d] = "look" /\ cache[key[d]] # NoEntry
          /\ Leave(d)
          /\ UNCHANGED <<vars, cache, sweep, tainted>>

Miss(d) == /\ Reads(d, "look", IF key[d] \in {Meta, Owner} THEN "active" ELSE "memberRoles")
           /\ cache[key[d]] = NoEntry
           /\ ReaderOnly /\ UNCHANGED <<cache, key, seen>>

ReadActivePermissions(d) == /\ Reads(d, "active", "store")
                            /\ seen' = [seen EXCEPT ![d] = Resolution(key[d])]
                            /\ ReaderOnly /\ UNCHANGED <<cache, key>>

\* findMany of MemberRole with its include: one SELECT of each table, none of which sees
\* what changes after it.
ReadMemberRoles(d) == /\ Reads(d, "memberRoles", "rolePermissions")
                      /\ seen' = [seen EXCEPT ![d] = RolesOf(key[d])]
                      /\ ReaderOnly /\ UNCHANGED <<cache, key>>

ReadRolePermissions(d) == /\ Reads(d, "rolePermissions", "permissions")
                          /\ seen' = [seen EXCEPT ![d] = GrantsOf(@)]
                          /\ ReaderOnly /\ UNCHANGED <<cache, key>>

ReadPermissions(d) == /\ Reads(d, "permissions", "overrides")
                      /\ seen' = [seen EXCEPT ![d] = OnlyActive(@)]
                      /\ ReaderOnly /\ UNCHANGED <<cache, key>>

ResolveUserOverrides(d) == /\ Reads(d, "overrides", "store")
                           /\ seen' = [seen EXCEPT ![d] = Override(key[d], @)]
                           /\ ReaderOnly /\ UNCHANGED <<cache, key>>

\* The bulk update of overrides asks for the permissions of its user once more, with no
\* guard in between.
LookAgain(d) == /\ key[d] # Meta
                /\ at' = [at EXCEPT ![d] = "look"]
                /\ seen' = [seen EXCEPT ![d] = {}]
                /\ UNCHANGED <<key, moved>>

StoreEntry(d) == /\ at[d] = "store"
                 /\ cache' = [cache EXCEPT ![key[d]] = seen[d]]
                 /\ tainted' = IF d \in moved THEN tainted \cup {key[d]} ELSE tainted \ {key[d]}
                 /\ Leave(d) \/ LookAgain(d)
                 /\ UNCHANGED <<vars, sweep>>

\* Redis or the database does not answer: the request fails and nothing is stored.
ReaderFails(d) == /\ at[d] # "idle" /\ Leave(d)
                  /\ UNCHANGED <<vars, cache, sweep, tainted>>

Read(d) == \/ Hit(d) \/ Miss(d) \/ ReadActivePermissions(d) \/ ReadMemberRoles(d)
           \/ ReadRolePermissions(d) \/ ReadPermissions(d)
           \/ ResolveUserOverrides(d) \/ StoreEntry(d)
Arrive(d) == GetPermissionMeta(d) \/ \E u \in Users : TenantOrgGuard(d, u) \/ GetProfile(d, u)

-----------------------------------------------------------------------------
\* Invalidations

\* Keys leave Redis; a scan under way may or may not meet them if they come back.
Drop(K) == /\ cache' = [k \in Keys |-> IF k \in K THEN NoEntry ELSE cache[k]]
           /\ tainted' = tainted \ K

Expire(k) == /\ cache[k] # NoEntry /\ Drop({k})
             /\ sweep' = [q \in Requests |-> sweep[q] \ {k}]
             /\ UNCHANGED <<vars, at, key, seen, moved>>

\* Variant: the key does not name the user.
InvalidateNothing(r) ==
  /\ pc[r] = "clearUser"
  /\ End(r)
  /\ UNCHANGED redis

InvalidateUserCache(r) ==
  /\ pc[r] = "clearUser"
  /\ Drop(KeysFor(r))
  /\ sweep' = [q \in Requests |-> sweep[q] \ KeysFor(r)]
  /\ End(r)
  /\ UNCHANGED <<at, key, seen, moved>>

\* Variant: a scan of one page, which may be empty.
DeleteFirstPage(r) ==
  /\ pc[r] = "clearAll"
  /\ sweep' = [sweep EXCEPT ![r] = {}]
  /\ pc' = [pc EXCEPT ![r] = "sweeping"]
  /\ UNCHANGED <<rows, asked, cut, writes, put, since, cache, at, key, seen, moved, tainted>>

\* SCAN returns every key that is there from its beginning to its end.
DeleteByPattern(r) ==
  /\ pc[r] = "clearAll"
  /\ sweep' = [sweep EXCEPT ![r] = {k \in Keys : cache[k] # NoEntry}]
  /\ pc' = [pc EXCEPT ![r] = "sweeping"]
  /\ UNCHANGED <<rows, asked, cut, writes, put, since, cache, at, key, seen, moved, tainted>>

\* A page of the scan is deleted.  It may hold a key that was stored meanwhile.
DeletePage(r, k) ==
  /\ pc[r] = "sweeping" /\ cache[k] # NoEntry
  /\ Drop({k})
  /\ sweep' = [q \in Requests |-> sweep[q] \ {k}]
  /\ UNCHANGED <<vars, at, key, seen, moved>>

\* Variant: the loop ends whatever the cursor says.
EndOfPage(r) ==
  /\ pc[r] = "sweeping"
  /\ End(r)
  /\ UNCHANGED redis

\* The permissions service deletes the key of the meta data once more.
EndOfScan(r) ==
  /\ pc[r] = "sweeping" /\ sweep[r] = {}
  /\ IF holder[r] \in Permissions THEN Drop({Meta}) ELSE UNCHANGED <<cache, tainted>>
  /\ sweep' = [q \in Requests |-> IF holder[r] \in Permissions THEN sweep[q] \ {Meta} ELSE sweep[q]]
  /\ End(r)
  /\ UNCHANGED <<at, key, seen, moved>>

\* Redis does not answer, or the process stops: the call fails after its commit.
InvalidationFails(r) ==
  /\ pc[r] \in Committed
  /\ tainted' = tainted \cup ToDrop(r)
  /\ sweep' = [sweep EXCEPT ![r] = {}]
  /\ End(r)
  /\ UNCHANGED <<cache, at, key, seen, moved>>

Invalidate(r) == \/ InvalidateUserCache(r) \/ DeleteByPattern(r) \/ EndOfScan(r)
                 \/ \E k \in sweep[r] : DeletePage(r, k)

TableStep == \/ \E r \in Requests : Begin(r) \/ Write(r) \/ Abort(r)
             \/ \E m \in Members, S \in SUBSET Roles : Join(m, S)

CacheNext == \/ TableStep /\ Notice
             \/ \E d \in Readers : Arrive(d) \/ Read(d) \/ ReaderFails(d)
             \/ \E k \in Keys : Expire(k)
             \/ \E r \in Requests : Invalidate(r) \/ InvalidationFails(r)
             \/ \E r \in Requests, k \in Keys : DeletePage(r, k)

CacheSpec == CacheInit /\ [][CacheNext]_allVars
CacheFairness == /\ \A r \in Requests : WF_allVars((Write(r) /\ Notice) \/ Invalidate(r))
                 /\ \A d \in Readers : WF_allVars(Read(d))
FairCacheSpec == CacheSpec /\ CacheFairness

-----------------------------------------------------------------------------
\* Properties

\* A key a scan has yet to visit belongs to a call that is scanning.
CacheTypeOK ==
  /\ cache \in [Keys -> Entries \cup {NoEntry}]
  /\ at \in [Readers -> {"idle", "look", "active", "memberRoles", "rolePermissions", "permissions",
                      "overrides", "store"}]
  /\ key \in [Readers -> Keys \cup {NoKey}]
  /\ \A d \in Readers : at[d] # "idle" => key[d] \in Keys
  /\ seen \in [Readers -> SUBSET (Roles \cup Grants)]
  /\ sweep \in [Requests -> SUBSET Keys]
  /\ \A r \in Requests : sweep[r] # {} => pc[r] = "sweeping"
  /\ moved \subseteq Readers /\ tainted \subseteq Keys

\* An entry says what the tables say, or a call that has committed is about to drop
\* it.  The exceptions are the entries stored by a request whose tables changed after
\* it had found the membership and those whose invalidation failed: these live until
\* they expire or the next call drops them.  So does what GET /auth/me stores for a
\* suspended member who is removed meanwhile: added again, he has the permissions of none
\* of his roles.  But for these, a membership may be made with no key dropped: nobody
\* who is not enrolled has an entry.
EntriesAreFresh ==
  \A k \in Keys : \/ cache[k] \in {NoEntry, Resolution(k)}
                  \/ k \in tainted
                  \/ \E r \in Requests : k \in ToDrop(r)

\* Such an entry goes, without waiting for it to expire: the call that is to drop it
\* gets to it, whatever readers store while it scans.
Stale(k) == cache[k] \notin {NoEntry, Resolution(k)} /\ k \notin tainted
StaleEntriesGo == \A k \in Keys : Stale(k) ~> ~Stale(k)

\* What a guard may rely on when it meets an entry that is none of these exceptions, of
\* a user who is not the owner: no permission denied to him is in it and every one given
\* to him is, whatever his roles say, and it is a wildcard only by the role 'owner'.
OverridesPrevail ==
  \A u \in Users \ {Owner} :
    \/ cache[u] = NoEntry \/ u \in tainted \/ \E r \in Requests : u \in ToDrop(r)
    \/ /\ Denied(u) \cap cache[u] = {} /\ Granted(u) \subseteq cache[u]
       /\ Wildcard \in cache[u] => OwnerRole \in RolesOf(u)

\* A DENY override bars the user from the permission, whatever his roles grant.
DenyTakesPrecedence ==
  \A u \in Users \ {Owner} :
    cache[u] = Resolution(u) => Denied(u) \cap cache[u] = {} /\ (Denied(u) # {} => Wildcard \notin cache[u])
=============================================================================
