----------------------- MODULE PermissionCacheProofs -----------------------
(***************************************************************************)
(* Which entries of the permission cache can be stale, with any number of  *)
(* calls, readers, users, roles and permissions.                           *)
(*                                                                         *)
(* Two facts carry the proof.  A commit changes the permissions of no key  *)
(* but those that its call is about to drop.  And a reader whose tables    *)
(* have not changed has read what they say.  A new membership, which drops *)
(* no key, finds no entry: an entry that nobody is about to drop belongs   *)
(* to a user who is enrolled, whatever the status of the membership.       *)
(***************************************************************************)
EXTENDS PermissionCache, CatalogueProofs

\* A call that has committed knows whose keys to drop.
ClearOK == /\ \A r \in Requests : pc[r] = "clearUser" => holder[r] \in Users \cup Members
           /\ \A r \in Requests : sweep[r] # {} => pc[r] = "sweeping"

\* What a reader of k has read.
Knows(d, k) ==
  /\ at[d] = "active" => k \in {Meta, Owner}
  /\ at[d] \in {"memberRoles", "rolePermissions", "permissions", "overrides"} => k \notin {Meta, Owner}
  /\ at[d] \in {"permissions", "overrides", "store"} => seen[d] \in Entries
  /\ d \notin moved =>
       /\ at[d] = "rolePermissions" => seen[d] = RolesOf(k)
       /\ at[d] = "permissions" => seen[d] = GrantsOf(RolesOf(k))
       /\ at[d] = "overrides" => seen[d] = GrantedBy(RolesOf(k))
       /\ at[d] = "store" => seen[d] = Resolution(k)
       /\ k \notin {Meta, Owner} => Enrolled(k) # {}
ReaderOK(d) == at[d] # "idle" => \A k \in Keys : key[d] = k => Knows(d, k)

\* An entry that is neither excused nor about to go.
Trusted(k) == cache[k] # NoEntry /\ k \notin tainted /\ \A r \in Requests : k \notin ToDrop(r)
EntryOK(k) == Trusted(k) => /\ cache[k] = Resolution(k)
                            /\ k \notin {Meta, Owner} => Enrolled(k) # {}

CacheInv == /\ Inv
            /\ CacheTypeOK
            /\ ClearOK
            /\ \A d \in Readers : ReaderOK(d)
            /\ \A k \in Keys : EntryOK(k)

-----------------------------------------------------------------------------
\* What the tables say

LEMMA ResolutionType ==
  /\ \A X : GrantsOf(X) \in Entries /\ GrantedBy(X) \in Entries
  /\ \A k : Resolution(k) \in Entries
  /\ \A k, P : P \in Entries => OnlyActive(P) \in Entries /\ Override(k, P) \in Entries
BY DEF Entries, Grants, GrantsOf, OnlyActive, GrantedBy, ActivePermissions, Granted, Denied, Override,
       Resolution

\* The tables say of k what they said before.
Stands(k) ==
  /\ Resolution(k)' = Resolution(k)
  /\ k \notin {Meta, Owner} =>
       /\ Enrolled(k)' = Enrolled(k)
       /\ RolesOf(k)' = RolesOf(k)
       /\ GrantsOf(RolesOf(k))' = GrantsOf(RolesOf(k))
       /\ GrantedBy(RolesOf(k))' = GrantedBy(RolesOf(k))

\* A reader that reads the same inputs resolves the same permissions.
LEMMA SameInputs ==
  ASSUME NEW k, Inputs(k)' = Inputs(k)
  PROVE  Stands(k)
<1>1. CASE k \in {Meta, Owner}
  BY <1>1 DEF Inputs, Stands
<1>2. CASE k \notin {Meta, Owner}
  <2>1. <<Enrolled(k), RolesOf(k), GrantsOf(RolesOf(k)), GrantedBy(RolesOf(k)), Granted(k), Denied(k)>>'
          = <<Enrolled(k), RolesOf(k), GrantsOf(RolesOf(k)), GrantedBy(RolesOf(k)), Granted(k), Denied(k)>>
    BY <1>2 DEF Inputs
  <2>2. /\ Enrolled(k)' = Enrolled(k) /\ RolesOf(k)' = RolesOf(k)
        /\ GrantsOf(RolesOf(k))' = GrantsOf(RolesOf(k))
        /\ GrantedBy(RolesOf(k))' = GrantedBy(RolesOf(k))
        /\ Granted(k)' = Granted(k) /\ Denied(k)' = Denied(k)
    BY <2>1
  <2>3. Resolution(k)' = Resolution(k)
    BY <1>2, <2>2 DEF Resolution, Override
  <2> QED
    BY <2>2, <2>3 DEF Stands
<1> QED
  BY <1>1, <1>2

LEMMA TablesStand ==
  ASSUME UNCHANGED rows
  PROVE  \A k : Stands(k)
BY DEF rows, Stands, Resolution, Enrolled, Memberships, Present, ActivePermissions, Override, GrantsOf,
       OnlyActive, GrantedBy, RolesOf, Granted, Denied

\* A change of one member, or of the joins of one holder that is not a role, is the
\* business of one user.
LEMMA OneUserChanges ==
  ASSUME TypeOK, NEW g \in Users \cup Members,
         \A x \in Things \ {g} : row'[x] = row[x],
         \A j \in Joins \ Of(g) : (j \in join' <=> j \in join) /\ (j \in deny' <=> j \in deny),
         NEW k \in Keys, k # g, g \in Members => k # UserOf[g]
  PROVE  Resolution(k)' = Resolution(k) /\ Enrolled(k)' = Enrolled(k)
<1> USE CatalogueAssumption
<1>1. ActivePermissions' = ActivePermissions
  BY DEF ActivePermissions, Things
<1>2. Enrolled(k)' = Enrolled(k) /\ Memberships(k)' = Memberships(k)
  BY DEF Memberships, Enrolled, Present, Things
<1>3. \A m \in Memberships(k), x \in Roles : <<m, x>> \in join' <=> <<m, x>> \in join
  <2> SUFFICES ASSUME NEW m \in Memberships(k), NEW x \in Roles
               PROVE  <<m, x>> \in Joins \ Of(g)
    OBVIOUS
  <2> QED
    BY DEF Memberships, Enrolled, Joins, MemberRole, Of, Things
<1>4. \A x \in Roles, p \in Permissions : <<x, p>> \in join' <=> <<x, p>> \in join
  <2> SUFFICES ASSUME NEW x \in Roles, NEW p \in Permissions PROVE <<x, p>> \in Joins \ Of(g)
    OBVIOUS
  <2> QED
    BY DEF Joins, RolePermission, Of, Things
<1>5. k \in Users => \A p \in Permissions : /\ <<k, p>> \in join' <=> <<k, p>> \in join
                                            /\ <<k, p>> \in deny' <=> <<k, p>> \in deny
  <2> SUFFICES ASSUME k \in Users, NEW p \in Permissions PROVE <<k, p>> \in Joins \ Of(g)
    OBVIOUS
  <2> QED
    BY DEF Joins, UserPermissionOverride, Of
<1>6. RolesOf(k)' = RolesOf(k)
  BY <1>2, <1>3 DEF RolesOf
<1>7. GrantedBy(RolesOf(k))' = GrantedBy(RolesOf(k))
  <2>1. RolesOf(k) \in SUBSET Roles
    BY DEF RolesOf
  <2>2. GrantsOf(RolesOf(k))' = {p \in Permissions : \E x \in RolesOf(k)' : <<x, p>> \in join'}
                                \cup {w \in {Wildcard} : OwnerRole \in RolesOf(k)'}
    BY DEF GrantsOf
  <2>3. GrantsOf(RolesOf(k)) = {p \in Permissions : \E x \in RolesOf(k) : <<x, p>> \in join}
                               \cup {w \in {Wildcard} : OwnerRole \in RolesOf(k)}
    BY DEF GrantsOf
  <2>4. \A x \in RolesOf(k), p \in Permissions : <<x, p>> \in join' <=> <<x, p>> \in join
    BY <2>1, <1>4
  <2>5. GrantsOf(RolesOf(k))' = GrantsOf(RolesOf(k))
    BY <1>6, <2>2, <2>3, <2>4
  <2> QED
    BY <1>1, <2>5 DEF GrantedBy, OnlyActive
<1>8. k \in Users => Granted(k)' = Granted(k) /\ Denied(k)' = Denied(k)
  BY <1>5 DEF Granted, Denied
<1> QED
  BY <1>1, <1>2, <1>7, <1>8 DEF Resolution, Override, Keys

-----------------------------------------------------------------------------
\* Steps of the tables

\* After such a step a key is about to be dropped, or its permissions are as they were,
\* or it belongs to a user who was not enrolled.
Kept(k) == \/ \E r \in Requests : k \in ToDrop(r)'
           \/ Resolution(k)' = Resolution(k) /\ (k \notin {Meta, Owner} => Enrolled(k)' = Enrolled(k))
           \/ k \notin {Meta, Owner} /\ Enrolled(k) = {}

LEMMA TablesMove ==
  ASSUME CacheInv, Notice, Inv', ClearOK',
         \A k \in Keys : Kept(k),
         \A r \in Requests : ToDrop(r) \subseteq ToDrop(r)'
  PROVE  CacheInv'
<1> USE DEF CacheInv, Notice
<1>1. CacheTypeOK'
  BY DEF CacheTypeOK, ClearOK
<1>2. ASSUME NEW d \in Readers PROVE ReaderOK(d)'
  <2> SUFFICES ASSUME at[d] # "idle", NEW k \in Keys, key[d] = k PROVE Knows(d, k)'
    BY DEF ReaderOK
  <2>1. Knows(d, k) /\ at'[d] = at[d] /\ seen'[d] = seen[d]
    BY DEF ReaderOK
  <2>2. d \notin moved' => d \notin moved /\ Inputs(k)' = Inputs(k)
    OBVIOUS
  <2>3. d \notin moved' => Stands(k)
    BY <2>2, SameInputs
  <2> QED
    BY <2>1, <2>2, <2>3 DEF Knows, Stands
<1>3. ASSUME NEW k \in Keys PROVE EntryOK(k)'
  <2> SUFFICES ASSUME Trusted(k)'
               PROVE  cache[k] = Resolution(k)' /\ (k \notin {Meta, Owner} => Enrolled(k)' # {})
    BY DEF EntryOK
  <2>1. Trusted(k)
    BY DEF Trusted
  <2>2. Resolution(k)' = Resolution(k) /\ (k \notin {Meta, Owner} => Enrolled(k)' = Enrolled(k))
    BY <2>1 DEF Kept, Trusted, EntryOK
  <2> QED
    BY <2>1, <2>2 DEF EntryOK
<1> QED
  BY <1>1, <1>2, <1>3

\* A commit is followed by the invalidation of every key it concerns.
LEMMA CommitIsCleared ==
  ASSUME CacheInv, NEW r \in Requests, InsertRows(r) \/ EraseRow(r) \/ AlterRow(r), UNCHANGED sweep
  PROVE  /\ ClearOK'
         /\ \A k \in Keys : Kept(k)
         /\ \A q \in Requests : ToDrop(q) \subseteq ToDrop(q)'
<1> USE DEF CacheInv, Inv
<1> DEFINE h == holder[r]
<1>1. /\ pc[r] \in {"inserting", "cascading", "altering"} /\ holder' = holder
      /\ \A q \in Requests \ {r} : pc'[q] = pc[q]
  BY DEF InsertRows, EraseRow, AlterRow, Commit, asked, TypeOK
<1>2. CallOK(r) /\ r \in Calls
  BY <1>1 DEF Calls, Stages
<1>3. \/ pc'[r] = "clearAll"
      \/ pc'[r] = "clearUser" /\ h \in Users \cup Members
  <2>1. CASE InsertRows(r)
    BY <1>2, <2>1, CatalogueAssumption DEF InsertRows, Commit, TypeOK, CallOK, InTx, Things
  <2>2. CASE EraseRow(r) \/ AlterRow(r)
    BY <2>2 DEF EraseRow, AlterRow, Commit, TypeOK
  <2> QED
    BY <2>1, <2>2
<1>4. sweep[r] = {}
  BY <1>1 DEF ClearOK
<1>5. ClearOK'
  BY <1>1, <1>3, <1>4 DEF ClearOK
<1>6. \A q \in Requests : ToDrop(q) \subseteq ToDrop(q)'
  <2>1. ToDrop(r) = {}
    BY <1>1, <1>4 DEF ToDrop
  <2> QED
    BY <2>1, <1>1 DEF ToDrop, KeysFor
<1>7. ASSUME NEW k \in Keys PROVE Kept(k)
  <2>1. CASE pc'[r] = "clearAll"
    BY <2>1 DEF Kept, ToDrop, KeysFor
  <2>2. CASE pc'[r] = "clearUser" /\ h \in Users \cup Members
    <3>1. CASE k = h \/ (h \in Members /\ k = UserOf[h])
      <4>1. k \in ToDrop(r)'
        BY <1>1, <2>2, <3>1, CatalogueAssumption, CacheAssumption DEF ToDrop, KeysFor, Keys, Things
      <4> QED
        BY <4>1 DEF Kept
    <3>2. CASE k # h /\ (h \in Members => k # UserOf[h])
      <4>1. /\ \A x \in Things \ {h} : row'[x] = row[x]
            /\ \A j \in Joins \ Of(h) : (j \in join' <=> j \in join) /\ (j \in deny' <=> j \in deny)
        <5>1. CASE InsertRows(r)
          BY <1>2, <5>1 DEF InsertRows, Commit, CallOK, TypeOK
        <5>2. CASE EraseRow(r)
          <6>1. h \in Members
            BY <1>2, <2>2, <5>2 DEF EraseRow, CallOK
          <6>2. Touching(h) \subseteq Of(h)
            BY <6>1, JoinEnds, CatalogueAssumption DEF Touching, Of
          <6> QED
            BY <5>2, <6>2 DEF EraseRow, Commit, TypeOK
        <5>3. CASE AlterRow(r)
          BY <5>3 DEF AlterRow, Commit, TypeOK
        <5> QED
          BY <5>1, <5>2, <5>3
      <4>2. Resolution(k)' = Resolution(k) /\ Enrolled(k)' = Enrolled(k)
        BY <2>2, <3>2, <4>1, OneUserChanges
      <4> QED
        BY <4>2 DEF Kept
    <3> QED
      BY <3>1, <3>2
  <2> QED
    BY <1>3, <2>1, <2>2
<1> QED
  BY <1>5, <1>6, <1>7

\* A new membership changes the permissions of its user only, who had none.
LEMMA JoinIsHarmless ==
  ASSUME CacheInv, NEW m \in Members, NEW S \in SUBSET Roles, Join(m, S), NEW k \in Keys
  PROVE  Kept(k)
<1> USE DEF CacheInv, Inv
<1>1. /\ row' = [row EXCEPT ![m] = "active"] /\ deny' = deny /\ join' = join \cup ({m} \X S)
      /\ \A n \in Members : UserOf[n] = UserOf[m] => ~Present(n)
  BY DEF Join
<1>2. CASE k \in {Meta, Owner}
  <2>1. ActivePermissions' = ActivePermissions
    BY <1>1, CatalogueAssumption DEF ActivePermissions, TypeOK, Things
  <2> QED
    BY <1>2, <2>1 DEF Kept, Resolution
<1>3. CASE k \notin {Meta, Owner} /\ k = UserOf[m]
  <2>1. Enrolled(k) = {}
    BY <1>1, <1>3 DEF Enrolled
  <2> QED
    BY <1>3, <2>1 DEF Kept
<1>4. CASE k \notin {Meta, Owner} /\ k # UserOf[m]
  <2>1. /\ \A x \in Things \ {m} : row'[x] = row[x]
        /\ \A j \in Joins \ Of(m) : (j \in join' <=> j \in join) /\ (j \in deny' <=> j \in deny)
    BY <1>1, NewJoins DEF TypeOK
  <2>2. k # m
    BY <1>4, CatalogueAssumption DEF Keys, Things
  <2>3. Resolution(k)' = Resolution(k) /\ Enrolled(k)' = Enrolled(k)
    BY <1>4, <2>1, <2>2, OneUserChanges
  <2> QED
    BY <2>3 DEF Kept
<1> QED
  BY <1>2, <1>3, <1>4

\* The other steps change no table and clear nothing.
LEMMA QuietTables ==
  ASSUME CacheInv, UNCHANGED <<rows, sweep>>, NEW r \in Requests,
         pc[r] \notin Committed, pc'[r] \notin Committed,
         \A q \in Requests \ {r} : pc'[q] = pc[q] /\ holder'[q] = holder[q]
  PROVE  /\ ClearOK'
         /\ \A k \in Keys : Kept(k)
         /\ \A q \in Requests : ToDrop(q) \subseteq ToDrop(q)'
<1>1. sweep[r] = {}
  BY DEF CacheInv, ClearOK, Committed
<1>2. ClearOK'
  BY <1>1 DEF CacheInv, ClearOK, Committed
<1>3. \A q \in Requests : ToDrop(q) \subseteq ToDrop(q)'
  BY <1>1 DEF ToDrop, KeysFor, Committed
<1>4. \A k \in Keys : Resolution(k)' = Resolution(k) /\ Enrolled(k)' = Enrolled(k)
  BY DEF rows, Resolution, Enrolled, Memberships, Present, ActivePermissions, Override, GrantsOf,
         OnlyActive, GrantedBy, RolesOf, Granted, Denied
<1> QED
  BY <1>2, <1>3, <1>4 DEF Kept

LEMMA TableStepKeeps ==
  ASSUME CacheInv, TableStep, Notice
  PROVE  CacheInv'
<1>1. [Next]_vars
  BY DEF TableStep, Next, Continue
<1>2. Inv'
  BY <1>1, InvNext DEF CacheInv
<1>3. ASSUME NEW r \in Requests, InsertRows(r) \/ EraseRow(r) \/ AlterRow(r) PROVE CacheInv'
  BY <1>2, <1>3, CommitIsCleared, TablesMove DEF Notice
<1>4. ASSUME NEW m \in Members, NEW S \in SUBSET Roles, Join(m, S) PROVE CacheInv'
  <2>1. ClearOK' /\ \A q \in Requests : ToDrop(q) \subseteq ToDrop(q)'
    BY <1>4 DEF Join, asked, Notice, CacheInv, ClearOK, ToDrop, KeysFor
  <2> QED
    BY <1>2, <1>4, <2>1, JoinIsHarmless, TablesMove
<1>5. ASSUME NEW r \in Requests, UNCHANGED rows, pc[r] \notin Committed, pc'[r] \notin Committed,
             \A q \in Requests \ {r} : pc'[q] = pc[q] /\ holder'[q] = holder[q]
      PROVE  CacheInv'
  BY <1>2, <1>5, QuietTables, TablesMove DEF Notice
<1>6. ASSUME NEW r \in Requests, Begin(r) PROVE CacheInv'
  <2>1. ASSUME NEW h, NEW to, NEW w, NEW b, NEW s, NEW c, to \notin Committed,
               Start(r, h, to, w, b, s, c)
        PROVE  CacheInv'
    <3>1. /\ UNCHANGED rows /\ pc[r] \notin Committed /\ pc'[r] \notin Committed
          /\ \A q \in Requests \ {r} : pc'[q] = pc[q] /\ holder'[q] = holder[q]
      BY <2>1 DEF Start, CacheInv, Inv, TypeOK, Committed
    <3> QED
      BY <3>1, <1>5
  <2>2. "begin" \notin Committed /\ "inserting" \notin Committed /\ "erasing" \notin Committed
        /\ "altering" \notin Committed
    BY DEF Committed
  <2> QED
    BY <1>6, <2>1, <2>2
    DEF Begin, UpdateMember, UpdateMemberStatus, RemoveMember, CreateRole, UpdateRole, DeleteRole,
        CreatePermission, UpdatePermission, DeletePermission, BulkUpdate
<1>7. ASSUME NEW r \in Requests, SelectRows(r) \/ DeleteRows(r) \/ UpsertRow(r) \/ DeleteThing(r)
      PROVE  CacheInv'
  <2>1. /\ UNCHANGED rows /\ pc[r] \notin Committed /\ pc'[r] \notin Committed
        /\ \A q \in Requests \ {r} : pc'[q] = pc[q] /\ holder'[q] = holder[q]
    BY <1>7 DEF SelectRows, DeleteRows, UpsertRow, DeleteThing, Goes, asked, CacheInv, Inv, TypeOK,
                Committed
  <2> QED
    BY <2>1, <1>5
<1>8. ASSUME NEW r \in Requests, Refused(r) \/ Deadlocked(r) \/ Abort(r) PROVE CacheInv'
  <2>1. pc[r] \notin Committed
    <3>1. CASE Refused(r) \/ Abort(r)
      BY <3>1 DEF Refused, Abort, Committed
    <3>2. CASE Deadlocked(r)
      <4>1. PICK q \in Requests : Waits(r, q)
        BY <3>2 DEF Deadlocked
      <4>2. writes[r] # {} => pc[r] = "inserting"
        BY DEF CacheInv, Inv, PutOK
      <4> QED
        BY <4>1, <4>2 DEF Waits, Committed
    <3> QED
      BY <1>8, <3>1, <3>2
  <2>2. End(r)
    BY <1>8 DEF Refused, Deadlocked, Abort
  <2>3. /\ UNCHANGED rows /\ pc'[r] \notin Committed
        /\ \A q \in Requests \ {r} : pc'[q] = pc[q] /\ holder'[q] = holder[q]
    BY <2>2 DEF End, CacheInv, Inv, TypeOK, Committed
  <2> QED
    BY <2>1, <2>3, <1>5
<1> QED
  BY <1>3, <1>4, <1>6, <1>7, <1>8 DEF TableStep, Write

-----------------------------------------------------------------------------
\* Steps of the readers

\* The tables and the calls stand still, and one reader moves.
LEMMA ReaderMoves ==
  ASSUME CacheInv, UNCHANGED <<vars, sweep>>, NEW d \in Readers, CacheTypeOK',
         \A e \in Readers \ {d} : /\ at'[e] = at[e] /\ key'[e] = key[e] /\ seen'[e] = seen[e]
                                  /\ e \in moved' <=> e \in moved,
         ReaderOK(d)',
         \A k \in Keys : Trusted(k)' =>
           \/ cache'[k] = cache[k] /\ Trusted(k)
           \/ cache'[k] = Resolution(k) /\ (k \notin {Meta, Owner} => Enrolled(k) # {})
  PROVE  CacheInv'
<1> USE DEF CacheInv
<1>1. Inv'
  <2>1. [Next]_vars
    BY DEF vars
  <2> QED
    BY <2>1, InvNext
<1>2. ClearOK'
  BY DEF ClearOK, vars
<1>3. \A k : Stands(k)
  BY TablesStand DEF vars, rows
<1>4. ASSUME NEW e \in Readers PROVE ReaderOK(e)'
  <2>1. CASE e # d
    <3> SUFFICES ASSUME at'[e] # "idle", NEW k \in Keys, key'[e] = k PROVE Knows(e, k)'
      BY DEF ReaderOK
    <3>1. Knows(e, k) /\ at'[e] = at[e] /\ seen'[e] = seen[e] /\ (e \in moved' <=> e \in moved)
      BY <2>1 DEF ReaderOK
    <3> QED
      BY <3>1, <1>3 DEF Knows, Stands
  <2> QED
    BY <2>1
<1>5. ASSUME NEW k \in Keys PROVE EntryOK(k)'
  BY <1>3 DEF EntryOK, Stands
<1> QED
  BY <1>1, <1>2, <1>4, <1>5

\* A reader that stores nothing leaves every entry as it was.
LEMMA ReaderStoresNothing ==
  ASSUME UNCHANGED <<vars, sweep, cache, tainted>>
  PROVE  \A k \in Keys : Trusted(k)' => cache'[k] = cache[k] /\ Trusted(k)
BY DEF vars, Trusted, ToDrop, KeysFor

LEMMA ArriveStep ==
  ASSUME CacheInv, NEW d \in Readers, Arrive(d)
  PROVE  CacheInv'
<1>1. PICK k \in Keys : Arrives(d, k) /\ (k \notin {Meta, Owner} => Enrolled(k) # {})
  BY DEF Arrive, GetPermissionMeta, TenantOrgGuard, GetProfile, Memberships, Keys
<1>2. /\ at[d] = "idle" /\ at' = [at EXCEPT ![d] = "look"] /\ key' = [key EXCEPT ![d] = k]
      /\ UNCHANGED <<vars, sweep, moved, tainted, cache, seen>>
  BY <1>1 DEF Arrives, Reads, ReaderOnly
<1>3. CacheTypeOK'
  BY <1>2 DEF CacheInv, CacheTypeOK, vars
<1>4. at'[d] = "look" /\ key'[d] = k
  BY <1>2 DEF CacheInv, CacheTypeOK
<1>5. Stands(k)
  BY <1>2, TablesStand DEF vars, rows
<1>6. ReaderOK(d)'
  <2>1. Knows(d, k)'
    BY <1>1, <1>4, <1>5 DEF Knows, Stands
  <2> QED
    BY <1>4, <2>1 DEF ReaderOK
<1>7. \A e \in Readers \ {d} : /\ at'[e] = at[e] /\ key'[e] = key[e] /\ seen'[e] = seen[e]
                               /\ e \in moved' <=> e \in moved
  BY <1>2 DEF CacheInv, CacheTypeOK
<1> QED
  BY <1>2, <1>3, <1>6, <1>7, ReaderMoves, ReaderStoresNothing

\* A reader that leaves knows nothing any more, and one that looks again only that its
\* user was enrolled.
LEMMA LeaveFacts ==
  ASSUME CacheInv, NEW d \in Readers, Leave(d) \/ (at[d] = "store" /\ LookAgain(d)), UNCHANGED rows
  PROVE  /\ ReaderOK(d)'
         /\ \A e \in Readers \ {d} : /\ at'[e] = at[e] /\ key'[e] = key[e] /\ seen'[e] = seen[e]
                                     /\ e \in moved' <=> e \in moved
<1> USE DEF CacheInv, CacheTypeOK
<1>1. CASE Leave(d)
  BY <1>1 DEF Leave, ReaderOK
<1>2. CASE at[d] = "store" /\ LookAgain(d)
  <2>1. /\ at' = [at EXCEPT ![d] = "look"] /\ seen' = [seen EXCEPT ![d] = {}]
        /\ UNCHANGED <<key, moved>>
    BY <1>2 DEF LookAgain
  <2>2. ReaderOK(d)'
    <3> SUFFICES ASSUME NEW k \in Keys, key'[d] = k PROVE Knows(d, k)'
      BY DEF ReaderOK
    <3>1. Knows(d, k) /\ at'[d] = "look"
      BY <1>2, <2>1 DEF ReaderOK
    <3>2. Stands(k)
      BY TablesStand
    <3> QED
      BY <2>1, <3>1, <3>2 DEF Knows, Stands
  <2> QED
    BY <2>1, <2>2
<1> QED
  BY <1>1, <1>2

LEMMA LeaveStep ==
  ASSUME CacheInv, NEW d \in Readers, Hit(d) \/ ReaderFails(d)
  PROVE  CacheInv'
<1>1. Leave(d) /\ UNCHANGED <<vars, cache, sweep, tainted>> /\ UNCHANGED rows
  BY DEF Hit, ReaderFails, vars, rows
<1>2. CacheTypeOK'
  BY <1>1 DEF CacheInv, CacheTypeOK, Leave, Entries, vars
<1> QED
  BY <1>1, <1>2, LeaveFacts, ReaderMoves, ReaderStoresNothing

LEMMA StoreStep ==
  ASSUME CacheInv, NEW d \in Readers, StoreEntry(d)
  PROVE  CacheInv'
<1>1. at[d] = "store" /\ (Leave(d) \/ LookAgain(d)) /\ UNCHANGED <<vars, sweep>> /\ UNCHANGED rows
  BY DEF StoreEntry, vars, rows
<1>0. PICK k \in Keys : key[d] = k
  BY <1>1 DEF CacheInv, CacheTypeOK
<1>2. /\ cache' = [cache EXCEPT ![k] = seen[d]]
      /\ tainted' = IF d \in moved THEN tainted \cup {k} ELSE tainted \ {k}
  BY <1>0 DEF StoreEntry
<1>3. Knows(d, k) /\ seen[d] \in Entries
  BY <1>0, <1>1 DEF CacheInv, ReaderOK, Knows
<1>4. CacheTypeOK'
  <2>1. cache' \in [Keys -> Entries \cup {NoEntry}] /\ tainted' \subseteq Keys
    BY <1>2, <1>3 DEF CacheInv, CacheTypeOK
  <2> QED
    BY <2>1, <1>1 DEF CacheInv, CacheTypeOK, Leave, LookAgain, vars
<1>5. \A l \in Keys, r \in Requests : l \in ToDrop(r)' <=> l \in ToDrop(r)
  BY <1>1 DEF vars, ToDrop, KeysFor
<1>6. ASSUME NEW l \in Keys, Trusted(l)'
      PROVE  \/ cache'[l] = cache[l] /\ Trusted(l)
             \/ cache'[l] = Resolution(l) /\ (l \notin {Meta, Owner} => Enrolled(l) # {})
  <2>1. CASE l = k
    <3>1. d \notin moved
      BY <2>1, <1>2, <1>6 DEF Trusted
    <3>2. seen[d] = Resolution(k) /\ (k \notin {Meta, Owner} => Enrolled(k) # {})
      BY <3>1, <1>1, <1>3 DEF Knows
    <3>3. cache'[k] = seen[d]
      BY <1>2 DEF CacheInv, CacheTypeOK
    <3> QED
      BY <2>1, <3>2, <3>3
  <2>2. CASE l # k
    <3>1. cache'[l] = cache[l] /\ (l \in tainted' <=> l \in tainted)
      BY <2>2, <1>2 DEF CacheInv, CacheTypeOK
    <3> QED
      BY <3>1, <1>5, <1>6 DEF Trusted
  <2> QED
    BY <2>1, <2>2
<1> QED
  BY <1>1, <1>4, <1>6, LeaveFacts, ReaderMoves

\* A query of the reader: the tables stand, and it knows what the query says.
LEMMA ReadStep ==
  ASSUME CacheInv, NEW d \in Readers,
         \/ Miss(d) \/ ReadActivePermissions(d) \/ ReadMemberRoles(d)
         \/ ReadRolePermissions(d) \/ ReadPermissions(d) \/ ResolveUserOverrides(d)
  PROVE  CacheInv'
<1>1. at[d] # "idle" /\ UNCHANGED <<vars, sweep, cache, tainted, moved, key>> /\ UNCHANGED rows
  BY DEF Miss, ReadActivePermissions, ReadMemberRoles, ReadRolePermissions, ReadPermissions,
         ResolveUserOverrides, Reads, ReaderOnly, vars, rows
<1>0. PICK k \in Keys : key[d] = k
  BY <1>1 DEF CacheInv, CacheTypeOK
<1>2. Knows(d, k) /\ Stands(k)
  BY <1>0, <1>1, TablesStand DEF CacheInv, ReaderOK
<1>3. /\ at' \in [Readers -> {"idle", "look", "active", "memberRoles", "rolePermissions", "permissions",
                             "overrides", "store"}]
      /\ \A e \in Readers \ {d} : at'[e] = at[e] /\ seen'[e] = seen[e]
      /\ seen' \in [Readers -> SUBSET (Roles \cup Grants)]
      /\ Knows(d, k)'
  <2> USE DEF CacheInv, CacheTypeOK, Reads
  <2>0. Roles \in SUBSET (Roles \cup Grants) /\ Entries \subseteq SUBSET (Roles \cup Grants)
    BY DEF Entries
  <2>1. CASE Miss(d)
    <3>1. at' = [at EXCEPT ![d] = IF k \in {Meta, Owner} THEN "active" ELSE "memberRoles"] /\ seen' = seen
      BY <2>1, <1>0 DEF Miss
    <3> QED
      BY <3>1, <1>1, <1>2 DEF Knows, Stands
  <2>2. CASE ReadActivePermissions(d)
    <3>1. /\ at[d] = "active" /\ at' = [at EXCEPT ![d] = "store"]
          /\ seen' = [seen EXCEPT ![d] = Resolution(k)]
      BY <2>2, <1>0 DEF ReadActivePermissions
    <3>2. Resolution(k) \in Entries
      BY ResolutionType
    <3> QED
      BY <2>0, <3>1, <3>2, <1>1, <1>2 DEF Knows, Stands
  <2>3. CASE ReadMemberRoles(d)
    <3>1. /\ at[d] = "memberRoles" /\ at' = [at EXCEPT ![d] = "rolePermissions"]
          /\ seen' = [seen EXCEPT ![d] = RolesOf(k)]
      BY <2>3, <1>0 DEF ReadMemberRoles
    <3>2. RolesOf(k) \in SUBSET Roles
      BY DEF RolesOf
    <3> QED
      BY <2>0, <3>1, <3>2, <1>1, <1>2 DEF Knows, Stands
  <2>4. CASE ReadRolePermissions(d)
    <3>1. /\ at[d] = "rolePermissions" /\ at' = [at EXCEPT ![d] = "permissions"]
          /\ seen' = [seen EXCEPT ![d] = GrantsOf(seen[d])]
      BY <2>4 DEF ReadRolePermissions
    <3>2. GrantsOf(seen[d]) \in Entries
      BY ResolutionType
    <3> QED
      BY <2>0, <3>1, <3>2, <1>1, <1>2 DEF Knows, Stands
  <2>5. CASE ReadPermissions(d)
    <3>1. /\ at[d] = "permissions" /\ at' = [at EXCEPT ![d] = "overrides"]
          /\ seen' = [seen EXCEPT ![d] = OnlyActive(seen[d])]
      BY <2>5 DEF ReadPermissions
    <3>2. OnlyActive(seen[d]) \in Entries
      BY <3>1, <1>2, ResolutionType DEF Knows
    <3> QED
      BY <2>0, <3>1, <3>2, <1>1, <1>2 DEF Knows, Stands, GrantedBy
  <2>6. CASE ResolveUserOverrides(d)
    <3>1. /\ at[d] = "overrides" /\ at' = [at EXCEPT ![d] = "store"]
          /\ seen' = [seen EXCEPT ![d] = Override(k, seen[d])]
      BY <2>6, <1>0 DEF ResolveUserOverrides
    <3>2. Override(k, seen[d]) \in Entries
      BY <3>1, <1>2, ResolutionType DEF Knows
    <3>3. d \notin moved => Override(k, seen[d]) = Resolution(k)
      <4>1. k \notin {Meta, Owner} /\ (d \notin moved => seen[d] = GrantedBy(RolesOf(k)))
        BY <1>2, <3>1 DEF Knows
      <4> QED
        BY <4>1 DEF Resolution
    <3> QED
      BY <2>0, <3>1, <3>2, <3>3, <1>1, <1>2 DEF Knows, Stands
  <2> QED
    BY <2>1, <2>2, <2>3, <2>4, <2>5, <2>6
<1>4. CacheTypeOK'
  BY <1>1, <1>3 DEF CacheInv, CacheTypeOK, vars
<1>5. ReaderOK(d)'
  BY <1>0, <1>1, <1>3 DEF ReaderOK
<1> QED
  BY <1>1, <1>3, <1>4, <1>5, ReaderMoves, ReaderStoresNothing

-----------------------------------------------------------------------------
\* Steps of the invalidations

\* Entries go, calls end, and what is left was there before.
LEMMA EntriesGo ==
  ASSUME CacheInv, Inv', ClearOK', UNCHANGED <<rows, at, key, seen, moved>>,
         cache' \in [Keys -> Entries \cup {NoEntry}], sweep' \in [Requests -> SUBSET Keys],
         tainted' \subseteq Keys,
         \A k \in Keys : Trusted(k)' => cache'[k] = cache[k] /\ Trusted(k)
  PROVE  CacheInv'
<1> USE DEF CacheInv
<1>1. CacheTypeOK'
  BY DEF CacheTypeOK, ClearOK
<1>2. \A k : Stands(k)
  BY TablesStand
<1>3. ASSUME NEW d \in Readers PROVE ReaderOK(d)'
  <2> SUFFICES ASSUME at[d] # "idle", NEW k \in Keys, key[d] = k PROVE Knows(d, k)'
    BY DEF ReaderOK
  <2>1. Knows(d, k)
    BY DEF ReaderOK
  <2> QED
    BY <2>1, <1>2 DEF Knows, Stands
<1>4. ASSUME NEW k \in Keys PROVE EntryOK(k)'
  BY <1>2 DEF EntryOK, Stands
<1> QED
  BY <1>1, <1>3, <1>4

\* Keys that leave Redis leave the scans, and no other key comes to be trusted.
LEMMA DropsAreSafe ==
  ASSUME CacheInv, NEW K \in SUBSET Keys, Drop(K),
         \A q \in Requests : sweep'[q] = sweep[q] \ K,
         NEW r \in Requests, ToDrop(r) \subseteq K,
         \A q \in Requests \ {r} : pc'[q] = pc[q] /\ holder'[q] = holder[q]
  PROVE  /\ cache' \in [Keys -> Entries \cup {NoEntry}] /\ tainted' \subseteq Keys
         /\ \A k \in Keys : Trusted(k)' => cache'[k] = cache[k] /\ Trusted(k)
<1> USE DEF CacheInv, CacheTypeOK, Drop
<1>1. cache' \in [Keys -> Entries \cup {NoEntry}] /\ tainted' \subseteq Keys
  OBVIOUS
<1>2. ASSUME NEW k \in Keys, Trusted(k)' PROVE cache'[k] = cache[k] /\ Trusted(k)
  <2>1. k \notin K /\ cache'[k] = cache[k] /\ k \notin tainted
    BY <1>2 DEF Trusted
  <2>2. \A q \in Requests \ {r} : k \notin ToDrop(q)
    BY <1>2, <2>1 DEF Trusted, ToDrop, KeysFor
  <2> QED
    BY <1>2, <2>1, <2>2 DEF Trusted
<1> QED
  BY <1>1, <1>2

LEMMA EndingClears ==
  ASSUME CacheInv, NEW r \in Requests, End(r), sweep'[r] = {},
         \A q \in Requests : sweep'[q] \subseteq sweep[q]
  PROVE  /\ Inv' /\ ClearOK' /\ UNCHANGED rows
         /\ \A q \in Requests \ {r} : pc'[q] = pc[q] /\ holder'[q] = holder[q]
<1>1. Inv'
  BY EndStep DEF CacheInv
<1>2. pc'[r] = "over" /\ \A q \in Requests \ {r} : pc'[q] = pc[q] /\ holder'[q] = holder[q]
  BY DEF End, CacheInv, Inv, TypeOK
<1>3. ClearOK'
  BY <1>2 DEF ClearOK, CacheInv
<1> QED
  BY <1>1, <1>2, <1>3 DEF End

LEMMA ToDropAreKeys ==
  ASSUME CacheInv, NEW r \in Requests
  PROVE  ToDrop(r) \in SUBSET Keys
BY CatalogueAssumption DEF CacheInv, CacheTypeOK, ClearOK, ToDrop, KeysFor, Keys

LEMMA InvalidateUserCacheStep ==
  ASSUME CacheInv, NEW r \in Requests, InvalidateUserCache(r)
  PROVE  CacheInv'
<1> DEFINE K == KeysFor(r)
<1>1. /\ pc[r] = "clearUser" /\ Drop(K) /\ sweep' = [q \in Requests |-> sweep[q] \ K]
      /\ End(r) /\ UNCHANGED <<at, key, seen, moved>>
  BY DEF InvalidateUserCache
<1>2. ToDrop(r) = K /\ K \in SUBSET Keys
  BY <1>1, ToDropAreKeys DEF ToDrop
<1>3. sweep[r] = {} /\ sweep' \in [Requests -> SUBSET Keys]
  BY <1>1 DEF CacheInv, ClearOK, CacheTypeOK
<1>4. /\ \A q \in Requests : sweep'[q] = sweep[q] \ K
      /\ \A q \in Requests : sweep'[q] \subseteq sweep[q]
      /\ sweep'[r] = {}
  BY <1>1, <1>3
<1> HIDE DEF K
<1>5. /\ Inv' /\ ClearOK' /\ UNCHANGED rows
      /\ \A q \in Requests \ {r} : pc'[q] = pc[q] /\ holder'[q] = holder[q]
  BY <1>1, <1>4, EndingClears
<1> QED
  BY <1>1, <1>2, <1>3, <1>4, <1>5, DropsAreSafe, EntriesGo

LEMMA DeleteByPatternStep ==
  ASSUME CacheInv, NEW r \in Requests, DeleteByPattern(r)
  PROVE  CacheInv'
<1> USE DEF CacheInv
<1>1. /\ pc[r] = "clearAll" /\ sweep' = [sweep EXCEPT ![r] = {k \in Keys : cache[k] # NoEntry}]
      /\ pc' = [pc EXCEPT ![r] = "sweeping"]
      /\ UNCHANGED <<rows, holder, want, bars, sets, cut, writes, put, since>>
      /\ UNCHANGED <<cache, at, key, seen, moved, tainted>>
  BY DEF DeleteByPattern, asked
<1>2. pc'[r] = "sweeping" /\ \A q \in Requests \ {r} : SameCall(q)
  BY <1>1 DEF SameCall, Inv, TypeOK
<1>3. Inv'
  <2>1. TypeOK'
    BY <1>1 DEF Inv, TypeOK, rows, Consistent, Present, Stages, Committed
  <2>2. CallOK(r)'
    BY <1>1, <1>2 DEF Inv, Calls, Stages, Committed, CallOK, InTx, HoldsLock
  <2>3. put[r] = {} /\ writes[r] = {}
    BY <1>1 DEF Inv, PutOK
  <2>4. PutOK(r)' /\ ReadOK(r)' /\ CountOK(r)'
    BY <1>1, <1>2, <2>3 DEF PutOK, ReadOK, HasRead, CountOK
  <2>5. \A q \in Requests \ {r} : Apart(r, q)'
    BY <1>1, <1>2, <2>3, HoldsNothing DEF Apart, HoldsIts, HoldsLock, Changed, Deleted, SharesKey
  <2> QED
    BY <1>1, <1>2, <2>1, <2>2, <2>4, <2>5, OneCallStep
<1>4. ClearOK'
  BY <1>1, <1>2 DEF ClearOK, SameCall, CacheTypeOK
<1>5. \A k \in Keys : Trusted(k)' => Trusted(k)
  <2> SUFFICES ASSUME NEW k \in Keys, Trusted(k)' PROVE FALSE
    OBVIOUS
  <2>1. ToDrop(r)' = {l \in Keys : cache[l] # NoEntry}
    BY <1>1, <1>2 DEF ToDrop, CacheTypeOK
  <2> QED
    BY <1>1, <2>1 DEF Trusted
<1>6. sweep' \in [Requests -> SUBSET Keys] /\ cache' \in [Keys -> Entries \cup {NoEntry}]
      /\ tainted' \subseteq Keys
  BY <1>1 DEF CacheTypeOK
<1> HIDE DEF CacheInv
<1> QED
  BY <1>1, <1>3, <1>4, <1>5, <1>6, EntriesGo

\* A key goes that a scan has found, or that has expired.
LEMMA OneKeyGoes ==
  ASSUME CacheInv, NEW k \in Keys, Drop({k}), UNCHANGED <<vars, at, key, seen, moved>>,
         sweep' = [q \in Requests |-> sweep[q] \ {k}]
  PROVE  CacheInv'
<1>1. Inv'
  BY InvNext DEF CacheInv, vars
<1>2. ClearOK'
  BY DEF CacheInv, ClearOK, vars, CacheTypeOK
<1>3. \A l \in Keys : Trusted(l)' => cache'[l] = cache[l] /\ Trusted(l)
  BY DEF Trusted, Drop, ToDrop, KeysFor, vars, CacheInv, CacheTypeOK
<1>4. sweep' \in [Requests -> SUBSET Keys] /\ cache' \in [Keys -> Entries \cup {NoEntry}]
      /\ tainted' \subseteq Keys /\ UNCHANGED rows
  BY DEF CacheInv, CacheTypeOK, Drop, vars, rows
<1> QED
  BY <1>1, <1>2, <1>3, <1>4, EntriesGo

LEMMA EndOfScanStep ==
  ASSUME CacheInv, NEW r \in Requests, EndOfScan(r)
  PROVE  CacheInv'
<1> DEFINE K == IF holder[r] \in Permissions THEN {Meta} ELSE {}
<1>1. /\ pc[r] = "sweeping" /\ sweep[r] = {} /\ End(r) /\ UNCHANGED <<at, key, seen, moved>>
      /\ \A q \in Requests : sweep'[q] = sweep[q] \ K
      /\ sweep' \in [Requests -> SUBSET Keys]
  BY DEF EndOfScan, CacheInv, CacheTypeOK
<1>2. Drop(K)
  <2>1. CASE holder[r] \in Permissions
    BY <2>1 DEF EndOfScan
  <2>2. CASE holder[r] \notin Permissions
    BY <2>2 DEF EndOfScan, Drop, CacheInv, CacheTypeOK
  <2> QED
    BY <2>1, <2>2
<1>3. ToDrop(r) = {} /\ K \in SUBSET Keys
  BY <1>1 DEF ToDrop, Keys
<1>4. sweep'[r] = {} /\ \A q \in Requests : sweep'[q] \subseteq sweep[q]
  BY <1>1
<1> HIDE DEF K
<1>5. /\ Inv' /\ ClearOK' /\ UNCHANGED rows
      /\ \A q \in Requests \ {r} : pc'[q] = pc[q] /\ holder'[q] = holder[q]
  BY <1>1, <1>4, EndingClears
<1> QED
  BY <1>1, <1>2, <1>3, <1>5, DropsAreSafe, EntriesGo

LEMMA InvalidationFailsStep ==
  ASSUME CacheInv, NEW r \in Requests, InvalidationFails(r)
  PROVE  CacheInv'
<1>1. /\ tainted' = tainted \cup ToDrop(r) /\ sweep' = [sweep EXCEPT ![r] = {}] /\ End(r)
      /\ UNCHANGED <<cache, at, key, seen, moved>>
  BY DEF InvalidationFails
<1>2. /\ sweep'[r] = {} /\ \A q \in Requests : sweep'[q] \subseteq sweep[q]
      /\ \A q \in Requests \ {r} : sweep'[q] = sweep[q]
      /\ sweep' \in [Requests -> SUBSET Keys]
  BY <1>1 DEF CacheInv, CacheTypeOK
<1>3. /\ Inv' /\ ClearOK' /\ UNCHANGED rows
      /\ \A q \in Requests \ {r} : pc'[q] = pc[q] /\ holder'[q] = holder[q]
  BY <1>1, <1>2, EndingClears
<1>4. ASSUME NEW k \in Keys, Trusted(k)' PROVE Trusted(k)
  <2>1. \A q \in Requests \ {r} : k \notin ToDrop(q)
    BY <1>2, <1>3, <1>4 DEF Trusted, ToDrop, KeysFor
  <2> QED
    BY <1>1, <1>4, <2>1 DEF Trusted
<1>5. tainted' \subseteq Keys /\ cache' \in [Keys -> Entries \cup {NoEntry}]
  BY <1>1, ToDropAreKeys DEF CacheInv, CacheTypeOK
<1> QED
  BY <1>1, <1>2, <1>3, <1>4, <1>5, EntriesGo

-----------------------------------------------------------------------------
\* The theorems

LEMMA CacheInvInit == CacheInit => CacheInv
<1> SUFFICES ASSUME CacheInit PROVE CacheInv
  OBVIOUS
<1>1. Inv
  BY InvInit DEF CacheInit
<1>2. CacheTypeOK /\ ClearOK
  BY DEF CacheInit, Init, CacheTypeOK, ClearOK, Entries
<1>3. (\A d \in Readers : ReaderOK(d)) /\ (\A k \in Keys : EntryOK(k))
  BY DEF CacheInit, ReaderOK, EntryOK, Trusted
<1> QED
  BY <1>1, <1>2, <1>3 DEF CacheInv

LEMMA CacheInvNext == CacheInv /\ [CacheNext]_allVars => CacheInv'
<1> SUFFICES ASSUME CacheInv, [CacheNext]_allVars PROVE CacheInv'
  OBVIOUS
<1>1. CASE TableStep /\ Notice
  BY <1>1, TableStepKeeps
<1>2. ASSUME NEW d \in Readers, Arrive(d) \/ Read(d) \/ ReaderFails(d) PROVE CacheInv'
  BY <1>2, ArriveStep, LeaveStep, StoreStep, ReadStep DEF Read
<1>3. ASSUME NEW k \in Keys, Expire(k) PROVE CacheInv'
  BY <1>3, OneKeyGoes DEF Expire
<1>4. ASSUME NEW r \in Requests, NEW k \in Keys, DeletePage(r, k) PROVE CacheInv'
  BY <1>4, OneKeyGoes DEF DeletePage
<1>5. ASSUME NEW r \in Requests, Invalidate(r) \/ InvalidationFails(r) PROVE CacheInv'
  <2>1. sweep[r] \subseteq Keys
    BY DEF CacheInv, CacheTypeOK
  <2> QED
    BY <1>4, <1>5, <2>1, InvalidateUserCacheStep, DeleteByPatternStep, EndOfScanStep,
       InvalidationFailsStep
    DEF Invalidate
<1>6. CASE UNCHANGED allVars
  <2>1. Inv' /\ UNCHANGED <<rows, redis, vars>>
    BY <1>6, InvNext DEF allVars, CacheInv, vars, rows
  <2>2. \A k \in Keys : Trusted(k)' => cache'[k] = cache[k] /\ Trusted(k)
    BY <2>1 DEF redis, vars, Trusted, ToDrop, KeysFor
  <2>3. ClearOK' /\ UNCHANGED <<at, key, seen, moved>>
    BY <2>1 DEF redis, vars, CacheInv, ClearOK
  <2>4. /\ cache' \in [Keys -> Entries \cup {NoEntry}] /\ sweep' \in [Requests -> SUBSET Keys]
        /\ tainted' \subseteq Keys
    BY <2>1 DEF redis, CacheInv, CacheTypeOK
  <2> QED
    BY <2>1, <2>2, <2>3, <2>4, EntriesGo
<1> QED
  BY <1>1, <1>2, <1>3, <1>4, <1>5, <1>6 DEF CacheNext

LEMMA CacheInvHolds == CacheSpec => []CacheInv
BY CacheInvInit, CacheInvNext, PTL DEF CacheSpec

LEMMA CacheInvImplies == CacheInv => EntriesAreFresh
BY DEF CacheInv, EntryOK, Trusted, EntriesAreFresh

\* Redis, the readers and the scans hold what they should, next to tables whose foreign
\* keys hold.
THEOREM CacheTypesHold == CacheSpec => [](TypeOK /\ CacheTypeOK)
BY CacheInvHolds, PTL DEF CacheInv, Inv

\* An entry of the cache that does not say what the tables say is about to be dropped,
\* or was stored by a request whose tables changed under it, or its invalidation failed:
\* there is no fourth way to a stale permission, whatever overlaps.
THEOREM EntriesStayFresh == CacheSpec => []EntriesAreFresh
BY CacheInvHolds, CacheInvImplies, PTL

\* Such an entry respects the overrides of its user.
THEOREM CachedOverridesPrevail == CacheSpec => []OverridesPrevail
<1>1. ASSUME CacheInv, NEW u \in Users \ {Owner}, Trusted(u)
      PROVE  /\ Denied(u) \cap cache[u] = {} /\ Granted(u) \subseteq cache[u]
             /\ Wildcard \in cache[u] => OwnerRole \in RolesOf(u)
  <2>1. u \notin {Meta, Owner} /\ u \in Keys
    BY CacheAssumption DEF Keys
  <2>2. cache[u] = Override(u, GrantedBy(RolesOf(u)))
    BY <1>1, <2>1 DEF CacheInv, EntryOK, Resolution
  <2>3. Denied(u) \cap Granted(u) = {}
    BY DEF Denied, Granted
  <2>4. Wildcard \notin Granted(u) /\ (Wildcard \in GrantedBy(RolesOf(u)) => OwnerRole \in RolesOf(u))
    BY CacheAssumption DEF Granted, GrantedBy, OnlyActive, GrantsOf, ActivePermissions
  <2> QED
    BY <2>2, <2>3, <2>4 DEF Override
<1>2. CacheInv => OverridesPrevail
  BY <1>1 DEF OverridesPrevail, Trusted
<1> QED
  BY <1>2, CacheInvHolds, PTL

\* The steps of readers and invalidations are none that Catalogue speaks of.
LEMMA TablesAreRight ==
  ASSUME CacheInv, [CacheNext]_allVars
  PROVE  [ReplacesWholly]_vars /\ [LosesLateOnes]_vars
<1>1. CASE TableStep \/ UNCHANGED vars
  BY <1>1, StepsAreRight DEF TableStep, Next, Continue, CacheInv
<1>2. CASE \A r \in Requests : ~Inserts(r) /\ ~Erases(r)
  BY <1>2 DEF ReplacesWholly, LosesLateOnes
<1>3. ASSUME NEW d \in Readers, Arrive(d) \/ Read(d) \/ ReaderFails(d) PROVE UNCHANGED vars
  BY <1>3 DEF Arrive, Arrives, TenantOrgGuard, GetProfile, GetPermissionMeta, Read, Hit, Miss,
              ReadActivePermissions, ReadMemberRoles, ReadRolePermissions, ReadPermissions,
              ResolveUserOverrides, StoreEntry, ReaderFails, ReaderOnly
<1>4. ASSUME NEW r \in Requests, NEW k, Expire(k) \/ DeletePage(r, k) PROVE UNCHANGED vars
  BY <1>4 DEF Expire, DeletePage
<1>5. ASSUME NEW r \in Requests,
             \/ InvalidateUserCache(r) \/ DeleteByPattern(r) \/ EndOfScan(r) \/ InvalidationFails(r)
      PROVE  \A q \in Requests : ~Inserts(q) /\ ~Erases(q)
  <2>1. \A q \in Requests : pc'[q] = pc[q] \/ pc[q] \in Committed
    BY <1>5 DEF InvalidateUserCache, DeleteByPattern, EndOfScan, InvalidationFails, End, CacheInv,
                Inv, TypeOK, Committed
  <2> QED
    BY <2>1 DEF Inserts, Erases, Committed
<1>6. CASE UNCHANGED allVars
  BY <1>6 DEF allVars
<1> QED
  BY <1>1, <1>2, <1>3, <1>4, <1>5, <1>6 DEF CacheNext, Invalidate

\* What is proved of overlapping calls holds while caches are read and cleared.
THEOREM CatalogueHoldsUnderCache ==
  CacheSpec => ReplacedWholly /\ OnlyLateAssignmentsAreLost
<1>1. CacheInv /\ [CacheNext]_allVars => [ReplacesWholly]_vars /\ [LosesLateOnes]_vars
  BY TablesAreRight
<1> QED
  BY <1>1, CacheInvHolds, PTL DEF CacheSpec, ReplacedWholly, OnlyLateAssignmentsAreLost,
                                  ReplacesWholly, LosesLateOnes

\* Nor do they change a table, or what a call was allowed to begin with.
LEMMA CacheTables ==
  ASSUME CacheInv, AskInv, [CacheNext]_allVars
  PROVE  AskInv' /\ [Tables!Next]_Tables!tables
<1>1. CASE TableStep \/ UNCHANGED vars
  BY <1>1, AskNext, TablesNext DEF TableStep, Next, Continue, CacheInv
<1>2. ASSUME NEW d \in Readers, Arrive(d) \/ Read(d) \/ ReaderFails(d) PROVE UNCHANGED vars
  BY <1>2 DEF Arrive, Arrives, TenantOrgGuard, GetProfile, GetPermissionMeta, Read, Hit, Miss,
              ReadActivePermissions, ReadMemberRoles, ReadRolePermissions, ReadPermissions,
              ResolveUserOverrides, StoreEntry, ReaderFails, ReaderOnly
<1>3. ASSUME NEW k, Expire(k) \/ \E r \in Requests : DeletePage(r, k) PROVE UNCHANGED vars
  BY <1>3 DEF Expire, DeletePage
<1>4. ASSUME NEW r \in Requests,
             \/ InvalidateUserCache(r) \/ DeleteByPattern(r) \/ EndOfScan(r) \/ InvalidationFails(r)
      PROVE  AskInv' /\ UNCHANGED rows
  <2>1. /\ UNCHANGED rows
        /\ \A q \in Calls' : /\ q \in Calls
                             /\ pc'[q] = pc[q] \/ pc'[q] \notin {"erasing", "cascading", "altering"}
                             /\ holder'[q] = holder[q] /\ sets'[q] = sets[q]
    <3>1. CASE End(r)
      BY <3>1 DEF End, CacheInv, Inv, TypeOK, Calls, Stages, Committed
    <3>2. CASE DeleteByPattern(r)
      BY <3>2 DEF DeleteByPattern, asked, CacheInv, Inv, TypeOK, Calls, Stages, Committed
    <3> QED
      BY <1>4, <3>1, <3>2 DEF InvalidateUserCache, EndOfScan, InvalidationFails
  <2>2. row' = row
    BY <2>1 DEF rows
  <2>3. AskInv'
    BY <2>1, <2>2, AskKept
  <2> QED
    BY <2>1, <2>3
<1>5. CASE UNCHANGED rows /\ AskInv'
  BY <1>5 DEF rows, Tables!tables
<1>6. CASE UNCHANGED allVars
  <2>1. UNCHANGED vars
    BY <1>6 DEF allVars
  <2> QED
    BY <2>1, <1>1
<1>7. ASSUME NEW r \in Requests, Invalidate(r) \/ InvalidationFails(r)
      PROVE  AskInv' /\ [Tables!Next]_Tables!tables
  <2>1. (UNCHANGED vars) \/ (UNCHANGED rows /\ AskInv')
    BY <1>3, <1>4, <1>7 DEF Invalidate
  <2> QED
    BY <2>1, <1>1, <1>5
<1> QED
  BY <1>1, <1>2, <1>3, <1>6, <1>7 DEF CacheNext

\* The tables implement AccessTables while caches are read and cleared.
THEOREM CacheImplementsAccessTables == CacheSpec => ImplementsAccessTables
<1>1. CacheInit => AskInv /\ Tables!Init
  BY TablesInit DEF CacheInit, Init, AskInv, Calls, Stages, Committed
<1>2. CacheInv /\ AskInv /\ [CacheNext]_allVars => AskInv' /\ [Tables!Next]_Tables!tables
  BY CacheTables
<1> QED
  BY <1>1, <1>2, CacheInvHolds, PTL DEF CacheSpec, ImplementsAccessTables, Tables!Spec
=============================================================================
