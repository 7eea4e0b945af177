--------------------------- MODULE CatalogueProofs ---------------------------
(***************************************************************************)
(* Calls that replace joins, calls that delete what is joined and new      *)
(* memberships, in any number and overlapping in any way: the foreign keys *)
(* hold, and no call loses or leaves more than what it could not have      *)
(* seen.                                                                   *)
(*                                                                         *)
(* The invariant says what a call that has read knows: which joins of its  *)
(* holder there are beside those it is to delete and to insert, and that   *)
(* what two transactions hold is apart.                                    *)
(***************************************************************************)
EXTENDS CatalogueRefinement, TLAPS

Calls == {r \in Requests : pc[r] \in Stages}
InTx(r) == pc[r] \in {"deleting", "inserting"}

\* The row of a holder has been there, unless the call is to make it.
RowOK(r) ==
  \/ row[holder[r]] # "absent"
  \/ pc[r] = "inserting" /\ holder[r] \in Roles /\ sets[r] = "active"
  \/ pc[r] = "altering" /\ holder[r] \in Permissions

CallOK(r) ==
  /\ holder[r] \in Users \cup Things
  /\ want[r] \subseteq Of(holder[r]) /\ bars[r] \subseteq want[r] /\ cut[r] \subseteq Of(holder[r])
  /\ holder[r] \in Users => sets[r] = Keep /\ pc[r] \notin {"erasing", "cascading", "altering"}
  /\ holder[r] \in Roles => sets[r] # "inactive"
  /\ pc[r] = "begin" \/ InTx(r) => holder[r] \notin Permissions
  /\ pc[r] = "altering" => sets[r] \in {"active", "inactive"} /\ holder[r] \notin Roles
  /\ pc[r] \notin Committed /\ holder[r] \in Things => RowOK(r)
  /\ HoldsLock(r) => row[holder[r]] # "gone"
  /\ pc[r] = "cascading" => Present(holder[r])
  /\ pc[r] = "inserting" => /\ put[r] \subseteq want[r] /\ writes[r] \subseteq want[r]
                            /\ holder[r] \notin Users => put[r] = {} /\ writes[r] = want[r]

\* What has been upserted cannot lose the permission it refers to.
PutOK(r) == /\ pc[r] # "inserting" => put[r] = {} /\ writes[r] = {}
            /\ \A j \in put[r] : Present(j[2])

\* No two transactions hold the row of one holder or have changed one join, and who is
\* deleting a row holds its key alone.
HoldsIts(r) == pc[r] = "cascading" \/ HoldsLock(r)
Apart(r, q) ==
  /\ HoldsIts(r) /\ HoldsIts(q) => holder[r] # holder[q]
  /\ Changed(r) \cap Changed(q) = {}
  /\ pc[r] = "cascading" => ~SharesKey(q, holder[r])
  /\ pc[q] = "cascading" => ~SharesKey(r, holder[q])

\* The joins of the holder of a call that has read them.
ReadOK(r) == HasRead(r) /\ pc[r] \notin {"erasing", "cascading"} =>
               join \cap Of(holder[r]) \subseteq cut[r] \cup want[r] \cup since[r]
CountOK(r) == pc[r] \in {"erasing", "cascading"} => AssignedTo(holder[r]) \subseteq since[r]

Inv == /\ TypeOK
       /\ \A r \in Calls : CallOK(r)
       /\ \A r \in Requests : PutOK(r) /\ ReadOK(r) /\ CountOK(r)
       /\ \A r, q \in Requests : r # q => Apart(r, q)

-----------------------------------------------------------------------------
\* Joins

LEMMA JoinEnds ==
  ASSUME NEW j \in Joins
  PROVE  /\ j[1] \in Users \cup Members \cup Roles
         /\ j[2] \in Roles \cup Permissions
         /\ j[1] \in Users <=> j \in UserPermissionOverride
         /\ j[1] \in Members => j[2] \in Roles
BY CatalogueAssumption
DEF Joins, MemberRole, RolePermission, UserPermissionOverride, Things

LEMMA NewJoins ==
  /\ \A m \in Members, S \in SUBSET Roles : {m} \X S \subseteq Of(m)
  /\ \A x \in Roles, P \in SUBSET Permissions : {x} \X P \subseteq Of(x)
  /\ \A u \in Users, P \in SUBSET Permissions :
       /\ {u} \X P \subseteq Of(u)
       /\ \A D \in SUBSET P : {u} \X D \subseteq UserPermissionOverride
                              /\ {u} \X D \subseteq {u} \X P
BY DEF Of, Joins, MemberRole, RolePermission, UserPermissionOverride

LEMMA HolderIsFirst ==
  ASSUME NEW h, NEW k, NEW j \in Of(h), j \in Of(k)
  PROVE  h = k
BY DEF Of

LEMMA OfTouches == \A h : Of(h) \subseteq Touching(h) /\ Touching(h) \subseteq Joins
BY DEF Of, Touching

\* What is not there yet has no joins.
LEMMA AbsentIsUnjoined ==
  ASSUME TypeOK, NEW x \in Things, ~Present(x)
  PROVE  join \cap Touching(x) = {}
<1> SUFFICES ASSUME NEW j \in join, j[1] = x \/ j[2] = x PROVE FALSE
  BY DEF Touching
<1> QED
  BY CatalogueAssumption DEF TypeOK, Consistent, Things

\* A call that holds nothing is apart from every other.
LEMMA HoldsNothing ==
  ASSUME NEW r, NEW q, pc[r] \notin {"deleting", "inserting", "cascading"}, put[r] = {}
  PROVE  Apart(r, q)
BY DEF Apart, HoldsIts, HoldsLock, Changed, Deleted, SharesKey

LEMMA InvInit == Init => Inv
<1> SUFFICES ASSUME Init PROVE Inv
  OBVIOUS
<1>1. TypeOK
  BY DEF Init, TypeOK
<1>2. \A r \in Requests : pc[r] = "idle" /\ put[r] = {} /\ writes[r] = {}
  BY DEF Init
<1>3. \A r, q \in Requests : Apart(r, q)
  BY <1>2, HoldsNothing
<1> QED
  BY <1>1, <1>2, <1>3 DEF Inv, Calls, Stages, Committed, PutOK, ReadOK, HasRead, CountOK

-----------------------------------------------------------------------------
\* Calls that begin and calls that end: the tables are as they were.

\* What the invariant says of a call depends on the tables and on the call alone.
SameCall(q) == /\ pc'[q] = pc[q] /\ holder'[q] = holder[q] /\ want'[q] = want[q]
               /\ bars'[q] = bars[q] /\ sets'[q] = sets[q] /\ cut'[q] = cut[q]
               /\ writes'[q] = writes[q] /\ put'[q] = put[q] /\ since'[q] = since[q]

LEMMA OthersKeep ==
  ASSUME Inv, UNCHANGED rows, NEW q \in Requests, SameCall(q)
  PROVE  /\ q \in Calls' => CallOK(q)'
         /\ PutOK(q)' /\ ReadOK(q)' /\ CountOK(q)'
<1>1. q \in Calls' => CallOK(q)'
  BY DEF Inv, SameCall, rows, Calls, CallOK, RowOK, InTx, HoldsLock, Locks, Present, Committed
<1>2. PutOK(q)'
  BY DEF Inv, SameCall, rows, PutOK, Present
<1>3. ReadOK(q)' /\ CountOK(q)'
  BY DEF Inv, SameCall, rows, ReadOK, HasRead, CountOK, AssignedTo
<1> QED
  BY <1>1, <1>2, <1>3

LEMMA OthersApart ==
  ASSUME Inv, UNCHANGED rows, NEW q \in Requests, NEW p \in Requests, q # p, SameCall(q), SameCall(p)
  PROVE  Apart(q, p)'
<1>1. /\ HoldsIts(q)' <=> HoldsIts(q)
      /\ HoldsIts(p)' <=> HoldsIts(p)
      /\ Changed(q)' = Changed(q) /\ Changed(p)' = Changed(p)
  BY DEF SameCall, HoldsIts, HoldsLock, Locks, Changed, Deleted
<1>2. /\ SharesKey(p, holder[q])' <=> SharesKey(p, holder[q])
      /\ SharesKey(q, holder[p])' <=> SharesKey(q, holder[p])
  BY DEF SameCall, SharesKey, rows
<1> QED
  BY <1>1, <1>2 DEF Inv, Apart, SameCall

LEMMA OneCallStep ==
  ASSUME Inv, UNCHANGED rows, TypeOK', NEW r \in Requests,
         \A q \in Requests \ {r} : SameCall(q),
         r \in Calls' => CallOK(r)',
         PutOK(r)', ReadOK(r)', CountOK(r)',
         \A q \in Requests \ {r} : Apart(r, q)'
  PROVE  Inv'
<1>1. \A q \in Requests \ {r} : /\ q \in Calls' => CallOK(q)'
                                /\ PutOK(q)' /\ ReadOK(q)' /\ CountOK(q)'
  BY OthersKeep
<1>2. \A q, p \in Requests : q # p => Apart(q, p)'
  <2>1. \A q, p \in Requests \ {r} : q # p => Apart(q, p)'
    BY OthersApart
  <2>2. \A q \in Requests \ {r} : Apart(q, r)'
    BY DEF Apart
  <2> QED
    BY <2>1, <2>2
<1>3. \A q \in Calls' : q \in Requests
  BY DEF Calls
<1> QED
  BY <1>1, <1>2, <1>3 DEF Inv

LEMMA EndStep ==
  ASSUME Inv, NEW r \in Requests, End(r)
  PROVE  Inv'
<1>1. TypeOK'
  BY DEF Inv, TypeOK, End, rows, Consistent, Present
<1>2. \A q \in Requests \ {r} : SameCall(q)
  BY DEF Inv, TypeOK, End, SameCall
<1>3. pc'[r] = "over" /\ put'[r] = {} /\ writes'[r] = {}
  BY DEF Inv, TypeOK, End
<1>4. r \notin Calls' /\ PutOK(r)' /\ ReadOK(r)' /\ CountOK(r)'
  BY <1>3 DEF Calls, Stages, Committed, PutOK, ReadOK, HasRead, CountOK
<1>5. \A q \in Requests \ {r} : Apart(r, q)'
  BY <1>3, HoldsNothing DEF Apart, HoldsIts, HoldsLock, Changed, Deleted, SharesKey
<1> QED
  BY <1>1, <1>2, <1>4, <1>5, OneCallStep DEF End

\* A call begins with what it was asked for, and with what it has read.
Begins(h, to, w, b, s, c) ==
  /\ h \in Users \cup Things /\ to \in {"begin", "inserting", "erasing", "altering"}
  /\ w \subseteq Of(h) /\ b \subseteq w /\ b \subseteq UserPermissionOverride /\ c \subseteq Of(h)
  /\ s \in {"active", "inactive", "renamed", Keep}
  /\ h \in Users => /\ s = Keep /\ to \notin {"erasing", "altering"}
                    /\ join \cap Of(h) \subseteq c \cup w
  /\ h \in Roles => s # "inactive"
  /\ to = "begin" => h \notin Permissions
  /\ to = "altering" => s \in {"active", "inactive"} /\ h \notin Roles
  /\ to = "inserting" => /\ h \in Roles /\ s = "active" /\ row[h] = "absent" /\ c = {}
                         /\ \A q \in Requests : holder[q] # h
  /\ to # "inserting" /\ h \in Things => row[h] # "absent" \/ (to = "altering" /\ h \in Permissions)
  /\ to = "erasing" => AssignedTo(h) = {}

LEMMA StartStep ==
  ASSUME Inv, NEW r \in Requests, NEW h, NEW to, NEW w, NEW b, NEW s, NEW c,
         Begins(h, to, w, b, s, c), Start(r, h, to, w, b, s, c)
  PROVE  Inv'
<1> USE DEF Begins, Inv, TypeOK, Start
<1>1. /\ pc'[r] = to /\ holder'[r] = h /\ want'[r] = w /\ bars'[r] = b
      /\ sets'[r] = s /\ cut'[r] = c /\ since'[r] = since[r] /\ UNCHANGED rows
      /\ writes'[r] = IF to = "inserting" THEN w ELSE {}
  OBVIOUS
<1>0. put'[r] = {}
  BY DEF PutOK
<1>2. TypeOK'
  <2>1. Of(h) \subseteq Joins
    BY OfTouches
  <2>2. UNCHANGED <<row, join, deny, since, put>>
    BY DEF rows
  <2>3. \A j \in join' : Consistent(j)'
    BY <2>2 DEF Consistent, Present
  <2> QED
    BY <2>1, <2>2, <2>3 DEF Stages
<1>3. \A q \in Requests \ {r} : SameCall(q)
  BY DEF SameCall
<1>4. CallOK(r)'
  <2>1. CASE to = "inserting"
    <3>1. h \in Things /\ h \notin Users \cup Permissions
      BY <2>1, CatalogueAssumption DEF Things
    <3> QED
      BY <1>0, <1>1, <2>1, <3>1 DEF CallOK, RowOK, InTx, HoldsLock, rows
  <2>2. CASE to # "inserting"
    BY <1>1, <2>2 DEF CallOK, RowOK, InTx, HoldsLock, rows
  <2> QED
    BY <2>1, <2>2
<1>5. ReadOK(r)'
  <2>1. CASE h \in Users
    BY <1>1, <2>1 DEF ReadOK, rows
  <2>2. CASE h \notin Users /\ to = "inserting"
    <3>1. join \cap Of(h) = {}
      BY <2>2, AbsentIsUnjoined, OfTouches DEF Present
    <3> QED
      BY <1>1, <3>1 DEF ReadOK, rows
  <2>3. CASE h \notin Users /\ to # "inserting"
    BY <1>1, <2>3 DEF ReadOK, HasRead
  <2> QED
    BY <2>1, <2>2, <2>3
<1>6. PutOK(r)'
  BY <1>0, <1>1 DEF PutOK
<1>7. CountOK(r)'
  BY <1>1 DEF CountOK, AssignedTo, rows
<1>8. ASSUME NEW q \in Requests \ {r} PROVE Apart(r, q)'
  <2>1. Changed(r)' = {} /\ pc'[r] # "cascading" /\ \A x : ~SharesKey(r, x)'
    BY <1>0, <1>1 DEF Changed, Deleted, SharesKey
  <2>2. ~SharesKey(r, holder[q])'
    BY <1>0 DEF SharesKey
  <2>3. HoldsIts(r)' => holder'[r] # holder'[q]
    BY <1>1, <1>3 DEF HoldsIts, HoldsLock, SameCall
  <2> QED
    BY <2>1, <2>2, <2>3 DEF Apart
<1> HIDE DEF Begins, Inv, TypeOK, Start
<1> QED
  BY <1>1, <1>2, <1>3, <1>4, <1>5, <1>6, <1>7, <1>8, OneCallStep

LEMMA BeginStep ==
  ASSUME Inv, NEW r \in Requests, Begin(r)
  PROVE  Inv'
<1>0. /\ \A h \in Things : h \notin Users
      /\ \A m \in Members : m \notin Roles \cup Permissions
      /\ \A x \in Roles : x \notin Permissions
      /\ Members \cup Roles \cup Permissions = Things
      /\ \A h \in Things : Present(h) => row[h] # "absent"
      /\ Keep \notin {"active", "inactive", "renamed"}
  BY CatalogueAssumption DEF Things, Present
<1>1. ASSUME NEW m \in Members, NEW st \in {"active", "inactive", Keep}, NEW S \in SUBSET Roles,
             UpdateMember(r, m, S, st)
      PROVE  Inv'
  <2>1. Present(m) /\ Start(r, m, "begin", {m} \X S, {}, st, {})
    BY <1>1 DEF UpdateMember
  <2>2. {m} \X S \subseteq Of(m)
    BY NewJoins
  <2>3. Begins(m, "begin", {m} \X S, {}, st, {})
    BY <1>0, <2>1, <2>2 DEF Begins
  <2> QED
    BY <2>1, <2>3, StartStep
<1>2. ASSUME NEW m \in Members, NEW st \in {"active", "inactive", Keep}, UpdateMemberStatus(r, m, st)
      PROVE  Inv'
  <2>1. Present(m) /\ st # Keep /\ Start(r, m, "altering", {}, {}, st, {})
    BY <1>2 DEF UpdateMemberStatus
  <2>3. Begins(m, "altering", {}, {}, st, {})
    BY <1>0, <2>1 DEF Begins
  <2> QED
    BY <2>1, <2>3, StartStep
<1>3. ASSUME NEW m \in Members, RemoveMember(r, m) PROVE Inv'
  <2>1. AssignedTo(m) = {}
    BY JoinEnds, <1>0 DEF AssignedTo, Inv, TypeOK
  <2>2. Present(m) /\ Start(r, m, "erasing", {}, {}, Keep, {})
    BY <1>3 DEF RemoveMember
  <2>3. Begins(m, "erasing", {}, {}, Keep, {})
    BY <1>0, <2>1, <2>2 DEF Begins
  <2> QED
    BY <2>2, <2>3, StartStep
<1>4. ASSUME NEW x \in Roles, NEW P \in SUBSET Permissions, CreateRole(r, x, P) PROVE Inv'
  <2>1. /\ row[x] = "absent" /\ \A q \in Requests : holder[q] # x
        /\ Start(r, x, "inserting", {x} \X P, {}, "active", {})
    BY <1>4 DEF CreateRole
  <2>2. {x} \X P \subseteq Of(x)
    BY NewJoins
  <2>3. Begins(x, "inserting", {x} \X P, {}, "active", {})
    BY <1>0, <2>1, <2>2 DEF Begins
  <2> QED
    BY <2>1, <2>3, StartStep
<1>5. ASSUME NEW x \in Roles, NEW P \in SUBSET Permissions, NEW st \in {"active", "renamed", Keep},
             UpdateRole(r, x, P, st)
      PROVE  Inv'
  <2>1. Present(x) /\ Start(r, x, "begin", {x} \X P, {}, st, {})
    BY <1>5 DEF UpdateRole
  <2>2. {x} \X P \subseteq Of(x)
    BY NewJoins
  <2>3. Begins(x, "begin", {x} \X P, {}, st, {})
    BY <1>0, <2>1, <2>2 DEF Begins
  <2> QED
    BY <2>1, <2>3, StartStep
<1>6. ASSUME NEW x \in Roles \cup Permissions, DeleteRole(r, x) \/ DeletePermission(r, x) PROVE Inv'
  <2>1. Present(x) /\ AssignedTo(x) = {} /\ Start(r, x, "erasing", {}, {}, Keep, {})
    BY <1>6 DEF DeleteRole, DeletePermission
  <2>3. Begins(x, "erasing", {}, {}, Keep, {})
    BY <1>0, <2>1 DEF Begins
  <2> QED
    BY <2>1, <2>3, StartStep
<1>7. ASSUME NEW p \in Permissions, CreatePermission(r, p) PROVE Inv'
  <2>1. Start(r, p, "altering", {}, {}, "active", {})
    BY <1>7 DEF CreatePermission
  <2>3. Begins(p, "altering", {}, {}, "active", {})
    BY <1>0, <2>1 DEF Begins
  <2> QED
    BY <2>1, <2>3, StartStep
<1>8. ASSUME NEW p \in Permissions, NEW st \in {"active", "inactive", Keep},
             UpdatePermission(r, p, st)
      PROVE  Inv'
  <2>1. PICK s \in {"active", "inactive"} : Start(r, p, "altering", {}, {}, s, {})
    BY <1>8 DEF UpdatePermission, Present
  <2>3. Begins(p, "altering", {}, {}, s, {})
    BY <1>0, <2>1 DEF Begins
  <2> QED
    BY <2>1, <2>3, StartStep
<1>9. ASSUME NEW u \in Users, NEW P \in SUBSET Permissions, NEW D \in SUBSET P,
             BulkUpdate(r, u, P, D)
      PROVE  Inv'
  <2>1. Start(r, u, "begin", {u} \X P, {u} \X D, Keep, (join \cap Of(u)) \ ({u} \X P))
    BY <1>9 DEF BulkUpdate
  <2>2. {u} \X P \subseteq Of(u) /\ {u} \X D \subseteq UserPermissionOverride /\ {u} \X D \subseteq {u} \X P
    BY NewJoins
  <2>3. u \notin Roles \cup Permissions \cup Things
    BY <1>0
  <2>4. Begins(u, "begin", {u} \X P, {u} \X D, Keep, (join \cap Of(u)) \ ({u} \X P))
    BY <1>0, <2>1, <2>2, <2>3 DEF Begins
  <2> QED
    BY <2>1, <2>4, StartStep
<1> QED
  BY <1>1, <1>2, <1>3, <1>4, <1>5, <1>6, <1>7, <1>8, <1>9 DEF Begin

-----------------------------------------------------------------------------
\* Statements that change no table for others

LEMMA SelectRowsStep ==
  ASSUME Inv, NEW r \in Requests, SelectRows(r)
  PROVE  Inv'
<1> DEFINE c == IF holder[r] \in Users THEN cut[r] \cap join ELSE join \cap Of(holder[r])
<1>1. /\ pc[r] = "begin" /\ Free(r) /\ (Locks(r) => Present(holder[r]))
      /\ pc' = [pc EXCEPT ![r] = "deleting"] /\ cut' = [cut EXCEPT ![r] = c]
      /\ UNCHANGED <<rows, holder, want, bars, sets, writes, put, since>>
  BY DEF SelectRows, Goes, asked
<1> USE DEF Inv, TypeOK
<1>2. r \in Calls /\ CallOK(r) /\ c \subseteq Of(holder[r]) /\ c \subseteq Joins
  BY <1>1, OfTouches DEF Calls, Stages, CallOK
<1>3. pc'[r] = "deleting" /\ cut'[r] = c /\ \A q \in Requests \ {r} : SameCall(q)
  BY <1>1 DEF SameCall
<1>4. TypeOK'
  <2>1. UNCHANGED <<row, join, deny>> /\ \A j \in join' : Consistent(j)'
    BY <1>1 DEF rows, Consistent, Present
  <2> QED
    BY <1>1, <1>2, <2>1 DEF Stages
<1>5. CallOK(r)'
  BY <1>1, <1>2, <1>3 DEF CallOK, RowOK, InTx, HoldsLock, Locks, Present, rows, Committed
<1>6. ReadOK(r)' /\ CountOK(r)'
  <2>1. join' = join /\ holder' = holder /\ want' = want /\ since' = since
    BY <1>1 DEF rows
  <2>2. CASE holder[r] \in Users
    <3>1. join \cap Of(holder[r]) \subseteq cut[r] \cup want[r] \cup since[r]
      BY <1>1, <2>2 DEF ReadOK, HasRead
    <3> QED
      BY <1>3, <2>1, <2>2, <3>1 DEF ReadOK, CountOK
  <2>3. CASE holder[r] \notin Users
    BY <1>3, <2>1, <2>3 DEF ReadOK, CountOK
  <2> QED
    BY <2>2, <2>3
<1>7. put[r] = {} /\ writes[r] = {}
  BY <1>1 DEF PutOK
<1>8. PutOK(r)'
  BY <1>1, <1>7 DEF PutOK
<1>9. ASSUME NEW q \in Requests \ {r} PROVE Apart(r, q)'
  <2>1. Changed(r)' = {} /\ pc'[r] # "cascading"
    BY <1>1, <1>3, <1>7 DEF Changed, Deleted
  <2>2. ~SharesKey(r, holder[q])'
    BY <1>1, <1>7 DEF SharesKey
  <2>3. HoldsIts(r)' /\ HoldsIts(q)' => Locks(r) /\ HoldsIts(q)
    BY <1>1, <1>3 DEF HoldsIts, HoldsLock, Locks, SameCall
  <2>4. Locks(r) /\ HoldsIts(q) => holder[r] # holder[q]
    BY <1>1 DEF Free, Waits, HoldsRow, HoldsIts
  <2> QED
    BY <1>1, <2>1, <2>2, <2>3, <2>4 DEF Apart
<1> HIDE DEF Inv, TypeOK
<1> QED
  BY <1>1, <1>3, <1>4, <1>5, <1>6, <1>8, <1>9, OneCallStep

LEMMA DeleteRowsStep ==
  ASSUME Inv, NEW r \in Requests, DeleteRows(r)
  PROVE  Inv'
<1>1. PICK W \in FirstWrites(r) :
        /\ pc[r] = "deleting" /\ Free(r) /\ pc' = [pc EXCEPT ![r] = "inserting"]
        /\ writes' = [writes EXCEPT ![r] = W]
        /\ UNCHANGED <<rows, holder, want, bars, sets, cut, put, since>>
  BY DEF DeleteRows, Goes, asked
<1>0. W \subseteq want[r] /\ (holder[r] \notin Users => W = want[r])
  BY <1>1 DEF FirstWrites
<1> USE DEF Inv, TypeOK
<1>2. r \in Calls /\ CallOK(r) /\ put[r] = {}
  BY <1>1 DEF Calls, Stages, PutOK
<1>3. pc'[r] = "inserting" /\ writes'[r] = W /\ \A q \in Requests \ {r} : SameCall(q)
  BY <1>1 DEF SameCall
<1>4. TypeOK'
  <2>1. UNCHANGED <<row, join, deny>> /\ \A j \in join' : Consistent(j)'
    BY <1>1 DEF rows, Consistent, Present
  <2>2. W \in SUBSET Joins
    BY <1>0
  <2> QED
    BY <1>1, <2>1, <2>2 DEF Stages
<1>5. CallOK(r)'
  BY <1>0, <1>1, <1>2, <1>3 DEF CallOK, RowOK, InTx, HoldsLock, Locks, rows, Committed
<1>6. PutOK(r)' /\ ReadOK(r)' /\ CountOK(r)'
  BY <1>1, <1>2, <1>3 DEF PutOK, ReadOK, HasRead, CountOK, rows
<1>7. ASSUME NEW q \in Requests \ {r} PROVE Apart(r, q)'
  <2>1. Changed(r)' = cut[r] /\ Changed(q)' = Changed(q)
    BY <1>1, <1>2, <1>3 DEF Changed, Deleted, SameCall
  <2>2. cut[r] \cap Changed(q) = {}
    BY <1>1 DEF Free, Waits
  <2>3. ~SharesKey(r, holder[q])' /\ pc'[r] # "cascading"
    BY <1>1, <1>2 DEF SharesKey
  <2>4. HoldsIts(r)' /\ HoldsIts(q)' => HoldsIts(r) /\ HoldsIts(q)
    BY <1>1, <1>3 DEF HoldsIts, HoldsLock, Locks, SameCall
  <2> QED
    BY <1>1, <2>1, <2>2, <2>3, <2>4 DEF Apart
<1> HIDE DEF Inv, TypeOK
<1> QED
  BY <1>1, <1>3, <1>4, <1>5, <1>6, <1>7, OneCallStep

\* An override is upserted that nobody else has changed, of a permission that nobody is
\* deleting.
LEMMA UpsertRowStep ==
  ASSUME Inv, NEW r \in Requests, UpsertRow(r)
  PROVE  Inv'
<1>1. PICK j \in want[r] \ (put[r] \cup writes[r]) :
        /\ pc[r] = "inserting" /\ Free(r) /\ Linked(r)
        /\ put' = [put EXCEPT ![r] = put[r] \cup writes[r]]
        /\ writes' = [writes EXCEPT ![r] = {j}]
        /\ UNCHANGED <<rows, pc, holder, want, bars, sets, cut, since>>
  BY DEF UpsertRow, asked
<1> USE DEF Inv, TypeOK
<1>2. r \in Calls /\ CallOK(r)
  BY <1>1 DEF Calls, Stages
<1>3. /\ put'[r] = put[r] \cup writes[r] /\ writes'[r] = {j} /\ UNCHANGED row
      /\ \A q \in Requests \ {r} : SameCall(q)
  BY <1>1 DEF SameCall, rows
<1>4. TypeOK'
  <2>1. UNCHANGED <<row, join, deny>> /\ \A i \in join' : Consistent(i)'
    BY <1>1 DEF rows, Consistent, Present
  <2> QED
    BY <1>1, <2>1
<1>5. CallOK(r)'
  <2>1. holder[r] \in Users
    BY <1>1, <1>2 DEF CallOK
  <2> QED
    BY <1>1, <1>2, <1>3, <2>1 DEF CallOK, RowOK, InTx, HoldsLock, Locks, rows, Committed
<1>6. ReadOK(r)' /\ CountOK(r)'
  BY <1>1 DEF ReadOK, HasRead, CountOK, rows
<1>7. PutOK(r)'
  BY <1>1, <1>3 DEF PutOK, Linked, Present
<1>8. ASSUME NEW q \in Requests \ {r} PROVE Apart(r, q)'
  <2>1. Changed(r)' = Changed(r) \cup writes[r] /\ Changed(q)' = Changed(q)
    BY <1>1, <1>3 DEF Changed, Deleted, SameCall
  <2>2. writes[r] \cap Changed(q) = {}
    BY <1>1 DEF Free, Waits
  <2>3. ASSUME pc[q] = "cascading", NEW i \in put'[r] \ join, i[2] = holder[q] PROVE FALSE
    <3>1. i \in writes[r]
      BY <2>3, <1>3 DEF Apart, SharesKey
    <3>2. HoldsKey(q, i[2])
      BY <2>3 DEF HoldsKey, HoldsRow
    <3> QED
      BY <3>1, <3>2, <2>3, <1>1 DEF Free, Waits
  <2>4. HoldsIts(r)' /\ HoldsIts(q)' => HoldsIts(r) /\ HoldsIts(q)
    BY <1>1 DEF HoldsIts, HoldsLock, Locks
  <2>5. pc'[q] = "cascading" => ~SharesKey(r, holder[q])'
    BY <2>3, <1>1 DEF SharesKey, rows
  <2> QED
    BY <1>1, <2>1, <2>2, <2>4, <2>5 DEF Apart
<1> HIDE DEF Inv, TypeOK
<1> QED
  BY <1>1, <1>3, <1>4, <1>5, <1>6, <1>7, <1>8, OneCallStep

\* A row is deleted that nobody holds and whose key nobody shares.
LEMMA DeleteThingStep ==
  ASSUME Inv, NEW r \in Requests, DeleteThing(r)
  PROVE  Inv'
<1>1. /\ pc[r] = "erasing" /\ Free(r) /\ pc' = [pc EXCEPT ![r] = "cascading"] /\ Present(holder[r])
      /\ UNCHANGED <<rows, holder, want, bars, sets, cut, writes, put, since>>
  BY DEF DeleteThing, Goes, asked
<1> USE DEF Inv, TypeOK
<1>2. r \in Calls /\ CallOK(r) /\ put[r] = {} /\ writes[r] = {}
  BY <1>1 DEF Calls, Stages, PutOK
<1>3. pc'[r] = "cascading" /\ \A q \in Requests \ {r} : SameCall(q)
  BY <1>1 DEF SameCall
<1>4. TypeOK'
  <2>1. UNCHANGED <<row, join, deny>> /\ \A j \in join' : Consistent(j)'
    BY <1>1 DEF rows, Consistent, Present
  <2> QED
    BY <1>1, <2>1 DEF Stages
<1>5. CallOK(r)'
  BY <1>1, <1>2, <1>3 DEF CallOK, RowOK, InTx, HoldsLock, Locks, Present, rows, Committed
<1>6. PutOK(r)' /\ ReadOK(r)' /\ CountOK(r)'
  BY <1>1, <1>2, <1>3 DEF PutOK, ReadOK, HasRead, CountOK, AssignedTo, rows
<1>7. ASSUME NEW q \in Requests \ {r} PROVE Apart(r, q)'
  <2>1. Changed(r)' = {}
    BY <1>1, <1>2, <1>3 DEF Changed, Deleted
  <2>2. ~HoldsRow(q, holder[r]) /\ ~SharesKey(q, holder[r])
    BY <1>1 DEF Free, Waits
  <2>3. ~SharesKey(q, holder[r])' /\ ~SharesKey(r, holder[q])'
    BY <2>2, <1>1, <1>2 DEF SharesKey, rows
  <2>4. HoldsIts(q)' => holder[r] # holder[q]
    BY <2>2, <1>1, <1>3 DEF HoldsRow, HoldsIts, HoldsLock, Locks, SameCall
  <2> QED
    BY <1>1, <2>1, <2>3, <2>4 DEF Apart
<1> HIDE DEF Inv, TypeOK
<1> QED
  BY <1>1, <1>3, <1>4, <1>5, <1>6, <1>7, OneCallStep

-----------------------------------------------------------------------------
\* Commits

\* Rows that have been there stay known, and one that a transaction holds stays.
RowsMove(r) ==
  /\ \A x \in Things : row[x] # "absent" => row'[x] # "absent"
  /\ \A q \in Requests \ {r} :
       /\ HoldsIts(q) => row'[holder[q]] \in {row[holder[q]], "active", "inactive"}
       /\ \A j \in put[q] : Present(j[2])'

LEMMA HoldersAreThings ==
  ASSUME Inv, NEW q \in Requests, HoldsIts(q)
  PROVE  q \in Calls /\ CallOK(q) /\ holder[q] \in Things
<1>1. q \in Calls /\ CallOK(q)
  BY DEF Inv, Calls, Stages, HoldsIts, HoldsLock
<1> QED
  BY <1>1 DEF CallOK, HoldsIts, HoldsLock, Locks

\* The others learn of the new joins of their holders.
LEMMA OthersLearn ==
  ASSUME Inv, NEW gone, NEW new \in SUBSET Joins, NEW q \in Requests,
         join' = (join \ gone) \cup new,
         cut'[q] = IF pc[q] = "deleting" THEN cut[q] \ gone ELSE cut[q],
         since'[q] = IF HasRead(q) THEN since[q] \cup (new \cap Touching(holder[q])) ELSE since[q],
         pc'[q] = pc[q], holder'[q] = holder[q], want'[q] = want[q]
  PROVE  ReadOK(q)' /\ CountOK(q)'
<1>1. ReadOK(q)'
  <2> SUFFICES ASSUME HasRead(q), pc[q] \notin {"erasing", "cascading"}, NEW j \in join' \cap Of(holder[q])
               PROVE  j \in cut'[q] \cup want[q] \cup since'[q]
    BY DEF ReadOK, HasRead
  <2>1. CASE j \in new
    BY <2>1, OfTouches
  <2>2. CASE j \notin new
    <3>1. j \in cut[q] \cup want[q] \cup since[q]
      BY <2>2 DEF Inv, ReadOK
    <3> QED
      BY <2>2, <3>1
  <2> QED
    BY <2>1, <2>2
<1>2. CountOK(q)'
  <2> SUFFICES ASSUME pc[q] \in {"erasing", "cascading"},
                      NEW j \in join', j[2] = holder[q], j[1] \notin Users
               PROVE  j \in since'[q]
    BY DEF CountOK, AssignedTo
  <2>1. HasRead(q)
    BY DEF HasRead
  <2>2. CASE j \in new
    BY <2>1, <2>2 DEF Touching
  <2>3. CASE j \notin new
    BY <2>1, <2>3 DEF Inv, CountOK, AssignedTo
  <2> QED
    BY <2>2, <2>3
<1> QED
  BY <1>1, <1>2

LEMMA CommitStep ==
  ASSUME Inv, NEW r \in Requests, pc[r] \in Stages \ Committed,
         NEW gone \in SUBSET Joins, NEW new \in SUBSET Joins, NEW then \in Committed,
         Commit(r, gone, new, then), RowsMove(r), TypeOK',
         \A q \in Requests \ {r} : gone \cap join \cap Changed(q) = {}
  PROVE  Inv'
<1> USE DEF Inv
<1>1. /\ pc'[r] = then /\ holder' = holder /\ want' = want /\ bars' = bars /\ sets' = sets
      /\ cut'[r] = cut[r] /\ since'[r] = since[r] /\ join' = (join \ gone) \cup new
      /\ put'[r] = {} /\ writes'[r] = {}
      /\ \A q \in Requests \ {r} :
           /\ pc'[q] = pc[q] /\ put'[q] = put[q] /\ writes'[q] = writes[q]
           /\ cut'[q] = IF pc[q] = "deleting" THEN cut[q] \ gone ELSE cut[q]
           /\ since'[q] = IF HasRead(q) THEN since[q] \cup (new \cap Touching(holder[q])) ELSE since[q]
  BY DEF Commit, TypeOK, asked
<1>2. ~HoldsLock(r)' /\ ~InTx(r)' /\ ~HasRead(r)' /\ pc'[r] \notin {"begin", "erasing", "cascading", "altering"}
  BY <1>1 DEF HoldsLock, HasRead, InTx, Committed
<1>3. \A q \in Requests \ {r} : /\ HoldsLock(q)' <=> HoldsLock(q)
                                /\ HoldsIts(q)' <=> HoldsIts(q)
                                /\ Changed(q)' = Changed(q)
  BY <1>1 DEF HoldsIts, HoldsLock, Locks, Changed, Deleted
<1>4. ASSUME NEW q \in Calls' PROVE CallOK(q)'
  <2>1. q \in Requests /\ q \in Calls /\ CallOK(q)
    BY <1>1 DEF Calls
  <2>2. CASE q = r
    BY <2>1, <2>2, <1>1, <1>2 DEF CallOK, InTx, Committed
  <2>3. CASE q # r
    <3>1. HoldsLock(q) => row'[holder[q]] # "gone"
      BY <2>1, <2>3 DEF RowsMove, CallOK, HoldsIts, Present
    <3>2. pc[q] = "cascading" => Present(holder[q])'
      BY <2>1, <2>3, <1>1 DEF RowsMove, CallOK, HoldsIts, Present
    <3>3. pc[q] \notin Committed /\ holder[q] \in Things => RowOK(q)'
      BY <2>1, <2>3, <1>1 DEF RowsMove, CallOK, RowOK
    <3> QED
      BY <2>1, <2>3, <1>1, <1>3, <3>1, <3>2, <3>3 DEF CallOK, InTx
  <2> QED
    BY <2>2, <2>3
<1>5. ASSUME NEW q \in Requests PROVE PutOK(q)'
  <2>1. CASE q = r
    BY <2>1, <1>1 DEF PutOK
  <2>2. CASE q # r
    BY <2>2, <1>1 DEF PutOK, RowsMove
  <2> QED
    BY <2>1, <2>2
<1>6. ASSUME NEW q \in Requests PROVE ReadOK(q)' /\ CountOK(q)'
  <2>1. CASE q = r
    BY <2>1, <1>2 DEF ReadOK, CountOK
  <2>2. CASE q # r
    BY <2>2, <1>1, OthersLearn
  <2> QED
    BY <2>1, <2>2
<1>7. ASSUME NEW q \in Requests, NEW p \in Requests, q # p PROVE Apart(q, p)'
  <2>1. \A a \in Requests : Apart(r, a)' /\ Apart(a, r)'
    <3>1. ~HoldsIts(r)' /\ pc'[r] # "cascading" /\ Changed(r)' = {} /\ \A x : ~SharesKey(r, x)'
      BY <1>1, <1>2 DEF HoldsIts, Changed, Deleted, SharesKey, Committed
    <3>2. \A a \in Requests : ~SharesKey(r, holder[a])'
      BY <1>1 DEF SharesKey
    <3> QED
      BY <3>1, <3>2 DEF Apart
  <2>2. CASE q # r /\ p # r
    <3>1. pc'[q] = "cascading" => ~SharesKey(p, holder[q])'
      <4> SUFFICES ASSUME pc[q] = "cascading", NEW j \in put[p], j \notin join', j[2] = holder[q] PROVE FALSE
        BY <2>2, <1>1 DEF SharesKey
      <4>1. j \notin join
        BY <2>2, <1>1 DEF Changed
      <4> QED
        BY <4>1, <2>2, <1>7 DEF Apart, SharesKey
    <3>2. pc'[p] = "cascading" => ~SharesKey(q, holder[p])'
      <4> SUFFICES ASSUME pc[p] = "cascading", NEW j \in put[q], j \notin join', j[2] = holder[p] PROVE FALSE
        BY <2>2, <1>1 DEF SharesKey
      <4>1. j \notin join
        BY <2>2, <1>1 DEF Changed
      <4> QED
        BY <4>1, <2>2, <1>7 DEF Apart, SharesKey
    <3> QED
      BY <2>2, <3>1, <3>2, <1>1, <1>3, <1>7 DEF Apart
  <2> QED
    BY <2>1, <2>2
<1> QED
  BY <1>4, <1>5, <1>6, <1>7 DEF Calls

LEMMA InsertRowsStep ==
  ASSUME Inv, NEW r \in Requests, InsertRows(r)
  PROVE  Inv'
<1> USE DEF Inv
<1> DEFINE h == holder[r]
           then == IF h \in Roles THEN "clearAll" ELSE "clearUser"
<1>1. /\ pc[r] = "inserting" /\ Free(r) /\ Linked(r) /\ Commit(r, cut[r], want[r], then)
      /\ writes[r] = want[r] \ put[r]
      /\ deny' = (deny \ (cut[r] \cup want[r])) \cup bars[r]
      /\ row' = IF sets[r] \in States THEN [row EXCEPT ![h] = sets[r]] ELSE row
  BY DEF InsertRows
<1>2. CallOK(r) /\ r \in Calls /\ PutOK(r)
  BY <1>1 DEF Calls, Stages
<1>3. h \in Users \cup Members \cup Roles /\ want[r] \subseteq Of(h)
  BY <1>1, <1>2 DEF CallOK, InTx, Things
<1>0. sets[r] \in States <=> sets[r] \in {"active", "inactive"}
  <2>1. sets[r] \in {"active", "inactive", "renamed", Keep}
    BY DEF TypeOK
  <2> QED
    BY <2>1, CatalogueAssumption DEF States
<1>4. /\ \A x \in Things : row'[x] = row[x] \/ (x = h /\ row'[x] = sets[r] /\ sets[r] \in {"active", "inactive"})
      /\ sets[r] \in States /\ h \in Things => row'[h] = sets[r]
      /\ row' \in [Things -> States] /\ \A x \in Roles : row'[x] # "inactive"
  <2>1. row \in [Things -> States] /\ \A x \in Roles : row[x] # "inactive"
    BY DEF TypeOK
  <2>2. h \in Roles => sets[r] # "inactive"
    BY <1>2 DEF CallOK
  <2>3. CASE sets[r] \in States
    <3>1. row' = [row EXCEPT ![h] = sets[r]]
      BY <2>3, <1>1
    <3> QED
      BY <2>1, <2>2, <2>3, <3>1, <1>0 DEF Things
  <2>4. CASE sets[r] \notin States
    BY <2>1, <2>4, <1>1
  <2> QED
    BY <2>3, <2>4
<1>5. \A x \in Things : Present(x) => Present(x)'
  BY <1>4 DEF Present, TypeOK
<1>6. ASSUME NEW j \in want[r] PROVE Consistent(j)'
  <2>1. j \in Joins /\ j[1] = h
    BY <1>3 DEF Of
  <2>4. Present(j[2])
    BY <1>1, <1>2 DEF Linked, PutOK
  <2>2. Present(j[2])'
    BY <2>1, <2>4, <1>5, JoinEnds DEF Things
  <2>3. h \notin Users => row'[h] \in {"active", "inactive"}
    <3> SUFFICES ASSUME h \notin Users PROVE row'[h] \in {"active", "inactive"}
      OBVIOUS
    <3>0. writes[r] # {}
      BY <1>1, <1>2 DEF CallOK
    <3>1. h \in Things /\ row[h] \in States /\ row[h] # "gone"
      BY <3>0, <1>1, <1>3 DEF Linked, TypeOK, Things
    <3>2. sets[r] \notin States => row[h] # "absent"
      BY <3>1, <1>0, <1>1, <1>2 DEF CallOK, RowOK, Committed
    <3>3. CASE sets[r] \notin States
      BY <3>1, <3>2, <3>3, <1>1 DEF States
    <3>4. CASE sets[r] \in States
      BY <3>1, <3>4, <1>0, <1>4
    <3> QED
      BY <3>3, <3>4
  <2> QED
    BY <2>1, <2>2, <2>3 DEF Consistent, Present
<1>7. join' = (join \ cut[r]) \cup want[r]
  BY <1>1 DEF Commit
<1>8. \A j \in join' : Consistent(j)'
  <2>1. ASSUME NEW j \in join PROVE Consistent(j)'
    <3>1. j \in Joins /\ Consistent(j)
      BY DEF TypeOK
    <3> QED
      BY <3>1, <1>5, JoinEnds DEF Consistent, Things
  <2> QED
    BY <2>1, <1>6, <1>7
<1>9. TypeOK'
  <2>1. deny' \subseteq join' \cap UserPermissionOverride
    BY <1>1, <1>2, <1>7 DEF TypeOK, CallOK
  <2>2. join' \subseteq Joins
    BY <1>7 DEF TypeOK
  <2>3. /\ pc' \in [Requests -> Stages \cup {"idle", "over"}]
        /\ cut' \in [Requests -> SUBSET Joins] /\ since' \in [Requests -> SUBSET Joins]
        /\ writes' \in [Requests -> SUBSET Joins] /\ put' \in [Requests -> SUBSET Joins]
        /\ UNCHANGED <<holder, want, bars, sets>>
    BY <1>1 DEF TypeOK, Commit, Stages, Committed, asked
  <2> QED
    BY <2>1, <2>2, <2>3, <1>4, <1>8 DEF TypeOK
<1>10. RowsMove(r)
  <2>1. ASSUME NEW q \in Requests \ {r}, HoldsIts(q)
        PROVE  row'[holder[q]] \in {row[holder[q]], "active", "inactive"}
    <3>1. holder[q] \in Things
      BY <2>1, HoldersAreThings
    <3> QED
      BY <3>1, <1>4
  <2>2. ASSUME NEW q \in Requests \ {r}, NEW j \in put[q] PROVE Present(j[2])'
    <3>1. j \in Joins /\ Present(j[2])
      BY DEF PutOK, TypeOK
    <3> QED
      BY <3>1, <1>5, JoinEnds DEF Things
  <2> QED
    BY <2>1, <2>2, <1>4 DEF RowsMove
<1>11. want[r] \in SUBSET Joins /\ cut[r] \in SUBSET Joins /\ then \in Committed
       /\ pc[r] \in Stages \ Committed
  BY <1>1 DEF TypeOK, Committed, Stages
<1>12. \A q \in Requests \ {r} : cut[r] \cap join \cap Changed(q) = {}
  BY <1>1 DEF Apart, Changed, Deleted
<1> HIDE DEF Inv, then
<1> QED
  BY <1>1, <1>9, <1>10, <1>11, <1>12, CommitStep

LEMMA EraseRowStep ==
  ASSUME Inv, NEW r \in Requests, EraseRow(r)
  PROVE  Inv'
<1> USE DEF Inv
<1> DEFINE h == holder[r]
           then == IF h \in Members THEN "clearUser" ELSE "clearAll"
<1>1. /\ pc[r] = "cascading" /\ Free(r) /\ Commit(r, Touching(h), {}, then)
      /\ deny' = deny \ Touching(h) /\ row' = [row EXCEPT ![h] = "gone"]
  BY DEF EraseRow
<1>2. h \in Things /\ Present(h)
  BY <1>1, HoldersAreThings DEF HoldsIts, CallOK
<1>3. join' = join \ Touching(h)
  BY <1>1 DEF Commit
<1>4. \A j \in join' : Consistent(j)'
  <2> SUFFICES ASSUME NEW j \in join' PROVE Consistent(j)'
    OBVIOUS
  <2>1. j \in Joins /\ Consistent(j) /\ j[1] # h /\ j[2] # h
    BY <1>3 DEF TypeOK, Touching
  <2> QED
    BY <2>1, <1>1 DEF Consistent, Present, TypeOK
<1>5. TypeOK'
  <2>1. deny' \subseteq join' \cap UserPermissionOverride /\ join' \subseteq Joins
    BY <1>1, <1>3 DEF TypeOK
  <2>2. /\ pc' \in [Requests -> Stages \cup {"idle", "over"}]
        /\ cut' \in [Requests -> SUBSET Joins] /\ since' \in [Requests -> SUBSET Joins]
        /\ writes' \in [Requests -> SUBSET Joins] /\ put' \in [Requests -> SUBSET Joins]
        /\ UNCHANGED <<holder, want, bars, sets>>
    BY <1>1 DEF TypeOK, Commit, Stages, Committed, asked
  <2>3. row' \in [Things -> States] /\ \A x \in Roles : row'[x] # "inactive"
    BY <1>1 DEF TypeOK, States, Things
  <2> QED
    BY <2>1, <2>2, <2>3, <1>4 DEF TypeOK
<1>8. \A q \in Requests \ {r} : Touching(h) \cap join \cap Changed(q) = {}
  BY <1>1 DEF Free, Waits
<1>6. RowsMove(r)
  <2>1. \A q \in Requests \ {r} : HoldsIts(q) => holder[q] # h
    BY <1>1 DEF Apart, HoldsIts
  <2>2. ASSUME NEW q \in Requests \ {r}, NEW j \in put[q] PROVE Present(j[2])'
    <3>1. j \in Joins /\ Present(j[2])
      BY DEF PutOK, TypeOK
    <3>2. j[2] # h
      <4>1. CASE j \in join
        BY <4>1, <3>1, <1>8 DEF Touching, Changed
      <4>2. CASE j \notin join
        BY <4>2, <1>1 DEF Apart, SharesKey
      <4> QED
        BY <4>1, <4>2
    <3> QED
      BY <3>1, <3>2, <1>1, JoinEnds DEF Present, TypeOK, Things
  <2> QED
    BY <2>1, <2>2, <1>1 DEF RowsMove, TypeOK
<1>7. Touching(h) \in SUBSET Joins /\ then \in Committed /\ pc[r] \in Stages \ Committed
  BY <1>1, OfTouches DEF Committed, Stages
<1> HIDE DEF Inv, then
<1> QED
  BY <1>1, <1>5, <1>6, <1>7, <1>8, CommitStep

LEMMA AlterRowStep ==
  ASSUME Inv, NEW r \in Requests, AlterRow(r)
  PROVE  Inv'
<1> USE DEF Inv
<1> DEFINE h == holder[r]
           then == IF h \in Members THEN "clearUser" ELSE "clearAll"
<1>1. /\ pc[r] = "altering" /\ Commit(r, {}, {}, then)
      /\ deny' = deny /\ row' = [row EXCEPT ![h] = sets[r]]
  BY DEF AlterRow
<1>2. h \in Things \ Roles /\ sets[r] \in {"active", "inactive"}
  BY <1>1 DEF Calls, Stages, CallOK, TypeOK
<1>3. join' = join
  BY <1>1 DEF Commit
<1>4. \A j \in join' : Consistent(j)'
  BY <1>1, <1>2, <1>3 DEF Consistent, Present, TypeOK
<1>5. TypeOK'
  <2>1. /\ pc' \in [Requests -> Stages \cup {"idle", "over"}]
        /\ cut' \in [Requests -> SUBSET Joins] /\ since' \in [Requests -> SUBSET Joins]
        /\ writes' \in [Requests -> SUBSET Joins] /\ put' \in [Requests -> SUBSET Joins]
        /\ UNCHANGED <<holder, want, bars, sets>>
    BY <1>1 DEF TypeOK, Commit, Stages, Committed, asked
  <2>2. row' \in [Things -> States] /\ \A x \in Roles : row'[x] # "inactive"
    BY <1>1, <1>2 DEF TypeOK, States
  <2> QED
    BY <2>1, <2>2, <1>1, <1>3, <1>4 DEF TypeOK
<1>6. RowsMove(r)
  <2>1. \A x \in Things : row'[x] = row[x] \/ Present(x)'
    BY <1>1, <1>2 DEF TypeOK, Present
  <2>2. ASSUME NEW q \in Requests \ {r}, HoldsIts(q)
        PROVE  row'[holder[q]] \in {row[holder[q]], "active", "inactive"}
    <3>1. holder[q] \in Things
      BY <2>2, HoldersAreThings
    <3> QED
      BY <3>1, <2>1 DEF Present
  <2>3. ASSUME NEW q \in Requests \ {r}, NEW j \in put[q] PROVE Present(j[2])'
    <3>1. j \in Joins /\ Present(j[2])
      BY DEF PutOK, TypeOK
    <3> QED
      BY <3>1, <2>1, JoinEnds DEF Things, Present
  <2> QED
    BY <2>1, <2>2, <2>3 DEF RowsMove, Present
<1>7. then \in Committed /\ pc[r] \in Stages \ Committed
  BY <1>1 DEF Committed, Stages
<1> HIDE DEF Inv, then
<1> QED
  BY <1>1, <1>5, <1>6, <1>7, CommitStep

LEMMA JoinStep ==
  ASSUME Inv, NEW m \in Members, NEW S \in SUBSET Roles, Join(m, S)
  PROVE  Inv'
<1> USE DEF Inv
<1> DEFINE new == {m} \X S
<1>1. /\ row[m] = "absent" /\ \A x \in S : Present(x)
      /\ join' = join \cup new /\ row' = [row EXCEPT ![m] = "active"]
      /\ since' = [q \in Requests |->
                    IF HasRead(q) THEN since[q] \cup (new \cap Touching(holder[q])) ELSE since[q]]
      /\ UNCHANGED <<deny, pc, holder, want, bars, sets, cut, writes, put>>
  BY DEF Join, asked
<1>2. new \subseteq Of(m) /\ new \subseteq Joins /\ m \in Things \ Roles
  BY NewJoins, OfTouches, CatalogueAssumption DEF Things
<1>3. \A x \in Things : Present(x) => Present(x)'
  BY <1>1, <1>2 DEF Present, TypeOK
<1>4. \A j \in join' : Consistent(j)'
  <2>1. ASSUME NEW j \in join PROVE Consistent(j)'
    <3>1. j \in Joins /\ Consistent(j)
      BY DEF TypeOK
    <3> QED
      BY <3>1, <1>3, JoinEnds DEF Consistent, Things
  <2>2. ASSUME NEW j \in new PROVE Consistent(j)'
    <3>1. j[1] = m /\ j[2] \in S /\ j[2] \in Things
      BY DEF Things
    <3>2. Present(m)'
      BY <1>1, <1>2 DEF Present, TypeOK
    <3> QED
      BY <3>1, <3>2, <1>1, <1>3 DEF Consistent
  <2> QED
    BY <2>1, <2>2, <1>1
<1>5. TypeOK'
  <2>1. row' \in [Things -> States] /\ \A x \in Roles : row'[x] # "inactive"
    BY <1>1, <1>2 DEF TypeOK, States
  <2>2. since' \in [Requests -> SUBSET Joins] /\ join' \subseteq Joins /\ deny' \subseteq join'
    BY <1>1, <1>2 DEF TypeOK
  <2> QED
    BY <2>1, <2>2, <1>1, <1>4 DEF TypeOK
<1>6. ASSUME NEW q \in Calls' PROVE CallOK(q)'
  <2>1. q \in Calls /\ CallOK(q)
    BY <1>1 DEF Calls
  <2> QED
    BY <2>1, <1>1 DEF CallOK, RowOK, InTx, HoldsLock, Locks, TypeOK, Present
<1>7. ASSUME NEW q \in Requests PROVE PutOK(q)'
  <2>1. \A j \in put[q] : j \in Joins /\ Present(j[2])
    BY DEF PutOK, TypeOK
  <2>2. \A j \in put[q] : Present(j[2])'
    BY <2>1, <1>3, JoinEnds DEF Things
  <2> QED
    BY <2>2, <1>1 DEF PutOK
<1>8. ASSUME NEW q \in Requests PROVE ReadOK(q)' /\ CountOK(q)'
  <2>1. join' = (join \ {}) \cup new
    BY <1>1
  <2>2. cut'[q] = IF pc[q] = "deleting" THEN cut[q] \ {} ELSE cut[q]
    BY <1>1
  <2> QED
    BY <2>1, <2>2, <1>1, <1>2, OthersLearn
<1>9. ASSUME NEW q \in Requests, NEW p \in Requests, q # p PROVE Apart(q, p)'
  <2>1. /\ HoldsIts(q)' <=> HoldsIts(q)
        /\ HoldsIts(p)' <=> HoldsIts(p)
        /\ Changed(q)' = Changed(q) /\ Changed(p)' = Changed(p)
    BY <1>1 DEF HoldsIts, HoldsLock, Locks, Changed, Deleted
  <2>2. /\ SharesKey(p, holder[q])' => SharesKey(p, holder[q])
        /\ SharesKey(q, holder[p])' => SharesKey(q, holder[p])
    BY <1>1 DEF SharesKey
  <2> QED
    BY <2>1, <2>2, <1>1, <1>9 DEF Apart
<1> QED
  BY <1>5, <1>6, <1>7, <1>8, <1>9 DEF Calls

-----------------------------------------------------------------------------
\* The theorems

LEMMA InvNext == Inv /\ [Next]_vars => Inv'
<1> SUFFICES ASSUME Inv, [Next]_vars PROVE Inv'
  OBVIOUS
<1>1. ASSUME NEW r \in Requests, Begin(r) PROVE Inv'
  BY <1>1, BeginStep
<1>2. ASSUME NEW r \in Requests, Write(r) PROVE Inv'
  BY <1>2, SelectRowsStep, DeleteRowsStep, UpsertRowStep, InsertRowsStep, DeleteThingStep,
     EraseRowStep, AlterRowStep, EndStep
  DEF Write, Refused, Deadlocked
<1>3. ASSUME NEW r \in Requests, Answer(r) \/ Abort(r) PROVE Inv'
  BY <1>3, EndStep DEF Answer, Abort
<1>4. ASSUME NEW m \in Members, NEW S \in SUBSET Roles, Join(m, S) PROVE Inv'
  BY <1>4, JoinStep
<1>5. CASE UNCHANGED vars
  <2>1. UNCHANGED rows /\ \A q \in Requests : SameCall(q)
    BY <1>5 DEF vars, SameCall, rows, asked
  <2>2. TypeOK'
    BY <1>5 DEF vars, Inv, TypeOK, Consistent, Present, asked
  <2>3. \A q \in Requests : /\ q \in Calls' => CallOK(q)'
                            /\ PutOK(q)' /\ ReadOK(q)' /\ CountOK(q)'
    BY <2>1, OthersKeep
  <2>4. \A q, p \in Requests : q # p => Apart(q, p)'
    BY <2>1, OthersApart
  <2>5. \A q \in Calls' : q \in Requests
    BY DEF Calls
  <2> QED
    BY <2>2, <2>3, <2>4, <2>5 DEF Inv
<1> QED
  BY <1>1, <1>2, <1>3, <1>4, <1>5 DEF Next, Continue

LEMMA InvHolds == Spec => []Inv
BY InvInit, InvNext, PTL DEF Spec

\* A call is past its last statement by that statement alone.
LEMMA OnlyItsStatement ==
  ASSUME Inv, [Next]_vars, NEW r \in Requests, pc[r] \notin Committed, pc'[r] \in Committed
  PROVE  InsertRows(r) \/ EraseRow(r) \/ AlterRow(r)
<1> USE DEF Inv, TypeOK
<1>1. ASSUME NEW q \in Requests, Begin(q) PROVE FALSE
  <2>1. ASSUME NEW h, NEW to, NEW w, NEW b, NEW s, NEW c, to \notin Committed,
               Start(q, h, to, w, b, s, c)
        PROVE  FALSE
    BY <2>1 DEF Start
  <2>2. "begin" \notin Committed /\ "inserting" \notin Committed /\ "erasing" \notin Committed
        /\ "altering" \notin Committed
    BY DEF Committed
  <2> HIDE DEF Inv, TypeOK
  <2> QED
    BY <1>1, <2>1, <2>2
    DEF Begin, UpdateMember, UpdateMemberStatus, RemoveMember, CreateRole, UpdateRole, DeleteRole,
        CreatePermission, UpdatePermission, DeletePermission, BulkUpdate
<1>2. ASSUME NEW q \in Requests, End(q) PROVE FALSE
  BY <1>2 DEF End, Committed
<1>3. ASSUME NEW q \in Requests, SelectRows(q) \/ DeleteRows(q) \/ UpsertRow(q) \/ DeleteThing(q)
      PROVE  FALSE
  BY <1>3 DEF SelectRows, DeleteRows, UpsertRow, DeleteThing, Goes, Committed
<1>4. ASSUME NEW q \in Requests, InsertRows(q) \/ EraseRow(q) \/ AlterRow(q) PROVE q = r
  BY <1>4 DEF InsertRows, EraseRow, AlterRow, Commit
<1>5. ASSUME NEW m \in Members, NEW S \in SUBSET Roles, Join(m, S) PROVE FALSE
  BY <1>5 DEF Join
<1>6. CASE UNCHANGED vars
  BY <1>6 DEF vars
<1> HIDE DEF Inv, TypeOK
<1>7. ASSUME NEW q \in Requests, Write(q) \/ Answer(q) \/ Abort(q)
      PROVE  q = r /\ (InsertRows(r) \/ EraseRow(r) \/ AlterRow(r))
  BY <1>7, <1>2, <1>3, <1>4 DEF Write, Refused, Deadlocked, Answer, Abort
<1> QED
  BY <1>1, <1>5, <1>6, <1>7 DEF Next, Continue

\* The bodies of the two action properties.
ReplacesWholly == \A r \in Requests :
  Inserts(r) => want[r] \subseteq Held(r) /\ Held(r) \subseteq want[r] \cup since[r]
LosesLateOnes == \A r \in Requests : Erases(r) => AssignedTo(holder[r]) \subseteq since[r]

LEMMA StepsAreRight ==
  ASSUME Inv, [Next]_vars
  PROVE  ReplacesWholly /\ LosesLateOnes
<1>1. ASSUME NEW r \in Requests, Inserts(r)
      PROVE  want[r] \subseteq Held(r) /\ Held(r) \subseteq want[r] \cup since[r]
  <2>1. pc[r] = "inserting" /\ pc'[r] \in Committed /\ pc[r] \notin Committed
    BY <1>1 DEF Inserts, Committed
  <2>2. InsertRows(r)
    BY <2>1, OnlyItsStatement DEF EraseRow, AlterRow
  <2>3. join' = (join \ cut[r]) \cup want[r]
    BY <2>2 DEF InsertRows, Commit
  <2>4. want[r] \subseteq Of(holder[r])
    BY <2>1 DEF Inv, Calls, Stages, CallOK
  <2>5. join \cap Of(holder[r]) \subseteq cut[r] \cup want[r] \cup since[r]
    BY <2>1 DEF Inv, ReadOK, HasRead
  <2> QED
    BY <2>3, <2>4, <2>5 DEF Held
<1>2. ASSUME NEW r \in Requests, Erases(r) PROVE AssignedTo(holder[r]) \subseteq since[r]
  BY <1>2 DEF Erases, Inv, CountOK
<1> QED
  BY <1>1, <1>2 DEF ReplacesWholly, LosesLateOnes

\* The foreign keys of the three tables hold, whatever overlaps and whatever fails.
THEOREM ForeignKeysHold == Spec => []TypeOK
BY InvHolds, PTL DEF Inv

\* A call that replaces joins leaves what it was asked for, and beyond that only what
\* others committed after it had read, with any number of calls overlapping.
THEOREM CallsReplaceWholly == Spec => ReplacedWholly
<1>1. Inv /\ [Next]_vars => [ReplacesWholly]_vars
  BY StepsAreRight
<1> QED
  BY <1>1, InvHolds, PTL DEF Spec, ReplacedWholly, ReplacesWholly

\* A deletion takes from its neighbours only what was committed after it had counted.
THEOREM DeletionsLoseLateAssignments == Spec => OnlyLateAssignmentsAreLost
<1>1. Inv /\ [Next]_vars => [LosesLateOnes]_vars
  BY StepsAreRight
<1> QED
  BY <1>1, InvHolds, PTL DEF Spec, OnlyLateAssignmentsAreLost, LosesLateOnes

-----------------------------------------------------------------------------
\* The tables change as AccessTables has them change.

\* What a call was allowed to begin with, still true of it when it commits.
AskOK(r) ==
  /\ pc[r] \in {"erasing", "cascading"} =>
       /\ holder[r] \notin SystemRoles
       /\ holder[r] \in Members => UserOf[holder[r]] # Owner
  /\ holder[r] \in Members /\ UserOf[holder[r]] = Owner => sets[r] # "inactive"
  /\ holder[r] \in Roles /\ row[holder[r]] = "absent" => holder[r] \notin SystemRoles
  /\ pc[r] = "altering" /\ holder[r] \in Permissions /\ row[holder[r]] = "absent"
       => sets[r] = "active"

AskInv == \A r \in Calls : AskOK(r)

LEMMA AskStart ==
  ASSUME Inv, AskInv, NEW r \in Requests, NEW h, NEW to, NEW w, NEW b, NEW s, NEW c,
         Start(r, h, to, w, b, s, c),
         to # "cascading", to = "erasing" => h \notin SystemRoles /\ (h \in Members => UserOf[h] # Owner),
         h \in Members /\ UserOf[h] = Owner => s # "inactive",
         h \in Roles /\ row[h] = "absent" => h \notin SystemRoles,
         to = "altering" /\ h \in Permissions /\ row[h] = "absent" => s = "active"
  PROVE  AskInv'
<1>1. /\ pc'[r] = to /\ holder'[r] = h /\ sets'[r] = s /\ row' = row
      /\ \A q \in Requests \ {r} : pc'[q] = pc[q] /\ holder'[q] = holder[q] /\ sets'[q] = sets[q]
  BY DEF Start, rows, Inv, TypeOK
<1>2. AskOK(r)'
  BY <1>1 DEF AskOK
<1>3. \A q \in Calls' \ {r} : q \in Calls /\ AskOK(q)'
  BY <1>1 DEF AskInv, AskOK, Calls
<1> QED
  BY <1>2, <1>3 DEF AskInv

LEMMA AskBegin ==
  ASSUME Inv, AskInv, NEW r \in Requests, Begin(r)
  PROVE  AskInv'
<1>0. /\ \A x \in Permissions : x \notin Members /\ x \notin SystemRoles
      /\ \A x \in Roles : x \in Things /\ x \notin Members /\ x \notin Permissions
      /\ \A m \in Members : m \notin Roles /\ m \notin SystemRoles /\ m \notin Permissions
      /\ \A u \in Users : u \notin Members \cup Roles \cup SystemRoles \cup Permissions
      /\ Keep # "active" /\ Keep # "inactive"
  BY CatalogueAssumption DEF Things
<1>5. \A x \in Things : Present(x) => row[x] # "absent"
  BY DEF Present
<1>1. ASSUME NEW m \in Members, NEW st \in {"active", "inactive", Keep}, NEW S \in SUBSET Roles,
             UpdateMember(r, m, S, st) \/ UpdateMemberStatus(r, m, st) \/ RemoveMember(r, m)
      PROVE  AskInv'
  BY <1>0, <1>1, AskStart DEF UpdateMember, UpdateMemberStatus, RemoveMember
<1>2. ASSUME NEW x \in Roles, NEW P \in SUBSET Permissions,
             NEW st \in {"active", "renamed", Keep},
             CreateRole(r, x, P) \/ UpdateRole(r, x, P, st) \/ DeleteRole(r, x)
      PROVE  AskInv'
  BY <1>0, <1>5, <1>2, AskStart DEF CreateRole, UpdateRole, DeleteRole
<1>3. ASSUME NEW p \in Permissions, NEW st \in {"active", "inactive", Keep},
             CreatePermission(r, p) \/ UpdatePermission(r, p, st) \/ DeletePermission(r, p)
      PROVE  AskInv'
  BY <1>0, <1>3, AskStart DEF CreatePermission, UpdatePermission, DeletePermission, Present
<1>4. ASSUME NEW u \in Users, NEW P \in SUBSET Permissions, NEW D \in SUBSET P,
             BulkUpdate(r, u, P, D)
      PROVE  AskInv'
  BY <1>0, <1>4, AskStart DEF BulkUpdate
<1> QED
  BY <1>1, <1>2, <1>3, <1>4 DEF Begin

LEMMA AskKept ==
  ASSUME AskInv,
         \A q \in Calls' : /\ q \in Calls
                           /\ \/ pc'[q] = pc[q] \/ pc'[q] \notin {"erasing", "cascading", "altering"}
                              \/ pc[q] = "erasing" /\ pc'[q] = "cascading"
                           /\ holder'[q] = holder[q] /\ sets'[q] = sets[q],
         \A x \in Things : row'[x] = "absent" => row[x] = "absent"
  PROVE  AskInv'
BY DEF AskInv, AskOK, Things

LEMMA AskNext == Inv /\ AskInv /\ [Next]_vars => AskInv'
<1> SUFFICES ASSUME Inv, AskInv, [Next]_vars PROVE AskInv'
  OBVIOUS
<1>1. ASSUME NEW r \in Requests, Begin(r) PROVE AskInv'
  BY <1>1, AskBegin
<1>2. ASSUME NEW r \in Requests, End(r) PROVE AskInv'
  BY AskKept, <1>2 DEF End, rows, Inv, TypeOK, Calls, Stages, Committed
<1>3. ASSUME NEW r \in Requests, SelectRows(r) \/ DeleteRows(r) \/ UpsertRow(r) \/ DeleteThing(r)
      PROVE  AskInv'
  BY AskKept, <1>3
  DEF SelectRows, DeleteRows, UpsertRow, DeleteThing, Goes, rows, asked, Inv, TypeOK, Calls, Stages
<1>4. ASSUME NEW r \in Requests, InsertRows(r) \/ EraseRow(r) \/ AlterRow(r) PROVE AskInv'
  <2>1. /\ holder' = holder /\ sets' = sets /\ pc'[r] \in Committed
        /\ \A q \in Requests \ {r} : pc'[q] = pc[q]
    BY <1>4 DEF InsertRows, EraseRow, AlterRow, Commit, asked, Committed, Inv, TypeOK
  <2>2. sets[r] # "absent" /\ r \in Calls
    BY <1>4, CatalogueAssumption
    DEF InsertRows, EraseRow, AlterRow, Inv, TypeOK, Calls, Stages
  <2>3. \A x \in Things : row'[x] = "absent" => row[x] = "absent"
    BY <1>4, <2>2 DEF InsertRows, EraseRow, AlterRow, Inv, TypeOK
  <2>4. \A q \in Calls' : /\ q \in Calls
                          /\ pc'[q] = pc[q] \/ pc'[q] \notin {"erasing", "cascading", "altering"}
                          /\ holder'[q] = holder[q] /\ sets'[q] = sets[q]
    BY <2>1, <2>2 DEF Committed, Calls
  <2> QED
    BY AskKept, <2>3, <2>4
<1>5. ASSUME NEW m \in Members, NEW S \in SUBSET Roles, Join(m, S) PROVE AskInv'
  BY AskKept, <1>5 DEF Join, asked, Inv, TypeOK, Calls
<1>6. CASE UNCHANGED vars
  BY AskKept, <1>6 DEF vars, asked, Calls
<1> QED
  BY <1>1, <1>2, <1>3, <1>4, <1>5, <1>6
  DEF Next, Continue, Write, Refused, Deadlocked, Answer, Abort

LEMMA AskHolds == Spec => [](Inv /\ AskInv)
<1>1. Init => AskInv
  BY DEF Init, AskInv, Calls, Stages, Committed
<1> QED
  BY <1>1, AskNext, InvHolds, PTL DEF Spec

\* The state functions of AccessTables are those of Catalogue.
LEMMA SameTables ==
  /\ Tables!Things = Things /\ Tables!Joins = Joins
  /\ \A h : Tables!Of(h) = Of(h)
  /\ \A x : Tables!Present(x) <=> Present(x)
BY DEF Tables!Things, Things, Tables!Joins, Joins, MemberRole, RolePermission,
       UserPermissionOverride, Tables!Of, Of, Tables!Present, Present

LEMMA TablesInit == Init => Tables!Init
<1> SUFFICES ASSUME Init PROVE Tables!Init
  OBVIOUS
<1>1. \A j \in join : Present(j[2]) /\ (j[1] \in Things => Present(j[1]))
  BY CatalogueAssumption DEF Init, Consistent
<1>2. \A j \in deny : j[1] \in Users
  BY JoinEnds DEF Init, UserPermissionOverride
<1> QED
  BY <1>1, <1>2, SameTables DEF Init, Tables!Init, States

\* The statement that replaces the joins of a holder.
LEMMA InsertChanges ==
  ASSUME Inv, AskInv, NEW r \in Requests, InsertRows(r)
  PROVE  Tables!Next \/ UNCHANGED rows
<1> DEFINE h == holder[r]
           W == want[r]
           B == bars[r]
<1>1. /\ join' = (join \ cut[r]) \cup W
      /\ deny' = (deny \ (cut[r] \cup W)) \cup B
      /\ row' = IF sets[r] \in States THEN [row EXCEPT ![h] = sets[r]] ELSE row
      /\ pc[r] = "inserting" /\ Linked(r) /\ writes[r] = W \ put[r]
  BY DEF InsertRows, Commit
<1>2. r \in Calls /\ CallOK(r) /\ AskOK(r)
  BY <1>1 DEF Inv, AskInv, Calls, Stages
<1>0. h \notin Users => writes[r] = W
  BY <1>1, <1>2 DEF CallOK
<1>3. /\ W \subseteq Of(h) /\ B \subseteq W /\ cut[r] \subseteq Of(h)
      /\ h \in Users \cup Members \cup Roles
  BY <1>1, <1>2 DEF CallOK, InTx, Things
<1>4. Tables!Given(h, W, B)
  <2>1. \A j \in W : Present(j[2])
    BY <1>1 DEF Linked, Inv, PutOK
  <2>2. W \subseteq join' /\ join' \subseteq join \cup W /\ join \ Of(h) \subseteq join'
    BY <1>1, <1>3
  <2>3. deny' = B \cup (deny \cap (join' \ W))
    BY <1>1, <1>3 DEF Inv, TypeOK
  <2> QED
    BY <2>1, <2>2, <2>3, SameTables DEF Tables!Given
<1>5. /\ B \subseteq UserPermissionOverride
      /\ sets[r] \in {"active", "inactive", "renamed", Keep}
      /\ Keep \notin States /\ "renamed" \notin States
  BY CatalogueAssumption DEF Inv, TypeOK, States
<1>6. CASE h \in Users
  <2>1. UNCHANGED row
    BY <1>1, <1>2, <1>5, <1>6 DEF CallOK
  <2>2. Tables!ReplaceOverrides(h)
    BY <2>1, <1>3, <1>4, SameTables DEF Tables!ReplaceOverrides
  <2> QED
    BY <2>2, <1>6 DEF Tables!Next
<1>7. h \notin Users => B = {} /\ h \in Things /\ row[h] \in States
  <2>1. ASSUME h \notin Users, NEW j \in B PROVE FALSE
    BY <2>1, <1>3, <1>5, JoinEnds DEF Of
  <2> QED
    BY <2>1, <1>3 DEF Things, Inv, TypeOK
\* Its holder is gone: there is nothing to insert, and nothing left to delete.
<1>8. CASE h \notin Users /\ row[h] = "gone"
  <2>1. W = {}
    BY <1>8, <1>0, <1>1 DEF Linked
  <2>2. sets[r] = Keep
    BY <1>8, <1>1, <1>2 DEF CallOK, HoldsLock, Locks
  <2>3. join \cap Of(h) = {}
    BY <1>7, <1>8, AbsentIsUnjoined, OfTouches DEF Inv, Present
  <2>4. join' = join /\ deny' = deny
    BY <1>1, <1>3, <2>1, <2>3 DEF Inv, TypeOK
  <2> QED
    BY <1>1, <1>5, <2>2, <2>4 DEF rows
<1>9. CASE h \in Members /\ row[h] # "gone"
  <2>0. h \notin Users \cup Roles
    BY <1>9, CatalogueAssumption DEF Things
  <2>1. Present(h)
    BY <1>1, <1>2, <1>7, <1>9, <2>0 DEF CallOK, RowOK, Committed, Present, States
  <2>2. \/ UNCHANGED row
        \/ Tables!Becomes(h, "active")
        \/ ~Tables!OwnersMembership(h) /\ Tables!Becomes(h, "inactive")
    BY <1>1, <1>2, <1>5, <1>9 DEF AskOK, Tables!Becomes, Tables!OwnersMembership
  <2>3. Tables!ReplaceRoles(h)
    BY <1>3, <1>4, <1>7, <2>0, <2>1, <2>2, SameTables DEF Tables!ReplaceRoles
  <2> QED
    BY <2>3, <1>9 DEF Tables!Next
<1>10. CASE h \in Roles /\ row[h] # "gone"
  <2>0. h \notin Users
    BY <1>10, CatalogueAssumption DEF Things
  <2>1. row[h] \in {"absent", "active"}
    BY <1>7, <1>10, <2>0 DEF States, Inv, TypeOK
  <2>2. sets[r] \in {"active", "renamed", Keep}
    BY <1>2, <1>5, <1>10 DEF CallOK
  <2>4. \/ Present(h) /\ UNCHANGED row
        \/ row[h] = "absent" /\ h \notin SystemRoles /\ Tables!Becomes(h, "active")
    <3>1. CASE row[h] = "active"
      BY <3>1, <2>2, <1>1, <1>5, <1>7, <2>0 DEF Present, Inv, TypeOK
    <3>2. CASE row[h] = "absent"
      <4>1. sets[r] = "active"
        BY <3>2, <1>1, <1>2, <1>7, <2>0 DEF CallOK, RowOK, Committed
      <4>2. "active" \in States
        BY DEF States
      <4> QED
        BY <3>2, <4>1, <4>2, <1>1, <1>2, <1>10 DEF AskOK, Tables!Becomes
    <3> QED
      BY <2>1, <3>1, <3>2
  <2>5. Tables!ReplacePermissions(h)
    BY <1>3, <1>4, <1>7, <2>0, <2>4, SameTables DEF Tables!ReplacePermissions
  <2> QED
    BY <2>5, <1>10 DEF Tables!Next
<1> QED
  BY <1>3, <1>6, <1>8, <1>9, <1>10

LEMMA EraseChanges ==
  ASSUME Inv, AskInv, NEW r \in Requests, EraseRow(r)
  PROVE  Tables!Next
<1> DEFINE h == holder[r]
<1>1. /\ pc[r] = "cascading" /\ join' = join \ Touching(h)
      /\ deny' = deny \ Touching(h) /\ row' = [row EXCEPT ![h] = "gone"]
  BY DEF EraseRow, Commit
<1>2. h \in Things /\ Present(h) /\ h \notin SystemRoles /\ (h \in Members => UserOf[h] # Owner)
  <2>1. r \in Calls /\ CallOK(r) /\ h \in Things
    BY <1>1, HoldersAreThings DEF HoldsIts
  <2>2. AskOK(r)
    BY <2>1 DEF AskInv
  <2> QED
    BY <1>1, <2>1, <2>2 DEF AskOK, CallOK
<1>3. join' = {j \in join : h \notin {j[1], j[2]}} /\ deny' = deny \cap join'
  BY <1>1 DEF Inv, TypeOK, Touching
<1>4. Tables!Erase(h)
  BY <1>1, <1>2, <1>3, SameTables DEF Tables!Erase, Tables!OwnersMembership, Tables!Becomes
<1> QED
  BY <1>2, <1>4, SameTables DEF Tables!Next

LEMMA AlterChanges ==
  ASSUME Inv, AskInv, NEW r \in Requests, AlterRow(r)
  PROVE  Tables!Next
<1> DEFINE h == holder[r]
<1>1. /\ pc[r] = "altering" /\ row[h] # "gone"
      /\ join' = join /\ deny' = deny /\ row' = [row EXCEPT ![h] = sets[r]]
  BY DEF AlterRow, Commit
<1>2. r \in Calls /\ CallOK(r) /\ AskOK(r)
  BY <1>1 DEF Inv, AskInv, Calls, Stages
<1>3. h \in Members \cup Permissions /\ row[h] \in States /\ sets[r] \in {"active", "inactive"}
  BY <1>1, <1>2, CatalogueAssumption DEF CallOK, Things, Inv, TypeOK
<1>4. h \in Permissions => h \notin Members
  BY CatalogueAssumption
<1>5. CASE Present(h)
  BY <1>1, <1>2, <1>3, <1>4, <1>5, SameTables
  DEF AskOK, Tables!Alter, Tables!Becomes, Tables!OwnersMembership, Tables!Next
<1>6. CASE ~Present(h)
  <2>1. row[h] = "absent"
    BY <1>1, <1>3, <1>6 DEF Present, States
  <2>2. h \in Permissions
    BY <1>1, <1>2, <1>3, <2>1, CatalogueAssumption DEF CallOK, RowOK, Committed, Things
  <2>3. sets[r] = "active"
    BY <1>1, <1>2, <2>1, <2>2 DEF AskOK
  <2> QED
    BY <1>1, <1>3, <2>1, <2>2, <2>3 DEF Tables!Alter, Tables!Becomes, Tables!Next
<1> QED
  BY <1>5, <1>6

LEMMA JoinChanges ==
  ASSUME Inv, NEW m \in Members, NEW S \in SUBSET Roles, Join(m, S)
  PROVE  Tables!Next
<1> DEFINE W == {m} \X S
<1>1. W \subseteq Of(m) /\ \A j \in W : Present(j[2])
  BY NewJoins DEF Join
<1>2. Tables!Enroll(m)
  BY <1>1, SameTables DEF Join, Tables!Enroll, Tables!Becomes
<1> QED
  BY <1>2 DEF Tables!Next

LEMMA TablesNext == Inv /\ AskInv /\ [Next]_vars => [Tables!Next]_Tables!tables
<1> SUFFICES ASSUME Inv, AskInv, [Next]_vars PROVE Tables!Next \/ UNCHANGED rows
  BY DEF Tables!tables, rows
<1>1. ASSUME NEW r \in Requests, Begin(r) PROVE UNCHANGED rows
  <2>1. \A h, to, w, b, s, c : Start(r, h, to, w, b, s, c) => UNCHANGED rows
    BY DEF Start
  <2> QED
    BY <1>1, <2>1
    DEF Begin, UpdateMember, UpdateMemberStatus, RemoveMember, CreateRole, UpdateRole, DeleteRole,
        CreatePermission, UpdatePermission, DeletePermission, BulkUpdate
<1>2. ASSUME NEW r \in Requests, Write(r) \/ Answer(r) \/ Abort(r)
      PROVE  Tables!Next \/ UNCHANGED rows
  <2>1. End(r) \/ SelectRows(r) \/ DeleteRows(r) \/ UpsertRow(r) \/ DeleteThing(r) => UNCHANGED rows
    BY DEF End, SelectRows, DeleteRows, UpsertRow, DeleteThing
  <2> QED
    BY <1>2, <2>1, InsertChanges, EraseChanges, AlterChanges
    DEF Write, Refused, Deadlocked, Answer, Abort
<1>3. ASSUME NEW m \in Members, NEW S \in SUBSET Roles, Join(m, S) PROVE Tables!Next
  BY <1>3, JoinChanges
<1>4. CASE UNCHANGED vars
  BY <1>4 DEF vars, rows
<1> QED
  BY <1>1, <1>2, <1>3, <1>4 DEF Next, Continue

\* The tables implement AccessTables, for any number of overlapping, failing and
\* stopped calls: what a call commits changes the joins of its own holder alone, leaves
\* it with what was asked for and brings nothing back, and the rules about system roles,
\* the owner and the one membership of a user hold where it commits.
THEOREM CatalogueImplementsAccessTables == Spec => ImplementsAccessTables
BY AskHolds, TablesInit, TablesNext, PTL DEF Spec, ImplementsAccessTables, Tables!Spec

-----------------------------------------------------------------------------
\* Circles of waits

\* The rows a transaction has selected are there; and of two selections of the joins of one holder, made one after
\* the other, the later holds what is left of the earlier.
SelectionsLive == \A r \in Requests : InTx(r) => cut[r] \subseteq join
SelectionsNest ==
  \A r, q \in Requests : InTx(r) /\ InTx(q) /\ holder[r] = holder[q] /\ holder[r] \notin Users
                          => cut[r] \subseteq cut[q] \/ cut[q] \subseteq cut[r]

CutInv == SelectionsLive /\ SelectionsNest

\* What is left unchanged, or ended, or begun with nothing selected, disturbs nothing.
LEMMA CutKept ==
  ASSUME CutInv, join \subseteq join',
         \A q \in Requests : InTx(q)' => /\ InTx(q) /\ pc'[q] = pc[q]
                                         /\ cut'[q] = cut[q] /\ holder'[q] = holder[q]
  PROVE  CutInv'
BY DEF CutInv, SelectionsLive, SelectionsNest

LEMMA CutStart ==
  ASSUME CutInv, Inv, NEW r \in Requests, NEW h, NEW to, NEW w, NEW b, NEW s, NEW c,
         Start(r, h, to, w, b, s, c), to \notin {"deleting", "inserting"} \/ c = {}
  PROVE  CutInv'
<1>1. /\ pc'[r] = to /\ cut'[r] = c /\ holder'[r] = h /\ join' = join
      /\ \A q \in Requests \ {r} : pc'[q] = pc[q] /\ cut'[q] = cut[q] /\ holder'[q] = holder[q]
  BY DEF Start, rows, Inv, TypeOK
<1>2. InTx(r)' => cut'[r] = {}
  BY <1>1 DEF InTx
<1>3. \A q \in Requests \ {r} : InTx(q)' <=> InTx(q)
  BY <1>1 DEF InTx
<1>4. SelectionsLive'
  BY <1>1, <1>2, <1>3 DEF CutInv, SelectionsLive
<1>5. SelectionsNest'
  BY <1>1, <1>2, <1>3 DEF CutInv, SelectionsNest
<1> QED
  BY <1>4, <1>5 DEF CutInv

LEMMA CutSelect ==
  ASSUME CutInv, Inv, NEW r \in Requests, SelectRows(r)
  PROVE  CutInv'
<1> DEFINE c == IF holder[r] \in Users THEN cut[r] \cap join ELSE join \cap Of(holder[r])
<1>1. /\ pc[r] = "begin" /\ pc'[r] = "deleting" /\ cut'[r] = c /\ join' = join /\ holder' = holder
      /\ \A q \in Requests \ {r} : pc'[q] = pc[q] /\ cut'[q] = cut[q]
  BY DEF SelectRows, Goes, rows, asked, Inv, TypeOK
<1>2. \A q \in Requests \ {r} : InTx(q)' <=> InTx(q)
  BY <1>1 DEF InTx
<1>5. SelectionsLive'
  BY <1>1, <1>2 DEF CutInv, SelectionsLive
<1>6. ASSUME NEW q \in Requests \ {r}, InTx(q), holder[q] = holder[r], holder[r] \notin Users
      PROVE  cut[q] \subseteq c
  <2>1. cut[q] \subseteq join
    BY <1>6 DEF CutInv, SelectionsLive
  <2>2. cut[q] \subseteq Of(holder[q])
    BY <1>6 DEF Inv, Calls, Stages, InTx, CallOK
  <2> QED
    BY <1>6, <2>1, <2>2
<1>7. SelectionsNest'
  BY <1>1, <1>2, <1>6 DEF CutInv, SelectionsNest
<1> QED
  BY <1>5, <1>7 DEF CutInv

LEMMA CutDelete ==
  ASSUME CutInv, Inv, NEW r \in Requests, DeleteRows(r)
  PROVE  CutInv'
<1>1. /\ pc[r] = "deleting" /\ pc'[r] = "inserting"
      /\ cut' = cut /\ join' = join /\ holder' = holder
      /\ \A q \in Requests \ {r} : pc'[q] = pc[q]
  BY DEF DeleteRows, Goes, rows, asked, Inv, TypeOK
<1>2. \A q \in Requests : InTx(q)' <=> InTx(q)
  BY <1>1 DEF InTx
<1> QED
  BY <1>1, <1>2 DEF CutInv, SelectionsLive, SelectionsNest

LEMMA CutCommit ==
  ASSUME CutInv, Inv, NEW r \in Requests, NEW gone, NEW new, NEW then \in Committed,
         Commit(r, gone, new, then),
         \A q \in Requests \ {r} : gone \cap join \cap Deleted(q) = {}
  PROVE  CutInv'
<1>1. /\ pc'[r] = then /\ join' = (join \ gone) \cup new /\ holder' = holder
      /\ \A q \in Requests \ {r} :
           /\ pc'[q] = pc[q]
           /\ cut'[q] = IF pc[q] = "deleting" THEN cut[q] \ gone ELSE cut[q]
  BY DEF Commit, asked, Inv, TypeOK
<1>2. ~InTx(r)'
  BY <1>1 DEF InTx, Committed
<1>3. \A q \in Requests \ {r} : InTx(q)' <=> InTx(q)
  BY <1>1 DEF InTx
<1>4. \A q \in Requests \ {r} : InTx(q) => cut'[q] = cut[q] \ gone
  BY <1>1 DEF InTx, Deleted, CutInv, SelectionsLive
<1>6. SelectionsLive'
  <2> SUFFICES ASSUME NEW q \in Requests, InTx(q)' PROVE cut'[q] \subseteq join'
    BY DEF SelectionsLive
  <2>1. cut[q] \subseteq join /\ cut'[q] = cut[q] \ gone
    BY <1>2, <1>3, <1>4 DEF CutInv, SelectionsLive
  <2> QED
    BY <2>1, <1>1
<1>7. SelectionsNest'
  <2> SUFFICES ASSUME NEW p \in Requests, NEW q \in Requests, InTx(p)', InTx(q)',
                      holder[p] = holder[q], holder[p] \notin Users
               PROVE  cut'[p] \subseteq cut'[q] \/ cut'[q] \subseteq cut'[p]
    BY <1>1 DEF SelectionsNest
  <2>1. cut'[p] = cut[p] \ gone /\ cut'[q] = cut[q] \ gone /\ InTx(p) /\ InTx(q)
    BY <1>2, <1>3, <1>4
  <2>2. cut[p] \subseteq cut[q] \/ cut[q] \subseteq cut[p]
    BY <2>1 DEF CutInv, SelectionsNest
  <2> QED
    BY <2>1, <2>2
<1> QED
  BY <1>6, <1>7 DEF CutInv

LEMMA CutNext == Inv /\ CutInv /\ [Next]_vars => CutInv'
<1> SUFFICES ASSUME Inv, CutInv, [Next]_vars PROVE CutInv'
  OBVIOUS
<1>1. ASSUME NEW r \in Requests, Begin(r) PROVE CutInv'
  BY <1>1, CutStart
  DEF Begin, UpdateMember, UpdateMemberStatus, RemoveMember, CreateRole, UpdateRole, DeleteRole,
      CreatePermission, UpdatePermission, DeletePermission, BulkUpdate
<1>2. ASSUME NEW r \in Requests, End(r) PROVE CutInv'
  <2>1. /\ pc'[r] = "over" /\ join' = join
        /\ \A q \in Requests \ {r} : pc'[q] = pc[q] /\ cut'[q] = cut[q] /\ holder'[q] = holder[q]
    BY <1>2 DEF End, rows, Inv, TypeOK
  <2> QED
    BY <2>1, CutKept DEF InTx
<1>3. ASSUME NEW r \in Requests, InsertRows(r) PROVE CutInv'
  <2>1. PICK then \in Committed : Commit(r, cut[r], want[r], then)
    BY <1>3 DEF InsertRows, Committed
  <2>2. \A q \in Requests \ {r} : cut[r] \cap join \cap Deleted(q) = {}
    BY <1>3 DEF InsertRows, Deleted, Changed, Inv, Apart
  <2> QED
    BY <2>1, <2>2, CutCommit
<1>4. ASSUME NEW r \in Requests, EraseRow(r) PROVE CutInv'
  <2>1. PICK then \in Committed : Commit(r, Touching(holder[r]), {}, then)
    BY <1>4 DEF EraseRow, Committed
  <2>2. \A q \in Requests \ {r} : Touching(holder[r]) \cap join \cap Deleted(q) = {}
    BY <1>4 DEF EraseRow, Free, Waits, Changed
  <2> QED
    BY <2>1, <2>2, CutCommit
<1>5. ASSUME NEW r \in Requests, AlterRow(r) PROVE CutInv'
  <2>1. PICK then \in Committed : Commit(r, {}, {}, then)
    BY <1>5 DEF AlterRow, Committed
  <2> QED
    BY <2>1, CutCommit
<1>6. ASSUME NEW m \in Members, NEW S \in SUBSET Roles, Join(m, S) PROVE CutInv'
  BY <1>6, CutKept DEF Join, asked, InTx
<1>7. CASE UNCHANGED vars
  BY <1>7, CutKept DEF vars, asked, InTx
<1>8. ASSUME NEW r \in Requests, UpsertRow(r) PROVE CutInv'
  BY <1>8, CutKept DEF UpsertRow, rows, asked, InTx
<1>9. ASSUME NEW r \in Requests, DeleteThing(r) PROVE CutInv'
  <2>1. /\ pc'[r] = "cascading" /\ join' = join /\ cut' = cut /\ holder' = holder
        /\ \A q \in Requests \ {r} : pc'[q] = pc[q]
    BY <1>9 DEF DeleteThing, Goes, rows, asked, Inv, TypeOK
  <2> QED
    BY <2>1, CutKept DEF InTx
<1> QED
  BY <1>1, <1>2, <1>3, <1>4, <1>5, <1>6, <1>7, <1>8, <1>9, CutSelect, CutDelete
  DEF Next, Continue, Write, Refused, Deadlocked, Answer, Abort

LEMMA CutHolds == Spec => [](Inv /\ CutInv)
<1>1. Init => CutInv
  BY DEF Init, CutInv, SelectionsLive, SelectionsNest, InTx
<1> QED
  BY <1>1, CutNext, InvHolds, PTL DEF Spec

\* A call holds no key but that of its holder.
LEMMA KeysAreOfHolders ==
  ASSUME NEW r, NEW q, ~HoldsKey(q, holder[q]), Waits(r, q)
  PROVE  /\ \A x : ~HoldsKey(q, x)
         /\ ~ \E j \in writes[r] \ (join \ cut[r]) : HoldsKey(q, j[1]) \/ HoldsKey(q, j[2])
BY DEF HoldsKey, HoldsRow

\* Where nobody holds a key, who waits and is waited for is to insert rows of one holder.
LEMMA CirclesInsert ==
  ASSUME Inv, NEW S \in SUBSET Requests, Circle(S), \A q \in S : ~HoldsKey(q, holder[q]),
         NEW r \in S
  PROVE  /\ pc[r] = "inserting" /\ Changed(r) # {}
         /\ \E q \in S \ {r} : holder[q] = holder[r]
<1>1. ASSUME NEW p \in S PROVE InTx(p)
  <2>1. PICK q \in S : Waits(q, p)
    BY DEF Circle
  <2>2. \A x : ~HoldsKey(p, x)
    BY <2>1, KeysAreOfHolders
  <2>3. pc[p] # "cascading"
    BY <2>2 DEF HoldsKey, HoldsRow
  <2>4. HoldsRow(p, holder[q]) => InTx(p)
    BY <2>3 DEF HoldsRow, HoldsLock, InTx
  <2>5. pc[p] # "inserting" => put[p] = {} /\ Changed(p) = {}
    BY DEF Inv, PutOK, Changed, Deleted
  <2>6. SharesKey(p, holder[q]) \/ Changed(p) # {} => pc[p] = "inserting"
    BY <2>5 DEF SharesKey
  <2> QED
    BY <2>1, <2>2, <2>4, <2>6 DEF Waits, InTx
<1>2. ASSUME NEW p \in S PROVE pc[p] = "inserting" /\ Changed(p) # {}
  <2>1. PICK q \in S : Waits(q, p)
    BY DEF Circle
  <2>2. \A x : ~HoldsKey(p, x)
    BY <2>1, KeysAreOfHolders
  <2>3. Changed(p) # {}
    BY <1>1, <2>1, <2>2 DEF Waits, InTx
  <2> QED
    BY <2>3 DEF Inv, PutOK, Changed, Deleted
<1>3. PICK q \in S : Waits(r, q)
  BY DEF Circle
<1>4. q # r /\ writes[r] \cap Changed(q) # {}
  <2>1. \A x : ~HoldsKey(q, x)
    BY <1>3, KeysAreOfHolders
  <2> QED
    BY <1>2, <1>3, <2>1 DEF Waits
<1>5. q \in Calls /\ r \in Calls
  BY <1>2 DEF Calls, Stages
<1>6. writes[r] \subseteq Of(holder[r]) /\ Changed(q) \subseteq Of(holder[q])
  BY <1>2, <1>5 DEF Inv, CallOK, Changed, Deleted
<1> QED
  BY <1>2, <1>4, <1>6, HolderIsFirst

\* Transactions that wait for each other in a circle, none of which deletes a thing or
\* renames a role, are changes of the overrides of one user, for every number of calls.
THEOREM OnlyOverridesOrKeysDeadlock == Spec => []CirclesNeedOverridesOrKeys
<1>1. ASSUME Inv, CutInv, NEW S \in SUBSET Requests, Circle(S),
             \A q \in S : ~HoldsKey(q, holder[q]), NEW r \in S
      PROVE  /\ holder[r] \in Users /\ pc[r] = "inserting"
             /\ \E q \in S \ {r} : holder[q] = holder[r]
  <2>1. PICK q \in S \ {r} : holder[q] = holder[r]
    BY <1>1, CirclesInsert
  <2>2. \A p \in {r, q} : pc[p] = "inserting" /\ Changed(p) # {}
    BY <1>1, CirclesInsert
  <2>3. CASE holder[r] \notin Users
    <3>1. put[r] = {} /\ put[q] = {}
      BY <1>1, <2>1, <2>2, <2>3 DEF Inv, CallOK, Calls, Stages
    <3>2. cut[r] # {} /\ cut[q] # {} /\ cut[r] \cap cut[q] = {}
      BY <1>1, <2>2, <3>1 DEF Inv, Apart, Changed, Deleted
    <3>3. cut[r] \subseteq cut[q] \/ cut[q] \subseteq cut[r]
      BY <1>1, <2>1, <2>2, <2>3 DEF CutInv, SelectionsNest, InTx
    <3> QED
      BY <3>2, <3>3
  <2> QED
    BY <2>1, <2>2, <2>3
<1>2. Inv /\ CutInv => CirclesNeedOverridesOrKeys
  <2> SUFFICES ASSUME Inv, CutInv, NEW S \in SUBSET Requests, Circle(S),
                      \A q \in S : ~HoldsKey(q, holder[q])
               PROVE  \A r \in S : /\ holder[r] \in Users /\ pc[r] = "inserting"
                                   /\ \E q \in S \ {r} : holder[q] = holder[r]
    BY DEF CirclesNeedOverridesOrKeys
  <2> QED
    BY <1>1
<1> QED
  BY <1>2, CutHolds, PTL
=============================================================================
