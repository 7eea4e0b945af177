-------------------------- MODULE MCPermissionCache --------------------------
(***************************************************************************)
(* The permission cache on a small instance: one user beside the owner,    *)
(* with a membership and the identifier of a second one, one role beside   *)
(* the owner's, one permission.  Requests are interchangeable and begin in *)
(* the order of their numbers.  Their transactions do not overlap here, as *)
(* they do in MCCatalogue; what they do to the cache does.                 *)
(***************************************************************************)
EXTENDS PermissionCache, Naturals

CONSTANTS u1, m1, x1, x2, p1

ASSUME MCAssumption == Requests \subseteq Nat

OneUser == [m \in Members |-> u1]

SmallInit ==
  /\ CacheInit
  /\ row = [x \in Things |-> IF x \in {m1, x1, p1} THEN "active" ELSE "absent"]
  /\ {<<m1, x1>>, <<x1, p1>>} \subseteq join
  /\ deny = {}

SmallSpec == SmallInit /\ [][CacheNext]_allVars /\ CacheFairness

\* The user has been given the role of the owner.
OwnerRoleInit ==
  /\ CacheInit
  /\ row = [x \in Things |-> IF x \in {m1, x2, p1} THEN "active" ELSE "absent"]
  /\ join = {<<m1, x2>>}

OwnerRoleSpec == OwnerRoleInit /\ [][CacheNext]_allVars

BeginInOrder == \A r, q \in Requests : q < r /\ pc'[r] # "idle" => pc'[q] # "idle"
InTransaction == {r \in Requests : pc'[r] \in Stages \ Committed}

\* What else a role update writes matters to overlapping transactions only.
PermissionsOnly == \A r \in Requests : pc'[r] = "begin" /\ holder'[r] \in Roles => sets'[r] = Keep

Bounds == BeginInOrder /\ PermissionsOnly /\ Cardinality(InTransaction) <= 1
=============================================================================
