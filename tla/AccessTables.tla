---------------------------- MODULE AccessTables ----------------------------
(***************************************************************************)
(* What the catalogue promises, with no calls and no transactions: each    *)
(* change of the tables is one step, made from the rows as they are.  What *)
(* is deleted takes its joins along and never comes back; a system role    *)
(* and the membership of the owner are not deleted, nor is the latter made *)
(* inactive; a user is a member once; a join is given only with what is    *)
(* there, and only its own holder's joins change with it.                  *)
(***************************************************************************)
CONSTANTS Users, Members, Roles, Permissions, UserOf, Owner, SystemRoles

VARIABLES row,    \* of each member, role and permission
          join,   \* pairs of a member, a role or a user and what it was given
          deny    \* those of users that bar instead of granting

tables == <<row, join, deny>>

Things == Members \cup Roles \cup Permissions
Joins == (Members \X Roles) \cup (Roles \X Permissions) \cup (Users \X Permissions)
Of(h) == {j \in Joins : j[1] = h}
Present(x) == row[x] \in {"active", "inactive"}
OwnersMembership(m) == UserOf[m] = Owner

Init == /\ row \in [Things -> {"absent", "active", "inactive", "gone"}]
        /\ join \subseteq Joins
        /\ \A j \in join : Present(j[2]) /\ (j[1] \in Things => Present(j[1]))
        /\ deny \subseteq join /\ \A j \in deny : j[1] \in Users
        /\ \A m, n \in Members : Present(m) /\ Present(n) /\ UserOf[m] = UserOf[n] => m = n

Becomes(x, st) == row' = [row EXCEPT ![x] = st]

\* The holder h has W, of which B bar.  Of what it had, some may be left.
Given(h, W, B) ==
  /\ \A j \in W : Present(j[2])
  /\ W \subseteq join' /\ join' \subseteq join \cup W /\ join \ Of(h) \subseteq join'
  /\ deny' = B \cup (deny \cap (join' \ W))

ReplaceOverrides(u) ==
  /\ \E W \in SUBSET Of(u) : \E B \in SUBSET W : Given(u, W, B)
  /\ UNCHANGED row

ReplaceRoles(m) ==
  /\ Present(m)
  /\ \E W \in SUBSET Of(m) : Given(m, W, {})
  /\ \/ UNCHANGED row
     \/ Becomes(m, "active")
     \/ ~OwnersMembership(m) /\ Becomes(m, "inactive")

ReplacePermissions(x) ==
  /\ \E W \in SUBSET Of(x) : Given(x, W, {})
  /\ \/ Present(x) /\ UNCHANGED row
     \/ row[x] = "absent" /\ x \notin SystemRoles /\ Becomes(x, "active")

Alter(x) ==
  /\ \/ Present(x) /\ Becomes(x, "active")
     \/ Present(x) /\ (x \in Members => ~OwnersMembership(x)) /\ Becomes(x, "inactive")
     \/ row[x] = "absent" /\ x \in Permissions /\ Becomes(x, "active")
  /\ UNCHANGED <<join, deny>>

Erase(x) ==
  /\ Present(x)
  /\ x \notin SystemRoles /\ (x \in Members => ~OwnersMembership(x))
  /\ Becomes(x, "gone")
  /\ join' = {j \in join : x \notin {j[1], j[2]}}
  /\ deny' = deny \cap join'

Enroll(m) ==
  /\ row[m] = "absent" /\ \A n \in Members : UserOf[n] = UserOf[m] => ~Present(n)
  /\ Becomes(m, "active")
  /\ \E W \in SUBSET Of(m) : join' = join \cup W /\ \A j \in W : Present(j[2])
  /\ UNCHANGED deny

Next == \/ \E u \in Users : ReplaceOverrides(u)
        \/ \E m \in Members : ReplaceRoles(m) \/ Enroll(m)
        \/ \E x \in Roles : ReplacePermissions(x)
        \/ \E x \in Members \cup Permissions : Alter(x)
        \/ \E x \in Things : Erase(x)

Spec == Init /\ [][Next]_tables
=============================================================================
