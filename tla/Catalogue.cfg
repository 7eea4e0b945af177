CONSTANTS
  u1 = u1
  m1 = m1
  x1 = x1
  x2 = x2
  p1 = p1
  p2 = p2
  Users = {u1}
  Members = {m1, m2}
  Roles = {x1, x2}
  Permissions = {p1, p2}
  UserOf <- OneUser
  Owner = o1
  SystemRoles = {x1}
  Requests = {1, 2}
  NoOne = NoOne
  Keep = Keep
SPECIFICATION SmallSpec
INVARIANTS
  TypeOK
  CirclesNeedOverridesOrKeys
PROPERTIES
  ReplacedWholly
  OnlyLateAssignmentsAreLost
  ImplementsAccessTables
  EveryCallAnswers
ACTION_CONSTRAINT BeginInOrder
CHECK_DEADLOCK FALSE
