CONSTANTS
  u1 = u1
  m1 = m1
  x1 = x1
  x2 = x2
  p1 = p1
  Users = {u1}
  Members = {m1, m2}
  Roles = {x1, x2}
  Permissions = {p1}
  UserOf <- OneUser
  Owner = o1
  SystemRoles = {x2}
  OwnerRole = x2
  Requests = {1, 2}
  Readers = {d1}
  NoOne = NoOne
  Keep = Keep
  Meta = Meta
  Wildcard = Wildcard
  NoKey = NoKey
  NoEntry = NoEntry
SPECIFICATION SmallSpec
INVARIANTS
  CacheTypeOK
  EntriesAreFresh
  OverridesPrevail
PROPERTY StaleEntriesGo
ACTION_CONSTRAINT Bounds
CHECK_DEADLOCK FALSE
