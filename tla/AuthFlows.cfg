CONSTANTS
  Users = {u1}
  Sessions = {s1, s2}
  Tokens = {t1, t2, t3}
  Codes = {c1, c2}
  Requests = {1, 2, 3}
  MaxExpired = 1
  NoUser = NoUser
  NoSession = NoSession
  NoToken = NoToken
  NoCode = NoCode
SPECIFICATION FlowSpec
INVARIANTS
  FlowTypeOK
  ResetEndsEarlierSessions
  SpentCodeIsRefused
ACTION_CONSTRAINT Bounds
CHECK_DEADLOCK FALSE
