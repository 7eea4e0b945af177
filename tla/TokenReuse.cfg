CONSTANTS
  Users = {u1}
  Sessions = {s1, s2}
  Tokens = {t1, t2, t3, t4}
  Requests = {1, 2}
  MaxExpired = 1
  NoUser = NoUser
  NoSession = NoSession
  NoToken = NoToken
  Unopened = Unopened
  Closed = Closed
SPECIFICATION FairSpec
ACTION_CONSTRAINT Bounds
CHECK_DEADLOCK FALSE
INVARIANT ReuseRevokesFamily
