CONSTANTS
  Orgs = {o1}
  Emails = {1, 2}
  Invitations = {1, 2}
  Requests = {1, 2, 3}
  MaxOutside = 1
  NoOrg = NoOrg
  NoEmail = NoEmail
  NoInvitation = NoInvitation
  NoOne = NoOne
  Elsewhere = Elsewhere
SPECIFICATION SentSpec
INVARIANTS
  TypeOK
  AcceptanceMakesTheAccount
PROPERTIES
  RevokedIsNotAccepted
  MembershipsAreNotOverwritten
  ImplementsMembership
  EveryCallAnswers
ACTION_CONSTRAINT Bounds
CHECK_DEADLOCK FALSE
