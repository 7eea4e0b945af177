CONSTANTS
  Orgs = {o1, o2}
  Emails = {1}
  Invitations = {1, 2}
  Requests = {1, 2, 3}
  MaxOutside = 1
  NoOrg = NoOrg
  NoEmail = NoEmail
  NoInvitation = NoInvitation
  NoOne = NoOne
  Elsewhere = Elsewhere
SPECIFICATION FairSpec
ACTION_CONSTRAINT Bounds
CHECK_DEADLOCK FALSE
INVARIANT AcceptedIsNotRevoked
