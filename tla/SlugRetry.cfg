CONSTANTS
  Requests = {1, 2, 3}
  Jobs = {1, 2, 3, 4}
  Queued = {1, 2, 4}
  Faulty = {4}
  Attempts = 3
  MaxStalls = 1
  Emails = {1, 2, 3}
  Names <- Acme
  NoMail = NoMail
  NoOne = NoOne
  NoEmail = NoEmail
SPECIFICATION FairSpec
PROPERTY SlugClashIsRetried
ACTION_CONSTRAINT Bounds
CHECK_DEADLOCK FALSE
