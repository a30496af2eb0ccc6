SPECIFICATION MCSpec
CONSTANTS
  a1 = a1  a2 = a2  t1 = t1  t2 = t2  q1 = q1  q2 = q2
  Accounts = {a1, a2}
  Attempts = {t1, t2}
  Requests = {q1, q2}
  MaxRefs = 4
  MaxCreds = 2
  MaxEdits = 1
  KeyRotation = TRUE
  MaxActivity = 7
  Channels = {"FACEBOOK", "INSTAGRAM", "LINKEDIN", "TIKTOK", "YOUTUBE"}
  MaxCalls = 3
  MaxPolls = 2
  Desks = {"accounts", "connectors"}
INVARIANTS ChannelsTypeOK TokensAreAccounted ShownConnectedWorks AnswersAreTrue PublicOnlyWhenAsked
SYMMETRY NameSymmetry
CONSTRAINT BoundedActivity
CHECK_DEADLOCK FALSE
