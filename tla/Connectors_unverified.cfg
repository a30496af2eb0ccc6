SPECIFICATION ConnectorsSpec
CONSTANTS
  Channels = {"FACEBOOK"}
  MaxCalls = 2
  MaxPolls = 2
INVARIANTS UnknownOutcomeIsVerified
CHECK_DEADLOCK FALSE
