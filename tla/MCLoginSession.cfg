CONSTANTS
  MaxSessions = 2
  MaxReplies = 3
SPECIFICATION FairSpec
INVARIANTS AuthenticatesOnce FinishedWasAccepted
PROPERTIES LockIsGranted AcceptIsAnsweredInTime
CHECK_DEADLOCK FALSE
