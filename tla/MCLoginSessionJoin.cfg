CONSTANTS
  MaxSessions = 2
  MaxReplies = 3
SPECIFICATION FairSpec
PROPERTY JoinEnds
CHECK_DEADLOCK FALSE
