CONSTANTS
  MaxSessions = 2
  MaxReplies = 3
SPECIFICATION Spec
INVARIANT OneDialogPerSession
CHECK_DEADLOCK FALSE
