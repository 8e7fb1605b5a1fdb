CONSTANTS
  MaxSessions = 2
  MaxReplies = 3
SPECIFICATION Spec
INVARIANT AcceptIsAnswered
CHECK_DEADLOCK FALSE
