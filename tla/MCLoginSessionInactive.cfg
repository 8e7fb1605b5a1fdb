CONSTANTS
  MaxSessions = 2
  MaxReplies = 3
SPECIFICATION Spec
INVARIANT InactiveIsStepZero
CHECK_DEADLOCK FALSE
