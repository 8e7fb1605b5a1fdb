CONSTANTS
  Poster = {p1, p2}
  Getter = {g1, g2}
  Nobody = Nobody
  WaitsEnd = TRUE
  MaxPosts = 2
SPECIFICATION Spec
INVARIANT ShutdownWakesAll
CHECK_DEADLOCK FALSE
