CONSTANTS
  Poster = {p1, p2}
  Getter = {g1, g2}
  Nobody = Nobody
  WaitsEnd = TRUE
  MaxPosts = 2
SPECIFICATION FairSpec
INVARIANTS EnoughAwake NoneLostNoneTwice
PROPERTIES EveryPostIsServed GettersStop
CHECK_DEADLOCK FALSE
