CONSTANTS
  Node = {n1, n2, n3}
  NULL = NULL
  ServerIDs = {21}
  PlayerID = 30
  Scenery = {19}
  Names = {"PLAYER", "SERAPH", "SPELL", "SCENERY", "NONE", "fx"}
  Arrivals <- MCArrivals
  Spells <- MCSpells
  Places <- MCPlaces
  Moves <- MCMoves
  RangeWidth = 1
  RangeHeight = 0
  CHAR_HALF = 1
  FirstSpellID = 10
  MaxSpells = 3
SYMMETRY Elements
SPECIFICATION Spec
INVARIANTS ListIsWellFormed CursorIsLive WalkMissesNone SortFitsItsArrays
INVARIANT TwinsAreSeraphs
PROPERTY ImplementsVisibleSet
CHECK_DEADLOCK FALSE
