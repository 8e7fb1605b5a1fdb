CONSTANTS
  Node = {n1, n2, n3}
  NULL = NULL
  ServerIDs = {21, 22, 23}
  PlayerID = 30
  Scenery = {}
  Names = {"PLAYER", "SERAPH", "SPELL", "SCENERY", "NONE", "fx"}
  Arrivals <- MCStanding
  Spells = {}
  Places = {}
  Moves = {}
  RangeWidth = 2
  RangeHeight = 2
  CHAR_HALF = 4
  FirstSpellID = 10
  MaxSpells = 1
SYMMETRY Elements
SPECIFICATION Spec
INVARIANT SortedByDepth
