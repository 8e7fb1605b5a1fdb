--------------------------- MODULE MCVisibleObjects ---------------------------
(* A few kinds of objects on a line of two squares that the signed char      *)
(* wraps around: the player sees the one it stands on, and each of its moves *)
(* takes the objects to the other.  The elements of the list are             *)
(* interchangeable.                                                          *)
EXTENDS VisibleObjects, TLC

Pos(oy) == [OX |-> 0, OY |-> oy, OC |-> 0]

MCArrivals ==
  {[Type |-> "PLAYER", pos |-> Pos(0)], [Type |-> "SERAPH", pos |-> Pos(0)]}

MCSpells ==
  {[Type |-> "SPELL", pos |-> Pos(0), moving |-> TRUE, SummonID |-> "SPELL",
    spellEffectID |-> NONE, spellChildID |-> "fx"],
   [Type |-> "SPELL", pos |-> Pos(0), moving |-> FALSE, SummonID |-> NONE,
    spellEffectID |-> "fx", spellChildID |-> NONE]}

MCPlaces == {Pos(0)}

MCMoves == {<<0, 1>>}

MCStanding == {[Type |-> "PLAYER", pos |-> Pos(oy)] : oy \in 0..2}

Elements == Permutations(Node)
=============================================================================
