--------------------------- MODULE VisibleObjects ---------------------------
(***************************************************************************)
(* VisualObjectList of the Windows client: the objects around the player.  *)
(* The packet thread adds, moves and deletes objects as the server says;   *)
(* the draw thread sorts the list for every frame, replaces finished       *)
(* spells by what they summon and drops what is out of range.  Every       *)
(* handler here runs from Objects.Lock to Objects.Unlock: op is the one    *)
(* that holds the lock in the middle of a walk, the others are one step.   *)
(***************************************************************************)
EXTENDS CursorList

CONSTANTS
  ServerIDs,    \* IDs the server gives to the objects it announces
  PlayerID,     \* the one it gives to the player (Player.ID)
  Scenery,      \* IDs of the objects of the map file (SDObjID)
  Names,        \* types of objects, identifiers of spell effects, and NONE
  Arrivals,     \* kinds of objects announced: records [Type, pos]
  Spells,       \* spells cast: [Type, pos, moving, SummonID, spellEffectID, spellChildID]
  Places,       \* where scenery, the player and moved objects may be
  Moves,        \* moves of the player: pairs <<X, Y>>
  RangeWidth, RangeHeight,
  CHAR_HALF,    \* 128: a signed char counts modulo twice that
  FirstSpellID, \* initial SpellID
  MaxSpells     \* bound: IDs the packet thread takes from SpellID for spells

Char == -CHAR_HALF..(CHAR_HALF - 1)

Position == [OX : Char, OY : Char, OC : Int]

\* The client counts its own IDs down from -10000; scenery is from -1 down to
\* there, and the server's IDs are positive.
ASSUME VisibleObjectsAssumption ==
  /\ FirstSpellID \in Int /\ MaxSpells \in Nat /\ CHAR_HALF \in Nat \ {0}
  /\ \A id \in ServerIDs \cup {PlayerID} \cup Scenery : id \in Int /\ id > FirstSpellID
  /\ {"PLAYER", "SERAPH", "SPELL", "SCENERY", "NONE"} \subseteq Names
  /\ Moves \subseteq Int \X Int
  /\ Places \subseteq Position
  /\ Arrivals \subseteq [Type : Names, pos : Position]
  /\ \A s \in Spells :
       /\ s \in [Type : Names, pos : Position, moving : BOOLEAN, SummonID : Names,
                 spellEffectID : Names, spellChildID : Names]
       /\ s.Type # "SERAPH" /\ s.SummonID # "SERAPH"

VARIABLES
  list,      \* the TemplateList part of the object
  obj,       \* obj[n]: the TFCObject the element n points to
  nbUnit,
  SpellID,   \* next ID for an object of the client's own
  op,        \* the handler in the middle of a walk
  pc,        \* its next step
  arg,       \* its argument: the player's move, the ID to delete
  visited,   \* elements the walk has passed and kept; in Sort, ptr[0..i-1]
  size,      \* length of the arrays of Sort
  loop,      \* Sort: the pass over the arrays, its i and j, whether it swapped
  packet     \* the packet thread, outside the lock: where it is in SpellID--,
             \* and the SpellID it has loaded

vars == <<list, obj, nbUnit, SpellID, op, pc, arg, visited, size, loop, packet>>

NONE == "NONE"

SignedChar(x) == ((x + CHAR_HALF) % (2 * CHAR_HALF)) - CHAR_HALF

Abs(x) == IF x < 0 THEN -x ELSE x

\* A seraph animation stands for a player until it ends; it has an ID of the
\* client and keeps the server's for the player.  Spells and seraphs have
\* types above 30000.
NewObject(id, type, pos, effect, child) ==
  [ID |-> IF type = "SERAPH" THEN SpellID ELSE id, NewID |-> id, Type |-> type,
   pos |-> pos, DeleteMe |-> FALSE, Moving |-> FALSE,
   SummonID |-> IF type = "SERAPH" THEN "PLAYER" ELSE NONE,
   spellEffectID |-> effect, spellChildID |-> child]

NoObject == [ID |-> NONE]

TFCObject ==
  [ID : Int, NewID : Int, Type : Names, pos : Position, DeleteMe : BOOLEAN,
   Moving : BOOLEAN, SummonID : Names, spellEffectID : Names,
   spellChildID : Names]

Ready == [at |-> "ready", loaded |-> 0]

NoLoop == [pass |-> 0, i |-> 0, j |-> 0, sorting |-> FALSE]

IDs == {obj[n].ID : n \in list.nodes}

\* The walk from the head comes to n before any other object with the ID.
First(id) ==
  {n \in list.nodes :
     /\ obj[n].ID = id
     /\ \E passed \in SUBSET {m \in list.nodes : obj[m].ID # id} :
          \A m \in {list.Head} \cup {list.Greater[p] : p \in passed} :
            m \in passed \cup {n}}

\* A search by ID from the head: it stops on the object, or runs off the tail.
Searched(id) ==
  IF id \in IDs THEN {[list EXCEPT !.Current = n, !.Querying = "STOP_QUERY"] :
                       n \in First(id)}
  ELSE {[list EXCEPT !.Current = NULL, !.Querying = "NO_QUERY"]}

\* Deviation: the cursor stays where Add left it.
RestorePointerNot(l) == l

\* SavePointer before l was made from the list, RestorePointer after.
RestorePointer(l) ==
  [l EXCEPT !.Current = list.Current, !.Querying = list.Querying]

\* Deviation: the search of Add is left out.
AlreadyHereNever(id) == FALSE

AlreadyHere(id) == id \in IDs

\* Add: an ID that is there is rejected; a seraph takes SpellID, unsearched.  In
\* the middle of a walk (saved) the cursor is put back.  objects is obj with
\* what the caller changed in it.
Add(objects, id, type, pos, effect, child, saved) ==
  LET Placed(l) == IF saved THEN RestorePointer(l) ELSE l
  IN  IF AlreadyHere(id)
      THEN /\ \E l \in Searched(id) : list' = Placed(l)
           /\ obj' = objects
           /\ UNCHANGED nbUnit
      ELSE \E n \in Node \ list.nodes :
             /\ list' = Placed(AddToTail(list, n))
             /\ obj' = [objects EXCEPT ![n] = NewObject(id, type, pos, effect, child)]
             /\ nbUnit' = nbUnit + 1

\* How many IDs Add takes from SpellID.
Taken(id, type) == IF id \notin IDs /\ type = "SERAPH" THEN 1 ELSE 0

OutOfRange(o) ==
  /\ Abs(o.pos.OX) > RangeWidth \/ Abs(o.pos.OY) > RangeHeight
  /\ o.Type \notin {"SPELL", "SERAPH"}

ChildFound(o) ==
  o.spellChildID # NONE /\ \E n \in list.nodes : obj[n].spellEffectID = o.spellChildID

Unlocked == op = "none"
PacketReady == Unlocked /\ packet.at = "ready"

\* Bounds: an element for each arrival, for each player a seraph will bring, and
\* one for what a spell summons just before it is killed.
Summoners == {n \in list.nodes : obj[n].SummonID # NONE}
Seraphs == {n \in Summoners : obj[n].Type = "SERAPH"}
HasRoom(k) ==
  Cardinality(list.nodes) + k + Cardinality(Seraphs)
    + (IF Summoners = Seraphs THEN 0 ELSE 1) <= Cardinality(Node)
Need(type) == IF type = "SERAPH" THEN 2 ELSE 1
SpellsLeft == FirstSpellID - SpellID < MaxSpells
SeraphsLeft == FirstSpellID - SpellID <= MaxSpells

Init ==
  /\ list = EmptyList
  /\ obj = [n \in Node |-> NoObject]
  /\ nbUnit = 0
  /\ SpellID = FirstSpellID
  /\ op = "none" /\ pc = "idle" /\ arg = <<0, 0>> /\ visited = <<>> /\ size = 0
  /\ loop = NoLoop
  /\ packet = Ready

-----------------------------------------------------------------------------
\* The packet thread.

\* RQ_PuppetInformation and the like: an object enters.
Arrive(id, a) ==
  /\ PacketReady /\ HasRoom(Need(a.Type)) /\ SeraphsLeft
  /\ Add(obj, id, a.Type, a.pos, NONE, NONE, FALSE)
  /\ SpellID' = SpellID - Taken(id, a.Type)
  /\ UNCHANGED <<op, pc, arg, visited, size, loop, packet>>

\* The player's own entrance, with wings, dechu wings or none.  SpellID-- comes
\* after Objects.Unlock, in every case.
OwnEntrance(pos) ==
  /\ PacketReady /\ SpellsLeft
  /\ \/ HasRoom(1) /\ Add(obj, SpellID, "SPELL", pos, NONE, NONE, FALSE)
     \/ HasRoom(1) /\ Add(obj, PlayerID, "SPELL", pos, NONE, NONE, FALSE)
     \/ UNCHANGED <<list, obj, nbUnit>>
  /\ packet' = [packet EXCEPT !.at = "load"]
  /\ UNCHANGED <<SpellID, op, pc, arg, visited, size, loop>>

\* SpellID-- without a lock: Sort may count down between the load and the store.
\* (Sort's own SpellID-- may be one step: a store of this thread in the middle of
\* it is overwritten, as if it had loaded before and stored after.)
LoadSpellID ==
  /\ packet.at = "load"
  /\ packet' = [at |-> "store", loaded |-> SpellID]
  /\ UNCHANGED <<list, obj, nbUnit, SpellID, op, pc, arg, visited, size, loop>>

StoreSpellID ==
  /\ packet.at = "store"
  /\ SpellID' = packet.loaded - 1
  /\ packet' = Ready
  /\ UNCHANGED <<list, obj, nbUnit, op, pc, arg, visited, size, loop>>

\* On its way: marked for deletion at its goal, where it may summon another.
Sent(o, s) ==
  [o EXCEPT !.DeleteMe = TRUE, !.SummonID = s.SummonID, !.Moving = @ \/ s.moving]

\* A spell is cast: Add brings a projectile, and MoveObject sends on its way
\* whatever has the ID now.
Cast(s) ==
  /\ PacketReady /\ SpellsLeft
  /\ HasRoom(IF s.SummonID = NONE \/ Summoners # Seraphs THEN 1 ELSE 2)
  /\ IF AlreadyHere(SpellID)
     THEN /\ list' \in Searched(SpellID)
          /\ obj' = [obj EXCEPT ![list'.Current] = Sent(@, s)]
          /\ UNCHANGED nbUnit
     ELSE \E n \in Node \ list.nodes :
            /\ list' = SetQueryState(AddToTail(list, n), "STOP_QUERY")
            /\ obj' = [obj EXCEPT ![n] = Sent(NewObject(
                         SpellID, s.Type, s.pos, s.spellEffectID, s.spellChildID), s)]
            /\ nbUnit' = nbUnit + 1
  /\ SpellID' = SpellID - 1
  /\ UNCHANGED <<op, pc, arg, visited, size, loop, packet>>

\* A queued move keeps the object.
Queued(o, samePlace) ==
  [o EXCEPT !.Moving = @ \/ ~ samePlace, !.DeleteMe = FALSE, !.SummonID = NONE]

\* MoveObject from the server: a known object is queued a move, an unknown one
\* goes to Add.
MoveObject(id, a, samePlace) ==
  /\ PacketReady /\ HasRoom(Need(a.Type)) /\ SeraphsLeft
  /\ IF id \in IDs
     THEN /\ list' \in Searched(id)
          /\ obj' = [obj EXCEPT ![list'.Current] = Queued(@, samePlace)]
          /\ UNCHANGED <<nbUnit, SpellID>>
     ELSE /\ Add(obj, id, a.Type, a.pos, NONE, NONE, FALSE)
          /\ SpellID' = SpellID - Taken(id, a.Type)
  /\ UNCHANGED <<op, pc, arg, visited, size, loop, packet>>

\* Delete: search for the object and stand on it; KillObject is the next step.
Delete(id) ==
  /\ PacketReady
  /\ \E l \in Searched(id) :
       IF id \in IDs
       THEN list' = SetQueryState(l, "QUERY_NEXT") /\ op' = "Delete" /\ pc' = "kill"
       ELSE list' = l /\ UNCHANGED <<op, pc>>
  /\ UNCHANGED <<obj, nbUnit, SpellID, arg, visited, size, loop, packet>>

\* ChangeType to a corpse that bursts, SetMissing the second time: a spell
\* takes the place of the object.
Replace(id) ==
  /\ PacketReady /\ HasRoom(1) /\ SpellsLeft
  /\ \E n \in First(id) : Add(obj, SpellID, "SPELL", obj[n].pos, NONE, NONE, FALSE)
  /\ SpellID' = SpellID - 1
  /\ op' = "Replace" /\ pc' = "delete" /\ arg' = id
  /\ UNCHANGED <<visited, size, loop, packet>>

\* ... and the object is deleted.
ReplaceDelete ==
  /\ op = "Replace" /\ pc = "delete"
  /\ \E l \in Searched(arg) : list' = SetQueryState(l, "QUERY_NEXT")
  /\ op' = "Delete" /\ pc' = "kill" /\ arg' = <<0, 0>>
  /\ UNCHANGED <<obj, nbUnit, SpellID, visited, size, loop, packet>>

\* Release: delete everything.
DeleteAll ==
  /\ PacketReady
  /\ list' = ToHead(list)
  /\ op' = "DeleteAll" /\ pc' = "query" /\ visited' = <<>>
  /\ UNCHANGED <<obj, nbUnit, SpellID, arg, size, loop, packet>>

-----------------------------------------------------------------------------
\* The draw thread.

\* DrawObject and ChkText: a queued move ends, an animation or a corpse has
\* had its time.
Land(n, pos) ==
  /\ Unlocked /\ n \in list.nodes /\ obj[n].Moving
  /\ obj' = [obj EXCEPT ![n].Moving = FALSE, ![n].pos = pos]
  /\ UNCHANGED <<list, nbUnit, SpellID, op, pc, arg, visited, size, loop, packet>>

Expire(n) ==
  /\ Unlocked /\ n \in list.nodes
  /\ obj' = [obj EXCEPT ![n].DeleteMe = TRUE]
  /\ UNCHANGED <<list, nbUnit, SpellID, op, pc, arg, visited, size, loop, packet>>

MovePlayer(move) ==
  /\ Unlocked
  /\ list' = ToHead(list)
  /\ op' = "MovePlayer" /\ pc' = "query" /\ arg' = move /\ visited' = <<>>
  /\ UNCHANGED <<obj, nbUnit, SpellID, size, loop, packet>>

Sort ==
  /\ Unlocked /\ nbUnit # 0
  /\ size' = nbUnit
  /\ list' = ToHead(list)
  /\ op' = "Sort" /\ pc' = "query" /\ visited' = <<>>
  /\ UNCHANGED <<obj, nbUnit, SpellID, arg, loop, packet>>

\* while (QueryNext())
Query ==
  /\ pc = "query"
  /\ list' = QueryNext(list)
  /\ pc' = IF Queried(list') THEN "look" ELSE "end"
  /\ UNCHANGED <<obj, nbUnit, SpellID, op, arg, visited, size, loop, packet>>

\* The walk goes on, or kills the object it stands on.
Keep ==
  /\ visited' = Append(visited, list.Current)
  /\ pc' = "query"

LookDeleteAll ==
  /\ op = "DeleteAll" /\ pc = "look"
  /\ pc' = "kill"
  /\ UNCHANGED <<list, obj, nbUnit, SpellID, op, arg, visited, size, loop, packet>>

\* Every object moves against the player; what falls out of range is killed.
LookMovePlayer ==
  LET Object == obj[list.Current]
      moved == [Object EXCEPT !.pos.OX = SignedChar(@ - arg[1]),
                              !.pos.OY = SignedChar(@ - arg[2])]
  IN  /\ op = "MovePlayer" /\ pc = "look"
      /\ obj' = [obj EXCEPT ![list.Current] = moved]
      /\ IF OutOfRange(moved) THEN pc' = "kill" /\ UNCHANGED visited ELSE Keep
      /\ UNCHANGED <<list, nbUnit, SpellID, op, arg, size, loop, packet>>

\* An object that is to be deleted goes when it and the player stand still
\* (isMov) and no spell of its own is left.
Removable(o, isMov) ==
  OutOfRange(o) \/ (o.DeleteMe /\ ~ isMov /\ ~ o.Moving /\ ~ ChildFound(o))

LookSort(isMov) ==
  LET Object == obj[list.Current]
  IN  /\ op = "Sort" /\ pc = "look"
      /\ IF Removable(Object, isMov)
         THEN pc' = (IF Object.SummonID # NONE THEN "summon" ELSE "kill")
              /\ UNCHANGED visited
         ELSE Keep
      /\ UNCHANGED <<list, obj, nbUnit, SpellID, op, arg, size, loop, packet>>

\* A seraph animation has reached the frame where the player appears: add
\* the player and leave Sort.
SeraphEnds ==
  LET Object == obj[list.Current]
  IN  /\ op = "Sort" /\ pc = "look"
      /\ Object.Type = "SERAPH" /\ Object.SummonID # NONE
      /\ Add([obj EXCEPT ![list.Current].SummonID = NONE],
             Object.NewID, Object.SummonID, Object.pos, NONE, NONE, TRUE)
      /\ op' = "none" /\ pc' = "idle" /\ visited' = <<>> /\ size' = 0
      /\ UNCHANGED <<SpellID, arg, loop, packet>>

\* What the object summons takes its place.
Summon ==
  LET Object == obj[list.Current]
  IN  /\ pc = "summon"
      /\ Add(obj, SpellID, Object.SummonID, Object.pos, NONE, NONE, TRUE)
      /\ SpellID' = SpellID - 1
      /\ pc' = "kill"
      /\ UNCHANGED <<op, arg, visited, size, loop, packet>>

\* Deviation: sort forgets i = 0.
RestartSortNoIndex(l) ==
  list' = ToHead(l) /\ pc' = "query" /\ UNCHANGED visited

\* Sort begins again at the head: ToHead, i = 0.
RestartSort(l) ==
  list' = ToHead(l) /\ pc' = "query" /\ visited' = <<>>

\* KillObject.  Delete stops there.
Kill ==
  LET removed == RemoveObject(list)
  IN  /\ pc = "kill"
      /\ nbUnit' = nbUnit - 1
      /\ obj' = [obj EXCEPT ![list.Current] = NoObject]
      /\ CASE op = "Delete" ->
                /\ list' = SetQueryState(removed, "STOP_QUERY")
                /\ op' = "none" /\ pc' = "idle" /\ UNCHANGED visited
           [] op = "Sort" -> RestartSort(removed) /\ UNCHANGED op
           [] OTHER ->
                list' = removed /\ pc' = "query" /\ UNCHANGED <<op, visited>>
      /\ UNCHANGED <<SpellID, arg, size, loop, packet>>

EndDeleteAll ==
  /\ op = "DeleteAll" /\ pc = "end"
  /\ nbUnit' = 0
  /\ op' = "none" /\ pc' = "idle" /\ visited' = <<>>
  /\ UNCHANGED <<list, obj, SpellID, arg, size, loop, packet>>

\* MovePlayer then adds the scenery that has come into range.
AddScenery(id, pos) ==
  /\ op = "MovePlayer" /\ pc \in {"end", "scenery"} /\ HasRoom(1)
  /\ Add(obj, id, "SCENERY", pos, NONE, NONE, FALSE)
  /\ pc' = "scenery" /\ visited' = <<>>
  /\ UNCHANGED <<SpellID, op, arg, size, loop, packet>>

EndMovePlayer ==
  /\ op = "MovePlayer" /\ pc \in {"end", "scenery"}
  /\ op' = "none" /\ pc' = "idle" /\ arg' = <<0, 0>> /\ visited' = <<>>
  /\ UNCHANGED <<list, obj, nbUnit, SpellID, size, loop, packet>>

-----------------------------------------------------------------------------
\* Sort, once the walk has filled the arrays: passes of exchanges on value,
\* then spec and value2 among equal values, and new links.  (The fourth, on
\* value3, exchanges nothing: value3 is 1 for every object.)

Value(n) == SignedChar(obj[n].pos.OY + obj[n].pos.OC)

\* The test of a pass: must b come before a?
Before(pass, b, a) ==
  \/ pass = 1 /\ Value(b) < Value(a)
  \/ pass = 2 /\ Value(b) = Value(a) /\ obj[b].pos.OC < obj[a].pos.OC
  \/ pass = 3 /\ Value(b) = Value(a) /\ obj[b].pos.OX < obj[a].pos.OX

StartOfPass(pass) == [pass |-> pass, i |-> 1, j |-> 2, sorting |-> FALSE]

BeginPasses ==
  /\ op = "Sort" /\ pc = "end"
  /\ pc' = "compare" /\ loop' = StartOfPass(1)
  /\ UNCHANGED <<list, obj, nbUnit, SpellID, op, arg, visited, size, packet>>

Exchanged(s, i, j) ==
  [k \in DOMAIN s |-> IF k = i THEN s[j] ELSE IF k = j THEN s[i] ELSE s[k]]

Compare ==
  /\ pc = "compare" /\ loop.pass <= 3 /\ loop.j <= nbUnit
  /\ IF Before(loop.pass, visited[loop.j], visited[loop.i])
     THEN /\ visited' = Exchanged(visited, loop.i, loop.j)
          /\ loop' = [loop EXCEPT !.j = @ + 1, !.sorting = TRUE]
     ELSE loop' = [loop EXCEPT !.j = @ + 1] /\ UNCHANGED visited
  /\ UNCHANGED <<list, obj, nbUnit, SpellID, op, pc, arg, size, packet>>

\* The "correction de tri a bulle": a pass ends when one i swapped nothing.
NextRound ==
  /\ pc = "compare" /\ loop.pass <= 3 /\ loop.j > nbUnit
  /\ loop' = IF loop.sorting /\ loop.i < nbUnit
             THEN [loop EXCEPT !.i = @ + 1, !.j = loop.i + 2, !.sorting = FALSE]
             ELSE StartOfPass(loop.pass + 1)
  /\ UNCHANGED <<list, obj, nbUnit, SpellID, op, pc, arg, visited, size, packet>>

\* The list in the order of ptr.
Relinked(l, ptr, n) ==
  LET At(k) == IF k \in 1..n THEN ptr[k] ELSE NULL
      Place(m) == CHOOSE k \in 1..n : ptr[k] = m
      Listed(m) == \E k \in 1..n : ptr[k] = m
  IN  [l EXCEPT
        !.Head = At(1), !.Current = At(1), !.Tail = At(n),
        !.Greater = [m \in Node |-> IF Listed(m) THEN At(Place(m) + 1) ELSE @[m]],
        !.Lesser = [m \in Node |-> IF Listed(m) THEN At(Place(m) - 1) ELSE @[m]]]

EndSort ==
  /\ pc = "compare" /\ loop.pass > 3
  /\ list' = Relinked(list, visited, nbUnit)
  /\ op' = "none" /\ pc' = "idle" /\ visited' = <<>> /\ size' = 0
  /\ loop' = NoLoop
  /\ UNCHANGED <<obj, nbUnit, SpellID, arg, packet>>

-----------------------------------------------------------------------------
PacketThread ==
  \/ \E id \in ServerIDs : \E a \in Arrivals :
       \/ Arrive(id, a)
       \/ \E samePlace \in BOOLEAN : MoveObject(id, a, samePlace)
  \/ \E pos \in Places : OwnEntrance(pos)
  \/ LoadSpellID \/ StoreSpellID
  \/ \E s \in Spells : Cast(s)
  \/ \E id \in ServerIDs : Delete(id) \/ Replace(id)
  \/ ReplaceDelete
  \/ DeleteAll

DrawThread ==
  \/ \E n \in Node : Expire(n) \/ \E pos \in Places : Land(n, pos)
  \/ \E move \in Moves : MovePlayer(move)
  \/ Sort \/ \E isMov \in BOOLEAN : LookSort(isMov)
  \/ SeraphEnds \/ Summon \/ BeginPasses \/ Compare \/ NextRound \/ EndSort
  \/ LookMovePlayer \/ EndMovePlayer
  \/ \E id \in Scenery : \E pos \in Places : AddScenery(id, pos)

Walk == Query \/ LookDeleteAll \/ Kill \/ EndDeleteAll

Next == PacketThread \/ DrawThread \/ Walk

Spec == Init /\ [][Next]_vars

-----------------------------------------------------------------------------
\* Links, cursor and counters have their types.
TypeOK ==
  /\ list \in TemplateList
  /\ nbUnit \in Nat /\ size \in Nat /\ SpellID \in Int
  /\ packet \in [at : {"ready", "load", "store"}, loaded : Int]
  /\ op \in {"none", "Delete", "Replace", "DeleteAll", "MovePlayer", "Sort"}
  /\ pc \in {"idle", "delete", "query", "look", "summon", "kill", "end",
             "scenery", "compare"}
  /\ visited \in Seq(Node)
  /\ loop \in [pass : Nat, i : Nat, j : Nat, sorting : BOOLEAN]
  /\ obj \in [Node -> TFCObject \cup {NoObject}]
  /\ \A n \in list.nodes : obj[n] \in TFCObject

\* Whatever was added, killed in the middle of a walk or sorted: the elements
\* form one doubly linked list from Head to Tail, each once, and nbUnit counts
\* them.
ListIsWellFormed ==
  /\ nbUnit = list.nb_objects
  /\ \E s \in [1..nbUnit -> list.nodes] : Represents(list, s)

\* GetObject and KillObject dereference Current: it is an element of the
\* list, not a freed one, and not NULL.
CursorIsLive == pc \in {"look", "summon", "kill"} => list.Current \in list.nodes

\* A walk has passed every object exactly once when it ends, even when it
\* killed some of them and added others on the way.
WalkMissesNone ==
  pc \in {"end", "compare"} =>
    /\ Len(visited) = nbUnit
    /\ {visited[k] : k \in 1..Len(visited)} = list.nodes

\* Sort allocates its arrays for nbUnit objects before it starts to add and
\* kill objects: it never stores past their end.
SortFitsItsArrays ==
  op = "Sort" => Len(visited) <= size /\ (pc = "compare" => nbUnit <= size)

\* Objects share an ID only when one is a seraph, which takes SpellID as it is:
\* the packet thread's SpellID-- may write an old value over what Sort counted.
\* No object of the server, of the scenery or of Sort ever has a twin but that.
TwinsAreSeraphs ==
  \A m, n \in list.nodes :
    obj[m].ID = obj[n].ID /\ m # n => "SERAPH" \in {obj[m].Type, obj[n].Type}

\* No two objects share an ID.
UniqueIDs ==
  \A m, n \in list.nodes : obj[m].ID = obj[n].ID => m = n

\* The handlers in progress want these objects out of the list.
Due(n) ==
  \/ obj[n].DeleteMe \/ OutOfRange(obj[n])
  \/ op = "DeleteAll"
  \/ op = "Delete" /\ n = list.Current

Visible == INSTANCE VisibleSet WITH
  Object <- Node,
  id <- [n \in list.nodes |-> obj[n].ID],
  due <- {n \in list.nodes : Due(n)}

\* KillObject kills the object it was called for and no other, Add brings one
\* object, and the walks and the sort bring and lose none.
ImplementsVisibleSet == Visible!Spec

\* Sort orders the objects from the back of the scene to the front.
SortedByDepth ==
  op = "Sort" /\ loop.pass > 1 =>
    \A i, j \in 1..nbUnit : i <= j => Value(visited[i]) <= Value(visited[j])
=============================================================================
