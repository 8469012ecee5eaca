------------------------------ MODULE GridMap ------------------------------
(***************************************************************************)
(* The spatial hash of src/lib/bin/utils/gridmap.cc, which tells a level's *)
(* entities who is near enough to interact with.  Positions are whole      *)
(* numbers here (the code truncates them before it divides).               *)
(***************************************************************************)
EXTENDS Integers, Sequences

CONSTANTS
    Ids,           \* EntityID
    Coordinates,   \* the values of x and of y
    Proximities,   \* interaction proximities
    Pointers,      \* EntityPtr
    cellSize,
    Word           \* 2^32: the distance between the halves of a cell key

\* static_cast<int>(x) / cellSize rounds towards zero.
Cell(x) == IF x >= 0 THEN x \div cellSize ELSE -((-x) \div cellSize)

\* What fits the int a cell number is, its neighbours included.
Narrow(c) == -Word < 2 * (c - 1) /\ 2 * (c + 1) < Word

ASSUME ConstantsAssumption ==
    /\ cellSize \in Nat \ {0} /\ Word \in Nat \ {0}
    /\ Coordinates \subseteq Int
    /\ Proximities \subseteq Nat
    /\ \A x \in Coordinates : Cell(x) \in Int /\ Narrow(Cell(x))

VARIABLES
    entities,   \* the registered ids -> their EntityData
    grid        \* the keys in use -> the list of the ids in that cell

vars == <<entities, grid>>

-----------------------------------------------------------------------------
\* Mutant: the halves overlap.
OverlappingKey(cx, cy) == cx * 2 + cy

\* (cx << 32) ^ cy: a negative cy extends its sign into the upper half and
\* inverts it.
cell_key(cx, cy) ==
    IF cy >= 0 THEN cx * Word + cy ELSE (-1 - cx) * Word + (cy + Word)

Key(e) == cell_key(e.cellX, e.cellY)

\* grid[key].push_back(id), which makes the list if there is none.
PushBack(g, key, id) ==
    [k \in DOMAIN g \cup {key} |->
        IF k # key THEN g[k] ELSE IF k \in DOMAIN g THEN Append(g[k], id) ELSE <<id>>]

\* The last id takes the place of the one that is removed.
SwapOut(s, i) == [j \in 1..(Len(s) - 1) |-> IF j = i THEN s[Len(s)] ELSE s[j]]

First(s, id) == CHOOSE i \in 1..Len(s) : s[i] = id /\ \A j \in 1..(i - 1) : s[j] # id

Without(s, id) ==
    IF \E i \in 1..Len(s) : s[i] = id THEN SwapOut(s, First(s, id)) ELSE s

\* Mutant: an empty list stays.
TakeOutKeep(g, key, id) == [g EXCEPT ![key] = Without(@, id)]

\* A list that has become empty is erased.
TakeOut(g, key, id) ==
    IF key \notin DOMAIN g THEN g
    ELSE IF Without(g[key], id) = <<>> THEN [k \in DOMAIN g \ {key} |-> g[k]]
    ELSE [g EXCEPT ![key] = Without(@, id)]

Data(x, y, p, ptr) ==
    [x |-> x, y |-> y, proximity |-> p, ptr |-> ptr, cellX |-> Cell(x), cellY |-> Cell(y)]

-----------------------------------------------------------------------------
Init == entities = << >> /\ grid = << >>

\* Mutant: the square of the proximity is kept.
RegisterSquared(id, x, y, p, ptr) ==
    /\ id \notin DOMAIN entities
    /\ LET e == Data(x, y, p * p, ptr) IN
          /\ entities' = [i \in DOMAIN entities \cup {id} |->
                              IF i = id THEN e ELSE entities[i]]
          /\ grid' = PushBack(grid, Key(e), id)

Register(id, x, y, p, ptr) ==
    /\ id \notin DOMAIN entities
    /\ LET e == Data(x, y, p, ptr) IN
          /\ entities' = [i \in DOMAIN entities \cup {id} |->
                              IF i = id THEN e ELSE entities[i]]
          /\ grid' = PushBack(grid, Key(e), id)

\* update_entity of a registered id: ptr is not looked at.
Stay(id, p) ==
    /\ id \in DOMAIN entities
    /\ entities' = [entities EXCEPT ![id].proximity = p]
    /\ UNCHANGED grid

MoveWithin(id, x, y, p) ==
    /\ id \in DOMAIN entities
    /\ Cell(x) = entities[id].cellX /\ Cell(y) = entities[id].cellY
    /\ entities' = [entities EXCEPT ![id] = Data(x, y, p, @.ptr)]
    /\ UNCHANGED grid

MoveAcross(id, x, y, p) ==
    /\ id \in DOMAIN entities
    /\ Cell(x) # entities[id].cellX \/ Cell(y) # entities[id].cellY
    /\ LET e == Data(x, y, p, entities[id].ptr) IN
          /\ entities' = [entities EXCEPT ![id] = e]
          /\ grid' = PushBack(TakeOut(grid, Key(entities[id]), id), Key(e), id)

remove_entity(id) ==
    /\ id \in DOMAIN entities
    /\ grid' = TakeOut(grid, Key(entities[id]), id)
    /\ entities' = [i \in DOMAIN entities \ {id} |-> entities[i]]

Next ==
    \E id \in Ids :
        \/ remove_entity(id)
        \/ \E p \in Proximities :
              \/ Stay(id, p)
              \/ \E x, y \in Coordinates :
                    \/ MoveWithin(id, x, y, p) \/ MoveAcross(id, x, y, p)
                    \/ \E ptr \in Pointers : Register(id, x, y, p, ptr)

Spec == Init /\ [][Next]_vars

-----------------------------------------------------------------------------
(* get_nearby_entities. *)

DistSq(a, b) ==
    (a.x - b.x) * (a.x - b.x) + (a.y - b.y) * (a.y - b.y)

IsNear(e, o) == DistSq(e, o) <= e.proximity * e.proximity

\* Mutant: the loops run from -1 to 0.
NarrowWindow == -1..0
Window == -1..1

Neighbour(id, d) == cell_key(entities[id].cellX + d[1], entities[id].cellY + d[2])

\* The list of the cell d away from that of id names o.
Lists(id, d, o) ==
    LET k == Neighbour(id, d) IN
    k \in DOMAIN grid /\ \E i \in 1..Len(grid[k]) : grid[k][i] = o

\* The ids whose pointers get_nearby_entities(id) returns.
Nearby(id) ==
    {o \in Ids \ {id} :
        (\E d \in Window \X Window : Lists(id, d, o)) /\ IsNear(entities[id], entities[o])}

-----------------------------------------------------------------------------
TypeOK ==
    /\ DOMAIN entities \subseteq Ids
    /\ \A id \in DOMAIN entities :
           \E x, y \in Coordinates, p \in Proximities, ptr \in Pointers :
               entities[id] = Data(x, y, p, ptr)
    /\ \A k \in DOMAIN grid : grid[k] \in Seq(Ids)

\* A key is in use if and only if there is an entity in its cell, and its list
\* names each of them once and no other id: entities.at (gridmap.cc:153) finds
\* every id it meets, and the map does not grow with the cells once visited.
GridMatches ==
    /\ DOMAIN grid = {Key(entities[id]) : id \in DOMAIN entities}
    /\ \A k \in DOMAIN grid :
           /\ \A i \in 1..Len(grid[k]) :
                  grid[k][i] \in DOMAIN entities /\ Key(entities[grid[k][i]]) = k
           /\ \A i, j \in 1..Len(grid[k]) : grid[k][i] = grid[k][j] => i = j
    /\ \A id \in DOMAIN entities :
           \E i \in 1..Len(grid[Key(entities[id])]) : grid[Key(entities[id])][i] = id

\* Nine cells are enough: an entity whose proximity is not more than a cell's
\* size gets exactly the entities within its proximity (gridmap.cc:127-169).
NearbyIsExact ==
    \A id \in DOMAIN entities :
        entities[id].proximity <= cellSize =>
            Nearby(id) = {o \in DOMAIN entities \ {id} : IsNear(entities[id], entities[o])}

\* No list is read twice, so no pointer is returned twice: the nine keys differ,
\* whatever the signs of the cells (gridmap.cc:28-30, 139-147).
ListsDiffer ==
    \A id \in DOMAIN entities, d, e \in Window \X Window :
        Neighbour(id, d) = Neighbour(id, e) => d = e
=============================================================================
