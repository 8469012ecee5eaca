--------------------------- MODULE GridMapProofs ---------------------------
(***************************************************************************)
(* Proofs about GridMap, for any set of ids, positions and proximities and *)
(* any cell size.  The grid is described by what its lists hold (Holds)    *)
(* and by their shape (ListsOK): TakeOut takes one pair <<key, id>> away,  *)
(* PushBack adds one.                                                      *)
(***************************************************************************)
EXTENDS GridMap, SequenceTheorems, TLAPS

Names(s, o) == \E i \in 1..Len(s) : s[i] = o
Distinct(s) == \A i, j \in 1..Len(s) : s[i] = s[j] => i = j
Holds(g, k, o) == k \in DOMAIN g /\ Names(g[k], o)
ListsOK(g) == \A k \in DOMAIN g : g[k] \in Seq(Ids) /\ Distinct(g[k]) /\ g[k] # <<>>

-----------------------------------------------------------------------------
(* Lists. *)

\* Removing an id from a list leaves the others, each still once.
LEMMA WithoutCorrect ==
    ASSUME NEW s \in Seq(Ids), NEW id, Distinct(s), Names(s, id)
    PROVE  /\ Without(s, id) \in Seq(Ids)
           /\ Distinct(Without(s, id))
           /\ \A o : Names(Without(s, id), o) <=> Names(s, o) /\ o # id
<1> DEFINE n == Len(s)
           w == First(s, id)
           t == SwapOut(s, w)
<1>1. n \in Nat /\ \A i \in 1..n : s[i] \in Ids
  OBVIOUS
<1>2. PICK i \in 1..n : s[i] = id
  BY DEF Names
<1>3. s[i] = id /\ \A j \in 1..(i - 1) : s[j] # id
  BY <1>1, <1>2 DEF Distinct
<1>4. w \in 1..n /\ s[w] = id
  BY <1>2, <1>3 DEF First
<1>5. Without(s, id) = t
  BY <1>2 DEF Without
<1>6. \A j \in 1..(n - 1) : t[j] = IF j = w THEN s[n] ELSE s[j]
  BY DEF SwapOut
<1>7. t \in Seq(Ids) /\ Len(t) = n - 1
  <2>1. n - 1 \in Nat
    BY <1>1, <1>4
  <2>2. t \in [1..(n - 1) -> Ids]
    BY <1>1, <1>4, <2>1 DEF SwapOut
  <2> QED BY <2>1, <2>2, SeqDef, LenProperties
<1>8. Distinct(t)
  BY <1>1, <1>4, <1>6, <1>7 DEF Distinct
<1>9. \A o : Names(t, o) => Names(s, o) /\ o # id
  BY <1>1, <1>4, <1>6, <1>7 DEF Names, Distinct
<1>10. ASSUME NEW o, Names(s, o), o # id
       PROVE  Names(t, o)
  <2>1. PICK j \in 1..n : s[j] = o
    BY <1>10 DEF Names
  <2>2. CASE j = n
    <3>1. w \in 1..(n - 1)
      BY <1>1, <1>4, <1>10, <2>1, <2>2
    <3> QED BY <1>6, <1>7, <2>1, <2>2, <3>1 DEF Names
  <2>3. CASE j # n
    <3>1. j \in 1..(n - 1) /\ j # w
      BY <1>1, <1>4, <1>10, <2>1, <2>3
    <3> QED BY <1>6, <1>7, <2>1, <3>1 DEF Names
  <2> QED BY <2>2, <2>3
<1> QED BY <1>5, <1>7, <1>8, <1>9, <1>10

\* A list without its last id is empty.
LEMMA EmptyHoldsNothing ==
    ASSUME NEW s \in Seq(Ids)
    PROVE  s = <<>> <=> \A o : ~Names(s, o)
<1>1. s = <<>> => \A o : ~Names(s, o)
  BY DEF Names
<1>2. s # <<>> => Names(s, s[1])
  BY EmptySeq DEF Names
<1> QED BY <1>1, <1>2

\* grid[key].push_back(id).
LEMMA PushBackCorrect ==
    ASSUME NEW g, ListsOK(g), NEW key, NEW id \in Ids, ~Holds(g, key, id)
    PROVE  /\ ListsOK(PushBack(g, key, id))
           /\ \A k, o : Holds(PushBack(g, key, id), k, o) <=>
                            Holds(g, k, o) \/ (k = key /\ o = id)
<1>0. PICK h : h = PushBack(g, key, id)
  OBVIOUS
<1> SUFFICES /\ ListsOK(h)
             /\ \A k, o : Holds(h, k, o) <=> Holds(g, k, o) \/ (k = key /\ o = id)
  BY <1>0
<1>1. DOMAIN h = DOMAIN g \cup {key}
  BY <1>0 DEF PushBack
<1>2. ASSUME NEW k \in DOMAIN g, k # key
      PROVE  h[k] = g[k]
  BY <1>0, <1>2 DEF PushBack
<1>3. CASE key \in DOMAIN g
  <2> DEFINE s == g[key]
  <2>1. h[key] = Append(s, id)
    BY <1>0, <1>3 DEF PushBack
  <2>2. s \in Seq(Ids) /\ Distinct(s) /\ ~Names(s, id)
    BY <1>3 DEF ListsOK, Holds
  <2>3. /\ Append(s, id) \in Seq(Ids) /\ Len(Append(s, id)) = Len(s) + 1
        /\ Append(s, id)[Len(s) + 1] = id
        /\ \A i \in 1..Len(s) : Append(s, id)[i] = s[i]
    BY <2>2, AppendProperties
  <2>4. Len(s) \in Nat
    BY <2>2
  <2>5. Distinct(Append(s, id)) /\ Append(s, id) # <<>>
    BY <2>2, <2>3, <2>4 DEF Distinct, Names
  <2>6. \A o : Names(Append(s, id), o) <=> Names(s, o) \/ o = id
    BY <2>3, <2>4 DEF Names
  <2> DEFINE t == Append(s, id)
  <2>7. h[key] = t /\ t \in Seq(Ids) /\ Distinct(t) /\ t # <<>>
    BY <2>1, <2>3, <2>5
  <2>8. \A o : Names(t, o) <=> Names(g[key], o) \/ o = id
    BY <2>6
  <2> HIDE DEF t
  <2>9. ListsOK(h)
    BY <1>1, <1>2, <1>3, <2>7 DEF ListsOK
  <2> QED BY <1>1, <1>2, <1>3, <2>7, <2>8, <2>9 DEF Holds
<1>4. CASE key \notin DOMAIN g
  <2>1. h[key] = <<id>>
    BY <1>0, <1>4 DEF PushBack
  <2>2. <<id>> \in Seq(Ids) /\ Distinct(<<id>>) /\ <<id>> # <<>>
    BY DEF Distinct
  <2>3. \A o : Names(<<id>>, o) <=> o = id
    BY DEF Names
  <2> QED BY <1>1, <1>2, <1>4, <2>1, <2>2, <2>3 DEF ListsOK, Holds
<1> QED BY <1>3, <1>4

\* Taking an id out of the list of a cell.
LEMMA TakeOutCorrect ==
    ASSUME NEW g, ListsOK(g), NEW key, NEW id, Holds(g, key, id)
    PROVE  /\ ListsOK(TakeOut(g, key, id))
           /\ \A k, o : Holds(TakeOut(g, key, id), k, o) <=>
                            Holds(g, k, o) /\ ~(k = key /\ o = id)
<1> DEFINE s == Without(g[key], id)
<1>0. PICK h : h = TakeOut(g, key, id)
  OBVIOUS
<1> SUFFICES /\ ListsOK(h)
             /\ \A k, o : Holds(h, k, o) <=> Holds(g, k, o) /\ ~(k = key /\ o = id)
  BY <1>0
<1>1. key \in DOMAIN g /\ g[key] \in Seq(Ids)
  BY DEF ListsOK, Holds
<1>2. /\ s \in Seq(Ids) /\ Distinct(s)
      /\ \A o : Names(s, o) <=> Names(g[key], o) /\ o # id
  BY <1>1, WithoutCorrect DEF ListsOK, Holds
<1>3. CASE s = <<>>
  <2>1. h = [k \in DOMAIN g \ {key} |-> g[k]]
    BY <1>0, <1>1, <1>3 DEF TakeOut
  <2>2. \A o : ~Names(s, o)
    BY <1>2, <1>3, EmptyHoldsNothing
  <2> HIDE DEF s
  <2> QED BY <1>1, <1>2, <2>1, <2>2 DEF ListsOK, Holds
<1>4. CASE s # <<>>
  <2>1. h = [g EXCEPT ![key] = s]
    BY <1>0, <1>1, <1>4 DEF TakeOut
  <2> HIDE DEF s
  <2> QED BY <1>1, <1>2, <1>4, <2>1 DEF ListsOK, Holds
<1> QED BY <1>3, <1>4

-----------------------------------------------------------------------------
(* Cells and keys. *)

\* A number splits into a multiple of n and a rest in one way only.
LEMMA SplitsOnce ==
    ASSUME NEW n \in Nat \ {0}, NEW p \in Int, NEW q \in Int,
           NEW l \in 0..(n - 1), NEW m \in 0..(n - 1),
           p * n + l <= q * n + m
    PROVE  p <= q
<1>1. SUFFICES ASSUME p >= q + 1
               PROVE  FALSE
  OBVIOUS
<1>2. p * n >= (q + 1) * n
  <2>1. \A a, b \in Int : a >= 0 /\ b >= 0 => a * b >= 0
    OBVIOUS
  <2>2. (p - (q + 1)) * n >= 0
    BY <1>1, <2>1
  <2> QED BY <2>2
<1>3. (q + 1) * n = q * n + n
  OBVIOUS
<1> DEFINE pn == p * n
           qn == q * n
<1>4. pn \in Int /\ qn \in Int /\ pn >= qn + n /\ pn + l <= qn + m
  BY <1>2, <1>3
<1> QED BY <1>4

LEMMA SplitsUniquely ==
    ASSUME NEW n \in Nat \ {0}, NEW p \in Int, NEW q \in Int,
           NEW l \in 0..(n - 1), NEW m \in 0..(n - 1),
           p * n + l = q * n + m
    PROVE  p = q /\ l = m
<1>1. p * n \in Int /\ q * n \in Int
  OBVIOUS
<1>2. p <= q
  BY <1>1, SplitsOnce
<1>3. q <= p
  BY <1>1, SplitsOnce
<1>4. p = q
  BY <1>2, <1>3
<1> QED BY <1>1, <1>4

\* What fits the lower half of a key.
Fits(c) == c \in Int /\ -Word < 2 * c /\ 2 * c < Word

\* cell_key is one to one.
LEMMA KeysDiffer ==
    ASSUME NEW a \in Int, NEW b, Fits(b), NEW c \in Int, NEW d, Fits(d),
           cell_key(a, b) = cell_key(c, d)
    PROVE  a = c /\ b = d
<1> USE ConstantsAssumption
<1> DEFINE l == IF b >= 0 THEN b ELSE b + Word
           m == IF d >= 0 THEN d ELSE d + Word
           p == IF b >= 0 THEN a ELSE -1 - a
           q == IF d >= 0 THEN c ELSE -1 - c
<1>1. l \in 0..(Word - 1) /\ m \in 0..(Word - 1) /\ p \in Int /\ q \in Int
  BY DEF Fits
<1>2. cell_key(a, b) = p * Word + l /\ cell_key(c, d) = q * Word + m
  BY DEF cell_key
<1>3. p * Word \in Int /\ q * Word \in Int
  BY <1>1
<1>4. p = q /\ l = m
  <2> HIDE DEF p, q, l, m
  <2>1. p * Word + l = q * Word + m
    BY <1>2
  <2> QED BY <1>1, <2>1, SplitsUniquely
<1> QED BY <1>1, <1>4 DEF Fits

\* The quotients of numbers at most n apart are at most one apart.
LEMMA QuotientsAreClose ==
    ASSUME NEW n \in Nat \ {0}, NEW x \in Nat, NEW y \in Nat, x - y <= n
    PROVE  x \div n \in Nat /\ y \div n \in Nat /\ x \div n <= y \div n + 1
<1> DEFINE q == x \div n
           r == y \div n
<1>1. /\ q \in Int /\ x = n * q + (x % n) /\ x % n \in 0..(n - 1)
      /\ r \in Int /\ y = n * r + (y % n) /\ y % n \in 0..(n - 1)
  OBVIOUS
<1>2. q >= 0 /\ r >= 0
  OBVIOUS
<1>3. q * n + (x % n) <= (r + 1) * n + (y % n)
  <2>1. (r + 1) * n = n * r + n /\ q * n = n * q /\ n * r \in Int /\ n * q \in Int
    BY <1>1
  <2> HIDE DEF q, r
  <2> QED BY <1>1, <2>1
<1>4. q <= r + 1
  <2> DEFINE a == x % n
             b == y % n
             t == r + 1
  <2>1. /\ a \in 0..(n - 1) /\ b \in 0..(n - 1) /\ q \in Int /\ t \in Int
        /\ q * n + a <= t * n + b
    BY <1>1, <1>3
  <2> HIDE DEF q, t, a, b
  <2>2. q <= t
    BY <2>1, SplitsOnce
  <2> QED BY <2>2 DEF t
<1> QED BY <1>1, <1>2, <1>4

LEMMA CellsAreClose ==
    ASSUME NEW x \in Int, NEW y \in Int, x - y <= cellSize
    PROVE  Cell(x) \in Int /\ Cell(y) \in Int /\ Cell(x) <= Cell(y) + 1
<1> USE ConstantsAssumption
<1>1. CASE x >= 0 /\ y >= 0
  BY <1>1, QuotientsAreClose DEF Cell
<1>2. CASE x < 0 /\ y < 0
  <2>1. (-y) - (-x) <= cellSize /\ -x \in Nat /\ -y \in Nat
    BY <1>2
  <2>2. (-y) \div cellSize <= (-x) \div cellSize + 1
        /\ (-y) \div cellSize \in Nat /\ (-x) \div cellSize \in Nat
    BY <2>1, QuotientsAreClose
  <2> QED BY <1>2, <2>2 DEF Cell
<1>3. CASE x < 0 /\ y >= 0
  <2>1. (-x) \div cellSize \in Nat /\ y \div cellSize \in Nat
    BY <1>3
  <2> QED BY <1>3, <2>1 DEF Cell
<1>4. CASE x >= 0 /\ y < 0
  <2>1. x \div cellSize = 0
    BY <1>4
  <2>2. (-y) - 0 <= cellSize /\ -y \in Nat
    BY <1>4
  <2>3. 0 \div cellSize = 0
    OBVIOUS
  <2>4. (-y) \div cellSize \in Nat /\ (-y) \div cellSize <= 1
    BY <2>2, <2>3, QuotientsAreClose
  <2> QED BY <1>4, <2>1, <2>4 DEF Cell
<1> QED BY <1>1, <1>2, <1>3, <1>4

\* A leg is not longer than the hypotenuse.
LEMMA LegsAreShort ==
    ASSUME NEW a \in Int, NEW b \in Int, NEW p \in Nat, a * a + b * b <= p * p
    PROVE  -p <= a /\ a <= p
<1>1. b * b >= 0 /\ a * a <= p * p
  OBVIOUS
<1>2. \A c \in Nat : c * c <= p * p => c <= p
  <2>1. SUFFICES ASSUME NEW c \in Nat, c >= p + 1
                 PROVE  c * c > p * p
    OBVIOUS
  <2>2. (c - (p + 1)) * (c + (p + 1)) >= 0
    BY <2>1
  <2> QED BY <2>2
<1>3. CASE a >= 0
  BY <1>1, <1>2, <1>3
<1>4. CASE a < 0
  <2>1. -a \in Nat /\ (-a) * (-a) = a * a
    BY <1>4
  <2> QED BY <1>1, <1>2, <2>1
<1> QED BY <1>3, <1>4

-----------------------------------------------------------------------------
(* The inductive invariant. *)

\* An id is listed under the key of its entity and under no other key.
HoldsEntities ==
    \A k, o : Holds(grid, k, o) <=> o \in DOMAIN entities /\ Key(entities[o]) = k

Inv == TypeOK /\ ListsOK(grid) /\ HoldsEntities

\* update_entity, the first time.
LEMMA RegisterKeepsInv ==
    ASSUME Inv, NEW id \in Ids, NEW x \in Coordinates, NEW y \in Coordinates,
           NEW p \in Proximities, NEW ptr \in Pointers, Register(id, x, y, p, ptr)
    PROVE  Inv'
<1> DEFINE e == Data(x, y, p, ptr)
<1>1. /\ id \notin DOMAIN entities /\ grid' = PushBack(grid, Key(e), id)
      /\ DOMAIN entities' = DOMAIN entities \cup {id}
      /\ entities'[id] = e
      /\ \A i \in DOMAIN entities : entities'[i] = entities[i]
  BY DEF Register
<1>2. ~Holds(grid, Key(e), id)
  BY <1>1 DEF Inv, HoldsEntities
<1>3. /\ ListsOK(grid')
      /\ \A k, o : Holds(grid', k, o) <=> Holds(grid, k, o) \/ (k = Key(e) /\ o = id)
  BY <1>1, <1>2, PushBackCorrect DEF Inv
<1>4. HoldsEntities'
  <2> HIDE DEF e
  <2>1. \A o \in DOMAIN entities' :
            Key(entities'[o]) = IF o = id THEN Key(e) ELSE Key(entities[o])
    BY <1>1 DEF Key
  <2> QED BY <1>1, <1>3, <2>1 DEF Inv, HoldsEntities, Key
<1>5. TypeOK'
  BY <1>1, <1>3 DEF Inv, TypeOK, ListsOK
<1> QED BY <1>3, <1>4, <1>5 DEF Inv

\* update_entity of an entity that stays in its cell.
LEMMA StayInCellKeepsInv ==
    ASSUME Inv, NEW id \in DOMAIN entities, NEW x \in Coordinates, NEW y \in Coordinates,
           NEW p \in Proximities,
           Cell(x) = entities[id].cellX, Cell(y) = entities[id].cellY,
           entities' = [entities EXCEPT ![id] = Data(x, y, p, @.ptr)], grid' = grid
    PROVE  Inv'
<1>1. /\ DOMAIN entities' = DOMAIN entities
      /\ entities'[id] = Data(x, y, p, entities[id].ptr)
      /\ \A i \in DOMAIN entities \ {id} : entities'[i] = entities[i]
  OBVIOUS
<1>2. \A o \in DOMAIN entities : Key(entities'[o]) = Key(entities[o])
  BY <1>1 DEF Key, Data
<1>3. entities[id].ptr \in Pointers
  BY DEF Inv, TypeOK, Data
<1>4. TypeOK'
  BY <1>1, <1>3 DEF Inv, TypeOK
<1>5. HoldsEntities'
  BY <1>1, <1>2 DEF Inv, HoldsEntities, Key
<1> QED BY <1>4, <1>5 DEF Inv, ListsOK

LEMMA MoveAcrossKeepsInv ==
    ASSUME Inv, NEW id \in Ids, NEW x \in Coordinates, NEW y \in Coordinates,
           NEW p \in Proximities, MoveAcross(id, x, y, p)
    PROVE  Inv'
<1> DEFINE e == Data(x, y, p, entities[id].ptr)
           old == Key(entities[id])
           g == TakeOut(grid, old, id)
<1>1. /\ id \in DOMAIN entities /\ grid' = PushBack(g, Key(e), id)
      /\ DOMAIN entities' = DOMAIN entities
      /\ entities'[id] = e
      /\ \A i \in DOMAIN entities \ {id} : entities'[i] = entities[i]
  BY DEF MoveAcross
<1>2. Holds(grid, old, id)
  BY <1>1 DEF Inv, HoldsEntities
<1>3. ListsOK(g) /\ \A k, o : Holds(g, k, o) <=> Holds(grid, k, o) /\ ~(k = old /\ o = id)
  BY <1>2, TakeOutCorrect DEF Inv
<1>4. ~Holds(g, Key(e), id)
  BY <1>3 DEF Inv, HoldsEntities
<1>5. /\ ListsOK(grid')
      /\ \A k, o : Holds(grid', k, o) <=> Holds(g, k, o) \/ (k = Key(e) /\ o = id)
  <2> HIDE DEF g, e
  <2> QED BY <1>1, <1>3, <1>4, PushBackCorrect
<1>6. HoldsEntities'
  <2> HIDE DEF e, g
  <2>1. \A o \in DOMAIN entities :
            Key(entities'[o]) = IF o = id THEN Key(e) ELSE Key(entities[o])
    BY <1>1 DEF Key
  <2> QED BY <1>1, <1>3, <1>5, <2>1 DEF Inv, HoldsEntities, Key
<1>7. entities[id].ptr \in Pointers
  BY <1>1 DEF Inv, TypeOK, Data
<1>8. TypeOK'
  BY <1>1, <1>5, <1>7 DEF Inv, TypeOK, ListsOK
<1> QED BY <1>5, <1>6, <1>8 DEF Inv

LEMMA RemoveKeepsInv ==
    ASSUME Inv, NEW id \in Ids, remove_entity(id)
    PROVE  Inv'
<1> DEFINE old == Key(entities[id])
<1>1. /\ id \in DOMAIN entities /\ grid' = TakeOut(grid, old, id)
      /\ DOMAIN entities' = DOMAIN entities \ {id}
      /\ \A i \in DOMAIN entities' : entities'[i] = entities[i]
  BY DEF remove_entity
<1>2. Holds(grid, old, id)
  BY <1>1 DEF Inv, HoldsEntities
<1>3. /\ ListsOK(grid')
      /\ \A k, o : Holds(grid', k, o) <=> Holds(grid, k, o) /\ ~(k = old /\ o = id)
  BY <1>1, <1>2, TakeOutCorrect DEF Inv
<1>4. HoldsEntities'
  <2>1. \A o \in DOMAIN entities' : Key(entities'[o]) = Key(entities[o])
    BY <1>1 DEF Key
  <2> QED BY <1>1, <1>3, <2>1 DEF Inv, HoldsEntities, Key
<1>5. TypeOK'
  BY <1>1, <1>3 DEF Inv, TypeOK, ListsOK
<1> QED BY <1>3, <1>4, <1>5 DEF Inv

THEOREM Invariance == Spec => []Inv
<1>1. Init => Inv
  BY DEF Init, Inv, TypeOK, ListsOK, HoldsEntities, Holds
<1>2. Inv /\ [Next]_vars => Inv'
  <2> SUFFICES ASSUME Inv, [Next]_vars
               PROVE  Inv'
    OBVIOUS
  <2>1. ASSUME NEW id \in Ids, remove_entity(id)
        PROVE  Inv'
    BY <2>1, RemoveKeepsInv
  <2>2. ASSUME NEW id \in Ids, NEW p \in Proximities, Stay(id, p)
        PROVE  Inv'
    <3>1. PICK x \in Coordinates, y \in Coordinates, q \in Proximities, ptr \in Pointers :
              entities[id] = Data(x, y, q, ptr)
      BY <2>2 DEF Stay, Inv, TypeOK
    <3>2. [entities EXCEPT ![id].proximity = p] = [entities EXCEPT ![id] = Data(x, y, p, @.ptr)]
      <4>1. [entities[id] EXCEPT !.proximity = p] = Data(x, y, p, entities[id].ptr)
        BY <3>1 DEF Data
      <4> QED BY <4>1
    <3>3. Cell(x) = entities[id].cellX /\ Cell(y) = entities[id].cellY
      BY <3>1 DEF Data
    <3> QED BY <2>2, <3>2, <3>3, StayInCellKeepsInv DEF Stay
  <2>3. ASSUME NEW id \in Ids, NEW p \in Proximities,
               NEW x \in Coordinates, NEW y \in Coordinates, MoveWithin(id, x, y, p)
        PROVE  Inv'
    BY <2>3, StayInCellKeepsInv DEF MoveWithin
  <2>4. ASSUME NEW id \in Ids, NEW p \in Proximities,
               NEW x \in Coordinates, NEW y \in Coordinates, MoveAcross(id, x, y, p)
        PROVE  Inv'
    BY <2>4, MoveAcrossKeepsInv
  <2>5. ASSUME NEW id \in Ids, NEW p \in Proximities, NEW x \in Coordinates,
               NEW y \in Coordinates, NEW ptr \in Pointers, Register(id, x, y, p, ptr)
        PROVE  Inv'
    BY <2>5, RegisterKeepsInv
  <2>6. CASE UNCHANGED vars
    BY <2>6 DEF vars, Inv, TypeOK, ListsOK, HoldsEntities, Holds, Names, Key
  <2> QED BY <2>1, <2>2, <2>3, <2>4, <2>5, <2>6 DEF Next
<1> QED BY <1>1, <1>2, PTL DEF Spec

\* TypeOK, for every instance.
THEOREM TypeCorrect == Spec => []TypeOK
<1>1. Inv => TypeOK
  BY DEF Inv
<1> QED BY <1>1, Invariance, PTL

\* The grid and the entities never disagree.
THEOREM GridCorrect == Spec => []GridMatches
<1>1. Inv => GridMatches
  <2> SUFFICES ASSUME Inv
               PROVE  GridMatches
    OBVIOUS
  <2>1. ASSUME NEW id \in DOMAIN entities
        PROVE  /\ Key(entities[id]) \in DOMAIN grid
               /\ \E i \in 1..Len(grid[Key(entities[id])]) : grid[Key(entities[id])][i] = id
    BY DEF Inv, HoldsEntities, Holds, Names
  <2>2. ASSUME NEW k \in DOMAIN grid, NEW i \in 1..Len(grid[k])
        PROVE  grid[k][i] \in DOMAIN entities /\ Key(entities[grid[k][i]]) = k
    <3>1. Holds(grid, k, grid[k][i])
      BY DEF Holds, Names
    <3> QED BY <3>1 DEF Inv, HoldsEntities
  <2>3. ASSUME NEW k \in DOMAIN grid
        PROVE  \E id \in DOMAIN entities : Key(entities[id]) = k
    <3>1. PICK o : Names(grid[k], o)
      BY EmptyHoldsNothing DEF Inv, ListsOK
    <3>2. Holds(grid, k, o)
      BY <3>1 DEF Holds
    <3> QED BY <3>2 DEF Inv, HoldsEntities
  <2>4. DOMAIN grid = {Key(entities[id]) : id \in DOMAIN entities}
    BY <2>1, <2>3
  <2> QED BY <2>1, <2>2, <2>4 DEF GridMatches, Inv, ListsOK, Distinct
<1> QED BY <1>1, Invariance, PTL

\* The cells of a registered entity, and the numbers that place it.
LEMMA EntityFacts ==
    ASSUME TypeOK, NEW id \in DOMAIN entities
    PROVE  /\ id \in Ids
           /\ entities[id].x \in Int /\ entities[id].y \in Int
           /\ entities[id].proximity \in Nat
           /\ entities[id].cellX = Cell(entities[id].x) /\ entities[id].cellX \in Int
           /\ entities[id].cellY = Cell(entities[id].y) /\ entities[id].cellY \in Int
           /\ \A d \in Window : Fits(entities[id].cellY + d)
           /\ Fits(entities[id].cellY)
<1>1. PICK x \in Coordinates, y \in Coordinates, p \in Proximities, ptr \in Pointers :
          entities[id] = Data(x, y, p, ptr)
  BY DEF TypeOK
<1>2. /\ entities[id].x = x /\ entities[id].y = y /\ entities[id].proximity = p
      /\ entities[id].cellX = Cell(x) /\ entities[id].cellY = Cell(y)
  BY <1>1 DEF Data
<1>3. x \in Int /\ y \in Int /\ p \in Nat /\ Cell(x) \in Int /\ Cell(y) \in Int /\ Narrow(Cell(y))
  BY ConstantsAssumption
<1>4. \A d \in Window \cup {0} : Fits(Cell(y) + d)
  BY <1>3, ConstantsAssumption DEF Window, Fits, Narrow
<1>5. Cell(y) + 0 = Cell(y)
  BY <1>3
<1> QED BY <1>2, <1>3, <1>4, <1>5 DEF TypeOK

\* No list is read twice.
THEOREM NoListReadTwice == Spec => []ListsDiffer
<1>1. TypeOK => ListsDiffer
  <2> SUFFICES ASSUME TypeOK, NEW id \in DOMAIN entities,
                      NEW d \in Window \X Window, NEW e \in Window \X Window,
                      Neighbour(id, d) = Neighbour(id, e)
               PROVE  d = e
    BY DEF ListsDiffer
  <2> DEFINE cx == entities[id].cellX
             cy == entities[id].cellY
  <2>1. /\ d[1] \in Window /\ d[2] \in Window /\ e[1] \in Window /\ e[2] \in Window
        /\ d = <<d[1], d[2]>> /\ e = <<e[1], e[2]>>
    OBVIOUS
  <2>2. cx \in Int /\ cy \in Int /\ Fits(cy + d[2]) /\ Fits(cy + e[2])
    BY <2>1, EntityFacts
  <2>3. d[1] \in Int /\ d[2] \in Int /\ e[1] \in Int /\ e[2] \in Int
    BY <2>1 DEF Window
  <2>4. cx + d[1] = cx + e[1] /\ cy + d[2] = cy + e[2]
    <3>1. cell_key(cx + d[1], cy + d[2]) = cell_key(cx + e[1], cy + e[2])
      BY DEF Neighbour
    <3>2. cx + d[1] \in Int /\ cx + e[1] \in Int
      BY <2>2, <2>3
    <3> QED BY <2>2, <3>1, <3>2, KeysDiffer
  <2>5. d[1] = e[1] /\ d[2] = e[2]
    <3>1. \A a, b, c \in Int : a + b = a + c => b = c
      OBVIOUS
    <3> HIDE DEF cx, cy
    <3> QED BY <2>2, <2>3, <2>4, <3>1
  <2> QED BY <2>1, <2>5, Zenon
<1> QED BY <1>1, TypeCorrect, PTL

\* The nine cells hold all that is within the proximity.
THEOREM NearbyCorrect == Spec => []NearbyIsExact
<1>1. Inv => NearbyIsExact
  <2> SUFFICES ASSUME Inv, NEW id \in DOMAIN entities, entities[id].proximity <= cellSize
               PROVE  Nearby(id) = {o \in DOMAIN entities \ {id} :
                                        IsNear(entities[id], entities[o])}
    BY DEF NearbyIsExact
  <2> DEFINE e == entities[id]
  <2>1. ASSUME NEW o \in Ids, NEW d \in Window \X Window, Lists(id, d, o)
        PROVE  o \in DOMAIN entities
    <3>1. Holds(grid, Neighbour(id, d), o)
      BY <2>1 DEF Lists, Holds, Names
    <3> QED BY <3>1 DEF Inv, HoldsEntities
  <2>2. ASSUME NEW o \in DOMAIN entities, IsNear(entities[id], entities[o])
        PROVE  \E d \in Window \X Window : Lists(id, d, o)
    <3> DEFINE f == entities[o]
    <3>1. /\ e.x \in Int /\ e.y \in Int /\ e.proximity \in Nat
          /\ e.cellX = Cell(e.x) /\ e.cellY = Cell(e.y) /\ e.cellX \in Int /\ e.cellY \in Int
          /\ f.x \in Int /\ f.y \in Int
          /\ f.cellX = Cell(f.x) /\ f.cellY = Cell(f.y) /\ f.cellX \in Int /\ f.cellY \in Int
      BY EntityFacts DEF Inv
    <3>2. (e.x - f.x) * (e.x - f.x) + (e.y - f.y) * (e.y - f.y) <= e.proximity * e.proximity
      BY <2>2 DEF IsNear, DistSq
    <3> DEFINE a == e.x - f.x
               b == e.y - f.y
               q == e.proximity
    <3>3. a \in Int /\ b \in Int /\ q \in Nat /\ a * a + b * b <= q * q
      BY <3>1, <3>2
    <3>4. -q <= a /\ a <= q /\ -q <= b /\ b <= q
      <4> HIDE DEF a, b, q
      <4>1. a * a \in Int /\ b * b \in Int
        BY <3>3
      <4>2. b * b + a * a <= q * q
        BY <3>3, <4>1
      <4> QED BY <3>3, <4>2, LegsAreShort
    <3>5. /\ e.x - f.x <= cellSize /\ f.x - e.x <= cellSize
          /\ e.y - f.y <= cellSize /\ f.y - e.y <= cellSize
      BY <3>1, <3>4, ConstantsAssumption
    <3>6. f.cellX - e.cellX \in Window /\ f.cellY - e.cellY \in Window
      <4>1. e.cellX <= f.cellX + 1 /\ f.cellX <= e.cellX + 1
        BY <3>1, <3>5, CellsAreClose
      <4>2. e.cellY <= f.cellY + 1 /\ f.cellY <= e.cellY + 1
        BY <3>1, <3>5, CellsAreClose
      <4> QED BY <3>1, <4>1, <4>2 DEF Window
    <3> DEFINE d == <<f.cellX - e.cellX, f.cellY - e.cellY>>
    <3>7. Neighbour(id, d) = Key(f)
      BY <3>1 DEF Neighbour, Key
    <3>8. Holds(grid, Key(f), o)
      BY DEF Inv, HoldsEntities
    <3>9. Lists(id, d, o)
      BY <3>7, <3>8 DEF Lists, Holds, Names
    <3> QED BY <3>6, <3>9
  <2> QED BY <2>1, <2>2 DEF Nearby, Inv, TypeOK
<1> QED BY <1>1, Invariance, PTL
=============================================================================
