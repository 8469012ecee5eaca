------------------------------ MODULE Display ------------------------------
(***************************************************************************)
(* What the developer console, the editor and the game change in a level's *)
(* display: the viewpoint (src/lib/bin/types/display.h) and the modifiers  *)
(* of its camera, name-value pairs that are looked up by binary search     *)
(* (src/lib/bin/types/modifier.h; an entity has such a list, too).  A name *)
(* is its rank in the order of names.                                      *)
(***************************************************************************)
EXTENDS Integers, Sequences

CONSTANTS
    Names,                 \* of modifiers
    Values,                \* that modifiers are given
    Defaults,              \* the lists a camera may be built with
    MaxModifiers,          \* bound: no list gets longer
    Viewpoints,            \* what setvp and move_to set
    Steps,                 \* the distances a viewpoint is moved by
    max_width, max_height, \* the size of the level's base texture
    MaxInt, Word           \* 2^31 - 1, and 2^64: size_t wraps around there

\* The values of an int.
Ints == (-MaxInt - 1)..MaxInt

ASSUME ConstantsAssumption ==
    /\ Names \subseteq Int
    /\ 0 \in Values /\ Values \subseteq Int
    /\ \A s \in Defaults : s \in Seq([name : Names, value : Values])
    /\ MaxModifiers \in Nat
    /\ MaxInt \in Nat /\ Word \in Nat /\ 2 * MaxInt + 1 < Word
    /\ Viewpoints \subseteq [x1 : Ints, y1 : Ints, x2 : Ints, y2 : Ints]
    /\ Steps \subseteq Int
    /\ max_width \in 0..MaxInt /\ max_height \in 0..MaxInt

VARIABLES
    modifiers,      \* ModifierList::values
    viewpoint,      \* start is <<x1, y1>>, end is <<x2, y2>>
    width, height   \* size_t

size == <<width, height>>
vars == <<modifiers, viewpoint, size>>

-----------------------------------------------------------------------------
(* ModifierList. *)

Sorted(s) == \A i, j \in 1..Len(s) : i < j => s[i].name <= s[j].name

\* std::sort: equal names may change places.
Orders(n) == {p \in [1..n -> 1..n] : \A i, j \in 1..n : p[i] = p[j] => i = j}
Sortings(s) ==
    {t \in {[i \in 1..Len(s) |-> s[p[i]]] : p \in Orders(Len(s))} : Sorted(t)}

\* What is left of s to search: <<i, n>> stands for n entries from i on.
Ranges(s) == {r \in (1..(Len(s) + 1)) \X (0..Len(s)) : r[1] + r[2] <= Len(s) + 1}

\* Mutant: the first name that is greater.
upper_bound(s, key) ==
    LET from[r \in Ranges(s)] ==
            LET half == r[2] \div 2
                mid == r[1] + half IN
            IF r[2] = 0 THEN r[1]
            ELSE IF s[mid].name <= key THEN from[<<mid + 1, r[2] - half - 1>>]
            ELSE from[<<r[1], half>>]
    IN  from[<<1, Len(s)>>]

\* std::lower_bound, by halves.
lower_bound(s, key) ==
    LET from[r \in Ranges(s)] ==
            LET half == r[2] \div 2
                mid == r[1] + half IN
            IF r[2] = 0 THEN r[1]
            ELSE IF s[mid].name < key THEN from[<<mid + 1, r[2] - half - 1>>]
            ELSE from[<<r[1], half>>]
    IN  from[<<1, Len(s)>>]

Found(s, key) == lower_bound(s, key) <= Len(s) /\ s[lower_bound(s, key)].name = key

get_value(s, key) == IF Found(s, key) THEN s[lower_bound(s, key)].value ELSE -1
has_value(s, key) == get_value(s, key) # -1

set_value(s, key, v) ==
    IF Found(s, key) THEN [s EXCEPT ![lower_bound(s, key)].value = v] ELSE s

add_value(s, key, v) == Sortings(Append(s, [name |-> key, value |-> v]))

Without(s, i) == [j \in 1..(Len(s) - 1) |-> IF j < i THEN s[j] ELSE s[j + 1]]

erase(s, key) == IF Found(s, key) THEN Sortings(Without(s, lower_bound(s, key))) ELSE {s}

\* Mutant: nothing is looked for.
ModAdds(key, v) ==
    /\ Len(modifiers) < MaxModifiers /\ modifiers' \in add_value(modifiers, key, v)
    /\ UNCHANGED <<viewpoint, size>>

\* The command "mod", and the loading of a modifier that has been saved.
Mod(key, v) ==
    /\ IF has_value(modifiers, key) THEN modifiers' = set_value(modifiers, key, v)
       ELSE Len(modifiers) < MaxModifiers /\ modifiers' \in add_value(modifiers, key, v)
    /\ UNCHANGED <<viewpoint, size>>

\* An entity's z_index, or the frame rate of one that is animated, whose list is
\* sorted first.
AddMissing(key, v) ==
    /\ IF has_value(modifiers, key) THEN UNCHANGED modifiers
       ELSE Len(modifiers) < MaxModifiers /\ modifiers' \in add_value(modifiers, key, v)
    /\ UNCHANGED <<viewpoint, size>>

Sort ==
    /\ modifiers' \in Sortings(modifiers)
    /\ UNCHANGED <<viewpoint, size>>

\* The level editor and the imgui console edit the entries in place.
Edit(i, v) ==
    /\ modifiers' = [modifiers EXCEPT ![i].value = v]
    /\ UNCHANGED <<viewpoint, size>>

\* One is added, whatever there is.
AddValue(key, v) ==
    /\ Len(modifiers) < MaxModifiers
    /\ modifiers' \in add_value(modifiers, key, v)
    /\ UNCHANGED <<viewpoint, size>>

Erase(key) ==
    /\ modifiers' \in erase(modifiers, key)
    /\ UNCHANGED <<viewpoint, size>>

\* modifiers[key] and an assignment to its value.
AssignAt(key, v) ==
    /\ Found(modifiers, key) \/ Len(modifiers) < MaxModifiers
    /\ \E s \in IF Found(modifiers, key) THEN {modifiers} ELSE add_value(modifiers, key, 0) :
           modifiers' = set_value(s, key, v)
    /\ UNCHANGED <<viewpoint, size>>

-----------------------------------------------------------------------------
(* The viewpoint. *)

\* An int that is compared with a size_t becomes one.
Unsigned(i) == IF i >= 0 THEN i ELSE i + Word

\* Mutant: the limits are ints.
AboveSigned(i, limit) == i > limit
Above(i, limit) == Unsigned(i) > limit

SetViewpoint(vp) ==
    /\ viewpoint' = vp
    /\ UNCHANGED <<modifiers, size>>

\* Mutant: the size is an int.
SignedFrame ==
    /\ width' = viewpoint.x2 - viewpoint.x1
    /\ height' = viewpoint.y2 - viewpoint.y1
    /\ UNCHANGED <<modifiers, viewpoint>>

\* A frame is drawn: set_resolution makes the size the viewpoint's.
Frame ==
    /\ width' = Unsigned(viewpoint.x2 - viewpoint.x1)
    /\ height' = Unsigned(viewpoint.y2 - viewpoint.y1)
    /\ UNCHANGED <<modifiers, viewpoint>>

MayMove(vp) ==
    /\ vp.x2 >= 0 /\ vp.x1 >= 0
    /\ ~Above(vp.x2, max_width) /\ ~Above(vp.x1, max_width)
    /\ vp.y2 >= 0   \* tested twice
    /\ ~Above(vp.y2, max_height) /\ ~Above(vp.y1, max_height)
    /\ Unsigned(vp.x2 - vp.x1) = width /\ Unsigned(vp.y2 - vp.y1) = height

move_viewpoint_by(dx, dy) ==
    LET vp == [x1 |-> viewpoint.x1 + dx, y1 |-> viewpoint.y1 + dy,
               x2 |-> viewpoint.x2 + dx, y2 |-> viewpoint.y2 + dy] IN
    /\ {vp.x1, vp.y1, vp.x2, vp.y2} \subseteq Ints   \* bound: an int does not overflow
    /\ MayMove(vp)
    /\ viewpoint' = vp
    /\ UNCHANGED <<modifiers, size>>

-----------------------------------------------------------------------------
Init ==
    /\ modifiers \in Defaults
    /\ viewpoint \in Viewpoints
    /\ width = Unsigned(viewpoint.x2 - viewpoint.x1)
    /\ height = Unsigned(viewpoint.y2 - viewpoint.y1)

ModifierStep ==
    \E key \in Names :
        \/ Erase(key)
        \/ \E v \in Values :
               Mod(key, v) \/ AddMissing(key, v) \/ AddValue(key, v) \/ AssignAt(key, v)

EntryStep == Sort \/ \E i \in 1..Len(modifiers), v \in Values : Edit(i, v)

ViewpointStep ==
    \/ \E vp \in Viewpoints : SetViewpoint(vp)
    \/ Frame
    \/ \E dx, dy \in Steps : move_viewpoint_by(dx, dy)

Next == ModifierStep \/ EntryStep \/ ViewpointStep

Spec == Init /\ [][Next]_vars

-----------------------------------------------------------------------------
TypeOK ==
    /\ modifiers \in Seq([name : Names, value : Values])
    /\ viewpoint \in [x1 : Ints, y1 : Ints, x2 : Ints, y2 : Ints]
    /\ width \in 0..(Word - 1) /\ height \in 0..(Word - 1)

\* In a sorted list a name finds the first entry that has it, or -1 if none has
\* (modifier.h:76-94).
FindsFirst ==
    Sorted(modifiers) =>
        \A key \in Names :
            LET Having == {i \in 1..Len(modifiers) : modifiers[i].name = key} IN
            IF Having = {} THEN get_value(modifiers, key) = -1
            ELSE \E i \in Having :
                     /\ \A j \in Having : i <= j
                     /\ get_value(modifiers, key) = modifiers[i].value

\* No name twice, and no value that reads as none.
Plain(s) ==
    /\ Sorted(s)
    /\ \A i, j \in 1..Len(s) : s[i].name = s[j].name => i = j
    /\ \A i \in 1..Len(s) : s[i].value # -1

AsMap(s) == [key \in Names |-> get_value(s, key)]

\* Such a list is a map: what the command mod, an assignment and an erasure do to it
\* changes that name and leaves the others (console.h:186-189, modifier.h:40-70), and
\* a missing name is added once (entity.h:130-131, 166-167, 620-621).
PlainIsMap ==
    [][Plain(modifiers) =>
        \A key \in Names :
            /\ Erase(key) => AsMap(modifiers') = [AsMap(modifiers) EXCEPT ![key] = -1]
            /\ \A v \in Values :
                Mod(key, v) \/ AssignAt(key, v) =>
                    AsMap(modifiers') = [AsMap(modifiers) EXCEPT ![key] = v]
            /\ \A v \in Values :
                AddMissing(key, v) =>
                    AsMap(modifiers') = [AsMap(modifiers) EXCEPT ![key] = IF @ = -1 THEN v ELSE @]]_vars

\* A viewpoint that has been moved lies in the level on all sides, though its upper
\* side is not tested for (display.h:241): an int below 0 is not below the height.
MovesInside ==
    [][\A dx, dy \in Steps : move_viewpoint_by(dx, dy) =>
        /\ {viewpoint'.x1, viewpoint'.x2} \subseteq 0..max_width
        /\ {viewpoint'.y1, viewpoint'.y2} \subseteq 0..max_height]_vars

\* An entry of the list is found by its name (modifier.h:32-33: the list is sorted for
\* the search; camera.h:349-354: efficient_render is enabled by default).
EntriesFound ==
    \A i \in 1..Len(modifiers) : modifiers[i].value # -1 => has_value(modifiers, modifiers[i].name)
=============================================================================
