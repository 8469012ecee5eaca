--------------------------- MODULE DisplayProofs ---------------------------
(***************************************************************************)
(* Proofs about Display, for any names and values, any list a camera is    *)
(* built with, any viewpoint that is set and any width of int and size_t.  *)
(* Induction over the list is an argument by least counterexample, since   *)
(* the library's theorem about minimal elements is one of sets.            *)
(***************************************************************************)
EXTENDS Display, SequenceTheorems, FiniteSetTheorems, WellFoundedInduction, TLAPS

Entries == [name : Names, value : Values]

-----------------------------------------------------------------------------
(* Binary search. *)

\* A set of numbers that is not empty has a least one.
LEMMA LeastIs ==
    ASSUME NEW T \in SUBSET Nat, T # {}
    PROVE  \E x \in T : \A y \in T : x <= y
<1>1. PICK x \in T : \A y \in T : <<y, x>> \notin OpToRel(<, Nat)
  BY NatLessThanWellFounded, WFMin
<1>2. \A y \in T : ~ (y < x)
  BY <1>1 DEF OpToRel
<1> QED BY <1>2

\* What the search makes of the range r, if f is what it makes of smaller ones.
Halved(s, key, f, r) ==
    LET half == r[2] \div 2
        mid == r[1] + half IN
    IF r[2] = 0 THEN r[1]
    ELSE IF s[mid].name < key THEN f[<<mid + 1, r[2] - half - 1>>]
    ELSE f[<<r[1], half>>]
Search(s, key) == CHOOSE f : f = [r \in Ranges(s) |-> Halved(s, key, f, r)]

\* The two halves of a range are ranges, and smaller.
LEMMA HalvesAre ==
    ASSUME NEW s, Len(s) \in Nat, NEW r \in Ranges(s), r[2] # 0,
           NEW half, half = r[2] \div 2
    PROVE  /\ half \in Nat /\ half < r[2] /\ r[1] + half \in 1..Len(s)
           /\ <<r[1] + half + 1, r[2] - half - 1>> \in Ranges(s)
           /\ <<r[1], half>> \in Ranges(s)
<1>1. /\ r[1] \in 1..(Len(s) + 1) /\ r[2] \in 1..Len(s)
      /\ r[1] + r[2] <= Len(s) + 1
  BY DEF Ranges
<1>2. half \in Nat /\ half < r[2]
  BY <1>1
<1>3. \A i \in 1..(Len(s) + 1), n \in 0..Len(s) :
          i + n <= Len(s) + 1 => <<i, n>> \in Ranges(s)
  BY DEF Ranges
<1>4. /\ r[1] \in Nat /\ r[1] >= 1 /\ r[2] \in Nat /\ r[2] <= Len(s)
      /\ half <= Len(s) /\ r[1] + half <= Len(s)
  BY <1>1, <1>2
<1>5. <<r[1] + half + 1, r[2] - half - 1>> \in Ranges(s)
  <2>1. r[1] + half + 1 \in 1..(Len(s) + 1)
    BY <1>4
  <2>2. r[2] - half - 1 \in 0..Len(s)
    BY <1>2, <1>4
  <2>3. (r[1] + half + 1) + (r[2] - half - 1) = r[1] + r[2]
    BY <1>2, <1>4
  <2> QED BY <1>1, <1>3, <2>1, <2>2, <2>3
<1>6. <<r[1], half>> \in Ranges(s) /\ r[1] + half \in 1..Len(s)
  BY <1>1, <1>2, <1>3, <1>4
<1> QED BY <1>2, <1>5, <1>6

\* The search is a function: what it makes of a range depends on smaller ones only.
LEMMA SearchIs ==
    ASSUME NEW s, Len(s) \in Nat, NEW key
    PROVE  Search(s, key) = [r \in Ranges(s) |-> Halved(s, key, Search(s, key), r)]
<1> DEFINE Upto(n) == {r \in Ranges(s) : r[2] <= n}
           Is(f, n) == f = [r \in Upto(n) |-> Halved(s, key, f, r)]
           Lacking == {n \in Nat : ~ \E f : Is(f, n)}
<1>0. \A r \in Ranges(s) : r[2] \in Nat /\ r[2] <= Len(s)
  BY DEF Ranges
<1>1. \E f : Is(f, 0)
  <2> DEFINE f == [r \in Upto(0) |-> r[1]]
  <2>1. \A r \in Upto(0) : Halved(s, key, f, r) = r[1]
    BY <1>0 DEF Halved
  <2>2. Is(f, 0)
    BY <2>1
  <2> QED BY <2>2
<1>2. ASSUME NEW n \in Nat, NEW f, Is(f, n)  PROVE \E g : Is(g, n + 1)
  <2> DEFINE g == [r \in Upto(n + 1) |-> Halved(s, key, f, r)]
  <2>1. ASSUME NEW r \in Upto(n)  PROVE r \in Upto(n + 1) /\ g[r] = f[r]
    <3>1. r \in Upto(n + 1)
      BY <1>0
    <3>2. g[r] = Halved(s, key, f, r)
      BY <3>1
    <3>3. f[r] = Halved(s, key, f, r)
      BY <1>2
    <3> QED BY <3>1, <3>2, <3>3
  <2>2. ASSUME NEW r \in Upto(n + 1)
        PROVE  Halved(s, key, g, r) = Halved(s, key, f, r)
    <3> HIDE DEF g
    <3>1. CASE r[2] = 0
      BY <3>1 DEF Halved
    <3>2. CASE r[2] # 0
      <4> DEFINE half == r[2] \div 2
      <4>1. /\ half \in Nat /\ half < r[2]
            /\ <<r[1] + half + 1, r[2] - half - 1>> \in Ranges(s)
            /\ <<r[1], half>> \in Ranges(s)
        BY <3>2, HalvesAre
      <4>2. half <= n /\ r[2] - half - 1 <= n
        BY <1>0, <4>1
      <4>3. /\ <<r[1] + half + 1, r[2] - half - 1>> \in Upto(n)
            /\ <<r[1], half>> \in Upto(n)
        BY <4>1, <4>2
      <4>4. /\ g[<<r[1] + half + 1, r[2] - half - 1>>] = f[<<r[1] + half + 1, r[2] - half - 1>>]
            /\ g[<<r[1], half>>] = f[<<r[1], half>>]
        BY <2>1, <4>3
      <4> HIDE DEF Upto
      <4> QED BY <4>4 DEF Halved
    <3> QED BY <3>1, <3>2
  <2>3. Is(g, n + 1)
    <3> DEFINE h == [r \in Upto(n + 1) |-> Halved(s, key, g, r)]
    <3>1. g = h
      <4> HIDE DEF Upto
      <4> QED BY <2>2
    <3> HIDE DEF g
    <3> QED BY <3>1
  <2> QED BY <2>3
<1>3. Lacking = {}
  <2> SUFFICES ASSUME Lacking # {}  PROVE FALSE
    OBVIOUS
  <2>1. PICK n \in Lacking : \A m \in Lacking : n <= m
    <3>1. Lacking \in SUBSET Nat
      OBVIOUS
    <3> HIDE DEF Lacking
    <3> QED BY <3>1, LeastIs
  <2>2. n \in Nat /\ n # 0 /\ ~ \E f : Is(f, n)
    <3> HIDE DEF Is
    <3> QED BY <1>1
  <2>3. n - 1 \in Nat /\ n - 1 \notin Lacking
    <3> HIDE DEF Lacking
    <3> QED BY <2>1, <2>2
  <2>4. PICK f : Is(f, n - 1)
    <3> HIDE DEF Is
    <3> QED BY <2>3
  <2> HIDE DEF Is
  <2>5. \E g : Is(g, (n - 1) + 1)
    BY <1>2, <2>3, <2>4
  <2>6. (n - 1) + 1 = n
    BY <2>2
  <2> QED BY <2>2, <2>5, <2>6
<1>4. \E f : Is(f, Len(s))
  <2> HIDE DEF Is
  <2> QED BY <1>3
<1>5. Upto(Len(s)) = Ranges(s)
  BY <1>0
<1>6. \E f : f = [r \in Ranges(s) |-> Halved(s, key, f, r)]
  <2> HIDE DEF Upto
  <2> QED BY <1>4, <1>5
<1> QED BY <1>6, Zenon DEF Search

\* What the search makes of a range r lies in it; entries before it are less than
\* key and, if the list is sorted, those of the range from it on are not.
Splits(s, key, r, k) ==
    /\ k \in r[1]..(r[1] + r[2])
    /\ \A j \in r[1]..(k - 1) : s[j].name < key
    /\ \A j \in k..((r[1] + r[2]) - 1) : ~(s[j].name < key)

LEMMA SearchSplits ==
    ASSUME NEW s, Len(s) \in Nat, \A i \in 1..Len(s) : s[i].name \in Int, Sorted(s),
           NEW key \in Int, NEW r \in Ranges(s)
    PROVE  Splits(s, key, r, Search(s, key)[r])
<1> DEFINE F == Search(s, key)
           Wrong == {n \in Nat : \E q \in Ranges(s) : q[2] = n /\ ~Splits(s, key, q, F[q])}
<1>0. \A q \in Ranges(s) : /\ q[1] \in 1..(Len(s) + 1) /\ q[2] \in 0..Len(s)
                           /\ q[1] + q[2] <= Len(s) + 1
  BY DEF Ranges
<1>1. ASSUME NEW q \in Ranges(s),
             \A p \in Ranges(s) : p[2] < q[2] => Splits(s, key, p, F[p])
      PROVE  Splits(s, key, q, F[q])
  <2>1. F[q] = Halved(s, key, F, q)
    BY SearchIs
  <2> HIDE DEF F
  <2>2. CASE q[2] = 0
    <3>1. F[q] = q[1]
      BY <2>1, <2>2 DEF Halved
    <3> QED BY <1>0, <2>2, <3>1 DEF Splits
  <2>3. CASE q[2] # 0
    <3> DEFINE half == q[2] \div 2
               mid == q[1] + half
               left == <<q[1], half>>
               right == <<mid + 1, q[2] - half - 1>>
    <3>1. /\ half \in Nat /\ half < q[2] /\ mid \in 1..Len(s)
          /\ right \in Ranges(s) /\ left \in Ranges(s)
      BY <2>3, HalvesAre
    <3>2. /\ q[1] \in Nat /\ q[2] \in Nat /\ q[1] >= 1
          /\ q[1] + q[2] <= Len(s) + 1
      BY <1>0
    <3>3. Splits(s, key, left, F[left])
      BY <1>1, <3>1
    <3>4. Splits(s, key, right, F[right])
      BY <1>1, <3>1, <3>2
    <3>5. CASE s[mid].name < key
      <4>1. F[q] = F[right]
        BY <2>1, <2>3, <3>5 DEF Halved
      <4>2. ASSUME NEW j \in q[1]..mid  PROVE s[j].name < key
        <5>1. j \in 1..Len(s) /\ (j < mid \/ j = mid)
          <6> HIDE DEF mid, half, left, right
          <6> QED BY <3>1, <3>2
        <5>2. s[j].name <= s[mid].name
          BY <3>1, <5>1 DEF Sorted
        <5> QED BY <3>1, <3>5, <5>1, <5>2
      <4>3. /\ F[right] \in (mid + 1)..(q[1] + q[2])
            /\ \A j \in (mid + 1)..(F[right] - 1) : s[j].name < key
            /\ \A j \in F[right]..((q[1] + q[2]) - 1) : ~(s[j].name < key)
        <5>1. right[1] = mid + 1 /\ right[1] + right[2] = q[1] + q[2]
          BY <3>1, <3>2
        <5>2. right[1] = mid + 1
          OBVIOUS
        <5> HIDE DEF right, mid
        <5>3. /\ F[right] \in right[1]..(right[1] + right[2])
              /\ \A j \in right[1]..(F[right] - 1) : s[j].name < key
              /\ \A j \in F[right]..((right[1] + right[2]) - 1) : ~(s[j].name < key)
          BY <3>4 DEF Splits
        <5>4. F[right] \in (mid + 1)..(q[1] + q[2])
          BY <5>1, <5>3
        <5>5. \A j \in (mid + 1)..(F[right] - 1) : s[j].name < key
          BY <5>1, <5>3
        <5>6. \A j \in F[right]..((q[1] + q[2]) - 1) : ~(s[j].name < key)
          BY <5>1, <5>3
        <5> QED BY <5>4, <5>5, <5>6
      <4> HIDE DEF right, left
      <4>4. \A j \in q[1]..(F[right] - 1) : j \in q[1]..mid \/ j \in (mid + 1)..(F[right] - 1)
        BY <3>1, <3>2, <4>3
      <4>5. F[right] \in q[1]..(q[1] + q[2])
        BY <3>1, <3>2, <4>3
      <4> QED BY <4>1, <4>2, <4>3, <4>4, <4>5 DEF Splits
    <3>6. CASE ~(s[mid].name < key)
      <4>1. F[q] = F[left]
        BY <2>1, <2>3, <3>6 DEF Halved
      <4>2. ASSUME NEW j \in mid..((q[1] + q[2]) - 1)  PROVE ~(s[j].name < key)
        <5>1. j \in 1..Len(s) /\ (mid < j \/ j = mid)
          <6> HIDE DEF mid, half, left, right
          <6> QED BY <3>1, <3>2
        <5>2. s[mid].name <= s[j].name
          BY <3>1, <5>1 DEF Sorted
        <5> QED BY <3>1, <3>6, <5>1, <5>2
      <4>3. /\ F[left] \in q[1]..mid
            /\ \A j \in q[1]..(F[left] - 1) : s[j].name < key
            /\ \A j \in F[left]..(mid - 1) : ~(s[j].name < key)
        <5>1. left[1] = q[1] /\ left[1] + left[2] = mid
          OBVIOUS
        <5> HIDE DEF left, mid
        <5>2. /\ F[left] \in left[1]..(left[1] + left[2])
              /\ \A j \in left[1]..(F[left] - 1) : s[j].name < key
              /\ \A j \in F[left]..((left[1] + left[2]) - 1) : ~(s[j].name < key)
          BY <3>3 DEF Splits
        <5> QED BY <5>1, <5>2, Zenon
      <4> HIDE DEF right, left
      <4>4. \A j \in F[left]..((q[1] + q[2]) - 1) :
                j \in F[left]..(mid - 1) \/ j \in mid..((q[1] + q[2]) - 1)
        BY <3>1, <3>2, <4>3
      <4>5. F[left] \in q[1]..(q[1] + q[2])
        BY <3>1, <3>2, <4>3
      <4> QED BY <4>1, <4>2, <4>3, <4>4, <4>5 DEF Splits
    <3> QED BY <3>5, <3>6
  <2> QED BY <2>2, <2>3
<1>2. Wrong = {}
  <2> SUFFICES ASSUME Wrong # {}  PROVE FALSE
    OBVIOUS
  <2>1. PICK n \in Wrong : \A m \in Wrong : n <= m
    <3>1. Wrong \in SUBSET Nat
      OBVIOUS
    <3> HIDE DEF Wrong
    <3> QED BY <3>1, LeastIs
  <2> HIDE DEF F
  <2>2. PICK q \in Ranges(s) : q[2] = n /\ ~Splits(s, key, q, F[q])
    OBVIOUS
  <2>3. ASSUME NEW p \in Ranges(s), p[2] < q[2]  PROVE Splits(s, key, p, F[p])
    <3>1. p[2] \in Nat /\ q[2] \in Nat /\ ~(n <= p[2])
      BY <1>0, <2>2, <2>3
    <3>2. p[2] \notin Wrong
      <4> HIDE DEF Wrong
      <4> QED BY <2>1, <3>1
    <3> QED BY <3>1, <3>2
  <2> QED BY <1>1, <2>2, <2>3
<1>3. r[2] \in Nat /\ r[2] \notin Wrong
  BY <1>0, <1>2
<1> QED
  <2> HIDE DEF F
  <2>1. Splits(s, key, r, F[r])
    BY <1>3
  <2> QED BY <2>1 DEF F

\* In a sorted list lower_bound is the first entry whose name is not less than key,
\* or the end.
THEOREM LowerBoundCorrect ==
    ASSUME NEW s \in Seq([name : Names, value : Values]), Sorted(s), NEW key \in Names
    PROVE  /\ lower_bound(s, key) \in 1..(Len(s) + 1)
           /\ \A i \in 1..Len(s) : s[i].name < key <=> i < lower_bound(s, key)
<1> DEFINE k == lower_bound(s, key)
           r == <<1, Len(s)>>
<1>1. Len(s) \in Nat /\ key \in Int /\ \A i \in 1..Len(s) : s[i].name \in Int
  <2>1. \A i \in 1..Len(s) : s[i] \in [name : Names, value : Values]
    BY ElementOfSeq
  <2>2. \A i \in 1..Len(s) : s[i].name \in Names
    BY <2>1
  <2>3. Names \subseteq Int
    BY ConstantsAssumption
  <2> QED BY <2>2, <2>3, LenProperties
<1>2. r \in Ranges(s) /\ r[1] = 1 /\ r[2] = Len(s)
  BY <1>1 DEF Ranges
<1>3. k = Search(s, key)[r]
  BY DEF lower_bound, Search, Halved
<1>4. Splits(s, key, r, k)
  <2> HIDE DEF k, r
  <2> QED BY <1>1, <1>2, <1>3, SearchSplits
<1>5. /\ k \in 1..(1 + Len(s))
      /\ \A j \in 1..(k - 1) : s[j].name < key
      /\ \A j \in k..((1 + Len(s)) - 1) : ~(s[j].name < key)
  <2> HIDE DEF k, r
  <2> QED BY <1>2, <1>4 DEF Splits
<1> QED
  <2> HIDE DEF k
  <2>1. \A i \in 1..Len(s) : (i < k => i \in 1..(k - 1)) /\ (~(i < k) => i \in k..((1 + Len(s)) - 1))
    BY <1>1, <1>5
  <2>2. \A i \in 1..Len(s) : s[i].name < key <=> i < k
    BY <1>5, <2>1
  <2>3. k \in 1..(Len(s) + 1)
    BY <1>1, <1>5
  <2> QED BY <2>2, <2>3 DEF k

-----------------------------------------------------------------------------
(* Lists. *)

\* What a list consists of.
LEMMA EntriesAre ==
    ASSUME NEW s \in Seq(Entries)
    PROVE  /\ Len(s) \in Nat
           /\ \A i \in 1..Len(s) : s[i] \in Entries /\ s[i].name \in Names /\ s[i].name \in Int
<1>1. \A i \in 1..Len(s) : s[i] \in Entries
  BY ElementOfSeq
<1>2. \A i \in 1..Len(s) : s[i].name \in Names
  BY <1>1 DEF Entries
<1> QED BY <1>1, <1>2, ConstantsAssumption, LenProperties

\* Sorting keeps the entries.
LEMMA SortingsTyped ==
    ASSUME NEW s \in Seq(Entries), NEW t \in Sortings(s)
    PROVE  t \in Seq(Entries) /\ Len(t) = Len(s) /\ Sorted(t)
<1>1. PICK p \in Orders(Len(s)) : t = [i \in 1..Len(s) |-> s[p[i]]]
  BY DEF Sortings
<1>2. p \in [1..Len(s) -> 1..Len(s)] /\ Len(s) \in Nat
  BY <1>1 DEF Orders
<1>3. t \in [1..Len(s) -> Entries]
  <2>1. \A i \in 1..Len(s) : s[p[i]] \in Entries
    BY <1>2, ElementOfSeq
  <2> QED BY <1>1, <2>1
<1>4. t \in Seq(Entries) /\ Len(t) = Len(s)
  BY <1>2, <1>3, SeqDef, LenProperties
<1>5. Sorted(t)
  BY DEF Sortings
<1> QED BY <1>4, <1>5

\* A sorting of the entries of s keeps them all.
LEMMA SortingIs ==
    ASSUME NEW s \in Seq(Entries), NEW t \in Sortings(s)
    PROVE  \E p \in [1..Len(s) -> 1..Len(s)] :
               /\ t = [i \in 1..Len(s) |-> s[p[i]]]
               /\ Len(t) = Len(s)
               /\ \A i, j \in 1..Len(s) : p[i] = p[j] => i = j
               /\ \A i \in 1..Len(s) : \E j \in 1..Len(s) : p[j] = i
<1> DEFINE n == Len(s)
<1>1. PICK p \in Orders(n) : t = [i \in 1..n |-> s[p[i]]]
  BY DEF Sortings
<1>2. n \in Nat
  BY LenProperties
<1> HIDE DEF n
<1>3. p \in [1..n -> 1..n] /\ \A i, j \in 1..n : p[i] = p[j] => i = j
  BY <1>1 DEF Orders
<1>4. p \in Injection(1..n, 1..n)
  BY <1>3 DEF Injection, IsInjective
<1>5. p \in Surjection(1..n, 1..n)
  BY <1>2, <1>4, FS_Interval, FS_Injection
<1>6. \A i \in 1..n : \E j \in 1..n : p[j] = i
  BY <1>5 DEF Surjection
<1>7. t \in Seq({s[i] : i \in 1..n}) /\ Len(t) = n
  <2>1. t \in [1..n -> {s[i] : i \in 1..n}]
    BY <1>1, <1>3
  <2> QED BY <1>2, <2>1, SeqDef, LenProperties
<1> QED BY <1>1, <1>3, <1>6, <1>7 DEF n

\* An entry's value is changed, and nothing else.
LEMMA EditIs ==
    ASSUME NEW s \in Seq(Entries), NEW i, NEW v \in Values
    PROVE  LET r == [s EXCEPT ![i].value = v] IN
           /\ r \in Seq(Entries) /\ Len(r) = Len(s)
           /\ \A j \in 1..Len(s) : /\ r[j].name = s[j].name
                                  /\ r[j].value = IF j = i THEN v ELSE s[j].value
           /\ Sorted(s) => Sorted(r)
<1> DEFINE r == [s EXCEPT ![i].value = v]
           n == Len(s)
<1>1. n \in Nat /\ DOMAIN s = 1..n /\ \A j \in 1..n : s[j] \in Entries
  BY ElementOfSeq, LenProperties
<1>2. \A j \in 1..n : r[j] = IF j = i THEN [s[j] EXCEPT !.value = v] ELSE s[j]
  BY <1>1
<1>3. DOMAIN r = 1..n /\ r = [j \in 1..n |-> r[j]]
  BY <1>1
<1> HIDE DEF r
<1>4. ASSUME NEW j \in 1..n
      PROVE  /\ r[j] \in Entries /\ r[j].name = s[j].name
             /\ r[j].value = IF j = i THEN v ELSE s[j].value
  <2>1. s[j] \in Entries
    BY <1>1
  <2>2. CASE j = i
    <3>1. r[j] = [s[j] EXCEPT !.value = v]
      BY <1>2, <2>2
    <3> QED BY <2>1, <2>2, <3>1 DEF Entries
  <2>3. CASE j # i
    <3>1. r[j] = s[j]
      BY <1>2, <2>3
    <3> QED BY <2>1, <2>3, <3>1
  <2> QED BY <2>2, <2>3
<1>5. r \in Seq(Entries) /\ Len(r) = n
  <2>1. r \in [1..n -> Entries]
    BY <1>3, <1>4
  <2> QED BY <1>1, <2>1, SeqDef, LenProperties
<1>6. Sorted(s) => Sorted(r)
  BY <1>4, <1>5 DEF Sorted
<1> QED BY <1>4, <1>5, <1>6 DEF r

\* What the operations on a list return.
LEMMA ListsTyped ==
    ASSUME NEW s \in Seq(Entries), NEW key \in Names, NEW v \in Values
    PROVE  /\ set_value(s, key, v) \in Seq(Entries)
           /\ \A t \in add_value(s, key, v) : t \in Seq(Entries)
           /\ \A t \in erase(s, key) : t \in Seq(Entries)
<1>1. set_value(s, key, v) \in Seq(Entries)
  <2>1. [s EXCEPT ![lower_bound(s, key)].value = v] \in Seq(Entries)
    BY EditIs
  <2> QED BY <2>1 DEF set_value
<1>2. ASSUME NEW t \in add_value(s, key, v)  PROVE t \in Seq(Entries)
  <2>1. Append(s, [name |-> key, value |-> v]) \in Seq(Entries)
    BY DEF Entries
  <2> QED BY <1>2, <2>1, SortingsTyped DEF add_value
<1>3. ASSUME NEW t \in erase(s, key)  PROVE t \in Seq(Entries)
  <2> DEFINE k == lower_bound(s, key)
             w == Without(s, k)
             n == Len(s)
  <2>1. CASE Found(s, key) /\ n > 0
    <3>1. n \in Nat /\ n - 1 \in Nat /\ \A j \in 1..n : s[j] \in Entries
      BY <2>1, ElementOfSeq
    <3>2. \A j \in 1..(n - 1) : s[j] \in Entries /\ s[j + 1] \in Entries
      BY <3>1
    <3>3. w \in [1..(n - 1) -> Entries]
      <4> HIDE DEF k, n
      <4> QED BY <3>2 DEF Without, n
    <3>4. w \in Seq(Entries)
      BY <3>1, <3>3, SeqDef
    <3>5. t \in Sortings(w)
      BY <1>3, <2>1 DEF erase
    <3> HIDE DEF w
    <3> QED BY <3>4, <3>5, SortingsTyped
  <2>2. CASE Found(s, key) /\ ~(n > 0)
    <3>1. n = 0
      BY <2>2
    <3>2. w = << >>
      <4>1. 1..(n - 1) = {}
        BY <3>1
      <4>2. w = [j \in 1..(n - 1) |-> IF j < k THEN s[j] ELSE s[j + 1]]
        BY DEF Without
      <4> HIDE DEF w, k, n
      <4>3. w \in [{} -> Entries]
        BY <4>1, <4>2
      <4>4. << >> \in [{} -> Entries]
        OBVIOUS
      <4> QED BY <4>3, <4>4
    <3>3. t \in Sortings(w) /\ w \in Seq(Entries)
      BY <1>3, <2>2, <3>2 DEF erase
    <3> HIDE DEF w
    <3> QED BY <3>3, SortingsTyped
  <2>3. CASE ~Found(s, key)
    BY <1>3, <2>3 DEF erase
  <2> QED BY <2>1, <2>2, <2>3
<1> QED BY <1>1, <1>2, <1>3

-----------------------------------------------------------------------------
(* Lists as maps. *)

\* Every entry of s has the value that the map m gives its name, and m has -1 for the
\* names that no entry has.
Represents(s, m) ==
    /\ m = [key \in Names |-> m[key]]
    /\ \A i \in 1..Len(s) : m[s[i].name] = s[i].value
    /\ \A key \in Names : (\A i \in 1..Len(s) : s[i].name # key) => m[key] = -1

Unique(s) == \A i, j \in 1..Len(s) : s[i].name = s[j].name => i = j

\* What a lookup finds in a sorted list.
LEMMA LookUp ==
    ASSUME NEW s \in Seq(Entries), Sorted(s), NEW key \in Names
    PROVE  /\ Found(s, key) <=> \E i \in 1..Len(s) : s[i].name = key
           /\ Found(s, key) => /\ lower_bound(s, key) \in 1..Len(s)
                               /\ s[lower_bound(s, key)].name = key
                               /\ \A i \in 1..Len(s) : s[i].name = key => lower_bound(s, key) <= i
<1> DEFINE k == lower_bound(s, key)
<1>1. Len(s) \in Nat /\ key \in Int /\ \A i \in 1..Len(s) : s[i].name \in Int
  BY EntriesAre, ConstantsAssumption
<1>2. k \in 1..(Len(s) + 1) /\ \A i \in 1..Len(s) : s[i].name < key <=> i < k
  BY LowerBoundCorrect DEF Entries
<1>3. Found(s, key) <=> k <= Len(s) /\ s[k].name = key
  BY DEF Found
<1> HIDE DEF k
<1>4. ASSUME NEW i \in 1..Len(s), s[i].name = key
      PROVE  k <= i /\ k \in 1..Len(s) /\ s[k].name = key
  <2>1. k <= i /\ k \in 1..Len(s)
    BY <1>1, <1>2, <1>4
  <2>2. s[k].name <= s[i].name
    <3>1. CASE k = i
      BY <1>1, <3>1
    <3>2. CASE k < i
      BY <2>1, <3>2 DEF Sorted
    <3> QED BY <2>1, <3>1, <3>2
  <2>3. ~(s[k].name < key)
    BY <1>1, <1>2, <2>1
  <2> QED BY <1>1, <1>4, <2>1, <2>2, <2>3
<1>5. Found(s, key) => k \in 1..Len(s)
  BY <1>1, <1>2, <1>3
<1> QED BY <1>3, <1>4, <1>5 DEF k

\* A sorted list that represents a map is looked up as that map.
LEMMA MapIs ==
    ASSUME NEW s \in Seq(Entries), Sorted(s), NEW m, Represents(s, m)
    PROVE  AsMap(s) = m
<1>1. ASSUME NEW key \in Names  PROVE get_value(s, key) = m[key]
  <2>1. CASE Found(s, key)
    BY <2>1, LookUp DEF Represents, get_value
  <2>2. CASE ~Found(s, key)
    BY <2>2, LookUp DEF Represents, get_value
  <2> QED BY <2>1, <2>2
<1>2. m = [key \in Names |-> m[key]]
  BY DEF Represents
<1> QED BY <1>1, <1>2 DEF AsMap

LEMMA PlainRepresents ==
    ASSUME NEW s \in Seq(Entries), Plain(s)
    PROVE  /\ Sorted(s) /\ Unique(s) /\ Represents(s, AsMap(s))
           /\ \A key \in Names : has_value(s, key) <=> Found(s, key)
<1>1. Sorted(s) /\ Unique(s) /\ \A i \in 1..Len(s) : s[i].value # -1
  BY DEF Plain, Unique
<1>2. \A i \in 1..Len(s) : s[i].name \in Names
  BY EntriesAre
<1>3. ASSUME NEW i \in 1..Len(s)  PROVE AsMap(s)[s[i].name] = s[i].value
  <2> DEFINE key == s[i].name
  <2>1. key \in Names
    BY <1>2
  <2>2. Found(s, key) /\ lower_bound(s, key) \in 1..Len(s) /\ s[lower_bound(s, key)].name = key
    BY <1>1, <2>1, LookUp
  <2>3. lower_bound(s, key) = i
    BY <1>1, <2>2 DEF Unique
  <2>4. get_value(s, key) = s[i].value
    BY <2>2, <2>3 DEF get_value
  <2> QED BY <2>1, <2>4 DEF AsMap
<1>4. ASSUME NEW key \in Names, \A i \in 1..Len(s) : s[i].name # key  PROVE AsMap(s)[key] = -1
  <2>1. ~Found(s, key)
    BY <1>1, <1>4, LookUp
  <2> QED BY <2>1 DEF AsMap, get_value
<1>5. ASSUME NEW key \in Names  PROVE has_value(s, key) <=> Found(s, key)
  <2>1. CASE Found(s, key)
    BY <1>1, <2>1, LookUp DEF has_value, get_value
  <2>2. CASE ~Found(s, key)
    BY <2>2 DEF has_value, get_value
  <2> QED BY <2>1, <2>2
<1>6. AsMap(s) = [key \in Names |-> AsMap(s)[key]]
  BY DEF AsMap
<1> QED BY <1>1, <1>3, <1>4, <1>5, <1>6 DEF Represents

\* Sorting keeps the map, and that no name stands twice.
LEMMA SortingRepresents ==
    ASSUME NEW s \in Seq(Entries), NEW m, Represents(s, m), NEW t \in Sortings(s)
    PROVE  Represents(t, m) /\ (Unique(s) => Unique(t))
<1>1. PICK p \in [1..Len(s) -> 1..Len(s)] :
          /\ t = [i \in 1..Len(s) |-> s[p[i]]]
          /\ Len(t) = Len(s)
          /\ \A i, j \in 1..Len(s) : p[i] = p[j] => i = j
          /\ \A i \in 1..Len(s) : \E j \in 1..Len(s) : p[j] = i
  BY SortingIs
<1>2. \A i \in 1..Len(s) : p[i] \in 1..Len(s) /\ t[i] = s[p[i]]
  BY <1>1
<1>3. \A i \in 1..Len(t) : m[t[i].name] = t[i].value
  BY <1>1, <1>2 DEF Represents
<1>4. ASSUME NEW key \in Names, \A i \in 1..Len(t) : t[i].name # key  PROVE m[key] = -1
  <2>1. ASSUME NEW i \in 1..Len(s)  PROVE s[i].name # key
    <3>1. PICK j \in 1..Len(s) : p[j] = i
      BY <1>1
    <3>2. t[j] = s[i] /\ t[j].name # key
      BY <1>1, <1>2, <1>4, <3>1
    <3> QED BY <3>2
  <2> QED BY <2>1 DEF Represents
<1>5. ASSUME Unique(s), NEW i \in 1..Len(t), NEW j \in 1..Len(t), t[i].name = t[j].name
      PROVE  i = j
  <2>1. /\ i \in 1..Len(s) /\ j \in 1..Len(s)
        /\ p[i] \in 1..Len(s) /\ p[j] \in 1..Len(s)
        /\ s[p[i]].name = s[p[j]].name
    BY <1>1, <1>2, <1>5
  <2>2. p[i] = p[j]
    BY <1>5, <2>1 DEF Unique
  <2> QED BY <1>1, <2>1, <2>2
<1>6. m = [key \in Names |-> m[key]]
  BY DEF Represents
<1> QED BY <1>3, <1>4, <1>5, <1>6 DEF Represents, Unique

\* What adding a name that is missing makes of the map.
LEMMA AddRepresents ==
    ASSUME NEW s \in Seq(Entries), NEW m, Unique(s), Represents(s, m), NEW key \in Names,
           \A i \in 1..Len(s) : s[i].name # key, NEW v \in Values,
           NEW t \in add_value(s, key, v)
    PROVE  t \in Seq(Entries) /\ Sorted(t) /\ Unique(t) /\ Represents(t, [m EXCEPT ![key] = v])
<1> DEFINE a == Append(s, [name |-> key, value |-> v])
           w == [m EXCEPT ![key] = v]
           n == Len(s)
<1>1. a \in Seq(Entries) /\ Len(a) = n + 1 /\ n \in Nat
      /\ a[n + 1] = [name |-> key, value |-> v] /\ \A i \in 1..n : a[i] = s[i]
  <2>1. [name |-> key, value |-> v] \in Entries
    BY DEF Entries
  <2> QED BY <2>1, AppendProperties, LenProperties
<1>2. \A i \in 1..n : s[i].name \in Names
  BY EntriesAre
<1>3. m = [k \in Names |-> m[k]] /\ \A i \in 1..n : m[s[i].name] = s[i].value
  BY DEF Represents
<1>4. /\ w = [k \in Names |-> w[k]] /\ w[key] = v
      /\ \A k \in Names : k # key => w[k] = m[k]
  BY <1>3
<1>5. t \in Sortings(a)
  BY DEF add_value
<1> HIDE DEF a, w
<1>6. \A i \in 1..Len(a) : i \in 1..n \/ i = n + 1
  BY <1>1
<1>7. Unique(a)
  BY <1>1, <1>6 DEF Unique
<1>8. \A i \in 1..Len(a) : w[a[i].name] = a[i].value
  <2> SUFFICES ASSUME NEW i \in 1..Len(a)  PROVE w[a[i].name] = a[i].value
    OBVIOUS
  <2>1. CASE i \in 1..n
    <3>1. s[i].name \in Names /\ s[i].name # key /\ a[i] = s[i]
      BY <1>1, <1>2, <2>1
    <3>2. w[s[i].name] = m[s[i].name] /\ m[s[i].name] = s[i].value
      BY <1>3, <1>4, <2>1, <3>1
    <3> QED BY <3>1, <3>2
  <2>2. CASE i = n + 1
    BY <1>1, <1>4, <2>2
  <2> QED BY <1>6, <2>1, <2>2
<1>9. ASSUME NEW k \in Names, \A i \in 1..Len(a) : a[i].name # k  PROVE w[k] = -1
  <2>1. k # key
    BY <1>1, <1>9
  <2>2. \A i \in 1..n : s[i].name # k
    BY <1>1, <1>9
  <2>3. m[k] = -1
    BY <2>2 DEF Represents
  <2> QED BY <1>4, <2>1, <2>3
<1>10. Represents(a, w)
  BY <1>4, <1>8, <1>9 DEF Represents
<1>11. Represents(t, w) /\ Unique(t)
  BY <1>1, <1>5, <1>7, <1>10, SortingRepresents
<1>12. t \in Seq(Entries) /\ Sorted(t)
  BY <1>1, <1>5, SortingsTyped
<1> QED BY <1>11, <1>12 DEF w

\* What a change of the value of a name that stands once makes of it.
LEMMA SetRepresents ==
    ASSUME NEW s \in Seq(Entries), NEW m, Sorted(s), Unique(s), Represents(s, m),
           NEW key \in Names, Found(s, key), NEW v \in Values
    PROVE  /\ set_value(s, key, v) \in Seq(Entries) /\ Sorted(set_value(s, key, v))
           /\ Represents(set_value(s, key, v), [m EXCEPT ![key] = v])
<1> DEFINE k == lower_bound(s, key)
           r == [s EXCEPT ![k].value = v]
           w == [m EXCEPT ![key] = v]
           n == Len(s)
<1>1. k \in 1..n /\ s[k].name = key
  BY LookUp
<1>2. set_value(s, key, v) = r
  BY DEF set_value
<1> HIDE DEF k
<1>3. \A j \in 1..n : s[j].name \in Names
  BY EntriesAre
<1>4. \A j \in 1..n : /\ r[j].name = s[j].name
                     /\ r[j].value = IF j = k THEN v ELSE s[j].value
  BY EditIs
<1>5. r \in Seq(Entries) /\ Len(r) = n /\ Sorted(r)
  BY EditIs
<1>6. /\ w = [x \in Names |-> w[x]] /\ w[key] = v
      /\ \A x \in Names : x # key => w[x] = m[x]
  BY DEF Represents
<1> HIDE DEF r, w
<1>7. \A j \in 1..n : w[r[j].name] = r[j].value
  <2> SUFFICES ASSUME NEW j \in 1..n  PROVE w[r[j].name] = r[j].value
    OBVIOUS
  <2>1. CASE j = k
    BY <1>1, <1>4, <1>6, <2>1
  <2>2. CASE j # k
    <3>1. s[j].name # key /\ s[j].name \in Names
      BY <1>1, <1>3, <2>2 DEF Unique
    <3> QED BY <1>4, <1>6, <2>2, <3>1 DEF Represents
  <2> QED BY <2>1, <2>2
<1>8. ASSUME NEW x \in Names, \A j \in 1..n : r[j].name # x  PROVE w[x] = -1
  <2>1. x # key /\ \A j \in 1..n : s[j].name # x
    BY <1>1, <1>4, <1>8
  <2> QED BY <1>6, <2>1 DEF Represents
<1>9. Represents(r, w)
  BY <1>5, <1>6, <1>7, <1>8 DEF Represents
<1> QED BY <1>2, <1>5, <1>9 DEF w

\* What an erasure makes of it.
LEMMA EraseRepresents ==
    ASSUME NEW s \in Seq(Entries), NEW m, Sorted(s), Unique(s), Represents(s, m),
           NEW key \in Names, Found(s, key), NEW t \in erase(s, key)
    PROVE  t \in Seq(Entries) /\ Sorted(t) /\ Represents(t, [m EXCEPT ![key] = -1])
<1> DEFINE k == lower_bound(s, key)
           a == Without(s, k)
           w == [m EXCEPT ![key] = -1]
           n == Len(s)
<1>1. k \in 1..n /\ s[k].name = key
  BY LookUp
<1>2. t \in Sortings(a)
  BY DEF erase
<1> HIDE DEF k
<1>3. n \in Nat /\ n >= 1 /\ n - 1 \in Nat /\ \A j \in 1..n : s[j] \in Entries
  BY <1>1, ElementOfSeq, LenProperties
<1> HIDE DEF n
<1>4. /\ \A j \in 1..(n - 1) : IF j < k THEN a[j] = s[j] ELSE a[j] = s[j + 1]
      /\ a = [j \in 1..(n - 1) |-> a[j]]
  BY DEF Without, n
<1> HIDE DEF a
<1>5. \A j \in 1..(n - 1) : j \in 1..n /\ j + 1 \in 1..n
  BY <1>3
<1>6. a \in Seq(Entries) /\ Len(a) = n - 1
  <2>1. a \in [1..(n - 1) -> Entries]
    BY <1>3, <1>4, <1>5
  <2> QED BY <1>3, <2>1, SeqDef, LenProperties
<1>7. ASSUME NEW j \in 1..(n - 1)
      PROVE  \E i \in 1..n : i # k /\ a[j] = s[i]
  <2>1. CASE j < k
    BY <1>1, <1>4, <1>5, <2>1
  <2>2. CASE ~(j < k)
    <3>1. j + 1 # k
      BY <1>1, <1>3, <2>2
    <3> QED BY <1>4, <1>5, <2>2, <3>1
  <2> QED BY <2>1, <2>2
<1>8. ASSUME NEW i \in 1..n, i # k
      PROVE  \E j \in 1..(n - 1) : a[j] = s[i]
  <2>1. CASE i < k
    <3>1. i \in 1..(n - 1)
      BY <1>1, <1>3, <2>1
    <3> QED BY <1>4, <2>1, <3>1
  <2>2. CASE ~(i < k)
    <3>1. i - 1 \in 1..(n - 1) /\ ~(i - 1 < k) /\ (i - 1) + 1 = i
      BY <1>1, <1>3, <1>8, <2>2
    <3> QED BY <1>4, <3>1
  <2> QED BY <2>1, <2>2
<1>9. /\ w = [x \in Names |-> w[x]] /\ w[key] = -1
      /\ \A x \in Names : x # key => w[x] = m[x]
  BY DEF Represents
<1> HIDE DEF w
<1>10. \A j \in 1..(n - 1) : w[a[j].name] = a[j].value
  <2> SUFFICES ASSUME NEW j \in 1..(n - 1)  PROVE w[a[j].name] = a[j].value
    OBVIOUS
  <2>1. PICK i \in 1..n : i # k /\ a[j] = s[i]
    BY <1>7
  <2>2. s[i].name # key /\ s[i].name \in Names
    BY <1>1, <1>3, <2>1 DEF Unique, Entries, n
  <2> QED BY <1>9, <2>1, <2>2 DEF Represents, n
<1>11. ASSUME NEW x \in Names, \A j \in 1..(n - 1) : a[j].name # x  PROVE w[x] = -1
  <2>1. CASE x = key
    BY <1>9, <2>1
  <2>2. CASE x # key
    <3>1. \A i \in 1..n : s[i].name # x
      BY <1>1, <1>8, <1>11, <2>2
    <3> QED BY <1>9, <2>2, <3>1 DEF Represents, n
  <2> QED BY <2>1, <2>2
<1>12. Represents(a, w)
  BY <1>6, <1>9, <1>10, <1>11 DEF Represents
<1>13. Represents(t, w)
  BY <1>2, <1>6, <1>12, SortingRepresents
<1>14. t \in Seq(Entries) /\ Sorted(t)
  BY <1>2, <1>6, SortingsTyped
<1> QED BY <1>13, <1>14 DEF w

-----------------------------------------------------------------------------
(* The viewpoint. *)

\* The distance of two ints is a size_t.
LEMMA SizeTyped ==
    ASSUME NEW a \in Ints, NEW b \in Ints
    PROVE  Unsigned(a - b) \in 0..(Word - 1)
  BY ConstantsAssumption DEF Ints, Unsigned

\* An int that is not above the limit as a size_t is not negative.
LEMMA NotAbove ==
    ASSUME NEW i \in Ints, NEW limit \in 0..MaxInt, ~Above(i, limit)
    PROVE  i \in 0..limit
  BY ConstantsAssumption DEF Ints, Unsigned, Above

\* A viewpoint that may be moved to lies in the level.
LEMMA MayMoveInside ==
    ASSUME NEW vp, {vp.x1, vp.y1, vp.x2, vp.y2} \subseteq Ints, MayMove(vp)
    PROVE  {vp.x1, vp.x2} \subseteq 0..max_width /\ {vp.y1, vp.y2} \subseteq 0..max_height
<1>1. max_width \in 0..MaxInt /\ max_height \in 0..MaxInt
  BY ConstantsAssumption
<1>2. /\ ~Above(vp.x1, max_width) /\ ~Above(vp.x2, max_width)
      /\ ~Above(vp.y1, max_height) /\ ~Above(vp.y2, max_height)
  BY DEF MayMove
<1> QED BY <1>1, <1>2, NotAbove

-----------------------------------------------------------------------------
(* The specification. *)

\* The variables keep their types.
THEOREM TypeCorrect == Spec => []TypeOK
<1>1. Init => TypeOK
  <2> SUFFICES ASSUME Init  PROVE TypeOK
    OBVIOUS
  <2>1. viewpoint \in [x1 : Ints, y1 : Ints, x2 : Ints, y2 : Ints]
    BY ConstantsAssumption DEF Init
  <2>2. modifiers \in Seq([name : Names, value : Values])
    BY ConstantsAssumption DEF Init
  <2>3. width \in 0..(Word - 1) /\ height \in 0..(Word - 1)
    BY <2>1, SizeTyped DEF Init
  <2> QED BY <2>1, <2>2, <2>3 DEF TypeOK
<1>2. TypeOK /\ [Next]_vars => TypeOK'
  <2> SUFFICES ASSUME TypeOK, [Next]_vars  PROVE TypeOK'
    OBVIOUS
  <2>1. modifiers \in Seq(Entries)
    BY DEF TypeOK, Entries
  <2>2. ASSUME modifiers' \in Seq(Entries), UNCHANGED <<viewpoint, size>>  PROVE TypeOK'
    BY <2>2 DEF TypeOK, Entries, size
  <2>3. ASSUME NEW key \in Names, Erase(key)  PROVE TypeOK'
    <3>1. 0 \in Values
      BY ConstantsAssumption
    <3> QED BY <2>1, <2>2, <2>3, <3>1, ListsTyped DEF Erase
  <2>4. ASSUME NEW key \in Names, NEW v \in Values,
               Mod(key, v) \/ AddMissing(key, v) \/ AddValue(key, v)
        PROVE  TypeOK'
    BY <2>1, <2>2, <2>4, ListsTyped DEF Mod, AddMissing, AddValue
  <2>5. ASSUME NEW key \in Names, NEW v \in Values, AssignAt(key, v)  PROVE TypeOK'
    <3>1. PICK s \in IF Found(modifiers, key) THEN {modifiers} ELSE add_value(modifiers, key, 0) :
              modifiers' = set_value(s, key, v)
      BY <2>5 DEF AssignAt
    <3>2. 0 \in Values
      BY ConstantsAssumption
    <3>3. s \in Seq(Entries)
      BY <2>1, <3>1, <3>2, ListsTyped
    <3> QED BY <2>2, <2>5, <3>1, <3>3, ListsTyped DEF AssignAt
  <2>6. CASE Sort
    BY <2>1, <2>2, <2>6, SortingsTyped DEF Sort
  <2>7. ASSUME NEW i \in 1..Len(modifiers), NEW v \in Values, Edit(i, v)  PROVE TypeOK'
    BY <2>1, <2>2, <2>7, EditIs DEF Edit
  <2>8. ASSUME NEW vp \in Viewpoints, SetViewpoint(vp)  PROVE TypeOK'
    BY <2>8, ConstantsAssumption DEF SetViewpoint, TypeOK, size
  <2>9. CASE Frame
    <3>1. width' \in 0..(Word - 1) /\ height' \in 0..(Word - 1)
      BY <2>9, SizeTyped DEF Frame, TypeOK
    <3> QED BY <2>9, <3>1 DEF Frame, TypeOK
  <2>10. ASSUME NEW dx \in Steps, NEW dy \in Steps, move_viewpoint_by(dx, dy)  PROVE TypeOK'
    BY <2>10 DEF move_viewpoint_by, TypeOK, size
  <2>11. CASE UNCHANGED vars
    BY <2>11 DEF vars, size, TypeOK
  <2> QED BY <2>3, <2>4, <2>5, <2>6, <2>7, <2>8, <2>9, <2>10, <2>11
          DEF Next, ModifierStep, EntryStep, ViewpointStep
<1> QED BY <1>1, <1>2, PTL DEF Spec

\* A viewpoint that has been moved lies in the level, for any steps and any size.
THEOREM MovesCorrect == Spec => MovesInside
<1>1. ASSUME NEW dx \in Steps, NEW dy \in Steps, move_viewpoint_by(dx, dy)
      PROVE  /\ {viewpoint'.x1, viewpoint'.x2} \subseteq 0..max_width
             /\ {viewpoint'.y1, viewpoint'.y2} \subseteq 0..max_height
  BY <1>1, MayMoveInside DEF move_viewpoint_by
<1>2. [Next]_vars => [\A dx, dy \in Steps : move_viewpoint_by(dx, dy) =>
          /\ {viewpoint'.x1, viewpoint'.x2} \subseteq 0..max_width
          /\ {viewpoint'.y1, viewpoint'.y2} \subseteq 0..max_height]_vars
  BY <1>1
<1> QED BY <1>2, PTL DEF Spec, MovesInside

\* In a sorted list a name finds the first entry that has it, and one that no entry has
\* finds none, however long the list has grown.
THEOREM FirstIsFound == Spec => []FindsFirst
<1>1. TypeOK => FindsFirst
  <2> SUFFICES ASSUME TypeOK, Sorted(modifiers), NEW key \in Names
               PROVE  LET Having == {i \in 1..Len(modifiers) : modifiers[i].name = key} IN
                      IF Having = {} THEN get_value(modifiers, key) = -1
                      ELSE \E i \in Having :
                               /\ \A j \in Having : i <= j
                               /\ get_value(modifiers, key) = modifiers[i].value
    BY DEF FindsFirst
  <2> DEFINE Having == {i \in 1..Len(modifiers) : modifiers[i].name = key}
             k == lower_bound(modifiers, key)
  <2>1. modifiers \in Seq(Entries)
    BY DEF TypeOK, Entries
  <2>2. CASE Found(modifiers, key)
    <3>1. k \in Having /\ (\A j \in Having : k <= j)
      BY <2>1, <2>2, LookUp
    <3>2. get_value(modifiers, key) = modifiers[k].value
      BY <2>2 DEF get_value
    <3> QED BY <3>1, <3>2
  <2>3. CASE ~Found(modifiers, key)
    <3>1. Having = {}
      BY <2>1, <2>3, LookUp
    <3>2. get_value(modifiers, key) = -1
      BY <2>3 DEF get_value
    <3> QED BY <3>1, <3>2
  <2> QED BY <2>2, <2>3
<1> QED BY <1>1, TypeCorrect, PTL

\* A list without duplicates is a map, whatever its names and however long it is.
THEOREM PlainListIsMap == Spec => PlainIsMap
<1> DEFINE m == AsMap(modifiers)
           Right(key) ==
               /\ Erase(key) => AsMap(modifiers') = [AsMap(modifiers) EXCEPT ![key] = -1]
               /\ \A v \in Values :
                      Mod(key, v) \/ AssignAt(key, v) =>
                          AsMap(modifiers') = [AsMap(modifiers) EXCEPT ![key] = v]
               /\ \A v \in Values :
                      AddMissing(key, v) =>
                          AsMap(modifiers') =
                              [AsMap(modifiers) EXCEPT ![key] = IF @ = -1 THEN v ELSE @]
<1>1. ASSUME TypeOK, Plain(modifiers), NEW key \in Names  PROVE Right(key)
  <2>1. modifiers \in Seq(Entries)
    BY <1>1 DEF TypeOK, Entries
  <2>2. /\ Sorted(modifiers) /\ Unique(modifiers) /\ Represents(modifiers, m)
        /\ has_value(modifiers, key) <=> Found(modifiers, key)
        /\ Found(modifiers, key) <=> \E i \in 1..Len(modifiers) : modifiers[i].name = key
    BY <1>1, <2>1, PlainRepresents, LookUp
  <2>3. /\ m = [k \in Names |-> m[k]]
        /\ m[key] = get_value(modifiers, key)
        /\ Found(modifiers, key) <=> m[key] # -1
    BY <1>1, <2>2 DEF AsMap, has_value
  <2> HIDE DEF m
  <2>4. ASSUME Found(modifiers, key), NEW v \in Values
        PROVE  AsMap(set_value(modifiers, key, v)) = [m EXCEPT ![key] = v]
    BY <1>1, <2>1, <2>2, <2>4, SetRepresents, MapIs
  <2>5. ASSUME ~Found(modifiers, key), NEW v \in Values, NEW t \in add_value(modifiers, key, v)
        PROVE  /\ t \in Seq(Entries) /\ Sorted(t) /\ Unique(t)
               /\ Represents(t, [m EXCEPT ![key] = v])
               /\ AsMap(t) = [m EXCEPT ![key] = v]
    BY <1>1, <2>1, <2>2, <2>5, AddRepresents, MapIs
  <2>6. ASSUME Erase(key)  PROVE AsMap(modifiers') = [m EXCEPT ![key] = -1]
    <3>1. modifiers' \in erase(modifiers, key)
      BY <2>6 DEF Erase
    <3>2. CASE Found(modifiers, key)
      BY <1>1, <2>1, <2>2, <3>1, <3>2, EraseRepresents, MapIs
    <3>3. CASE ~Found(modifiers, key)
      <4>1. modifiers' = modifiers
        BY <3>1, <3>3 DEF erase
      <4>2. m[key] = -1
        BY <2>3, <3>3
      <4> QED BY <2>3, <4>1, <4>2 DEF m
    <3> QED BY <3>2, <3>3
  <2>7. ASSUME NEW v \in Values, Mod(key, v)  PROVE AsMap(modifiers') = [m EXCEPT ![key] = v]
    BY <2>2, <2>4, <2>5, <2>7 DEF Mod
  <2>8. ASSUME NEW v \in Values, AssignAt(key, v)
        PROVE  AsMap(modifiers') = [m EXCEPT ![key] = v]
    <3>1. CASE Found(modifiers, key)
      BY <2>4, <2>8, <3>1 DEF AssignAt
    <3>2. CASE ~Found(modifiers, key)
      <4>1. PICK t \in add_value(modifiers, key, 0) : modifiers' = set_value(t, key, v)
        BY <2>8, <3>2 DEF AssignAt
      <4> DEFINE w == [m EXCEPT ![key] = 0]
      <4>2. 0 \in Values
        BY ConstantsAssumption
      <4>3. t \in Seq(Entries) /\ Sorted(t) /\ Unique(t) /\ Represents(t, w)
        BY <2>5, <3>2, <4>1, <4>2
      <4>4. w[key] = 0 /\ [w EXCEPT ![key] = v] = [m EXCEPT ![key] = v]
        BY <1>1, <2>3
      <4> HIDE DEF w
      <4>5. Found(t, key)
        <5>1. \E i \in 1..Len(t) : t[i].name = key
          <6>1. (\A i \in 1..Len(t) : t[i].name # key) => w[key] = -1
            BY <1>1, <4>3 DEF Represents
          <6> QED BY <4>4, <6>1
        <5> QED BY <1>1, <4>3, <5>1, LookUp
      <4>6. AsMap(modifiers') = [w EXCEPT ![key] = v]
        BY <1>1, <4>1, <4>3, <4>5, SetRepresents, MapIs
      <4> QED BY <4>4, <4>6
    <3> QED BY <3>1, <3>2
  <2>9. ASSUME NEW v \in Values, AddMissing(key, v)
        PROVE  AsMap(modifiers') = [m EXCEPT ![key] = IF m[key] = -1 THEN v ELSE m[key]]
    <3>1. CASE Found(modifiers, key)
      <4>1. modifiers' = modifiers
        BY <2>2, <2>9, <3>1 DEF AddMissing
      <4> QED BY <2>3, <3>1, <4>1 DEF m
    <3>2. CASE ~Found(modifiers, key)
      <4>1. modifiers' \in add_value(modifiers, key, v)
        BY <2>2, <2>9, <3>2 DEF AddMissing
      <4> QED BY <2>3, <2>5, <3>2, <4>1
    <3> QED BY <3>1, <3>2
  <2> QED BY <2>6, <2>7, <2>8, <2>9 DEF m
<1>2. TypeOK => [Plain(modifiers) => \A key \in Names : Right(key)]_vars
  BY <1>1
<1> QED BY <1>2, TypeCorrect, PTL DEF Spec, PlainIsMap

\* What is sorted stays so.
LEMMA SortedStep ==
    ASSUME TypeOK, Sorted(modifiers), [Next]_vars
    PROVE  Sorted(modifiers)'
<1>1. modifiers \in Seq(Entries)
  BY DEF TypeOK, Entries
<1>2. ASSUME NEW key \in Names, NEW v \in Values
      PROVE  /\ \A t \in erase(modifiers, key) : Sorted(t)
             /\ \A t \in add_value(modifiers, key, v) : t \in Seq(Entries) /\ Sorted(t)
  BY <1>1, ListsTyped DEF erase, add_value, Sortings
<1>3. ASSUME NEW s \in Seq(Entries), Sorted(s), NEW key \in Names, NEW v \in Values
      PROVE  Sorted(set_value(s, key, v))
  BY <1>3, EditIs DEF set_value
<1>4. 0 \in Values
  BY ConstantsAssumption
<1>5. ASSUME NEW key \in Names, Erase(key)  PROVE Sorted(modifiers')
  BY <1>2, <1>4, <1>5 DEF Erase
<1>6. ASSUME NEW key \in Names, NEW v \in Values,
             Mod(key, v) \/ AddMissing(key, v) \/ AddValue(key, v)
      PROVE  Sorted(modifiers')
  BY <1>1, <1>2, <1>3, <1>6 DEF Mod, AddMissing, AddValue
<1>7. ASSUME NEW key \in Names, NEW v \in Values, AssignAt(key, v)  PROVE Sorted(modifiers')
  <2>1. PICK s \in IF Found(modifiers, key) THEN {modifiers} ELSE add_value(modifiers, key, 0) :
            modifiers' = set_value(s, key, v)
    BY <1>7 DEF AssignAt
  <2>2. s \in Seq(Entries) /\ Sorted(s)
    BY <1>1, <1>2, <1>4, <2>1
  <2> QED BY <1>3, <2>1, <2>2
<1>8. CASE Sort
  BY <1>8 DEF Sort, Sortings
<1>9. ASSUME NEW i \in 1..Len(modifiers), NEW v \in Values, Edit(i, v)  PROVE Sorted(modifiers')
  BY <1>1, <1>9, EditIs DEF Edit
<1>10. CASE ViewpointStep \/ UNCHANGED vars
  BY <1>10 DEF ViewpointStep, SetViewpoint, Frame, move_viewpoint_by, vars
<1> QED BY <1>5, <1>6, <1>7, <1>8, <1>9, <1>10 DEF Next, ModifierStep, EntryStep

\* The defaults of a camera, whose entries are not all found (camera.h:306-364), need
\* only be listed in order, and no value may read as absence: then nothing that is done
\* to the list makes an entry unfindable.
THEOREM SortedDefaultsSuffice ==
    ASSUME \A s \in Defaults : Sorted(s), -1 \notin Values
    PROVE  Spec => []EntriesFound
<1>1. Init => Sorted(modifiers)
  BY DEF Init
<1>2. TypeOK /\ Sorted(modifiers) /\ [Next]_vars => Sorted(modifiers)'
  BY SortedStep
<1>3. TypeOK /\ Sorted(modifiers) => EntriesFound
  <2> SUFFICES ASSUME TypeOK, Sorted(modifiers), NEW i \in 1..Len(modifiers)
               PROVE  has_value(modifiers, modifiers[i].name)
    BY DEF EntriesFound
  <2> DEFINE key == modifiers[i].name
             k == lower_bound(modifiers, key)
  <2>1. modifiers \in Seq(Entries)
    BY DEF TypeOK, Entries
  <2>2. key \in Names
    BY <2>1, EntriesAre
  <2>3. Found(modifiers, key) /\ k \in 1..Len(modifiers)
    BY <2>1, <2>2, LookUp
  <2>4. modifiers[k].value \in Values
    <3>1. modifiers[k] \in Entries
      BY <2>1, <2>3, EntriesAre
    <3> QED BY <3>1 DEF Entries
  <2> QED BY <2>3, <2>4 DEF has_value, get_value
<1> QED BY <1>1, <1>2, <1>3, TypeCorrect, PTL DEF Spec
=============================================================================
