---------------------- MODULE CacheDataStructureProofs ----------------------
(***************************************************************************)
(* Proofs about CacheDataStructure, for every number of objects and inputs *)
(* and every hash function: a scan follows a valid iterator and meets each *)
(* object once, and the map with its iterator implements ObjectSet.        *)
(***************************************************************************)
EXTENDS CacheDataStructure, FiniteSetTheorems, SequenceTheorems, WellFoundedInduction, TLAPS

-----------------------------------------------------------------------------
(* Sequences.                                                              *)

\* A set of natural numbers has a least element.
LEMMA LeastOfNaturals ==
    ASSUME NEW T \in SUBSET Nat, T # {}
    PROVE  \E x \in T : \A y \in T : x <= y
  <1> DEFINE R == {ss \in Nat \X Nat : ss[1] < ss[2]}
  <1>1. IsWellFoundedOn(R, Nat)
    BY NatLessThanWellFounded, Zenon DEF OpToRel
  <1>2. PICK x \in T : \A y \in T : ~ (<<y, x>> \in R)
    <2> HIDE DEF R
    <2> QED
      BY <1>1, WFMin, Zenon
  <1>3. ASSUME NEW y \in T
        PROVE  x <= y
    <2>1. x \in Nat /\ y \in Nat
      OBVIOUS
    <2>2. ~(y < x)
      BY <1>2, <2>1
    <2> QED
      BY <2>1, <2>2
  <1> QED
    BY <1>3

\* In a sequence without repetitions an element is found where it is ...
LEMMA FoundWhereItIs ==
    ASSUME NEW S, NEW s \in Seq(S), IsInjective(s), NEW i \in 1..Len(s)
    PROVE  /\ {j \in 1..Len(s) : s[j] = s[i]} = {i}
           /\ Min({j \in 1..Len(s) : s[j] = s[i]}) = i
  <1>1. {j \in 1..Len(s) : s[j] = s[i]} = {i}
    BY LenProperties DEF IsInjective
  <1>2. i \in Nat
    BY LenProperties
  <1>3. Min({i}) = i
    BY <1>2 DEF Min
  <1> QED
    BY <1>1, <1>3

\* ... and removing it leaves the others, in their order.
LEMMA RemoveFirstEffect ==
    ASSUME NEW S, NEW s \in Seq(S), IsInjective(s), NEW i \in 1..Len(s), NEW e, e = s[i]
    PROVE  /\ RemoveFirst(s, e) \in Seq(S)
           /\ Len(RemoveFirst(s, e)) = Len(s) - 1
           /\ \A j \in 1..(Len(s) - 1) :
                 RemoveFirst(s, e)[j] = IF j < i THEN s[j] ELSE s[j + 1]
           /\ IsInjective(RemoveFirst(s, e))
           /\ ToSet(RemoveFirst(s, e)) = ToSet(s) \ {e}
  <1> DEFINE a == SubSeq(s, 1, i - 1)
             b == SubSeq(s, i + 1, Len(s))
             r == a \o b
  <1>0. Len(s) \in Nat /\ i \in Nat /\ 1 <= i /\ i <= Len(s)
    BY LenProperties
  <1>1. Len(s) \in Nat /\ DOMAIN s = 1..Len(s) /\ s \in [1..Len(s) -> S]
    BY LenProperties
  <1>2. RemoveFirst(s, e) = r
    <2>1. {j \in 1..Len(s) : s[j] = e} = {i} /\ Min({j \in 1..Len(s) : s[j] = e}) = i
      BY FoundWhereItIs
    <2>2. \E j \in 1..Len(s) : s[j] = e
      OBVIOUS
    <2>3. SelectInSeq(s, LAMBDA v : v = e) = i
      BY <2>1 DEF SelectInSeq
    <2> QED
      BY <2>2, <2>3 DEF RemoveFirst, RemoveAt
  <1>3. /\ a \in Seq(S) /\ Len(a) = i - 1
        /\ \A j \in 1..(i - 1) : a[j] = s[j]
    <2>1. /\ 1 \in Int /\ i - 1 \in Int
          /\ \A j \in 1..(i - 1) : s[j] \in S
      BY <1>1
    <2>2. /\ a \in Seq(S)
          /\ Len(a) = IF 1 <= i - 1 THEN (i - 1) - 1 + 1 ELSE 0
          /\ \A j \in 1..(i - 1) - 1 + 1 : a[j] = s[1 + j - 1]
      BY <2>1, SubSeqProperties
    <2> HIDE DEF a
    <2> QED
      BY <1>1, <2>2
  <1>4. /\ b \in Seq(S) /\ Len(b) = Len(s) - i
        /\ \A j \in 1..(Len(s) - i) : b[j] = s[i + j]
    <2>1. /\ i + 1 \in Int /\ Len(s) \in Int
          /\ \A j \in (i + 1)..Len(s) : s[j] \in S
      BY <1>1
    <2>2. /\ b \in Seq(S)
          /\ Len(b) = IF i + 1 <= Len(s) THEN Len(s) - (i + 1) + 1 ELSE 0
          /\ \A j \in 1..Len(s) - (i + 1) + 1 : b[j] = s[(i + 1) + j - 1]
      BY <2>1, SubSeqProperties
    <2> HIDE DEF b
    <2>3. Len(s) - (i + 1) + 1 = Len(s) - i
      BY <1>1
    <2>4. \A j \in 1..(Len(s) - i) : (i + 1) + j - 1 = i + j
      BY <1>1
    <2>5. Len(b) = Len(s) - i
      <3>1. CASE i + 1 <= Len(s)
        BY <1>1, <2>2, <2>3, <3>1
      <3>2. CASE ~(i + 1 <= Len(s))
        <4>1. Len(b) = 0
          BY <2>2, <3>2
        <4>2. Len(s) - i = 0
          BY <1>0, <3>2
        <4> QED
          BY <4>1, <4>2
      <3> QED
        BY <3>1, <3>2
    <2> QED
      BY <2>2, <2>3, <2>4, <2>5
  <1> HIDE DEF a, b
  <1>5. /\ r \in Seq(S) /\ Len(r) = Len(s) - 1
        /\ \A j \in 1..(Len(s) - 1) : r[j] = IF j < i THEN s[j] ELSE s[j + 1]
    <2>1. /\ r \in Seq(S) /\ Len(r) = Len(a) + Len(b)
          /\ \A j \in 1..(Len(a) + Len(b)) :
                r[j] = IF j <= Len(a) THEN a[j] ELSE b[j - Len(a)]
      BY <1>3, <1>4, ConcatProperties
    <2> HIDE DEF r
    <2>2. (i - 1) + (Len(s) - i) = Len(s) - 1
      BY <1>1
    <2>3. ASSUME NEW j \in 1..(Len(s) - 1)
          PROVE  r[j] = IF j < i THEN s[j] ELSE s[j + 1]
      <3>1. CASE j < i
        BY <1>1, <1>3, <2>1, <2>2, <3>1
      <3>2. CASE ~(j < i)
        <4>1. j - (i - 1) \in 1..(Len(s) - i) /\ i + (j - (i - 1)) = j + 1
          BY <1>1, <3>2
        <4>2. ~(j <= i - 1) /\ j \in 1..((i - 1) + (Len(s) - i))
          BY <1>0, <2>2, <3>2
        <4>3. r[j] = b[j - (i - 1)]
          BY <1>3, <1>4, <2>1, <4>2
        <4>4. b[j - (i - 1)] = s[j + 1]
          BY <1>4, <4>1
        <4> QED
          BY <3>2, <4>3, <4>4
      <3> QED
        BY <3>1, <3>2
    <2>4. r \in Seq(S) /\ Len(r) = Len(s) - 1
      BY <1>3, <1>4, <2>1, <2>2
    <2> QED
      BY <2>3, <2>4
  <1> HIDE DEF r
  <1>6. DOMAIN r = 1..(Len(s) - 1)
    BY <1>5, LenProperties
  <1>7. IsInjective(r)
    <2> SUFFICES ASSUME NEW j \in 1..(Len(s) - 1), NEW k \in 1..(Len(s) - 1), r[j] = r[k]
                 PROVE  j = k
      BY <1>6 DEF IsInjective
    <2>1. \A m, n \in 1..Len(s) : s[m] = s[n] => m = n
      BY <1>1 DEF IsInjective
    <2> QED
      BY <1>1, <1>5, <2>1
  <1>8. ToSet(r) = ToSet(s) \ {e}
    <2>1. \A m, n \in 1..Len(s) : s[m] = s[n] => m = n
      BY <1>1 DEF IsInjective
    <2>2. ASSUME NEW j \in 1..(Len(s) - 1)
          PROVE  r[j] \in ToSet(s) \ {e}
      <3>1. CASE j < i
        BY <1>1, <1>5, <2>1, <3>1 DEF ToSet
      <3>2. CASE ~(j < i)
        <4>1. r[j] = s[j + 1] /\ j + 1 \in 1..Len(s) /\ j + 1 # i
          BY <1>1, <1>5, <3>2
        <4> QED
          BY <1>1, <2>1, <4>1 DEF ToSet
      <3> QED
        BY <3>1, <3>2
    <2>3. ASSUME NEW k \in 1..Len(s), s[k] # e
          PROVE  \E j \in 1..(Len(s) - 1) : r[j] = s[k]
      <3>1. CASE k < i
        BY <1>1, <1>5, <3>1
      <3>2. CASE k > i
        <4>1. k - 1 \in 1..(Len(s) - 1) /\ ~(k - 1 < i) /\ (k - 1) + 1 = k
          BY <1>1, <3>2
        <4> QED
          BY <1>5, <4>1
      <3> QED
        BY <1>1, <2>3, <3>1, <3>2
    <2> QED
      BY <1>1, <1>6, <2>2, <2>3 DEF ToSet
  <1> QED
    BY <1>2, <1>5, <1>7, <1>8

\* A sequence without repetitions is as long as the set of its elements is large.
LEMMA InjectiveLength ==
    ASSUME NEW S, NEW s \in Seq(S), IsInjective(s)
    PROVE  /\ IsFiniteSet(ToSet(s)) /\ Cardinality(ToSet(s)) = Len(s)
           /\ IsFiniteSet(S) => Len(s) <= Cardinality(S) /\ Cardinality(S) \in Nat
  <1> DEFINE T == ToSet(s)
  <1>1. Len(s) \in Nat /\ DOMAIN s = 1..Len(s) /\ s \in [1..Len(s) -> S]
    BY LenProperties
  <1>2. T \in SUBSET S /\ T = {s[i] : i \in 1..Len(s)}
    BY <1>1 DEF ToSet
  <1> HIDE DEF T
  <1>3. s \in [1..Len(s) -> T]
    BY <1>1, <1>2
  <1>4. s \in Injection(1..Len(s), T) /\ s \in Surjection(1..Len(s), T)
    BY <1>1, <1>2, <1>3 DEF Injection, Surjection, IsInjective
  <1>5. IsFiniteSet(1..Len(s)) /\ Cardinality(1..Len(s)) = Len(s)
    <2>1. 1 \in Int /\ Len(s) \in Int
      BY <1>1
    <2>2. IsFiniteSet(1..Len(s)) /\ Cardinality(1..Len(s)) = IF 1 > Len(s) THEN 0 ELSE Len(s) - 1 + 1
      BY <2>1, FS_Interval
    <2> QED
      BY <1>1, <2>2
  <1>6. IsFiniteSet(T) /\ Cardinality(T) = Len(s)
    BY <1>4, <1>5, FS_Surjection
  <1>7. IsFiniteSet(S) => Cardinality(T) <= Cardinality(S) /\ Cardinality(S) \in Nat
    BY <1>2, FS_Subset, FS_CardinalityType
  <1> QED
    BY <1>6, <1>7 DEF T

\* An element that is new to a sequence without repetitions can follow it.
LEMMA AppendNew ==
    ASSUME NEW S, NEW s \in Seq(S), IsInjective(s), NEW e \in S, e \notin ToSet(s)
    PROVE  /\ Append(s, e) \in Seq(S) /\ IsInjective(Append(s, e))
           /\ ToSet(Append(s, e)) = ToSet(s) \cup {e}
  <1> DEFINE t == Append(s, e)
  <1>1. Len(s) \in Nat
    BY LenProperties
  <1>2. DOMAIN s = 1..Len(s)
    BY LenProperties
  <1>3. /\ t \in Seq(S) /\ Len(t) = Len(s) + 1
        /\ \A i \in 1..Len(s) : t[i] = s[i]
        /\ t[Len(s) + 1] = e
    BY AppendProperties
  <1> HIDE DEF t
  <1>4. DOMAIN t = 1..(Len(s) + 1)
    BY <1>3, LenProperties
  <1>5. /\ \A i \in 1..(Len(s) + 1) : i \in 1..Len(s) \/ i = Len(s) + 1
        /\ \A i \in 1..Len(s) : i \in 1..(Len(s) + 1)
        /\ Len(s) + 1 \in 1..(Len(s) + 1)
    BY <1>1
  <1>6. \A i \in 1..Len(s) : s[i] # e
    BY <1>2 DEF ToSet
  <1>7. IsInjective(t)
    BY <1>2, <1>3, <1>4, <1>5, <1>6 DEF IsInjective
  <1>8. ToSet(t) = ToSet(s) \cup {e}
    BY <1>2, <1>3, <1>4, <1>5 DEF ToSet
  <1> QED
    BY <1>3, <1>7, <1>8 DEF t

\* The enumerations of a finite set are the sequences without repetitions of all
\* its elements.
LEMMA Enumerations ==
    ASSUME NEW T, IsFiniteSet(T), NEW s \in SetToSeqs(T)
    PROVE  s \in Seq(T) /\ IsInjective(s) /\ ToSet(s) = T
  <1> DEFINE n == Cardinality(T)
  <1>1. n \in Nat
    BY FS_CardinalityType
  <1>2. s \in [1..n -> T] /\ \A i, j \in 1..n : i # j => s[i] # s[j]
    BY DEF SetToSeqs
  <1> HIDE DEF n
  <1>3. s \in Seq(T)
    BY <1>1, <1>2, SeqDef
  <1>4. DOMAIN s = 1..n
    BY <1>2
  <1>5. IsInjective(s)
    BY <1>2, <1>4 DEF IsInjective
  <1>6. s \in Injection(1..n, T)
    BY <1>2, <1>5 DEF Injection
  <1>7. Cardinality(1..n) = n
    <2>1. 1 \in Int /\ n \in Int
      BY <1>1
    <2>2. Cardinality(1..n) = IF 1 > n THEN 0 ELSE n - 1 + 1
      BY <2>1, FS_Interval
    <2> QED
      BY <1>1, <2>2
  <1>8. s \in Surjection(1..n, T)
    BY <1>6, <1>7, FS_Injection DEF n
  <1>9. ToSet(s) = T
    BY <1>2, <1>4, <1>8 DEF Surjection, ToSet
  <1> QED
    BY <1>3, <1>5, <1>9

-----------------------------------------------------------------------------
(* The map.                                                                *)

\* The order of the map enumerates the hashes in it, and every vector holds,
\* without repetitions, objects with the hash of the vector.
WellFormed(map, ord, key) ==
    /\ DOMAIN map \subseteq Hashes
    /\ ord \in Seq(Hashes) /\ IsInjective(ord) /\ ToSet(ord) = DOMAIN map
    /\ \A h \in DOMAIN map :
          /\ map[h] \in Seq(Objects) /\ map[h] # <<>> /\ IsInjective(map[h])
          /\ \A n \in 1..Len(map[h]) : HashOf[key[map[h][n]]] = h

StoredIn(map) == UNION {ToSet(map[h]) : h \in DOMAIN map}

\* What a scan at index n of the vector of h still has to meet.
UnseenFrom(map, ord, h, n) ==
    LET i == SelectInSeq(ord, LAMBDA g : g = h)
        list == map[h]
    IN  {list[j] : j \in (n + 1)..Len(list)}
           \cup UNION {ToSet(map[ord[j]]) : j \in (i + 1)..Len(ord)}

\* An object is in one place of the map, in the vector of its hash.
LEMMA Places ==
    ASSUME NEW map, NEW ord, NEW key, WellFormed(map, ord, key)
    PROVE  /\ StoredIn(map) \subseteq Objects
           /\ \A o \in StoredIn(map) :
                 /\ HashOf[key[o]] \in DOMAIN map
                 /\ \E n \in 1..Len(map[HashOf[key[o]]]) : map[HashOf[key[o]]][n] = o
           /\ \A h \in DOMAIN map : \A n \in 1..Len(map[h]) :
                 /\ map[h][n] \in StoredIn(map)
                 /\ HashOf[key[map[h][n]]] = h
  <1>1. ASSUME NEW h \in DOMAIN map
        PROVE  /\ Len(map[h]) \in Nat /\ DOMAIN map[h] = 1..Len(map[h])
               /\ map[h] \in [1..Len(map[h]) -> Objects]
               /\ ToSet(map[h]) = {map[h][n] : n \in 1..Len(map[h])}
    <2>1. map[h] \in Seq(Objects)
      BY DEF WellFormed
    <2> QED
      BY <2>1, LenProperties DEF ToSet
  <1>2. ASSUME NEW o \in StoredIn(map)
        PROVE  \E h \in DOMAIN map : \E n \in 1..Len(map[h]) : o = map[h][n]
    BY <1>1 DEF StoredIn
  <1>3. \A h \in DOMAIN map : \A n \in 1..Len(map[h]) :
           map[h][n] \in Objects /\ HashOf[key[map[h][n]]] = h
    BY <1>1 DEF WellFormed
  <1>4. \A h \in DOMAIN map : \A n \in 1..Len(map[h]) : map[h][n] \in StoredIn(map)
    BY <1>1 DEF StoredIn
  <1> QED
    BY <1>2, <1>3, <1>4

\* Two places of the map never hold the same object.
LEMMA PlacesDiffer ==
    ASSUME NEW map, NEW ord, NEW key, WellFormed(map, ord, key),
           NEW i \in 1..Len(ord), NEW n \in 1..Len(map[ord[i]]),
           NEW j \in 1..Len(ord), NEW m \in 1..Len(map[ord[j]]),
           map[ord[i]][n] = map[ord[j]][m]
    PROVE  i = j /\ n = m
  <1>1. DOMAIN ord = 1..Len(ord) /\ ord[i] \in DOMAIN map /\ ord[j] \in DOMAIN map
    BY LenProperties DEF WellFormed, ToSet
  <1>2. ord[i] = ord[j]
    BY <1>1, Places
  <1>3. i = j
    BY <1>1, <1>2 DEF WellFormed, IsInjective
  <1>4. DOMAIN map[ord[i]] = 1..Len(map[ord[i]])
    BY <1>1, LenProperties DEF WellFormed
  <1>5. IsInjective(map[ord[i]])
    BY <1>1 DEF WellFormed
  <1>6. n = m
    BY <1>3, <1>4, <1>5 DEF IsInjective
  <1> QED
    BY <1>3, <1>6

\* The object o is at a place of the map after index n of the i-th vector.
AtLaterPlace(map, ord, i, n, o) ==
    \E j \in 1..Len(ord) : \E m \in 1..Len(map[ord[j]]) :
       o = map[ord[j]][m] /\ (j > i \/ (j = i /\ m > n))

\* What is unseen are the objects at the places after the one the scan is at.
LEMMA UnseenPlaces ==
    ASSUME NEW map, NEW ord, NEW key, WellFormed(map, ord, key),
           NEW i \in 1..Len(ord), NEW n \in Nat, NEW o
    PROVE  o \in UnseenFrom(map, ord, ord[i], n) <=> AtLaterPlace(map, ord, i, n, o)
  <1> DEFINE list == map[ord[i]]
             Rest == {list[j] : j \in (n + 1)..Len(list)}
             After == UNION {ToSet(map[ord[j]]) : j \in (i + 1)..Len(ord)}
  <1>0. Len(ord) \in Nat /\ DOMAIN ord = 1..Len(ord) /\ i \in Nat
    BY LenProperties DEF WellFormed
  <1>1. ASSUME NEW j \in 1..Len(ord)
        PROVE  /\ ord[j] \in DOMAIN map
               /\ Len(map[ord[j]]) \in Nat
               /\ ToSet(map[ord[j]]) = {map[ord[j]][m] : m \in 1..Len(map[ord[j]])}
    <2>1. ord[j] \in DOMAIN map
      BY <1>0 DEF WellFormed, ToSet
    <2>2. map[ord[j]] \in Seq(Objects)
      BY <2>1 DEF WellFormed
    <2> QED
      BY <2>1, <2>2, LenProperties DEF ToSet
  <1>2. UnseenFrom(map, ord, ord[i], n) = Rest \cup After
    <2>1. {j \in 1..Len(ord) : ord[j] = ord[i]} = {i} /\ Min({j \in 1..Len(ord) : ord[j] = ord[i]}) = i
      <3>1. ord \in Seq(Hashes) /\ IsInjective(ord)
        BY DEF WellFormed
      <3> HIDE DEF list, Rest, After
      <3> QED
        BY <3>1, FoundWhereItIs
    <2>2. SelectInSeq(ord, LAMBDA g : g = ord[i]) = i
      BY <2>1 DEF SelectInSeq
    <2> QED
      BY <2>2 DEF UnseenFrom
  <1>3. o \in Rest <=> \E m \in 1..Len(map[ord[i]]) : o = map[ord[i]][m] /\ m > n
    <2>1. Len(list) \in Nat
      BY <1>1
    <2>2. \A m : m \in (n + 1)..Len(list) <=> m \in 1..Len(list) /\ m > n
      BY <2>1
    <2> QED
      BY <2>2
  <1>4. o \in After <=> \E j \in 1..Len(ord) : \E m \in 1..Len(map[ord[j]]) : o = map[ord[j]][m] /\ j > i
    <2>1. \A j : j \in (i + 1)..Len(ord) <=> j \in 1..Len(ord) /\ j > i
      BY <1>0
    <2>2. o \in After <=> \E j \in (i + 1)..Len(ord) : o \in ToSet(map[ord[j]])
      OBVIOUS
    <2>3. o \in After <=> \E j \in 1..Len(ord) : j > i /\ o \in ToSet(map[ord[j]])
      BY <2>1, <2>2
    <2> HIDE DEF After
    <2> QED
      BY <1>1, <2>3
  <1> HIDE DEF Rest, After
  <1> QED
    BY <1>2, <1>3, <1>4 DEF AtLaterPlace

\* A scan starts with all stored objects unseen, ...
LEMMA AllUnseen ==
    ASSUME NEW map, NEW ord, NEW key, WellFormed(map, ord, key), 1 \in 1..Len(ord)
    PROVE  UnseenFrom(map, ord, ord[1], 0) = StoredIn(map)
  <1>0. Len(ord) \in Nat /\ 0 \in Nat
    BY LenProperties DEF WellFormed
  <1>1. DOMAIN ord = 1..Len(ord)
    BY LenProperties DEF WellFormed
  <1>2. \A j \in 1..Len(ord) : ord[j] \in DOMAIN map
    BY <1>1 DEF WellFormed, ToSet
  <1>3. \A h \in DOMAIN map : \E j \in 1..Len(ord) : ord[j] = h
    BY <1>1 DEF WellFormed, ToSet
  <1>4. ASSUME NEW o \in UnseenFrom(map, ord, ord[1], 0)
        PROVE  o \in StoredIn(map)
    <2>1. AtLaterPlace(map, ord, 1, 0, o)
      BY <1>0, <1>4, UnseenPlaces
    <2> QED
      BY <1>2, <2>1, Places DEF AtLaterPlace
  <1>5. ASSUME NEW o \in StoredIn(map)
        PROVE  o \in UnseenFrom(map, ord, ord[1], 0)
    <2>0. PICK h \in DOMAIN map : \E m \in 1..Len(map[h]) : o = map[h][m]
      BY Places
    <2>1. PICK n \in 1..Len(map[h]) : o = map[h][n]
      BY <2>0
    <2>2. PICK j \in 1..Len(ord) : ord[j] = h
      BY <1>3
    <2>3. j > 1 \/ (j = 1 /\ n > 0)
      <3>1. Len(map[h]) \in Nat
        BY LenProperties DEF WellFormed
      <3> QED
        BY <1>0, <3>1
    <2> QED
      <3>1. AtLaterPlace(map, ord, 1, 0, o)
        BY <2>1, <2>2, <2>3 DEF AtLaterPlace
      <3> QED
        BY <1>0, <3>1, UnseenPlaces
  <1> QED
    BY <1>4, <1>5

\* ... and every step of its iterator, to the next object of the vector or else
\* to the next vector, takes just the object that was met from them.
StepEffect(map, ord, i, n, o) ==
    /\ o \in UnseenFrom(map, ord, ord[i], n)
    /\ UnseenFrom(map, ord, ord[i], n) \subseteq StoredIn(map)
    /\ n + 1 < Len(map[ord[i]]) =>
          UnseenFrom(map, ord, ord[i], n + 1) = UnseenFrom(map, ord, ord[i], n) \ {o}
    /\ n + 1 >= Len(map[ord[i]]) /\ i # Len(ord) =>
          UnseenFrom(map, ord, ord[i + 1], 0) = UnseenFrom(map, ord, ord[i], n) \ {o}
    /\ n + 1 >= Len(map[ord[i]]) /\ i = Len(ord) =>
          UnseenFrom(map, ord, ord[i], n) = {o}

LEMMA StepOfUnseen ==
    ASSUME NEW map, NEW ord, NEW key, WellFormed(map, ord, key),
           NEW i \in 1..Len(ord), NEW n \in Nat, n < Len(map[ord[i]]),
           NEW o, o = map[ord[i]][n + 1]
    PROVE  StepEffect(map, ord, i, n, o)
  <1>0. Len(ord) \in Nat /\ i \in Nat /\ 1 <= i /\ i <= Len(ord)
    BY LenProperties DEF WellFormed
  <1>1. DOMAIN ord = 1..Len(ord)
    BY LenProperties DEF WellFormed
  <1>2. ASSUME NEW j \in 1..Len(ord)
        PROVE  ord[j] \in DOMAIN map /\ Len(map[ord[j]]) \in Nat
    <2>1. ord[j] \in DOMAIN map
      BY <1>1 DEF WellFormed, ToSet
    <2> QED
      BY <2>1, LenProperties DEF WellFormed
  <1>3. n + 1 \in 1..Len(map[ord[i]]) /\ n + 1 \in Nat /\ 0 \in Nat
    BY <1>2
  <1>4. \A x : x \in UnseenFrom(map, ord, ord[i], n) <=> AtLaterPlace(map, ord, i, n, x)
    BY UnseenPlaces
  <1>5. o \in UnseenFrom(map, ord, ord[i], n)
    BY <1>0, <1>3, <1>4 DEF AtLaterPlace
  <1>6. UnseenFrom(map, ord, ord[i], n) \subseteq StoredIn(map)
    BY <1>2, <1>4, Places DEF AtLaterPlace
  <1>7. \A j \in 1..Len(ord) : \A m \in 1..Len(map[ord[j]]) :
           o = map[ord[j]][m] <=> j = i /\ m = n + 1
    BY <1>3, PlacesDiffer
  <1>8. ASSUME n + 1 < Len(map[ord[i]]), NEW x
        PROVE  x \in UnseenFrom(map, ord, ord[i], n + 1) <=> x \in UnseenFrom(map, ord, ord[i], n) \ {o}
    <2>1. x \in UnseenFrom(map, ord, ord[i], n + 1) <=> AtLaterPlace(map, ord, i, n + 1, x)
      BY <1>3, UnseenPlaces
    <2>2. ASSUME NEW j \in 1..Len(ord), NEW m \in 1..Len(map[ord[j]])
          PROVE  (j > i \/ (j = i /\ m > n + 1)) <=>
                    (j > i \/ (j = i /\ m > n)) /\ ~(j = i /\ m = n + 1)
      BY <1>0, <1>2
    <2> QED
      BY SMTT(30), <1>4, <1>7, <2>1, <2>2 DEF AtLaterPlace
  <1>9. ASSUME n + 1 >= Len(map[ord[i]]), i # Len(ord), NEW x
        PROVE  x \in UnseenFrom(map, ord, ord[i + 1], 0) <=> x \in UnseenFrom(map, ord, ord[i], n) \ {o}
    <2>1. i + 1 \in 1..Len(ord)
      BY <1>0, <1>9
    <2>2. x \in UnseenFrom(map, ord, ord[i + 1], 0) <=> AtLaterPlace(map, ord, i + 1, 0, x)
      BY <1>3, <2>1, UnseenPlaces
    <2>3. ASSUME NEW j \in 1..Len(ord), NEW m \in 1..Len(map[ord[j]])
          PROVE  (j > i + 1 \/ (j = i + 1 /\ m > 0)) <=>
                    (j > i \/ (j = i /\ m > n)) /\ ~(j = i /\ m = n + 1)
      BY <1>0, <1>2, <1>9
    <2> QED
      BY SMTT(30), <1>4, <1>7, <2>2, <2>3 DEF AtLaterPlace
  <1>10. ASSUME n + 1 >= Len(map[ord[i]]), i = Len(ord), NEW x
         PROVE  x \in UnseenFrom(map, ord, ord[i], n) <=> x = o
    <2>1. ASSUME NEW j \in 1..Len(ord), NEW m \in 1..Len(map[ord[j]])
          PROVE  (j > i \/ (j = i /\ m > n)) <=> (j = i /\ m = n + 1)
      BY <1>0, <1>2, <1>10
    <2> QED
      BY <1>3, <1>4, <1>7, <2>1 DEF AtLaterPlace
  <1> QED
    BY <1>5, <1>6, <1>8, <1>9, <1>10 DEF StepEffect

\* A lookup answers a stored object with equal inputs if there is one.
LEMMA FindAnswers ==
    ASSUME WellFormed(cacheData, order, keyOf), NEW k \in Keys
    PROVE  \/ /\ Find(k) \in Stored /\ Find(k) # NoObject
              /\ <<keyOf[Find(k)], k>> \in Equal
           \/ /\ Find(k) = NoObject
              /\ \A o \in Stored : keyOf[o] \in Keys => <<keyOf[o], k>> \notin Equal
  <1> DEFINE h == HashOf[k]
             list == cacheData[h]
             I == {n \in 1..Len(list) : <<keyOf[list[n]], k>> \in Equal}
  <1>0. Stored = StoredIn(cacheData)
    BY DEF Stored, StoredIn
  <1>1. CASE \E o \in Stored : keyOf[o] \in Keys /\ <<keyOf[o], k>> \in Equal
    <2>1. PICK o \in Stored : keyOf[o] \in Keys /\ <<keyOf[o], k>> \in Equal
      BY <1>1
    <2>2. HashOf[keyOf[o]] = h
      <3>1. HashOf[<<keyOf[o], k>>[1]] = HashOf[<<keyOf[o], k>>[2]]
        BY <2>1, EqualAssumption
      <3> QED
        BY <3>1
    <2>3. h \in DOMAIN cacheData /\ \E n \in 1..Len(list) : list[n] = o
      BY <1>0, <2>1, <2>2, Places
    <2>4. I # {} /\ I \subseteq Nat /\ 0 \notin I
      BY <2>1, <2>3
    <2>5. Min(I) \in I /\ Min(I) # 0
      <3> HIDE DEF I
      <3>1. \E x \in I : \A y \in I : x <= y
        BY <2>4, LeastOfNaturals
      <3>2. Min(I) \in I
        BY <2>4, <3>1 DEF Min
      <3> QED
        BY <2>4, <3>2
    <2>6. FindIn(list, k) = list[Min(I)]
      BY <2>4, <2>5 DEF FindIn, SelectInSeq
    <2>7. Find(k) = list[Min(I)]
      BY <2>3, <2>6 DEF Find
    <2>8. list[Min(I)] \in Stored /\ <<keyOf[list[Min(I)]], k>> \in Equal
      BY <1>0, <2>3, <2>5, Places
    <2>9. list[Min(I)] # NoObject
      <3>1. Stored \subseteq Objects
        BY <1>0, Places
      <3> HIDE DEF list, I
      <3> QED
        BY <2>8, <3>1, ObjectAssumption
    <2> QED
      BY <2>7, <2>8, <2>9
  <1>2. CASE \A o \in Stored : keyOf[o] \in Keys => <<keyOf[o], k>> \notin Equal
    <2>1. ASSUME Find(k) # NoObject
          PROVE  /\ Find(k) \in Stored /\ <<keyOf[Find(k)], k>> \in Equal
      <3>1. h \in DOMAIN cacheData /\ Find(k) = FindIn(list, k)
        BY <2>1 DEF Find
      <3>2. I # {}
        BY <2>1, <3>1 DEF FindIn, SelectInSeq
      <3>3. I \subseteq Nat /\ 0 \notin I
        OBVIOUS
      <3>4. Min(I) \in I /\ Min(I) # 0
        <4> HIDE DEF I
        <4>1. \E x \in I : \A y \in I : x <= y
          BY <3>2, <3>3, LeastOfNaturals
        <4>2. Min(I) \in I
          BY <3>2, <4>1 DEF Min
        <4> QED
          BY <3>3, <4>2
      <3>5. FindIn(list, k) = list[Min(I)]
        BY <3>2, <3>4 DEF FindIn, SelectInSeq
      <3>6. list[Min(I)] \in StoredIn(cacheData)
        BY <3>1, <3>4, Places
      <3>7. <<keyOf[list[Min(I)]], k>> \in Equal
        BY <3>4
      <3> QED
        BY <1>0, <3>1, <3>5, <3>6, <3>7
    <2> QED
      BY <1>2, <2>1
  <1> QED
    BY <1>1, <1>2

\* The map once the object o has joined the vector of h.
MapWith(map, h, o) ==
    [g \in DOMAIN map \cup {h} |->
        IF g = h THEN Append(IF h \in DOMAIN map THEN map[h] ELSE <<>>, o) ELSE map[g]]

\* An object that is put into the map joins the vector of its hash.
LEMMA PutKeepsForm ==
    ASSUME NEW map, NEW ord, NEW key, WellFormed(map, ord, key),
           NEW o \in Objects, key[o] \in Keys, o \notin StoredIn(map),
           NEW map2, NEW ord2,
           map2 = MapWith(map, HashOf[key[o]], o),
           \/ HashOf[key[o]] \in DOMAIN map /\ ord2 = ord
           \/ HashOf[key[o]] \notin DOMAIN map /\ ord2 \in SetToSeqs(DOMAIN map2)
    PROVE  WellFormed(map2, ord2, key) /\ StoredIn(map2) = StoredIn(map) \cup {o}
  <1> DEFINE h == HashOf[key[o]]
             list == IF h \in DOMAIN map THEN map[h] ELSE <<>>
             D == DOMAIN map \cup {h}
  <1>1. h \in Hashes /\ DOMAIN map \subseteq Hashes
    BY DEF Hashes, WellFormed
  <1>2. list \in Seq(Objects) /\ IsInjective(list)
    <2>1. CASE h \in DOMAIN map
      BY <2>1 DEF WellFormed
    <2>2. CASE h \notin DOMAIN map
      BY <2>2 DEF IsInjective
    <2> QED
      BY <2>1, <2>2
  <1>3. ToSet(list) = IF h \in DOMAIN map THEN ToSet(map[h]) ELSE {}
    <2>1. CASE h \in DOMAIN map
      BY <2>1
    <2>2. CASE h \notin DOMAIN map
      BY <2>2 DEF ToSet
    <2> QED
      BY <2>1, <2>2
  <1>4. ASSUME NEW x \in ToSet(list)
        PROVE  x \in StoredIn(map) /\ HashOf[key[x]] = h
    <2>1. h \in DOMAIN map /\ x \in ToSet(map[h])
      BY <1>3, <1>4
    <2>2. DOMAIN map[h] = 1..Len(map[h])
      BY <2>1, LenProperties DEF WellFormed
    <2> QED
      BY <2>1, <2>2, Places DEF ToSet
  <1> HIDE DEF list
  <1> DEFINE more == Append(list, o)
  <1>5. more \in Seq(Objects) /\ IsInjective(more) /\ ToSet(more) = ToSet(list) \cup {o}
    <2>1. o \notin ToSet(list)
      BY <1>4
    <2> QED
      BY <1>2, <2>1, AppendNew
  <1>6. more # <<>>
    BY <1>2, AppendProperties
  <1> HIDE DEF more
  <1>7. \A n \in 1..Len(more) : HashOf[key[more[n]]] = h
    <2> SUFFICES ASSUME NEW n \in 1..Len(more)
                 PROVE  HashOf[key[more[n]]] = h
      OBVIOUS
    <2>1. more[n] \in ToSet(more)
      BY <1>5, LenProperties DEF ToSet
    <2> QED
      BY <1>4, <1>5, <2>1
  <1>8. DOMAIN map2 = D /\ map2[h] = more /\ \A g \in DOMAIN map : g # h => map2[g] = map[g]
    BY DEF MapWith, more, list
  <1>9. ord2 \in Seq(Hashes) /\ IsInjective(ord2) /\ ToSet(ord2) = D
    <2>1. CASE h \in DOMAIN map
      BY <2>1 DEF WellFormed
    <2>2. CASE h \notin DOMAIN map
      <3>1. IsFiniteSet(DOMAIN map)
        <4>1. ord \in Seq(Hashes) /\ IsInjective(ord)
          BY DEF WellFormed
        <4>2. IsFiniteSet(ToSet(ord))
          BY <4>1, InjectiveLength
        <4> QED
          BY <4>2 DEF WellFormed
      <3>2. IsFiniteSet(D)
        BY <3>1, FS_AddElement
      <3>3. ord2 \in SetToSeqs(D)
        BY <1>8, <2>2
      <3> HIDE DEF D
      <3>4. ord2 \in Seq(D) /\ IsInjective(ord2) /\ ToSet(ord2) = D
        BY <3>2, <3>3, Enumerations
      <3>5. D \subseteq Hashes
        BY <1>1 DEF D
      <3> QED
        BY <3>4, <3>5, SeqMonotonic
    <2> QED
      BY <2>1, <2>2
  <1>10. WellFormed(map2, ord2, key)
    <2>1. ASSUME NEW g \in D
          PROVE  /\ map2[g] \in Seq(Objects) /\ map2[g] # <<>> /\ IsInjective(map2[g])
                 /\ \A n \in 1..Len(map2[g]) : HashOf[key[map2[g][n]]] = g
      <3>1. CASE g = h
        BY <1>5, <1>6, <1>7, <1>8, <3>1
      <3>2. CASE g # h
        BY <1>8, <3>2 DEF WellFormed
      <3> QED
        BY <3>1, <3>2
    <2> QED
      BY <1>1, <1>8, <1>9, <2>1 DEF WellFormed
  <1>11. StoredIn(map2) = StoredIn(map) \cup {o}
    <2>1. DOMAIN map2 = DOMAIN map \cup {h}
      BY <1>8
    <2> HIDE DEF h, D
    <2>2. ASSUME NEW x
          PROVE  x \in StoredIn(map2) <=> x \in StoredIn(map) \/ x = o
      <3>1. \A g \in DOMAIN map : g # h => ToSet(map2[g]) = ToSet(map[g])
        BY <1>8
      <3>2. ToSet(map2[h]) = (IF h \in DOMAIN map THEN ToSet(map[h]) ELSE {}) \cup {o}
        BY <1>3, <1>5, <1>8
      <3>3. x \in StoredIn(map2) <=> \E g \in DOMAIN map \cup {h} : x \in ToSet(map2[g])
        BY <2>1 DEF StoredIn
      <3>4. x \in StoredIn(map) <=> \E g \in DOMAIN map : x \in ToSet(map[g])
        BY DEF StoredIn
      <3>5. x \in ToSet(map2[h]) <=> (h \in DOMAIN map /\ x \in ToSet(map[h])) \/ x = o
        BY <3>2
      <3> QED
        BY <3>1, <3>3, <3>4, <3>5, Zenon
    <2> QED
      BY <2>2
  <1> QED
    BY <1>10, <1>11

\* The map once the object o has left it.
MapWithout(map, h, o) ==
    IF map[h] = <<o>> THEN Restrict(map, DOMAIN map \ {h}) ELSE [map EXCEPT ![h] = RemoveFirst(@, o)]

\* An object that is removed leaves its vector, which goes with its last object.
LEMMA RemovalKeepsForm ==
    ASSUME NEW map, NEW ord, NEW key, WellFormed(map, ord, key),
           NEW o \in StoredIn(map), NEW map2, NEW ord2,
           map2 = MapWithout(map, HashOf[key[o]], o),
           ord2 = IF HashOf[key[o]] \in DOMAIN map2 THEN ord ELSE RemoveFirst(ord, HashOf[key[o]])
    PROVE  WellFormed(map2, ord2, key) /\ StoredIn(map2) = StoredIn(map) \ {o}
  <1> DEFINE h == HashOf[key[o]]
             list == map[h]
             less == RemoveFirst(list, o)
  <1>1. h \in DOMAIN map /\ \E n \in 1..Len(list) : list[n] = o
    BY Places
  <1>2. PICK n \in 1..Len(list) : list[n] = o
    BY <1>1
  <1>3. list \in Seq(Objects) /\ IsInjective(list) /\ ord \in Seq(Hashes) /\ IsInjective(ord)
    BY <1>1 DEF WellFormed
  <1>3a. Len(list) \in Nat
    BY <1>3, LenProperties
  <1>4. \A g \in DOMAIN map : g # h => o \notin ToSet(map[g])
    <2> SUFFICES ASSUME NEW g \in DOMAIN map, g # h, o \in ToSet(map[g])
                 PROVE  FALSE
      OBVIOUS
    <2>1. DOMAIN map[g] = 1..Len(map[g])
      BY LenProperties DEF WellFormed
    <2>2. PICK m \in 1..Len(map[g]) : map[g][m] = o
      BY <2>1 DEF ToSet
    <2> QED
      BY <2>2, Places
  <1>5. CASE list = <<o>>
    <2>1. DOMAIN map2 = DOMAIN map \ {h} /\ \A g \in DOMAIN map2 : map2[g] = map[g]
      BY <1>5 DEF MapWithout, Restrict
    <2>2. ord2 = RemoveFirst(ord, h)
      BY <2>1
    <2>3. PICK i \in 1..Len(ord) : ord[i] = h
      BY <1>1, <1>3, LenProperties DEF WellFormed, ToSet
    <2>4. ord2 \in Seq(Hashes) /\ IsInjective(ord2) /\ ToSet(ord2) = ToSet(ord) \ {h}
      <3> HIDE DEF h, list, less
      <3>0. ord \in Seq(Hashes) /\ IsInjective(ord) /\ i \in 1..Len(ord) /\ h = ord[i]
        BY <1>3, <2>3
      <3>1. /\ RemoveFirst(ord, h) \in Seq(Hashes) /\ IsInjective(RemoveFirst(ord, h))
            /\ ToSet(RemoveFirst(ord, h)) = ToSet(ord) \ {h}
        BY <3>0, RemoveFirstEffect
      <3> QED
        BY <2>2, <3>1
    <2>5. WellFormed(map2, ord2, key)
      BY <2>1, <2>4 DEF WellFormed
    <2>6. ToSet(list) = {o}
      BY <1>5 DEF ToSet
    <2>7. StoredIn(map2) = StoredIn(map) \ {o}
      BY <1>4, <2>1, <2>6 DEF StoredIn
    <2> QED
      BY <2>5, <2>7
  <1>6. CASE list # <<o>>
    <2>1. /\ less \in Seq(Objects) /\ Len(less) = Len(list) - 1 /\ IsInjective(less)
          /\ ToSet(less) = ToSet(list) \ {o}
      BY SMTT(30), <1>2, <1>3, RemoveFirstEffect
    <2> HIDE DEF less
    <2>2. DOMAIN map2 = DOMAIN map /\ map2[h] = less /\ \A g \in DOMAIN map : g # h => map2[g] = map[g]
      BY <1>1, <1>6 DEF MapWithout, less
    <2>3. ord2 = ord
      BY <1>1, <2>2
    <2>4. less # <<>>
      <3>1. Len(list) = 1 => list = <<o>>
        BY <1>2, <1>3, <1>3a
      <3>2. Len(list) # 1
        BY <1>6, <3>1
      <3>3. Len(less) # 0
        BY <1>3a, <2>1, <3>2
      <3> QED
        BY <3>3
    <2>5. \A m \in 1..Len(less) : HashOf[key[less[m]]] = h
      <3> SUFFICES ASSUME NEW m \in 1..Len(less)
                   PROVE  HashOf[key[less[m]]] = h
        OBVIOUS
      <3>1. less[m] \in ToSet(list)
        BY <2>1, LenProperties DEF ToSet
      <3>2. DOMAIN list = 1..Len(list)
        BY <1>3, LenProperties
      <3> QED
        BY <1>1, <3>1, <3>2 DEF ToSet, WellFormed
    <2>6. WellFormed(map2, ord2, key)
      <3>1. ASSUME NEW g \in DOMAIN map
            PROVE  /\ map2[g] \in Seq(Objects) /\ map2[g] # <<>> /\ IsInjective(map2[g])
                   /\ \A m \in 1..Len(map2[g]) : HashOf[key[map2[g][m]]] = g
        <4>1. CASE g = h
          BY <2>1, <2>2, <2>4, <2>5, <4>1
        <4>2. CASE g # h
          BY <2>2, <4>2 DEF WellFormed
        <4> QED
          BY <4>1, <4>2
      <3> QED
        BY <2>2, <2>3, <3>1 DEF WellFormed
    <2>7. StoredIn(map2) = StoredIn(map) \ {o}
      BY <1>1, <1>4, <2>1, <2>2 DEF StoredIn
    <2> QED
      BY <2>6, <2>7
  <1> QED
    BY <1>5, <1>6

-----------------------------------------------------------------------------
(* The inductive invariant.                                                *)

MapInv == WellFormed(cacheData, order, keyOf)

\* The calls between their miss and their addition compute what nobody else does.
PendingInv ==
    /\ pending \cap Stored = {}
    /\ \A o \in pending : \A p \in Stored \cup pending :
          p # o => <<keyOf[p], keyOf[o]>> \notin Equal

\* A running scan is at an object or at the end of the map, and has met just
\* the objects that are not behind its iterator.
ScanInv ==
    /\ scan = "running" =>
          /\ \/ mapIterator = End
             \/ \E i \in 1..Len(order) :
                   mapIterator = order[i] /\ listIndex < Len(cacheData[order[i]])
          /\ IsInjective(yielded)
          /\ ToSet(yielded) \cap Unseen = {}
          /\ ToSet(yielded) \cup Unseen = Stored
    /\ scan = "done" => IsInjective(yielded) /\ ToSet(yielded) = Stored

Inv == TypeOK /\ MapInv /\ PendingInv /\ ScanInv

\* The iterator is in the map, at its end or invalid, whichever it is.
LEMMA Iterators ==
    ASSUME MapInv
    PROVE  /\ End \notin DOMAIN cacheData /\ Dangling \notin DOMAIN cacheData
           /\ Stored = StoredIn(cacheData) /\ Stored \subseteq Objects
           /\ DOMAIN order = 1..Len(order)
           /\ \A i \in 1..Len(order) : order[i] \in DOMAIN cacheData
           /\ order = <<>> <=> DOMAIN cacheData = {}
           /\ order = <<>> => Stored = {}
           /\ Len(order) = Cardinality(DOMAIN cacheData)
  <1>1. Stored = StoredIn(cacheData)
    BY DEF Stored, StoredIn
  <1>2. StoredIn(cacheData) \subseteq Objects
    BY Places DEF MapInv
  <1>3. /\ DOMAIN cacheData \subseteq Hashes /\ order \in Seq(Hashes) /\ IsInjective(order)
        /\ ToSet(order) = DOMAIN cacheData
    BY DEF MapInv, WellFormed
  <1>4. DOMAIN order = 1..Len(order)
    BY <1>3, LenProperties
  <1>5. \A i \in 1..Len(order) : order[i] \in DOMAIN cacheData
    BY <1>3, <1>4 DEF ToSet
  <1>6. order = <<>> <=> DOMAIN cacheData = {}
    <2>1. order = <<>> => ToSet(order) = {}
      BY <1>4 DEF ToSet
    <2>2. order # <<>> => 1 \in 1..Len(order)
      <3>1. Len(order) \in Nat /\ (order # <<>> => Len(order) # 0)
        BY <1>3
      <3> QED
        BY <3>1
    <2> QED
      BY <1>3, <1>5, <2>1, <2>2
  <1>7. order = <<>> => Stored = {}
    BY <1>6 DEF Stored
  <1>8. Cardinality(ToSet(order)) = Len(order)
    BY <1>3, InjectiveLength
  <1> QED
    BY <1>1, <1>2, <1>3, <1>4, <1>5, <1>6, <1>7, <1>8, IteratorAssumption

\* What the type invariant says of the map follows from its form.
LEMMA MapTypes ==
    ASSUME NEW map, NEW ord, NEW key, WellFormed(map, ord, key)
    PROVE  /\ DOMAIN map \subseteq Hashes
           /\ \A h \in DOMAIN map : map[h] \in Seq(Objects) \ {<<>>}
           /\ ToSet(ord) = DOMAIN map /\ Len(ord) = Cardinality(DOMAIN map)
  <1>1. ord \in Seq(Hashes) /\ IsInjective(ord) /\ ToSet(ord) = DOMAIN map
    BY DEF WellFormed
  <1>2. Cardinality(ToSet(ord)) = Len(ord)
    BY <1>1, InjectiveLength
  <1> QED
    BY <1>1, <1>2 DEF WellFormed

\* What is unseen when a scan runs, and when none does.
LEMMA UnseenIs ==
    ASSUME MapInv
    PROVE  /\ scan # "running" \/ mapIterator = End => Unseen = {}
           /\ \A i \in 1..Len(order) : scan = "running" /\ mapIterator = order[i] =>
                 Unseen = UnseenFrom(cacheData, order, order[i], listIndex)
  <1>1. scan # "running" \/ mapIterator = End => Unseen = {}
    BY Iterators DEF Unseen
  <1>2. ASSUME NEW i \in 1..Len(order), scan = "running", mapIterator = order[i]
        PROVE  Unseen = UnseenFrom(cacheData, order, order[i], listIndex)
    <2>1. mapIterator \in DOMAIN cacheData
      BY <1>2, Iterators
    <2> QED
      BY <1>2, <2>1 DEF Unseen, UnseenFrom
  <1> QED
    BY <1>1, <1>2

\* The step of a running scan that is at an object: it meets an object it has not
\* met and goes on to the next one, or to the end when there is none.
LEMMA Meets ==
    ASSUME Inv, scan = "running", mapIterator # End, GetNextData
    PROVE  LET o == cacheData[mapIterator][listIndex + 1]
           IN  /\ o \in Unseen /\ o \in Objects
               /\ yielded' = Append(yielded, o) /\ scan' = "running"
               /\ UNCHANGED <<cacheData, order, keyOf, pending, found>>
               /\ Unseen' = Unseen \ {o}
               /\ listIndex' \in 0..MaxLength
               /\ \/ mapIterator' = End
                  \/ \E i \in 1..Len(order) :
                        mapIterator' = order[i] /\ listIndex' < Len(cacheData[order[i]])
  <1> DEFINE o == cacheData[mapIterator][listIndex + 1]
  <1>1. PICK i \in 1..Len(order) : mapIterator = order[i] /\ listIndex < Len(cacheData[order[i]])
    BY DEF Inv, ScanInv
  <1>2. listIndex \in Nat /\ WellFormed(cacheData, order, keyOf) /\ MapInv
    BY DEF Inv, MapInv, TypeOK
  <1>3. /\ yielded' = Append(yielded, o) /\ scan' = "running" /\ Advance
        /\ UNCHANGED <<cacheData, order, keyOf, pending, found>>
    BY DEF GetNextData, mapVars, clientVars
  <1>4. Unseen = UnseenFrom(cacheData, order, order[i], listIndex)
    BY <1>1, <1>2, UnseenIs
  <1>5. o = cacheData[order[i]][listIndex + 1]
    BY <1>1
  <1>6. \A j \in 1..Len(order) :
           /\ order[j] \in DOMAIN cacheData
           /\ cacheData[order[j]] \in Seq(Objects) /\ IsInjective(cacheData[order[j]])
           /\ Len(cacheData[order[j]]) \in Nat /\ Len(cacheData[order[j]]) # 0
           /\ Len(cacheData[order[j]]) <= MaxLength
    <2>1. ASSUME NEW j \in 1..Len(order)
          PROVE  /\ order[j] \in DOMAIN cacheData
                 /\ cacheData[order[j]] \in Seq(Objects) /\ IsInjective(cacheData[order[j]])
                 /\ cacheData[order[j]] # <<>>
      BY <1>2, Iterators DEF WellFormed
    <2>2. ASSUME NEW j \in 1..Len(order)
          PROVE  /\ Len(cacheData[order[j]]) \in Nat /\ Len(cacheData[order[j]]) # 0
                 /\ Len(cacheData[order[j]]) <= MaxLength
      BY <2>1, InjectiveLength, ObjectAssumption, LenProperties DEF MaxLength
    <2> QED
      BY <2>1, <2>2
  <1>7. MaxLength \in Nat
    BY ObjectAssumption, FS_CardinalityType DEF MaxLength
  <1>8. Len(order) \in Nat /\ i \in Nat
    BY <1>2, LenProperties DEF WellFormed
  <1> HIDE DEF o
  <1>9. StepEffect(cacheData, order, i, listIndex, o)
    BY <1>1, <1>2, <1>5, StepOfUnseen
  <1>10. o \in Objects
    BY <1>2, <1>9, Places DEF StepEffect
  <1>11. CASE listIndex + 1 < Len(cacheData[order[i]])
    <2>1. mapIterator' = order[i] /\ listIndex' = listIndex + 1
      BY <1>1, <1>2, <1>3, <1>6, <1>11 DEF Advance
    <2>2. Unseen' = UnseenFrom(cacheData, order, order[i], listIndex + 1)
      <3>1. /\ scan' = "running" /\ mapIterator' = order[i] /\ listIndex' = listIndex + 1
            /\ cacheData' = cacheData /\ order' = order /\ order[i] \in DOMAIN cacheData
        BY <1>3, <1>6, <2>1
      <3> QED
        BY <3>1 DEF Unseen, UnseenFrom, SelectInSeq
    <2>3. listIndex' \in 0..MaxLength
      BY <1>2, <1>6, <1>7, <1>11, <2>1
    <2> QED
      BY <1>3, <1>4, <1>9, <1>10, <1>11, <2>1, <2>2, <2>3 DEF o, StepEffect
  <1>12. CASE ~(listIndex + 1 < Len(cacheData[order[i]]))
    <2>1. mapIterator' = NextVector(order[i]) /\ listIndex' = 0
      BY <1>1, <1>2, <1>3, <1>6, <1>12 DEF Advance
    <2>2. listIndex + 1 >= Len(cacheData[order[i]]) /\ 0 \in 0..MaxLength
      BY <1>2, <1>6, <1>7, <1>12
    <2>3. NextVector(order[i]) = IF i = Len(order) THEN End ELSE order[i + 1]
      <3>1. order \in Seq(Hashes) /\ IsInjective(order)
        BY <1>2 DEF WellFormed
      <3>2. {j \in 1..Len(order) : order[j] = order[i]} = {i}
            /\ Min({j \in 1..Len(order) : order[j] = order[i]}) = i
        BY <3>1, FoundWhereItIs
      <3>3. SelectInSeq(order, LAMBDA g : g = order[i]) = i
        BY <3>2 DEF SelectInSeq
      <3> QED
        BY <3>3 DEF NextVector
    <2>4. CASE i = Len(order)
      <3>1. mapIterator' = End
        BY <2>1, <2>3, <2>4
      <3>2. Unseen' = {}
        BY <1>2, <1>3, <3>1, Iterators DEF Unseen
      <3> QED
        BY <1>3, <1>4, <1>9, <1>10, <2>1, <2>2, <2>4, <3>1, <3>2 DEF o, StepEffect
    <2>5. CASE i # Len(order)
      <3>1. mapIterator' = order[i + 1] /\ i + 1 \in 1..Len(order)
        BY <1>8, <2>1, <2>3, <2>5
      <3>2. Unseen' = UnseenFrom(cacheData, order, order[i + 1], 0)
        <4>1. /\ scan' = "running" /\ mapIterator' = order[i + 1] /\ listIndex' = 0
              /\ cacheData' = cacheData /\ order' = order /\ order[i + 1] \in DOMAIN cacheData
          BY <1>3, <1>6, <2>1, <3>1
        <4> QED
          BY <4>1 DEF Unseen, UnseenFrom, SelectInSeq
      <3>3. 0 < Len(cacheData[order[i + 1]])
        BY <1>6, <3>1
      <3> QED
        BY <1>3, <1>4, <1>9, <1>10, <2>1, <2>2, <2>5, <3>1, <3>2, <3>3 DEF o, StepEffect
    <2> QED
      BY <2>4, <2>5
  <1> QED
    BY <1>11, <1>12

LEMMA InitInv == Init => Inv
  <1> SUFFICES ASSUME Init
               PROVE  Inv
    OBVIOUS
  <1>1. DOMAIN cacheData = {} /\ order = <<>> /\ Len(order) = 0
    BY DEF Init
  <1>2. MapInv
    <2>1. order \in Seq(Hashes) /\ IsInjective(order) /\ ToSet(order) = {}
      BY <1>1 DEF IsInjective, ToSet
    <2> QED
      BY <1>1, <2>1 DEF MapInv, WellFormed
  <1>3. Stored = {}
    BY <1>1 DEF Stored
  <1>4. PendingInv /\ ScanInv
    BY DEF Init, PendingInv, ScanInv
  <1>5. TypeOK
    <2>1. (CHOOSE k \in Keys : TRUE) \in Keys
      BY ObjectAssumption
    <2>2. yielded \in Seq(Objects)
      BY DEF Init
    <2> QED
      BY <1>2, <2>1, <2>2, MapTypes DEF Init, TypeOK, MapInv
  <1> QED
    BY <1>2, <1>4, <1>5 DEF Inv

\* The inputs of an object may change as long as it is neither stored nor pending.
LEMMA GetCacheDataInv ==
    ASSUME Inv, NEW k \in Keys, GetCacheData(k)
    PROVE  Inv'
  <1>1. /\ scan' = "none" /\ yielded' = <<>>
        /\ UNCHANGED <<cacheData, order, mapIterator, listIndex>>
        /\ found' = Find(k) /\ MapInv /\ keyOf \in [Objects -> Keys]
    BY DEF GetCacheData, mapVars, iteratorVars, Inv, TypeOK
  <1>2. Stored \subseteq Objects /\ Stored = StoredIn(cacheData) /\ Stored' = Stored
    BY <1>1, Iterators DEF Stored
  <1>3. CASE found' # NoObject /\ UNCHANGED clientVars
    <2>1. MapInv' /\ PendingInv' /\ ScanInv'
      BY <1>1, <1>2, <1>3 DEF MapInv, Inv, PendingInv, ScanInv, clientVars
    <2>2. found' \in Objects
      BY <1>1, <1>2, <1>3, FindAnswers DEF MapInv
    <2>3. yielded' \in Seq(Objects)
      BY <1>1
    <2> QED
      BY <1>1, <1>3, <2>1, <2>2, <2>3 DEF Inv, TypeOK, clientVars
  <1>4. CASE /\ found' = NoObject
             /\ \E o \in Objects \ (Stored \cup pending) :
                   pending' = pending \cup {o} /\ keyOf' = [keyOf EXCEPT ![o] = k]
    <2>1. PICK o \in Objects \ (Stored \cup pending) :
             pending' = pending \cup {o} /\ keyOf' = [keyOf EXCEPT ![o] = k]
      BY <1>4
    <2>2. keyOf' \in [Objects -> Keys] /\ keyOf'[o] = k
          /\ \A p \in Objects : p # o => keyOf'[p] = keyOf[p]
      BY <1>1, <2>1
    <2>3. \A h \in DOMAIN cacheData : \A n \in 1..Len(cacheData[h]) :
             keyOf'[cacheData[h][n]] = keyOf[cacheData[h][n]]
      BY <1>1, <1>2, <2>1, <2>2, Places DEF MapInv
    <2>4. MapInv'
      BY <1>1, <2>3 DEF MapInv, WellFormed
    <2>5. \A p \in Stored : <<keyOf[p], k>> \notin Equal
      <3>1. \A p \in Stored : keyOf[p] \in Keys
        BY <1>1, <1>2
      <3>2. \A p \in Stored : keyOf[p] \in Keys => <<keyOf[p], k>> \notin Equal
        BY <1>1, <1>4, FindAnswers DEF MapInv
      <3> QED
        BY <3>1, <3>2
    <2>6. PendingInv'
      <3>0. pending \subseteq Objects /\ PendingInv
        BY DEF Inv, TypeOK
      <3>1. pending' \cap Stored' = {}
        BY <1>2, <2>1, <3>0 DEF PendingInv
      <3>2. ASSUME NEW a \in pending', NEW b \in Stored' \cup pending', b # a
            PROVE  <<keyOf'[b], keyOf'[a]>> \notin Equal
        <4>1. a \in Objects /\ b \in Objects
          BY <1>2, <2>1, <3>0
        <4>2. CASE a # o /\ b # o
          BY <1>2, <2>1, <2>2, <3>0, <3>2, <4>1, <4>2 DEF PendingInv
        <4>3. CASE a = o
          <5>1. b \in Stored \/ b \in pending
            BY <1>2, <2>1, <3>2, <4>3
          <5>2. keyOf'[b] = keyOf[b] /\ keyOf'[a] = k
            BY <2>2, <3>2, <4>1, <4>3
          <5> QED
            BY <2>5, <5>1, <5>2 DEF GetCacheData
        <4>4. CASE b = o
          <5>1. a \in pending
            BY <2>1, <3>2, <4>4
          <5>2. keyOf'[b] = k /\ keyOf'[a] = keyOf[a]
            BY <2>2, <3>2, <4>1, <4>4
          <5> QED
            BY <5>1, <5>2 DEF GetCacheData
        <4> QED
          BY <4>2, <4>3, <4>4
      <3> QED
        BY <3>1, <3>2 DEF PendingInv
    <2>7. ScanInv'
      BY <1>1 DEF ScanInv
    <2>8. yielded' \in Seq(Objects)
      BY <1>1
    <2> QED
      BY <1>1, <1>4, <2>1, <2>2, <2>4, <2>6, <2>7, <2>8 DEF Inv, TypeOK
  <1> QED
    BY <1>3, <1>4 DEF GetCacheData

\* What an addition does to the map.
LEMMA AddEffect ==
    ASSUME Inv, NEW o \in Objects, AddCacheData(o)
    PROVE  MapInv' /\ Stored' = Stored \cup {o} /\ o \notin Stored
  <1>1. o \notin Stored /\ Stored = StoredIn(cacheData) /\ Stored' = StoredIn(cacheData')
    BY DEF AddCacheData, Inv, PendingInv, Stored, StoredIn
  <1>2. WellFormed(cacheData, order, keyOf) /\ keyOf[o] \in Keys /\ keyOf' = keyOf
    BY DEF Inv, MapInv, TypeOK, AddCacheData
  <1>3. cacheData' = MapWith(cacheData, HashOf[keyOf[o]], o)
    BY DEF AddCacheData, Put, MapWith
  <1>4. \/ HashOf[keyOf[o]] \in DOMAIN cacheData /\ order' = order
        \/ HashOf[keyOf[o]] \notin DOMAIN cacheData /\ order' \in SetToSeqs(DOMAIN cacheData')
    BY DEF AddCacheData
  <1>5. WellFormed(cacheData', order', keyOf) /\ StoredIn(cacheData') = StoredIn(cacheData) \cup {o}
    BY <1>1, <1>2, <1>3, <1>4, PutKeepsForm
  <1> QED
    BY <1>1, <1>2, <1>5 DEF MapInv

LEMMA AddCacheDataInv ==
    ASSUME Inv, NEW o \in Objects, AddCacheData(o)
    PROVE  Inv'
  <1>1. MapInv' /\ Stored' = Stored \cup {o} /\ o \notin Stored
    BY AddEffect
  <1>2. /\ pending' = pending \ {o} /\ o \in pending /\ keyOf' = keyOf /\ found' = found
        /\ scan' = "none" /\ yielded' = <<>> /\ listIndex' = listIndex
        /\ mapIterator' \in {mapIterator, Dangling}
    BY DEF AddCacheData
  <1>3. PendingInv'
    BY <1>1, <1>2 DEF Inv, PendingInv
  <1>4. ScanInv'
    BY <1>2 DEF ScanInv
  <1>5. yielded' \in Seq(Objects)
    BY <1>2
  <1> QED
    BY <1>1, <1>2, <1>3, <1>4, <1>5, MapTypes DEF Inv, TypeOK, MapInv

LEMMA DiscardInv ==
    ASSUME Inv, NEW o \in Objects, Discard(o)
    PROVE  Inv'
  <1>1. /\ pending' = pending \ {o} /\ keyOf' = keyOf /\ found' = found
        /\ scan' = scan /\ scan # "running" /\ yielded' = yielded
        /\ UNCHANGED <<cacheData, order, listIndex, mapIterator>>
    BY DEF Discard, mapVars, iteratorVars
  <1>2. MapInv'
    BY <1>1 DEF Inv, MapInv
  <1>3. Stored' = Stored
    BY <1>1 DEF Stored
  <1>4. PendingInv' /\ ScanInv'
    BY <1>1, <1>3 DEF Inv, PendingInv, ScanInv
  <1> QED
    BY <1>1, <1>2, <1>4 DEF Inv, TypeOK

LEMMA ResetInv ==
    ASSUME Inv, ResetDataIterator
    PROVE  Inv' /\ Unseen' = Stored
  <1>1. /\ scan' = "running" /\ yielded' = <<>> /\ listIndex' = 0
        /\ mapIterator' = IF order = <<>> THEN End ELSE Head(order)
        /\ UNCHANGED <<cacheData, order, keyOf, pending, found>>
    BY DEF ResetDataIterator, mapVars, clientVars
  <1>2. MapInv /\ MapInv' /\ Stored' = Stored
    BY <1>1 DEF Inv, MapInv, Stored
  <1>3. PendingInv'
    BY <1>1, <1>2 DEF Inv, PendingInv
  <1>4. IsInjective(yielded') /\ ToSet(yielded') = {} /\ yielded' \in Seq(Objects)
    BY <1>1 DEF IsInjective, ToSet
  <1>5. /\ Unseen' = Stored
        /\ \/ mapIterator' = End
           \/ \E i \in 1..Len(order) :
                 mapIterator' = order[i] /\ listIndex' < Len(cacheData[order[i]])
        /\ mapIterator' \in Hashes \cup {End}
    <2>1. CASE order = <<>>
      <3>1. mapIterator' = End /\ cacheData' = cacheData
        BY <1>1, <2>1
      <3>2. End \notin DOMAIN cacheData /\ Stored = {}
        BY <1>2, <2>1, Iterators
      <3> QED
        BY <3>1, <3>2 DEF Unseen
    <2>2. CASE order # <<>>
      <3>1. order \in Seq(Hashes) /\ DOMAIN cacheData \subseteq Hashes
        BY <1>2 DEF MapInv, WellFormed
      <3>2. 1 \in 1..Len(order) /\ Head(order) = order[1]
        <4>1. Len(order) \in Nat /\ Len(order) # 0
          BY <2>2, <3>1
        <4> QED
          BY <2>2, <3>1, <4>1
      <3>3. order[1] \in DOMAIN cacheData /\ Stored = StoredIn(cacheData)
        BY <1>2, <3>2, Iterators
      <3>4. mapIterator' = order[1]
        BY <1>1, <2>2, <3>2
      <3>5. 0 < Len(cacheData[order[1]])
        <4>1. cacheData[order[1]] \in Seq(Objects) /\ cacheData[order[1]] # <<>>
          BY <1>2, <3>3 DEF MapInv, WellFormed
        <4> QED
          BY <4>1
      <3>6. Unseen' = UnseenFrom(cacheData, order, order[1], 0)
        <4>1. /\ scan' = "running" /\ mapIterator' = order[1] /\ listIndex' = 0
              /\ cacheData' = cacheData /\ order' = order /\ order[1] \in DOMAIN cacheData
          BY <1>1, <3>3, <3>4
        <4> QED
          BY <4>1 DEF Unseen, UnseenFrom, SelectInSeq
      <3>7. Unseen' = Stored
        BY <1>2, <3>2, <3>3, <3>6, AllUnseen DEF MapInv
      <3> QED
        BY <1>1, <3>1, <3>2, <3>3, <3>4, <3>5, <3>7
    <2> QED
      BY <2>1, <2>2
  <1>6. ScanInv'
    BY <1>1, <1>2, <1>4, <1>5 DEF ScanInv
  <1>7. 0 \in 0..MaxLength
    BY ObjectAssumption, FS_CardinalityType DEF MaxLength
  <1>8. TypeOK'
    BY <1>1, <1>4, <1>5, <1>7 DEF Inv, TypeOK, MaxLength
  <1> QED
    BY <1>2, <1>3, <1>5, <1>6, <1>8 DEF Inv

LEMMA GetNextDataInv ==
    ASSUME Inv, GetNextData
    PROVE  Inv'
  <1>0. scan = "running"
    BY DEF GetNextData
  <1>1. CASE mapIterator = End
    <2>1. /\ scan' = "done" /\ yielded' = yielded
          /\ UNCHANGED <<cacheData, order, keyOf, pending, found, mapIterator, listIndex>>
      BY <1>1 DEF GetNextData, mapVars, clientVars, iteratorVars
    <2>2. Unseen = {} /\ Stored' = Stored
      BY <1>1, <2>1, UnseenIs DEF Inv, Stored
    <2>3. MapInv' /\ PendingInv'
      BY <2>1, <2>2 DEF Inv, MapInv, PendingInv
    <2>4. ScanInv'
      BY <1>0, <2>1, <2>2 DEF Inv, ScanInv
    <2> QED
      BY <2>1, <2>3, <2>4 DEF Inv, TypeOK
  <1>2. CASE mapIterator # End
    <2> DEFINE o == cacheData[mapIterator][listIndex + 1]
    <2>1. /\ o \in Unseen /\ o \in Objects
          /\ yielded' = Append(yielded, o) /\ scan' = "running"
          /\ UNCHANGED <<cacheData, order, keyOf, pending, found>>
          /\ Unseen' = Unseen \ {o}
          /\ listIndex' \in 0..MaxLength
          /\ \/ mapIterator' = End
             \/ \E i \in 1..Len(order) :
                   mapIterator' = order[i] /\ listIndex' < Len(cacheData[order[i]])
      BY <1>0, <1>2, Meets
    <2> HIDE DEF o
    <2>2. MapInv' /\ Stored' = Stored
      BY <2>1 DEF Inv, MapInv, Stored
    <2>3. PendingInv'
      BY <2>1, <2>2 DEF Inv, PendingInv
    <2>4. /\ IsInjective(yielded) /\ ToSet(yielded) \cap Unseen = {}
          /\ ToSet(yielded) \cup Unseen = Stored /\ yielded \in Seq(Objects)
      BY <1>0 DEF Inv, ScanInv, TypeOK
    <2>5. /\ yielded' \in Seq(Objects) /\ IsInjective(yielded')
          /\ ToSet(yielded') = ToSet(yielded) \cup {o}
      <3>1. o \notin ToSet(yielded)
        BY <2>1, <2>4
      <3> QED
        BY <2>1, <2>4, <3>1, AppendNew
    <2>6. ScanInv'
      BY <2>1, <2>2, <2>4, <2>5 DEF ScanInv
    <2>7. mapIterator' \in Hashes \cup {End}
      BY <2>1, Iterators DEF Inv, MapInv, WellFormed
    <2> QED
      BY <2>1, <2>2, <2>3, <2>5, <2>6, <2>7 DEF Inv, TypeOK, MaxLength
  <1> QED
    BY <1>1, <1>2

\* What a removal does to the map.
LEMMA RemoveEffect ==
    ASSUME Inv, NEW o \in Objects, RemoveData(o)
    PROVE  MapInv' /\ Stored' = Stored \ {o} /\ o \in Stored
  <1> DEFINE h == HashOf[keyOf[o]]
  <1>1. o \in Stored /\ Stored = StoredIn(cacheData) /\ Stored' = StoredIn(cacheData')
    BY DEF RemoveData, Inv, ScanInv, Stored, StoredIn
  <1>2. WellFormed(cacheData, order, keyOf) /\ keyOf' = keyOf
    BY DEF Inv, MapInv, RemoveData, clientVars
  <1>3. cacheData' = MapWithout(cacheData, h, o)
    BY DEF RemoveData, Without, MapWithout
  <1>4. order' = IF h \in DOMAIN cacheData' THEN order ELSE RemoveFirst(order, h)
    BY DEF RemoveData
  <1>5. WellFormed(cacheData', order', keyOf) /\ StoredIn(cacheData') = StoredIn(cacheData) \ {o}
    BY <1>1, <1>2, <1>3, <1>4, RemovalKeepsForm
  <1> QED
    BY <1>1, <1>2, <1>5 DEF MapInv

LEMMA RemoveDataInv ==
    ASSUME Inv, NEW o \in Objects, RemoveData(o)
    PROVE  Inv'
  <1>1. MapInv' /\ Stored' = Stored \ {o} /\ o \in Stored
    BY RemoveEffect
  <1>2. /\ UNCHANGED <<listIndex, keyOf, pending, found>>
        /\ scan' = "none" /\ yielded' = <<>>
        /\ mapIterator' \in {mapIterator, Dangling}
    BY DEF RemoveData, clientVars
  <1>3. PendingInv'
    BY <1>1, <1>2 DEF Inv, PendingInv
  <1>4. ScanInv'
    BY <1>2 DEF ScanInv
  <1>5. yielded' \in Seq(Objects)
    BY <1>2
  <1> QED
    BY <1>1, <1>2, <1>3, <1>4, <1>5, MapTypes DEF Inv, TypeOK, MapInv

LEMMA DestroyInv ==
    ASSUME Inv, Destroy
    PROVE  Inv' /\ Stored' = {}
  <1>1. /\ cacheData' = <<>> /\ order' = <<>> /\ mapIterator' = Dangling
        /\ found' = NoObject /\ scan' = "none" /\ yielded' = <<>>
        /\ UNCHANGED <<listIndex, keyOf, pending>> /\ pending = {}
    BY DEF Destroy, clientVars
  <1>2. DOMAIN cacheData' = {} /\ order' \in Seq(Hashes) /\ yielded' \in Seq(Objects)
    BY <1>1
  <1>3. IsInjective(order') /\ ToSet(order') = {}
    BY <1>1 DEF IsInjective, ToSet
  <1>4. MapInv' /\ Stored' = {}
    BY <1>2, <1>3 DEF MapInv, WellFormed, Stored
  <1>5. PendingInv' /\ ScanInv'
    BY <1>1 DEF PendingInv, ScanInv
  <1> QED
    BY <1>1, <1>2, <1>4, <1>5, MapTypes DEF Inv, TypeOK, MapInv

LEMMA StepInv == Inv /\ [Next]_vars => Inv'
  <1> SUFFICES ASSUME Inv, [Next]_vars
               PROVE  Inv'
    OBVIOUS
  <1>1. ASSUME NEW k \in Keys, GetCacheData(k)
        PROVE  Inv'
    BY <1>1, GetCacheDataInv
  <1>2. ASSUME NEW o \in Objects, AddCacheData(o)
        PROVE  Inv'
    BY <1>2, AddCacheDataInv
  <1>3. ASSUME NEW o \in Objects, Discard(o)
        PROVE  Inv'
    BY <1>3, DiscardInv
  <1>4. ASSUME NEW o \in Objects, RemoveData(o)
        PROVE  Inv'
    BY <1>4, RemoveDataInv
  <1>5. CASE ResetDataIterator
    BY <1>5, ResetInv
  <1>6. CASE GetNextData
    BY <1>6, GetNextDataInv
  <1>7. CASE Destroy
    BY <1>7, DestroyInv
  <1>8. CASE UNCHANGED vars
    <2>1. /\ UNCHANGED <<cacheData, order, mapIterator, listIndex>>
          /\ UNCHANGED <<keyOf, pending, found, scan, yielded>>
      BY <1>8 DEF vars, mapVars, iteratorVars, clientVars
    <2>2. Stored' = Stored /\ MapInv' /\ TypeOK'
      BY <2>1 DEF Stored, Inv, MapInv, TypeOK
    <2>3. Unseen' = Unseen
      BY <2>1 DEF Unseen, SelectInSeq
    <2>4. PendingInv' /\ ScanInv'
      BY <2>1, <2>2, <2>3 DEF Inv, PendingInv, ScanInv
    <2> QED
      BY <2>2, <2>4 DEF Inv
  <1> QED
    BY <1>1, <1>2, <1>3, <1>4, <1>5, <1>6, <1>7, <1>8 DEF Next

\* The invariant that all theorems below rest on: vectors under their hashes and without
\* repetitions, and what a running scan has met, is at, and still has to meet.
THEOREM Invariant == Spec => []Inv
  BY InitInv, StepInv, PTL DEF Spec

\* The map, its iterator and what the scans have met keep their types and their
\* form: no vector is ever empty, and the order enumerates the map.
THEOREM TypeCorrect == Spec => []TypeOK
  <1>1. Inv => TypeOK
    BY DEF Inv
  <1> QED
    BY <1>1, Invariant, PTL

\* getNextData never reads past the end of the map or of a vector: at every step of a scan,
\* whatever was added, discarded and removed before it began, cacheData[mapIterator] and the
\* object at listIndex exist when it takes them.  Nothing is added or removed while a scan
\* runs: the manager scans under its mutex.
THEOREM IteratorsStayValid == Spec => []IteratorValid
  <1>1. Inv => IteratorValid
    <2> SUFFICES ASSUME Inv, scan = "running", mapIterator # End
                 PROVE  mapIterator \in DOMAIN cacheData /\ listIndex < Len(cacheData[mapIterator])
      BY DEF IteratorValid
    <2>1. PICK i \in 1..Len(order) :
             mapIterator = order[i] /\ listIndex < Len(cacheData[order[i]])
      BY DEF Inv, ScanInv
    <2> QED
      BY <2>1, Iterators DEF Inv
  <1> QED
    BY <1>1, Invariant, PTL

\* A loop over getNextData until it answers null meets every stored object, and
\* none of them twice, whatever was added and removed before it.
THEOREM ScansAreComplete == Spec => []ScanComplete
  <1>1. Inv => ScanComplete
    <2> SUFFICES ASSUME Inv, scan = "done"
                 PROVE  ToSet(yielded) = Stored /\ Len(yielded) = Cardinality(Stored)
      BY DEF ScanComplete
    <2>1. ToSet(yielded) = Stored /\ IsInjective(yielded) /\ yielded \in Seq(Objects)
      BY DEF Inv, ScanInv, TypeOK
    <2>2. Cardinality(ToSet(yielded)) = Len(yielded)
      BY <2>1, InjectiveLength
    <2> QED
      BY <2>1, <2>2
  <1> QED
    BY <1>1, Invariant, PTL

-----------------------------------------------------------------------------
(* The refinement.                                                         *)

\* The members of the set are the stored objects, and those that match inputs
\* are the ones whose inputs are equal to them.
LEMMA SetOf ==
    /\ Set!Members = Stored
    /\ \A k : Set!Matching(k) = {o \in Stored : <<keyOf[o], k>> \in Equal}
  <1> DEFINE C == {<<o, keyOf[o]>> : o \in Stored}
  <1>0. /\ \A c \in C : c[1] \in Stored /\ c[2] = keyOf[c[1]]
        /\ \A o \in Stored : \E c \in C : c[1] = o /\ c[2] = keyOf[o]
    <2>1. ASSUME NEW c \in C
          PROVE  c[1] \in Stored /\ c[2] = keyOf[c[1]]
      OBVIOUS
    <2>2. ASSUME NEW o \in Stored
          PROVE  \E c \in C : c[1] = o /\ c[2] = keyOf[o]
      <3>1. <<o, keyOf[o]>> \in C /\ <<o, keyOf[o]>>[1] = o /\ <<o, keyOf[o]>>[2] = keyOf[o]
        OBVIOUS
      <3> QED
        BY <3>1
    <2> QED
      BY <2>1, <2>2
  <1>1. Set!Members = Stored
    <2>1. Set!Members = {c[1] : c \in C}
      BY DEF Set!Members
    <2> HIDE DEF C
    <2> QED
      BY <1>0, <2>1
  <1>2. ASSUME NEW k
        PROVE  Set!Matching(k) = {o \in Stored : <<keyOf[o], k>> \in Equal}
    <2>1. Set!Matching(k) = {c[1] : c \in {d \in C : <<d[2], k>> \in Equal}}
      BY DEF Set!Matching
    <2> HIDE DEF C
    <2> QED
      BY <1>0, <2>1
  <1> QED
    BY <1>1, <1>2

LEMMA InitRefines == Init => Set!Init
  <1> SUFFICES ASSUME Init
               PROVE  Set!Init
    OBVIOUS
  <1>1. Stored = {}
    BY DEF Init, Stored
  <1>2. Unseen = {}
    BY DEF Init, Unseen
  <1> QED
    BY <1>1, <1>2 DEF Init, Set!Init

\* No scan runs, before or after the step.
LEMMA NoScan ==
    ASSUME Inv, Inv', scan # "running", scan' # "running"
    PROVE  Unseen = {} /\ Unseen' = {}
  BY DEF Unseen

\* getCacheData is a lookup.
LEMMA GetCacheDataRefines ==
    ASSUME Inv, Inv', NEW k \in Keys, GetCacheData(k)
    PROVE  Set!Lookup(k)
  <1>1. /\ scan # "running" /\ scan' = "none" /\ found' = Find(k)
        /\ cacheData' = cacheData
    BY DEF GetCacheData, mapVars
  <1>2. Unseen = {} /\ Unseen' = {}
    BY <1>1, NoScan
  <1>3. Stored' = Stored /\ Stored \subseteq Objects
    BY <1>1, Iterators DEF Stored, Inv
  <1>4. \A o \in Stored : keyOf'[o] = keyOf[o]
    BY <1>3 DEF GetCacheData, clientVars, Inv, TypeOK
  <1>5. {<<o, keyOf[o]>> : o \in Stored}' = {<<o, keyOf[o]>> : o \in Stored}
    BY <1>3, <1>4
  <1>6. found' \in (IF Set!Matching(k) = {} THEN {NoObject} ELSE Set!Matching(k))
    <2>1. \A o \in Stored : keyOf[o] \in Keys
      BY <1>3 DEF Inv, TypeOK
    <2> QED
      BY <1>1, <2>1, FindAnswers, SetOf DEF Inv, MapInv
  <1> QED
    BY <1>1, <1>2, <1>5, <1>6 DEF Set!Lookup

\* addCacheData adds an object whose inputs nothing in the set is equal to.
LEMMA AddCacheDataRefines ==
    ASSUME Inv, Inv', NEW o \in Objects, AddCacheData(o)
    PROVE  \E k \in Keys : Set!Add(o, k)
  <1>0. PICK k \in Keys : k = keyOf[o]
    BY DEF Inv, TypeOK
  <1>1. /\ scan # "running" /\ scan' = "none" /\ found' = found /\ keyOf' = keyOf /\ o \in pending
    BY DEF AddCacheData
  <1>2. Unseen = {} /\ Unseen' = {}
    BY <1>1, NoScan
  <1>3. Stored' = Stored \cup {o} /\ o \notin Stored
    BY AddEffect
  <1>4. {<<p, keyOf[p]>> : p \in Stored}' = {<<p, keyOf[p]>> : p \in Stored} \cup {<<o, k>>}
    BY <1>0, <1>1, <1>3
  <1>5. Set!Matching(k) = {} /\ o \notin Set!Members
    <2>1. \A p \in Stored : <<keyOf[p], k>> \notin Equal
      BY <1>0, <1>1, <1>3 DEF Inv, PendingInv
    <2> QED
      BY <1>3, <2>1, SetOf
  <1>6. Set!Add(o, k)
    BY <1>1, <1>2, <1>4, <1>5 DEF Set!Add
  <1> QED
    BY <1>6

\* removeData takes the object out of the set.
LEMMA RemoveDataRefines ==
    ASSUME Inv, Inv', NEW o \in Objects, RemoveData(o)
    PROVE  Set!Remove(o)
  <1>1. /\ scan # "running" /\ scan' = "none" /\ found' = found /\ keyOf' = keyOf
    BY DEF RemoveData, clientVars
  <1>2. Unseen = {} /\ Unseen' = {}
    BY <1>1, NoScan
  <1>3. Stored' = Stored \ {o} /\ o \in Stored
    BY RemoveEffect
  <1>4. {<<p, keyOf[p]>> : p \in Stored}' = {c \in {<<p, keyOf[p]>> : p \in Stored} : c[1] # o}
    BY <1>1, <1>3
  <1>5. o \in Set!Members
    BY <1>3, SetOf
  <1> QED
    BY <1>1, <1>2, <1>4, <1>5 DEF Set!Remove

\* resetDataIterator begins a scan of all objects.
LEMMA ResetRefines ==
    ASSUME Inv, ResetDataIterator
    PROVE  Set!BeginScan
  <1>1. /\ scan # "running" /\ scan' = "running"
        /\ UNCHANGED <<cacheData, keyOf, found>>
    BY DEF ResetDataIterator, mapVars, clientVars
  <1>2. Unseen' = Stored /\ Stored' = Stored
    BY <1>1, ResetInv DEF Stored
  <1>3. {<<p, keyOf[p]>> : p \in Stored}' = {<<p, keyOf[p]>> : p \in Stored}
    BY <1>1, <1>2
  <1> QED
    BY <1>1, <1>2, <1>3, SetOf DEF Set!BeginScan

\* getNextData meets an object not met before, or ends the scan with none left.
LEMMA GetNextDataRefines ==
    ASSUME Inv, Inv', GetNextData
    PROVE  Set!EndScan \/ \E o \in Objects : Set!Meet(o)
  <1>0. /\ scan = "running" /\ UNCHANGED <<cacheData, keyOf, found>>
    BY DEF GetNextData, mapVars, clientVars
  <1>1. {<<p, keyOf[p]>> : p \in Stored}' = {<<p, keyOf[p]>> : p \in Stored}
    BY <1>0 DEF Stored
  <1>2. CASE mapIterator = End
    <2>1. scan' = "done"
      BY <1>2 DEF GetNextData
    <2>2. Unseen = {} /\ Unseen' = {}
      BY <1>2, <2>1, UnseenIs DEF Inv, Unseen
    <2> QED
      BY <1>0, <1>1, <2>1, <2>2 DEF Set!EndScan
  <1>3. CASE mapIterator # End
    <2>1. LET o == cacheData[mapIterator][listIndex + 1]
          IN  o \in Unseen /\ o \in Objects /\ scan' = "running" /\ Unseen' = Unseen \ {o}
      BY <1>0, <1>3, Meets
    <2> QED
      BY <1>0, <1>1, <2>1 DEF Set!Meet
  <1> QED
    BY <1>2, <1>3

\* The destructor of the manager leaves the empty set.
LEMMA DestroyRefines ==
    ASSUME Inv, Inv', Destroy
    PROVE  Set!Clear
  <1>1. /\ scan # "running" /\ scan' = "none" /\ found' = NoObject
    BY DEF Destroy
  <1>2. Unseen = {} /\ Unseen' = {}
    BY <1>1, NoScan
  <1>3. Stored' = {}
    BY DestroyInv
  <1> QED
    BY <1>1, <1>2, <1>3 DEF Set!Clear

LEMMA StepRefines == Inv /\ Inv' /\ [Next]_vars => [Set!Next]_(Set!vars)
  <1> SUFFICES ASSUME Inv, Inv', [Next]_vars
               PROVE  [Set!Next]_(Set!vars)
    OBVIOUS
  <1>1. ASSUME NEW k \in Keys, GetCacheData(k)
        PROVE  [Set!Next]_(Set!vars)
    BY <1>1, GetCacheDataRefines DEF Set!Next
  <1>2. ASSUME NEW o \in Objects, AddCacheData(o)
        PROVE  [Set!Next]_(Set!vars)
    BY <1>2, AddCacheDataRefines DEF Set!Next
  <1>3. ASSUME NEW o \in Objects, Discard(o)
        PROVE  [Set!Next]_(Set!vars)
    <2>1. /\ scan # "running" /\ UNCHANGED <<cacheData, keyOf, found, scan>>
      BY <1>3 DEF Discard, mapVars
    <2>2. Unseen = {} /\ Unseen' = {}
      BY <2>1, NoScan
    <2>3. {<<p, keyOf[p]>> : p \in Stored}' = {<<p, keyOf[p]>> : p \in Stored}
      BY <2>1 DEF Stored
    <2> QED
      BY <2>1, <2>2, <2>3 DEF Set!vars
  <1>4. ASSUME NEW o \in Objects, RemoveData(o)
        PROVE  [Set!Next]_(Set!vars)
    BY <1>4, RemoveDataRefines DEF Set!Next
  <1>5. CASE ResetDataIterator
    BY <1>5, ResetRefines DEF Set!Next
  <1>6. CASE GetNextData
    BY <1>6, GetNextDataRefines DEF Set!Next
  <1>7. CASE Destroy
    BY <1>7, DestroyRefines DEF Set!Next
  <1>8. CASE UNCHANGED vars
    <2>1. UNCHANGED <<cacheData, order, mapIterator, listIndex, keyOf, found, scan>>
      BY <1>8 DEF vars, mapVars, iteratorVars, clientVars
    <2>2. Unseen' = Unseen
      BY <2>1 DEF Unseen, SelectInSeq
    <2>3. {<<p, keyOf[p]>> : p \in Stored}' = {<<p, keyOf[p]>> : p \in Stored}
      BY <2>1 DEF Stored
    <2> QED
      BY <2>1, <2>2, <2>3 DEF Set!vars
  <1> QED
    BY <1>1, <1>2, <1>3, <1>4, <1>5, <1>6, <1>7, <1>8 DEF Next

\* To its clients the hash map of vectors with the iterator it keeps is a set of
\* objects: a lookup finds an object with equal inputs whenever there is one,
\* nothing is added twice, and a scan meets every object of the set once.
THEOREM ObjectSetImplemented == Spec => ImplementsObjectSet
  BY Invariant, InitRefines, StepRefines, PTL DEF Spec, ImplementsObjectSet, Set!Spec

=============================================================================
