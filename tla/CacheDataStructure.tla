------------------------- MODULE CacheDataStructure -------------------------
(***************************************************************************)
(* The data structure of one cached function: a hash map of vectors of     *)
(* CacheData objects, with a map iterator and a list index that the        *)
(* manager's scans leave behind in it.                                     *)
(*                                                                         *)
(* The clients are the function's calls, which look up, and add what they  *)
(* have missed, and the manager, which scans all objects and then may      *)
(* remove one of them or destroy the structure.  All of them work under    *)
(* the manager's mutex (CachedFunctionManager), so operations do not       *)
(* overlap; but between the miss of a call and its addition any number of  *)
(* nested calls may use the structure.                                     *)
(***************************************************************************)
EXTENDS Integers, FiniteSets, SequencesExt

CONSTANTS
    Objects,     \* addresses of CacheData objects
    Keys,        \* the input parameters of a call
    HashOf,      \* what calculateHash answers for them
    Equal,       \* <<k, l>>: data->equals holds for stored inputs k and given l
    NoObject,    \* the null pointer
    End,         \* cacheData.end()
    Dangling     \* an iterator that has been invalidated

Hashes == {HashOf[k] : k \in Keys}

\* Inputs that the user's functions call equal have the same hash.
ASSUME EqualAssumption ==
    /\ \A k \in Keys : <<k, k>> \in Equal
    /\ \A e \in Equal : HashOf[e[1]] = HashOf[e[2]]

ASSUME ObjectAssumption == IsFiniteSet(Objects) /\ NoObject \notin Objects /\ Keys # {}

ASSUME IteratorAssumption == End \notin Hashes /\ Dangling \notin Hashes /\ End # Dangling

VARIABLES
    cacheData,    \* the hash map, from the hashes in it to vectors
    order,        \* those hashes, in the order in which the map iterates
    mapIterator,
    listIndex,
    keyOf,        \* the inputs of each object
    pending,      \* the objects of calls between their miss and their addition
    found,        \* the answer of the last getCacheData
    scan,         \* a scan is "none", "running" or "done"
    yielded       \* the objects it has met so far

mapVars == <<cacheData, order>>
iteratorVars == <<mapIterator, listIndex>>
clientVars == <<keyOf, pending>>
vars == <<mapVars, iteratorVars, clientVars, found, scan, yielded>>

MaxLength == Cardinality(Objects)

Init ==
    /\ cacheData = <<>>
    /\ order = <<>>
    /\ mapIterator = Dangling
    /\ listIndex \in 0..MaxLength
    /\ keyOf = [o \in Objects |-> CHOOSE k \in Keys : TRUE]
    /\ pending = {}
    /\ found = NoObject
    /\ scan = "none"
    /\ yielded = <<>>

Stored == UNION {ToSet(cacheData[h]) : h \in DOMAIN cacheData}

-----------------------------------------------------------------------------
(* The map, its vectors and its iterators.                                 *)

\* The first object of a vector with equal inputs.
FindIn(list, k) ==
    LET i == SelectInSeq(list, LAMBDA o : <<keyOf[o], k>> \in Equal)
    IN  IF i = 0 THEN NoObject ELSE list[i]

Find(k) ==
    IF HashOf[k] \in DOMAIN cacheData THEN FindIn(cacheData[HashOf[k]], k) ELSE NoObject

WithoutKeepingEmpty(h, o) == [cacheData EXCEPT ![h] = RemoveFirst(@, o)]
\* The map once o has left the vector of h, which goes with its last object.
Without(h, o) ==
    IF cacheData[h] = <<o>> THEN Restrict(cacheData, DOMAIN cacheData \ {h})
                            ELSE [cacheData EXCEPT ![h] = RemoveFirst(@, o)]

\* Where the map iterator and the list index go after an object was met: to the
\* next object of the vector, or else to the first one of the next vector.
NextVector(h) ==
    LET i == SelectInSeq(order, LAMBDA g : g = h)
    IN  IF i = Len(order) THEN End ELSE order[i + 1]

AdvancePastEnd ==
    IF listIndex + 1 > Len(cacheData[mapIterator])
    THEN mapIterator' = NextVector(mapIterator) /\ listIndex' = 0
    ELSE mapIterator' = mapIterator /\ listIndex' = listIndex + 1
AdvanceVectorOnly == mapIterator' = NextVector(mapIterator) /\ listIndex' = 0
Advance ==
    IF listIndex + 1 >= Len(cacheData[mapIterator])
    THEN mapIterator' = NextVector(mapIterator) /\ listIndex' = 0
    ELSE mapIterator' = mapIterator /\ listIndex' = listIndex + 1

-----------------------------------------------------------------------------
(* The operations.                                                         *)

\* A call looks its inputs up; on a miss it creates an object and computes.  A
\* call nested in it is one on smaller inputs, so never one that it waits for.
GetCacheData(k) ==
    /\ scan # "running"
    /\ \A o \in pending : <<keyOf[o], k>> \notin Equal /\ <<k, keyOf[o]>> \notin Equal
    /\ found' = Find(k)
    /\ \/ found' # NoObject /\ UNCHANGED clientVars
       \/ /\ found' = NoObject
          /\ \E o \in Objects \ (Stored \cup pending) :
                pending' = pending \cup {o} /\ keyOf' = [keyOf EXCEPT ![o] = k]
    /\ scan' = "none" /\ yielded' = <<>>
    /\ UNCHANGED <<mapVars, iteratorVars>>

\* The result is added.  A new hash goes anywhere in the order of the map, and
\* may rehash it, which reorders it and invalidates its iterators.
PutInNewVector(o) ==
    LET h == HashOf[keyOf[o]]
    IN  cacheData' = [g \in DOMAIN cacheData \cup {h} |-> IF g = h THEN <<o>> ELSE cacheData[g]]
Put(o) ==
    LET h == HashOf[keyOf[o]]
        list == IF h \in DOMAIN cacheData THEN cacheData[h] ELSE <<>>
    IN  cacheData' = [g \in DOMAIN cacheData \cup {h} |->
                         IF g = h THEN Append(list, o) ELSE cacheData[g]]

AddCacheData(o) ==
    /\ scan # "running"
    /\ o \in pending
    /\ pending' = pending \ {o}
    /\ Put(o)
    /\ IF HashOf[keyOf[o]] \in DOMAIN cacheData
       THEN UNCHANGED <<order, mapIterator>>
       ELSE order' \in SetToSeqs(DOMAIN cacheData') /\ mapIterator' = Dangling
    /\ scan' = "none" /\ yielded' = <<>>
    /\ UNCHANGED <<listIndex, keyOf, found>>

\* The result is not worth storing, or computing it has failed.
Discard(o) ==
    /\ scan # "running"
    /\ o \in pending
    /\ pending' = pending \ {o}
    /\ UNCHANGED <<mapVars, iteratorVars, keyOf, found, scan, yielded>>

ResetDataIterator ==
    /\ scan # "running"
    /\ mapIterator' = IF order = <<>> THEN End ELSE Head(order)
    /\ listIndex' = 0
    /\ scan' = "running" /\ yielded' = <<>>
    /\ UNCHANGED <<mapVars, clientVars, found>>

GetNextDataStartingOver ==
    /\ scan = "running"
    /\ IF mapIterator = End
       THEN mapIterator' = Head(order \o <<End>>) /\ listIndex' = 0 /\ yielded' = <<>>
       ELSE /\ yielded' = Append(yielded, cacheData[mapIterator][listIndex + 1])
            /\ Advance
    /\ UNCHANGED <<mapVars, clientVars, found, scan>>
GetNextData ==
    /\ scan = "running"
    /\ IF mapIterator = End
       THEN scan' = "done" /\ UNCHANGED <<iteratorVars, yielded>>
       ELSE /\ yielded' = Append(yielded, cacheData[mapIterator][listIndex + 1])
            /\ Advance
            /\ scan' = scan
    /\ UNCHANGED <<mapVars, clientVars, found>>

\* The manager removes one of the objects that its scan has met.
RemoveData(o) ==
    /\ scan = "done"
    /\ o \in ToSet(yielded)
    /\ LET h == HashOf[keyOf[o]]
       IN  /\ cacheData' = Without(h, o)
           /\ order' = IF h \in DOMAIN cacheData' THEN order ELSE RemoveFirst(order, h)
           /\ mapIterator' = IF mapIterator = h /\ h \notin DOMAIN cacheData'
                             THEN Dangling ELSE mapIterator
    /\ scan' = "none" /\ yielded' = <<>>
    /\ UNCHANGED <<listIndex, clientVars, found>>

\* The manager's destructor has met, and evicted, all objects.
Destroy ==
    /\ scan = "done"
    /\ pending = {}
    /\ cacheData' = <<>> /\ order' = <<>>
    /\ mapIterator' = Dangling
    /\ found' = NoObject
    /\ scan' = "none" /\ yielded' = <<>>
    /\ UNCHANGED <<listIndex, clientVars>>

Next ==
    \/ \E k \in Keys : GetCacheData(k)
    \/ \E o \in Objects : AddCacheData(o) \/ Discard(o) \/ RemoveData(o)
    \/ ResetDataIterator \/ GetNextData \/ Destroy

Spec == Init /\ [][Next]_vars

\* Every scan is a loop that calls getNextData until it answers null.
FairSpec == Spec /\ WF_vars(GetNextData)

-----------------------------------------------------------------------------
(* Properties.                                                             *)

\* Vectors are never empty (getNextData takes an element of every vector it comes
\* to), and the order of the map enumerates it.
TypeOK ==
    /\ DOMAIN cacheData \subseteq Hashes
    /\ \A h \in DOMAIN cacheData : cacheData[h] \in Seq(Objects) \ {<<>>}
    /\ ToSet(order) = DOMAIN cacheData /\ Len(order) = Cardinality(DOMAIN cacheData)
    /\ mapIterator \in Hashes \cup {End, Dangling}
    /\ listIndex \in 0..MaxLength
    /\ keyOf \in [Objects -> Keys]
    /\ pending \subseteq Objects
    /\ found \in Objects \cup {NoObject}
    /\ scan \in {"none", "running", "done"}
    /\ yielded \in Seq(Objects)

\* As long as a scan runs, its iterator is at an object of the map or at its end:
\* mapIterator does not point to a vector that is gone, nor has listIndex run out of it.
\* Objects are added and removed between scans only (a scan runs under the mutex, with no
\* call of the user's in it): what was left behind by them, an empty vector above all, is
\* what a scan could stumble over.
IteratorValid ==
    scan = "running" /\ mapIterator # End =>
        /\ mapIterator \in DOMAIN cacheData
        /\ listIndex < Len(cacheData[mapIterator])

\* When getNextData answers null, the scan has met every stored object, and none
\* of them twice: no object escapes eviction, the miss events or the destructor.
ScanComplete ==
    scan = "done" => ToSet(yielded) = Stored /\ Len(yielded) = Cardinality(Stored)

\* Every scan comes to its end.
ScanEnds == scan = "running" ~> scan # "running"

\* The objects that a running scan still has to meet: the rest of the vector it
\* is at, and the vectors after that one.
Unseen ==
    IF scan # "running" \/ mapIterator \notin DOMAIN cacheData THEN {}
    ELSE LET i == SelectInSeq(order, LAMBDA g : g = mapIterator)
             list == cacheData[mapIterator]
         IN  {list[j] : j \in (listIndex + 1)..Len(list)}
                \cup UNION {ToSet(cacheData[order[j]]) : j \in (i + 1)..Len(order)}

\* The hash map with its iterator implements the set of objects with its scans.
Set == INSTANCE ObjectSet WITH
    contents <- {<<o, keyOf[o]>> : o \in Stored},
    scanning <- scan = "running",
    unseen <- Unseen

ImplementsObjectSet == Set!Spec
=============================================================================
