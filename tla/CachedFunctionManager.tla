----------------------- MODULE CachedFunctionManager -----------------------
(***************************************************************************)
(* The core of the caching library: one CachedFunctionManager, the cached  *)
(* functions registered with it, and any number of threads that call them. *)
(*                                                                         *)
(* A call (CachedFunctionWithDepObj::call) takes the manager's recursive   *)
(* mutex, looks its inputs up, and on a miss runs the user's function,     *)
(* which may itself call cached functions of the same manager.  The result *)
(* is stored when it is worth storing, after evicting what has to go.      *)
(*                                                                         *)
(* A thread's calls in progress are the frames of a stack.  Everything a   *)
(* call does between two points where another thread or a nested call can  *)
(* be observed is one action.  The inputs of a call are abstracted to a    *)
(* key: two calls have equal inputs iff they have the same key.            *)
(***************************************************************************)
EXTENDS Integers, FiniteSets

CONSTANTS
    Threads,          \* the threads of the program
    Functions,        \* the cached functions the program can register
    Keys,             \* a key is a cached function with the inputs of one call
    Objects,          \* addresses of CacheData objects (bounds the heap)
    FunctionOf,       \* the function a key belongs to
    SizeOf,           \* what calculateSize answers for a key, in bytes
    Calls,            \* <<k, l>>: computing k may call the cached function on l
    Rank,             \* the measure that makes nested calls terminate
    MaxDepth,         \* bound on the nesting of calls; Rank keeps it unreached
    Capacity,         \* CacheManagerConfiguration::getCacheCapacity()
    MaxDataSize,      \* CacheConfiguration::getMaximumDataSize(), by function
    MinCreationTime,  \* CacheConfiguration::getMinimumDataCreationTime()
    IndicatorFunctions, \* functions of which the program uses the indicator
    CreationTimes,    \* the times a run of a function can be measured to take
    Word,             \* 2^w, for the w bits of size_t
    NoThread, NoKey, NoObject

ASSUME KeyAssumption ==
    /\ FunctionOf \in [Keys -> Functions]
    /\ NoThread \notin Threads /\ NoKey \notin Keys /\ NoObject \notin Objects

ASSUME SizeAssumption ==
    /\ Word \in Nat /\ Capacity \in Nat /\ 2 * Capacity < Word
    /\ SizeOf \in [Keys -> 0..(Word - 1)]
    /\ MaxDataSize \in [Functions -> Nat]
    /\ MinCreationTime \in [Functions -> Nat]
    /\ CreationTimes \subseteq Nat

\* A cached function that calls cached functions does so on smaller inputs.
ASSUME NestingAssumption ==
    /\ MaxDepth \in Nat \ {0}
    /\ Rank \in [Keys -> 0..(MaxDepth - 1)]
    /\ Calls \subseteq Keys \X Keys
    /\ \A c \in Calls : Rank[c[2]] < Rank[c[1]]

ASSUME ObjectAssumption == IsFiniteSet(Objects)

VARIABLES
    alive,            \* the manager exists
    cachedFunctions,  \* the functions registered with it
    stored,           \* the CacheData objects in the functions' structures
    dataKey,          \* the inputs copied into each object, NoKey before that
    spaceTaken,       \* the manager's count of bytes
    mutexOwner,       \* who holds the recursive mutex ...
    lockCount,        \* ... and how many times
    depth,            \* number of calls in progress, by thread
    stack,            \* the calls in progress, outermost first
    indicatorAt,      \* the thread whose flag a function's indicator points to
    indicator,        \* those flags, one for each thread
    asked,            \* <<t, fn>>: t has pointed fn's indicator to its flag
    lastCall          \* the outcome of the call a thread has just returned from

vars == <<alive, cachedFunctions, stored, dataKey, spaceTaken, mutexOwner,
          lockCount, depth, stack, indicatorAt, indicator, asked, lastCall>>

cacheVars == <<stored, dataKey, spaceTaken>>
lockVars == <<mutexOwner, lockCount>>
managerVars == <<alive, cachedFunctions, indicatorAt, asked>>

PCs == {"idle", "lock", "lookup", "run", "makeSpace", "store", "hit"}
Frame == [pc : PCs, key : Keys \cup {NoKey}, data : Objects \cup {NoObject}]
Idle == [pc |-> "idle", key |-> NoKey, data |-> NoObject]
Outcome == [key : Keys \cup {NoKey}, stored : BOOLEAN]
NoCall == [key |-> NoKey, stored |-> FALSE]
Levels == 1..MaxDepth

Init ==
    /\ alive = FALSE
    /\ cachedFunctions = {}
    /\ stored = {}
    /\ dataKey = [a \in Objects |-> NoKey]
    /\ spaceTaken = 0
    /\ mutexOwner = NoThread
    /\ lockCount = 0
    /\ depth = [t \in Threads |-> 0]
    /\ stack = [t \in Threads |-> [i \in Levels |-> Idle]]
    /\ indicatorAt = [f \in Functions |-> NoThread]
    /\ indicator = [t \in Threads |-> FALSE]
    /\ asked = {}
    /\ lastCall = [t \in Threads |-> NoCall]

-----------------------------------------------------------------------------
(* The frame on which a thread works, and how its stack changes.           *)

Top(t) == stack[t][depth[t]]

At(t, pc) == depth[t] > 0 /\ Top(t).pc = pc

Goto(t, pc, data) ==
    /\ stack' = [stack EXCEPT ![t][depth[t]] =
                    [pc |-> pc, key |-> Top(t).key, data |-> data]]
    /\ depth' = depth

Push(t, k) ==
    /\ stack' = [stack EXCEPT ![t][depth[t] + 1] =
                    [pc |-> "lock", key |-> k, data |-> NoObject]]
    /\ depth' = [depth EXCEPT ![t] = @ + 1]

Pop(t) ==
    /\ stack' = [stack EXCEPT ![t][depth[t]] = Idle]
    /\ depth' = [depth EXCEPT ![t] = @ - 1]

\* A recursive mutex admits the thread that holds it already.
CanLockNoMutex(t) == TRUE
CanLock(t) == mutexOwner \in {NoThread, t}

\* The locker's destructor, on every way out of the call.
UnlockUncounted(t) == lockCount' = lockCount /\ mutexOwner' = NoThread
UnlockNotRecursive(t) == lockCount' = 0 /\ mutexOwner' = NoThread
UnlockInnerOnly(t) == lockCount' = lockCount - 1 /\ mutexOwner' = mutexOwner
Unlock(t) ==
    /\ lockCount' = lockCount - 1
    /\ mutexOwner' = IF lockCount = 1 THEN NoThread ELSE mutexOwner

\* Leaving a call; only the outermost one hands its outcome to the program.
Leave(t, outcome) ==
    /\ Pop(t)
    /\ Unlock(t)
    /\ lastCall' = IF depth[t] = 1 THEN [lastCall EXCEPT ![t] = outcome]
                                   ELSE lastCall

\* The call writes through its function's indicator, if it has one.
Write(k, b) ==
    LET t == indicatorAt[FunctionOf[k]]
    IN  indicator' = IF t = NoThread THEN indicator ELSE [indicator EXCEPT ![t] = b]

IndicateSuccessOnly(k, b) == IF b THEN Write(k, b) ELSE indicator' = indicator
Indicate(k, b) == Write(k, b)

-----------------------------------------------------------------------------
(* Space, in the arithmetic of size_t, and the data that take it.          *)

CheckSpaceTakenOnly(bytes) == spaceTaken % Word <= Capacity
CheckSpace(bytes) == (spaceTaken + bytes) % Word <= Capacity

MustEvictOffByOne(bytes) == (Capacity - spaceTaken) % Word <= bytes
MustEvict(bytes) == (Capacity - spaceTaken) % Word < bytes

NotWorthStoringUncapped(k, creationTime) ==
    \/ creationTime < MinCreationTime[FunctionOf[k]]
    \/ SizeOf[k] > MaxDataSize[FunctionOf[k]]
NotWorthStoring(k, creationTime) ==
    \/ creationTime < MinCreationTime[FunctionOf[k]]
    \/ SizeOf[k] > MaxDataSize[FunctionOf[k]]
    \/ SizeOf[k] > Capacity

\* A stored object answers a call iff it holds the call's inputs.
DataEqualsNever(a, k) == FALSE
DataEqualsAlways(a, k) == TRUE
DataEquals(a, k) == dataKey[a] = k

\* An evicted object leaves its function's structure and gives its space back.
RemoveDataUncounted(a) ==
    stored' = stored \ {a} /\ dataKey' = [dataKey EXCEPT ![a] = NoKey] /\ spaceTaken' = spaceTaken
RemoveDataNotFound(a) == UNCHANGED cacheVars
RemoveData(a) ==
    /\ stored' = stored \ {a}
    /\ dataKey' = [dataKey EXCEPT ![a] = NoKey]
    /\ spaceTaken' = (spaceTaken - SizeOf[dataKey[a]]) % Word

\* The objects a frame of some thread holds through its shared_ptr.
Held == {stack[t][i].data : t \in Threads, i \in Levels} \ {NoObject}

-----------------------------------------------------------------------------
(* Life cycle: the program creates and destroys the manager and registers  *)
(* functions.  It destroys the manager only when no call is in progress.   *)

CreateManager ==
    /\ ~alive
    /\ alive' = TRUE
    /\ spaceTaken' = 0
    /\ UNCHANGED <<cachedFunctions, stored, dataKey, lockVars, depth, stack,
                   indicatorAt, indicator, asked, lastCall>>

CreateCachedFunction(f) ==
    /\ alive
    /\ f \notin cachedFunctions
    /\ cachedFunctions' = cachedFunctions \cup {f}
    /\ UNCHANGED <<alive, cacheVars, lockVars, depth, stack,
                   indicatorAt, indicator, asked, lastCall>>

\* A thread points a function's indicator to its own flag, before a call and
\* without the mutex.
SetDataInCacheIndicator(t, f) ==
    /\ f \in cachedFunctions \cap IndicatorFunctions
    /\ depth[t] = 0 /\ lastCall[t] = NoCall
    /\ indicatorAt' = [indicatorAt EXCEPT ![f] = t]
    /\ asked' = asked \cup {<<t, f>>}
    /\ UNCHANGED <<alive, cachedFunctions, cacheVars, lockVars, depth, stack,
                   indicator, lastCall>>

DestroyManager ==
    /\ alive
    /\ \A t \in Threads : depth[t] = 0
    /\ alive' = FALSE
    /\ cachedFunctions' = {}
    /\ indicatorAt' = [f \in Functions |-> NoThread]
    /\ asked' = {}
    /\ stored' = {}
    /\ dataKey' = [a \in Objects |-> NoKey]
    /\ spaceTaken' = 0
    /\ UNCHANGED <<lockVars, depth, stack, indicator, lastCall>>

-----------------------------------------------------------------------------
(* One call, from the program's invocation to its return.                  *)

Call(t, k) ==
    /\ depth[t] = 0
    /\ FunctionOf[k] \in cachedFunctions
    /\ Push(t, k)
    /\ lastCall' = [lastCall EXCEPT ![t] = NoCall]
    /\ UNCHANGED <<managerVars, cacheVars, lockVars, indicator>>

\* The running function calls a cached function of the same manager.
NestedCall(t, k) ==
    /\ At(t, "run")
    /\ <<Top(t).key, k>> \in Calls
    /\ depth[t] < MaxDepth
    /\ FunctionOf[k] \in cachedFunctions
    /\ Push(t, k)
    /\ UNCHANGED <<managerVars, cacheVars, lockVars, indicator, lastCall>>

Lock(t) ==
    /\ At(t, "lock")
    /\ CanLock(t)
    /\ mutexOwner' = t
    /\ lockCount' = lockCount + 1
    /\ Goto(t, "lookup", NoObject)
    /\ UNCHANGED <<managerVars, cacheVars, indicator, lastCall>>

LookupHit(t) ==
    /\ At(t, "lookup")
    /\ \E a \in stored : DataEquals(a, Top(t).key) /\ Goto(t, "hit", a)
    /\ UNCHANGED <<managerVars, cacheVars, lockVars, indicator, lastCall>>

LookupMiss(t) ==
    /\ At(t, "lookup")
    /\ \A a \in stored : ~DataEquals(a, Top(t).key)
    /\ \E a \in Objects \ (stored \cup Held) : Goto(t, "run", a)
    /\ UNCHANGED <<managerVars, cacheVars, lockVars, indicator, lastCall>>

\* The user's hash or equality function throws; the locker gives the mutex back.
LookupThrows(t) ==
    /\ At(t, "lookup")
    /\ Leave(t, NoCall)
    /\ UNCHANGED <<managerVars, cacheVars, indicator>>

\* The function has returned and its result is not stored.
ReturnUncached(t) ==
    /\ At(t, "run")
    /\ \E c \in CreationTimes : NotWorthStoring(Top(t).key, c)
    /\ Indicate(Top(t).key, FALSE)
    /\ Leave(t, [key |-> Top(t).key, stored |-> FALSE])
    /\ UNCHANGED <<managerVars, cacheVars>>

\* The function has returned and its result is copied into the new object.
FillData(t) ==
    /\ At(t, "run")
    /\ \E c \in CreationTimes : ~NotWorthStoring(Top(t).key, c)
    /\ dataKey' = [dataKey EXCEPT ![Top(t).data] = Top(t).key]
    /\ Goto(t, IF CheckSpace(SizeOf[Top(t).key]) THEN "store" ELSE "makeSpace",
            Top(t).data)
    /\ UNCHANGED <<managerVars, stored, spaceTaken, lockVars, indicator, lastCall>>

\* An exception leaves the function, or the copying of its result: the new object
\* and the lock go with it.
FunctionThrows(t) ==
    /\ At(t, "run")
    /\ Leave(t, NoCall)
    /\ UNCHANGED <<managerVars, cacheVars, indicator>>

\* One turn of makeSpace; any object may have the least priority of a policy.
EvictData(t) ==
    /\ At(t, "makeSpace")
    /\ MustEvict(SizeOf[Top(t).key])
    /\ \E a \in stored : RemoveData(a)
    /\ UNCHANGED <<managerVars, lockVars, depth, stack, indicator, lastCall>>

SpaceMade(t) ==
    /\ At(t, "makeSpace")
    /\ ~MustEvict(SizeOf[Top(t).key])
    /\ Goto(t, "store", Top(t).data)
    /\ UNCHANGED <<managerVars, cacheVars, lockVars, indicator, lastCall>>

StoreData(t) ==
    /\ At(t, "store")
    /\ spaceTaken' = (spaceTaken + SizeOf[Top(t).key]) % Word
    /\ stored' = stored \cup {Top(t).data}
    /\ Goto(t, "hit", Top(t).data)
    /\ UNCHANGED <<managerVars, dataKey, lockVars, indicator, lastCall>>

ReturnStored(t) ==
    /\ At(t, "hit")
    /\ Indicate(Top(t).key, TRUE)
    /\ Leave(t, [key |-> Top(t).key, stored |-> TRUE])
    /\ UNCHANGED <<managerVars, cacheVars>>

\* The user's output or return function throws, when the data is stored already
\* and the indicator says so.
OutputThrows(t) ==
    /\ At(t, "hit")
    /\ Indicate(Top(t).key, TRUE)
    /\ Leave(t, NoCall)
    /\ UNCHANGED <<managerVars, cacheVars>>

\* The program has read the outcome of its call and goes on.
ReadOutcome(t) ==
    /\ lastCall[t] # NoCall
    /\ lastCall' = [lastCall EXCEPT ![t] = NoCall]
    /\ UNCHANGED <<managerVars, cacheVars, lockVars, depth, stack, indicator>>

-----------------------------------------------------------------------------

\* The steps a thread takes once it holds the mutex, the user's function apart.
Internal(t) ==
    \/ LookupHit(t) \/ LookupMiss(t) \/ LookupThrows(t) \/ EvictData(t)
    \/ SpaceMade(t) \/ StoreData(t) \/ ReturnStored(t) \/ OutputThrows(t)

FunctionEnds(t) == ReturnUncached(t) \/ FillData(t) \/ FunctionThrows(t)

Next ==
    \/ CreateManager \/ DestroyManager
    \/ \E f \in Functions : CreateCachedFunction(f)
    \/ \E t \in Threads, f \in Functions : SetDataInCacheIndicator(t, f)
    \/ \E t \in Threads, k \in Keys : Call(t, k) \/ NestedCall(t, k)
    \/ \E t \in Threads : Lock(t) \/ Internal(t) \/ FunctionEnds(t) \/ ReadOutcome(t)

Spec == Init /\ [][Next]_vars

\* A thread that can proceed does; the user's function terminates, at whatever
\* level of the stack it runs.  Nothing is assumed about whom the mutex admits.
Fairness ==
    /\ \A t \in Threads : WF_vars(Internal(t)) /\ WF_vars(Lock(t))
    /\ \A t \in Threads, i \in Levels : SF_vars(depth[t] = i /\ FunctionEnds(t))

FairSpec == Spec /\ Fairness

-----------------------------------------------------------------------------
(* Properties.                                                             *)

TypeOK ==
    /\ alive \in BOOLEAN
    /\ cachedFunctions \subseteq Functions
    /\ stored \subseteq Objects
    /\ dataKey \in [Objects -> Keys \cup {NoKey}]
    /\ spaceTaken \in 0..(Word - 1)
    /\ mutexOwner \in Threads \cup {NoThread}
    /\ lockCount \in 0..MaxDepth
    /\ depth \in [Threads -> 0..MaxDepth]
    /\ stack \in [Threads -> [Levels -> Frame]]
    /\ indicatorAt \in [Functions -> Threads \cup {NoThread}]
    /\ indicator \in [Threads -> BOOLEAN]
    /\ asked \subseteq Threads \X Functions
    /\ lastCall \in [Threads -> Outcome]

\* Only the owner of the mutex is past the locker of a call; it holds the mutex
\* once for each of its calls that are, and its outer calls wait in the running
\* function for the inner ones (CachedFunctionCallLocker, recursive mutex).
LockDiscipline ==
    /\ (mutexOwner = NoThread) <=> (lockCount = 0)
    /\ \A t \in Threads, i \in Levels :
          /\ stack[t][i].pc = "idle" <=> i > depth[t]
          /\ i < depth[t] => stack[t][i].pc = "run"
          /\ stack[t][i].pc \notin {"idle", "lock"} => mutexOwner = t
    /\ mutexOwner # NoThread =>
          lockCount = IF At(mutexOwner, "lock") THEN depth[mutexOwner] - 1
                                                ELSE depth[mutexOwner]

\* The bytes that a set of stored objects occupies.
BytesOf(S) == {b \in S \X (1..(Word - 1)) : b[2] <= SizeOf[dataKey[b[1]]]}

\* The manager's count is the space of the objects in the functions' structures,
\* across evictions, nested calls, exceptions and uncached results (spaceTaken,
\* "space taken by all data in all cache objects created by this manager").
SpaceAccounting == spaceTaken = Cardinality(BytesOf(stored))

\* What is stored never exceeds the capacity, although checkSpace and makeSpace
\* read the count before the nested calls of a later miss change it again.
WithinCapacity == Cardinality(BytesOf(stored)) <= Capacity

\* As long as makeSpace wants more space there is an object to evict: it never
\* dereferences the null candidate of an empty cache.
CandidateExists ==
    \A t \in Threads :
        At(t, "makeSpace") /\ MustEvict(SizeOf[Top(t).key]) => stored # {}

\* A miss is still a miss when its result is stored: between the lookup and
\* addCacheData no other thread and no nested call has stored the same inputs.
MissStillValid ==
    \A t \in Threads, i \in Levels :
        stack[t][i].pc \in {"run", "makeSpace", "store"} =>
            \A a \in stored : dataKey[a] # stack[t][i].key /\ a # stack[t][i].data

\* No inputs are stored twice, so which of equal inputs is found never matters.
UniqueEntries == \A a, b \in stored : dataKey[a] = dataKey[b] => a = b

\* The object a call answers from holds the answer to its own inputs and has not
\* been evicted: hitData and setOutput work on stored data.
AnswerStored ==
    \A t \in Threads, i \in Levels :
        stack[t][i].pc = "hit" =>
            stack[t][i].data \in stored /\ dataKey[stack[t][i].data] = stack[t][i].key

\* After a call has returned, the flag of a thread that has given its address to
\* setDataInCacheIndicator says whether the result was stored ("after the call
\* method is called the value on the given adress is set to true if the data on
\* the output are stored in cache, otherwise it is set to false").
IndicatorTruthful ==
    \A t \in Threads :
        LET k == lastCall[t].key
        IN  k # NoKey /\ <<t, FunctionOf[k]>> \in asked =>
                indicator[t] = lastCall[t].stored

\* Whatever happens inside a call, its thread gives the mutex back: no path out
\* of call, exceptions included, keeps it, and makeSpace's loop ends.
MutexReleased ==
    \A t \in Threads : mutexOwner = t ~> mutexOwner # t

\* A call returns if from some moment on no other thread makes calls.  (A mutex
\* that admits whom it likes promises no more when they do.)
UncontendedCallReturns ==
    \A t \in Threads :
        <>[](\A u \in Threads \ {t} : depth[u] = 0) => (depth[t] > 0 ~> depth[t] = 0)

\* The manager implements the abstract memo cache.
Memo == INSTANCE MemoCache WITH
    contents <- {dataKey[a] : a \in stored},
    pending <- [t \in Threads |-> {stack[t][i].key : i \in 1..depth[t]}]

ImplementsMemoCache == Memo!Spec
=============================================================================
