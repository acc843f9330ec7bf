-------------------- MODULE CachedFunctionManagerProofs --------------------
(***************************************************************************)
(* Proofs about CachedFunctionManager, for every number of threads,        *)
(* functions, keys and objects, every capacity and every nesting of calls: *)
(* its invariants, and that it implements MemoCache.                       *)
(***************************************************************************)
EXTENDS CachedFunctionManager, FiniteSetTheorems, TLAPS

-----------------------------------------------------------------------------
(* How the steps of a call change the stacks.                              *)

StackType == depth \in [Threads -> 0..MaxDepth] /\ stack \in [Threads -> [Levels -> Frame]]

\* Goto rewrites the top frame of one thread, keeping its key.
LEMMA GotoEffect ==
    ASSUME StackType, NEW t \in Threads, depth[t] > 0,
           NEW pc \in PCs, NEW data \in Objects \cup {NoObject}, Goto(t, pc, data)
    PROVE  /\ StackType'
           /\ depth' = depth
           /\ depth[t] \in Levels
           /\ stack'[t][depth[t]].pc = pc
           /\ stack'[t][depth[t]].key = stack[t][depth[t]].key
           /\ stack'[t][depth[t]].data = data
           /\ \A u \in Threads, i \in Levels :
                 u # t \/ i # depth[t] => stack'[u][i] = stack[u][i]
  <1>1. depth[t] \in Levels
    BY NestingAssumption DEF StackType, Levels
  <1>2. [pc |-> pc, key |-> stack[t][depth[t]].key, data |-> data] \in Frame
    BY <1>1 DEF StackType, Frame
  <1> QED
    BY <1>1, <1>2 DEF StackType, Goto, Top

\* Push puts a frame that waits for the mutex on one thread's stack.
LEMMA PushEffect ==
    ASSUME StackType, NEW t \in Threads, depth[t] < MaxDepth, NEW k \in Keys, Push(t, k)
    PROVE  /\ StackType'
           /\ depth[t] + 1 \in Levels
           /\ depth'[t] = depth[t] + 1
           /\ \A u \in Threads : u # t => depth'[u] = depth[u]
           /\ stack'[t][depth[t] + 1].pc = "lock"
           /\ stack'[t][depth[t] + 1].key = k
           /\ stack'[t][depth[t] + 1].data = NoObject
           /\ \A u \in Threads, i \in Levels :
                 u # t \/ i # depth[t] + 1 => stack'[u][i] = stack[u][i]
  <1>1. depth[t] + 1 \in Levels
    BY NestingAssumption DEF StackType, Levels
  <1>2. [pc |-> "lock", key |-> k, data |-> NoObject] \in Frame
    BY DEF Frame, PCs
  <1>3. depth' \in [Threads -> 0..MaxDepth]
    BY NestingAssumption DEF StackType, Push
  <1> QED
    BY <1>1, <1>2, <1>3 DEF StackType, Push

\* Pop clears the top frame of one thread.
LEMMA PopEffect ==
    ASSUME StackType, NEW t \in Threads, depth[t] > 0, Pop(t)
    PROVE  /\ StackType'
           /\ depth[t] \in Levels
           /\ depth'[t] = depth[t] - 1
           /\ \A u \in Threads : u # t => depth'[u] = depth[u]
           /\ stack'[t][depth[t]].pc = "idle"
           /\ stack'[t][depth[t]].data = NoObject
           /\ \A u \in Threads, i \in Levels :
                 u # t \/ i # depth[t] => stack'[u][i] = stack[u][i]
  <1>1. depth[t] \in Levels
    BY NestingAssumption DEF StackType, Levels
  <1>2. Idle \in Frame
    BY DEF Idle, Frame, PCs
  <1>3. depth' \in [Threads -> 0..MaxDepth]
    BY NestingAssumption DEF StackType, Pop
  <1> QED
    BY <1>1, <1>2, <1>3 DEF StackType, Pop, Idle

-----------------------------------------------------------------------------
(* The lock discipline.                                                    *)

\* A step inside the mutex leaves the discipline as it was.
LEMMA GotoKeepsLock ==
    ASSUME StackType, LockDiscipline, NEW t \in Threads,
           depth[t] > 0, Top(t).pc \notin {"idle", "lock"},
           NEW pc \in PCs \ {"idle", "lock"}, NEW data \in Objects \cup {NoObject},
           Goto(t, pc, data), UNCHANGED lockVars
    PROVE  LockDiscipline' /\ StackType'
  <1>1. /\ StackType' /\ depth' = depth /\ depth[t] \in Levels
        /\ stack'[t][depth[t]].pc = pc
        /\ \A u \in Threads, i \in Levels :
              u # t \/ i # depth[t] => stack'[u][i] = stack[u][i]
    BY GotoEffect
  <1>2. mutexOwner = t
    BY <1>1 DEF LockDiscipline, Top
  <1>3. /\ mutexOwner' = mutexOwner /\ lockCount' = lockCount
    BY DEF lockVars
  <1>4. ASSUME NEW u \in Threads, NEW i \in Levels
        PROVE  /\ stack'[u][i].pc = "idle" <=> i > depth'[u]
               /\ i < depth'[u] => stack'[u][i].pc = "run"
               /\ stack'[u][i].pc \notin {"idle", "lock"} => mutexOwner' = u
    <2>1. CASE u = t /\ i = depth[t]
      BY <1>1, <1>2, <1>3, <2>1 DEF StackType
    <2>2. CASE u # t \/ i # depth[t]
      BY <1>1, <1>3, <2>2 DEF LockDiscipline
    <2> QED BY <2>1, <2>2
  <1>5. lockCount = depth[t] /\ ~(At(t, "lock"))'
    <2>1. ~At(t, "lock") /\ t # NoThread
      BY KeyAssumption DEF At
    <2>2. lockCount = depth[t]
      BY <1>2, <2>1 DEF LockDiscipline
    <2>3. ~(depth'[t] > 0 /\ stack'[t][depth'[t]].pc = "lock")
      BY <1>1
    <2> QED BY <2>2, <2>3 DEF At, Top
  <1> QED
    BY <1>1, <1>2, <1>3, <1>4, <1>5, NestingAssumption, KeyAssumption
    DEF LockDiscipline, StackType

\* A call that waits for the mutex is pushed by a thread that has no call, or
\* whose running function holds the mutex already.
LEMMA PushKeepsLock ==
    ASSUME StackType, LockDiscipline, mutexOwner \in Threads \cup {NoThread},
           NEW t \in Threads, NEW k \in Keys,
           depth[t] = 0 \/ At(t, "run"), depth[t] < MaxDepth,
           Push(t, k), UNCHANGED lockVars
    PROVE  LockDiscipline' /\ StackType'
  <1>1. /\ StackType'
        /\ depth[t] + 1 \in Levels
        /\ depth'[t] = depth[t] + 1
        /\ \A u \in Threads : u # t => depth'[u] = depth[u]
        /\ stack'[t][depth[t] + 1].pc = "lock"
        /\ \A u \in Threads, i \in Levels :
              u # t \/ i # depth[t] + 1 => stack'[u][i] = stack[u][i]
    BY PushEffect
  <1>2. /\ mutexOwner' = mutexOwner /\ lockCount' = lockCount
    BY DEF lockVars
  <1>d. depth \in [Threads -> Nat] /\ depth' \in [Threads -> Nat] /\ Levels \subseteq Nat
    BY <1>1, NestingAssumption DEF StackType, Levels
  <1>3. ASSUME NEW u \in Threads, NEW i \in Levels
        PROVE  /\ stack'[u][i].pc = "idle" <=> i > depth'[u]
               /\ i < depth'[u] => stack'[u][i].pc = "run"
               /\ stack'[u][i].pc \notin {"idle", "lock"} => mutexOwner' = u
    <2>1. CASE u = t /\ i = depth[t] + 1
      BY <1>1, <1>2, <1>d, <2>1
    <2>2. CASE u = t /\ i # depth[t] + 1
      <3>1. i < depth[t] + 1 => stack[t][i].pc = "run"
        BY <2>2, <1>d DEF LockDiscipline, At, Top, Levels
      <3> QED BY <1>1, <1>2, <1>d, <2>2, <3>1 DEF LockDiscipline
    <2>3. CASE u # t
      BY <1>1, <1>2, <1>d, <2>3 DEF LockDiscipline
    <2> QED BY <2>1, <2>2, <2>3
  <1>4. mutexOwner' # NoThread =>
            lockCount' = IF At(mutexOwner, "lock")' THEN depth'[mutexOwner'] - 1
                                                    ELSE depth'[mutexOwner']
    <2> HAVE mutexOwner' # NoThread
    <2>1. CASE mutexOwner = t
      <3>1. depth[t] # 0
        BY <1>2, <2>1, <1>d, KeyAssumption DEF LockDiscipline, At
      <3>2. At(t, "run") /\ lockCount = depth[t]
        BY <3>1, <2>1, KeyAssumption DEF LockDiscipline, At
      <3> QED BY <1>1, <1>2, <1>d, <2>1, <3>2 DEF At, Top
    <2>2. CASE mutexOwner \in Threads /\ mutexOwner # t
      <3>1. At(mutexOwner, "lock")' <=> At(mutexOwner, "lock")
        <4>1. depth[mutexOwner] > 0 => depth[mutexOwner] \in Levels
          BY <2>2, NestingAssumption DEF StackType, Levels
        <4> QED BY <1>1, <1>2, <2>2, <4>1 DEF At, Top
      <3> QED BY <1>1, <1>2, <2>2, <3>1 DEF LockDiscipline
    <2> QED BY <1>2, <2>1, <2>2
  <1> QED
    BY <1>1, <1>2, <1>3, <1>4 DEF LockDiscipline

\* Leaving a call gives the mutex back once.
LEMMA LeaveKeepsLock ==
    ASSUME StackType, LockDiscipline, lockCount \in 0..MaxDepth, NEW t \in Threads,
           depth[t] > 0, Top(t).pc \notin {"idle", "lock"}, Pop(t), Unlock(t)
    PROVE  /\ LockDiscipline' /\ StackType'
           /\ mutexOwner' \in Threads \cup {NoThread} /\ lockCount' \in 0..MaxDepth
  <1>1. /\ StackType'
        /\ depth[t] \in Levels
        /\ depth'[t] = depth[t] - 1
        /\ \A u \in Threads : u # t => depth'[u] = depth[u]
        /\ stack'[t][depth[t]].pc = "idle"
        /\ \A u \in Threads, i \in Levels :
              u # t \/ i # depth[t] => stack'[u][i] = stack[u][i]
    BY PopEffect DEF Idle
  <1>d. depth \in [Threads -> Nat] /\ depth' \in [Threads -> Nat] /\ Levels \subseteq Nat
    BY <1>1, NestingAssumption DEF StackType, Levels
  <1>2. mutexOwner = t /\ lockCount = depth[t] /\ t # NoThread
    BY <1>1, KeyAssumption DEF LockDiscipline, Top, At
  <1>3. lockCount' = depth'[t] /\ mutexOwner' = IF depth'[t] = 0 THEN NoThread ELSE t
    BY <1>1, <1>2, <1>d DEF Unlock
  <1>4. ASSUME NEW u \in Threads, NEW i \in Levels, u # t
        PROVE  stack[u][i].pc \in {"idle", "lock"}
    BY <1>2, <1>4 DEF LockDiscipline
  <1>5. ASSUME NEW u \in Threads, NEW i \in Levels
        PROVE  /\ stack'[u][i].pc = "idle" <=> i > depth'[u]
               /\ i < depth'[u] => stack'[u][i].pc = "run"
               /\ stack'[u][i].pc \notin {"idle", "lock"} => mutexOwner' = u
    <2>1. CASE u = t /\ i = depth[t]
      BY <1>1, <1>d, <2>1
    <2>2. CASE u = t /\ i # depth[t]
      BY <1>1, <1>3, <1>d, <2>2 DEF LockDiscipline, Levels
    <2>3. CASE u # t
      BY <1>1, <1>d, <1>4, <2>3 DEF LockDiscipline
    <2> QED BY <2>1, <2>2, <2>3
  <1>6. depth'[t] > 0 => ~At(t, "lock")'
    <2> SUFFICES ASSUME depth'[t] > 0 PROVE stack'[t][depth'[t]].pc = "run"
      BY DEF At, Top
    <2>1. depth[t] - 1 \in Levels /\ depth[t] - 1 < depth[t] /\ depth[t] - 1 # depth[t]
      BY <1>1, <1>d, NestingAssumption DEF Levels
    <2> QED BY <1>1, <2>1 DEF LockDiscipline
  <1>7. (mutexOwner' = NoThread) <=> (lockCount' = 0)
    BY <1>2, <1>3
  <1>8. mutexOwner' # NoThread =>
            mutexOwner' = t /\ lockCount' = depth'[t] /\ ~At(t, "lock")'
    BY <1>1, <1>3, <1>6, <1>d
  <1>9. lockCount' \in 0..MaxDepth
    BY <1>1, <1>3 DEF StackType
  <1>10. LockDiscipline'
    BY <1>5, <1>7, <1>8 DEF LockDiscipline
  <1> QED
    BY <1>1, <1>3, <1>9, <1>10

\* Taking the mutex, for the first time or again.
LEMMA LockKeepsLock ==
    ASSUME StackType, LockDiscipline, lockCount \in 0..MaxDepth, NEW t \in Threads,
           At(t, "lock"), mutexOwner \in {NoThread, t},
           mutexOwner' = t, lockCount' = lockCount + 1, Goto(t, "lookup", NoObject)
    PROVE  /\ LockDiscipline' /\ StackType'
           /\ mutexOwner' \in Threads \cup {NoThread} /\ lockCount' \in 0..MaxDepth
  <1>1. /\ StackType' /\ depth' = depth /\ depth[t] \in Levels
        /\ stack'[t][depth[t]].pc = "lookup"
        /\ \A u \in Threads, i \in Levels :
              u # t \/ i # depth[t] => stack'[u][i] = stack[u][i]
    <2>1. "lookup" \in PCs /\ NoObject \in Objects \cup {NoObject} /\ depth[t] > 0
      BY DEF PCs, At
    <2> HIDE DEF PCs
    <2> QED BY <2>1, GotoEffect
  <1>d. depth \in [Threads -> Nat] /\ Levels \subseteq Nat /\ t # NoThread
    BY <1>1, NestingAssumption, KeyAssumption DEF StackType, Levels
  <1>2. lockCount = depth[t] - 1
    <2>1. CASE mutexOwner = t
      BY <2>1, <1>d DEF LockDiscipline
    <2>2. CASE mutexOwner = NoThread
      <3>1. lockCount = 0
        BY <2>2 DEF LockDiscipline
      <3>2. ASSUME depth[t] > 1 PROVE FALSE
        <4>1. 1 \in Levels /\ stack[t][1].pc = "run"
          BY <1>1, <1>d, <3>2, NestingAssumption DEF LockDiscipline, Levels
        <4> QED BY <4>1, <2>2, <1>d DEF LockDiscipline
      <3> QED BY <3>1, <3>2, <1>d DEF At
    <2> QED BY <2>1, <2>2
  <1>3. ASSUME NEW u \in Threads, NEW i \in Levels
        PROVE  /\ stack'[u][i].pc = "idle" <=> i > depth'[u]
               /\ i < depth'[u] => stack'[u][i].pc = "run"
               /\ stack'[u][i].pc \notin {"idle", "lock"} => mutexOwner' = u
    <2>1. CASE u = t /\ i = depth[t]
      BY <1>1, <1>d, <2>1
    <2>2. CASE u # t \/ i # depth[t]
      BY <1>1, <1>d, <2>2, KeyAssumption DEF LockDiscipline
    <2> QED BY <2>1, <2>2
  <1>4. lockCount' = depth'[t] /\ lockCount' > 0 /\ ~At(t, "lock")'
    BY <1>1, <1>2, <1>d DEF At, Top
  <1> QED
    BY <1>1, <1>3, <1>4, <1>d DEF LockDiscipline, StackType, Levels

-----------------------------------------------------------------------------
(* Every value stays in its type, and the mutex discipline is kept.        *)

\* size_t arithmetic stays in size_t.
LEMMA WordType == \A x \in Int : x % Word \in 0..(Word - 1)
  <1>1. Word \in Nat /\ Word > 0
    BY SizeAssumption
  <1> QED BY <1>1

\* A size_t value is its own remainder.
LEMMA WordSmall == \A x \in 0..(Word - 1) : x % Word = x
  <1>1. Word \in Nat /\ Word > 0
    BY SizeAssumption
  <1> QED BY <1>1

\* The invariant behind the others.  What the frames hold ...
FrameInv ==
    \A t \in Threads, i \in Levels :
        LET fr == stack[t][i] IN
        /\ i <= depth[t] => fr.key \in Keys
        /\ IF fr.pc \in {"idle", "lock", "lookup"} THEN fr.data = NoObject
                                                  ELSE fr.data \in Objects
        /\ fr.pc \in {"makeSpace", "store"} => dataKey[fr.data] = fr.key

\* ... how the frames of one thread differ: inner calls have smaller inputs ...
NestInv ==
    \A t \in Threads : \A i, j \in Levels :
        i < j /\ j <= depth[t] =>
            /\ Rank[stack[t][j].key] < Rank[stack[t][i].key]
            /\ stack[t][i].data # stack[t][j].data

\* ... what is stored ...
StoredInv == \A a \in stored : dataKey[a] \in Keys

\* ... and that the space a call is about to take is free.
RoomInv ==
    \A t \in Threads, i \in Levels :
        /\ stack[t][i].pc \in {"makeSpace", "store"} => SizeOf[stack[t][i].key] <= Capacity
        /\ stack[t][i].pc = "store" => spaceTaken + SizeOf[stack[t][i].key] <= Capacity

\* No manager, no functions, no data, no calls.
DeadInv ==
    ~alive => /\ cachedFunctions = {} /\ stored = {}
              /\ \A t \in Threads : depth[t] = 0

DataInv == FrameInv /\ NestInv /\ StoredInv /\ MissStillValid /\ AnswerStored /\ UniqueEntries

SpaceInv == SpaceAccounting /\ spaceTaken <= Capacity /\ RoomInv

LockInv == TypeOK /\ LockDiscipline

\* The types and the mutex discipline hold before anything has happened ...
LEMMA LockInvInit == Init => LockInv
  <1> SUFFICES ASSUME Init PROVE LockInv
    OBVIOUS
  <1>1. Idle \in Frame /\ NoCall \in Outcome
    BY DEF Idle, Frame, PCs, NoCall, Outcome
  <1>2. MaxDepth \in Nat /\ 0 \in 0..MaxDepth /\ 0 \in 0..(Word - 1)
    BY NestingAssumption, SizeAssumption
  <1>3. TypeOK
    BY <1>1, <1>2 DEF Init, TypeOK
  <1>4. LockDiscipline
    BY NestingAssumption DEF Init, LockDiscipline, Idle, Levels
  <1> QED BY <1>3, <1>4 DEF LockInv

\* ... and every step keeps them, of threads whose frames hold their own objects.
LEMMA LockInvStep == LockInv /\ FrameInv /\ StoredInv /\ [Next]_vars => LockInv'
  <1> SUFFICES ASSUME TypeOK, LockDiscipline, FrameInv, StoredInv, [Next]_vars
               PROVE  TypeOK' /\ LockDiscipline'
    BY DEF LockInv
  <1>s. /\ StackType
        /\ mutexOwner \in Threads \cup {NoThread} /\ lockCount \in 0..MaxDepth
        /\ spaceTaken \in Int /\ Capacity \in Int /\ SizeOf \in [Keys -> Int]
    BY SizeAssumption DEF TypeOK, StackType
  <1>top. ASSUME NEW t \in Threads, depth[t] > 0 PROVE Top(t) \in Frame
    BY <1>s, <1>top, NestingAssumption DEF StackType, Levels, Top
  <1>z. 0 \in 0..(Word - 1)
    BY SizeAssumption
  \* What is left of the type invariant once the stacks and the mutex are typed.
  <1>t. ASSUME StackType', mutexOwner' \in Threads \cup {NoThread}, lockCount' \in 0..MaxDepth,
               alive' \in BOOLEAN, cachedFunctions' \subseteq Functions,
               stored' \subseteq Objects, dataKey' \in [Objects -> Keys \cup {NoKey}],
               spaceTaken' \in 0..(Word - 1),
               indicatorAt' \in [Functions -> Threads \cup {NoThread}],
               asked' \subseteq Threads \X Functions,
               indicator' \in [Threads -> BOOLEAN], lastCall' \in [Threads -> Outcome]
        PROVE  TypeOK'
    BY <1>t DEF TypeOK, StackType
  <1>i. ASSUME NEW k, NEW b \in BOOLEAN, Indicate(k, b)
        PROVE  indicator' \in [Threads -> BOOLEAN]
    BY <1>i DEF Indicate, Write, TypeOK
  <1>l. ASSUME NEW t \in Threads, NEW o \in Outcome, depth[t] > 0,
               Top(t).pc \notin {"idle", "lock"}, Leave(t, o)
        PROVE  /\ LockDiscipline' /\ StackType' /\ lastCall' \in [Threads -> Outcome]
               /\ mutexOwner' \in Threads \cup {NoThread} /\ lockCount' \in 0..MaxDepth
    BY <1>l, <1>s, LeaveKeepsLock DEF Leave, TypeOK
  <1>1. CASE CreateManager
    BY <1>1, <1>z DEF CreateManager, TypeOK, lockVars, LockDiscipline, At, Top
  <1>2. CASE DestroyManager
    BY <1>2, <1>z DEF DestroyManager, TypeOK, lockVars, LockDiscipline, At, Top
  <1>3. ASSUME NEW f \in Functions, CreateCachedFunction(f) PROVE TypeOK' /\ LockDiscipline'
    BY <1>3 DEF CreateCachedFunction, TypeOK, lockVars, cacheVars, LockDiscipline, At, Top
  <1>4. ASSUME NEW t \in Threads, NEW f \in Functions, SetDataInCacheIndicator(t, f)
        PROVE  TypeOK' /\ LockDiscipline'
    BY <1>4 DEF SetDataInCacheIndicator, TypeOK, lockVars, cacheVars, LockDiscipline, At, Top
  <1>5. ASSUME NEW t \in Threads, NEW k \in Keys, Call(t, k) PROVE TypeOK' /\ LockDiscipline'
    <2>1. depth[t] = 0 /\ depth[t] < MaxDepth /\ Push(t, k) /\ UNCHANGED lockVars
      BY <1>5, NestingAssumption DEF Call
    <2>2. LockDiscipline' /\ StackType'
      BY <2>1, <1>s, PushKeepsLock
    <2>3. lastCall' \in [Threads -> Outcome]
      BY <1>5 DEF Call, TypeOK, NoCall, Outcome
    <2> QED BY <1>5, <1>t, <2>2, <2>3 DEF Call, managerVars, cacheVars, lockVars, TypeOK
  <1>6. ASSUME NEW t \in Threads, NEW k \in Keys, NestedCall(t, k) PROVE TypeOK' /\ LockDiscipline'
    <2>1. At(t, "run") /\ depth[t] < MaxDepth /\ Push(t, k) /\ UNCHANGED lockVars
      BY <1>6 DEF NestedCall
    <2>2. LockDiscipline' /\ StackType'
      BY <2>1, <1>s, PushKeepsLock
    <2> QED BY <1>6, <1>t, <2>2 DEF NestedCall, managerVars, cacheVars, lockVars, TypeOK
  <1>7. ASSUME NEW t \in Threads, Lock(t) PROVE TypeOK' /\ LockDiscipline'
    <2>1. /\ LockDiscipline' /\ StackType'
          /\ mutexOwner' \in Threads \cup {NoThread} /\ lockCount' \in 0..MaxDepth
      BY <1>7, <1>s, LockKeepsLock DEF Lock, CanLock
    <2> QED BY <1>7, <1>t, <2>1 DEF Lock, managerVars, cacheVars, TypeOK
  <1>8. ASSUME NEW t \in Threads, LookupHit(t) PROVE TypeOK' /\ LockDiscipline'
    <2>1. PICK a \in stored : Goto(t, "hit", a)
      BY <1>8 DEF LookupHit, DataEquals
    <2>2. LockDiscipline' /\ StackType'
      BY <1>8, <2>1, <1>s, GotoKeepsLock DEF LookupHit, At, PCs, TypeOK
    <2> QED BY <1>8, <1>t, <2>2 DEF LookupHit, managerVars, cacheVars, lockVars, TypeOK
  <1>9. ASSUME NEW t \in Threads, LookupMiss(t) PROVE TypeOK' /\ LockDiscipline'
    <2>1. PICK a \in Objects : Goto(t, "run", a)
      BY <1>9 DEF LookupMiss
    <2>2. LockDiscipline' /\ StackType'
      BY <1>9, <2>1, <1>s, GotoKeepsLock DEF LookupMiss, At, PCs
    <2> QED BY <1>9, <1>t, <2>2 DEF LookupMiss, managerVars, cacheVars, lockVars, TypeOK
  <1>10. ASSUME NEW t \in Threads, ReturnUncached(t) PROVE TypeOK' /\ LockDiscipline'
    <2>1. depth[t] > 0 /\ Top(t).pc = "run" /\ Top(t) \in Frame
      BY <1>10, <1>top DEF ReturnUncached, At
    <2>2. [key |-> Top(t).key, stored |-> FALSE] \in Outcome
      BY <2>1 DEF Outcome, Frame
    <2>3. /\ LockDiscipline' /\ StackType' /\ lastCall' \in [Threads -> Outcome]
          /\ mutexOwner' \in Threads \cup {NoThread} /\ lockCount' \in 0..MaxDepth
      BY <1>10, <1>l, <2>1, <2>2 DEF ReturnUncached
    <2>4. indicator' \in [Threads -> BOOLEAN]
      BY <1>10, <1>i DEF ReturnUncached
    <2> QED BY <1>10, <1>t, <2>3, <2>4 DEF ReturnUncached, managerVars, cacheVars, TypeOK
  <1>11. ASSUME NEW t \in Threads, FillData(t) PROVE TypeOK' /\ LockDiscipline'
    <2>1. depth[t] > 0 /\ Top(t).pc = "run" /\ Top(t) \in Frame /\ UNCHANGED lockVars
      BY <1>11, <1>top DEF FillData, At
    <2>2. PICK pc \in {"store", "makeSpace"} : Goto(t, pc, Top(t).data)
      BY <1>11 DEF FillData
    <2>3. LockDiscipline' /\ StackType'
      BY <2>1, <2>2, <1>s, GotoKeepsLock DEF PCs, Frame
    <2>4. dataKey' \in [Objects -> Keys \cup {NoKey}]
      BY <1>11, <2>1 DEF FillData, TypeOK, Frame
    <2> QED BY <1>11, <1>t, <2>3, <2>4 DEF FillData, managerVars, lockVars, TypeOK
  <1>12. ASSUME NEW t \in Threads, FunctionThrows(t) \/ LookupThrows(t)
         PROVE  TypeOK' /\ LockDiscipline'
    <2>1. /\ depth[t] > 0 /\ Top(t).pc \in {"lookup", "run"} /\ NoCall \in Outcome
          /\ Leave(t, NoCall) /\ UNCHANGED <<managerVars, cacheVars, indicator>>
      BY <1>12 DEF FunctionThrows, LookupThrows, At, NoCall, Outcome
    <2>2. /\ LockDiscipline' /\ StackType' /\ lastCall' \in [Threads -> Outcome]
          /\ mutexOwner' \in Threads \cup {NoThread} /\ lockCount' \in 0..MaxDepth
      BY <1>l, <2>1
    <2> QED BY <1>t, <2>1, <2>2 DEF managerVars, cacheVars, TypeOK
  <1>13. ASSUME NEW t \in Threads, EvictData(t) PROVE TypeOK' /\ LockDiscipline'
    <2>1. PICK a \in stored : /\ stored' = stored \ {a}
                              /\ dataKey' = [dataKey EXCEPT ![a] = NoKey]
                              /\ spaceTaken' = (spaceTaken - SizeOf[dataKey[a]]) % Word
      BY <1>13 DEF EvictData, RemoveData
    <2>2. spaceTaken' \in 0..(Word - 1)
      <3>1. dataKey[a] \in Keys
        BY DEF StoredInv
      <3> QED BY <2>1, <3>1, <1>s, WordType
    <2> QED BY <1>13, <2>1, <2>2
            DEF EvictData, managerVars, lockVars, TypeOK, LockDiscipline, At, Top
  <1>14. ASSUME NEW t \in Threads, SpaceMade(t) PROVE TypeOK' /\ LockDiscipline'
    <2>1. depth[t] > 0 /\ Top(t).pc = "makeSpace" /\ Top(t) \in Frame /\ UNCHANGED lockVars
      BY <1>14, <1>top DEF SpaceMade, At
    <2>2. LockDiscipline' /\ StackType'
      BY <1>14, <2>1, <1>s, GotoKeepsLock DEF SpaceMade, PCs, Frame
    <2> QED BY <1>14, <1>t, <2>2 DEF SpaceMade, managerVars, cacheVars, lockVars, TypeOK
  <1>15. ASSUME NEW t \in Threads, StoreData(t) PROVE TypeOK' /\ LockDiscipline'
    <2>1. depth[t] > 0 /\ Top(t).pc = "store" /\ Top(t) \in Frame /\ UNCHANGED lockVars
      BY <1>15, <1>top DEF StoreData, At
    <2>2. LockDiscipline' /\ StackType'
      BY <1>15, <2>1, <1>s, GotoKeepsLock DEF StoreData, PCs, Frame
    <2>3. Top(t).data \in Objects /\ Top(t).key \in Keys
      <3>1. depth[t] \in Levels /\ depth[t] <= depth[t]
        BY <2>1, <1>s, NestingAssumption DEF StackType, Levels
      <3> QED BY <2>1, <3>1 DEF FrameInv, Top
    <2>4. spaceTaken' \in 0..(Word - 1)
      BY <1>15, <2>3, <1>s, WordType DEF StoreData
    <2> QED BY <1>15, <1>t, <2>2, <2>3, <2>4 DEF StoreData, managerVars, lockVars, TypeOK
  <1>16. ASSUME NEW t \in Threads, ReturnStored(t) PROVE TypeOK' /\ LockDiscipline'
    <2>1. depth[t] > 0 /\ Top(t).pc = "hit" /\ Top(t) \in Frame
      BY <1>16, <1>top DEF ReturnStored, At
    <2>2. [key |-> Top(t).key, stored |-> TRUE] \in Outcome
      BY <2>1 DEF Outcome, Frame
    <2>3. /\ LockDiscipline' /\ StackType' /\ lastCall' \in [Threads -> Outcome]
          /\ mutexOwner' \in Threads \cup {NoThread} /\ lockCount' \in 0..MaxDepth
      BY <1>16, <1>l, <2>1, <2>2 DEF ReturnStored
    <2>4. indicator' \in [Threads -> BOOLEAN]
      BY <1>16, <1>i DEF ReturnStored
    <2> QED BY <1>16, <1>t, <2>3, <2>4 DEF ReturnStored, managerVars, cacheVars, TypeOK
  <1>ot. ASSUME NEW t \in Threads, OutputThrows(t) PROVE TypeOK' /\ LockDiscipline'
    <2>1. depth[t] > 0 /\ Top(t).pc = "hit" /\ Top(t) \in Frame /\ NoCall \in Outcome
      BY <1>ot, <1>top DEF OutputThrows, At, NoCall, Outcome
    <2>2. /\ LockDiscipline' /\ StackType' /\ lastCall' \in [Threads -> Outcome]
          /\ mutexOwner' \in Threads \cup {NoThread} /\ lockCount' \in 0..MaxDepth
      BY <1>ot, <1>l, <2>1 DEF OutputThrows
    <2>3. indicator' \in [Threads -> BOOLEAN]
      BY <1>ot, <1>i DEF OutputThrows
    <2> QED BY <1>ot, <1>t, <2>2, <2>3 DEF OutputThrows, managerVars, cacheVars, TypeOK
  <1>17. ASSUME NEW t \in Threads, ReadOutcome(t) PROVE TypeOK' /\ LockDiscipline'
    <2>1. NoCall \in Outcome
      BY DEF NoCall, Outcome
    <2> QED BY <1>17, <2>1
            DEF ReadOutcome, TypeOK, managerVars, cacheVars, lockVars, LockDiscipline, At, Top
  <1>18. CASE UNCHANGED vars
    BY <1>18 DEF vars, cacheVars, lockVars, managerVars, TypeOK, LockDiscipline, At, Top
  <1> QED
    BY <1>1, <1>2, <1>3, <1>4, <1>5, <1>6, <1>7, <1>8, <1>9, <1>10, <1>11, <1>12,
       <1>13, <1>14, <1>15, <1>16, <1>ot, <1>17, <1>18 DEF Next, Internal, FunctionEnds


-----------------------------------------------------------------------------
(* What is stored, and what the calls in progress know about it.           *)

\* Only the owner of the mutex has frames past the locker, and of these only
\* the top one is not in the user's function.
LEMMA OwnerAlone ==
    ASSUME StackType, LockDiscipline, NEW t \in Threads,
           depth[t] > 0, Top(t).pc \notin {"idle", "lock"}
    PROVE  /\ depth[t] \in Levels
           /\ \A u \in Threads, i \in Levels :
                 /\ u # t => stack[u][i].pc \in {"idle", "lock"}
                 /\ u = t /\ i < depth[t] => stack[u][i].pc = "run"
                 /\ u = t /\ i > depth[t] => stack[u][i].pc = "idle"
  <1>1. depth[t] \in Levels
    BY NestingAssumption DEF StackType, Levels
  <1> QED BY <1>1 DEF LockDiscipline, Top

\* A step that rewrites the top frame keeps the frames apart from each other, if
\* the frame it leaves is consistent with what is stored.
LEMMA GotoKeepsFrames ==
    ASSUME StackType, FrameInv, NestInv, NEW t \in Threads, depth[t] > 0,
           NEW pc \in PCs, NEW data \in Objects \cup {NoObject}, Goto(t, pc, data),
           IF pc \in {"idle", "lock", "lookup"} THEN data = NoObject ELSE data \in Objects,
           pc \in {"makeSpace", "store"} => dataKey'[data] = Top(t).key,
           \A i \in Levels : i < depth[t] => stack[t][i].data # data,
           \A u \in Threads, i \in Levels :
               (u # t \/ i # depth[t]) /\ stack[u][i].pc \in {"makeSpace", "store"} =>
                   dataKey'[stack[u][i].data] = dataKey[stack[u][i].data]
    PROVE  FrameInv' /\ NestInv'
  <1>1. /\ depth' = depth
        /\ depth[t] \in Levels
        /\ stack'[t][depth[t]].pc = pc
        /\ stack'[t][depth[t]].key = stack[t][depth[t]].key
        /\ stack'[t][depth[t]].data = data
        /\ \A u \in Threads, i \in Levels :
              u # t \/ i # depth[t] => stack'[u][i] = stack[u][i]
    BY GotoEffect
  <1>d. depth \in [Threads -> Nat] /\ Levels \subseteq Nat
    BY NestingAssumption DEF StackType, Levels
  <1>2. FrameInv'
    <2> SUFFICES ASSUME NEW u \in Threads, NEW i \in Levels
                 PROVE  LET fr == stack'[u][i] IN
                        /\ i <= depth'[u] => fr.key \in Keys
                        /\ IF fr.pc \in {"idle", "lock", "lookup"} THEN fr.data = NoObject
                                                                  ELSE fr.data \in Objects
                        /\ fr.pc \in {"makeSpace", "store"} => dataKey'[fr.data] = fr.key
      BY DEF FrameInv
    <2>1. CASE u = t /\ i = depth[t]
      BY <1>1, <1>d, <2>1 DEF FrameInv, Top
    <2>2. CASE u # t \/ i # depth[t]
      BY <1>1, <2>2 DEF FrameInv
    <2> QED BY <2>1, <2>2
  <1>3. NestInv'
    <2> SUFFICES ASSUME NEW u \in Threads, NEW i \in Levels, NEW j \in Levels,
                        i < j, j <= depth'[u]
                 PROVE  /\ Rank[stack'[u][j].key] < Rank[stack'[u][i].key]
                        /\ stack'[u][i].data # stack'[u][j].data
      BY DEF NestInv
    <2>1. CASE u = t /\ j = depth[t]
      BY <1>1, <1>d, <2>1 DEF NestInv
    <2>2. CASE u = t /\ j # depth[t]
      BY <1>1, <1>d, <2>2 DEF NestInv
    <2>3. CASE u # t
      BY <1>1, <2>3 DEF NestInv
    <2> QED BY <2>1, <2>2, <2>3
  <1> QED BY <1>2, <1>3

\* A step that pushes a call on smaller inputs keeps them apart too.
LEMMA PushKeepsFrames ==
    ASSUME StackType, FrameInv, NestInv, LockDiscipline, NEW t \in Threads, NEW k \in Keys,
           depth[t] < MaxDepth, depth[t] = 0 \/ (At(t, "run") /\ <<Top(t).key, k>> \in Calls),
           Push(t, k), dataKey' = dataKey
    PROVE  FrameInv' /\ NestInv'
  <1>1. /\ depth[t] + 1 \in Levels
        /\ depth'[t] = depth[t] + 1
        /\ \A u \in Threads : u # t => depth'[u] = depth[u]
        /\ stack'[t][depth[t] + 1].pc = "lock"
        /\ stack'[t][depth[t] + 1].key = k
        /\ stack'[t][depth[t] + 1].data = NoObject
        /\ \A u \in Threads, i \in Levels :
              u # t \/ i # depth[t] + 1 => stack'[u][i] = stack[u][i]
    BY PushEffect
  <1>d. depth \in [Threads -> Nat] /\ Levels \subseteq Nat /\ Rank \in [Keys -> Int]
    BY NestingAssumption DEF StackType, Levels
  <1>2. FrameInv'
    <2> SUFFICES ASSUME NEW u \in Threads, NEW i \in Levels
                 PROVE  LET fr == stack'[u][i] IN
                        /\ i <= depth'[u] => fr.key \in Keys
                        /\ IF fr.pc \in {"idle", "lock", "lookup"} THEN fr.data = NoObject
                                                                  ELSE fr.data \in Objects
                        /\ fr.pc \in {"makeSpace", "store"} => dataKey'[fr.data] = fr.key
      BY DEF FrameInv
    <2>1. CASE u = t /\ i = depth[t] + 1
      BY <1>1, <1>d, <2>1
    <2>2. CASE u # t \/ i # depth[t] + 1
      <3>1. stack'[u][i] = stack[u][i]
        BY <1>1, <2>2
      <3>2. i <= depth'[u] => i <= depth[u]
        BY <1>1, <1>d, <2>2
      <3> QED BY <3>1, <3>2 DEF FrameInv
    <2> QED BY <2>1, <2>2
  <1>3. ASSUME NEW i \in Levels, i < depth[t] + 1
        PROVE  Rank[k] < Rank[stack[t][i].key] /\ stack[t][i].data # NoObject
    <2>1. At(t, "run") /\ Rank[k] < Rank[stack[t][depth[t]].key]
      BY <1>3, <1>d, NestingAssumption DEF Levels, Top
    <2>2. depth[t] \in Levels /\ stack[t][depth[t]].key \in Keys
      <3>1. depth[t] \in 1..MaxDepth /\ depth[t] <= depth[t]
        BY <2>1, NestingAssumption DEF StackType, At
      <3>2. depth[t] \in Levels
        BY <3>1 DEF Levels
      <3> QED BY <3>1, <3>2 DEF FrameInv
    <2>3. stack[t][i].pc = "run" /\ stack[t][i].key \in Keys
      <3>1. i <= depth[t] /\ (i < depth[t] \/ i = depth[t])
        BY <1>3, <1>d
      <3>2. stack[t][i].pc = "run"
        BY <2>1, <3>1 DEF LockDiscipline, At, Top
      <3> QED BY <3>1, <3>2 DEF FrameInv
    <2>4. stack[t][i].data # NoObject
      BY <2>3, KeyAssumption DEF FrameInv
    <2>5. Rank[stack[t][depth[t]].key] <= Rank[stack[t][i].key]
      <3>1. CASE i = depth[t]
        BY <3>1, <1>d, <2>2
      <3>2. CASE i < depth[t]
        <4>1. depth[t] <= depth[t]
          BY <1>d
        <4>2. Rank[stack[t][depth[t]].key] < Rank[stack[t][i].key]
          BY <3>2, <4>1, <2>2 DEF NestInv
        <4> QED BY <4>2, <1>d, <2>2, <2>3
      <3> QED BY <3>1, <3>2, <1>3, <1>d
    <2> QED BY <1>d, <2>1, <2>2, <2>3, <2>4, <2>5
  <1>4. NestInv'
    <2> SUFFICES ASSUME NEW u \in Threads, NEW i \in Levels, NEW j \in Levels,
                        i < j, j <= depth'[u]
                 PROVE  /\ Rank[stack'[u][j].key] < Rank[stack'[u][i].key]
                        /\ stack'[u][i].data # stack'[u][j].data
      BY DEF NestInv
    <2>1. CASE u = t /\ j = depth[t] + 1
      BY <1>1, <1>3, <1>d, <2>1
    <2>2. CASE u = t /\ j # depth[t] + 1
      <3>1. j <= depth[t] /\ i # depth[t] + 1
        BY <1>1, <1>d, <2>2
      <3>2. stack'[u][i] = stack[t][i] /\ stack'[u][j] = stack[t][j]
        BY <1>1, <2>2, <3>1
      <3> QED BY <2>2, <3>1, <3>2 DEF NestInv
    <2>3. CASE u # t
      BY <1>1, <2>3 DEF NestInv
    <2> QED BY <2>1, <2>2, <2>3
  <1> QED BY <1>2, <1>4

\* So does a step that leaves a call.
LEMMA PopKeepsFrames ==
    ASSUME StackType, FrameInv, NestInv, NEW t \in Threads, depth[t] > 0,
           Pop(t), dataKey' = dataKey
    PROVE  FrameInv' /\ NestInv'
  <1>1. /\ depth[t] \in Levels
        /\ depth'[t] = depth[t] - 1
        /\ \A u \in Threads : u # t => depth'[u] = depth[u]
        /\ stack'[t][depth[t]].pc = "idle"
        /\ stack'[t][depth[t]].data = NoObject
        /\ \A u \in Threads, i \in Levels :
              u # t \/ i # depth[t] => stack'[u][i] = stack[u][i]
    BY PopEffect
  <1>d. depth \in [Threads -> Nat] /\ Levels \subseteq Nat
    BY NestingAssumption DEF StackType, Levels
  <1>2. FrameInv'
    <2> SUFFICES ASSUME NEW u \in Threads, NEW i \in Levels
                 PROVE  LET fr == stack'[u][i] IN
                        /\ i <= depth'[u] => fr.key \in Keys
                        /\ IF fr.pc \in {"idle", "lock", "lookup"} THEN fr.data = NoObject
                                                                  ELSE fr.data \in Objects
                        /\ fr.pc \in {"makeSpace", "store"} => dataKey'[fr.data] = fr.key
      BY DEF FrameInv
    <2>1. CASE u = t /\ i = depth[t]
      BY <1>1, <1>d, <2>1
    <2>2. CASE u # t \/ i # depth[t]
      BY <1>1, <1>d, <2>2 DEF FrameInv
    <2> QED BY <2>1, <2>2
  <1>3. NestInv'
    BY <1>1, <1>d DEF NestInv
  <1> QED BY <1>2, <1>3

\* Every step keeps what the calls in progress know about the stored data: the
\* object of a miss is its own, no equal inputs appear meanwhile, and the object
\* of a hit stays stored.
LEMMA DataInvStep == LockInv /\ DataInv /\ [Next]_vars => DataInv'
  <1> SUFFICES ASSUME TypeOK, LockDiscipline, FrameInv, NestInv, StoredInv,
                      MissStillValid, AnswerStored, UniqueEntries, [Next]_vars
               PROVE  /\ FrameInv' /\ NestInv' /\ StoredInv'
                      /\ MissStillValid' /\ AnswerStored' /\ UniqueEntries'
    BY DEF DataInv, LockInv
  <1>n. ASSUME depth' = depth, stack' = stack PROVE NestInv'
    BY <1>n DEF NestInv
  <1>s. StackType /\ stored \subseteq Objects /\ dataKey \in [Objects -> Keys \cup {NoKey}]
    BY DEF TypeOK, StackType
  <1>d. /\ depth \in [Threads -> Nat] /\ Levels \subseteq Nat /\ NoObject \notin Objects
        /\ \A t \in Threads : depth[t] > 0 => depth[t] \in Levels
    BY <1>s, NestingAssumption, KeyAssumption DEF StackType, Levels
  <1> USE <1>s, <1>d
  \* The top frame of the owner, and the frames below it.
  <1>o. ASSUME NEW t \in Threads, depth[t] > 0, Top(t).pc \notin {"idle", "lock"}
        PROVE  /\ Top(t).key \in Keys
               /\ Top(t).pc # "lookup" => Top(t).data \in Objects
               /\ \A u \in Threads, i \in Levels :
                     /\ u # t => stack[u][i].pc \in {"idle", "lock"}
                     /\ u = t /\ i < depth[t] => /\ stack[u][i].pc = "run"
                                                 /\ stack[u][i].key # Top(t).key
                                                 /\ stack[u][i].data \in Objects
                                                 /\ stack[u][i].data # Top(t).data
                     /\ u = t /\ i > depth[t] => stack[u][i].pc = "idle"
    <2>1. depth[t] \in Levels /\ depth[t] <= depth[t]
      BY <1>o
    <2>2. /\ Top(t).key \in Keys
          /\ Top(t).pc # "lookup" => Top(t).data \in Objects
      BY <1>o, <2>1 DEF FrameInv, Top
    <2>3. \A u \in Threads, i \in Levels :
              /\ u # t => stack[u][i].pc \in {"idle", "lock"}
              /\ u = t /\ i < depth[t] => stack[u][i].pc = "run"
              /\ u = t /\ i > depth[t] => stack[u][i].pc = "idle"
      BY <1>o, OwnerAlone
    <2>4. ASSUME NEW i \in Levels, i < depth[t]
          PROVE  /\ stack[t][i].key # Top(t).key
                 /\ stack[t][i].data \in Objects
                 /\ stack[t][i].data # Top(t).data
      <3>1. /\ Rank[Top(t).key] < Rank[stack[t][i].key]
            /\ stack[t][i].data # Top(t).data
        BY <2>1, <2>4 DEF NestInv, Top
      <3>2. stack[t][i].pc = "run" /\ stack[t][i].key \in Keys /\ Rank \in [Keys -> Int]
        BY <2>3, <2>4, NestingAssumption DEF FrameInv
      <3> QED BY <2>2, <3>1, <3>2 DEF FrameInv
    <2> QED BY <2>2, <2>3, <2>4
  \* A top frame rewritten while the stored data stay as they are.
  <1>g. ASSUME NEW t \in Threads, depth[t] > 0, Top(t).pc # "idle",
               NEW pc \in PCs, NEW data \in Objects \cup {NoObject},
               Goto(t, pc, data), stored' = stored, dataKey' = dataKey,
               pc \in {"run", "makeSpace", "store"} =>
                   \A a \in stored : dataKey[a] # Top(t).key /\ a # data,
               pc = "hit" => data \in stored /\ dataKey[data] = Top(t).key
        PROVE  StoredInv' /\ MissStillValid' /\ AnswerStored' /\ UniqueEntries'
    <2>1. /\ stack'[t][depth[t]].pc = pc
          /\ stack'[t][depth[t]].key = Top(t).key
          /\ stack'[t][depth[t]].data = data
          /\ \A u \in Threads, i \in Levels :
                u # t \/ i # depth[t] => stack'[u][i] = stack[u][i]
      BY <1>g, GotoEffect DEF Top
    <2>2. MissStillValid'
      BY <1>g, <2>1 DEF MissStillValid
    <2>3. AnswerStored'
      BY <1>g, <2>1 DEF AnswerStored
    <2> QED BY <1>g, <2>2, <2>3 DEF StoredInv, UniqueEntries
  \* A call entered or left while the stored data stay as they are.
  <1>p. ASSUME StackType', stored' = stored, dataKey' = dataKey,
               \A u \in Threads, i \in Levels :
                   stack'[u][i] = stack[u][i] \/ stack'[u][i].pc \in {"idle", "lock"}
        PROVE  StoredInv' /\ MissStillValid' /\ AnswerStored' /\ UniqueEntries'
    <2>1. MissStillValid'
      BY <1>p DEF MissStillValid
    <2>2. AnswerStored'
      BY <1>p DEF AnswerStored
    <2> QED BY <1>p, <2>1, <2>2 DEF StoredInv, UniqueEntries
  <1>q. ASSUME NEW t \in Threads, depth[t] > 0, Pop(t), stored' = stored, dataKey' = dataKey
        PROVE  /\ FrameInv' /\ NestInv' /\ StoredInv'
               /\ MissStillValid' /\ AnswerStored' /\ UniqueEntries'
    <2>1. FrameInv' /\ NestInv'
      BY <1>q, PopKeepsFrames
    <2>2. /\ StackType'
          /\ \A u \in Threads, i \in Levels :
                stack'[u][i] = stack[u][i] \/ stack'[u][i].pc \in {"idle", "lock"}
      BY <1>q, PopEffect
    <2> QED BY <1>p, <1>q, <2>1, <2>2
  <1>r. ASSUME NEW t \in Threads, NEW k \in Keys, depth[t] < MaxDepth,
               depth[t] = 0 \/ (At(t, "run") /\ <<Top(t).key, k>> \in Calls),
               Push(t, k), stored' = stored, dataKey' = dataKey
        PROVE  /\ FrameInv' /\ NestInv' /\ StoredInv'
               /\ MissStillValid' /\ AnswerStored' /\ UniqueEntries'
    <2>1. FrameInv' /\ NestInv'
      BY <1>r, PushKeepsFrames
    <2>2. /\ StackType'
          /\ \A u \in Threads, i \in Levels :
                stack'[u][i] = stack[u][i] \/ stack'[u][i].pc \in {"idle", "lock"}
      BY <1>r, PushEffect
    <2> QED BY <1>p, <1>r, <2>1, <2>2
  \* Steps that touch neither stacks nor data.
  <1>u. ASSUME UNCHANGED <<depth, stack, stored, dataKey>>
        PROVE  /\ FrameInv' /\ NestInv' /\ StoredInv'
               /\ MissStillValid' /\ AnswerStored' /\ UniqueEntries'
    BY <1>u DEF FrameInv, NestInv, StoredInv, MissStillValid, AnswerStored, UniqueEntries
  <1>1. CASE CreateManager
    BY <1>1, <1>u DEF CreateManager
  <1>2. CASE DestroyManager
    <2>1. \A t \in Threads, i \in Levels : stack[t][i].pc = "idle"
      BY <1>2 DEF DestroyManager, LockDiscipline, Levels
    <2>2. stored' = {} /\ stack' = stack /\ depth' = depth
      BY <1>2 DEF DestroyManager
    <2> QED BY <2>1, <2>2 DEF FrameInv, NestInv, StoredInv, MissStillValid,
                              AnswerStored, UniqueEntries
  <1>3. ASSUME NEW f \in Functions, CreateCachedFunction(f)
        PROVE  UNCHANGED <<depth, stack, stored, dataKey>>
    BY <1>3 DEF CreateCachedFunction, cacheVars
  <1>si. ASSUME NEW t \in Threads, NEW f \in Functions, SetDataInCacheIndicator(t, f)
         PROVE  UNCHANGED <<depth, stack, stored, dataKey>>
    BY <1>si DEF SetDataInCacheIndicator, cacheVars
  <1>4. ASSUME NEW t \in Threads, NEW k \in Keys, Call(t, k)
        PROVE  /\ FrameInv' /\ NestInv' /\ StoredInv'
               /\ MissStillValid' /\ AnswerStored' /\ UniqueEntries'
    <2>1. /\ depth[t] = 0 /\ depth[t] < MaxDepth /\ Push(t, k)
          /\ stored' = stored /\ dataKey' = dataKey
      BY <1>4, NestingAssumption DEF Call, cacheVars
    <2> QED BY <2>1, <1>r
  <1>5. ASSUME NEW t \in Threads, NEW k \in Keys, NestedCall(t, k)
        PROVE  /\ FrameInv' /\ NestInv' /\ StoredInv'
               /\ MissStillValid' /\ AnswerStored' /\ UniqueEntries'
    BY <1>5, <1>r DEF NestedCall, cacheVars
  <1>6. ASSUME NEW t \in Threads, Lock(t)
        PROVE  /\ FrameInv' /\ NestInv' /\ StoredInv'
               /\ MissStillValid' /\ AnswerStored' /\ UniqueEntries'
    <2>1. /\ At(t, "lock") /\ depth[t] > 0 /\ Goto(t, "lookup", NoObject)
          /\ stored' = stored /\ dataKey' = dataKey
      BY <1>6 DEF Lock, At, cacheVars
    <2>2. "lookup" \in PCs
      BY DEF PCs
    <2>3. StoredInv' /\ MissStillValid' /\ AnswerStored' /\ UniqueEntries'
      <3>1. Top(t).pc = "lock"
        BY <2>1 DEF At
      <3>2. /\ Top(t).pc # "idle" /\ "lookup" \notin {"run", "makeSpace", "store"}
            /\ "lookup" # "hit" /\ NoObject \in Objects \cup {NoObject}
        BY <3>1
      <3> QED BY <2>1, <2>2, <3>2, <1>g
    <2>4. ASSUME NEW i \in Levels, i < depth[t] PROVE stack[t][i].data # NoObject
      <3>1. stack[t][i].pc = "run"
        BY <2>4 DEF LockDiscipline
      <3> QED BY <3>1 DEF FrameInv
    <2>5. FrameInv' /\ NestInv'
      BY <2>1, <2>2, <2>4, GotoKeepsFrames
    <2> QED BY <2>3, <2>5
  <1>7. ASSUME NEW t \in Threads, LookupHit(t)
        PROVE  /\ FrameInv' /\ NestInv' /\ StoredInv'
               /\ MissStillValid' /\ AnswerStored' /\ UniqueEntries'
    <2>1. /\ depth[t] > 0 /\ Top(t).pc = "lookup"
          /\ stored' = stored /\ dataKey' = dataKey
      BY <1>7 DEF LookupHit, At, cacheVars
    <2>2. PICK a \in stored : dataKey[a] = Top(t).key /\ Goto(t, "hit", a)
      BY <1>7 DEF LookupHit, DataEquals
    <2>3. "hit" \in PCs
      BY DEF PCs
    <2>4. StoredInv' /\ MissStillValid' /\ AnswerStored' /\ UniqueEntries'
      BY <2>1, <2>2, <2>3, <1>g
    <2>5. ASSUME NEW i \in Levels, i < depth[t] PROVE stack[t][i].data # a
      BY <2>1, <2>5, <1>o DEF MissStillValid
    <2>6. FrameInv' /\ NestInv'
      BY <2>1, <2>2, <2>3, <2>5, GotoKeepsFrames
    <2> QED BY <2>4, <2>6
  <1>8. ASSUME NEW t \in Threads, LookupMiss(t)
        PROVE  /\ FrameInv' /\ NestInv' /\ StoredInv'
               /\ MissStillValid' /\ AnswerStored' /\ UniqueEntries'
    <2>1. /\ depth[t] > 0 /\ Top(t).pc = "lookup"
          /\ stored' = stored /\ dataKey' = dataKey
          /\ \A a \in stored : dataKey[a] # Top(t).key
      BY <1>8 DEF LookupMiss, DataEquals, At, cacheVars
    <2>2. PICK a \in Objects \ (stored \cup Held) : Goto(t, "run", a)
      BY <1>8 DEF LookupMiss
    <2>3. "run" \in PCs
      BY DEF PCs
    <2>4. StoredInv' /\ MissStillValid' /\ AnswerStored' /\ UniqueEntries'
      <3>1. \A b \in stored : dataKey[b] # Top(t).key /\ b # a
        BY <2>1, <2>2
      <3>2. a \in Objects \cup {NoObject} /\ Top(t).pc # "idle" /\ "run" # "hit"
        BY <2>1, <2>2
      <3> QED BY <2>1, <2>2, <2>3, <3>1, <3>2, <1>g
    <2>5. ASSUME NEW i \in Levels PROVE stack[t][i].data # a
      <3>1. stack[t][i].data \in {stack[u][j].data : u \in Threads, j \in Levels}
        OBVIOUS
      <3> QED BY <2>2, <3>1 DEF Held
    <2>6. FrameInv' /\ NestInv'
      BY <2>1, <2>2, <2>3, <2>5, GotoKeepsFrames
    <2> QED BY <2>4, <2>6
  <1>9. ASSUME NEW t \in Threads,
               \/ ReturnUncached(t) \/ FunctionThrows(t) \/ LookupThrows(t)
               \/ ReturnStored(t) \/ OutputThrows(t)
        PROVE  /\ FrameInv' /\ NestInv' /\ StoredInv'
               /\ MissStillValid' /\ AnswerStored' /\ UniqueEntries'
    BY <1>9, <1>q
       DEF ReturnUncached, FunctionThrows, LookupThrows, ReturnStored, OutputThrows,
           Leave, At, cacheVars
  <1>10. ASSUME NEW t \in Threads, FillData(t)
         PROVE  /\ FrameInv' /\ NestInv' /\ StoredInv'
                /\ MissStillValid' /\ AnswerStored' /\ UniqueEntries'
    <2>1. /\ depth[t] > 0 /\ Top(t).pc = "run" /\ stored' = stored
          /\ dataKey' = [dataKey EXCEPT ![Top(t).data] = Top(t).key]
      BY <1>10 DEF FillData, At
    <2>2. PICK pc \in {"store", "makeSpace"} : Goto(t, pc, Top(t).data)
      BY <1>10 DEF FillData
    <2>3. Top(t).data \in Objects /\ pc \in PCs
      BY <2>1, <1>o DEF PCs
    <2>4. /\ dataKey'[Top(t).data] = Top(t).key
          /\ \A a \in Objects : a # Top(t).data => dataKey'[a] = dataKey[a]
      BY <2>1, <2>3
    <2>5. \A a \in stored : a # Top(t).data /\ dataKey[a] # Top(t).key
      BY <2>1 DEF MissStillValid, Top
    <2>6. FrameInv' /\ NestInv'
      <3>1. \A i \in Levels : i < depth[t] => stack[t][i].data # Top(t).data
        BY <2>1, <1>o
      <3>2. ASSUME NEW u \in Threads, NEW i \in Levels, u # t \/ i # depth[t]
            PROVE  stack[u][i].pc \notin {"makeSpace", "store"}
        BY <2>1, <3>2, <1>o
      <3>3. /\ Top(t).data \in Objects \cup {NoObject}
            /\ pc \notin {"idle", "lock", "lookup"}
            /\ pc \in {"makeSpace", "store"} => dataKey'[Top(t).data] = Top(t).key
        BY <2>2, <2>3, <2>4
      <3>4. \A u \in Threads, i \in Levels :
               (u # t \/ i # depth[t]) /\ stack[u][i].pc \in {"makeSpace", "store"} =>
                   dataKey'[stack[u][i].data] = dataKey[stack[u][i].data]
        BY <3>2
      <3> QED BY <2>1, <2>2, <2>3, <3>1, <3>3, <3>4, GotoKeepsFrames
    <2>7. /\ stack'[t][depth[t]].pc = pc
          /\ stack'[t][depth[t]].key = Top(t).key
          /\ stack'[t][depth[t]].data = Top(t).data
          /\ \A u \in Threads, i \in Levels :
                u # t \/ i # depth[t] => stack'[u][i] = stack[u][i]
      <3>1. Top(t).data \in Objects \cup {NoObject}
        BY <2>3
      <3>2. /\ stack'[t][depth[t]].pc = pc
            /\ stack'[t][depth[t]].key = stack[t][depth[t]].key
            /\ stack'[t][depth[t]].data = Top(t).data
            /\ \A u \in Threads, i \in Levels :
                  u # t \/ i # depth[t] => stack'[u][i] = stack[u][i]
        BY <2>1, <2>2, <2>3, <3>1, GotoEffect
      <3> QED BY <3>2 DEF Top
    <2>8. MissStillValid'
      BY <2>1, <2>4, <2>5, <2>7 DEF MissStillValid
    <2>9. AnswerStored'
      BY <2>1, <2>2, <2>4, <2>5, <2>7 DEF AnswerStored
    <2> QED BY <2>1, <2>4, <2>5, <2>6, <2>8, <2>9 DEF StoredInv, UniqueEntries
  <1>11. ASSUME NEW t \in Threads, EvictData(t)
         PROVE  /\ FrameInv' /\ NestInv' /\ StoredInv'
                /\ MissStillValid' /\ AnswerStored' /\ UniqueEntries'
    <2>1. /\ depth[t] > 0 /\ Top(t).pc = "makeSpace" /\ depth' = depth /\ stack' = stack
      BY <1>11 DEF EvictData, At, RemoveData
    <2>2. PICK a \in stored : /\ stored' = stored \ {a}
                              /\ dataKey' = [dataKey EXCEPT ![a] = NoKey]
      BY <1>11 DEF EvictData, RemoveData
    <2>3. \A b \in Objects : b # a => dataKey'[b] = dataKey[b]
      BY <2>2
    <2>4. ASSUME NEW u \in Threads, NEW i \in Levels
          PROVE  /\ stack[u][i].pc # "hit"
                 /\ stack[u][i].pc \in {"makeSpace", "store"} => stack[u][i].data # a
      BY <2>1, <2>2, <1>o DEF MissStillValid, Top
    <2>5. FrameInv'
      BY <2>1, <2>3, <2>4 DEF FrameInv
    <2>6. MissStillValid'
      BY <2>1, <2>2, <2>3 DEF MissStillValid
    <2>7. AnswerStored'
      BY <2>1, <2>4 DEF AnswerStored
    <2>8. NestInv'
      BY <2>1, <1>n
    <2>9. \A b \in stored' : b \in stored /\ dataKey'[b] = dataKey[b]
      BY <2>2, <2>3
    <2>10. StoredInv' /\ UniqueEntries'
      BY <2>9 DEF StoredInv, UniqueEntries
    <2> QED BY <2>5, <2>6, <2>7, <2>8, <2>10
  <1>12. ASSUME NEW t \in Threads, SpaceMade(t)
         PROVE  /\ FrameInv' /\ NestInv' /\ StoredInv'
                /\ MissStillValid' /\ AnswerStored' /\ UniqueEntries'
    <2>1. /\ depth[t] > 0 /\ Top(t).pc = "makeSpace" /\ Goto(t, "store", Top(t).data)
          /\ stored' = stored /\ dataKey' = dataKey
      BY <1>12 DEF SpaceMade, At, cacheVars
    <2>2. Top(t).data \in Objects /\ "store" \in PCs
      BY <2>1, <1>o DEF PCs
    <2>3. \A a \in stored : a # Top(t).data /\ dataKey[a] # Top(t).key
      BY <2>1 DEF MissStillValid, Top
    <2>4. dataKey[Top(t).data] = Top(t).key
      BY <2>1 DEF FrameInv, Top
    <2>5. \A i \in Levels : i < depth[t] => stack[t][i].data # Top(t).data
      BY <2>1, <1>o
    <2>6. FrameInv' /\ NestInv'
      BY <2>1, <2>2, <2>4, <2>5, GotoKeepsFrames
    <2> QED BY <2>1, <2>2, <2>3, <2>6, <1>g
  <1>13. ASSUME NEW t \in Threads, StoreData(t)
         PROVE  /\ FrameInv' /\ NestInv' /\ StoredInv'
                /\ MissStillValid' /\ AnswerStored' /\ UniqueEntries'
    <2>1. /\ depth[t] > 0 /\ Top(t).pc = "store" /\ Goto(t, "hit", Top(t).data)
          /\ stored' = stored \cup {Top(t).data} /\ dataKey' = dataKey
      BY <1>13 DEF StoreData, At
    <2>2. Top(t).data \in Objects /\ Top(t).key \in Keys /\ "hit" \in PCs
      BY <2>1, <1>o DEF PCs
    <2>3. \A a \in stored : a # Top(t).data /\ dataKey[a] # Top(t).key
      BY <2>1 DEF MissStillValid, Top
    <2>4. dataKey[Top(t).data] = Top(t).key
      BY <2>1 DEF FrameInv, Top
    <2>5. \A i \in Levels : i < depth[t] => stack[t][i].data # Top(t).data
      BY <2>1, <1>o
    <2>6. FrameInv' /\ NestInv'
      BY <2>1, <2>2, <2>4, <2>5, GotoKeepsFrames
    <2>7. /\ stack'[t][depth[t]].pc = "hit"
          /\ stack'[t][depth[t]].key = Top(t).key
          /\ stack'[t][depth[t]].data = Top(t).data
          /\ \A u \in Threads, i \in Levels :
                u # t \/ i # depth[t] => stack'[u][i] = stack[u][i]
      BY <2>1, <2>2, GotoEffect DEF Top
    <2>8. MissStillValid'
      BY <2>1, <2>4, <2>7, <1>o DEF MissStillValid
    <2>9. AnswerStored'
      BY <2>1, <2>4, <2>7 DEF AnswerStored
    <2> QED BY <2>1, <2>2, <2>3, <2>4, <2>6, <2>8, <2>9 DEF StoredInv, UniqueEntries
  <1>14. ASSUME NEW t \in Threads, ReadOutcome(t)
         PROVE  UNCHANGED <<depth, stack, stored, dataKey>>
    BY <1>14 DEF ReadOutcome, cacheVars
  <1>15. CASE UNCHANGED vars
    BY <1>15, <1>u DEF vars
  <1> QED
    BY <1>1, <1>2, <1>3, <1>si, <1>4, <1>5, <1>6, <1>7, <1>8, <1>9, <1>10, <1>11, <1>12,
       <1>13, <1>14, <1>15, <1>u DEF Next, Internal, FunctionEnds

-----------------------------------------------------------------------------
(* Space.                                                                  *)

\* The bytes of a set of objects whose keys are given by dk.
BytesIn(S, dk) == {b \in S \X (1..(Word - 1)) : b[2] <= SizeOf[dk[b[1]]]}

\* An object adds its size to the space of the others.
LEMMA BytesAdd ==
    ASSUME NEW S \in SUBSET Objects, NEW a \in Objects, a \notin S,
           NEW dk, dk[a] \in Keys
    PROVE  /\ Cardinality(BytesIn(S, dk)) \in Nat
           /\ Cardinality(BytesIn(S \cup {a}, dk)) =
                 Cardinality(BytesIn(S, dk)) + SizeOf[dk[a]]
  <1> DEFINE n == SizeOf[dk[a]]
             new == {a} \X (1..n)
  <1>1. n \in 0..(Word - 1) /\ Word - 1 \in Int /\ n \in Nat
    BY SizeAssumption
  <1>2. IsFiniteSet(BytesIn(S, dk)) /\ Cardinality(BytesIn(S, dk)) \in Nat
    <2>1. IsFiniteSet(S) /\ IsFiniteSet(1..(Word - 1))
      BY <1>1, ObjectAssumption, FS_Subset, FS_Interval
    <2>2. IsFiniteSet(S \X (1..(Word - 1)))
      BY <2>1, FS_Product
    <2>3. BytesIn(S, dk) \in SUBSET (S \X (1..(Word - 1)))
      BY DEF BytesIn
    <2> HIDE DEF BytesIn
    <2> QED BY <2>2, <2>3, FS_Subset, FS_CardinalityType
  <1>a. new = {a} \X (1..n)
    OBVIOUS
  <1>m. n = SizeOf[dk[a]]
    OBVIOUS
  <1> HIDE DEF n, new
  <1>3. IsFiniteSet(new) /\ Cardinality(new) = n
    <2>1. IsFiniteSet({a}) /\ Cardinality({a}) = 1
      BY FS_Singleton
    <2>2. IsFiniteSet(1..n) /\ Cardinality(1..n) = n
      <3>1. n \in Int /\ 1 \in Int
        BY <1>1
      <3>2. IsFiniteSet(1..n) /\ Cardinality(1..n) = IF 1 > n THEN 0 ELSE n - 1 + 1
        BY <3>1, FS_Interval
      <3> QED BY <1>1, <3>2
    <2>3. /\ IsFiniteSet({a} \X (1..n))
          /\ Cardinality({a} \X (1..n)) = Cardinality({a}) * Cardinality(1..n)
      BY <2>1, <2>2, FS_Product
    <2>4. Cardinality({a}) * Cardinality(1..n) = 1 * n
      BY <2>1, <2>2
    <2> QED BY <1>1, <1>a, <2>3, <2>4
  <1>4. BytesIn(S \cup {a}, dk) = BytesIn(S, dk) \cup new
    <2>1. ASSUME NEW b \in BytesIn(S \cup {a}, dk) PROVE b \in BytesIn(S, dk) \cup new
      BY <2>1, <1>1, <1>a, <1>m DEF BytesIn
    <2>2. ASSUME NEW b \in BytesIn(S, dk) PROVE b \in BytesIn(S \cup {a}, dk)
      BY <2>2 DEF BytesIn
    <2>3. ASSUME NEW b \in new PROVE b \in BytesIn(S \cup {a}, dk)
      BY <2>3, <1>1, <1>a, <1>m DEF BytesIn
    <2> QED BY <2>1, <2>2, <2>3
  <1>5. BytesIn(S, dk) \cap new = {}
    BY <1>a DEF BytesIn
  <1>6. Cardinality(BytesIn(S, dk) \cup new) = Cardinality(BytesIn(S, dk)) + n
    <2>1. Cardinality(BytesIn(S, dk) \cup new) =
             Cardinality(BytesIn(S, dk)) + Cardinality(new)
                 - Cardinality(BytesIn(S, dk) \cap new)
      BY <1>2, <1>3, FS_Union
    <2>2. Cardinality(BytesIn(S, dk) \cap new) = 0
      BY <1>5, FS_EmptySet
    <2> QED BY <1>1, <1>2, <1>3, <2>1, <2>2
  <1> QED BY <1>2, <1>4, <1>6, <1>m

\* Only the keys of the stored objects matter.
LEMMA BytesSame ==
    ASSUME NEW S, NEW dk, NEW dl, \A a \in S : dk[a] = dl[a]
    PROVE  BytesIn(S, dk) = BytesIn(S, dl)
  BY DEF BytesIn

\* Nothing occupies no bytes.
LEMMA BytesNone == \A dk : Cardinality(BytesIn({}, dk)) = 0
  <1> TAKE dk
  <1>1. BytesIn({}, dk) = {}
    BY DEF BytesIn
  <1> QED BY <1>1, FS_EmptySet

\* BytesOf is BytesIn for the keys the objects hold now.
LEMMA BytesOfStored == \A S : BytesOf(S) = BytesIn(S, dataKey)
  BY DEF BytesOf, BytesIn

\* Nothing is stored and nobody calls while there is no manager.
LEMMA DeadInvStep == LockInv /\ DeadInv /\ [Next]_vars => DeadInv'
  <1> SUFFICES ASSUME StackType, DeadInv, [Next]_vars PROVE DeadInv'
    BY DEF LockInv, TypeOK, StackType
  <1>d. depth \in [Threads -> Nat]
    BY NestingAssumption DEF StackType
  <1>1. ASSUME NEW t \in Threads, Lock(t) \/ Internal(t) \/ FunctionEnds(t)
        PROVE  alive' = alive /\ depth[t] > 0
    BY <1>1 DEF Lock, Internal, FunctionEnds, LookupHit, LookupMiss, EvictData, SpaceMade,
       StoreData, ReturnStored, OutputThrows, ReturnUncached, FillData, FunctionThrows,
       LookupThrows, At, managerVars
  <1>2. ASSUME NEW t \in Threads, NEW k \in Keys, Call(t, k) \/ NestedCall(t, k)
        PROVE  alive' = alive /\ cachedFunctions # {}
    BY <1>2 DEF Call, NestedCall, managerVars
  <1>3. ASSUME NEW f \in Functions, CreateCachedFunction(f)
        PROVE  alive' = alive /\ (alive \/ cachedFunctions # {})
    BY <1>3 DEF CreateCachedFunction
  <1>si. ASSUME NEW t \in Threads, NEW f \in Functions, SetDataInCacheIndicator(t, f)
         PROVE  alive' = alive /\ (alive \/ cachedFunctions # {})
    BY <1>si DEF SetDataInCacheIndicator
  <1>4. ASSUME NEW t \in Threads, ReadOutcome(t)
        PROVE  UNCHANGED <<alive, cachedFunctions, stored, depth>>
    BY <1>4 DEF ReadOutcome, managerVars, cacheVars
  <1>5. CASE CreateManager
    BY <1>5 DEF CreateManager, DeadInv
  <1>6. CASE DestroyManager
    BY <1>6 DEF DestroyManager, DeadInv
  <1>7. CASE UNCHANGED vars
    BY <1>7 DEF vars, DeadInv, cacheVars
  <1>8. ASSUME alive' = alive, alive PROVE DeadInv'
    BY <1>8 DEF DeadInv
  <1>9. ASSUME UNCHANGED <<alive, cachedFunctions, stored, depth>> PROVE DeadInv'
    BY <1>9 DEF DeadInv
  <1>10. ASSUME NEW t \in Threads, depth[t] > 0 PROVE alive
    BY <1>10, <1>d DEF DeadInv
  <1>11. cachedFunctions # {} => alive
    BY DEF DeadInv
  <1> QED
    BY <1>1, <1>2, <1>3, <1>si, <1>4, <1>5, <1>6, <1>7, <1>8, <1>9, <1>10, <1>11 DEF Next

\* The count follows the stored data, and never passes the capacity.
LEMMA SpaceInvStep == LockInv /\ DataInv /\ SpaceInv /\ DeadInv /\ [Next]_vars => SpaceInv'
  <1> SUFFICES ASSUME TypeOK, LockDiscipline, DataInv, DeadInv,
                      SpaceAccounting, spaceTaken <= Capacity, RoomInv, [Next]_vars
               PROVE  SpaceAccounting' /\ (spaceTaken <= Capacity)' /\ RoomInv'
    BY DEF LockInv, SpaceInv
  <1>s. StackType /\ stored \in SUBSET Objects /\ dataKey \in [Objects -> Keys \cup {NoKey}]
    BY DEF TypeOK, StackType
  <1>n. /\ spaceTaken \in Nat /\ Capacity \in Nat /\ Word \in Nat
        /\ 2 * Capacity < Word /\ SizeOf \in [Keys -> Nat]
    BY SizeAssumption DEF TypeOK
  <1>c. spaceTaken = Cardinality(BytesIn(stored, dataKey))
    BY BytesOfStored DEF SpaceAccounting
  <1>o. ASSUME NEW t \in Threads, depth[t] > 0, Top(t).pc \notin {"idle", "lock", "lookup"}
        PROVE  /\ depth[t] \in Levels
               /\ Top(t).key \in Keys /\ Top(t).data \in Objects
               /\ \A u \in Threads, i \in Levels :
                     u # t \/ i # depth[t] => stack[u][i].pc \in {"idle", "lock", "run"}
    <2>1. depth[t] \in Levels /\ depth[t] <= depth[t]
      BY <1>o, <1>s, NestingAssumption DEF StackType, Levels
    <2>2. Top(t).key \in Keys /\ Top(t).data \in Objects
      BY <1>o, <2>1 DEF DataInv, FrameInv, Top
    <2>3. \A u \in Threads, i \in Levels :
              /\ u # t => stack[u][i].pc \in {"idle", "lock"}
              /\ u = t /\ i < depth[t] => stack[u][i].pc = "run"
              /\ u = t /\ i > depth[t] => stack[u][i].pc = "idle"
      BY <1>o, <1>s, OwnerAlone
    <2>4. ASSUME NEW u \in Threads, NEW i \in Levels, u # t \/ i # depth[t]
          PROVE  stack[u][i].pc \in {"idle", "lock", "run"}
      <3>1. i < depth[t] \/ i = depth[t] \/ i > depth[t]
        BY <2>1 DEF Levels
      <3> QED BY <2>3, <2>4, <3>1
    <2> QED BY <2>1, <2>2, <2>4
  \* Steps that leave the data alone and no frame that needs more room than before.
  <1>k. ASSUME UNCHANGED cacheVars,
               \A u \in Threads, i \in Levels :
                   \/ stack'[u][i] = stack[u][i]
                   \/ stack'[u][i].pc \notin {"makeSpace", "store"}
        PROVE  SpaceAccounting' /\ (spaceTaken <= Capacity)' /\ RoomInv'
    <2>1. SpaceAccounting' /\ (spaceTaken <= Capacity)'
      BY <1>k DEF cacheVars, SpaceAccounting, BytesOf
    <2>2. RoomInv'
      BY <1>k DEF cacheVars, RoomInv
    <2> QED BY <2>1, <2>2
  <1>g. ASSUME NEW t \in Threads, depth[t] > 0, NEW pc \in PCs \ {"makeSpace", "store"},
               NEW data \in Objects \cup {NoObject}, Goto(t, pc, data)
        PROVE  \A u \in Threads, i \in Levels :
                   \/ stack'[u][i] = stack[u][i]
                   \/ stack'[u][i].pc \notin {"makeSpace", "store"}
    BY <1>g, <1>s, GotoEffect
  <1>1. CASE CreateManager
    <2>1. /\ stored = {} /\ stored' = {} /\ spaceTaken' = 0
          /\ stack' = stack /\ \A t \in Threads : depth[t] = 0
      BY <1>1 DEF CreateManager, DeadInv
    <2>2. SpaceAccounting'
      BY <2>1, BytesNone DEF SpaceAccounting, BytesOf, BytesIn
    <2>3. \A t \in Threads, i \in Levels : stack[t][i].pc = "idle"
      BY <2>1 DEF LockDiscipline, Levels
    <2> QED BY <1>n, <2>1, <2>2, <2>3 DEF RoomInv
  <1>2. CASE DestroyManager
    <2>1. /\ stored' = {} /\ spaceTaken' = 0
          /\ stack' = stack /\ \A t \in Threads : depth[t] = 0
      BY <1>2 DEF DestroyManager
    <2>2. SpaceAccounting'
      BY <2>1, BytesNone DEF SpaceAccounting, BytesOf, BytesIn
    <2>3. \A t \in Threads, i \in Levels : stack[t][i].pc = "idle"
      BY <2>1 DEF LockDiscipline, Levels
    <2> QED BY <1>n, <2>1, <2>2, <2>3 DEF RoomInv
  <1>3. ASSUME NEW f \in Functions, CreateCachedFunction(f)
        PROVE  UNCHANGED cacheVars /\ stack' = stack
    BY <1>3 DEF CreateCachedFunction
  <1>si. ASSUME NEW t \in Threads, NEW f \in Functions, SetDataInCacheIndicator(t, f)
         PROVE  UNCHANGED cacheVars /\ stack' = stack
    BY <1>si DEF SetDataInCacheIndicator
  <1>4. ASSUME NEW t \in Threads, NEW k \in Keys, Call(t, k) \/ NestedCall(t, k)
        PROVE  SpaceAccounting' /\ (spaceTaken <= Capacity)' /\ RoomInv'
    <2>1. depth[t] < MaxDepth /\ Push(t, k) /\ UNCHANGED cacheVars
      BY <1>4, NestingAssumption DEF Call, NestedCall
    <2>2. \A u \in Threads, i \in Levels :
              \/ stack'[u][i] = stack[u][i]
              \/ stack'[u][i].pc \notin {"makeSpace", "store"}
      BY <2>1, <1>s, PushEffect
    <2> QED BY <2>1, <2>2, <1>k
  <1>5. ASSUME NEW t \in Threads, Lock(t) \/ LookupHit(t) \/ LookupMiss(t)
        PROVE  SpaceAccounting' /\ (spaceTaken <= Capacity)' /\ RoomInv'
    <2>1. depth[t] > 0 /\ UNCHANGED cacheVars
      BY <1>5 DEF Lock, LookupHit, LookupMiss, At
    <2>2. PICK pc \in PCs \ {"makeSpace", "store"}, data \in Objects \cup {NoObject} :
              Goto(t, pc, data)
      BY <1>5, <1>s DEF Lock, LookupHit, LookupMiss, PCs
    <2> QED BY <2>1, <2>2, <1>g, <1>k
  <1>6. ASSUME NEW t \in Threads,
               \/ ReturnUncached(t) \/ FunctionThrows(t) \/ LookupThrows(t)
               \/ ReturnStored(t) \/ OutputThrows(t)
        PROVE  SpaceAccounting' /\ (spaceTaken <= Capacity)' /\ RoomInv'
    <2>1. depth[t] > 0 /\ Pop(t) /\ UNCHANGED cacheVars
      BY <1>6 DEF ReturnUncached, FunctionThrows, LookupThrows, ReturnStored, OutputThrows,
                  Leave, At
    <2>2. \A u \in Threads, i \in Levels :
              \/ stack'[u][i] = stack[u][i]
              \/ stack'[u][i].pc \notin {"makeSpace", "store"}
      BY <2>1, <1>s, PopEffect
    <2> QED BY <2>1, <2>2, <1>k
  <1>7. ASSUME NEW t \in Threads, FillData(t)
        PROVE  SpaceAccounting' /\ (spaceTaken <= Capacity)' /\ RoomInv'
    <2>1. /\ depth[t] > 0 /\ Top(t).pc = "run" /\ stored' = stored /\ spaceTaken' = spaceTaken
          /\ dataKey' = [dataKey EXCEPT ![Top(t).data] = Top(t).key]
          /\ SizeOf[Top(t).key] <= Capacity
      BY <1>7, <1>n, <1>o DEF FillData, At, NotWorthStoring
    <2>2. /\ Top(t).data \in Objects /\ Top(t).key \in Keys /\ depth[t] \in Levels
          /\ SizeOf[Top(t).key] \in Nat
      BY <2>1, <1>o, <1>n
    <2>3. Top(t).data \notin stored
      BY <2>1, <2>2 DEF DataInv, MissStillValid, Top
    <2>4. \A a \in stored : dataKey'[a] = dataKey[a]
      BY <2>1, <2>3, <1>s
    <2>5. SpaceAccounting'
      <3>1. BytesIn(stored, dataKey') = BytesIn(stored, dataKey)
        BY <2>4, BytesSame
      <3>2. BytesOf(stored)' = BytesIn(stored, dataKey')
        BY <2>1 DEF BytesOf, BytesIn
      <3> QED BY <2>1, <3>1, <3>2, <1>c DEF SpaceAccounting
    <2>6. RoomInv'
      <3>1. CheckSpace(SizeOf[Top(t).key]) => spaceTaken + SizeOf[Top(t).key] <= Capacity
        <4>1. spaceTaken + SizeOf[Top(t).key] \in 0..(Word - 1)
          BY <2>1, <2>2, <1>n
        <4> QED BY <4>1, WordSmall DEF CheckSpace
      <3>2. PICK pc \in {"store", "makeSpace"} :
                /\ Goto(t, pc, Top(t).data)
                /\ pc = "store" => CheckSpace(SizeOf[Top(t).key])
        BY <1>7 DEF FillData
      <3>3. /\ stack'[t][depth[t]].pc = pc
            /\ stack'[t][depth[t]].key = stack[t][depth[t]].key
            /\ \A u \in Threads, i \in Levels :
                  u # t \/ i # depth[t] => stack'[u][i] = stack[u][i]
        <4>1. pc \in PCs /\ Top(t).data \in Objects \cup {NoObject}
          BY <2>2 DEF PCs
        <4> QED BY <4>1, <2>1, <3>2, <1>s, GotoEffect
      <3> QED BY <2>1, <3>1, <3>2, <3>3, <1>o DEF RoomInv, Top
    <2> QED BY <2>1, <2>5, <2>6
  <1>8. ASSUME NEW t \in Threads, EvictData(t)
        PROVE  SpaceAccounting' /\ (spaceTaken <= Capacity)' /\ RoomInv'
    <2>1. depth[t] > 0 /\ Top(t).pc = "makeSpace" /\ stack' = stack
      BY <1>8 DEF EvictData, At, RemoveData
    <2>2. PICK a \in stored : /\ stored' = stored \ {a}
                              /\ dataKey' = [dataKey EXCEPT ![a] = NoKey]
                              /\ spaceTaken' = (spaceTaken - SizeOf[dataKey[a]]) % Word
      BY <1>8 DEF EvictData, RemoveData
    <2>3. a \in Objects /\ dataKey[a] \in Keys /\ SizeOf[dataKey[a]] \in Nat
      BY <1>s, <1>n DEF DataInv, StoredInv
    <2>4. /\ Cardinality(BytesIn(stored \ {a}, dataKey)) \in Nat
          /\ spaceTaken = Cardinality(BytesIn(stored \ {a}, dataKey)) + SizeOf[dataKey[a]]
      <3>1. stored \ {a} \in SUBSET Objects /\ a \notin stored \ {a}
        BY <1>s
      <3>2. (stored \ {a}) \cup {a} = stored
        OBVIOUS
      <3> QED BY <1>c, <2>3, <3>1, <3>2, BytesAdd
    <2>5. spaceTaken' = Cardinality(BytesIn(stored \ {a}, dataKey)) /\ spaceTaken' <= Capacity
      <3>1. spaceTaken - SizeOf[dataKey[a]] = Cardinality(BytesIn(stored \ {a}, dataKey))
        BY <2>3, <2>4, <1>n
      <3>2. Cardinality(BytesIn(stored \ {a}, dataKey)) \in 0..(Word - 1)
        BY <2>3, <2>4, <1>n
      <3>3. Cardinality(BytesIn(stored \ {a}, dataKey)) <= Capacity
        BY <2>3, <2>4, <1>n
      <3> QED BY <2>2, <3>1, <3>2, <3>3, WordSmall
    <2>6. SpaceAccounting'
      <3>1. \A b \in stored \ {a} : dataKey'[b] = dataKey[b]
        BY <2>2, <1>s
      <3>2. BytesIn(stored \ {a}, dataKey') = BytesIn(stored \ {a}, dataKey)
        BY <3>1, BytesSame
      <3>3. BytesOf(stored)' = BytesIn(stored \ {a}, dataKey')
        BY <2>2 DEF BytesOf, BytesIn
      <3> QED BY <2>5, <3>2, <3>3 DEF SpaceAccounting
    <2>7. \A u \in Threads, i \in Levels : stack[u][i].pc # "store"
      BY <2>1, <1>o DEF Top
    <2> QED BY <2>1, <2>5, <2>6, <2>7 DEF RoomInv
  <1>9. ASSUME NEW t \in Threads, SpaceMade(t)
        PROVE  SpaceAccounting' /\ (spaceTaken <= Capacity)' /\ RoomInv'
    <2>1. /\ depth[t] > 0 /\ Top(t).pc = "makeSpace" /\ UNCHANGED cacheVars
          /\ ~MustEvict(SizeOf[Top(t).key]) /\ Goto(t, "store", Top(t).data)
      BY <1>9 DEF SpaceMade, At
    <2>2. /\ Top(t).data \in Objects \cup {NoObject} /\ depth[t] \in Levels
          /\ Top(t).key \in Keys /\ SizeOf[Top(t).key] \in Nat /\ "store" \in PCs
      BY <2>1, <1>o, <1>n DEF PCs
    <2>3. spaceTaken + SizeOf[Top(t).key] <= Capacity
      <3>1. Capacity - spaceTaken \in 0..(Word - 1)
        BY <1>n
      <3>2. (Capacity - spaceTaken) % Word = Capacity - spaceTaken
        BY <3>1, WordSmall
      <3> QED BY <2>1, <2>2, <3>1, <3>2, <1>n DEF MustEvict
    <2>4. /\ stack'[t][depth[t]].pc = "store"
          /\ stack'[t][depth[t]].key = stack[t][depth[t]].key
          /\ \A u \in Threads, i \in Levels :
                u # t \/ i # depth[t] => stack'[u][i] = stack[u][i]
      BY <2>1, <2>2, <1>s, GotoEffect
    <2>5. spaceTaken' = spaceTaken /\ stored' = stored /\ dataKey' = dataKey
      BY <2>1 DEF cacheVars
    <2>6. RoomInv'
      <3>1. SizeOf[Top(t).key] <= Capacity
        BY <2>2, <2>3, <1>n
      <3> QED BY <2>3, <2>4, <2>5, <3>1 DEF RoomInv, Top
    <2>7. SpaceAccounting'
      BY <2>5 DEF SpaceAccounting, BytesOf
    <2> QED BY <2>5, <2>6, <2>7
  <1>10. ASSUME NEW t \in Threads, StoreData(t)
         PROVE  SpaceAccounting' /\ (spaceTaken <= Capacity)' /\ RoomInv'
    <2>1. /\ depth[t] > 0 /\ Top(t).pc = "store"
          /\ stored' = stored \cup {Top(t).data} /\ dataKey' = dataKey
          /\ spaceTaken' = (spaceTaken + SizeOf[Top(t).key]) % Word
          /\ Goto(t, "hit", Top(t).data)
      BY <1>10 DEF StoreData, At
    <2>2. /\ Top(t).data \in Objects /\ depth[t] \in Levels
          /\ Top(t).key \in Keys /\ SizeOf[Top(t).key] \in Nat /\ "hit" \in PCs
      BY <2>1, <1>o, <1>n DEF PCs
    <2>3. Top(t).data \notin stored /\ dataKey[Top(t).data] = Top(t).key
      BY <2>1, <2>2 DEF DataInv, MissStillValid, FrameInv, Top
    <2>4. spaceTaken' = spaceTaken + SizeOf[Top(t).key] /\ spaceTaken' <= Capacity
      <3>1. spaceTaken + SizeOf[Top(t).key] <= Capacity
        BY <2>1, <2>2 DEF RoomInv, Top
      <3>2. spaceTaken + SizeOf[Top(t).key] \in 0..(Word - 1)
        BY <3>1, <2>2, <1>n
      <3> QED BY <2>1, <3>1, <3>2, WordSmall
    <2>5. SpaceAccounting'
      <3>1. Cardinality(BytesIn(stored \cup {Top(t).data}, dataKey)) =
               Cardinality(BytesIn(stored, dataKey)) + SizeOf[dataKey[Top(t).data]]
        BY <1>s, <2>2, <2>3, BytesAdd
      <3>2. BytesOf(stored)' = BytesIn(stored \cup {Top(t).data}, dataKey)
        BY <2>1 DEF BytesOf, BytesIn
      <3> QED BY <1>c, <2>3, <2>4, <3>1, <3>2 DEF SpaceAccounting
    <2>6. /\ stack'[t][depth[t]].pc = "hit"
          /\ \A u \in Threads, i \in Levels :
                u # t \/ i # depth[t] => stack'[u][i] = stack[u][i]
      BY <2>1, <2>2, <1>s, GotoEffect
    <2>7. RoomInv'
      BY <2>1, <2>6, <1>o DEF RoomInv
    <2> QED BY <2>4, <2>5, <2>7
  <1>11. ASSUME NEW t \in Threads, ReadOutcome(t)
         PROVE  UNCHANGED cacheVars /\ stack' = stack
    BY <1>11 DEF ReadOutcome
  <1>12. CASE UNCHANGED vars
    BY <1>12, <1>k DEF vars, cacheVars
  <1> QED
    BY <1>1, <1>2, <1>3, <1>si, <1>4, <1>5, <1>6, <1>7, <1>8, <1>9, <1>10, <1>11, <1>12, <1>k
    DEF Next, Internal, FunctionEnds

-----------------------------------------------------------------------------
(* The theorems.                                                           *)

Inv == LockInv /\ DataInv /\ SpaceInv /\ DeadInv

\* The inductive invariant holds initially ...
LEMMA InvInit == Init => Inv
  <1> SUFFICES ASSUME Init PROVE Inv
    OBVIOUS
  <1>1. LockInv
    BY LockInvInit
  <1>2. \A t \in Threads : depth[t] = 0 /\ \A i \in Levels : stack[t][i] = Idle
    BY DEF Init
  <1>3. Levels \subseteq Nat \ {0}
    BY NestingAssumption DEF Levels
  <1>4. DataInv
    BY <1>2, <1>3 DEF Init, DataInv, FrameInv, NestInv, StoredInv, MissStillValid,
                      AnswerStored, UniqueEntries, Idle
  <1>5. SpaceInv
    BY <1>2, BytesNone, SizeAssumption
       DEF Init, SpaceInv, SpaceAccounting, RoomInv, BytesOf, BytesIn, Idle
  <1>6. DeadInv
    BY DEF Init, DeadInv
  <1> QED BY <1>1, <1>4, <1>5, <1>6 DEF Inv

\* ... and every step keeps it: the parts are proved in the order in which each
\* needs the ones before it.
LEMMA InvStep == Inv /\ [Next]_vars => Inv'
  BY LockInvStep, DataInvStep, SpaceInvStep, DeadInvStep DEF Inv, DataInv

\* The inductive invariant: types, mutex discipline, frames and stored data,
\* space, and the emptiness of what a destroyed manager leaves.
THEOREM Invariance == Spec => []Inv
  BY InvInit, InvStep, PTL DEF Spec

\* Every variable keeps its type in every reachable state.
THEOREM TypeCorrect == Spec => []TypeOK
  <1>1. Inv => TypeOK
    BY DEF Inv, LockInv
  <1> QED BY <1>1, Invariance, PTL

\* The recursive mutex is held by the one thread that is past the locker, once
\* for each of its calls that are, whichever way calls end.
THEOREM MutexCorrect == Spec => []LockDiscipline
  <1>1. Inv => LockDiscipline
    BY DEF Inv, LockInv
  <1> QED BY <1>1, Invariance, PTL

\* The manager's count of bytes is the size of what is stored.
THEOREM SpaceAccounted == Spec => []SpaceAccounting
  <1>1. Inv => SpaceAccounting
    BY DEF Inv, SpaceInv
  <1> QED BY <1>1, Invariance, PTL

\* What is stored never exceeds the capacity.
THEOREM CapacityRespected == Spec => []WithinCapacity
  <1>1. Inv => WithinCapacity
    BY DEF Inv, SpaceInv, SpaceAccounting, WithinCapacity
  <1> QED BY <1>1, Invariance, PTL

\* makeSpace always finds an object to evict while it needs one.
THEOREM EvictionPossible == Spec => []CandidateExists
  <1>1. Inv => CandidateExists
    <2> SUFFICES ASSUME Inv, NEW t \in Threads, At(t, "makeSpace"), stored = {}
                 PROVE  ~MustEvict(SizeOf[Top(t).key])
      BY DEF CandidateExists
    <2>1. spaceTaken = 0
      BY BytesNone DEF Inv, SpaceInv, SpaceAccounting, BytesOf, BytesIn
    <2>2. depth[t] \in Levels /\ depth[t] <= depth[t] /\ Top(t).pc = "makeSpace"
      BY NestingAssumption DEF Inv, LockInv, TypeOK, At, Levels
    <2>3. Top(t).key \in Keys /\ SizeOf[Top(t).key] <= Capacity
      BY <2>2 DEF Inv, DataInv, FrameInv, SpaceInv, RoomInv, Top
    <2>4. (Capacity - 0) % Word = Capacity
      <3>1. Capacity - 0 = Capacity /\ Capacity \in 0..(Word - 1)
        BY SizeAssumption
      <3> QED BY <3>1, WordSmall
    <2> QED BY <2>1, <2>3, <2>4, SizeAssumption DEF MustEvict
  <1> QED BY <1>1, Invariance, PTL

\* Between a miss and the storing of its result nobody stores the same inputs.
THEOREM MissesStayMisses == Spec => []MissStillValid
  <1>1. Inv => MissStillValid
    BY DEF Inv, DataInv
  <1> QED BY <1>1, Invariance, PTL

\* No inputs are ever stored twice.
THEOREM EntriesUnique == Spec => []UniqueEntries
  <1>1. Inv => UniqueEntries
    BY DEF Inv, DataInv
  <1> QED BY <1>1, Invariance, PTL

\* A call answers from an object that is stored and holds its own inputs.
THEOREM AnswersStored == Spec => []AnswerStored
  <1>1. Inv => AnswerStored
    BY DEF Inv, DataInv
  <1> QED BY <1>1, Invariance, PTL

-----------------------------------------------------------------------------
(* The manager implements MemoCache: every step of the manager and its calls *)
(* is a step of the abstract cache, or one that it does not see.             *)

\* The refinement mapping: the keys of the stored objects, those on the stacks.
Contents == {dataKey[a] : a \in stored}
Pending == [t \in Threads |-> {stack[t][i].key : i \in 1..depth[t]}]

\* The parts of the invariant that the refinement uses.
LEMMA InvParts ==
    ASSUME Inv
    PROVE  /\ StackType /\ LockDiscipline /\ FrameInv /\ NestInv /\ StoredInv
           /\ MissStillValid /\ AnswerStored /\ UniqueEntries /\ SpaceInv
           /\ stored \in SUBSET Objects
           /\ dataKey \in [Objects -> Keys \cup {NoKey}]
           /\ lastCall \in [Threads -> Outcome]
           /\ depth \in [Threads -> Nat] /\ Levels \subseteq Nat
           /\ \A t \in Threads : depth[t] > 0 => depth[t] \in Levels
  BY NestingAssumption DEF Inv, LockInv, DataInv, TypeOK, StackType, Levels

-----------------------------------------------------------------------------
(* Pending calls.                                                          *)

\* A call that is entered adds its key, and only its key, to those pending.
LEMMA PushPends ==
    ASSUME StackType, NEW t \in Threads, depth[t] < MaxDepth, NEW k \in Keys, Push(t, k)
    PROVE  Pending' = [Pending EXCEPT ![t] = @ \cup {k}]
  <1>1. /\ depth[t] + 1 \in Levels /\ depth'[t] = depth[t] + 1
        /\ \A u \in Threads : u # t => depth'[u] = depth[u]
        /\ stack'[t][depth[t] + 1].key = k
        /\ \A u \in Threads, i \in Levels :
              u # t \/ i # depth[t] + 1 => stack'[u][i] = stack[u][i]
    BY PushEffect
  <1>2. \A u \in Threads : depth[u] \in Nat /\ 1..depth[u] \subseteq Levels
    BY NestingAssumption DEF StackType, Levels
  <1>3. ASSUME NEW u \in Threads, u # t
        PROVE  {stack'[u][i].key : i \in 1..depth'[u]} = {stack[u][i].key : i \in 1..depth[u]}
    BY <1>1, <1>2, <1>3
  <1>4. {stack'[t][i].key : i \in 1..depth'[t]} = {stack[t][i].key : i \in 1..depth[t]} \cup {k}
    <2>1. 1..depth'[t] = 1..depth[t] \cup {depth[t] + 1}
      BY <1>1, <1>2
    <2>2. \A i \in 1..depth[t] : i # depth[t] + 1 /\ stack'[t][i] = stack[t][i]
      BY <1>1, <1>2
    <2> QED
      BY <1>1, <2>1, <2>2
  <1> QED
    BY <1>3, <1>4 DEF Pending

\* The keys on a stack differ, so a call that is left takes its key, and only its
\* key, from those pending; it was the only one if it was the outermost.
LEMMA PopPends ==
    ASSUME Inv, NEW t \in Threads, depth[t] > 0, Pop(t)
    PROVE  /\ Top(t).key \in Keys
           /\ Top(t).key \in Pending[t]
           /\ Pending' = [Pending EXCEPT ![t] = @ \ {Top(t).key}]
           /\ Pending[t] = {Top(t).key} <=> depth[t] = 1
  <1>1. /\ depth[t] \in Levels /\ depth'[t] = depth[t] - 1
        /\ \A u \in Threads : u # t => depth'[u] = depth[u]
        /\ \A u \in Threads, i \in Levels :
              u # t \/ i # depth[t] => stack'[u][i] = stack[u][i]
    BY InvParts, PopEffect
  <1>2. \A u \in Threads : depth[u] \in Nat /\ 1..depth[u] \subseteq Levels
    BY InvParts, NestingAssumption DEF StackType, Levels
  <1>3. ASSUME NEW i \in 1..(depth[t] - 1)
        PROVE  stack[t][i].key # Top(t).key
    <2>1. i \in Levels /\ i < depth[t] /\ depth[t] <= depth[t]
      BY <1>1, <1>2
    <2>2. Rank[Top(t).key] < Rank[stack[t][i].key] /\ Top(t).key \in Keys
      BY <1>1, <2>1, InvParts DEF NestInv, FrameInv, Top
    <2> QED
      BY <2>2, NestingAssumption
  <1>4. ASSUME NEW u \in Threads, u # t
        PROVE  {stack'[u][i].key : i \in 1..depth'[u]} = {stack[u][i].key : i \in 1..depth[u]}
    BY <1>1, <1>2, <1>4
  <1>5. Pending[t] = {stack[t][i].key : i \in 1..(depth[t] - 1)} \cup {Top(t).key}
    <2>1. 1..depth[t] = 1..(depth[t] - 1) \cup {depth[t]}
      BY <1>1, <1>2
    <2> QED
      BY <2>1 DEF Pending, Top
  <1>6. {stack'[t][i].key : i \in 1..depth'[t]} = {stack[t][i].key : i \in 1..(depth[t] - 1)}
    BY <1>1, <1>2
  <1>7. {stack'[t][i].key : i \in 1..depth'[t]} = Pending[t] \ {Top(t).key}
    BY <1>3, <1>5, <1>6
  <1>8. Pending' = [Pending EXCEPT ![t] = @ \ {Top(t).key}]
    <2>1. Pending'[t] = Pending[t] \ {Top(t).key}
      BY <1>7 DEF Pending
    <2>2. \A u \in Threads : u # t => Pending'[u] = Pending[u]
      BY <1>4 DEF Pending
    <2>3. Pending = [u \in Threads |-> Pending[u]] /\ Pending' = [u \in Threads |-> Pending'[u]]
      BY DEF Pending
    <2> QED
      BY <2>1, <2>2, <2>3
  <1>9. Pending[t] = {Top(t).key} <=> depth[t] = 1
    <2>1. depth[t] # 1 => 1 \in 1..(depth[t] - 1)
      BY <1>1, <1>2
    <2>2. depth[t] = 1 => 1..(depth[t] - 1) = {}
      BY <1>1
    <2> QED
      BY <1>3, <1>5, <2>1, <2>2
  <1>10. Top(t).key \in Keys
    BY <1>1, <1>2, InvParts DEF FrameInv, Top
  <1> QED
    BY <1>5, <1>8, <1>9, <1>10

\* A rewritten top frame keeps its key.
LEMMA GotoPends ==
    ASSUME StackType, NEW t \in Threads, depth[t] > 0,
           NEW pc \in PCs, NEW data \in Objects \cup {NoObject}, Goto(t, pc, data)
    PROVE  Pending' = Pending
  <1>1. /\ depth' = depth
        /\ stack'[t][depth[t]].key = stack[t][depth[t]].key
        /\ \A u \in Threads, i \in Levels :
              u # t \/ i # depth[t] => stack'[u][i] = stack[u][i]
    BY GotoEffect
  <1>2. \A u \in Threads : depth[u] \in Nat /\ 1..depth[u] \subseteq Levels
    BY NestingAssumption DEF StackType, Levels
  <1>3. \A u \in Threads, i \in Levels : stack'[u][i].key = stack[u][i].key
    BY <1>1
  <1> QED
    BY <1>1, <1>2, <1>3 DEF Pending
-----------------------------------------------------------------------------
(* Bytes.                                                                  *)

\* MemoCache counts as the manager does.
LEMMA MemoCounts == \A S : Memo!Cardinality(S) = Cardinality(S)
  BY DEF Memo!Cardinality, Cardinality

\* A set of keys occupies as many bytes as objects that hold one of them each.
LEMMA BytesOfKeys ==
    ASSUME NEW S \in SUBSET Objects, \A a \in S : dataKey[a] \in Keys,
           \A a, b \in S : dataKey[a] = dataKey[b] => a = b
    PROVE  Cardinality(Memo!Bytes({dataKey[a] : a \in S})) = Cardinality(BytesIn(S, dataKey))
  <1> DEFINE B == BytesIn(S, dataKey)
             C == Memo!Bytes({dataKey[a] : a \in S})
             f == [b \in B |-> <<dataKey[b[1]], b[2]>>]
  <1>1. IsFiniteSet(B)
    <2>1. IsFiniteSet(S) /\ IsFiniteSet(1..(Word - 1))
      BY ObjectAssumption, SizeAssumption, FS_Subset, FS_Interval
    <2>2. IsFiniteSet(S \X (1..(Word - 1))) /\ B \in SUBSET (S \X (1..(Word - 1)))
      BY <2>1, FS_Product DEF BytesIn
    <2> QED
      BY <2>2, FS_Subset
  <1>2. f \in [B -> C]
    BY DEF BytesIn, Memo!Bytes
  <1>3. \A b, c \in B : f[b] = f[c] => b = c
    BY DEF BytesIn
  <1>4. ASSUME NEW c \in C PROVE \E b \in B : f[b] = c
    <2>1. PICK a \in S : c[1] = dataKey[a] /\ c = <<c[1], c[2]>>
                          /\ c[2] \in 1..(Word - 1) /\ c[2] <= SizeOf[c[1]]
      BY DEF Memo!Bytes
    <2>2. <<a, c[2]>> \in B
      BY <2>1 DEF BytesIn
    <2> QED
      BY <2>1, <2>2
  <1> HIDE DEF f, B, C
  <1>5. f \in Bijection(B, C)
    BY <1>2, <1>3, <1>4 DEF Bijection, Injection, Surjection, IsInjective
  <1> QED
    BY <1>1, <1>5, FS_Bijection DEF ExistsBijection, B, C

\* A call that makes space, or has made it, waits to store a key that fits an empty
\* cache, and would add its size to what is stored.
LEMMA RoomWanted ==
    ASSUME Inv, NEW t \in Threads, depth[t] > 0, Top(t).pc \in {"makeSpace", "store"}
    PROVE  /\ Top(t).key \in Pending[t] \ Contents
           /\ Top(t).key = dataKey[Top(t).data] /\ Top(t).data \in Objects \ stored
           /\ Memo!Fits({Top(t).key})
           /\ Memo!Fits(Contents \cup {Top(t).key})
                 <=> spaceTaken + SizeOf[Top(t).key] <= Capacity
  <1> DEFINE k == Top(t).key
             o == Top(t).data
  <1>1. depth[t] \in Levels /\ depth[t] <= depth[t]
    BY InvParts
  <1>2. k \in Keys /\ o \in Objects /\ dataKey[o] = k /\ SizeOf[k] <= Capacity
    BY <1>1, InvParts DEF FrameInv, SpaceInv, RoomInv, Top
  <1>3. \A a \in stored : dataKey[a] # k /\ a # o
    BY <1>1, InvParts DEF MissStillValid, Top
  <1>4. k \in Pending[t]
    BY <1>1, InvParts DEF Pending, Top
  <1>5. Memo!Fits({k})
    <2>1. {dataKey[a] : a \in {o}} = {k}
      BY <1>2
    <2>2. Cardinality(BytesIn({} \cup {o}, dataKey)) =
             Cardinality(BytesIn({}, dataKey)) + SizeOf[dataKey[o]]
      BY <1>2, BytesAdd
    <2>3. {} \cup {o} = {o} /\ SizeOf[k] \in Nat
      BY <1>2, SizeAssumption
    <2>4. Cardinality(Memo!Bytes({dataKey[a] : a \in {o}})) = Cardinality(BytesIn({o}, dataKey))
      BY <1>2, BytesOfKeys
    <2> QED
      BY <1>2, <2>1, <2>2, <2>3, <2>4, BytesNone, MemoCounts DEF Memo!Fits
  <1>6. Memo!Fits(Contents \cup {k}) <=> spaceTaken + SizeOf[k] <= Capacity
    <2>1. Contents \cup {k} = {dataKey[a] : a \in stored \cup {o}}
      BY <1>2 DEF Contents
    <2>2. /\ \A a \in stored \cup {o} : dataKey[a] \in Keys
          /\ \A a, b \in stored \cup {o} : dataKey[a] = dataKey[b] => a = b
      BY <1>2, <1>3, InvParts DEF StoredInv, UniqueEntries
    <2>3. Cardinality(Memo!Bytes(Contents \cup {k})) =
             Cardinality(BytesIn(stored \cup {o}, dataKey))
      BY <1>2, <2>1, <2>2, InvParts, BytesOfKeys
    <2>4. Cardinality(BytesIn(stored \cup {o}, dataKey)) =
             Cardinality(BytesIn(stored, dataKey)) + SizeOf[dataKey[o]]
      BY <1>2, <1>3, InvParts, BytesAdd
    <2>5. spaceTaken = Cardinality(BytesIn(stored, dataKey))
      BY InvParts, BytesOfStored DEF SpaceInv, SpaceAccounting
    <2> QED
      BY <1>2, <2>3, <2>4, <2>5, MemoCounts DEF Memo!Fits
  <1> QED
    BY <1>2, <1>3, <1>4, <1>5, <1>6 DEF Contents

-----------------------------------------------------------------------------
(* Steps.                                                                  *)

\* The mapping is the one of the instance Memo.
LEMMA MemoStep ==
    ASSUME NEW t \in Threads, NEW k \in Keys, NEW outcome
    PROVE  /\ Contents' = Contents /\ Pending' = Pending /\ lastCall' = lastCall
                 => UNCHANGED Memo!vars
           /\ Memo!Invoke(t, k) <=>
                 /\ k \notin Pending[t]
                 /\ Pending' = [Pending EXCEPT ![t] = @ \cup {k}]
                 /\ lastCall' = IF Pending[t] = {} THEN [lastCall EXCEPT ![t] = NoCall]
                                                   ELSE lastCall
                 /\ Contents' = Contents
           /\ Memo!Remember(t, k) <=>
                 /\ k \in Pending[t] \ Contents
                 /\ Memo!Fits(Contents \cup {k})
                 /\ Contents' = Contents \cup {k}
                 /\ Pending' = Pending /\ lastCall' = lastCall
           /\ Memo!Forget(k) <=>
                 /\ k \in Contents
                 /\ \E u \in Threads : \E p \in Pending[u] \ Contents :
                       Memo!Fits({p}) /\ ~Memo!Fits(Contents \cup {p})
                 /\ Contents' = Contents \ {k}
                 /\ Pending' = Pending /\ lastCall' = lastCall
           /\ Memo!Leave(t, k, outcome) <=>
                 /\ k \in Pending[t]
                 /\ Pending' = [Pending EXCEPT ![t] = @ \ {k}]
                 /\ lastCall' = IF Pending[t] = {k} THEN [lastCall EXCEPT ![t] = outcome]
                                                    ELSE lastCall
                 /\ Contents' = Contents
  BY DEF Contents, Pending, Memo!vars, Memo!Invoke, Memo!Remember, Memo!Forget, Memo!Leave,
         Memo!NoCall, NoCall

\* Every step of the manager is one of the abstract cache, or a stutter.
LEMMA RefinementStep == Inv /\ [Next]_vars => [Memo!Next]_(Memo!vars)
  <1> SUFFICES ASSUME Inv, [Next]_vars PROVE Memo!Next \/ UNCHANGED Memo!vars
    OBVIOUS
  <1> USE InvParts
  <1>a. ASSUME Contents' = Contents, Pending' = Pending, lastCall' = lastCall
        PROVE  UNCHANGED Memo!vars
    BY <1>a DEF Contents, Pending, Memo!vars
  <1>b. ASSUME UNCHANGED <<stored, dataKey, depth, stack, lastCall>>
        PROVE  UNCHANGED Memo!vars
    BY <1>b, <1>a DEF Contents, Pending
  \* What the program does with the manager.
  <1>1. CASE CreateManager \/ (\E f \in Functions : CreateCachedFunction(f))
             \/ (\E t \in Threads, f \in Functions : SetDataInCacheIndicator(t, f))
             \/ UNCHANGED vars
    BY <1>1, <1>b DEF CreateManager, CreateCachedFunction, SetDataInCacheIndicator, cacheVars, vars
  <1>2. CASE DestroyManager
    <2>1. Contents' = {} /\ Pending' = Pending /\ lastCall' = lastCall
      BY <1>2 DEF DestroyManager, Contents, Pending
    <2>2. \A t \in Threads : Pending[t] = {}
      BY <1>2 DEF DestroyManager, Pending
    <2> QED
      BY <2>1, <2>2 DEF Memo!Next, Memo!Clear, Contents, Pending
  <1>3. ASSUME NEW t \in Threads, ReadOutcome(t)
        PROVE  Memo!ReadOutcome(t)
    BY <1>3 DEF ReadOutcome, Memo!ReadOutcome, Memo!NoCall, NoCall, managerVars, cacheVars
  \* A call enters.
  <1>4. ASSUME NEW t \in Threads, NEW k \in Keys, Call(t, k)
        PROVE  Memo!Invoke(t, k)
    <2>1. /\ depth[t] = 0 /\ depth[t] < MaxDepth /\ Push(t, k)
          /\ lastCall' = [lastCall EXCEPT ![t] = NoCall]
          /\ Contents' = Contents
      BY <1>4, NestingAssumption DEF Call, cacheVars, Contents
    <2>2. Pending[t] = {}
      BY <2>1 DEF Pending
    <2>3. Pending' = [Pending EXCEPT ![t] = @ \cup {k}]
      BY <2>1, PushPends
    <2> QED
      BY <2>1, <2>2, <2>3, MemoStep
  <1>5. ASSUME NEW t \in Threads, NEW k \in Keys, NestedCall(t, k)
        PROVE  Memo!Invoke(t, k)
    <2>1. /\ depth[t] > 0 /\ depth[t] < MaxDepth /\ Push(t, k)
          /\ <<Top(t).key, k>> \in Calls
          /\ lastCall' = lastCall /\ Contents' = Contents
      BY <1>5 DEF NestedCall, At, cacheVars, Contents
    <2>2. Top(t).key \in Pending[t]
      BY <2>1 DEF Pending, Top
    <2>3. k \notin Pending[t]
      <3> SUFFICES ASSUME NEW i \in 1..depth[t] PROVE stack[t][i].key # k
        BY DEF Pending
      <3>1. /\ i \in Levels /\ depth[t] \in Levels /\ i <= depth[t] /\ depth[t] <= depth[t]
            /\ i < depth[t] \/ i = depth[t]
        BY <2>1, NestingAssumption DEF Levels
      <3>2. stack[t][i].key \in Keys /\ Top(t).key \in Keys
        BY <3>1 DEF FrameInv, Top
      <3>3. Rank[Top(t).key] <= Rank[stack[t][i].key]
        BY <3>1, <3>2, NestingAssumption DEF NestInv, Top
      <3>4. Rank[k] < Rank[Top(t).key]
        BY <2>1, NestingAssumption
      <3> QED
        BY <3>2, <3>3, <3>4, NestingAssumption
    <2>4. Pending' = [Pending EXCEPT ![t] = @ \cup {k}]
      BY <2>1, PushPends
    <2> QED
      BY <2>1, <2>2, <2>3, <2>4, MemoStep
  \* Steps within a call that the abstract cache does not see.
  <1>6. ASSUME NEW t \in Threads, Lock(t) \/ LookupHit(t) \/ LookupMiss(t) \/ SpaceMade(t)
        PROVE  UNCHANGED Memo!vars
    <2>1. /\ depth[t] > 0
          /\ \E pc \in PCs, data \in Objects \cup {NoObject} : Goto(t, pc, data)
      <3>1. depth[t] > 0
        BY <1>6 DEF Lock, LookupHit, LookupMiss, SpaceMade, At
      <3>2. Top(t).pc = "makeSpace" => Top(t).data \in Objects
        BY <3>1 DEF FrameInv, Top
      <3> QED
        BY <1>6, <3>1, <3>2 DEF Lock, LookupHit, LookupMiss, SpaceMade, At, PCs
    <2>2. lastCall' = lastCall /\ Contents' = Contents
      BY <1>6 DEF Lock, LookupHit, LookupMiss, SpaceMade, cacheVars, Contents
    <2> QED
      BY <1>a, <2>1, <2>2, GotoPends
  <1>7. ASSUME NEW t \in Threads, FillData(t)
        PROVE  UNCHANGED Memo!vars
    <2>1. /\ depth[t] > 0 /\ depth[t] \in Levels /\ Top(t).pc = "run"
          /\ dataKey' = [dataKey EXCEPT ![Top(t).data] = Top(t).key]
          /\ \E pc \in {"store", "makeSpace"} : Goto(t, pc, Top(t).data)
          /\ stored' = stored /\ lastCall' = lastCall
      BY <1>7 DEF FillData, At
    <2>2. Top(t).data \in Objects \ stored
      BY <2>1 DEF FrameInv, MissStillValid, Top
    <2>3. Contents' = Contents
      <3>1. \A a \in stored : dataKey'[a] = dataKey[a]
        BY <2>1, <2>2
      <3> QED
        BY <2>1, <3>1 DEF Contents
    <2>4. Pending' = Pending
      BY <2>1, <2>2, GotoPends DEF PCs
    <2> QED
      BY <1>a, <2>1, <2>3, <2>4
  \* A call stores its result ...
  <1>8. ASSUME NEW t \in Threads, StoreData(t)
        PROVE  \E k \in Keys : Memo!Remember(t, k)
    <2>1. /\ depth[t] > 0 /\ depth[t] \in Levels /\ Top(t).pc = "store"
          /\ stored' = stored \cup {Top(t).data} /\ dataKey' = dataKey
          /\ Goto(t, "hit", Top(t).data) /\ lastCall' = lastCall
      BY <1>8 DEF StoreData, At
    <2>2. /\ Top(t).key \in Pending[t] \ Contents
          /\ Top(t).key = dataKey[Top(t).data] /\ Top(t).data \in Objects \ stored
          /\ Memo!Fits(Contents \cup {Top(t).key})
                 <=> spaceTaken + SizeOf[Top(t).key] <= Capacity
      BY <2>1, RoomWanted
    <2>3. Top(t).key \in Keys /\ spaceTaken + SizeOf[Top(t).key] <= Capacity
      BY <2>1 DEF FrameInv, SpaceInv, RoomInv, Top
    <2>4. Contents' = Contents \cup {Top(t).key}
      BY <2>1, <2>2 DEF Contents
    <2>5. Pending' = Pending
      BY <2>1, <2>2, GotoPends DEF PCs
    <2> QED
      BY <2>1, <2>2, <2>3, <2>4, <2>5, MemoStep
  \* ... and evicts another one only because there is no room for its own.
  <1>9. ASSUME NEW t \in Threads, EvictData(t)
        PROVE  \E k \in Keys : Memo!Forget(k)
    <2>1. /\ depth[t] > 0 /\ depth[t] \in Levels /\ Top(t).pc = "makeSpace"
          /\ (Capacity - spaceTaken) % Word < SizeOf[Top(t).key]
          /\ UNCHANGED <<depth, stack, lastCall>>
      BY <1>9 DEF EvictData, MustEvict, At
    <2>2. PICK a \in stored : stored' = stored \ {a} /\ dataKey' = [dataKey EXCEPT ![a] = NoKey]
      BY <1>9 DEF EvictData, RemoveData
    <2>3. /\ Top(t).key \in Pending[t] \ Contents
          /\ Memo!Fits({Top(t).key})
          /\ Memo!Fits(Contents \cup {Top(t).key})
                 <=> spaceTaken + SizeOf[Top(t).key] <= Capacity
      BY <2>1, RoomWanted
    <2>4. ~Memo!Fits(Contents \cup {Top(t).key})
      <3>1. Top(t).key \in Keys /\ SizeOf[Top(t).key] \in Nat
        BY <2>1, SizeAssumption DEF FrameInv, Top
      <3>2. Capacity - spaceTaken \in 0..(Word - 1) /\ spaceTaken \in Nat /\ Capacity \in Nat
        BY SizeAssumption DEF Inv, LockInv, TypeOK, SpaceInv
      <3>3. (Capacity - spaceTaken) % Word = Capacity - spaceTaken
        BY <3>2, WordSmall
      <3> QED
        BY <2>1, <2>3, <3>1, <3>2, <3>3
    <2>5. dataKey[a] \in Keys
      BY <2>2 DEF StoredInv
    <2>6. Contents' = Contents \ {dataKey[a]}
      BY <2>2 DEF Contents, UniqueEntries
    <2>7. dataKey[a] \in Contents /\ Pending' = Pending
      BY <2>1, <2>2 DEF Contents, Pending
    <2> QED
      BY <2>1, <2>3, <2>4, <2>5, <2>6, <2>7, MemoStep
  \* A call leaves.
  <1>10. ASSUME NEW t \in Threads, depth[t] > 0, NEW k, k = Top(t).key, NEW outcome,
                Pop(t), UNCHANGED cacheVars,
                lastCall' = IF depth[t] = 1 THEN [lastCall EXCEPT ![t] = outcome] ELSE lastCall
         PROVE  k \in Keys /\ Memo!Leave(t, k, outcome)
    <2>1. /\ k \in Keys /\ k \in Pending[t]
          /\ Pending' = [Pending EXCEPT ![t] = @ \ {k}]
          /\ Pending[t] = {k} <=> depth[t] = 1
      BY <1>10, PopPends
    <2>2. Contents' = Contents
      BY <1>10 DEF cacheVars, Contents
    <2> QED
      BY <1>10, <2>1, <2>2, MemoStep
  <1>11. ASSUME NEW t \in Threads, depth[t] > 0, Top(t).pc = "run"
         PROVE  Top(t).key \notin Contents
    <2>1. depth[t] \in Levels
      BY <1>11
    <2> QED
      BY <1>11, <2>1 DEF MissStillValid, Contents, Top
  <1>12. ASSUME NEW t \in Threads, ReturnUncached(t)
         PROVE  \E k \in Keys : Memo!Return(t, k)
    <2>1. PICK k : k = Top(t).key
      OBVIOUS
    <2>2. /\ depth[t] > 0 /\ Top(t).pc = "run" /\ Pop(t) /\ UNCHANGED cacheVars
          /\ lastCall' = IF depth[t] = 1
                         THEN [lastCall EXCEPT ![t] = [key |-> k, stored |-> FALSE]]
                         ELSE lastCall
      BY <1>12, <2>1 DEF ReturnUncached, Leave, At
    <2>3. (k \in Contents) = FALSE
      BY <1>11, <2>1, <2>2
    <2>4. k \in Keys /\ Memo!Leave(t, k, [key |-> k, stored |-> FALSE])
      BY <1>10, <2>1, <2>2
    <2>5. [key |-> k, stored |-> k \in {dataKey[a] : a \in stored}] = [key |-> k, stored |-> FALSE]
      BY <2>3, Zenon DEF Contents
    <2>6. Memo!Return(t, k)
      BY <2>4, <2>5 DEF Memo!Return, Memo!Leave
    <2> QED
      BY <2>4, <2>6
  <1>13. ASSUME NEW t \in Threads, FunctionThrows(t) \/ LookupThrows(t) \/ OutputThrows(t)
         PROVE  \E k \in Keys : Memo!Fail(t, k)
    <2>1. PICK k : k = Top(t).key
      OBVIOUS
    <2>2. /\ depth[t] > 0 /\ Pop(t) /\ UNCHANGED cacheVars
          /\ lastCall' = IF depth[t] = 1 THEN [lastCall EXCEPT ![t] = Memo!NoCall] ELSE lastCall
      BY <1>13 DEF FunctionThrows, LookupThrows, OutputThrows, Leave, At, Memo!NoCall, NoCall
    <2>3. k \in Keys /\ Memo!Leave(t, k, Memo!NoCall)
      BY <1>10, <2>1, <2>2
    <2> QED
      BY <2>3 DEF Memo!Fail
  <1>14. ASSUME NEW t \in Threads, ReturnStored(t)
         PROVE  \E k \in Keys : Memo!Return(t, k)
    <2>1. PICK k : k = Top(t).key
      OBVIOUS
    <2>2. /\ depth[t] > 0 /\ depth[t] \in Levels /\ Top(t).pc = "hit"
          /\ Pop(t) /\ UNCHANGED cacheVars
          /\ lastCall' = IF depth[t] = 1
                         THEN [lastCall EXCEPT ![t] = [key |-> k, stored |-> TRUE]]
                         ELSE lastCall
      BY <1>14, <2>1 DEF ReturnStored, Leave, At
    <2>3. (k \in Contents) = TRUE
      BY <2>1, <2>2 DEF AnswerStored, Contents, Top
    <2>4. k \in Keys /\ Memo!Leave(t, k, [key |-> k, stored |-> TRUE])
      BY <1>10, <2>1, <2>2
    <2>5. [key |-> k, stored |-> k \in {dataKey[a] : a \in stored}] = [key |-> k, stored |-> TRUE]
      BY <2>3, Zenon DEF Contents
    <2>6. Memo!Return(t, k)
      BY <2>4, <2>5 DEF Memo!Return, Memo!Leave
    <2> QED
      BY <2>4, <2>6
  <1> QED
    BY <1>1, <1>2, <1>3, <1>4, <1>5, <1>6, <1>7, <1>8, <1>9, <1>12, <1>13, <1>14
       DEF Next, Internal, FunctionEnds, Memo!Next

\* The manager and its calls implement the abstract memo cache: a key is remembered only
\* for a pending call that asked for it and when it fits, it is forgotten only to make
\* room, and what a call reports of its result is true when it returns.
THEOREM MemoCacheImplemented == Spec => ImplementsMemoCache
  <1>1. Init => Memo!Init
    BY DEF Init, Memo!Init, Memo!NoCall, NoCall
  <1> QED
    BY <1>1, RefinementStep, Invariance, PTL DEF Spec, ImplementsMemoCache, Memo!Spec
=============================================================================
