------------------------ MODULE CachingFilterProofs ------------------------
(***************************************************************************)
(* Proofs about CachingFilter, for every number of threads that make and   *)
(* call filters, of filters of any classes, copies and managers: as long   *)
(* as constructors and destructors meet one at a time, as they always do   *)
(* with one class and one thread that makes filters, the manager they      *)
(* share exists as long as any of them or of their copies is left.         *)
(***************************************************************************)
EXTENDS CachingFilter, FiniteSetTheorems, SequenceTheorems, TLAPS

\* One class of filters, made by one thread, which is where the code sees to OneAtATime:
\* another class has another mutex, and another maker may construct a filter while the
\* manager is being deleted.
OneClassOneMaker ==
    /\ \A f, g \in Filters : ClassOf[f] = ClassOf[g]
    /\ \A t, u \in Makers : t = u

-----------------------------------------------------------------------------
(* The inductive invariant.                                                *)

\* What a thread is doing, innermost, and what it was doing when it began that.
Depth(u) == Len(stack[u])
Inner(u) == Head(stack[u])
Outer(u) == Head(Tail(stack[u]))

BuildingPcs == {"ctorLock", "ctorCount"}
CountedPcs == {"ctorCheck", "ctorCreate", "register"}
DyingPcs == {"dtorLock", "dtorCount"}
LastPcs == {"delete", "deleting", "reset"}
DeadPcs == {"dtorTest"} \cup LastPcs
CallPcs == {"call", "makeSpace"}

\* Those that run under the mutex of the class.
LockedPcs == {"ctorCount", "ctorCheck", "ctorCreate", "dtorCount"}

Frames ==
    [pc : BuildingPcs \cup CountedPcs \cup DyingPcs \cup DeadPcs \cup CallPcs,
     filter : Filters, read : Nat \cup Managers \cup {NoManager}]

Reaches(u, pc) == Depth(u) > 0 /\ Inner(u).pc = pc
Locked(u) == Depth(u) > 0 /\ Inner(u).pc \in LockedPcs
IsLast(u) == Depth(u) > 0 /\ Inner(u).pc \in LastPcs

Used(u) ==
    (IF Depth(u) > 0 THEN {Inner(u).filter} ELSE {}) \cup
    (IF Depth(u) > 1 THEN {Outer(u).filter} ELSE {})

TypeInv ==
    /\ cacheManager \in Managers \cup {NoManager}
    /\ cacheInstanceCounter \in Nat
    /\ alive \subseteq Managers
    /\ mutexOwner \in [Classes -> Threads \cup {NoThread}]
    /\ managerOwner \in [Managers -> Threads \cup {NoThread}]
    /\ life \in [Filters -> Lives]
    /\ uses \in [Filters -> Managers \cup {NoManager}]
    /\ copyOf \in [Filters -> Filters \cup {NoFilter}]
    /\ refs \in [Filters -> 1..MaxRefs]
    /\ stack \in [Threads -> Seq(Frames)]

\* What has become of the filter that a thread is busy with.
Fits(pc, l) ==
    /\ pc \in BuildingPcs => l = "building"
    /\ pc \in CountedPcs => l = "counted"
    /\ pc \in DyingPcs => l = "dying"
    /\ pc \in DeadPcs => l = "dead"
    /\ pc \in CallPcs => l = "live"

FrameOK(fr) == fr \in Frames /\ Fits(fr.pc, life[fr.filter])

\* A thread constructs or destroys a filter of the program, which only a maker does, or
\* makes a call, within which it constructs or destroys a copy.
StackOK(u) ==
    /\ Depth(u) \in 0..2
    /\ Depth(u) > 0 => FrameOK(Inner(u))
    /\ Depth(u) = 1 /\ Inner(u).pc \notin CallPcs => u \in Makers
    /\ Depth(u) = 1 /\ Inner(u).pc \in BuildingPcs \cup CountedPcs => copyOf[Inner(u).filter] = NoFilter
    /\ Depth(u) = 2 =>
          /\ FrameOK(Outer(u)) /\ Outer(u).pc = "makeSpace"
          /\ Inner(u).pc \notin CallPcs \cup LastPcs
          /\ Inner(u).pc \in BuildingPcs \cup CountedPcs => copyOf[Inner(u).filter] = Outer(u).filter

BusyLives == {"building", "counted", "dying", "dead"}

StackInv ==
    /\ \A u \in Threads : StackOK(u)
    /\ \A f \in Filters : life[f] \in BusyLives => \E u \in Threads : f \in Used(u)
    /\ \A u, v \in Threads : u # v => Used(u) \cap Used(v) = {}

Counted == {f \in Filters : life[f] \in {"counted", "live", "copied", "cached", "leaked", "dying"}}

\* The counter is right, and who is about to write it has read what it is.
CountInv ==
    /\ cacheInstanceCounter = Cardinality(Counted)
    /\ \A u \in Threads : Locked(u) => mutexOwner[ClassOf[Inner(u).filter]] = u
    /\ \A u \in Threads : Reaches(u, "ctorCount") \/ Reaches(u, "dtorCount") =>
          Inner(u).read = cacheInstanceCounter

\* The manager exists while filters have it; nobody has a filter when it is deleted.
ManagerInv ==
    /\ \A u \in Threads : IsLast(u) => Counted = {}
    /\ \A u \in Threads : Reaches(u, "reset") => alive = {}
    /\ (\A u \in Threads : ~Reaches(u, "reset")) => alive = {cacheManager} \ {NoManager}
    /\ \A u \in Threads : Reaches(u, "deleting") => Inner(u).read = cacheManager
    /\ \A u \in Threads : Reaches(u, "ctorCreate") => cacheManager = NoManager
    /\ \A u \in Threads : Reaches(u, "register") => cacheManager # NoManager
    /\ \A f \in Filters : life[f] \in {"live", "copied", "cached"} =>
          uses[f] = cacheManager /\ cacheManager # NoManager
    /\ \A f \in Filters : life[f] = "leaked" => cacheManager # NoManager
    /\ cacheManager # NoManager => \E f \in Filters : life[f] # "none"

Inv == TypeInv /\ StackInv /\ CountInv /\ ManagerInv

-----------------------------------------------------------------------------
(* Stacks.                                                                 *)

\* What a sequence is with an element before it.
LEMMA PushProperties ==
    ASSUME NEW S, NEW s \in Seq(S), NEW x \in S
    PROVE  /\ <<x>> \o s \in Seq(S)
           /\ Len(<<x>> \o s) = Len(s) + 1
           /\ Head(<<x>> \o s) = x
           /\ Len(s) > 0 => Head(Tail(<<x>> \o s)) = Head(s)
  OBVIOUS

\* What a sequence of one element is with two in its place.
LEMMA PushOnOne ==
    ASSUME NEW S, NEW s \in Seq(S), Len(s) = 1, NEW x, NEW y
    PROVE  <<x, y>> \o Tail(s) = <<x, y>>
  <1>1. s # <<>>  OBVIOUS
  <1>2. Tail(s) \in Seq(S) /\ Len(Tail(s)) = 0  BY <1>1, HeadTailProperties
  <1>3. Tail(s) = <<>>  BY <1>2, EmptySeq
  <1>4. <<x, y>> \o <<>> = <<x, y>>  OBVIOUS
  <1> QED  BY <1>3, <1>4

\* A step of t leaves the stacks of the others alone; d, i and o are what becomes of its own.
StackEffect(t, d, i, o) ==
    /\ stack' \in [Threads -> Seq(Frames)]
    /\ \A u \in Threads : u # t => stack'[u] = stack[u]
    /\ Depth(t)' = d
    /\ d > 0 => Inner(t)' = i
    /\ d = 2 => Outer(t)' = o

\* The stacks of the others stay as they are.
LEMMA OthersStay ==
    ASSUME NEW t \in Threads, NEW d, NEW i, NEW o, StackEffect(t, d, i, o), NEW u \in Threads, u # t
    PROVE  /\ Depth(u)' = Depth(u) /\ Inner(u)' = Inner(u) /\ Outer(u)' = Outer(u)
           /\ Used(u)' = Used(u)
  BY DEF StackEffect, Depth, Inner, Outer, Used

\* A thread is at a point of its code if that is where its innermost frame is.
LEMMA AtReaches ==
    ASSUME TypeInv, NEW t \in Threads, NEW pc
    PROVE  At(t, pc) <=> Reaches(t, pc)
  BY DEF TypeInv, At, Reaches, Depth, Inner

\* Goto replaces the innermost frame.
LEMMA GotoEffect ==
    ASSUME TypeInv, NEW t \in Threads, NEW pc, NEW read, Depth(t) > 0,
           Frame(pc, Subject(t), read) \in Frames, Goto(t, pc, read)
    PROVE  StackEffect(t, Depth(t), Frame(pc, Subject(t), read), Outer(t))
  <1> DEFINE s == stack[t]  fr == Frame(pc, Subject(t), read)
  <1>1. s \in Seq(Frames) /\ Len(s) > 0  BY DEF TypeInv, Depth
  <1>2. Tail(s) \in Seq(Frames) /\ Len(Tail(s)) = Len(s) - 1  BY <1>1
  <1>3. stack' = [stack EXCEPT ![t] = <<fr>> \o Tail(s)]  BY DEF Goto, Subject
  <1>4. stack'[t] = <<fr>> \o Tail(s)  BY <1>3 DEF TypeInv
  <1>5. \A u \in Threads : u # t => stack'[u] = stack[u]  BY <1>3 DEF TypeInv
  <1>6. /\ <<fr>> \o Tail(s) \in Seq(Frames) /\ Len(<<fr>> \o Tail(s)) = Len(s)
        /\ Head(<<fr>> \o Tail(s)) = fr
        /\ Len(s) = 2 => Head(Tail(<<fr>> \o Tail(s))) = Head(Tail(s))
    <2>1. fr \in Frames  OBVIOUS
    <2> HIDE DEF fr, s
    <2> QED  BY <2>1, <1>1, <1>2, PushProperties
  <1>7. stack' \in [Threads -> Seq(Frames)]  BY <1>3, <1>6 DEF TypeInv
  <1> QED  BY <1>4, <1>5, <1>6, <1>7 DEF StackEffect, Depth, Inner, Outer

\* Enter adds one.
LEMMA EnterEffect ==
    ASSUME TypeInv, NEW t \in Threads, NEW pc, NEW f, Depth(t) < 2,
           Frame(pc, f, 0) \in Frames, Enter(t, pc, f)
    PROVE  StackEffect(t, Depth(t) + 1, Frame(pc, f, 0), Inner(t))
  <1> DEFINE s == stack[t]  fr == Frame(pc, f, 0)
  <1>1. s \in Seq(Frames) /\ Len(s) \in Nat  BY DEF TypeInv
  <1>3. stack' = [stack EXCEPT ![t] = <<fr>> \o s]  BY DEF Enter
  <1>4. stack'[t] = <<fr>> \o s  BY <1>3 DEF TypeInv
  <1>5. \A u \in Threads : u # t => stack'[u] = stack[u]  BY <1>3 DEF TypeInv
  <1>6. /\ <<fr>> \o s \in Seq(Frames) /\ Len(<<fr>> \o s) = Len(s) + 1
        /\ Head(<<fr>> \o s) = fr
        /\ Len(s) > 0 => Head(Tail(<<fr>> \o s)) = Head(s)
    <2>1. fr \in Frames  OBVIOUS
    <2> HIDE DEF fr, s
    <2> QED  BY <2>1, <1>1, PushProperties
  <1>7. stack' \in [Threads -> Seq(Frames)]  BY <1>3, <1>6 DEF TypeInv
  <1> QED  BY <1>1, <1>4, <1>5, <1>6, <1>7 DEF StackEffect, Depth, Inner, Outer

\* Return drops the innermost.
LEMMA ReturnEffect ==
    ASSUME TypeInv, NEW t \in Threads, Depth(t) \in 1..2, Return(t), NEW o
    PROVE  StackEffect(t, Depth(t) - 1, Outer(t), o)
  <1> DEFINE s == stack[t]
  <1>1. s \in Seq(Frames) /\ Len(s) \in 1..2  BY DEF TypeInv, Depth
  <1>2. Tail(s) \in Seq(Frames) /\ Len(Tail(s)) = Len(s) - 1  BY SMTT(30), <1>1
  <1>3. stack' = [stack EXCEPT ![t] = Tail(s)]  BY DEF Return
  <1> QED  BY <1>1, <1>2, <1>3 DEF StackEffect, Depth, Inner, Outer, TypeInv

\* A thread that copies the filter it calls leaves the call at makeSpace and constructs.
LEMMA CopyEffect ==
    ASSUME TypeInv, NEW t \in Threads, NEW i, NEW o, Depth(t) = 1, i \in Frames, o \in Frames,
           stack' = [stack EXCEPT ![t] = <<i, o>> \o Tail(@)]
    PROVE  StackEffect(t, 2, i, o)
  <1>1. stack[t] \in Seq(Frames) /\ Len(stack[t]) = 1  BY DEF TypeInv, Depth
  <1>3. stack' = [stack EXCEPT ![t] = <<i, o>>]  BY <1>1, PushOnOne
  <1>4. <<i, o>> \in Seq(Frames) /\ Len(<<i, o>>) = 2 /\ Head(<<i, o>>) = i /\ Head(Tail(<<i, o>>)) = o
    OBVIOUS
  <1> QED  BY <1>3, <1>4 DEF StackEffect, Depth, Inner, Outer, TypeInv

-----------------------------------------------------------------------------
(* What the invariant says of who is busy with what.                       *)

Pcs == BuildingPcs \cup CountedPcs \cup DyingPcs \cup DeadPcs \cup CallPcs

\* The innermost frame of a busy thread is one, and its filter is one.
LEMMA InnerFrame ==
    ASSUME StackInv, NEW t \in Threads, Depth(t) > 0
    PROVE  /\ Depth(t) \in 1..2 /\ FrameOK(Inner(t)) /\ Inner(t).pc \in Pcs
           /\ Inner(t).filter \in Filters /\ Subject(t) = Inner(t).filter
           /\ Inner(t).filter \in Used(t)
           /\ Depth(t) = 2 => Outer(t).filter \in Filters /\ Outer(t).filter \in Used(t)
                              /\ life[Outer(t).filter] = "live" /\ Outer(t).pc = "makeSpace"
  <1>1. StackOK(t) /\ Depth(t) \in 1..2  BY DEF StackInv, StackOK
  <1>2. FrameOK(Inner(t)) /\ Inner(t) \in Frames  BY <1>1 DEF StackOK, FrameOK, Fits
  <1>3. Depth(t) = 2 => FrameOK(Outer(t)) /\ Outer(t) \in Frames /\ Outer(t).pc = "makeSpace"
    BY <1>1 DEF StackOK, FrameOK, Fits
  <1>4. Subject(t) = Inner(t).filter  BY DEF Subject, Inner
  <1>5. Inner(t).pc \in Pcs /\ Inner(t).filter \in Filters  BY <1>2 DEF Frames, Pcs
  <1>6. Depth(t) = 2 => Outer(t).filter \in Filters /\ life[Outer(t).filter] = "live"
    BY <1>3 DEF Frames, FrameOK, Fits, CallPcs
  <1> QED  BY <1>1, <1>2, <1>3, <1>4, <1>5, <1>6 DEF Used

\* A filter that a thread is busy with is under construction, in use or being destroyed.
LEMMA UsedLives ==
    ASSUME StackInv, NEW u \in Threads, NEW f \in Used(u)
    PROVE  f \in Filters /\ life[f] \in {"building", "counted", "dying", "dead", "live"}
  <1>1. Depth(u) \in 0..2  BY DEF StackInv, StackOK
  <1>2. Depth(u) > 0  BY <1>1 DEF Used
  <1>3. f = Inner(u).filter \/ (Depth(u) = 2 /\ f = Outer(u).filter)  BY <1>1, <1>2 DEF Used
  <1>4. life[Inner(u).filter] \in {"building", "counted", "dying", "dead", "live"}
    BY <1>2, InnerFrame DEF FrameOK, Fits, Pcs
  <1> QED  BY <1>2, <1>3, <1>4, InnerFrame

\* Nobody is busy with a filter that is not InUse.
LEMMA NotInUse ==
    ASSUME TypeInv, StackInv, NEW f \in Filters, ~InUse(f), NEW u \in Threads
    PROVE  f \notin Used(u)
  <1> SUFFICES ASSUME f \in Used(u) PROVE InUse(f)  OBVIOUS
  <1>1. Depth(u) \in 0..2  BY DEF StackInv, StackOK
  <1>2. stack[u] \in Seq(Frames) /\ DOMAIN stack[u] = 1..Len(stack[u])  BY DEF TypeInv
  <1>3. CASE Depth(u) > 0 /\ f = Inner(u).filter
    <2>1. stack[u][1].filter = f /\ 1 \in DOMAIN stack[u]  BY <1>2, <1>3 DEF Depth, Inner
    <2> QED  BY <2>1 DEF InUse
  <1>4. CASE Depth(u) > 1 /\ f = Outer(u).filter
    <2>1. stack[u][2].filter = f /\ 2 \in DOMAIN stack[u]  BY <1>2, <1>4 DEF Depth, Outer
    <2> QED  BY <2>1 DEF InUse
  <1> QED  BY <1>1, <1>3, <1>4 DEF Used

\* OneAtATime in terms of innermost frames.
LEMMA MeetOneAtATime ==
    ASSUME TypeInv
    PROVE  /\ \A t \in Threads : UnderMutex(t) <=> Locked(t)
           /\ \A t \in Threads : Deletes(t) <=> IsLast(t)
           /\ \A t \in Threads : Idle(t) <=> Depth(t) = 0
  <1>1. \A t \in Threads : UnderMutex(t) <=> Locked(t)
    BY AtReaches DEF UnderMutex, Locked, Reaches, LockedPcs
  <1>2. \A t \in Threads : Deletes(t) <=> IsLast(t)
    BY AtReaches DEF Deletes, IsLast, Reaches, LastPcs
  <1>3. \A t \in Threads : Idle(t) <=> Depth(t) = 0
    BY EmptySeq DEF TypeInv, Idle, Depth
  <1> QED  BY <1>1, <1>2, <1>3

\* While a thread deletes the manager all others are idle.
LEMMA LastAlone ==
    ASSUME OneAtATime, TypeInv, StackInv, NEW t \in Threads, IsLast(t), Counted = {}
    PROVE  t \in Makers /\ Depth(t) = 1 /\ \A u \in Threads : u # t => Depth(u) = 0
  <1>1. StackOK(t) /\ Depth(t) \in 1..2  BY InnerFrame DEF StackInv, IsLast
  <1>2. Depth(t) # 2 /\ Inner(t).pc \notin CallPcs  BY <1>1 DEF StackOK, IsLast, LastPcs, CallPcs
  <1>3. \A u \in Threads : u # t => Depth(u) = 0  BY MeetOneAtATime DEF OneAtATime
  <1> QED  BY <1>1, <1>2, <1>3 DEF StackOK

\* One thread is under a mutex.
LEMMA UnderOneMutex ==
    OneAtATime /\ TypeInv => \A t, u \in Threads : Locked(t) /\ Locked(u) => t = u
  BY MeetOneAtATime DEF OneAtATime

LEMMA OneLocked ==
    ASSUME OneAtATime, TypeInv, NEW t \in Threads, NEW u \in Threads, Locked(t), Locked(u)
    PROVE  t = u
  BY UnderOneMutex

\* Nobody else is under a mutex when one can be locked, if all have the same one.
LEMMA NobodyLocked ==
    ASSUME OneClassOneMaker, StackInv, CountInv, NEW t \in Threads, Depth(t) > 0, CanLock(t)
    PROVE  \A u \in Threads : ~Locked(u)
  <1> SUFFICES ASSUME NEW u \in Threads, Locked(u) PROVE FALSE  OBVIOUS
  <1>1. Inner(t).filter \in Filters /\ Inner(u).filter \in Filters /\ Subject(t) = Inner(t).filter
    BY InnerFrame DEF Locked
  <1>2. ClassOf[Subject(t)] = ClassOf[Inner(u).filter]  BY <1>1 DEF OneClassOneMaker
  <1>3. mutexOwner[ClassOf[Subject(t)]] = u  BY <1>2 DEF CountInv
  <1> QED  BY <1>3, ThreadAssumption DEF CanLock

\* The counter's bounds.
LEMMA CountedFinite ==
    /\ IsFiniteSet(Counted) /\ Cardinality(Counted) \in Nat
    /\ Cardinality(Counted) <= Cardinality(Filters) /\ Cardinality(Filters) \in Nat
    /\ Cardinality(Counted) = 0 <=> Counted = {}
  <1>1. Counted \subseteq Filters  BY DEF Counted
  <1>2. IsFiniteSet(Counted) /\ Cardinality(Counted) <= Cardinality(Filters)
    BY <1>1, FilterAssumption, FS_Subset
  <1> QED  BY <1>2, FilterAssumption, FS_CardinalityType, FS_EmptySet

-----------------------------------------------------------------------------
(* What a step of t must do for the invariant to survive it.               *)

Free(f) == \A u \in Threads : f \notin Used(u)

\* The frames that t ends up with fit what has become of their filters.
Landing(t, d, i, o) ==
    /\ d \in 0..2
    /\ d > 0 => i \in Frames /\ Fits(i.pc, life'[i.filter]) /\ (i.filter \in Used(t) \/ Free(i.filter))
    /\ d = 1 /\ i.pc \notin CallPcs => t \in Makers
    /\ d = 1 /\ i.pc \in BuildingPcs \cup CountedPcs => copyOf'[i.filter] = NoFilter
    /\ d = 2 =>
          /\ o \in Frames /\ Fits(o.pc, life'[o.filter]) /\ (o.filter \in Used(t) \/ Free(o.filter)) /\ o.pc = "makeSpace"
          /\ i.pc \notin CallPcs \cup LastPcs
          /\ i.pc \in BuildingPcs \cup CountedPcs => copyOf'[i.filter] = o.filter
    /\ \A f \in Filters : life'[f] \in BusyLives =>
          \/ d > 0 /\ f = i.filter
          \/ d > 1 /\ f = o.filter
          \/ life[f] \in BusyLives /\ f \notin Used(t)

\* It changes no filter that another thread is busy with.
OthersLeft(t) ==
    \A f \in Filters : f \notin Used(t) /\ ~Free(f) => life'[f] = life[f] /\ copyOf'[f] = copyOf[f]

\* The frames of all threads stay in order.
LEMMA StackKept ==
    ASSUME TypeInv, StackInv, NEW t \in Threads, NEW d, NEW i, NEW o,
           StackEffect(t, d, i, o), Landing(t, d, i, o), OthersLeft(t)
    PROVE  StackInv'
  <1>1. Depth(t)' = d /\ (d > 0 => Inner(t)' = i) /\ (d = 2 => Outer(t)' = o) /\ d \in 0..2
    BY DEF StackEffect, Landing
  <1>2. StackOK(t)'
    <2>1. d > 0 => FrameOK(Inner(t))'  BY <1>1 DEF Landing, FrameOK
    <2>2. d = 2 => FrameOK(Outer(t))'  BY <1>1 DEF Landing, FrameOK
    <2> QED  BY <1>1, <2>1, <2>2 DEF Landing, StackOK
  <1>3. \A u \in Threads : u # t => StackOK(u)'
    <2> SUFFICES ASSUME NEW u \in Threads, u # t PROVE StackOK(u)'  OBVIOUS
    <2>1. StackOK(u) /\ Depth(u) \in 0..2  BY DEF StackInv, StackOK
    <2>2. Depth(u)' = Depth(u) /\ Inner(u)' = Inner(u) /\ Outer(u)' = Outer(u)  BY OthersStay
    <2>3. \A f \in Used(u) : f \in Filters /\ life'[f] = life[f] /\ copyOf'[f] = copyOf[f]
      <3> TAKE f \in Used(u)
      <3>1. f \in Filters /\ f \notin Used(t) /\ ~Free(f)  BY UsedLives DEF StackInv, Free
      <3> QED  BY <3>1 DEF OthersLeft
    <2>4. Depth(u) > 0 => Inner(u).filter \in Used(u)  BY DEF Used
    <2>5. Depth(u) = 2 => Outer(u).filter \in Used(u)  BY DEF Used
    <2>6. Depth(u) > 0 => FrameOK(Inner(u))'
      BY <2>1, <2>2, <2>3, <2>4 DEF StackOK, FrameOK, Fits
    <2>7. Depth(u) = 2 => FrameOK(Outer(u))'
      BY <2>1, <2>2, <2>3, <2>5 DEF StackOK, FrameOK, Fits
    <2> QED  BY <2>1, <2>2, <2>3, <2>4, <2>5, <2>6, <2>7 DEF StackOK
  <1>4. \A f \in Used(t)' : f \in Used(t) \/ Free(f)
    <2> TAKE f \in Used(t)'
    <2>1. (d > 0 /\ f = i.filter) \/ (d = 2 /\ f = o.filter)  BY <1>1 DEF Used
    <2> QED  BY <2>1 DEF Landing
  <1>5. \A u \in Threads : u # t => Used(u)' = Used(u)  BY OthersStay
  <1>6. \A u, v \in Threads : u # v => Used(u)' \cap Used(v)' = {}
    BY <1>4, <1>5 DEF StackInv, Free
  <1>7. \A f \in Filters : life'[f] \in BusyLives => \E u \in Threads : f \in Used(u)'
    <2> SUFFICES ASSUME NEW f \in Filters, life'[f] \in BusyLives
                 PROVE  \E u \in Threads : f \in Used(u)'
      OBVIOUS
    <2>1. CASE (d > 0 /\ f = i.filter) \/ (d > 1 /\ f = o.filter)
      <3>1. f \in Used(t)'  BY <1>1, <2>1 DEF Used
      <3> QED  BY <3>1
    <2>2. CASE life[f] \in BusyLives /\ f \notin Used(t)
      <3>1. PICK u \in Threads : f \in Used(u)  BY <2>2 DEF StackInv
      <3> QED  BY <1>5, <2>2, <3>1
    <2> QED  BY <2>1, <2>2 DEF Landing
  <1> QED  BY <1>2, <1>3, <1>6, <1>7 DEF StackInv

\* A step that does not lock, unlock or count, and does not arrive where that is done.
LEMMA CountKept ==
    ASSUME OneAtATime, StackInv, CountInv,
           NEW t \in Threads, NEW d, NEW i, NEW o, StackEffect(t, d, i, o),
           mutexOwner' = mutexOwner, cacheInstanceCounter' = cacheInstanceCounter,
           Counted' = Counted,
           d > 0 /\ i.pc \in LockedPcs =>
              Locked(t) /\ i.pc \notin {"ctorCount", "dtorCount"} /\ i.filter = Inner(t).filter
    PROVE  CountInv'
  <1>1. Depth(t)' = d /\ (d > 0 => Inner(t)' = i)  BY DEF StackEffect
  <1>2. \A u \in Threads : u # t => Depth(u)' = Depth(u) /\ Inner(u)' = Inner(u)  BY OthersStay
  <1>3. \A u \in Threads : Locked(u)' => (mutexOwner[ClassOf[Inner(u).filter]])' = u
    <2> TAKE u \in Threads
    <2>1. CASE u = t  BY <1>1, <2>1 DEF CountInv, Locked
    <2>2. CASE u # t  BY <1>2, <2>2 DEF CountInv, Locked
    <2> QED  BY <2>1, <2>2
  <1>4. \A u \in Threads : Reaches(u, "ctorCount")' \/ Reaches(u, "dtorCount")' =>
           (Inner(u).read)' = cacheInstanceCounter'
    <2> TAKE u \in Threads
    <2>1. CASE u = t  BY <1>1, <2>1 DEF Reaches, LockedPcs
    <2>2. CASE u # t  BY <1>2, <2>2 DEF CountInv, Reaches
    <2> QED  BY <2>1, <2>2
  <1> QED  BY <1>3, <1>4 DEF CountInv

\* A step that does, while nobody else is under the mutex.
LEMMA CountMoved ==
    ASSUME NEW t \in Threads, NEW d, NEW i, NEW o, StackEffect(t, d, i, o),
           \A u \in Threads : u # t => ~Locked(u),
           cacheInstanceCounter' = Cardinality(Counted)',
           d > 0 /\ i.pc \in LockedPcs => mutexOwner'[ClassOf[i.filter]] = t,
           d > 0 /\ i.pc \in {"ctorCount", "dtorCount"} => i.read = cacheInstanceCounter'
    PROVE  CountInv'
  <1>1. Depth(t)' = d /\ (d > 0 => Inner(t)' = i)  BY DEF StackEffect
  <1>2. \A u \in Threads : u # t => ~Locked(u)'  BY OthersStay DEF Locked
  <1>3. \A u \in Threads : Locked(u)' => (mutexOwner[ClassOf[Inner(u).filter]])' = u
    BY <1>1, <1>2 DEF Locked
  <1>4. \A u \in Threads : Reaches(u, "ctorCount")' \/ Reaches(u, "dtorCount")' =>
           (Inner(u).read)' = cacheInstanceCounter'
    BY <1>1, <1>2 DEF Reaches, Locked, LockedPcs
  <1> QED  BY <1>3, <1>4 DEF CountInv

\* What must hold of the filters and of where t arrives for the manager to stay.
Managed(t, d, i) ==
    /\ d > 0 /\ i.pc \in LastPcs => Counted' = {}
    /\ d > 0 /\ i.pc = "reset" => alive' = {}
    /\ d > 0 /\ i.pc = "deleting" => i.read = cacheManager'
    /\ d > 0 /\ i.pc = "ctorCreate" => cacheManager' = NoManager
    /\ d > 0 /\ i.pc = "register" => cacheManager' # NoManager
    /\ \A f \in Filters : life'[f] \in {"live", "copied", "cached"} =>
          uses'[f] = cacheManager' /\ cacheManager' # NoManager
    /\ \A f \in Filters : life'[f] = "leaked" => cacheManager' # NoManager
    /\ cacheManager' # NoManager => \E f \in Filters : life'[f] # "none"

LEMMA ManagerKept ==
    ASSUME ManagerInv, NEW t \in Threads, NEW d, NEW i, NEW o, StackEffect(t, d, i, o),
           Managed(t, d, i), cacheManager' = cacheManager, alive' = alive,
           Counted' \subseteq Counted \/ \A u \in Threads : u # t => ~IsLast(u),
           Reaches(t, "reset") \/ (d > 0 /\ i.pc = "reset") =>
              alive = {cacheManager} \ {NoManager} \/ (d > 0 /\ i.pc = "reset")
    PROVE  ManagerInv'
  <1>1. Depth(t)' = d /\ (d > 0 => Inner(t)' = i)  BY DEF StackEffect
  <1>2. \A u \in Threads : u # t => Depth(u)' = Depth(u) /\ Inner(u)' = Inner(u)  BY OthersStay
  <1>3. \A u \in Threads : IsLast(u)' => Counted' = {}
    <2> TAKE u \in Threads
    <2>1. CASE u = t  BY <1>1, <2>1 DEF IsLast, Managed
    <2>2. CASE u # t  BY <1>2, <2>2 DEF IsLast, ManagerInv
    <2> QED  BY <2>1, <2>2
  <1>4. \A u \in Threads :
           /\ Reaches(u, "reset")' => alive' = {}
           /\ Reaches(u, "deleting")' => (Inner(u).read)' = cacheManager'
           /\ Reaches(u, "ctorCreate")' => cacheManager' = NoManager
           /\ Reaches(u, "register")' => cacheManager' # NoManager
    <2> TAKE u \in Threads
    <2>1. CASE u = t  BY <1>1, <2>1 DEF Reaches, Managed
    <2>2. CASE u # t  BY <1>2, <2>2 DEF Reaches, ManagerInv
    <2> QED  BY <2>1, <2>2
  <1>5. (\A u \in Threads : ~Reaches(u, "reset")') => alive' = {cacheManager'} \ {NoManager}
    <2> HAVE \A u \in Threads : ~Reaches(u, "reset")'
    <2>1. \A u \in Threads : u # t => ~Reaches(u, "reset")  BY <1>2 DEF Reaches
    <2>2. ~(d > 0 /\ i.pc = "reset")  BY <1>1 DEF Reaches
    <2>3. CASE Reaches(t, "reset")  BY <2>2, <2>3
    <2>4. CASE ~Reaches(t, "reset")  BY <2>1, <2>4 DEF ManagerInv
    <2> QED  BY <2>3, <2>4
  <1> QED  BY <1>3, <1>4, <1>5 DEF ManagerInv, Managed

\* A step that changes the manager, while nobody else is about to create or delete one.
LEMMA ManagerMoved ==
    ASSUME NEW t \in Threads, NEW d, NEW i, NEW o, StackEffect(t, d, i, o), Managed(t, d, i),
           \A u \in Threads : u # t =>
              ~IsLast(u) /\ ~Reaches(u, "ctorCreate")
                 /\ (Reaches(u, "register") => cacheManager' # NoManager),
           (d > 0 /\ i.pc = "reset") \/ alive' = {cacheManager'} \ {NoManager}
    PROVE  ManagerInv'
  <1>1. Depth(t)' = d /\ (d > 0 => Inner(t)' = i)  BY DEF StackEffect
  <1>2. \A u \in Threads : u # t => Depth(u)' = Depth(u) /\ Inner(u)' = Inner(u)  BY OthersStay
  <1>3. \A u \in Threads :
           /\ IsLast(u)' => Counted' = {}
           /\ Reaches(u, "reset")' => alive' = {}
           /\ Reaches(u, "deleting")' => (Inner(u).read)' = cacheManager'
           /\ Reaches(u, "ctorCreate")' => cacheManager' = NoManager
           /\ Reaches(u, "register")' => cacheManager' # NoManager
    <2> TAKE u \in Threads
    <2>1. CASE u = t  BY <1>1, <2>1 DEF Reaches, IsLast, Managed
    <2>2. CASE u # t  BY <1>2, <2>2 DEF Reaches, IsLast, LastPcs
    <2> QED  BY <2>1, <2>2
  <1>4. (\A u \in Threads : ~Reaches(u, "reset")') => alive' = {cacheManager'} \ {NoManager}
    BY <1>1 DEF Reaches
  <1> QED  BY <1>3, <1>4 DEF ManagerInv, Managed

-----------------------------------------------------------------------------
(* The stack after the three kinds of step.                                *)

LEMMA FrameType ==
    ASSUME NEW pc \in Pcs, NEW f \in Filters, NEW read \in Nat \cup Managers \cup {NoManager}
    PROVE  /\ Frame(pc, f, read) \in Frames
           /\ Frame(pc, f, read).pc = pc /\ Frame(pc, f, read).filter = f
           /\ Frame(pc, f, read).read = read
  BY DEF Frame, Frames, Pcs

\* Nobody else is under a mutex when one is locked and they meet one at a time.
LEMMA LockersAlone ==
    ASSUME OneAtATime', TypeInv, StackInv, NEW t \in Threads, CtorLock(t) \/ DtorLock(t)
    PROVE  \A u \in Threads : u # t => ~Locked(u)
  <1>1. PICK pc \in {"ctorCount", "dtorCount"} : Goto(t, pc, cacheInstanceCounter)
    BY DEF CtorLock, DtorLock
  <1>2. Depth(t) > 0
    <2>1. Reaches(t, "ctorLock") \/ Reaches(t, "dtorLock")  BY AtReaches DEF CtorLock, DtorLock
    <2> QED  BY <2>1 DEF Reaches
  <1> DEFINE fr == Frame(pc, Subject(t), cacheInstanceCounter)
  <1>3. pc \in Pcs  BY DEF Pcs, BuildingPcs, DyingPcs
  <1>4. fr \in Frames /\ fr.pc = pc
    <2>1. Subject(t) \in Filters  BY <1>2, InnerFrame
    <2>2. cacheInstanceCounter \in Nat  BY DEF TypeInv
    <2> QED  BY SMTT(30), <1>3, <2>1, <2>2, FrameType
  <1>5. StackEffect(t, Depth(t), fr, Outer(t))  BY <1>1, <1>2, <1>4, GotoEffect
  <1>6. At(t, pc)'  BY <1>2, <1>4, <1>5 DEF StackEffect, At, Depth, Inner
  <1>7. UnderMutex(t)'  BY <1>6 DEF UnderMutex
  <1>8. ASSUME NEW u \in Threads, u # t, Locked(u) PROVE UnderMutex(u)'
    <2>1. UnderMutex(u)  BY <1>8, MeetOneAtATime
    <2>2. stack'[u] = stack[u]  BY <1>5, <1>8 DEF StackEffect
    <2> QED  BY <2>1, <2>2 DEF UnderMutex, At
  <1> QED  BY <1>7, <1>8 DEF OneAtATime

\* A thread goes on with its filter.
LEMMA GotoKeeps ==
    ASSUME TypeInv, StackInv, NEW t \in Threads, Depth(t) > 0,
           NEW pc \in Pcs, NEW read \in Nat \cup Managers \cup {NoManager}, Goto(t, pc, read),
           NEW l, life' = [life EXCEPT ![Subject(t)] = l], copyOf' = copyOf,
           Fits(pc, l), pc \notin CallPcs, Inner(t).pc \notin CallPcs,
           pc \in BuildingPcs \cup CountedPcs => Inner(t).pc \in BuildingPcs \cup CountedPcs,
           pc \in LastPcs => Depth(t) = 1
    PROVE  /\ StackInv'
           /\ StackEffect(t, Depth(t), Frame(pc, Subject(t), read), Outer(t))
  <1> DEFINE fr == Frame(pc, Subject(t), read)
  <1>1. /\ Subject(t) \in Filters /\ Subject(t) \in Used(t) /\ Subject(t) = Inner(t).filter
        /\ Depth(t) \in 1..2
        /\ Depth(t) = 2 => Outer(t).filter \in Used(t)
    BY InnerFrame
  <1>2. fr \in Frames /\ fr.pc = pc /\ fr.filter = Subject(t)
    <2>1. Subject(t) \in Filters  BY <1>1
    <2> QED  BY SMTT(30), <2>1, FrameType
  <1>3. StackEffect(t, Depth(t), fr, Outer(t))  BY <1>2, GotoEffect
  <1>4. StackOK(t)  BY DEF StackInv
  <1>5. life'[Subject(t)] = l /\ \A g \in Filters : g # Subject(t) => life'[g] = life[g]
    BY <1>1 DEF TypeInv
  <1>6. Depth(t) = 2 => Outer(t) \in Frames /\ Fits(Outer(t).pc, life'[Outer(t).filter])
    <2> HAVE Depth(t) = 2
    <2>1. Outer(t) \in Frames /\ Fits(Outer(t).pc, life[Outer(t).filter]) /\ Outer(t).pc = "makeSpace"
      BY <1>4 DEF StackOK, FrameOK
    <2>2. life[Outer(t).filter] = "live" /\ Outer(t).filter \in Filters  BY InnerFrame
    <2>3. life[Inner(t).filter] # "live"
      BY <1>4, InnerFrame DEF FrameOK, Fits, Pcs
    <2> QED  BY <2>1, <2>2, <2>3, <1>1, <1>5
  <1>7. Landing(t, Depth(t), fr, Outer(t))
    <2>1. Fits(fr.pc, life'[fr.filter])  BY <1>2, <1>5
    <2>2. Depth(t) = 1 => t \in Makers  BY <1>4 DEF StackOK
    <2>3. \A g \in Filters : life'[g] \in BusyLives =>
             g = Subject(t) \/ (life[g] \in BusyLives /\ g \notin Used(t))
      BY <1>1, <1>5, InnerFrame DEF Used, BusyLives
    <2> HIDE DEF fr
    <2> QED  BY <1>1, <1>2, <1>4, <1>6, <2>1, <2>2, <2>3 DEF Landing, StackOK
  <1>8. OthersLeft(t)  BY <1>1, <1>5 DEF OthersLeft
  <1> QED  BY <1>3, <1>7, <1>8, StackKept

\* A thread has done with its filter.
LEMMA ReturnKeeps ==
    ASSUME TypeInv, StackInv, NEW t \in Threads, Depth(t) > 0, Return(t),
           \A g \in Filters : life'[g] # life[g] => g = Subject(t) \/ Free(g),
           \A g \in Filters : life'[g] # life[g] \/ g = Subject(t) => life'[g] \notin BusyLives,
           copyOf' = copyOf
    PROVE  /\ StackInv'
           /\ \A o : StackEffect(t, Depth(t) - 1, Outer(t), o)
  <1>1. Depth(t) \in 1..2 /\ Subject(t) = Inner(t).filter /\ Inner(t).filter \in Used(t)  BY InnerFrame
  <1>2. \A o : StackEffect(t, Depth(t) - 1, Outer(t), o)  BY <1>1, ReturnEffect
  <1>3. StackOK(t)  BY DEF StackInv
  <1>4. Depth(t) = 2 => /\ Outer(t) \in Frames /\ Fits(Outer(t).pc, life'[Outer(t).filter])
                        /\ Outer(t).filter \in Used(t) /\ Outer(t).pc = "makeSpace"
    <2> HAVE Depth(t) = 2
    <2>1. /\ life[Outer(t).filter] = "live" /\ Outer(t).filter \in Filters
          /\ Outer(t).filter \in Used(t) /\ Outer(t).pc = "makeSpace"
      BY InnerFrame
    <2>2. life[Inner(t).filter] # "live"
      BY <1>3, InnerFrame DEF FrameOK, Fits, Pcs, StackOK
    <2>3. ~Free(Outer(t).filter)  BY <2>1 DEF Free
    <2>4. life'[Outer(t).filter] = life[Outer(t).filter]  BY <1>1, <2>1, <2>2, <2>3
    <2> QED  BY <1>3, <2>1, <2>4 DEF StackOK, FrameOK
  <1>7. \A g \in Filters : life'[g] \in BusyLives => life[g] \in BusyLives /\ g \notin Used(t)
    BY <1>1, InnerFrame DEF Used, BusyLives
  <1>5. Landing(t, Depth(t) - 1, Outer(t), Outer(t))
    BY <1>1, <1>4, <1>7 DEF Landing, CallPcs, BuildingPcs, CountedPcs
  <1>6. OthersLeft(t)  BY <1>1 DEF OthersLeft
  <1> QED  BY <1>2, <1>5, <1>6, StackKept

\* A thread begins with a filter that nobody is busy with.
LEMMA EnterKeeps ==
    ASSUME TypeInv, StackInv, NEW t \in Threads, NEW pc \in Pcs, NEW f \in Filters, Enter(t, pc, f),
           Free(f), NEW l, life' = [life EXCEPT ![f] = l],
           \A g \in Filters : g # f => copyOf'[g] = copyOf[g],
           Fits(pc, l), pc \notin LastPcs,
           Depth(t) = 0 \/ (Depth(t) = 1 /\ Inner(t).pc = "makeSpace" /\ pc \in DyingPcs),
           Depth(t) = 0 /\ pc \notin CallPcs => t \in Makers,
           pc \in BuildingPcs \cup CountedPcs => copyOf'[f] = NoFilter
    PROVE  /\ StackInv'
           /\ StackEffect(t, Depth(t) + 1, Frame(pc, f, 0), Inner(t))
  <1> DEFINE fr == Frame(pc, f, 0)
  <1>1. fr \in Frames /\ fr.pc = pc /\ fr.filter = f  BY FrameType
  <1>2. StackEffect(t, Depth(t) + 1, fr, Inner(t))  BY <1>1, EnterEffect
  <1>3. life'[f] = l /\ \A g \in Filters : g # f => life'[g] = life[g]  BY DEF TypeInv
  <1>4. Depth(t) = 1 => /\ Inner(t) \in Frames /\ Fits(Inner(t).pc, life'[Inner(t).filter])
                        /\ Inner(t).filter \in Used(t)
    <2> HAVE Depth(t) = 1
    <2>1. Inner(t) \in Frames /\ Fits(Inner(t).pc, life[Inner(t).filter])
          /\ Inner(t).filter \in Used(t) /\ Inner(t).filter \in Filters
      BY InnerFrame DEF FrameOK
    <2> QED  BY <1>3, <2>1 DEF Free
  <1>5. Landing(t, Depth(t) + 1, fr, Inner(t))
    <2>1. Fits(fr.pc, life'[fr.filter])  BY <1>1, <1>3
    <2>2. pc \in DyingPcs => pc \notin CallPcs \cup LastPcs \cup BuildingPcs \cup CountedPcs
      BY DEF DyingPcs, CallPcs, LastPcs, BuildingPcs, CountedPcs
    <2>3. \A g \in Filters : life'[g] \in BusyLives =>
             g = f \/ (life[g] \in BusyLives /\ g \notin Used(t))
      <3> SUFFICES ASSUME NEW g \in Filters, life'[g] \in BusyLives, g # f
                   PROVE  life[g] \in BusyLives /\ g \notin Used(t)
        OBVIOUS
      <3>1. life[g] \in BusyLives  BY <1>3
      <3>2. Depth(t) = 1 => life[Inner(t).filter] = "live"
        BY InnerFrame DEF FrameOK, Fits, Pcs, CallPcs
      <3> QED  BY <3>1, <3>2 DEF Used, BusyLives
    <2> HIDE DEF fr
    <2> QED  BY <1>1, <1>4, <2>1, <2>2, <2>3 DEF Landing
  <1>6. OthersLeft(t)  BY <1>3 DEF OthersLeft
  <1> QED  BY <1>2, <1>5, <1>6, StackKept

-----------------------------------------------------------------------------
(* Filters that count, and filters that have the manager.                  *)

CountedLives == {"counted", "live", "copied", "cached", "leaked", "dying"}
ManagedLives == {"live", "copied", "cached"}

LEMMA CountedAfter ==
    ASSUME TypeInv, NEW f \in Filters, NEW l, life' = [life EXCEPT ![f] = l]
    PROVE  /\ l \in CountedLives => Counted' = Counted \cup {f}
           /\ l \notin CountedLives => Counted' = Counted \ {f}
           /\ f \in Counted <=> life[f] \in CountedLives
           /\ (life[f] \in CountedLives <=> l \in CountedLives) => Counted' = Counted
           /\ life'[f] = l /\ \A g \in Filters : g # f => life'[g] = life[g]
  BY DEF Counted, CountedLives, TypeInv

\* A step that leaves the manager alone, and comes to no place where it matters.
LEMMA ManagerUntouched ==
    ASSUME ManagerInv, NEW t \in Threads, NEW d, NEW i, NEW o, StackEffect(t, d, i, o),
           cacheManager' = cacheManager, alive' = alive,
           Counted' \subseteq Counted \/ \A u \in Threads : u # t => ~IsLast(u),
           ~Reaches(t, "reset"),
           d > 0 => i.pc \notin LastPcs \cup {"ctorCreate", "register"},
           \A f \in Filters : life'[f] \in ManagedLives => life[f] \in ManagedLives /\ uses'[f] = uses[f],
           \A f \in Filters : life'[f] = "leaked" => life[f] \in ManagedLives \cup {"leaked"},
           (\E f \in Filters : life[f] # "none") => \E f \in Filters : life'[f] # "none"
    PROVE  ManagerInv'
  <1>1. \A f \in Filters : life'[f] \in ManagedLives => uses'[f] = cacheManager' /\ cacheManager' # NoManager
    BY DEF ManagerInv, ManagedLives
  <1>2. cacheManager' # NoManager => \E f \in Filters : life'[f] # "none"  BY DEF ManagerInv
  <1>4. \A f \in Filters : life'[f] = "leaked" => cacheManager' # NoManager
    BY DEF ManagerInv, ManagedLives
  <1>3. Managed(t, d, i)  BY <1>1, <1>2, <1>4 DEF Managed, LastPcs, ManagedLives
  <1> QED  BY <1>3, ManagerKept DEF LastPcs

LEMMA IdleDepth ==
    ASSUME TypeInv, NEW t \in Threads, Idle(t)
    PROVE  Depth(t) = 0 /\ ~Reaches(t, "reset") /\ ~Locked(t)
  BY DEF Idle, Depth, Reaches, Locked

-----------------------------------------------------------------------------
(* Every step preserves the invariant.                                     *)

LEMMA Initially == Init => Inv
  <1> SUFFICES ASSUME Init PROVE Inv  OBVIOUS
  <1>1. TypeInv
    <2>1. <<>> \in Seq(Frames)  OBVIOUS
    <2> QED  BY <2>1, FilterAssumption DEF Init, TypeInv, Lives
  <1>2. \A u \in Threads : Depth(u) = 0  BY DEF Init, Depth
  <1>3. StackInv  BY <1>2 DEF Init, StackInv, StackOK, Used, BusyLives
  <1>4. Counted = {}  BY DEF Init, Counted
  <1>5. CountInv  BY <1>2, <1>4, FS_EmptySet DEF CountInv, Init, Locked, Reaches
  <1>6. ManagerInv  BY <1>2, <1>4 DEF ManagerInv, Init, IsLast, Reaches
  <1> QED  BY <1>1, <1>3, <1>5, <1>6 DEF Inv

LEMMA NewFilterKeeps ==
    ASSUME OneAtATime, Inv, NEW t \in Threads, NEW f \in Filters, NewFilter(t, f)
    PROVE  Inv'
  <1> DEFINE fr == Frame("ctorLock", f, 0)
  <1>1. TypeInv /\ StackInv /\ CountInv /\ ManagerInv  BY DEF Inv
  <1>2. Depth(t) = 0 /\ ~Reaches(t, "reset")  BY <1>1, IdleDepth DEF NewFilter
  <1>3. Free(f)  BY <1>1, UsedLives DEF NewFilter, Free
  <1>4. "ctorLock" \in Pcs /\ "ctorLock" \notin LastPcs \cup CallPcs \cup {"ctorCreate", "register"} \cup LockedPcs
        /\ Fits("ctorLock", "building")
    BY DEF Pcs, BuildingPcs, CountedPcs, DyingPcs, DeadPcs, LastPcs, CallPcs, Fits, LockedPcs
  <1>5. /\ life' = [life EXCEPT ![f] = "building"] /\ copyOf' = [copyOf EXCEPT ![f] = NoFilter]
        /\ t \in Makers /\ life[f] = "none" /\ Enter(t, "ctorLock", f)
        /\ uses' = uses /\ cacheManager' = cacheManager /\ alive' = alive
        /\ mutexOwner' = mutexOwner /\ cacheInstanceCounter' = cacheInstanceCounter
    BY DEF NewFilter, Become, managerVars, lockVars
  <1>6. copyOf'[f] = NoFilter /\ \A g \in Filters : g # f => copyOf'[g] = copyOf[g]
    BY <1>1, <1>5 DEF TypeInv
  <1>7. StackInv' /\ StackEffect(t, 1, fr, Inner(t))
    <2>1. StackInv' /\ StackEffect(t, Depth(t) + 1, fr, Inner(t))
      BY <1>1, <1>2, <1>3, <1>4, <1>5, <1>6, EnterKeeps
    <2> QED  BY <1>2, <2>1
  <1>8. fr.pc = "ctorLock"  BY DEF Frame
  <1>9. TypeInv'
    BY <1>1, <1>7 DEF TypeInv, NewFilter, Become, Lives, managerVars, lockVars, StackEffect
  <1>10. Counted' = Counted /\ life'[f] = "building" /\ \A g \in Filters : g # f => life'[g] = life[g]
    <2>1. "none" \notin CountedLives /\ "building" \notin CountedLives  BY DEF CountedLives
    <2> QED  BY <1>1, <1>5, <2>1, CountedAfter
  <1> HIDE DEF fr
  <1>11. CountInv'  BY <1>1, <1>4, <1>5, <1>7, <1>8, <1>10, CountKept
  <1>12. ManagerInv'
    BY <1>1, <1>2, <1>4, <1>5, <1>7, <1>8, <1>10, ManagerUntouched DEF ManagedLives
  <1> QED  BY <1>7, <1>9, <1>11, <1>12 DEF Inv

LEMMA CtorLockKeeps ==
    ASSUME OneAtATime, Inv, NEW t \in Threads, CtorLock(t),
           \A u \in Threads : u # t => ~Locked(u)
    PROVE  Inv'
  <1> DEFINE f == Subject(t)  fr == Frame("ctorCount", Subject(t), cacheInstanceCounter)
  <1>1. TypeInv /\ StackInv /\ CountInv /\ ManagerInv  BY DEF Inv
  <1>2. Reaches(t, "ctorLock") /\ Depth(t) > 0 /\ Inner(t).pc = "ctorLock"  BY <1>1, AtReaches DEF CtorLock, Reaches
  <1>3. Depth(t) \in 1..2 /\ f \in Filters /\ f = Inner(t).filter /\ life[f] = "building" /\ f \in Used(t)
    BY <1>1, <1>2, InnerFrame DEF FrameOK, Fits, Pcs, BuildingPcs, CountedPcs, DyingPcs, DeadPcs, LastPcs, CallPcs, LockedPcs
  <1>4. /\ "ctorCount" \in Pcs /\ Fits("ctorCount", "building") /\ "ctorCount" \notin CallPcs /\ "ctorLock" \notin CallPcs
        /\ "ctorCount" \notin LastPcs \cup {"ctorCreate", "register"} /\ "ctorCount" \in LockedPcs
        /\ "ctorCount" \in BuildingPcs \cup CountedPcs => "ctorLock" \in BuildingPcs \cup CountedPcs
    BY DEF Pcs, BuildingPcs, CountedPcs, DyingPcs, DeadPcs, LastPcs, CallPcs, Fits, LockedPcs
  <1>5. Goto(t, "ctorCount", cacheInstanceCounter) /\ uses' = uses /\ copyOf' = copyOf
        /\ cacheManager' = cacheManager /\ alive' = alive /\ cacheInstanceCounter' = cacheInstanceCounter
    BY DEF CtorLock, managerVars, lockVars, filterVars
  <1>6. life' = life /\ life' = [life EXCEPT ![f] = "building"]
    BY <1>1, <1>3 DEF CtorLock, filterVars, TypeInv
  <1>7. cacheInstanceCounter \in Nat \cup Managers \cup {NoManager}  BY <1>1 DEF TypeInv
  <1>8. StackInv' /\ StackEffect(t, Depth(t), fr, Outer(t))
    BY <1>1, <1>2, <1>3, <1>4, <1>5, <1>6, <1>7, GotoKeeps
  <1>9. fr.pc = "ctorCount" /\ fr.filter = f /\ fr.read = cacheInstanceCounter  BY DEF Frame
  <1>10. Counted' = Counted /\ \A g \in Filters : life'[g] = life[g]  BY <1>6 DEF Counted
  <1>11. TypeInv'
    BY <1>1, <1>3, <1>8 DEF TypeInv, CtorLock, Become, SetOwner, Lives, managerVars, lockVars, filterVars, StackEffect
  <1> HIDE DEF f, fr
  <1>12. CountInv'
    <2>1. CanLock(t) /\ SetOwner(t, t)  BY DEF CtorLock
    <2>2. \A u \in Threads : u # t => ~Locked(u)  OBVIOUS
    <2>3. mutexOwner'[ClassOf[fr.filter]] = t
      BY <1>1, <1>3, <1>9, <2>1, ClassAssumption DEF SetOwner, TypeInv, f
    <2>4. cacheInstanceCounter' = Cardinality(Counted)'  BY <1>1, <1>5, <1>10 DEF CountInv
    <2> QED  BY <1>4, <1>5, <1>8, <1>9, <2>2, <2>3, <2>4, CountMoved
  <1>13. ManagerInv'
    BY <1>1, <1>2, <1>4, <1>5, <1>6, <1>8, <1>9, <1>10, ManagerUntouched DEF ManagedLives, Reaches
  <1> QED  BY <1>8, <1>11, <1>12, <1>13 DEF Inv

LEMMA DtorLockKeeps ==
    ASSUME OneAtATime, Inv, NEW t \in Threads, DtorLock(t),
           \A u \in Threads : u # t => ~Locked(u)
    PROVE  Inv'
  <1> DEFINE f == Subject(t)  fr == Frame("dtorCount", Subject(t), cacheInstanceCounter)
  <1>1. TypeInv /\ StackInv /\ CountInv /\ ManagerInv  BY DEF Inv
  <1>2. Reaches(t, "dtorLock") /\ Depth(t) > 0 /\ Inner(t).pc = "dtorLock"  BY <1>1, AtReaches DEF DtorLock, Reaches
  <1>3. Depth(t) \in 1..2 /\ f \in Filters /\ f = Inner(t).filter /\ life[f] = "dying" /\ f \in Used(t)
    BY <1>1, <1>2, InnerFrame DEF FrameOK, Fits, Pcs, BuildingPcs, CountedPcs, DyingPcs, DeadPcs, LastPcs, CallPcs, LockedPcs
  <1>4. /\ "dtorCount" \in Pcs /\ Fits("dtorCount", "dying") /\ "dtorCount" \notin CallPcs /\ "dtorLock" \notin CallPcs
        /\ "dtorCount" \notin LastPcs \cup {"ctorCreate", "register"} /\ "dtorCount" \in LockedPcs
        /\ "dtorCount" \in BuildingPcs \cup CountedPcs => "dtorLock" \in BuildingPcs \cup CountedPcs
    BY DEF Pcs, BuildingPcs, CountedPcs, DyingPcs, DeadPcs, LastPcs, CallPcs, Fits, LockedPcs
  <1>5. Goto(t, "dtorCount", cacheInstanceCounter) /\ uses' = uses /\ copyOf' = copyOf
        /\ cacheManager' = cacheManager /\ alive' = alive /\ cacheInstanceCounter' = cacheInstanceCounter
    BY DEF DtorLock, managerVars, lockVars, filterVars
  <1>6. life' = life /\ life' = [life EXCEPT ![f] = "dying"]
    BY <1>1, <1>3 DEF DtorLock, filterVars, TypeInv
  <1>7. cacheInstanceCounter \in Nat \cup Managers \cup {NoManager}  BY <1>1 DEF TypeInv
  <1>8. StackInv' /\ StackEffect(t, Depth(t), fr, Outer(t))
    BY <1>1, <1>2, <1>3, <1>4, <1>5, <1>6, <1>7, GotoKeeps
  <1>9. fr.pc = "dtorCount" /\ fr.filter = f /\ fr.read = cacheInstanceCounter  BY DEF Frame
  <1>10. Counted' = Counted /\ \A g \in Filters : life'[g] = life[g]  BY <1>6 DEF Counted
  <1>11. TypeInv'
    BY <1>1, <1>3, <1>8 DEF TypeInv, DtorLock, Become, SetOwner, Lives, managerVars, lockVars, filterVars, StackEffect
  <1> HIDE DEF f, fr
  <1>12. CountInv'
    <2>1. CanLock(t) /\ SetOwner(t, t)  BY DEF DtorLock
    <2>2. \A u \in Threads : u # t => ~Locked(u)  OBVIOUS
    <2>3. mutexOwner'[ClassOf[fr.filter]] = t
      BY <1>1, <1>3, <1>9, <2>1, ClassAssumption DEF SetOwner, TypeInv, f
    <2>4. cacheInstanceCounter' = Cardinality(Counted)'  BY <1>1, <1>5, <1>10 DEF CountInv
    <2> QED  BY <1>4, <1>5, <1>8, <1>9, <2>2, <2>3, <2>4, CountMoved
  <1>13. ManagerInv'
    BY <1>1, <1>2, <1>4, <1>5, <1>6, <1>8, <1>9, <1>10, ManagerUntouched DEF ManagedLives, Reaches
  <1> QED  BY <1>8, <1>11, <1>12, <1>13 DEF Inv

\* While a thread is busy no other one is about to delete the manager.
LEMMA NobodyLast ==
    ASSUME OneAtATime, Inv, NEW t \in Threads, Depth(t) > 0
    PROVE  \A u \in Threads : u # t => ~IsLast(u)
  <1> SUFFICES ASSUME NEW u \in Threads, u # t, IsLast(u) PROVE FALSE  OBVIOUS
  <1>1. Counted = {}  BY DEF Inv, ManagerInv
  <1>2. Depth(t) = 0  BY <1>1, LastAlone DEF Inv
  <1> QED  BY <1>2

LEMMA CtorCountKeeps ==
    ASSUME OneAtATime, Inv, NEW t \in Threads, CtorCount(t)
    PROVE  Inv'
  <1> DEFINE f == Subject(t)  fr == Frame("ctorCheck", Subject(t), 0)
  <1>1. TypeInv /\ StackInv /\ CountInv /\ ManagerInv  BY DEF Inv
  <1>2. Reaches(t, "ctorCount") /\ Depth(t) > 0 /\ Inner(t).pc = "ctorCount"  BY <1>1, AtReaches DEF CtorCount, Reaches
  <1>3. Depth(t) \in 1..2 /\ f \in Filters /\ f = Inner(t).filter /\ life[f] = "building" /\ f \in Used(t)
    BY <1>1, <1>2, InnerFrame DEF FrameOK, Fits, Pcs, BuildingPcs, CountedPcs, DyingPcs, DeadPcs, LastPcs, CallPcs, LockedPcs
  <1>4. /\ "ctorCheck" \in Pcs /\ Fits("ctorCheck", "counted") /\ "ctorCheck" \notin CallPcs /\ "ctorCount" \notin CallPcs
        /\ "ctorCheck" \notin LastPcs \cup {"ctorCreate", "register"} /\ "ctorCount" \in LockedPcs
        /\ "ctorCheck" \in BuildingPcs \cup CountedPcs => "ctorCount" \in BuildingPcs \cup CountedPcs
    BY DEF Pcs, BuildingPcs, CountedPcs, DyingPcs, DeadPcs, LastPcs, CallPcs, Fits, LockedPcs
  <1>5. Goto(t, "ctorCheck", 0) /\ uses' = uses /\ copyOf' = copyOf
        /\ cacheManager' = cacheManager /\ alive' = alive /\ mutexOwner' = mutexOwner
    BY DEF CtorCount, managerVars, lockVars, filterVars
  <1>6. life' = [life EXCEPT ![f] = "counted"]  BY DEF CtorCount, Become
  <1>7. 0 \in Nat \cup Managers \cup {NoManager}  OBVIOUS
  <1>8. StackInv' /\ StackEffect(t, Depth(t), fr, Outer(t))
    BY <1>1, <1>2, <1>3, <1>4, <1>5, <1>6, <1>7, GotoKeeps
  <1>9. fr.pc = "ctorCheck" /\ fr.filter = f /\ fr.read = 0  BY DEF Frame
  <1>10. /\ Counted' = Counted \cup {f} /\ f \notin Counted
         /\ life'[f] = "counted" /\ \A g \in Filters : g # f => life'[g] = life[g]
    BY <1>1, <1>3, <1>6, CountedAfter DEF CountedLives
  <1>14. cacheInstanceCounter' = Cardinality(Counted)' /\ Cardinality(Counted)' \in Nat
    <2>1. Inner(t).read = Cardinality(Counted) /\ Cardinality(Counted) \in Nat
      BY <1>1, <1>2, CountedFinite DEF CountInv
    <2>2. cacheInstanceCounter' = Inner(t).read + 1  BY DEF CtorCount, CountedUp, Inner
    <2>3. Cardinality(Counted \cup {f}) = Cardinality(Counted) + 1
      BY <1>10, CountedFinite, FS_AddElement
    <2> HIDE DEF f
    <2> QED  BY <1>10, <2>1, <2>2, <2>3
  <1>11. TypeInv'
    BY <1>1, <1>3, <1>8, <1>14 DEF TypeInv, CtorCount, Become, Lives, managerVars, lockVars, StackEffect
  <1> HIDE DEF f, fr
  <1>12. CountInv'
    <2>1. Locked(t)  BY <1>2, <1>4 DEF Locked
    <2>2. \A u \in Threads : u # t => ~Locked(u)  BY <1>1, <2>1, OneLocked
    <2>3. mutexOwner'[ClassOf[fr.filter]] = t  BY <1>1, <1>3, <1>5, <1>9, <2>1 DEF CountInv
    <2> QED  BY <1>8, <1>9, <1>14, <2>2, <2>3, CountMoved
  <1>13. ManagerInv'
    <2>1. \A u \in Threads : u # t => ~IsLast(u)  BY <1>2, NobodyLast
    <2> QED  BY <1>1, <1>2, <1>4, <1>5, <1>8, <1>9, <1>10, <2>1, ManagerUntouched
             DEF ManagedLives, Reaches
  <1> QED  BY <1>8, <1>11, <1>12, <1>13 DEF Inv

LEMMA DtorCountKeeps ==
    ASSUME OneAtATime, Inv, NEW t \in Threads, DtorCount(t)
    PROVE  Inv'
  <1> DEFINE f == Subject(t)  fr == Frame("dtorTest", Subject(t), 0)
  <1>1. TypeInv /\ StackInv /\ CountInv /\ ManagerInv  BY DEF Inv
  <1>2. Reaches(t, "dtorCount") /\ Depth(t) > 0 /\ Inner(t).pc = "dtorCount"  BY <1>1, AtReaches DEF DtorCount, Reaches
  <1>3. Depth(t) \in 1..2 /\ f \in Filters /\ f = Inner(t).filter /\ life[f] = "dying" /\ f \in Used(t)
    BY <1>1, <1>2, InnerFrame DEF FrameOK, Fits, Pcs, BuildingPcs, CountedPcs, DyingPcs, DeadPcs, LastPcs, CallPcs, LockedPcs
  <1>4. /\ "dtorTest" \in Pcs /\ Fits("dtorTest", "dead") /\ "dtorTest" \notin CallPcs /\ "dtorCount" \notin CallPcs
        /\ "dtorTest" \notin LockedPcs \cup LastPcs \cup {"ctorCreate", "register"} /\ "dtorCount" \in LockedPcs
        /\ "dtorTest" \in BuildingPcs \cup CountedPcs => "dtorCount" \in BuildingPcs \cup CountedPcs
    BY DEF Pcs, BuildingPcs, CountedPcs, DyingPcs, DeadPcs, LastPcs, CallPcs, Fits, LockedPcs
  <1>5. Goto(t, "dtorTest", 0) /\ uses' = uses /\ copyOf' = copyOf
        /\ cacheManager' = cacheManager /\ alive' = alive
    BY DEF DtorCount, managerVars, lockVars, filterVars
  <1>6. life' = [life EXCEPT ![f] = "dead"]  BY DEF DtorCount, Become
  <1>7. 0 \in Nat \cup Managers \cup {NoManager}  OBVIOUS
  <1>8. StackInv' /\ StackEffect(t, Depth(t), fr, Outer(t))
    BY <1>1, <1>2, <1>3, <1>4, <1>5, <1>6, <1>7, GotoKeeps
  <1>9. fr.pc = "dtorTest" /\ fr.filter = f /\ fr.read = 0  BY DEF Frame
  <1>10. /\ Counted' = Counted \ {f} /\ f \in Counted
         /\ life'[f] = "dead" /\ \A g \in Filters : g # f => life'[g] = life[g]
    BY ZenonT(60), <1>1, <1>3, <1>6, CountedAfter DEF CountedLives
  <1>14. cacheInstanceCounter' = Cardinality(Counted)' /\ Cardinality(Counted)' \in Nat
    <2>1. Inner(t).read = Cardinality(Counted) /\ Cardinality(Counted) \in Nat
      BY <1>1, <1>2, CountedFinite DEF CountInv
    <2>2. cacheInstanceCounter' = Inner(t).read - 1  BY DEF DtorCount, Inner
    <2>3. /\ Cardinality(Counted \ {f}) = Cardinality(Counted) - 1
          /\ Cardinality(Counted \ {f}) \in Nat
      BY <1>10, CountedFinite, FS_RemoveElement, FS_CardinalityType
    <2> HIDE DEF f
    <2> QED  BY <1>10, <2>1, <2>2, <2>3
  <1>11. TypeInv'
    BY <1>1, <1>3, <1>8, <1>14 DEF TypeInv, DtorCount, Become, SetOwner, Lives, managerVars, StackEffect
  <1> HIDE DEF f, fr
  <1>12. CountInv'
    <2>1. Locked(t)  BY <1>2, <1>4 DEF Locked
    <2>2. \A u \in Threads : u # t => ~Locked(u)  BY <1>1, <2>1, OneLocked
    <2> QED  BY <1>4, <1>8, <1>9, <1>14, <2>2, CountMoved DEF LockedPcs
  <1>13. ManagerInv'
    <2>1. Counted' \subseteq Counted  BY <1>10
    <2> QED  BY <1>1, <1>2, <1>3, <1>4, <1>5, <1>8, <1>9, <1>10, <2>1, ManagerUntouched
             DEF ManagedLives, Reaches
  <1> QED  BY <1>8, <1>11, <1>12, <1>13 DEF Inv

LEMMA CtorFindManagerKeeps ==
    ASSUME OneAtATime, Inv, NEW t \in Threads, CtorFindManager(t)
    PROVE  Inv'
  <1> DEFINE f == Subject(t)  fr == Frame("register", Subject(t), 0)
  <1>1. TypeInv /\ StackInv /\ CountInv /\ ManagerInv  BY DEF Inv
  <1>2. Reaches(t, "ctorCheck") /\ Depth(t) > 0 /\ Inner(t).pc = "ctorCheck"  BY <1>1, AtReaches DEF CtorFindManager, Reaches
  <1>3. Depth(t) \in 1..2 /\ f \in Filters /\ f = Inner(t).filter /\ life[f] = "counted" /\ f \in Used(t)
    BY <1>1, <1>2, InnerFrame DEF FrameOK, Fits, Pcs, BuildingPcs, CountedPcs, DyingPcs, DeadPcs, LastPcs, CallPcs, LockedPcs
  <1>4. /\ "register" \in Pcs /\ Fits("register", "counted") /\ "register" \notin CallPcs /\ "ctorCheck" \notin CallPcs
        /\ "register" \notin LastPcs \cup LockedPcs /\ "ctorCheck" \in LockedPcs
        /\ "register" \in BuildingPcs \cup CountedPcs => "ctorCheck" \in BuildingPcs \cup CountedPcs
    BY DEF Pcs, BuildingPcs, CountedPcs, DyingPcs, DeadPcs, LastPcs, CallPcs, Fits, LockedPcs
  <1>5. Goto(t, "register", 0) /\ uses' = uses /\ copyOf' = copyOf
        /\ cacheManager' = cacheManager /\ alive' = alive /\ cacheInstanceCounter' = cacheInstanceCounter
    BY DEF CtorFindManager, managerVars, lockVars, filterVars
  <1>6. life' = life /\ life' = [life EXCEPT ![f] = "counted"]
    BY <1>1, <1>3 DEF CtorFindManager, filterVars, TypeInv
  <1>7. 0 \in Nat \cup Managers \cup {NoManager}  OBVIOUS
  <1>8. StackInv' /\ StackEffect(t, Depth(t), fr, Outer(t))
    BY <1>1, <1>2, <1>3, <1>4, <1>5, <1>6, <1>7, GotoKeeps
  <1>9. fr.pc = "register" /\ fr.filter = f /\ fr.read = 0  BY DEF Frame
  <1>10. Counted' = Counted /\ \A g \in Filters : life'[g] = life[g]  BY <1>6 DEF Counted
  <1>11. TypeInv'
    BY <1>1, <1>3, <1>8 DEF TypeInv, CtorFindManager, Become, SetOwner, Lives, managerVars, lockVars, filterVars, StackEffect
  <1> HIDE DEF f, fr
  <1>12. CountInv'
    <2>1. Locked(t)  BY <1>2, <1>4 DEF Locked
    <2>2. \A u \in Threads : u # t => ~Locked(u)  BY <1>1, <2>1, OneLocked
    <2>3. cacheInstanceCounter' = Cardinality(Counted)'  BY <1>1, <1>5, <1>10 DEF CountInv
    <2> QED  BY <1>4, <1>8, <1>9, <2>2, <2>3, CountMoved DEF LockedPcs
  <1>13. ManagerInv'
    <2>1. cacheManager # NoManager  BY DEF CtorFindManager, Uninitialized
    <2>2. Managed(t, Depth(t), fr)
      BY <1>1, <1>4, <1>5, <1>6, <1>9, <2>1 DEF Managed, ManagerInv, LastPcs
    <2> QED  BY <1>1, <1>2, <1>4, <1>5, <1>8, <1>9, <1>10, <2>2, ManagerKept DEF Reaches
  <1> QED  BY <1>8, <1>11, <1>12, <1>13 DEF Inv

LEMMA CtorMissManagerKeeps ==
    ASSUME OneAtATime, Inv, NEW t \in Threads, CtorMissManager(t)
    PROVE  Inv'
  <1> DEFINE f == Subject(t)  fr == Frame("ctorCreate", Subject(t), 0)
  <1>1. TypeInv /\ StackInv /\ CountInv /\ ManagerInv  BY DEF Inv
  <1>2. Reaches(t, "ctorCheck") /\ Depth(t) > 0 /\ Inner(t).pc = "ctorCheck"  BY <1>1, AtReaches DEF CtorMissManager, Reaches
  <1>3. Depth(t) \in 1..2 /\ f \in Filters /\ f = Inner(t).filter /\ life[f] = "counted" /\ f \in Used(t)
    BY <1>1, <1>2, InnerFrame DEF FrameOK, Fits, Pcs, BuildingPcs, CountedPcs, DyingPcs, DeadPcs, LastPcs, CallPcs, LockedPcs
  <1>4. /\ "ctorCreate" \in Pcs /\ Fits("ctorCreate", "counted") /\ "ctorCreate" \notin CallPcs /\ "ctorCheck" \notin CallPcs
        /\ "ctorCreate" \notin LastPcs /\ "ctorCheck" \in LockedPcs
        /\ "ctorCreate" \in BuildingPcs \cup CountedPcs => "ctorCheck" \in BuildingPcs \cup CountedPcs
    BY DEF Pcs, BuildingPcs, CountedPcs, DyingPcs, DeadPcs, LastPcs, CallPcs, Fits, LockedPcs
  <1>5. Goto(t, "ctorCreate", 0) /\ uses' = uses /\ copyOf' = copyOf
        /\ cacheManager' = cacheManager /\ alive' = alive /\ mutexOwner' = mutexOwner /\ cacheInstanceCounter' = cacheInstanceCounter
    BY DEF CtorMissManager, managerVars, lockVars, filterVars
  <1>6. life' = life /\ life' = [life EXCEPT ![f] = "counted"]
    BY <1>1, <1>3 DEF CtorMissManager, filterVars, TypeInv
  <1>7. 0 \in Nat \cup Managers \cup {NoManager}  OBVIOUS
  <1>8. StackInv' /\ StackEffect(t, Depth(t), fr, Outer(t))
    BY <1>1, <1>2, <1>3, <1>4, <1>5, <1>6, <1>7, GotoKeeps
  <1>9. fr.pc = "ctorCreate" /\ fr.filter = f /\ fr.read = 0  BY DEF Frame
  <1>10. Counted' = Counted /\ \A g \in Filters : life'[g] = life[g]  BY <1>6 DEF Counted
  <1>11. TypeInv'
    BY <1>1, <1>3, <1>8 DEF TypeInv, CtorMissManager, Become, SetOwner, Lives, managerVars, lockVars, filterVars, StackEffect
  <1> HIDE DEF f, fr
  <1>12. CountInv'
    <2>1. Locked(t)  BY <1>2, <1>4 DEF Locked
    <2> QED  BY <1>1, <1>2, <1>5, <1>8, <1>9, <1>10, <1>3, <2>1, CountKept
  <1>13. ManagerInv'
    <2>1. cacheManager = NoManager  BY DEF CtorMissManager, Uninitialized
    <2>2. Managed(t, Depth(t), fr)
      BY <1>1, <1>4, <1>5, <1>6, <1>9, <2>1 DEF Managed, ManagerInv, LastPcs
    <2> QED  BY <1>1, <1>2, <1>4, <1>5, <1>8, <1>9, <1>10, <2>2, ManagerKept DEF Reaches
  <1> QED  BY <1>8, <1>11, <1>12, <1>13 DEF Inv

LEMMA CtorCreateManagerKeeps ==
    ASSUME OneAtATime, Inv, NEW t \in Threads, CtorCreateManager(t)
    PROVE  Inv'
  <1> DEFINE f == Subject(t)  fr == Frame("register", Subject(t), 0)
  <1>1. TypeInv /\ StackInv /\ CountInv /\ ManagerInv  BY DEF Inv
  <1>2. Reaches(t, "ctorCreate") /\ Depth(t) > 0 /\ Inner(t).pc = "ctorCreate"  BY <1>1, AtReaches DEF CtorCreateManager, Reaches
  <1>3. Depth(t) \in 1..2 /\ f \in Filters /\ f = Inner(t).filter /\ life[f] = "counted" /\ f \in Used(t)
    BY <1>1, <1>2, InnerFrame DEF FrameOK, Fits, Pcs, BuildingPcs, CountedPcs, DyingPcs, DeadPcs, LastPcs, CallPcs, LockedPcs
  <1>4. /\ "register" \in Pcs /\ Fits("register", "counted") /\ "register" \notin CallPcs /\ "ctorCreate" \notin CallPcs
        /\ "register" \notin LastPcs \cup LockedPcs /\ "ctorCreate" \in LockedPcs
        /\ "register" \in BuildingPcs \cup CountedPcs => "ctorCreate" \in BuildingPcs \cup CountedPcs
    BY DEF Pcs, BuildingPcs, CountedPcs, DyingPcs, DeadPcs, LastPcs, CallPcs, Fits, LockedPcs
  <1>5. Goto(t, "register", 0) /\ uses' = uses /\ copyOf' = copyOf
        /\ cacheInstanceCounter' = cacheInstanceCounter
    BY DEF CtorCreateManager, managerVars, lockVars, filterVars
  <1>6. life' = life /\ life' = [life EXCEPT ![f] = "counted"]
    BY <1>1, <1>3 DEF CtorCreateManager, filterVars, TypeInv
  <1>7. 0 \in Nat \cup Managers \cup {NoManager}  OBVIOUS
  <1>8. StackInv' /\ StackEffect(t, Depth(t), fr, Outer(t))
    BY <1>1, <1>2, <1>3, <1>4, <1>5, <1>6, <1>7, GotoKeeps
  <1>9. fr.pc = "register" /\ fr.filter = f /\ fr.read = 0  BY DEF Frame
  <1>10. Counted' = Counted /\ \A g \in Filters : life'[g] = life[g]  BY <1>6 DEF Counted
  <1>11. TypeInv'
    <2>1. PICK m \in Managers \ alive : cacheManager' = m /\ alive' = alive \cup {m}
      BY DEF CtorCreateManager
    <2> QED  BY <1>1, <1>3, <1>8, <2>1
             DEF TypeInv, CtorCreateManager, SetOwner, Lives, filterVars, StackEffect
  <1> HIDE DEF f, fr
  <1>12. CountInv'
    <2>1. Locked(t)  BY <1>2, <1>4 DEF Locked
    <2>2. \A u \in Threads : u # t => ~Locked(u)  BY <1>1, <2>1, OneLocked
    <2>3. cacheInstanceCounter' = Cardinality(Counted)'  BY <1>1, <1>5, <1>10 DEF CountInv
    <2> QED  BY <1>4, <1>8, <1>9, <2>2, <2>3, CountMoved DEF LockedPcs
  <1>13. ManagerInv'
    <2>1. PICK m \in Managers \ alive : cacheManager' = m /\ alive' = alive \cup {m}
      BY DEF CtorCreateManager
    <2>2. m # NoManager  BY FilterAssumption
    <2>3. cacheManager = NoManager  BY <1>1, <1>2 DEF ManagerInv
    <2>4. \A u \in Threads : u # t => ~IsLast(u)  BY <1>2, NobodyLast
    <2>5. \A u \in Threads : ~Reaches(u, "reset")
      BY <1>2, <2>4 DEF IsLast, Reaches, LastPcs
    <2>6. alive' = {cacheManager'} \ {NoManager}  BY <1>1, <2>1, <2>2, <2>3, <2>5 DEF ManagerInv
    <2>7. \A u \in Threads : u # t => ~Reaches(u, "ctorCreate")
      BY <1>1, <1>2, <1>4, OneLocked DEF Locked, Reaches
    <2>8. \A g \in Filters : life[g] \notin {"live", "copied", "cached"}
      BY <1>1, <2>3 DEF ManagerInv
    <2>9. Managed(t, Depth(t), fr)
      BY <1>3, <1>4, <1>6, <1>9, <2>1, <2>2, <2>8 DEF Managed, LastPcs, f
    <2> QED  BY <1>8, <2>1, <2>2, <2>4, <2>6, <2>7, <2>9, ManagerMoved
  <1> QED  BY <1>8, <1>11, <1>12, <1>13 DEF Inv

LEMMA DtorLastKeeps ==
    ASSUME OneAtATime, Inv, NEW t \in Threads, DtorLast(t)
    PROVE  Inv'
  <1> DEFINE f == Subject(t)  fr == Frame("delete", Subject(t), NoManager)
  <1>1. TypeInv /\ StackInv /\ CountInv /\ ManagerInv  BY DEF Inv
  <1>2. Reaches(t, "dtorTest") /\ Depth(t) > 0 /\ Inner(t).pc = "dtorTest"  BY <1>1, AtReaches DEF DtorLast, Reaches
  <1>3. Depth(t) \in 1..2 /\ f \in Filters /\ f = Inner(t).filter /\ life[f] = "dead" /\ f \in Used(t)
    BY <1>1, <1>2, InnerFrame DEF FrameOK, Fits, Pcs, BuildingPcs, CountedPcs, DyingPcs, DeadPcs, LastPcs, CallPcs, LockedPcs
  <1>4. /\ "delete" \in Pcs /\ Fits("delete", "dead") /\ "delete" \notin CallPcs /\ "dtorTest" \notin CallPcs
        /\ "delete" \in LastPcs /\ "delete" \notin LockedPcs
        /\ "delete" \in BuildingPcs \cup CountedPcs => "dtorTest" \in BuildingPcs \cup CountedPcs
    BY DEF Pcs, BuildingPcs, CountedPcs, DyingPcs, DeadPcs, LastPcs, CallPcs, Fits, LockedPcs
  <1>5. Goto(t, "delete", NoManager) /\ uses' = uses /\ copyOf' = copyOf
        /\ cacheManager' = cacheManager /\ alive' = alive /\ mutexOwner' = mutexOwner /\ cacheInstanceCounter' = cacheInstanceCounter
    BY DEF DtorLast, managerVars, lockVars, filterVars
  <1>6. life' = life /\ life' = [life EXCEPT ![f] = "dead"]
    BY <1>1, <1>3 DEF DtorLast, filterVars, TypeInv
  <1>7. NoManager \in Nat \cup Managers \cup {NoManager}  OBVIOUS
  <1>7a. Counted = {}
    <2>1. cacheInstanceCounter = 0  BY DEF DtorLast, WasLast
    <2> QED  BY <1>1, <2>1, CountedFinite DEF CountInv
  <1>7b. Depth(t) = 1  BY <1>1, <1>3, <1>7a, InnerFrame DEF Counted
  <1>8. StackInv' /\ StackEffect(t, Depth(t), fr, Outer(t))
    BY <1>1, <1>2, <1>3, <1>4, <1>5, <1>6, <1>7, <1>7b, GotoKeeps
  <1>9. fr.pc = "delete" /\ fr.filter = f /\ fr.read = NoManager  BY DEF Frame
  <1>10. Counted' = Counted /\ \A g \in Filters : life'[g] = life[g]  BY <1>6 DEF Counted
  <1>11. TypeInv'
    BY <1>1, <1>3, <1>8 DEF TypeInv, DtorLast, Become, SetOwner, Lives, managerVars, lockVars, filterVars, StackEffect
  <1> HIDE DEF f, fr
  <1>12. CountInv'
    BY <1>1, <1>4, <1>5, <1>8, <1>9, <1>10, CountKept
  <1>13. ManagerInv'
    <2>1. Managed(t, Depth(t), fr)
      BY <1>1, <1>5, <1>6, <1>7a, <1>9, <1>10 DEF Managed, ManagerInv
    <2> QED  BY <1>1, <1>2, <1>5, <1>8, <1>9, <1>10, <2>1, ManagerKept DEF Reaches
  <1> QED  BY <1>8, <1>11, <1>12, <1>13 DEF Inv

LEMMA BeginDeleteKeeps ==
    ASSUME OneAtATime, Inv, NEW t \in Threads, BeginDelete(t)
    PROVE  Inv'
  <1> DEFINE f == Subject(t)
             pc == IF cacheManager = NoManager THEN "reset" ELSE "deleting"
             fr == Frame(pc, f, cacheManager)
  <1>1. TypeInv /\ StackInv /\ CountInv /\ ManagerInv  BY DEF Inv
  <1>2. Reaches(t, "delete") /\ Depth(t) > 0 /\ Inner(t).pc = "delete"
    BY <1>1, AtReaches DEF BeginDelete, Reaches
  <1>3. Depth(t) \in 1..2 /\ f \in Filters /\ f = Inner(t).filter /\ life[f] = "dead" /\ f \in Used(t)
    BY <1>1, <1>2, InnerFrame DEF FrameOK, Fits, Pcs, BuildingPcs, CountedPcs, DyingPcs, DeadPcs, LastPcs, CallPcs, LockedPcs
  <1>4. /\ pc \in Pcs /\ Fits(pc, "dead") /\ pc \notin CallPcs \cup LockedPcs /\ "delete" \notin CallPcs
        /\ pc \notin BuildingPcs \cup CountedPcs /\ pc \in LastPcs /\ "delete" \in LastPcs
    BY DEF Pcs, BuildingPcs, CountedPcs, DyingPcs, DeadPcs, LastPcs, CallPcs, Fits, LockedPcs
  <1>5. Goto(t, pc, cacheManager) /\ uses' = uses /\ copyOf' = copyOf
        /\ cacheManager' = cacheManager /\ alive' = alive /\ mutexOwner' = mutexOwner
        /\ cacheInstanceCounter' = cacheInstanceCounter
    BY DEF BeginDelete, managerVars, lockVars, filterVars
  <1>6. life' = life /\ life' = [life EXCEPT ![f] = "dead"]
    BY <1>1, <1>3 DEF BeginDelete, filterVars, TypeInv
  <1>7. cacheManager \in Nat \cup Managers \cup {NoManager}  BY <1>1 DEF TypeInv
  <1>7a. IsLast(t) /\ Counted = {}  BY <1>1, <1>2, <1>4 DEF IsLast, ManagerInv
  <1>7b. Depth(t) = 1 /\ \A u \in Threads : u # t => ~Reaches(u, "reset")
    BY <1>1, <1>7a, LastAlone DEF Reaches
  <1>9. fr.pc = pc /\ fr.filter = f /\ fr.read = cacheManager  BY DEF Frame
  <1>8. StackInv' /\ StackEffect(t, Depth(t), fr, Outer(t))
    <2> HIDE DEF pc
    <2> QED  BY <1>1, <1>2, <1>3, <1>4, <1>5, <1>6, <1>7, <1>7b, GotoKeeps
  <1>10. Counted' = Counted /\ \A g \in Filters : life'[g] = life[g]  BY <1>6 DEF Counted
  <1>11. TypeInv'
    BY <1>1, <1>3, <1>8 DEF TypeInv, BeginDelete, Become, SetOwner, Lives, managerVars, lockVars, filterVars, StackEffect
  <1> HIDE DEF f, fr
  <1>12. CountInv'
    <2> HIDE DEF pc
    <2> QED  BY <1>1, <1>4, <1>5, <1>8, <1>9, <1>10, CountKept
  <1>13. ManagerInv'
    <2>1. alive = {cacheManager} \ {NoManager}
      <3>1. \A u \in Threads : ~Reaches(u, "reset")  BY <1>2, <1>7b DEF Reaches
      <3> QED  BY <1>1, <3>1 DEF ManagerInv
    <2>2. Managed(t, Depth(t), fr)
      BY <1>1, <1>5, <1>6, <1>7a, <1>9, <1>10, <2>1 DEF Managed, ManagerInv
    <2> QED  BY <1>1, <1>5, <1>8, <1>10, <2>1, <2>2, ManagerKept
  <1> QED  BY <1>8, <1>11, <1>12, <1>13 DEF Inv

LEMMA DeleteManagerKeeps ==
    ASSUME OneAtATime, Inv, NEW t \in Threads, DeleteManager(t)
    PROVE  Inv'
  <1> DEFINE f == Subject(t)  fr == Frame("reset", Subject(t), NoManager)
  <1>1. TypeInv /\ StackInv /\ CountInv /\ ManagerInv  BY DEF Inv
  <1>2. Reaches(t, "deleting") /\ Depth(t) > 0 /\ Inner(t).pc = "deleting"  BY <1>1, AtReaches DEF DeleteManager, Reaches
  <1>3. Depth(t) \in 1..2 /\ f \in Filters /\ f = Inner(t).filter /\ life[f] = "dead" /\ f \in Used(t)
    BY <1>1, <1>2, InnerFrame DEF FrameOK, Fits, Pcs, BuildingPcs, CountedPcs, DyingPcs, DeadPcs, LastPcs, CallPcs, LockedPcs
  <1>4. /\ "reset" \in Pcs /\ Fits("reset", "dead") /\ "reset" \notin CallPcs /\ "deleting" \notin CallPcs
        /\ "reset" \in LastPcs /\ "deleting" \in LastPcs /\ "reset" \notin LockedPcs
        /\ "reset" \in BuildingPcs \cup CountedPcs => "deleting" \in BuildingPcs \cup CountedPcs
    BY DEF Pcs, BuildingPcs, CountedPcs, DyingPcs, DeadPcs, LastPcs, CallPcs, Fits, LockedPcs
  <1>5. Goto(t, "reset", NoManager) /\ uses' = uses /\ copyOf' = copyOf
        /\ cacheManager' = cacheManager /\ mutexOwner' = mutexOwner /\ cacheInstanceCounter' = cacheInstanceCounter
    BY DEF DeleteManager, managerVars, lockVars, filterVars
  <1>6. life' = life /\ life' = [life EXCEPT ![f] = "dead"]
    BY <1>1, <1>3 DEF DeleteManager, filterVars, TypeInv
  <1>7. NoManager \in Nat \cup Managers \cup {NoManager}  OBVIOUS
  <1>7a. IsLast(t) /\ Counted = {}  BY <1>1, <1>2, <1>4 DEF IsLast, ManagerInv
  <1>7b. Depth(t) = 1 /\ \A u \in Threads : u # t => Depth(u) = 0
    BY <1>1, <1>7a, LastAlone
  <1>8. StackInv' /\ StackEffect(t, Depth(t), fr, Outer(t))
    BY <1>1, <1>2, <1>3, <1>4, <1>5, <1>6, <1>7, <1>7b, GotoKeeps
  <1>9. fr.pc = "reset" /\ fr.filter = f /\ fr.read = NoManager  BY DEF Frame
  <1>10. Counted' = Counted /\ \A g \in Filters : life'[g] = life[g]  BY <1>6 DEF Counted
  <1>11. TypeInv'
    BY <1>1, <1>3, <1>8 DEF TypeInv, DeleteManager, Become, SetOwner, Lives, managerVars, lockVars, filterVars, StackEffect
  <1> HIDE DEF f, fr
  <1>12. CountInv'
    BY <1>1, <1>4, <1>5, <1>8, <1>9, <1>10, CountKept
  <1>13. ManagerInv'
    <2>1. alive' = {}
      <3>1. \A u \in Threads : ~Reaches(u, "reset")  BY <1>2, <1>7b DEF Reaches
      <3>2. alive' = alive \ {cacheManager}
        BY <1>1, <1>2 DEF ManagerInv, DeleteManager, Inner
      <3> QED  BY <1>1, <3>1, <3>2 DEF ManagerInv
    <2>2. Managed(t, Depth(t), fr)
      BY <1>1, <1>5, <1>6, <1>7a, <1>9, <1>10, <2>1 DEF Managed, ManagerInv
    <2>3. \A u \in Threads : u # t =>
             ~IsLast(u) /\ ~Reaches(u, "ctorCreate") /\ ~Reaches(u, "register")
      BY <1>7b DEF IsLast, Reaches
    <2> QED  BY <1>2, <1>8, <1>9, <2>2, <2>3, ManagerMoved
  <1> QED  BY <1>8, <1>11, <1>12, <1>13 DEF Inv

LEMMA DtorOthersLeftKeeps ==
    ASSUME OneAtATime, Inv, NEW t \in Threads, DtorOthersLeft(t)
    PROVE  Inv'
  <1> DEFINE f == Subject(t)  d == Depth(t) - 1
  <1>1. TypeInv /\ StackInv /\ CountInv /\ ManagerInv  BY DEF Inv
  <1>2. Reaches(t, "dtorTest") /\ Depth(t) > 0 /\ Inner(t).pc = "dtorTest"  BY <1>1, AtReaches DEF DtorOthersLeft, Reaches
  <1>3. /\ Depth(t) \in 1..2 /\ f \in Filters /\ f = Inner(t).filter /\ life[f] = "dead" /\ f \in Used(t)
        /\ d > 0 => d = 1 /\ Outer(t).pc = "makeSpace"
    BY <1>1, <1>2, InnerFrame DEF FrameOK, Fits, Pcs, BuildingPcs, CountedPcs, DyingPcs, DeadPcs, LastPcs, CallPcs, LockedPcs
  <1>4. "makeSpace" \notin LastPcs \cup LockedPcs \cup {"ctorCreate", "register"}
    BY DEF LastPcs, LockedPcs
  <1>5. Return(t) /\ uses' = uses /\ copyOf' = copyOf
        /\ cacheManager' = cacheManager /\ alive' = alive /\ mutexOwner' = mutexOwner /\ cacheInstanceCounter' = cacheInstanceCounter
    BY DEF DtorOthersLeft, managerVars, lockVars, filterVars
  <1>6. /\ life' = [life EXCEPT ![f] = "none"] /\ life'[f] = "none"
        /\ \A g \in Filters : g # f => life'[g] = life[g]
    BY <1>1, <1>3 DEF DtorOthersLeft, Become, TypeInv
  <1>7. StackInv' /\ StackEffect(t, d, Outer(t), Outer(t))
    <2>1. \A g \in Filters : life'[g] # life[g] \/ g = Subject(t) => life'[g] \notin BusyLives
      BY <1>3, <1>6 DEF BusyLives
    <2> QED  BY <1>1, <1>2, <1>5, <1>6, <2>1, ReturnKeeps
  <1>8. TypeInv'
    BY <1>1, <1>3, <1>7 DEF TypeInv, DtorOthersLeft, Become, Unlock, Lives, managerVars, lockVars, filterVars, StackEffect
  <1>9. Counted' = Counted
    <2>1. "dead" \notin CountedLives /\ "none" \notin CountedLives  BY DEF CountedLives
    <2> QED  BY <1>1, <1>3, <1>6, <2>1, CountedAfter
  <1> HIDE DEF f, d
  <1>10. CountInv'
    BY <1>1, <1>3, <1>4, <1>5, <1>7, <1>9, CountKept
  <1>11. ManagerInv'
    <2>1. \E g \in Filters : life'[g] # "none"
      <3>1. cacheInstanceCounter # 0  BY DEF DtorOthersLeft, WasLast
      <3>2. Counted # {}  BY <1>1, <3>1, FS_EmptySet DEF CountInv
      <3>3. PICK g \in Counted : TRUE  BY <3>2
      <3>4. g # f /\ g \in Filters /\ life[g] # "none"  BY <1>3, <3>3 DEF Counted
      <3> QED  BY <1>6, <3>4
    <2>2. \A g \in Filters : life'[g] \in ManagedLives => life[g] \in ManagedLives /\ uses'[g] = uses[g]
      BY <1>5, <1>6 DEF ManagedLives
    <2>3. \A g \in Filters : life'[g] = "leaked" => life[g] = "leaked"  BY <1>6
    <2> QED  BY <1>1, <1>2, <1>3, <1>4, <1>5, <1>7, <1>9, <2>1, <2>2, <2>3, ManagerUntouched DEF Reaches
  <1> QED  BY <1>7, <1>8, <1>10, <1>11 DEF Inv

LEMMA ResetManagerKeeps ==
    ASSUME OneAtATime, Inv, NEW t \in Threads, ResetManager(t)
    PROVE  Inv'
  <1> DEFINE f == Subject(t)  d == Depth(t) - 1
  <1>1. TypeInv /\ StackInv /\ CountInv /\ ManagerInv  BY DEF Inv
  <1>2. Reaches(t, "reset") /\ Depth(t) > 0 /\ Inner(t).pc = "reset"  BY <1>1, AtReaches DEF ResetManager, Reaches
  <1>3. /\ Depth(t) \in 1..2 /\ f \in Filters /\ f = Inner(t).filter /\ life[f] = "dead" /\ f \in Used(t)
        /\ d > 0 => d = 1 /\ Outer(t).pc = "makeSpace"
    BY <1>1, <1>2, InnerFrame DEF FrameOK, Fits, Pcs, BuildingPcs, CountedPcs, DyingPcs, DeadPcs, LastPcs, CallPcs, LockedPcs
  <1>4. "makeSpace" \notin LastPcs \cup LockedPcs \cup {"ctorCreate", "register"} /\ "reset" \in LastPcs
    BY DEF LastPcs, LockedPcs
  <1>5. Return(t) /\ uses' = uses /\ copyOf' = copyOf
        /\ alive' = alive /\ mutexOwner' = mutexOwner /\ cacheInstanceCounter' = cacheInstanceCounter
    BY DEF ResetManager, managerVars, lockVars, filterVars
  <1>6. /\ life' = [life EXCEPT ![f] = "none"] /\ life'[f] = "none"
        /\ \A g \in Filters : g # f => life'[g] = life[g]
    BY <1>1, <1>3 DEF ResetManager, Become, TypeInv
  <1>7. StackInv' /\ StackEffect(t, d, Outer(t), Outer(t))
    <2>1. \A g \in Filters : life'[g] # life[g] \/ g = Subject(t) => life'[g] \notin BusyLives
      BY <1>3, <1>6 DEF BusyLives
    <2> QED  BY <1>1, <1>2, <1>5, <1>6, <2>1, ReturnKeeps
  <1>8. TypeInv'
    BY <1>1, <1>3, <1>7 DEF TypeInv, ResetManager, Become, Unlock, Lives, managerVars, lockVars, filterVars, StackEffect
  <1>9. Counted' = Counted
    <2>1. "dead" \notin CountedLives /\ "none" \notin CountedLives  BY DEF CountedLives
    <2> QED  BY <1>1, <1>3, <1>6, <2>1, CountedAfter
  <1> HIDE DEF f, d
  <1>10. CountInv'
    BY <1>1, <1>3, <1>4, <1>5, <1>7, <1>9, CountKept
  <1>11. ManagerInv'
    <2>1. IsLast(t) /\ Counted = {}  BY <1>1, <1>2, <1>4 DEF IsLast, ManagerInv
    <2>2. Depth(t) = 1 /\ \A u \in Threads : u # t => Depth(u) = 0  BY <1>1, <2>1, LastAlone
    <2>3. cacheManager' = NoManager /\ alive' = {}
      BY <1>1, <1>2, <1>5 DEF ResetManager, ManagerInv
    <2>4. \A g \in Filters : life'[g] \notin {"live", "copied", "cached", "leaked"}
      BY <2>1, <1>9 DEF Counted
    <2>5. d = 0  BY <2>2 DEF d
    <2>6. Managed(t, d, Outer(t))  BY <2>3, <2>4, <2>5 DEF Managed
    <2>7. \A u \in Threads : u # t =>
             ~IsLast(u) /\ ~Reaches(u, "ctorCreate") /\ ~Reaches(u, "register")
      BY <2>2 DEF IsLast, Reaches
    <2> QED  BY <1>7, <2>3, <2>6, <2>7, ManagerMoved
  <1> QED  BY <1>7, <1>8, <1>10, <1>11 DEF Inv

LEMMA ReturnAtOnceKeeps ==
    ASSUME OneAtATime, Inv, NEW t \in Threads, ReturnAtOnce(t)
    PROVE  Inv'
  <1> DEFINE f == Subject(t)  d == Depth(t) - 1
  <1>1. TypeInv /\ StackInv /\ CountInv /\ ManagerInv  BY DEF Inv
  <1>2. Reaches(t, "call") /\ Depth(t) > 0 /\ Inner(t).pc = "call"  BY <1>1, AtReaches DEF ReturnAtOnce, Reaches
  <1>3. /\ Depth(t) \in 1..2 /\ f \in Filters /\ f = Inner(t).filter /\ life[f] = "live" /\ f \in Used(t)
        /\ d > 0 => d = 1 /\ Outer(t).pc = "makeSpace"
    BY <1>1, <1>2, InnerFrame DEF FrameOK, Fits, Pcs, BuildingPcs, CountedPcs, DyingPcs, DeadPcs, LastPcs, CallPcs, LockedPcs
  <1>4. "makeSpace" \notin LastPcs \cup LockedPcs \cup {"ctorCreate", "register"}
    BY DEF LastPcs, LockedPcs
  <1>5. Return(t) /\ uses' = uses /\ copyOf' = copyOf
        /\ cacheManager' = cacheManager /\ alive' = alive /\ mutexOwner' = mutexOwner /\ cacheInstanceCounter' = cacheInstanceCounter
    BY DEF ReturnAtOnce, managerVars, lockVars, filterVars
  <1>6. life' = life  BY DEF ReturnAtOnce, filterVars
  <1>7. StackInv' /\ StackEffect(t, d, Outer(t), Outer(t))
    <2>1. \A g \in Filters : life'[g] # life[g] \/ g = Subject(t) => life'[g] \notin BusyLives
      BY <1>3, <1>6 DEF BusyLives
    <2> QED  BY <1>1, <1>2, <1>5, <1>6, <2>1, ReturnKeeps
  <1>8. TypeInv'
    <2>1. uses[f] \in Managers  BY <1>1, <1>3 DEF TypeInv, ManagerInv
    <2> QED  BY <1>1, <1>7, <2>1 DEF TypeInv, ReturnAtOnce, Unlock, Lives, managerVars, filterVars, StackEffect
  <1>9. Counted' = Counted  BY <1>6 DEF Counted
  <1> HIDE DEF f, d
  <1>10. CountInv'
    BY <1>1, <1>3, <1>4, <1>5, <1>7, <1>9, CountKept
  <1>11. ManagerInv'
    BY <1>1, <1>2, <1>3, <1>4, <1>5, <1>6, <1>7, <1>9, ManagerUntouched DEF ManagedLives, Reaches
  <1> QED  BY <1>7, <1>8, <1>10, <1>11 DEF Inv

LEMMA ReturnStoredKeeps ==
    ASSUME OneAtATime, Inv, NEW t \in Threads, ReturnStored(t)
    PROVE  Inv'
  <1> DEFINE f == Subject(t)  d == Depth(t) - 1
  <1>1. TypeInv /\ StackInv /\ CountInv /\ ManagerInv  BY DEF Inv
  <1>2. Reaches(t, "makeSpace") /\ Depth(t) > 0 /\ Inner(t).pc = "makeSpace"  BY <1>1, AtReaches DEF ReturnStored, Reaches
  <1>3. /\ Depth(t) \in 1..2 /\ f \in Filters /\ f = Inner(t).filter /\ life[f] = "live" /\ f \in Used(t)
        /\ d > 0 => d = 1 /\ Outer(t).pc = "makeSpace"
    BY <1>1, <1>2, InnerFrame DEF FrameOK, Fits, Pcs, BuildingPcs, CountedPcs, DyingPcs, DeadPcs, LastPcs, CallPcs, LockedPcs
  <1>4. "makeSpace" \notin LastPcs \cup LockedPcs \cup {"ctorCreate", "register"}
    BY DEF LastPcs, LockedPcs
  <1>5. Return(t) /\ uses' = uses /\ copyOf' = copyOf
        /\ cacheManager' = cacheManager /\ alive' = alive /\ mutexOwner' = mutexOwner /\ cacheInstanceCounter' = cacheInstanceCounter
    BY DEF ReturnStored, managerVars, lockVars, filterVars
  <1>6. \A g \in Filters :
           \/ life'[g] = life[g]
           \/ life[g] = "copied" /\ life'[g] = "cached"
    BY DEF ReturnStored
  <1>6a. \A g \in Filters : life[g] = "copied" => Free(g)  BY <1>1, UsedLives DEF Free
  <1>7. StackInv' /\ StackEffect(t, d, Outer(t), Outer(t))
    <2>1. \A g \in Filters : life'[g] # life[g] \/ g = Subject(t) => life'[g] \notin BusyLives
      BY <1>3, <1>6 DEF BusyLives
    <2> QED  BY <1>1, <1>2, <1>5, <1>6, <1>6a, <2>1, ReturnKeeps
  <1>8. TypeInv'
    <2>1. uses[f] \in Managers  BY <1>1, <1>3 DEF TypeInv, ManagerInv
    <2> QED  BY <1>1, <1>7, <2>1 DEF TypeInv, ReturnStored, Unlock, Lives, managerVars, filterVars, StackEffect
  <1>9. Counted' = Counted  BY <1>6 DEF Counted
  <1> HIDE DEF f, d
  <1>10. CountInv'
    BY <1>1, <1>3, <1>4, <1>5, <1>7, <1>9, CountKept
  <1>11. ManagerInv'
    BY <1>1, <1>2, <1>3, <1>4, <1>5, <1>6, <1>7, <1>9, ManagerUntouched DEF ManagedLives, Reaches
  <1> QED  BY <1>7, <1>8, <1>10, <1>11 DEF Inv

LEMMA RegisterKeeps ==
    ASSUME OneAtATime, Inv, NEW t \in Threads, Register(t)
    PROVE  Inv'
  <1> DEFINE f == Subject(t)  d == Depth(t) - 1
  <1>1. TypeInv /\ StackInv /\ CountInv /\ ManagerInv  BY DEF Inv
  <1>2. Reaches(t, "register") /\ Depth(t) > 0 /\ Inner(t).pc = "register"  BY <1>1, AtReaches DEF Register, Reaches
  <1>3. /\ Depth(t) \in 1..2 /\ f \in Filters /\ f = Inner(t).filter /\ life[f] = "counted" /\ f \in Used(t)
        /\ d > 0 => d = 1 /\ Outer(t).pc = "makeSpace"
    BY <1>1, <1>2, InnerFrame DEF FrameOK, Fits, Pcs, BuildingPcs, CountedPcs, DyingPcs, DeadPcs, LastPcs, CallPcs, LockedPcs
  <1>4. "makeSpace" \notin LastPcs \cup LockedPcs \cup {"ctorCreate", "register"}
        /\ "register" \in CountedPcs /\ "register" \notin LastPcs
    BY DEF LastPcs, LockedPcs, CountedPcs
  <1>5. Return(t) /\ copyOf' = copyOf /\ cacheManager' = cacheManager
        /\ alive' = alive /\ mutexOwner' = mutexOwner /\ cacheInstanceCounter' = cacheInstanceCounter
    BY DEF Register, managerVars, lockVars, filterVars
  <1>6. \E l \in {"live", "copied"} : life' = [life EXCEPT ![f] = l] /\ life'[f] = l
    BY <1>1, <1>3 DEF Register, Become, TypeInv
  <1>6a. \A g \in Filters : g # f => life'[g] = life[g] /\ uses'[g] = uses[g]
    BY <1>1, <1>3 DEF Register, Become, TypeInv
  <1>6b. uses'[f] = cacheManager /\ cacheManager # NoManager
    <2>1. StackOK(t)  BY <1>1 DEF StackInv
    <2>2. CASE Depth(t) = 1
      <3>1. copyOf[f] = NoFilter  BY <1>2, <1>3, <1>4, <2>1, <2>2 DEF StackOK
      <3> QED  BY <1>1, <1>3, <3>1 DEF Register, TypeInv
    <2>3. CASE Depth(t) = 2
      <3>1. copyOf[f] = Outer(t).filter /\ Outer(t).filter \in Filters /\ life[Outer(t).filter] = "live"
        BY <1>1, <1>2, <1>3, <1>4, <2>1, <2>3, InnerFrame DEF StackOK
      <3>2. uses[copyOf[f]] = cacheManager  BY <1>1, <3>1 DEF ManagerInv
      <3>3. copyOf[f] # NoFilter  BY <3>1, FilterAssumption
      <3> QED  BY <1>1, <1>3, <3>2, <3>3 DEF Register, TypeInv
    <2> QED  BY <1>3, <2>2, <2>3
  <1>7. StackInv' /\ StackEffect(t, d, Outer(t), Outer(t))
    <2>1. \A g \in Filters : life'[g] # life[g] \/ g = Subject(t) => life'[g] \notin BusyLives
      BY <1>3, <1>6 DEF BusyLives
    <2> QED  BY <1>1, <1>2, <1>5, <1>6, <1>6a, <2>1, ReturnKeeps
  <1>8. TypeInv'
    <2>1. uses' \in [Filters -> Managers \cup {NoManager}]
      BY <1>1, <1>3, <1>6b DEF Register, TypeInv
    <2>2. life' \in [Filters -> Lives]  BY <1>1, <1>6 DEF TypeInv, Lives
    <2> QED  BY <1>1, <1>7, <2>1, <2>2 DEF TypeInv, Register, managerVars, lockVars, StackEffect
  <1>9. Counted' = Counted
    <2>1. "counted" \in CountedLives /\ "live" \in CountedLives /\ "copied" \in CountedLives
      BY DEF CountedLives
    <2> QED  BY ZenonT(60), <1>1, <1>3, <1>6, <2>1, CountedAfter
  <1> HIDE DEF f, d
  <1>10. CountInv'
    BY <1>1, <1>3, <1>4, <1>5, <1>7, <1>9, CountKept
  <1>11. ManagerInv'
    <2>1. \A g \in Filters : life'[g] \in {"live", "copied", "cached"} =>
             uses'[g] = cacheManager /\ cacheManager # NoManager
      BY <1>1, <1>6a, <1>6b DEF ManagerInv
    <2>2. \E g \in Filters : life'[g] # "none"  BY <1>3, <1>6
    <2>4. cacheManager # NoManager  BY <1>1, <1>2 DEF ManagerInv
    <2>3. Managed(t, d, Outer(t))  BY <1>3, <1>4, <1>5, <2>1, <2>2, <2>4 DEF Managed
    <2> QED  BY <1>1, <1>2, <1>4, <1>5, <1>7, <1>9, <2>3, ManagerKept DEF Reaches
  <1> QED  BY <1>7, <1>8, <1>10, <1>11 DEF Inv

LEMMA DeleteFilterKeeps ==
    ASSUME OneAtATime, Inv, NEW t \in Threads, NEW f \in Filters, DeleteFilter(t, f)
    PROVE  Inv'
  <1> DEFINE fr == Frame("dtorLock", f, 0)
  <1>1. TypeInv /\ StackInv /\ CountInv /\ ManagerInv  BY DEF Inv
  <1>2. Depth(t) = 0 /\ ~Reaches(t, "reset")  BY <1>1, IdleDepth DEF DeleteFilter
  <1>3. Free(f)  BY <1>1, NotInUse DEF DeleteFilter, Free
  <1>4. "dtorLock" \in Pcs /\ "dtorLock" \notin LastPcs \cup {"ctorCreate", "register"} \cup LockedPcs
        /\ "dtorLock" \notin BuildingPcs \cup CountedPcs /\ Fits("dtorLock", "dying")
    BY DEF Pcs, BuildingPcs, CountedPcs, DyingPcs, DeadPcs, LastPcs, CallPcs, Fits, LockedPcs
  <1>5. /\ life[f] = "live" /\ life' = [life EXCEPT ![f] = "dying"] /\ Enter(t, "dtorLock", f)
        /\ uses' = uses /\ copyOf' = copyOf /\ cacheManager' = cacheManager /\ alive' = alive
        /\ mutexOwner' = mutexOwner /\ cacheInstanceCounter' = cacheInstanceCounter
    BY <1>1 DEF DeleteFilter, Become, managerVars, lockVars, filterVars, TypeInv
  <1>6. t \in Makers  BY DEF DeleteFilter
  <1>7. StackInv' /\ StackEffect(t, 1, fr, Inner(t))
    <2>1. StackInv' /\ StackEffect(t, Depth(t) + 1, fr, Inner(t))
      BY <1>1, <1>2, <1>3, <1>4, <1>5, <1>6, EnterKeeps
    <2> QED  BY <1>2, <2>1
  <1>8. fr.pc = "dtorLock"  BY DEF Frame
  <1>9. TypeInv'
    BY <1>1, <1>5, <1>7 DEF TypeInv, DeleteFilter, Lives, managerVars, lockVars, StackEffect
  <1>10. Counted' = Counted /\ life'[f] = "dying" /\ \A g \in Filters : g # f => life'[g] = life[g]
    <2>1. "live" \in CountedLives /\ "dying" \in CountedLives  BY DEF CountedLives
    <2> QED  BY <1>1, <1>5, <2>1, CountedAfter
  <1> HIDE DEF fr
  <1>11. CountInv'  BY <1>1, <1>4, <1>5, <1>7, <1>8, <1>10, CountKept
  <1>12. ManagerInv'
    BY <1>1, <1>2, <1>4, <1>5, <1>7, <1>8, <1>10, ManagerUntouched DEF ManagedLives
  <1> QED  BY <1>7, <1>9, <1>11, <1>12 DEF Inv

LEMMA RequestDataKeeps ==
    ASSUME OneAtATime, Inv, NEW t \in Threads, NEW f \in Filters, RequestData(t, f)
    PROVE  Inv'
  <1> DEFINE fr == Frame("call", f, 0)
  <1>1. TypeInv /\ StackInv /\ CountInv /\ ManagerInv  BY DEF Inv
  <1>2. Depth(t) = 0 /\ ~Reaches(t, "reset")  BY <1>1, IdleDepth DEF RequestData
  <1>3. Free(f)  BY <1>1, NotInUse DEF RequestData, Free
  <1>4. "call" \in Pcs /\ "call" \notin LastPcs \cup {"ctorCreate", "register"} \cup LockedPcs
        /\ "call" \notin BuildingPcs \cup CountedPcs /\ Fits("call", "live")
    BY DEF Pcs, BuildingPcs, CountedPcs, DyingPcs, DeadPcs, LastPcs, CallPcs, Fits, LockedPcs
  <1>5. /\ life[f] = "live" /\ life' = [life EXCEPT ![f] = "live"] /\ Enter(t, "call", f)
        /\ uses' = uses /\ copyOf' = copyOf /\ cacheManager' = cacheManager /\ alive' = alive
        /\ mutexOwner' = mutexOwner /\ cacheInstanceCounter' = cacheInstanceCounter
    BY <1>1 DEF RequestData, Become, managerVars, lockVars, filterVars, TypeInv
  <1>6. "call" \in CallPcs  BY DEF CallPcs
  <1>7. StackInv' /\ StackEffect(t, 1, fr, Inner(t))
    <2>1. StackInv' /\ StackEffect(t, Depth(t) + 1, fr, Inner(t))
      BY <1>1, <1>2, <1>3, <1>4, <1>5, <1>6, EnterKeeps
    <2> QED  BY <1>2, <2>1
  <1>8. fr.pc = "call"  BY DEF Frame
  <1>9. TypeInv'
    BY <1>1, <1>5, <1>7 DEF TypeInv, RequestData, filterVars, managerVars, StackEffect
  <1>10. Counted' = Counted /\ life'[f] = "live" /\ \A g \in Filters : g # f => life'[g] = life[g]
    <2>1. "live" \in CountedLives /\ "live" \in CountedLives  BY DEF CountedLives
    <2> QED  BY <1>1, <1>5, <2>1, CountedAfter
  <1> HIDE DEF fr
  <1>11. CountInv'  BY <1>1, <1>4, <1>5, <1>7, <1>8, <1>10, CountKept
  <1>12. ManagerInv'
    BY <1>1, <1>2, <1>4, <1>5, <1>7, <1>8, <1>10, ManagerUntouched DEF ManagedLives
  <1> QED  BY <1>7, <1>9, <1>11, <1>12 DEF Inv

LEMMA CopyFilterKeeps ==
    ASSUME OneAtATime, Inv, NEW t \in Threads, NEW f \in Filters, CopyFilter(t, f)
    PROVE  Inv'
  <1> DEFINE s == Subject(t)
             i == Frame("ctorLock", f, 0)
             o == Frame("makeSpace", s, uses[s])
  <1>1. TypeInv /\ StackInv /\ CountInv /\ ManagerInv  BY DEF Inv
  <1>2. Reaches(t, "call") /\ Depth(t) > 0 /\ Inner(t).pc = "call"  BY <1>1, AtReaches DEF CopyFilter, Reaches
  <1>3. /\ Depth(t) \in 1..2 /\ s \in Filters /\ s = Inner(t).filter /\ life[s] = "live" /\ s \in Used(t)
        /\ uses[s] \in Nat \cup Managers \cup {NoManager}
    BY <1>1, <1>2, InnerFrame DEF FrameOK, Fits, CallPcs, TypeInv
  <1>4. Depth(t) = 1  BY <1>1, <1>2, <1>3 DEF StackInv, StackOK, CallPcs
  <1>5. Free(f)  BY <1>1, UsedLives DEF CopyFilter, Free
  <1>6. /\ life[f] = "none" /\ life' = [life EXCEPT ![f] = "building"]
        /\ copyOf' = [copyOf EXCEPT ![f] = s]
        /\ stack' = [stack EXCEPT ![t] = <<i, o>> \o Tail(@)]
        /\ uses' = uses /\ cacheManager' = cacheManager /\ alive' = alive
        /\ mutexOwner' = mutexOwner /\ cacheInstanceCounter' = cacheInstanceCounter
    BY DEF CopyFilter, Become, managerVars, lockVars, Subject
  <1>7. /\ i \in Frames /\ i.pc = "ctorLock" /\ i.filter = f
        /\ o \in Frames /\ o.pc = "makeSpace" /\ o.filter = s
    <2>1. "ctorLock" \in Pcs /\ "makeSpace" \in Pcs  BY DEF Pcs, BuildingPcs, CallPcs
    <2>2. f \in Filters /\ s \in Filters /\ 0 \in Nat \cup Managers \cup {NoManager}  BY <1>3
    <2>3. i \in Frames /\ i.pc = "ctorLock" /\ i.filter = f  BY <2>1, <2>2, FrameType
    <2> HIDE DEF s
    <2>4. uses[s] \in Managers \cup {NoManager}  BY <1>1, <2>2 DEF TypeInv
    <2>5. o \in Frames /\ o.pc = "makeSpace" /\ o.filter = s
      BY <2>2, <2>4 DEF Frame, Frames, CallPcs
    <2> QED  BY <2>3, <2>5
  <1> HIDE DEF i, o
  <1>8. StackEffect(t, 2, i, o)  BY <1>1, <1>4, <1>6, <1>7, CopyEffect
  <1>9. /\ life'[f] = "building" /\ copyOf'[f] = s /\ f # s
        /\ \A g \in Filters : g # f => life'[g] = life[g] /\ copyOf'[g] = copyOf[g]
    BY <1>1, <1>3, <1>6 DEF TypeInv
  <1>9a. \A g \in Filters : life'[g] \in BusyLives =>
            g = f \/ (life[g] \in BusyLives /\ g \notin Used(t))
    BY <1>3, <1>4, <1>9 DEF Used, BusyLives
  <1>10. Landing(t, 2, i, o)
    BY <1>3, <1>5, <1>7, <1>9, <1>9a
    DEF Landing, Fits, BuildingPcs, CountedPcs, DyingPcs, DeadPcs, LastPcs, CallPcs
  <1>11. OthersLeft(t)  BY <1>5, <1>9 DEF OthersLeft
  <1>12. StackInv'  BY <1>1, <1>8, <1>10, <1>11, StackKept
  <1>13. TypeInv'
    <2>1. copyOf' \in [Filters -> Filters \cup {NoFilter}]  BY <1>1, <1>3, <1>6 DEF TypeInv
    <2>2. refs' \in [Filters -> 1..MaxRefs]
      <3>1. PICK n \in 1..MaxRefs : refs' = [refs EXCEPT ![f] = n]  BY DEF CopyFilter
      <3> QED  BY <1>1, <3>1 DEF TypeInv
    <2> HIDE DEF s
    <2> QED  BY <1>1, <1>6, <1>8, <2>1, <2>2 DEF TypeInv, CopyFilter, Lives, lockVars, StackEffect
  <1>14. Counted' = Counted
    <2>1. "none" \notin CountedLives /\ "building" \notin CountedLives  BY DEF CountedLives
    <2> QED  BY <1>1, <1>6, <2>1, CountedAfter
  <1>15. i.pc \notin LastPcs \cup LockedPcs \cup {"ctorCreate", "register"}
    BY <1>7 DEF LastPcs, LockedPcs
  <1>16. CountInv'  BY <1>1, <1>6, <1>8, <1>14, <1>15, CountKept
  <1>17. ManagerInv'
    BY <1>1, <1>2, <1>6, <1>8, <1>9, <1>14, <1>15, ManagerUntouched DEF ManagedLives, Reaches
  <1> QED  BY <1>12, <1>13, <1>16, <1>17 DEF Inv

\* Copies count, so the destructor of a manager has none to destroy; makeSpace may.
LEMMA DestroyCopyKeeps ==
    ASSUME OneAtATime, Inv, NEW t \in Threads, NEW f \in Filters, DestroyCopy(t, f)
    PROVE  Inv'
  <1>1. TypeInv /\ StackInv /\ CountInv /\ ManagerInv  BY DEF Inv
  <1>2. life[f] = "cached" /\ f \in Counted  BY DEF DestroyCopy, CachedIn, Counted
  <1>3. Depth(t) > 0 /\ Inner(t).pc \in {"deleting", "makeSpace"}
    BY <1>1, AtReaches DEF DestroyCopy, Reaches
  <1>4. Inner(t).pc = "makeSpace"
    <2>1. Inner(t).pc # "deleting"  BY <1>1, <1>2, <1>3 DEF ManagerInv, IsLast, LastPcs
    <2> QED  BY <1>3, <2>1
  <1>5. Depth(t) = 1 /\ ~Reaches(t, "reset")
    BY <1>1, <1>3, <1>4, InnerFrame DEF StackInv, StackOK, CallPcs, Reaches
  <1>6. Free(f)  BY <1>1, <1>2, UsedLives DEF Free
  <1>7. /\ uses' = uses /\ copyOf' = copyOf /\ cacheManager' = cacheManager /\ alive' = alive
        /\ mutexOwner' = mutexOwner /\ cacheInstanceCounter' = cacheInstanceCounter
        /\ Destroy(t, f)
    BY DEF DestroyCopy, managerVars, lockVars
  <1>8. CASE refs[f] = 1
    <2> DEFINE fr == Frame("dtorLock", f, 0)
    <2>1. life' = [life EXCEPT ![f] = "dying"] /\ Enter(t, "dtorLock", f)
      BY <1>7, <1>8 DEF Destroy, Become
    <2>2. /\ "dtorLock" \in Pcs /\ "dtorLock" \in DyingPcs /\ Fits("dtorLock", "dying")
          /\ "dtorLock" \notin LastPcs \cup LockedPcs \cup {"ctorCreate", "register"}
          /\ "dtorLock" \notin BuildingPcs \cup CountedPcs
      BY DEF Pcs, BuildingPcs, CountedPcs, DyingPcs, DeadPcs, LastPcs, CallPcs, Fits, LockedPcs
    <2>3. StackInv' /\ StackEffect(t, 2, fr, Inner(t))
      <3>1. StackInv' /\ StackEffect(t, Depth(t) + 1, fr, Inner(t))
        <4>1. \A g \in Filters : g # f => copyOf'[g] = copyOf[g]  BY <1>7
        <4>2. "dtorLock" \notin LastPcs  BY <2>2
        <4>3. Depth(t) # 0  BY <1>5
        <4> QED  BY <1>1, <1>4, <1>5, <1>6, <2>1, <2>2, <4>1, <4>2, <4>3, EnterKeeps
      <3> QED  BY <1>5, <3>1
    <2>4. fr.pc = "dtorLock"  BY DEF Frame
    <2>5. TypeInv'
      BY <1>1, <1>7, <2>1, <2>3 DEF TypeInv, DestroyCopy, Lives, lockVars, StackEffect
    <2>6. Counted' = Counted /\ life'[f] = "dying" /\ \A g \in Filters : g # f => life'[g] = life[g]
      <3>1. "cached" \in CountedLives /\ "dying" \in CountedLives  BY DEF CountedLives
      <3> QED  BY <1>1, <1>2, <2>1, <3>1, CountedAfter
    <2> HIDE DEF fr
    <2>7. CountInv'  BY <1>1, <1>7, <2>2, <2>3, <2>4, <2>6, CountKept
    <2>8. ManagerInv'
      BY <1>1, <1>5, <1>7, <2>2, <2>3, <2>4, <2>6, ManagerUntouched DEF ManagedLives
    <2> QED  BY <2>3, <2>5, <2>7, <2>8 DEF Inv
  <1>9. CASE refs[f] # 1
    <2>1. life' = [life EXCEPT ![f] = "leaked"] /\ stack' = stack
      BY <1>7, <1>9 DEF Destroy, Become
    <2>2. StackEffect(t, 1, Inner(t), Inner(t))
      BY <1>1, <1>5, <2>1 DEF StackEffect, Depth, Inner, TypeInv
    <2>3. Counted' = Counted /\ life'[f] = "leaked" /\ \A g \in Filters : g # f => life'[g] = life[g]
      <3>1. "cached" \in CountedLives /\ "leaked" \in CountedLives  BY DEF CountedLives
      <3> QED  BY <1>1, <1>2, <2>1, <3>1, CountedAfter
    <2>4. /\ Inner(t).filter \in Used(t) /\ Inner(t).filter \in Filters /\ Inner(t) \in Frames
          /\ Fits(Inner(t).pc, life[Inner(t).filter])
      BY <1>1, <1>3, InnerFrame DEF FrameOK
    <2>5. Landing(t, 1, Inner(t), Inner(t))
      <3>1. life'[Inner(t).filter] = life[Inner(t).filter]  BY <1>6, <2>3, <2>4 DEF Free
      <3>2. life[Inner(t).filter] = "live"  BY <1>4, <2>4 DEF Fits, CallPcs
      <3>3. \A g \in Filters : life'[g] \in BusyLives => life[g] \in BusyLives /\ g \notin Used(t)
        BY <1>5, <2>3, <3>1, <3>2 DEF Used, BusyLives
      <3> QED  BY <1>4, <2>4, <3>1, <3>3 DEF Landing, CallPcs, BuildingPcs, CountedPcs
    <2>6. OthersLeft(t)  BY <1>6, <1>7, <2>3 DEF OthersLeft
    <2>7. StackInv'  BY <1>1, <2>2, <2>5, <2>6, StackKept
    <2>8. TypeInv'
      BY <1>1, <1>7, <2>1 DEF TypeInv, DestroyCopy, Lives, lockVars
    <2>9. Inner(t).pc \notin LastPcs \cup LockedPcs \cup {"ctorCreate", "register"}
      BY <1>4 DEF LastPcs, LockedPcs
    <2>10. CountInv'  BY <1>1, <1>7, <2>2, <2>3, <2>9, CountKept
    <2>11. ManagerInv'
      BY <1>1, <1>2, <1>5, <1>7, <2>2, <2>3, <2>9, ManagerUntouched DEF ManagedLives
    <2> QED  BY <2>7, <2>8, <2>10, <2>11 DEF Inv
  <1> QED  BY <1>8, <1>9

LEMMA StutterKeeps ==
    ASSUME Inv, UNCHANGED vars
    PROVE  Inv'
  <1>1. /\ cacheManager' = cacheManager /\ cacheInstanceCounter' = cacheInstanceCounter /\ alive' = alive
        /\ mutexOwner' = mutexOwner /\ managerOwner' = managerOwner /\ life' = life /\ uses' = uses
        /\ copyOf' = copyOf /\ refs' = refs /\ stack' = stack
    BY DEF vars, managerVars, lockVars, filterVars
  <1>2. TypeInv'  BY <1>1 DEF Inv, TypeInv
  <1>3. \A u \in Threads : Depth(u)' = Depth(u) /\ Inner(u)' = Inner(u) /\ Outer(u)' = Outer(u)
    BY <1>1 DEF Depth, Inner, Outer
  <1>4. StackInv'
    BY <1>1, <1>3 DEF Inv, StackInv, StackOK, FrameOK, Used
  <1>5. Counted' = Counted  BY <1>1 DEF Counted
  <1>6. CountInv'  BY <1>1, <1>3, <1>5 DEF Inv, CountInv, Locked, Reaches
  <1>7. ManagerInv'  BY <1>1, <1>3, <1>5 DEF Inv, ManagerInv, IsLast, Reaches
  <1> QED  BY <1>2, <1>4, <1>6, <1>7 DEF Inv

\* All steps together; nobody else is to be under a mutex when one is locked.
LEMMA StepKeeps ==
    ASSUME Inv, OneAtATime, [Next]_vars,
           \A t \in Threads : CtorLock(t) \/ DtorLock(t) =>
              \A u \in Threads : u # t => ~Locked(u)
    PROVE  Inv'
  <1>1. ASSUME NEW t \in Threads, NEW f \in Filters,
               \/ NewFilter(t, f) \/ DeleteFilter(t, f) \/ RequestData(t, f)
               \/ CopyFilter(t, f) \/ DestroyCopy(t, f)
        PROVE  Inv'
    BY <1>1, NewFilterKeeps, DeleteFilterKeeps, RequestDataKeeps, CopyFilterKeeps, DestroyCopyKeeps
  <1>2. ASSUME NEW t \in Threads, Constructor(t)
        PROVE  Inv'
    BY <1>2, CtorLockKeeps, CtorCountKeeps, CtorFindManagerKeeps, CtorMissManagerKeeps,
       CtorCreateManagerKeeps, RegisterKeeps DEF Constructor
  <1>3. ASSUME NEW t \in Threads, Destructor(t)
        PROVE  Inv'
    BY <1>3, DtorLockKeeps, DtorCountKeeps, DtorOthersLeftKeeps, DtorLastKeeps, BeginDeleteKeeps,
       DeleteManagerKeeps, ResetManagerKeeps DEF Destructor
  <1>4. ASSUME NEW t \in Threads, ReturnAtOnce(t) \/ ReturnStored(t)
        PROVE  Inv'
    BY <1>4, ReturnAtOnceKeeps, ReturnStoredKeeps
  <1>5. CASE UNCHANGED vars  BY <1>5, StutterKeeps
  <1> QED  BY <1>1, <1>2, <1>3, <1>4, <1>5 DEF Next

-----------------------------------------------------------------------------
(* The theorems.                                                           *)

\* As long as they meet one at a time the counter counts the filters and copies that exist,
\* and the manager they share is the one that exists while any of them does.
THEOREM Invariant == Spec /\ []OneAtATime => []Inv
  <1>1. Init => Inv  BY Initially
  <1>2. Inv /\ OneAtATime /\ OneAtATime' /\ [Next]_vars => Inv'
    <2> SUFFICES ASSUME Inv, OneAtATime, OneAtATime', [Next]_vars PROVE Inv'  OBVIOUS
    <2>1. ASSUME NEW t \in Threads, CtorLock(t) \/ DtorLock(t)
          PROVE  \A u \in Threads : u # t => ~Locked(u)
      BY <2>1, LockersAlone DEF Inv
    <2> QED  BY <2>1, StepKeeps
  <1> QED  BY <1>1, <1>2, PTL DEF Spec

\* Types; the counter is never negative and never more than there are filters.
THEOREM TypeCorrect == Spec /\ []OneAtATime => []TypeOK
  <1>1. Inv => TypeOK
    <2> SUFFICES ASSUME Inv PROVE TypeOK  OBVIOUS
    <2>1. cacheInstanceCounter \in 0..Cardinality(Filters)
      BY CountedFinite DEF Inv, CountInv
    <2> QED  BY <2>1 DEF Inv, TypeInv, TypeOK
  <1> QED  BY <1>1, Invariant, PTL

\* Whoever is about to use a manager uses one that exists: filters in their calls, copies in
\* the cache, the constructor that registers, the destructor that deletes.
THEOREM ManagersAlive == Spec /\ []OneAtATime => []ManagerAlive
  <1>1. Inv /\ OneAtATime => ManagerAlive
    <2> SUFFICES ASSUME Inv, OneAtATime PROVE ManagerAlive  OBVIOUS
    <2>1. TypeInv /\ StackInv /\ CountInv /\ ManagerInv  BY DEF Inv
    <2>2. \A u \in Threads : Reaches(u, "reset") => Counted = {} /\ \A t \in Threads : t # u => Depth(t) = 0
      <3> SUFFICES ASSUME NEW u \in Threads, Reaches(u, "reset")
                   PROVE  Counted = {} /\ \A t \in Threads : t # u => Depth(t) = 0
        OBVIOUS
      <3>1. IsLast(u)  BY DEF IsLast, Reaches, LastPcs
      <3>2. Counted = {}  BY <2>1, <3>1 DEF ManagerInv
      <3> QED  BY <2>1, <3>1, <3>2, LastAlone
    <2>3. cacheManager # NoManager /\ (\A u \in Threads : ~Reaches(u, "reset")) => cacheManager \in alive
      BY <2>1 DEF ManagerInv
    <2>4. \A f \in Filters : life[f] \in {"live", "copied", "cached"} => uses[f] \in alive
      <3> SUFFICES ASSUME NEW f \in Filters, life[f] \in {"live", "copied", "cached"} PROVE uses[f] \in alive
        OBVIOUS
      <3>1. uses[f] = cacheManager /\ cacheManager # NoManager /\ f \in Counted
        BY <2>1 DEF ManagerInv, Counted
      <3> QED  BY <2>2, <2>3, <3>1
    <2>5. \A t \in Threads : At(t, "register") => cacheManager \in alive
      <3> SUFFICES ASSUME NEW t \in Threads, At(t, "register") PROVE cacheManager \in alive
        OBVIOUS
      <3>1. Reaches(t, "register") /\ Depth(t) > 0 /\ Inner(t).pc = "register"
        BY <2>1, AtReaches DEF Reaches
      <3>2. Depth(t) # 0  BY <2>1, <3>1, InnerFrame
      <3>3. \A u \in Threads : ~Reaches(u, "reset")  BY <2>2, <3>1, <3>2 DEF Reaches
      <3> QED  BY <2>1, <2>3, <3>1, <3>3 DEF ManagerInv
    <2>6. \A t \in Threads : At(t, "delete") => cacheManager \in alive \cup {NoManager}
      <3> SUFFICES ASSUME NEW t \in Threads, At(t, "delete") PROVE cacheManager \in alive \cup {NoManager}
        OBVIOUS
      <3>1. Reaches(t, "delete") /\ Depth(t) > 0 /\ Inner(t).pc = "delete"
        BY <2>1, AtReaches DEF Reaches
      <3>2. Depth(t) # 0  BY <2>1, <3>1, InnerFrame
      <3>3. \A u \in Threads : ~Reaches(u, "reset")  BY <2>2, <3>1, <3>2 DEF Reaches
      <3> QED  BY <2>3, <3>3
    <2> QED  BY <2>4, <2>5, <2>6 DEF ManagerAlive
  <1> QED  BY <1>1, Invariant, PTL

\* There are never two managers; when no thread is busy there is one exactly if a filter or
\* a copy is left; and the one that is deleted has no copies left to destroy.
THEOREM GoesWithLastCounted == Spec /\ []OneAtATime => []ManagerGoesWithLastCounted
  <1>1. Inv => ManagerGoesWithLastCounted
    <2> SUFFICES ASSUME Inv PROVE ManagerGoesWithLastCounted  OBVIOUS
    <2>1. TypeInv /\ ManagerInv /\ StackInv  BY DEF Inv
    <2>2. alive \subseteq {cacheManager}  BY <2>1 DEF ManagerInv
    <2>3. Cardinality(alive) <= 1
      <3>1. IsFiniteSet({cacheManager}) /\ Cardinality({cacheManager}) = 1  BY FS_Singleton
      <3> QED  BY <2>2, <3>1, FS_Subset
    <2>4. ASSUME \A t \in Threads : Idle(t)
          PROVE  /\ alive = {} <=> \A f \in Filters : life[f] = "none"
                 /\ cacheManager = NoManager <=> alive = {}
      <3>1. \A t \in Threads : Depth(t) = 0  BY <2>1, <2>4, MeetOneAtATime
      <3>2. alive = {cacheManager} \ {NoManager}  BY <2>1, <3>1 DEF ManagerInv, Reaches
      <3>3. cacheManager # NoManager => \E f \in Filters : life[f] # "none"
        BY <2>1 DEF ManagerInv
      <3>4. ASSUME NEW f \in Filters, life[f] # "none" PROVE cacheManager # NoManager
        <4>1. \A u \in Threads : f \notin Used(u)  BY <3>1 DEF Used
        <4>2. life[f] \notin BusyLives  BY <2>1, <4>1 DEF StackInv
        <4>3. life[f] \in {"live", "copied", "cached", "leaked"}
          BY <2>1, <3>4, <4>2 DEF TypeInv, Lives, BusyLives
        <4> QED  BY <2>1, <4>3 DEF ManagerInv
      <3> QED  BY <3>2, <3>3, <3>4
    <2>5. ASSUME NEW t \in Threads, At(t, "deleting")
          PROVE  CachedIn(Head(stack[t]).read) = {}
      <3>1. IsLast(t)  BY <2>1, <2>5, AtReaches DEF IsLast, Reaches, LastPcs
      <3>2. Counted = {}  BY <2>1, <3>1 DEF ManagerInv
      <3> QED  BY <3>2 DEF Counted, CachedIn
    <2> QED  BY <2>3, <2>4, <2>5 DEF ManagerGoesWithLastCounted
  <1> QED  BY <1>1, Invariant, PTL

\* Filters of one class that one thread creates and deletes meet one at a time, however many
\* threads call them, copy them and evict the copies.
THEOREM OneMakerIsEnough ==
    ASSUME OneClassOneMaker
    PROVE  Spec => []OneAtATime
  <1>1. Init => Inv  BY Initially
  <1>2. Inv => OneAtATime
    <2> SUFFICES ASSUME Inv, NEW t \in Threads, NEW u \in Threads, t # u
                 PROVE  ~(UnderMutex(t) /\ UnderMutex(u)) /\ (Deletes(t) => Idle(u))
      BY DEF OneAtATime
    <2>1. TypeInv /\ StackInv /\ CountInv /\ ManagerInv  BY DEF Inv
    <2>2. ~(Locked(t) /\ Locked(u))
      <3> SUFFICES ASSUME Locked(t), Locked(u) PROVE FALSE  OBVIOUS
      <3>1. Inner(t).filter \in Filters /\ Inner(u).filter \in Filters
        BY <2>1, InnerFrame DEF Locked
      <3> QED  BY <2>1, <3>1 DEF CountInv, OneClassOneMaker
    <2>3. ASSUME IsLast(t) PROVE Depth(u) = 0
      <3>1. Counted = {}  BY <2>1, <2>3 DEF ManagerInv
      <3>2. \A v \in Threads : Depth(v) > 0 => v \in Makers
        <4> SUFFICES ASSUME NEW v \in Threads, Depth(v) > 0 PROVE v \in Makers  OBVIOUS
        <4>1. StackOK(v) /\ Depth(v) \in 1..2  BY <2>1, InnerFrame DEF StackInv
        <4>2. Depth(v) # 2  BY <2>1, <3>1, InnerFrame DEF Counted
        <4>3. Inner(v).pc \notin CallPcs
          BY <2>1, <3>1, InnerFrame DEF Counted, FrameOK, Fits
        <4> QED  BY <4>1, <4>2, <4>3 DEF StackOK
      <3>3. Depth(u) \in 0..2 /\ Depth(t) > 0  BY <2>1, <2>3 DEF StackInv, StackOK, IsLast
      <3> QED  BY <3>2, <3>3 DEF OneClassOneMaker
    <2> QED  BY <2>1, <2>2, <2>3, MeetOneAtATime
  <1>3. Inv /\ [Next]_vars => Inv'
    <2> SUFFICES ASSUME Inv, [Next]_vars PROVE Inv'  OBVIOUS
    <2>1. ASSUME NEW t \in Threads, CtorLock(t) \/ DtorLock(t)
          PROVE  \A u \in Threads : u # t => ~Locked(u)
      <3>1. TypeInv /\ StackInv /\ CountInv  BY DEF Inv
      <3>2. CanLock(t)  BY <2>1 DEF CtorLock, DtorLock
      <3>3. Reaches(t, "ctorLock") \/ Reaches(t, "dtorLock")
        BY <2>1, <3>1, AtReaches DEF CtorLock, DtorLock
      <3>4. Depth(t) > 0  BY <3>3 DEF Reaches
      <3> QED  BY <3>1, <3>2, <3>4, NobodyLocked
    <2> QED  BY <1>2, <2>1, StepKeeps
  <1> QED  BY <1>1, <1>2, <1>3, PTL DEF Spec

=============================================================================
