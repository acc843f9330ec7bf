--------------------------- MODULE CachingFilter ---------------------------
(***************************************************************************)
(* The life cycle of caching VTK filters and of the static cache manager   *)
(* that they share.  The first filter creates the manager, a counter says  *)
(* when the last one is gone.  A call of a filter may keep a copy of it in *)
(* the cache: the copy is made by NewInstance, so it is constructed, and   *)
(* later destroyed, like any filter and is counted too.                    *)
(*                                                                         *)
(* The mutex of CachingFilter is a static member of a class template: each *)
(* filter class has its own, while manager and counter are common to all.  *)
(* A thread's constructors, destructors and calls nest; they are frames of *)
(* its stack.  The data of a call other than the copy of the filter, and   *)
(* the sizes that decide what is evicted, are left out.                    *)
(***************************************************************************)
EXTENDS Integers, FiniteSets, SequencesExt

CONSTANTS
    Threads,
    Makers,       \* the threads in which the program creates and deletes filters
    Filters,      \* addresses of filters, those of the program and copies
    Classes,
    ClassOf,      \* the class of the filter at an address
    Managers,     \* addresses of cache managers
    MaxRefs,      \* bound on the references that exist to a filter in a call
    NoThread, NoFilter, NoManager

ASSUME ClassAssumption == ClassOf \in [Filters -> Classes]
ASSUME ThreadAssumption == Makers \subseteq Threads /\ NoThread \notin Threads
ASSUME FilterAssumption ==
    /\ IsFiniteSet(Filters) /\ NoFilter \notin Filters /\ NoManager \notin Managers
    /\ MaxRefs \in Nat \ {0}

VARIABLES
    cacheManager,          \* the static pointer ...
    cacheInstanceCounter,  \* ... and counter of CacheManagerSource
    alive,                 \* the managers that exist
    mutexOwner,            \* the mutex of each filter class
    managerOwner,          \* the mutex of each manager
    life,                  \* what has become of each filter
    uses,                  \* the manager of its cached function
    copyOf,                \* the filter in whose cached function a copy is kept
    refs,                  \* the reference count of a copy
    stack                  \* what a thread is doing, innermost first

managerVars == <<cacheManager, alive>>
lockVars == <<mutexOwner, managerOwner>>
filterVars == <<life, uses, copyOf, refs>>
vars == <<managerVars, cacheInstanceCounter, lockVars, filterVars, stack>>

Lives == {"none", "building", "counted", "live", "copied", "cached", "leaked", "dying", "dead"}

Init ==
    /\ cacheManager = NoManager
    /\ cacheInstanceCounter = 0
    /\ alive = {}
    /\ mutexOwner = [c \in Classes |-> NoThread]
    /\ managerOwner = [m \in Managers |-> NoThread]
    /\ life = [f \in Filters |-> "none"]
    /\ uses = [f \in Filters |-> NoManager]
    /\ copyOf = [f \in Filters |-> NoFilter]
    /\ refs = [f \in Filters |-> 1]
    /\ stack = [t \in Threads |-> <<>>]

-----------------------------------------------------------------------------
(* Frames.  read is a value the frame has read and not yet used.           *)

Idle(t) == stack[t] = <<>>

At(t, pc) == stack[t] # <<>> /\ Head(stack[t]).pc = pc

Subject(t) == Head(stack[t]).filter

InUse(f) == \E u \in Threads : \E i \in DOMAIN stack[u] : stack[u][i].filter = f

Frame(pc, f, read) == [pc |-> pc, filter |-> f, read |-> read]

Goto(t, pc, read) ==
    stack' = [stack EXCEPT ![t] = <<Frame(pc, Head(@).filter, read)>> \o Tail(@)]

Enter(t, pc, f) == stack' = [stack EXCEPT ![t] = <<Frame(pc, f, 0)>> \o @]

Return(t) == stack' = [stack EXCEPT ![t] = Tail(@)]

CanLock(t) == mutexOwner[ClassOf[Subject(t)]] = NoThread

SetOwner(t, owner) == mutexOwner' = [mutexOwner EXCEPT ![ClassOf[Subject(t)]] = owner]

Become(f, l) == life' = [life EXCEPT ![f] = l]

-----------------------------------------------------------------------------
(* The constructor.  cacheInstanceCounter++ reads and writes.              *)

NewFilter(t, f) ==
    /\ Idle(t) /\ t \in Makers
    /\ life[f] = "none"
    /\ Become(f, "building")
    /\ copyOf' = [copyOf EXCEPT ![f] = NoFilter]
    /\ Enter(t, "ctorLock", f)
    /\ UNCHANGED <<managerVars, cacheInstanceCounter, lockVars, uses, refs>>

CtorLock(t) ==
    /\ At(t, "ctorLock")
    /\ CanLock(t)
    /\ SetOwner(t, t)
    /\ Goto(t, "ctorCount", cacheInstanceCounter)
    /\ UNCHANGED <<managerVars, cacheInstanceCounter, managerOwner, filterVars>>

CountedUpNever(n) == n
CountedUp(n) == n + 1

CtorCount(t) ==
    /\ At(t, "ctorCount")
    /\ cacheInstanceCounter' = CountedUp(Head(stack[t]).read)
    /\ Become(Subject(t), "counted")
    /\ Goto(t, "ctorCheck", 0)
    /\ UNCHANGED <<managerVars, lockVars, uses, copyOf, refs>>

Uninitialized == cacheManager = NoManager

CtorFindManager(t) ==
    /\ At(t, "ctorCheck")
    /\ ~Uninitialized
    /\ SetOwner(t, NoThread)
    /\ Goto(t, "register", 0)
    /\ UNCHANGED <<managerVars, cacheInstanceCounter, managerOwner, filterVars>>

CtorMissManager(t) ==
    /\ At(t, "ctorCheck")
    /\ Uninitialized
    /\ Goto(t, "ctorCreate", 0)
    /\ UNCHANGED <<managerVars, cacheInstanceCounter, lockVars, filterVars>>

CtorCreateManager(t) ==
    /\ At(t, "ctorCreate")
    /\ \E m \in Managers \ alive : cacheManager' = m /\ alive' = alive \cup {m}
    /\ SetOwner(t, NoThread)
    /\ Goto(t, "register", 0)
    /\ UNCHANGED <<cacheInstanceCounter, managerOwner, filterVars>>

\* Out of the lock, the filter registers its function with the manager, if there is
\* still one: a null pointer ends the program.  A copy is then overwritten with its
\* source, cachedFunction and reference count included.
Register(t) ==
    /\ At(t, "register")
    /\ cacheManager # NoManager
    /\ LET f == Subject(t)
       IN  IF copyOf[f] = NoFilter
           THEN Become(f, "live") /\ uses' = [uses EXCEPT ![f] = cacheManager]
           ELSE Become(f, "copied") /\ uses' = [uses EXCEPT ![f] = uses[copyOf[f]]]
    /\ Return(t)
    /\ UNCHANGED <<managerVars, cacheInstanceCounter, lockVars, copyOf, refs>>

-----------------------------------------------------------------------------
(* The destructor.                                                         *)

\* A program deletes a filter that nobody is using.
DeleteFilter(t, f) ==
    /\ Idle(t) /\ t \in Makers
    /\ life[f] = "live"
    /\ ~InUse(f)
    /\ Become(f, "dying")
    /\ Enter(t, "dtorLock", f)
    /\ UNCHANGED <<managerVars, cacheInstanceCounter, lockVars, uses, copyOf, refs>>

DtorLock(t) ==
    /\ At(t, "dtorLock")
    /\ CanLock(t)
    /\ SetOwner(t, t)
    /\ Goto(t, "dtorCount", cacheInstanceCounter)
    /\ UNCHANGED <<managerVars, cacheInstanceCounter, managerOwner, filterVars>>

DtorCount(t) ==
    /\ At(t, "dtorCount")
    /\ cacheInstanceCounter' = Head(stack[t]).read - 1
    /\ Become(Subject(t), "dead")
    /\ SetOwner(t, NoThread)
    /\ Goto(t, "dtorTest", 0)
    /\ UNCHANGED <<managerVars, managerOwner, uses, copyOf, refs>>

WasLastOrSecond(n) == n <= 1
WasLastNever(n) == n < 0
WasLast(n) == n = 0

\* Out of the lock, the counter is read again.
DtorOthersLeft(t) ==
    /\ At(t, "dtorTest")
    /\ ~WasLast(cacheInstanceCounter)
    /\ Become(Subject(t), "none")
    /\ Return(t)
    /\ UNCHANGED <<managerVars, cacheInstanceCounter, lockVars, uses, copyOf, refs>>

DtorLast(t) ==
    /\ At(t, "dtorTest")
    /\ WasLast(cacheInstanceCounter)
    /\ Goto(t, "delete", NoManager)
    /\ UNCHANGED <<managerVars, cacheInstanceCounter, lockVars, filterVars>>

BeginDelete(t) ==
    /\ At(t, "delete")
    /\ Goto(t, IF cacheManager = NoManager THEN "reset" ELSE "deleting", cacheManager)
    /\ UNCHANGED <<managerVars, cacheInstanceCounter, lockVars, filterVars>>

CachedIn(m) == {f \in Filters : life[f] = "cached" /\ uses[f] = m}

\* filterDestroyFunction: Delete takes a reference from a copy, and destroys it
\* unless the source had further references when it was copied.
Destroy(t, g) ==
    IF refs[g] = 1
    THEN Become(g, "dying") /\ Enter(t, "dtorLock", g)
    ELSE Become(g, "leaked") /\ stack' = stack

\* The destructor of a manager destroys the copies it has in its cache; makeSpace
\* destroys those that the policy says, of whatever filter's cached function.
DestroyCopy(t, g) ==
    /\ \E pc \in {"deleting", "makeSpace"} : At(t, pc)
    /\ g \in CachedIn(Head(stack[t]).read)
    /\ Destroy(t, g)
    /\ UNCHANGED <<managerVars, cacheInstanceCounter, lockVars, uses, copyOf, refs>>

DeleteManager(t) ==
    /\ At(t, "deleting")
    /\ CachedIn(Head(stack[t]).read) = {}
    /\ alive' = alive \ {Head(stack[t]).read}
    /\ Goto(t, "reset", NoManager)
    /\ UNCHANGED <<cacheManager, cacheInstanceCounter, lockVars, filterVars>>

ResetManager(t) ==
    /\ At(t, "reset")
    /\ cacheManager' = NoManager
    /\ Become(Subject(t), "none")
    /\ Return(t)
    /\ UNCHANGED <<alive, cacheInstanceCounter, lockVars, uses, copyOf, refs>>

-----------------------------------------------------------------------------
(* A call, under the mutex of the manager.                                 *)

RequestData(t, f) ==
    /\ Idle(t)
    /\ life[f] = "live"
    /\ ~InUse(f)
    /\ uses[f] # NoManager /\ managerOwner[uses[f]] = NoThread
    /\ managerOwner' = [managerOwner EXCEPT ![uses[f]] = t]
    /\ Enter(t, "call", f)
    /\ UNCHANGED <<managerVars, cacheInstanceCounter, mutexOwner, filterVars>>

Unlock(t) == managerOwner' = [managerOwner EXCEPT ![uses[Subject(t)]] = NoThread]

\* The call hits, or its result is not worth storing.
ReturnAtOnce(t) ==
    /\ At(t, "call")
    /\ Unlock(t)
    /\ Return(t)
    /\ UNCHANGED <<managerVars, cacheInstanceCounter, mutexOwner, filterVars>>

\* The result is to be stored, so the filter is copied.
CopyFilter(t, g) ==
    /\ At(t, "call")
    /\ life[g] = "none" /\ ClassOf[g] = ClassOf[Subject(t)]
    /\ Become(g, "building")
    /\ copyOf' = [copyOf EXCEPT ![g] = Subject(t)]
    /\ \E n \in 1..MaxRefs : refs' = [refs EXCEPT ![g] = n]
    /\ stack' = [stack EXCEPT ![t] =
                    <<Frame("ctorLock", g, 0),
                      Frame("makeSpace", Head(@).filter, uses[Subject(t)])>> \o Tail(@)]
    /\ UNCHANGED <<managerVars, cacheInstanceCounter, lockVars, uses>>

ReturnStored(t) ==
    /\ At(t, "makeSpace")
    /\ life' = [g \in Filters |->
                   IF life[g] = "copied" /\ copyOf[g] = Subject(t) THEN "cached" ELSE life[g]]
    /\ Unlock(t)
    /\ Return(t)
    /\ UNCHANGED <<managerVars, cacheInstanceCounter, mutexOwner, uses, copyOf, refs>>

-----------------------------------------------------------------------------

Constructor(t) ==
    \/ CtorLock(t) \/ CtorCount(t) \/ CtorFindManager(t) \/ CtorMissManager(t)
    \/ CtorCreateManager(t) \/ Register(t)

Destructor(t) ==
    \/ DtorLock(t) \/ DtorCount(t) \/ DtorOthersLeft(t) \/ DtorLast(t)
    \/ BeginDelete(t) \/ DeleteManager(t) \/ ResetManager(t)

Next ==
    \/ \E t \in Threads, f \in Filters :
          \/ NewFilter(t, f) \/ DeleteFilter(t, f) \/ RequestData(t, f)
          \/ CopyFilter(t, f) \/ DestroyCopy(t, f)
    \/ \E t \in Threads :
          Constructor(t) \/ Destructor(t) \/ ReturnAtOnce(t) \/ ReturnStored(t)

Spec == Init /\ [][Next]_vars

-----------------------------------------------------------------------------
(* Properties.                                                             *)

TypeOK ==
    /\ cacheManager \in Managers \cup {NoManager}
    /\ cacheInstanceCounter \in 0..Cardinality(Filters)
    /\ alive \subseteq Managers
    /\ mutexOwner \in [Classes -> Threads \cup {NoThread}]
    /\ managerOwner \in [Managers -> Threads \cup {NoThread}]
    /\ life \in [Filters -> Lives]
    /\ uses \in [Filters -> Managers \cup {NoManager}]
    /\ copyOf \in [Filters -> Filters \cup {NoFilter}]
    /\ refs \in [Filters -> 1..MaxRefs]

\* What the mutexes would do if they were one, held until the manager is deleted: two
\* constructors or destructors do not overlap under it, nor anything else with a deletion.
\* The code sees to it for filters of one class that one thread creates and deletes.
UnderMutex(t) == \E pc \in {"ctorCount", "ctorCheck", "ctorCreate", "dtorCount"} : At(t, pc)

Deletes(t) == \E pc \in {"delete", "deleting", "reset"} : At(t, pc)

OneAtATime ==
    \A t, u \in Threads : t # u =>
        /\ ~(UnderMutex(t) /\ UnderMutex(u))
        /\ Deletes(t) => Idle(u)

\* As long as no two constructors or destructors, of one class or of several, have met in
\* the way OneAtATime excludes, whoever is about to use a manager uses one that exists: a
\* filter for its calls, a copy in the cache, a constructor that registers, a destructor
\* that deletes.
ManagerAlive ==
    /\ \A f \in Filters : life[f] \in {"live", "copied", "cached"} => uses[f] \in alive
    /\ \A t \in Threads :
          /\ At(t, "register") => cacheManager \in alive
          /\ At(t, "delete") => cacheManager \in alive \cup {NoManager}

\* There are never two managers ("the cache manager is created only of it is
\* uninitialized"), and when no thread is busy there is one exactly if a filter or a copy of
\* one is left: copies count, so a manager that caches one outlives all filters of the
\* program, as does one of whose copies the reference count outlived the Delete, while one
\* that evicted all goes with the last filter.  The destructor of a manager therefore finds
\* no copy to destroy, whose destructor would see a counter of zero and delete it again.
ManagerGoesWithLastCounted ==
    /\ Cardinality(alive) <= 1
    /\ (\A t \in Threads : Idle(t)) =>
          /\ alive = {} <=> \A f \in Filters : life[f] = "none"
          /\ cacheManager = NoManager <=> alive = {}
    /\ \A t \in Threads : At(t, "deleting") => CachedIn(Head(stack[t]).read) = {}
=============================================================================
