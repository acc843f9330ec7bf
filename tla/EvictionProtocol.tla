-------------------------- MODULE EvictionProtocol --------------------------
(***************************************************************************)
(* The events by which managers drive a cache policy, one at a time, and   *)
(* the scan by which makeSpace finds what to evict.  The policy is a       *)
(* parameter: a state and what each event makes of it.                     *)
(*                                                                         *)
(* A manager's events are ordered by its mutex.  Two managers have two     *)
(* mutexes, and share one policy object when they are made from one        *)
(* CacheManagerConfiguration; their events interleave, each event atomic.  *)
(***************************************************************************)
EXTENDS Integers, FiniteSets

CONSTANTS
    Managers,
    Objects,             \* addresses of CacheData objects
    MaxCalls,            \* bound on the number of calls
    NoObject,
    NaN,                 \* the priority that compares with nothing
    OnCreate(_, _), OnHit(_, _), OnMiss(_, _), OnEvict(_, _),
                         \* the policy state after an event of an object
    Priority(_, _),      \* what getPriority answers ...
    AfterPriority(_, _)  \* ... and the policy state that it leaves

VARIABLES
    useCacheMissEvent,   \* of the managers' configuration
    policy,     \* the state of the policy
    stored,     \* the objects in the data structures of a manager's functions
    phase,      \* what a manager is doing
    subject,    \* the object of its call
    todo,       \* the objects that its iteration has still to come to
    candidate,  \* the best candidate for eviction so far, and
    minPriority, \* its priority, which for NoObject is DBL_MAX, above every number here
    calls       \* the number of calls made

managerVars == <<stored, phase, subject, todo, candidate, minPriority>>
vars == <<useCacheMissEvent, policy, managerVars, calls>>

ProtocolInit ==
    /\ useCacheMissEvent \in BOOLEAN
    /\ stored = [m \in Managers |-> {}]
    /\ phase = [m \in Managers |-> "idle"]
    /\ subject = [m \in Managers |-> NoObject]
    /\ todo = [m \in Managers |-> {}]
    /\ candidate = [m \in Managers |-> NoObject]
    /\ minPriority = [m \in Managers |-> 0]
    /\ calls = 0

InUse == {subject[m] : m \in Managers} \cup UNION {stored[m] : m \in Managers}

Become(m, p) == phase' = [phase EXCEPT ![m] = p]

-----------------------------------------------------------------------------
(* Calls.                                                                  *)

HitCall(m, o) ==
    /\ phase[m] = "idle" /\ calls < MaxCalls
    /\ o \in stored[m]
    /\ Become(m, "hit")
    /\ subject' = [subject EXCEPT ![m] = o]
    /\ calls' = calls + 1
    /\ UNCHANGED <<policy, stored, todo, candidate, minPriority>>

\* A call has missed and its result is worth storing.
MissCall(m, o) ==
    /\ phase[m] = "idle" /\ calls < MaxCalls
    /\ o \in Objects \ InUse
    /\ Become(m, "makeSpace")
    /\ subject' = [subject EXCEPT ![m] = o]
    /\ calls' = calls + 1
    /\ UNCHANGED <<policy, stored, todo, candidate, minPriority>>

\* makeSpace goes on until there is enough space; how much an eviction gives is
\* left open, but the space of an empty cache is enough.
NeedSpace(m) ==
    /\ phase[m] = "makeSpace"
    /\ stored[m] # {}
    /\ Become(m, "priorities")
    /\ todo' = [todo EXCEPT ![m] = stored[m]]
    /\ candidate' = [candidate EXCEPT ![m] = NoObject]
    /\ minPriority' = [minPriority EXCEPT ![m] = 0]
    /\ UNCHANGED <<policy, stored, subject, calls>>

SpaceMade(m) ==
    /\ phase[m] = "makeSpace"
    /\ Become(m, "create")
    /\ UNCHANGED <<policy, stored, subject, todo, candidate, minPriority, calls>>

\* An object is the best candidate so far if its priority is less than that of
\* all objects before it, and DBL_MAX; NaN is less than nothing.
BetterThanZero(m, p) == p # NaN /\ p < minPriority[m]
Better(m, p) == p # NaN /\ (candidate[m] = NoObject \/ p < minPriority[m])

GetPriority(m, o) ==
    /\ phase[m] = "priorities"
    /\ o \in todo[m]
    /\ todo' = [todo EXCEPT ![m] = @ \ {o}]
    /\ LET p == Priority(policy, o)
       IN  IF Better(m, p)
           THEN candidate' = [candidate EXCEPT ![m] = o] /\ minPriority' = [minPriority EXCEPT ![m] = p]
           ELSE UNCHANGED <<candidate, minPriority>>
    /\ policy' = AfterPriority(policy, o)
    /\ UNCHANGED <<stored, phase, subject, calls>>

CandidateFound(m) ==
    /\ phase[m] = "priorities"
    /\ todo[m] = {} /\ candidate[m] # NoObject
    /\ Become(m, "evict")
    /\ UNCHANGED <<policy, stored, subject, todo, candidate, minPriority, calls>>

\* makeSpace asks the candidate for its size, also when there is none: the program
\* ends in it.
CandidateMissing(m) ==
    /\ phase[m] = "priorities"
    /\ todo[m] = {} /\ candidate[m] = NoObject
    /\ Become(m, "stopped")
    /\ UNCHANGED <<policy, stored, subject, todo, candidate, minPriority, calls>>

EvictData(m) ==
    /\ phase[m] = "evict"
    /\ policy' = OnEvict(policy, candidate[m])
    /\ stored' = [stored EXCEPT ![m] = @ \ {candidate[m]}]
    /\ Become(m, "makeSpace")
    /\ UNCHANGED <<subject, todo, candidate, minPriority, calls>>

\* The policy learns of an object right before it is added.
CreateData(m) ==
    /\ phase[m] = "create"
    /\ policy' = OnCreate(policy, subject[m])
    /\ stored' = [stored EXCEPT ![m] = @ \cup {subject[m]}]
    /\ Become(m, "hit")
    /\ UNCHANGED <<subject, todo, candidate, minPriority, calls>>

\* Every call that answers from the cache is a hit, that of a new object too.
HitData(m) ==
    /\ phase[m] = "hit"
    /\ policy' = OnHit(policy, subject[m])
    /\ Become(m, "misses")
    /\ todo' = [todo EXCEPT ![m] = IF useCacheMissEvent THEN stored[m] ELSE {}]
    /\ UNCHANGED <<stored, subject, candidate, minPriority, calls>>

MissData(m, o) ==
    /\ phase[m] = "misses"
    /\ o \in todo[m]
    /\ policy' = OnMiss(policy, o)
    /\ todo' = [todo EXCEPT ![m] = @ \ {o}]
    /\ UNCHANGED <<stored, phase, subject, candidate, minPriority, calls>>

ReturnFromCall(m) ==
    /\ phase[m] = "misses"
    /\ todo[m] = {}
    /\ Become(m, "idle")
    /\ subject' = [subject EXCEPT ![m] = NoObject]
    /\ UNCHANGED <<policy, stored, todo, candidate, minPriority, calls>>

-----------------------------------------------------------------------------
(* A manager is destroyed, and another one made from the configuration.    *)

DestroyManager(m) ==
    /\ phase[m] = "idle"
    /\ Become(m, "destroy")
    /\ todo' = [todo EXCEPT ![m] = stored[m]]
    /\ UNCHANGED <<policy, stored, subject, candidate, minPriority, calls>>

DestroyData(m, o) ==
    /\ phase[m] = "destroy"
    /\ o \in todo[m]
    /\ policy' = OnEvict(policy, o)
    /\ todo' = [todo EXCEPT ![m] = @ \ {o}]
    /\ UNCHANGED <<stored, phase, subject, candidate, minPriority, calls>>

CreateManager(m) ==
    /\ phase[m] = "destroy"
    /\ todo[m] = {}
    /\ stored' = [stored EXCEPT ![m] = {}]
    /\ Become(m, "idle")
    /\ candidate' = [candidate EXCEPT ![m] = NoObject]
    /\ minPriority' = [minPriority EXCEPT ![m] = 0]
    /\ UNCHANGED <<policy, subject, todo, calls>>

ProtocolStep(m) ==
    \/ \E o \in Objects :
          \/ HitCall(m, o) \/ MissCall(m, o) \/ GetPriority(m, o)
          \/ MissData(m, o) \/ DestroyData(m, o)
    \/ NeedSpace(m) \/ SpaceMade(m) \/ CandidateFound(m) \/ CandidateMissing(m)
    \/ EvictData(m) \/ CreateData(m) \/ HitData(m) \/ ReturnFromCall(m)
    \/ DestroyManager(m) \/ CreateManager(m)

ProtocolNext ==
    /\ \A m \in Managers : phase[m] # "stopped"
    /\ UNCHANGED useCacheMissEvent
    /\ \E m \in Managers : ProtocolStep(m)

-----------------------------------------------------------------------------
\* The objects of which the policy keeps data: those in the caches, except the
\* ones that a destructor has evicted already.
Known == UNION {IF phase[m] = "destroy" THEN todo[m] ELSE stored[m] : m \in Managers}
=============================================================================
