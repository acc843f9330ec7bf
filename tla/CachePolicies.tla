--------------------------- MODULE CachePolicies ---------------------------
(***************************************************************************)
(* The policies of the library at work: managers that drive the policy of  *)
(* their configuration by the events of EvictionProtocol.  The events are  *)
(* virtual methods, dispatched on the kind of the policy.                  *)
(***************************************************************************)
EXTENDS Integers, FiniteSets, FiniteSetsExt

CONSTANTS
    Managers, Objects, MaxCalls, NoObject, NaN,   \* as in EvictionProtocol
    Unit, Contribution, NoData                    \* as in DefaultCachePolicy

ASSUME UnitAssumption == Unit \in Nat /\ \A n \in 1..Cardinality(Objects) : Unit % n = 0

ASSUME ObjectAssumption ==
    /\ IsFiniteSet(Objects) /\ NoObject \notin Objects
    /\ Contribution \in [Objects -> Int]
    /\ NoData \notin Int \cup [referenceCount : Int, lastPriorityCalculation : Int]
    /\ NaN \notin Int

VARIABLES
    useCacheMissEvent, policy, stored, phase, subject, todo, candidate, minPriority, calls,
    evicted,   \* the sum of the reference counts of all evicted objects
    hits       \* how often an object has been hit since it was created

Default == INSTANCE DefaultCachePolicy
LFU == INSTANCE LFUCachePolicy

IsDefault(ps) == ps.kind \in {"default", "unweighted"}

CreationEvent(ps, o) ==
    IF IsDefault(ps) THEN Default!DataCreationEvent(ps, o) ELSE LFU!DataCreationEvent(ps, o)
HitEvent(ps, o) ==
    IF IsDefault(ps) THEN Default!CacheHitEvent(ps, o) ELSE LFU!CacheHitEvent(ps, o)
MissEvent(ps, o) ==
    IF IsDefault(ps) THEN Default!CacheMissEvent(ps, o) ELSE LFU!CacheMissEvent(ps, o)
EvictionEvent(ps, o) ==
    IF IsDefault(ps) THEN Default!DataEvictionEvent(ps, o) ELSE LFU!DataEvictionEvent(ps, o)
PriorityOf(ps, o) ==
    IF IsDefault(ps) THEN Default!GetPriorityOf(ps, o) ELSE LFU!GetPriorityOf(ps, o)
AfterPriorityOf(ps, o) == IF IsDefault(ps) THEN Default!Age(ps, o) ELSE ps

Protocol == INSTANCE EvictionProtocol WITH
    OnCreate <- CreationEvent, OnHit <- HitEvent, OnMiss <- MissEvent, OnEvict <- EvictionEvent,
    Priority <- PriorityOf, AfterPriority <- AfterPriorityOf

vars == <<useCacheMissEvent, policy, stored, phase, subject, todo, candidate, minPriority,
          calls, evicted, hits>>

Init ==
    /\ policy \in Default!PolicyInit \cup LFU!PolicyInit
    /\ Protocol!ProtocolInit
    /\ evicted = 0
    /\ hits = [o \in Objects |-> 0]

\* The objects that lose their policy data in a step, and those that are hit in it.
Lost == {o \in Objects : policy.data[o] # NoData /\ policy'.data[o] = NoData}
Hit == {subject[m] : m \in {n \in Managers : phase[n] = "hit" /\ phase'[n] # "hit"}}

References(S) == MapThenSumSet(LAMBDA o : policy.data[o].referenceCount, S)

Next ==
    /\ Protocol!ProtocolNext
    /\ IF IsDefault(policy)
       THEN evicted' = evicted + References(Lost) /\ hits' = hits
       ELSE /\ hits' = [o \in Objects |->
                           IF o \notin Protocol!Known THEN 0
                           ELSE IF o \in Hit THEN hits[o] + 1 ELSE hits[o]]
            /\ evicted' = evicted

Spec == Init /\ [][Next]_vars

-----------------------------------------------------------------------------
(* Properties.                                                             *)

\* The policy has data for exactly the objects in the caches, and the default one
\* has counted them: no event finds its object without policy data, nothing is
\* deleted twice or leaked, and 1.0 / dataCount never divides by zero.
DataCounted ==
    /\ {o \in Objects : policy.data[o] # NoData} = Protocol!Known
    /\ IsDefault(policy) => policy.dataCount = Cardinality(Protocol!Known)

\* No object was last looked at in the future, or never: the unsigned difference
\* timeStamp - lastPriorityCalculation is the number of hits since, whenever a
\* scan asks for a priority.
TimesOrdered ==
    IsDefault(policy) =>
        \A m \in Managers :
            phase[m] \in {"idle", "priorities", "evict", "misses"} =>
                \A o \in stored[m] :
                    policy.data[o].lastPriorityCalculation \in 1..policy.timeStamp

\* With miss events a hit moves references between objects and creates none: what
\* the hit object gains, all of them pay in equal parts, and a scan for a
\* candidate takes nothing more.  The hit object pays too: performCacheMissEvents
\* sends the event to every object.  The comments of the policies say that it goes to
\* all objects except the one that was hit; this is of the code, which does not do
\* so: as they say it, a hit would make 1/n of a reference, with n objects.
ReferencesBalanced ==
    /\ IsDefault(policy) /\ useCacheMissEvent
    /\ \A m \in Managers : phase[m] \in {"idle", "makeSpace", "priorities", "evict"}
    => evicted + References(Protocol!Known) = 0

\* makeSpace evicts an object whose priority is the least at the time it does:
\* the scan, in which getPriority changes the policy's state, has not made the
\* priorities incomparable ("finds and returns the best candidate for eviction").
CandidateLeast ==
    \A m \in Managers :
        phase[m] = "evict" =>
            /\ candidate[m] \in stored[m]
            /\ \A o \in stored[m] : PriorityOf(policy, candidate[m]) <= PriorityOf(policy, o)

\* A scan that ends without a candidate, which makeSpace dereferences, is one of a
\* policy whose contribution constants a setter has made NaN: with the priorities
\* of any other policy, however low or high, a cache that is not empty has one.
StopsOnlyUnweighted ==
    \A m \in Managers : phase[m] = "stopped" => policy.kind = "unweighted"

\* The LFU policy evicts no object while another one of the same manager has been
\* used less often since it was stored, whatever an earlier object at its address had.
LeastFrequentlyUsed ==
    ~IsDefault(policy) =>
        \A m \in Managers : phase[m] = "evict" =>
            \A o \in stored[m] : hits[candidate[m]] <= hits[o]
=============================================================================
