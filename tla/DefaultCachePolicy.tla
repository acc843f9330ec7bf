------------------------- MODULE DefaultCachePolicy -------------------------
(***************************************************************************)
(* The default cache policy: its state, and what its events make of it.    *)
(*                                                                         *)
(* The priority of an object is a reference count, raised by its hits and  *)
(* lowered by the passing of time, plus a part that depends on its size    *)
(* and creation time and never changes.  Reference counts are in units of  *)
(* 1/Unit, so that 1/dataCount is a whole number of them; the rounding of  *)
(* floating point numbers is left out.  The contribution constants, which  *)
(* weigh the parts, are those of ContributionConstants; once a setter has  *)
(* made them NaN, the policy is "unweighted" and so is every priority.     *)
(***************************************************************************)
EXTENDS Integers

CONSTANTS
    Objects,
    Unit,
    Contribution,   \* the constant part of the priority of an object
    NoData, NaN

-----------------------------------------------------------------------------
(* The events.  The state of the policy ps is its timestamp, its count of  *)
(* objects, and the PolicyData it has attached to each.                    *)

PolicyInit ==
    [kind : {"default", "unweighted"}, data : {[o \in Objects |-> NoData]},
     timeStamp : {1}, dataCount : {0}]

DataCreationEvent(ps, o) ==
    [ps EXCEPT !.data[o] = [referenceCount |-> 0, lastPriorityCalculation |-> 0],
               !.dataCount = @ + 1]

CacheHitEventWithoutTime(ps, o) ==
    [ps EXCEPT !.data[o].referenceCount = @ + Unit, !.timeStamp = @ + 1]
CacheHitEvent(ps, o) ==
    [ps EXCEPT !.data[o].referenceCount = @ + Unit,
               !.data[o].lastPriorityCalculation = IF @ = 0 THEN ps.timeStamp ELSE @,
               !.timeStamp = @ + 1]

\* One over the number of objects in the cache.
Share(ps) == Unit \div ps.dataCount

CacheMissEventWithoutTime(ps, o) ==
    [ps EXCEPT !.data[o].referenceCount = @ - Share(ps)]
CacheMissEvent(ps, o) ==
    [ps EXCEPT !.data[o].referenceCount = @ - Share(ps),
               !.data[o].lastPriorityCalculation = ps.timeStamp]

\* What the time since the last calculation takes from a reference count.
Decay(ps, o) == (ps.timeStamp - ps.data[o].lastPriorityCalculation) * Share(ps)

GetPriorityOf(ps, o) ==
    IF ps.kind = "unweighted" THEN NaN
    ELSE ps.data[o].referenceCount - Decay(ps, o) + Contribution[o]

AgeWithoutTime(ps, o) == [ps EXCEPT !.data[o].referenceCount = @ - Decay(ps, o)]
Age(ps, o) ==
    [ps EXCEPT !.data[o].referenceCount = @ - Decay(ps, o),
               !.data[o].lastPriorityCalculation = ps.timeStamp]

DataEvictionEventUncounted(ps, o) == [ps EXCEPT !.data[o] = NoData]
DataEvictionEvent(ps, o) == [ps EXCEPT !.data[o] = NoData, !.dataCount = @ - 1]
=============================================================================
