--------------------------- MODULE LFUCachePolicy ---------------------------
(***************************************************************************)
(* The least-frequently-used policy: its state, the number it attaches to  *)
(* each object as user data, and what its events make of it.               *)
(***************************************************************************)
EXTENDS Integers

CONSTANTS Objects, NoData

PolicyInit == [kind : {"LFU"}, data : {[o \in Objects |-> NoData]}]

DataCreationEvent(ps, o) == [ps EXCEPT !.data[o] = 0]

CacheHitEventOnce(ps, o) == [ps EXCEPT !.data[o] = 1]
CacheHitEvent(ps, o) == [ps EXCEPT !.data[o] = @ + 1]

CacheMissEvent(ps, o) == ps

GetPriorityOf(ps, o) == ps.data[o]

\* The number is deleted; the stale pointer stays in the object, which goes too.
DataEvictionEvent(ps, o) == [ps EXCEPT !.data[o] = NoData]
=============================================================================
