------------------------ MODULE CachePoliciesProofs ------------------------
(***************************************************************************)
(* Proofs about CachePolicies, for every number of managers that share a   *)
(* policy, of objects and of calls: the policies count and date what is in *)
(* the caches, what is evicted is what the policy is meant to choose, and  *)
(* its references are shared, not made.                                    *)
(***************************************************************************)
EXTENDS CachePolicies, FiniteSetTheorems, WellFoundedInduction, TLAPS

-----------------------------------------------------------------------------
(* The events of the policies.                                             *)

PolicyData == [referenceCount : Int, lastPriorityCalculation : Int]

\* The states of the two policies.
DefaultPolicies ==
    [kind : {"default", "unweighted"}, data : [Objects -> PolicyData \cup {NoData}],
     timeStamp : Nat, dataCount : Int]
LFUPolicies == [kind : {"LFU"}, data : [Objects -> Nat \cup {NoData}]]

PolicyOK(ps) ==
    \/ ps \in DefaultPolicies
    \/ ps \in LFUPolicies

HasData(ps) == {o \in Objects : ps.data[o] # NoData}

LEMMA Kinds ==
    ASSUME NEW ps, PolicyOK(ps)
    PROVE  /\ IsDefault(ps) => ps \in DefaultPolicies
           /\ ~IsDefault(ps) => ps \in LFUPolicies
  BY DEF PolicyOK, IsDefault, DefaultPolicies, LFUPolicies

\* An event changes the data of one object, and the time or the count.
Changed(ps, o, d, t, n) ==
    [kind |-> ps.kind, data |-> [ps.data EXCEPT ![o] = d], timeStamp |-> t, dataCount |-> n]

ChangeEffect(ps, o, d, t, n, q) ==
    /\ q \in DefaultPolicies /\ PolicyOK(q) /\ q.kind = ps.kind
    /\ q.data[o] = d /\ q.timeStamp = t /\ q.dataCount = n
    /\ \A p \in Objects \ {o} : q.data[p] = ps.data[p]

LEMMA ChangedEffects ==
    ASSUME NEW ps \in DefaultPolicies, NEW o \in Objects,
           NEW d \in PolicyData \cup {NoData}, NEW t \in Nat, NEW n \in Int,
           NEW q, q = Changed(ps, o, d, t, n)
    PROVE  ChangeEffect(ps, o, d, t, n, q)
  BY DEF Changed, DefaultPolicies, PolicyOK, ChangeEffect

LEMMA PolicyFields ==
    ASSUME NEW ps \in DefaultPolicies
    PROVE  /\ ps = [kind |-> ps.kind, data |-> ps.data, timeStamp |-> ps.timeStamp,
                    dataCount |-> ps.dataCount]
           /\ ps.data \in [Objects -> PolicyData \cup {NoData}]
           /\ ps.timeStamp \in Nat /\ ps.dataCount \in Int
  BY DEF DefaultPolicies

\* The event of an object, which had no data, gives it some.
CreationEffect(ps, o, q) ==
    /\ PolicyOK(q) /\ q.kind = ps.kind /\ HasData(q) = HasData(ps) \cup {o}
    /\ \A p \in Objects \ {o} : q.data[p] = ps.data[p]
    /\ IsDefault(ps) =>
          /\ q.dataCount = ps.dataCount + 1 /\ q.timeStamp = ps.timeStamp
          /\ q.data[o].lastPriorityCalculation = 0 /\ q.data[o].referenceCount = 0
    /\ ~IsDefault(ps) => q.data[o] = 0

LEMMA CreationEffects ==
    ASSUME NEW ps, PolicyOK(ps), NEW o \in Objects, NEW q, q = CreationEvent(ps, o)
    PROVE  CreationEffect(ps, o, q)
  <1> DEFINE d == [referenceCount |-> 0, lastPriorityCalculation |-> 0]
  <1>0. 0 # NoData /\ d # NoData /\ d \in PolicyData
    BY ObjectAssumption DEF PolicyData
  <1>1. CASE IsDefault(ps)
    <2>1. ps \in DefaultPolicies
      BY <1>1, Kinds
    <2>2. q = Changed(ps, o, d, ps.timeStamp, ps.dataCount + 1)
      <3>1. PICK k, data, t, n : /\ ps = [kind |-> k, data |-> data, timeStamp |-> t, dataCount |-> n]
                                 /\ k = ps.kind /\ data = ps.data /\ t = ps.timeStamp /\ n = ps.dataCount
        BY <2>1, PolicyFields
      <3>2. q = [ps EXCEPT !.data[o] = d, !.dataCount = @ + 1]
        BY <1>1 DEF CreationEvent, Default!DataCreationEvent
      <3>3. q = [[kind |-> k, data |-> data, timeStamp |-> t, dataCount |-> n]
                    EXCEPT !.data[o] = d, !.dataCount = @ + 1]
        BY <3>1, <3>2
      <3>4. q = [kind |-> k, data |-> [data EXCEPT ![o] = d], timeStamp |-> t, dataCount |-> n + 1]
        BY <3>3
      <3> QED
        BY <3>1, <3>4 DEF Changed
    <2>3. d.lastPriorityCalculation = 0 /\ d.referenceCount = 0
      OBVIOUS
    <2> HIDE DEF d
    <2> QED
      BY <1>0, <1>1, <2>1, <2>2, <2>3, ChangedEffects, PolicyFields DEF CreationEffect, HasData, ChangeEffect
  <1>2. CASE ~IsDefault(ps)
    <2>1. ps \in LFUPolicies
      BY <1>2, Kinds
    <2>2. q = [ps EXCEPT !.data[o] = 0]
      BY <1>2 DEF CreationEvent, LFU!DataCreationEvent
    <2>3. /\ q \in LFUPolicies /\ q.kind = ps.kind /\ q.data[o] = 0
          /\ \A p \in Objects \ {o} : q.data[p] = ps.data[p]
      BY <2>1, <2>2 DEF LFUPolicies
    <2> QED
      BY <1>0, <1>2, <2>3 DEF CreationEffect, PolicyOK, HasData
  <1> QED
    BY <1>1, <1>2

\* The data of one object may be written field by field.
FieldsWritten(ps, o, c, l, t) ==
    [ps EXCEPT !.data[o].referenceCount = c, !.data[o].lastPriorityCalculation = l, !.timeStamp = t]

LEMMA FieldsChanged ==
    ASSUME NEW ps \in DefaultPolicies, NEW o \in Objects, ps.data[o] # NoData,
           NEW c, NEW l, NEW t, NEW d, d = [referenceCount |-> c, lastPriorityCalculation |-> l],
           NEW q, q = FieldsWritten(ps, o, c, l, t)
    PROVE  q = Changed(ps, o, d, t, ps.dataCount)
  <1>1. PICK k, data, u, n : /\ ps = [kind |-> k, data |-> data, timeStamp |-> u, dataCount |-> n]
                             /\ k = ps.kind /\ data = ps.data /\ u = ps.timeStamp /\ n = ps.dataCount
                             /\ data \in [Objects -> PolicyData \cup {NoData}]
    BY PolicyFields
  <1>2. data[o] \in PolicyData
    BY <1>1
  <1>3. PICK r : r = data[o] /\ r \in PolicyData
    BY <1>2
  <1>4. PICK f : f = [[data EXCEPT ![o].referenceCount = c] EXCEPT ![o].lastPriorityCalculation = l]
    OBVIOUS
  <1>5. f = [data EXCEPT ![o] = [referenceCount |-> c, lastPriorityCalculation |-> l]]
    <2>1. [[r EXCEPT !.referenceCount = c] EXCEPT !.lastPriorityCalculation = l]
             = [referenceCount |-> c, lastPriorityCalculation |-> l]
      <3>1. PICK a, b : r = [referenceCount |-> a, lastPriorityCalculation |-> b]
        BY <1>3 DEF PolicyData
      <3>2. [r EXCEPT !.referenceCount = c] = [referenceCount |-> c, lastPriorityCalculation |-> b]
        BY <3>1
      <3>3. [[referenceCount |-> c, lastPriorityCalculation |-> b] EXCEPT !.lastPriorityCalculation = l]
               = [referenceCount |-> c, lastPriorityCalculation |-> l]
        OBVIOUS
      <3> QED
        BY <3>2, <3>3
    <2> QED
      BY <1>1, <1>3, <1>4, <2>1
  <1>6. q = [kind |-> k, data |-> f, timeStamp |-> t, dataCount |-> n]
    <2>1. q = [[kind |-> k, data |-> data, timeStamp |-> u, dataCount |-> n] EXCEPT
                  !.data[o].referenceCount = c, !.data[o].lastPriorityCalculation = l,
                  !.timeStamp = t]
      BY <1>1 DEF FieldsWritten
    <2> QED
      BY ZenonT(60), <1>4, <2>1
  <1> QED
    BY <1>1, <1>5, <1>6 DEF Changed

\* A hit of an object that has data makes time pass, and finds a time of creation.
HitEffect(ps, o, q) ==
    /\ PolicyOK(q) /\ q.kind = ps.kind /\ HasData(q) = HasData(ps)
    /\ \A p \in Objects \ {o} : q.data[p] = ps.data[p]
    /\ IsDefault(ps) =>
          /\ q.dataCount = ps.dataCount /\ q.timeStamp = ps.timeStamp + 1
          /\ q.data[o].lastPriorityCalculation =
                IF ps.data[o].lastPriorityCalculation = 0
                THEN ps.timeStamp ELSE ps.data[o].lastPriorityCalculation
          /\ q.data[o].referenceCount = ps.data[o].referenceCount + Unit
    /\ ~IsDefault(ps) => q.data[o] = ps.data[o] + 1

LEMMA HitEffects ==
    ASSUME NEW ps, PolicyOK(ps), NEW o \in Objects, ps.data[o] # NoData, NEW q, q = HitEvent(ps, o)
    PROVE  HitEffect(ps, o, q)
  <1>1. CASE IsDefault(ps)
    <2>1. ps \in DefaultPolicies
      BY <1>1, Kinds
    <2>2. ps.data[o] \in PolicyData /\ ps.timeStamp \in Nat /\ ps.dataCount \in Int
      BY <2>1, PolicyFields
    <2>3. PICK c \in Int : c = ps.data[o].referenceCount + Unit
      BY <2>2, UnitAssumption DEF PolicyData
    <2>4. PICK l \in Int : l = IF ps.data[o].lastPriorityCalculation = 0
                               THEN ps.timeStamp ELSE ps.data[o].lastPriorityCalculation
      BY <2>2 DEF PolicyData
    <2>5. PICK t \in Nat : t = ps.timeStamp + 1
      BY <2>2
    <2>6. q = FieldsWritten(ps, o, c, l, t)
      <3>1. q = [ps EXCEPT !.data[o].referenceCount = @ + Unit,
                           !.data[o].lastPriorityCalculation = IF @ = 0 THEN ps.timeStamp ELSE @,
                           !.timeStamp = @ + 1]
        BY <1>1 DEF HitEvent, Default!CacheHitEvent
      <3> QED
        BY <2>1, <2>2, <2>3, <2>4, <2>5, <3>1, PolicyFields DEF PolicyData, FieldsWritten
    <2>7. PICK d : d = [referenceCount |-> c, lastPriorityCalculation |-> l]
      OBVIOUS
    <2>8. d \in PolicyData /\ d # NoData /\ d.lastPriorityCalculation = l /\ d.referenceCount = c
      BY <2>7, ObjectAssumption DEF PolicyData
    <2>9. q = Changed(ps, o, d, t, ps.dataCount)
      BY <2>1, <2>6, <2>7, FieldsChanged
    <2>10. ChangeEffect(ps, o, d, t, ps.dataCount, q)
      BY <2>1, <2>2, <2>5, <2>8, <2>9, ChangedEffects
    <2>11. HasData(q) = HasData(ps)
      BY <2>8, <2>10 DEF HasData, ChangeEffect
    <2> QED
      BY <1>1, <2>3, <2>4, <2>5, <2>8, <2>10, <2>11 DEF HitEffect, ChangeEffect
  <1>2. CASE ~IsDefault(ps)
    <2>1. ps \in LFUPolicies /\ ps.data[o] \in Nat
      BY <1>2, Kinds DEF LFUPolicies
    <2>2. q = [ps EXCEPT !.data[o] = @ + 1]
      BY <1>2 DEF HitEvent, LFU!CacheHitEvent
    <2>3. /\ q \in LFUPolicies /\ q.kind = ps.kind /\ q.data[o] = ps.data[o] + 1
          /\ \A p \in Objects \ {o} : q.data[p] = ps.data[p]
      BY <2>1, <2>2 DEF LFUPolicies
    <2>4. ps.data[o] + 1 # NoData
      BY <2>1, ObjectAssumption
    <2> QED
      BY <1>2, <2>3, <2>4 DEF HitEffect, PolicyOK, HasData
  <1> QED
    BY <1>1, <1>2

\* The policy looks at an object, at the present time: a miss event, or a priority.
LookEffect(ps, o, q) ==
    /\ PolicyOK(q) /\ q.kind = ps.kind /\ HasData(q) = HasData(ps)
    /\ \A p \in Objects \ {o} : q.data[p] = ps.data[p]
    /\ IsDefault(ps) =>
          /\ q.dataCount = ps.dataCount /\ q.timeStamp = ps.timeStamp
          /\ q.data[o].lastPriorityCalculation = ps.timeStamp
    /\ ~IsDefault(ps) => q = ps

LEMMA ShareIsInteger ==
    ASSUME NEW ps \in DefaultPolicies, ps.dataCount > 0
    PROVE  Default!Share(ps) \in Int
  <1>1. ps.dataCount \in Int /\ Unit \in Nat
    BY PolicyFields, UnitAssumption
  <1> QED
    BY <1>1 DEF Default!Share

LEMMA MissEffects ==
    ASSUME NEW ps, PolicyOK(ps), NEW o \in Objects, ps.data[o] # NoData,
           IsDefault(ps) => ps.dataCount > 0, NEW q, q = MissEvent(ps, o)
    PROVE  /\ LookEffect(ps, o, q)
           /\ IsDefault(ps) =>
                 q.data[o].referenceCount = ps.data[o].referenceCount - Default!Share(ps)
  <1>1. CASE IsDefault(ps)
    <2>1. ps \in DefaultPolicies
      BY <1>1, Kinds
    <2>2. ps.data[o] \in PolicyData /\ ps.timeStamp \in Nat /\ ps.dataCount \in Int
      BY <2>1, PolicyFields
    <2>3. PICK c \in Int : c = ps.data[o].referenceCount - Default!Share(ps)
      BY <1>1, <2>1, <2>2, ShareIsInteger DEF PolicyData
    <2>4. PICK l \in Nat : l = ps.timeStamp
      BY <2>2
    <2>5. q = FieldsWritten(ps, o, c, l, l)
      <3>1. q = [ps EXCEPT !.data[o].referenceCount = @ - Default!Share(ps),
                           !.data[o].lastPriorityCalculation = ps.timeStamp]
        BY <1>1 DEF MissEvent, Default!CacheMissEvent
      <3> QED
        BY <2>1, <2>2, <2>3, <2>4, <3>1, PolicyFields DEF PolicyData, FieldsWritten
    <2>6. PICK d : d = [referenceCount |-> c, lastPriorityCalculation |-> l]
      OBVIOUS
    <2>7. d \in PolicyData /\ d # NoData /\ d.lastPriorityCalculation = l /\ d.referenceCount = c
      BY <2>6, ObjectAssumption DEF PolicyData
    <2>8. q = Changed(ps, o, d, l, ps.dataCount)
      BY <2>1, <2>5, <2>6, FieldsChanged
    <2>9. ChangeEffect(ps, o, d, l, ps.dataCount, q)
      BY <2>1, <2>2, <2>4, <2>7, <2>8, ChangedEffects
    <2>10. HasData(q) = HasData(ps)
      BY <2>7, <2>9 DEF HasData, ChangeEffect
    <2> QED
      BY <1>1, <2>3, <2>4, <2>7, <2>9, <2>10 DEF LookEffect, ChangeEffect
  <1>2. CASE ~IsDefault(ps)
    BY <1>2 DEF MissEvent, LFU!CacheMissEvent, LookEffect
  <1> QED
    BY <1>1, <1>2

\* What the objects with data are worth, and have lost to time.
LEMMA PrioritiesAreIntegers ==
    ASSUME NEW ps \in DefaultPolicies, ps.dataCount > 0, NEW o \in Objects, ps.data[o] # NoData
    PROVE  /\ ps.data[o].referenceCount \in Int /\ ps.data[o].lastPriorityCalculation \in Int
           /\ Default!Decay(ps, o) \in Int /\ Contribution[o] \in Int
           /\ ps.kind # "unweighted" => Default!GetPriorityOf(ps, o) \in Int
  <1>1. ps.data[o] \in PolicyData /\ ps.timeStamp \in Nat
    BY PolicyFields
  <1>2. Default!Share(ps) \in Int
    BY ShareIsInteger
  <1>3. ps.timeStamp - ps.data[o].lastPriorityCalculation \in Int
    BY <1>1 DEF PolicyData
  <1>4. Default!Decay(ps, o) \in Int
    BY <1>2, <1>3 DEF Default!Decay
  <1> QED
    BY <1>1, <1>4, ObjectAssumption DEF PolicyData, Default!GetPriorityOf

LEMMA AgeEffects ==
    ASSUME NEW ps, PolicyOK(ps), NEW o \in Objects, ps.data[o] # NoData,
           IsDefault(ps) => ps.dataCount > 0, NEW q, q = AfterPriorityOf(ps, o)
    PROVE  /\ LookEffect(ps, o, q)
           /\ IsDefault(ps) =>
                 q.data[o].referenceCount = ps.data[o].referenceCount - Default!Decay(ps, o)
  <1>1. CASE IsDefault(ps)
    <2>1. ps \in DefaultPolicies
      BY <1>1, Kinds
    <2>2. ps.data[o] \in PolicyData /\ ps.timeStamp \in Nat /\ ps.dataCount \in Int
      BY <2>1, PolicyFields
    <2>3. PICK c \in Int : c = ps.data[o].referenceCount - Default!Decay(ps, o)
      BY <1>1, <2>1, <2>2, PrioritiesAreIntegers
    <2>4. PICK l \in Nat : l = ps.timeStamp
      BY <2>2
    <2>5. q = FieldsWritten(ps, o, c, l, l)
      <3>1. q = [ps EXCEPT !.data[o].referenceCount = @ - Default!Decay(ps, o),
                           !.data[o].lastPriorityCalculation = ps.timeStamp]
        BY <1>1 DEF AfterPriorityOf, Default!Age
      <3> QED
        BY <2>1, <2>2, <2>3, <2>4, <3>1, PolicyFields DEF PolicyData, FieldsWritten
    <2>6. PICK d : d = [referenceCount |-> c, lastPriorityCalculation |-> l]
      OBVIOUS
    <2>7. d \in PolicyData /\ d # NoData /\ d.lastPriorityCalculation = l /\ d.referenceCount = c
      BY <2>6, ObjectAssumption DEF PolicyData
    <2>8. q = Changed(ps, o, d, l, ps.dataCount)
      BY <2>1, <2>5, <2>6, FieldsChanged
    <2>9. ChangeEffect(ps, o, d, l, ps.dataCount, q)
      BY <2>1, <2>2, <2>4, <2>7, <2>8, ChangedEffects
    <2>10. HasData(q) = HasData(ps)
      BY <2>7, <2>9 DEF HasData, ChangeEffect
    <2> QED
      BY <1>1, <2>3, <2>4, <2>7, <2>9, <2>10 DEF LookEffect, ChangeEffect
  <1>2. CASE ~IsDefault(ps)
    BY <1>2 DEF AfterPriorityOf, LookEffect
  <1> QED
    BY <1>1, <1>2

\* An object that is evicted loses its data.
EvictionEffect(ps, o, q) ==
    /\ PolicyOK(q) /\ q.kind = ps.kind /\ HasData(q) = HasData(ps) \ {o}
    /\ \A p \in Objects \ {o} : q.data[p] = ps.data[p]
    /\ IsDefault(ps) => q.dataCount = ps.dataCount - 1 /\ q.timeStamp = ps.timeStamp

LEMMA EvictionEffects ==
    ASSUME NEW ps, PolicyOK(ps), NEW o \in Objects, NEW q, q = EvictionEvent(ps, o)
    PROVE  EvictionEffect(ps, o, q)
  <1>1. CASE IsDefault(ps)
    <2>1. ps \in DefaultPolicies
      BY <1>1, Kinds
    <2>2. ps.timeStamp \in Nat /\ ps.dataCount \in Int
      BY <2>1, PolicyFields
    <2>3. q = Changed(ps, o, NoData, ps.timeStamp, ps.dataCount - 1)
      <3>1. PICK k, data, t, n : /\ ps = [kind |-> k, data |-> data, timeStamp |-> t, dataCount |-> n]
                                 /\ k = ps.kind /\ data = ps.data /\ t = ps.timeStamp /\ n = ps.dataCount
        BY <2>1, PolicyFields
      <3>2. q = [ps EXCEPT !.data[o] = NoData, !.dataCount = @ - 1]
        BY <1>1 DEF EvictionEvent, Default!DataEvictionEvent
      <3>3. q = [[kind |-> k, data |-> data, timeStamp |-> t, dataCount |-> n]
                    EXCEPT !.data[o] = NoData, !.dataCount = @ - 1]
        BY <3>1, <3>2
      <3>4. q = [kind |-> k, data |-> [data EXCEPT ![o] = NoData], timeStamp |-> t, dataCount |-> n - 1]
        BY <3>3
      <3> QED
        BY <3>1, <3>4 DEF Changed
    <2>4. ChangeEffect(ps, o, NoData, ps.timeStamp, ps.dataCount - 1, q)
      BY <2>1, <2>2, <2>3, ChangedEffects
    <2> QED
      BY <1>1, <2>4 DEF EvictionEffect, HasData, ChangeEffect
  <1>2. CASE ~IsDefault(ps)
    <2>1. ps \in LFUPolicies
      BY <1>2, Kinds
    <2>2. q = [ps EXCEPT !.data[o] = NoData]
      BY <1>2 DEF EvictionEvent, LFU!DataEvictionEvent
    <2>3. /\ q \in LFUPolicies /\ q.kind = ps.kind /\ q.data[o] = NoData
          /\ \A p \in Objects \ {o} : q.data[p] = ps.data[p]
      BY <2>1, <2>2 DEF LFUPolicies
    <2> QED
      BY <1>2, <2>3 DEF EvictionEffect, PolicyOK, HasData
  <1> QED
    BY <1>1, <1>2

\* Asking for its priority changes no object's priority: what time has taken from the
\* reference count is taken once.
LEMMA AgeKeepsPriorities ==
    ASSUME NEW ps \in DefaultPolicies, ps.dataCount > 0, NEW o \in Objects, ps.data[o] # NoData,
           NEW p \in Objects, ps.data[p] # NoData, ps.kind # "unweighted"
    PROVE  Default!GetPriorityOf(Default!Age(ps, o), p) = Default!GetPriorityOf(ps, p)
  <1> DEFINE q == Default!Age(ps, o)
             c == ps.data[o].referenceCount - Default!Decay(ps, o)
             d == [referenceCount |-> c, lastPriorityCalculation |-> ps.timeStamp]
  <1>1. ps.data[o] \in PolicyData /\ ps.timeStamp \in Nat /\ ps.dataCount \in Int
    BY PolicyFields
  <1>2. c \in Int /\ Default!Share(ps) \in Int
    BY PrioritiesAreIntegers, ShareIsInteger
  <1>3. q = FieldsWritten(ps, o, c, ps.timeStamp, ps.timeStamp)
    <2>1. q = [ps EXCEPT !.data[o].referenceCount = @ - Default!Decay(ps, o),
                         !.data[o].lastPriorityCalculation = ps.timeStamp]
      BY DEF Default!Age
    <2> QED
      BY <1>1, <2>1, PolicyFields DEF PolicyData, FieldsWritten
  <1>4. d \in PolicyData
    BY <1>1, <1>2 DEF PolicyData
  <1>5. d.referenceCount = c /\ d.lastPriorityCalculation = ps.timeStamp
    OBVIOUS
  <1> HIDE DEF c
  <1>6. q = Changed(ps, o, d, ps.timeStamp, ps.dataCount)
    BY <1>3, FieldsChanged
  <1> HIDE DEF d, q
  <1>7. ChangeEffect(ps, o, d, ps.timeStamp, ps.dataCount, q)
    BY <1>1, <1>4, <1>6, ChangedEffects
  <1>8. Default!Share(q) = Default!Share(ps) /\ q.timeStamp = ps.timeStamp /\ q.kind # "unweighted"
    BY <1>7 DEF Default!Share, ChangeEffect
  <1>9. CASE p = o
    <2>1. q.data[o] = d
      BY <1>7 DEF ChangeEffect
    <2>2. ps.timeStamp - ps.timeStamp = 0 /\ 0 * Default!Share(ps) = 0
      BY <1>1, <1>2
    <2>3. Default!Decay(q, o) = 0
      BY <1>5, <1>8, <2>1, <2>2 DEF Default!Decay
    <2>4. Default!GetPriorityOf(q, o) = c - 0 + Contribution[o]
      BY <1>5, <1>8, <2>1, <2>3 DEF Default!GetPriorityOf
    <2> QED
      BY <1>2, <1>9, <2>4, PrioritiesAreIntegers DEF Default!GetPriorityOf, c, q
  <1>10. CASE p # o
    <2>1. q.data[p] = ps.data[p]
      BY <1>7, <1>10 DEF ChangeEffect
    <2> QED
      BY <1>8, <2>1 DEF Default!GetPriorityOf, Default!Decay, q
  <1> QED
    BY <1>9, <1>10

-----------------------------------------------------------------------------
(* The inductive invariant.                                                *)

Phases == {"idle", "hit", "makeSpace", "priorities", "evict", "create", "misses", "destroy",
           "stopped"}

\* A call has an object that is not stored yet.
Waiting(m) == phase[m] \in {"makeSpace", "priorities", "evict", "create"}

ProtocolType ==
    /\ stored \in [Managers -> SUBSET Objects]
    /\ phase \in [Managers -> Phases]
    /\ subject \in [Managers -> Objects \cup {NoObject}]
    /\ todo \in [Managers -> SUBSET Objects]
    /\ candidate \in [Managers -> Objects \cup {NoObject}]
    /\ minPriority \in [Managers -> Int]

\* No object is in two caches, nor is the object of a call that is not in one yet.
ApartInv ==
    /\ \A m, n \in Managers : m # n => stored[m] \cap stored[n] = {}
    /\ \A m, n \in Managers : Waiting(m) => subject[m] \notin stored[n]
    /\ \A m, n \in Managers : Waiting(m) /\ m # n => subject[m] # subject[n]

\* The object of a call, what an iteration has still to come to, and the candidate.
PlaceInv ==
    \A m \in Managers :
        /\ Waiting(m) => subject[m] \in Objects
        /\ phase[m] \in {"hit", "misses"} => subject[m] \in stored[m]
        /\ phase[m] \in {"idle", "destroy"} => subject[m] = NoObject
        /\ phase[m] \in {"priorities", "misses", "destroy"} => todo[m] \subseteq stored[m]
        /\ phase[m] = "priorities" =>
              /\ stored[m] # {}
              /\ candidate[m] # NoObject => candidate[m] \in stored[m] \ todo[m]
        /\ phase[m] = "evict" => candidate[m] \in stored[m]

KnownOf(m) == IF phase[m] = "destroy" THEN todo[m] ELSE stored[m]

CountInv ==
    /\ PolicyOK(policy)
    /\ HasData(policy) = Protocol!Known
    /\ IsDefault(policy) => policy.dataCount = Cardinality(Protocol!Known)

\* Only the object of a call that has just created it was never looked at.
TimeInv ==
    IsDefault(policy) =>
        /\ policy.timeStamp >= 1
        /\ \A m \in Managers : \A o \in KnownOf(m) :
              /\ policy.data[o].lastPriorityCalculation \in 0..policy.timeStamp
              /\ policy.data[o].lastPriorityCalculation = 0 => phase[m] = "hit" /\ o = subject[m]

UseInv ==
    ~IsDefault(policy) => \A o \in Protocol!Known : hits[o] = policy.data[o]

\* The scan of a manager keeps the least of the priorities it has seen, if no other
\* manager makes time pass in the meantime, or time does not matter.
LeastInv ==
    \A m \in Managers : ~IsDefault(policy) \/ Managers = {m} =>
        /\ phase[m] = "priorities" /\ candidate[m] # NoObject =>
              /\ minPriority[m] = PriorityOf(policy, candidate[m])
              /\ \A o \in stored[m] \ todo[m] : minPriority[m] <= PriorityOf(policy, o)
        /\ phase[m] = "evict" =>
              \A o \in stored[m] : PriorityOf(policy, candidate[m]) <= PriorityOf(policy, o)

\* A scan has a candidate from its first object on, and no policy has lost its weights
\* on the way: NaN is the priority of all objects of a policy, or of none.
WeightInv ==
    \A m \in Managers :
        /\ phase[m] = "priorities" =>
              (candidate[m] = NoObject <=> todo[m] = stored[m] \/ policy.kind = "unweighted")
        /\ phase[m] = "evict" => policy.kind # "unweighted"
        /\ phase[m] = "stopped" => policy.kind = "unweighted"

Inv == ProtocolType /\ ApartInv /\ PlaceInv /\ CountInv /\ TimeInv /\ UseInv /\ LeastInv

-----------------------------------------------------------------------------
(* The steps of the managers.                                              *)

LEMMA HitCallProto ==
    ASSUME ProtocolType, ApartInv, PlaceInv, NEW m \in Managers, NEW o \in Objects,
           Protocol!HitCall(m, o)
    PROVE  ProtocolType' /\ ApartInv' /\ PlaceInv'
  <1>1. ProtocolType'
    BY DEF ProtocolType, PlaceInv, Waiting, Phases, Protocol!HitCall, Protocol!Become
  <1>2. ApartInv'
    BY ObjectAssumption DEF ProtocolType, ApartInv, PlaceInv, Waiting, Phases, Protocol!HitCall, Protocol!Become, Protocol!InUse
  <1>3. PlaceInv'
    BY ObjectAssumption DEF ProtocolType, ApartInv, PlaceInv, Waiting, Phases, Protocol!HitCall, Protocol!Become, Protocol!InUse
  <1> QED
    BY <1>1, <1>2, <1>3

LEMMA MissCallProto ==
    ASSUME ProtocolType, ApartInv, PlaceInv, NEW m \in Managers, NEW o \in Objects,
           Protocol!MissCall(m, o)
    PROVE  ProtocolType' /\ ApartInv' /\ PlaceInv'
  <1>1. ProtocolType'
    BY DEF ProtocolType, PlaceInv, Waiting, Phases, Protocol!MissCall, Protocol!Become
  <1>2. ApartInv'
    BY ObjectAssumption DEF ProtocolType, ApartInv, PlaceInv, Waiting, Phases, Protocol!MissCall, Protocol!Become, Protocol!InUse
  <1>3. PlaceInv'
    BY ObjectAssumption DEF ProtocolType, ApartInv, PlaceInv, Waiting, Phases, Protocol!MissCall, Protocol!Become, Protocol!InUse
  <1> QED
    BY <1>1, <1>2, <1>3

LEMMA NeedSpaceProto ==
    ASSUME ProtocolType, ApartInv, PlaceInv, NEW m \in Managers,
           Protocol!NeedSpace(m)
    PROVE  ProtocolType' /\ ApartInv' /\ PlaceInv'
  <1>1. ProtocolType'
    BY DEF ProtocolType, PlaceInv, Waiting, Phases, Protocol!NeedSpace, Protocol!Become
  <1>2. ApartInv'
    BY ObjectAssumption DEF ProtocolType, ApartInv, PlaceInv, Waiting, Phases, Protocol!NeedSpace, Protocol!Become, Protocol!InUse
  <1>3. PlaceInv'
    BY ObjectAssumption DEF ProtocolType, ApartInv, PlaceInv, Waiting, Phases, Protocol!NeedSpace, Protocol!Become, Protocol!InUse
  <1> QED
    BY <1>1, <1>2, <1>3

LEMMA SpaceMadeProto ==
    ASSUME ProtocolType, ApartInv, PlaceInv, NEW m \in Managers,
           Protocol!SpaceMade(m)
    PROVE  ProtocolType' /\ ApartInv' /\ PlaceInv'
  <1>1. ProtocolType'
    BY DEF ProtocolType, PlaceInv, Waiting, Phases, Protocol!SpaceMade, Protocol!Become
  <1>2. ApartInv'
    BY ObjectAssumption DEF ProtocolType, ApartInv, PlaceInv, Waiting, Phases, Protocol!SpaceMade, Protocol!Become, Protocol!InUse
  <1>3. PlaceInv'
    BY ObjectAssumption DEF ProtocolType, ApartInv, PlaceInv, Waiting, Phases, Protocol!SpaceMade, Protocol!Become, Protocol!InUse
  <1> QED
    BY <1>1, <1>2, <1>3

LEMMA CandidateFoundProto ==
    ASSUME ProtocolType, ApartInv, PlaceInv, NEW m \in Managers,
           Protocol!CandidateFound(m)
    PROVE  ProtocolType' /\ ApartInv' /\ PlaceInv'
  <1>1. ProtocolType'
    BY DEF ProtocolType, PlaceInv, Waiting, Phases, Protocol!CandidateFound, Protocol!Become
  <1>2. ApartInv'
    BY ObjectAssumption DEF ProtocolType, ApartInv, PlaceInv, Waiting, Phases, Protocol!CandidateFound, Protocol!Become, Protocol!InUse
  <1>3. PlaceInv'
    BY ObjectAssumption DEF ProtocolType, ApartInv, PlaceInv, Waiting, Phases, Protocol!CandidateFound, Protocol!Become, Protocol!InUse
  <1> QED
    BY <1>1, <1>2, <1>3

LEMMA CandidateMissingProto ==
    ASSUME ProtocolType, ApartInv, PlaceInv, NEW m \in Managers,
           Protocol!CandidateMissing(m)
    PROVE  ProtocolType' /\ ApartInv' /\ PlaceInv'
  <1>1. ProtocolType'
    BY DEF ProtocolType, PlaceInv, Waiting, Phases, Protocol!CandidateMissing, Protocol!Become
  <1>2. ApartInv'
    BY ObjectAssumption DEF ProtocolType, ApartInv, PlaceInv, Waiting, Phases, Protocol!CandidateMissing, Protocol!Become, Protocol!InUse
  <1>3. PlaceInv'
    BY ObjectAssumption DEF ProtocolType, ApartInv, PlaceInv, Waiting, Phases, Protocol!CandidateMissing, Protocol!Become, Protocol!InUse
  <1> QED
    BY <1>1, <1>2, <1>3

LEMMA EvictDataProto ==
    ASSUME ProtocolType, ApartInv, PlaceInv, NEW m \in Managers,
           Protocol!EvictData(m)
    PROVE  ProtocolType' /\ ApartInv' /\ PlaceInv'
  <1>1. ProtocolType'
    BY DEF ProtocolType, PlaceInv, Waiting, Phases, Protocol!EvictData, Protocol!Become
  <1>2. ApartInv'
    BY ObjectAssumption DEF ProtocolType, ApartInv, PlaceInv, Waiting, Phases, Protocol!EvictData, Protocol!Become, Protocol!InUse
  <1>3. PlaceInv'
    BY ObjectAssumption DEF ProtocolType, ApartInv, PlaceInv, Waiting, Phases, Protocol!EvictData, Protocol!Become, Protocol!InUse
  <1> QED
    BY <1>1, <1>2, <1>3

LEMMA CreateDataProto ==
    ASSUME ProtocolType, ApartInv, PlaceInv, NEW m \in Managers,
           Protocol!CreateData(m)
    PROVE  ProtocolType' /\ ApartInv' /\ PlaceInv'
  <1>1. ProtocolType'
    BY DEF ProtocolType, PlaceInv, Waiting, Phases, Protocol!CreateData, Protocol!Become
  <1>2. ApartInv'
    BY ObjectAssumption DEF ProtocolType, ApartInv, PlaceInv, Waiting, Phases, Protocol!CreateData, Protocol!Become, Protocol!InUse
  <1>3. PlaceInv'
    BY ObjectAssumption DEF ProtocolType, ApartInv, PlaceInv, Waiting, Phases, Protocol!CreateData, Protocol!Become, Protocol!InUse
  <1> QED
    BY <1>1, <1>2, <1>3

LEMMA HitDataProto ==
    ASSUME ProtocolType, ApartInv, PlaceInv, NEW m \in Managers,
           Protocol!HitData(m)
    PROVE  ProtocolType' /\ ApartInv' /\ PlaceInv'
  <1>1. ProtocolType'
    BY DEF ProtocolType, PlaceInv, Waiting, Phases, Protocol!HitData, Protocol!Become
  <1>2. ApartInv'
    BY ObjectAssumption DEF ProtocolType, ApartInv, PlaceInv, Waiting, Phases, Protocol!HitData, Protocol!Become, Protocol!InUse
  <1>3. PlaceInv'
    BY ObjectAssumption DEF ProtocolType, ApartInv, PlaceInv, Waiting, Phases, Protocol!HitData, Protocol!Become, Protocol!InUse
  <1> QED
    BY <1>1, <1>2, <1>3

LEMMA MissDataProto ==
    ASSUME ProtocolType, ApartInv, PlaceInv, NEW m \in Managers, NEW o \in Objects,
           Protocol!MissData(m, o)
    PROVE  ProtocolType' /\ ApartInv' /\ PlaceInv'
  <1>1. ProtocolType'
    BY DEF ProtocolType, PlaceInv, Waiting, Phases, Protocol!MissData, Protocol!Become
  <1>2. ApartInv'
    BY ObjectAssumption DEF ProtocolType, ApartInv, PlaceInv, Waiting, Phases, Protocol!MissData, Protocol!Become, Protocol!InUse
  <1>3. PlaceInv'
    BY ObjectAssumption DEF ProtocolType, ApartInv, PlaceInv, Waiting, Phases, Protocol!MissData, Protocol!Become, Protocol!InUse
  <1> QED
    BY <1>1, <1>2, <1>3

LEMMA ReturnFromCallProto ==
    ASSUME ProtocolType, ApartInv, PlaceInv, NEW m \in Managers,
           Protocol!ReturnFromCall(m)
    PROVE  ProtocolType' /\ ApartInv' /\ PlaceInv'
  <1>1. ProtocolType'
    BY DEF ProtocolType, PlaceInv, Waiting, Phases, Protocol!ReturnFromCall, Protocol!Become
  <1>2. ApartInv'
    BY ObjectAssumption DEF ProtocolType, ApartInv, PlaceInv, Waiting, Phases, Protocol!ReturnFromCall, Protocol!Become, Protocol!InUse
  <1>3. PlaceInv'
    BY ObjectAssumption DEF ProtocolType, ApartInv, PlaceInv, Waiting, Phases, Protocol!ReturnFromCall, Protocol!Become, Protocol!InUse
  <1> QED
    BY <1>1, <1>2, <1>3

LEMMA DestroyManagerProto ==
    ASSUME ProtocolType, ApartInv, PlaceInv, NEW m \in Managers,
           Protocol!DestroyManager(m)
    PROVE  ProtocolType' /\ ApartInv' /\ PlaceInv'
  <1>1. ProtocolType'
    BY DEF ProtocolType, PlaceInv, Waiting, Phases, Protocol!DestroyManager, Protocol!Become
  <1>2. ApartInv'
    BY ObjectAssumption DEF ProtocolType, ApartInv, PlaceInv, Waiting, Phases, Protocol!DestroyManager, Protocol!Become, Protocol!InUse
  <1>3. PlaceInv'
    BY ObjectAssumption DEF ProtocolType, ApartInv, PlaceInv, Waiting, Phases, Protocol!DestroyManager, Protocol!Become, Protocol!InUse
  <1> QED
    BY <1>1, <1>2, <1>3

LEMMA DestroyDataProto ==
    ASSUME ProtocolType, ApartInv, PlaceInv, NEW m \in Managers, NEW o \in Objects,
           Protocol!DestroyData(m, o)
    PROVE  ProtocolType' /\ ApartInv' /\ PlaceInv'
  <1>1. ProtocolType'
    BY DEF ProtocolType, PlaceInv, Waiting, Phases, Protocol!DestroyData, Protocol!Become
  <1>2. ApartInv'
    BY ObjectAssumption DEF ProtocolType, ApartInv, PlaceInv, Waiting, Phases, Protocol!DestroyData, Protocol!Become, Protocol!InUse
  <1>3. PlaceInv'
    BY ObjectAssumption DEF ProtocolType, ApartInv, PlaceInv, Waiting, Phases, Protocol!DestroyData, Protocol!Become, Protocol!InUse
  <1> QED
    BY <1>1, <1>2, <1>3

LEMMA CreateManagerProto ==
    ASSUME ProtocolType, ApartInv, PlaceInv, NEW m \in Managers,
           Protocol!CreateManager(m)
    PROVE  ProtocolType' /\ ApartInv' /\ PlaceInv'
  <1>1. ProtocolType'
    BY DEF ProtocolType, PlaceInv, Waiting, Phases, Protocol!CreateManager, Protocol!Become
  <1>2. ApartInv'
    BY ObjectAssumption DEF ProtocolType, ApartInv, PlaceInv, Waiting, Phases, Protocol!CreateManager, Protocol!Become, Protocol!InUse
  <1>3. PlaceInv'
    BY ObjectAssumption DEF ProtocolType, ApartInv, PlaceInv, Waiting, Phases, Protocol!CreateManager, Protocol!Become, Protocol!InUse
  <1> QED
    BY <1>1, <1>2, <1>3

-----------------------------------------------------------------------------
(* The policy in the steps of the managers.                                *)

\* Every known object is known to one manager, which has it stored.
LEMMA KnownApart ==
    ASSUME ProtocolType, ApartInv, PlaceInv
    PROVE  /\ Protocol!Known = UNION {KnownOf(m) : m \in Managers}
           /\ \A m \in Managers : KnownOf(m) \subseteq stored[m]
           /\ \A m \in Managers : phase[m] # "destroy" => KnownOf(m) = stored[m]
           /\ \A m, n \in Managers : m # n => KnownOf(m) \cap KnownOf(n) = {}
           /\ Protocol!Known \subseteq Objects
  <1>1. Protocol!Known = UNION {KnownOf(m) : m \in Managers}
    BY DEF Protocol!Known, KnownOf
  <1>2. \A m \in Managers : KnownOf(m) \subseteq stored[m] /\ stored[m] \subseteq Objects
    BY DEF PlaceInv, KnownOf, ProtocolType
  <1>3. \A m, n \in Managers : m # n => KnownOf(m) \cap KnownOf(n) = {}
    BY <1>2 DEF ApartInv
  <1> QED
    BY <1>1, <1>2, <1>3 DEF KnownOf

LEMMA KnownData ==
    ASSUME Inv, NEW m \in Managers, NEW o \in KnownOf(m)
    PROVE  /\ o \in Objects /\ policy.data[o] # NoData /\ PolicyOK(policy)
           /\ IsDefault(policy) => policy.dataCount > 0
  <1>1. o \in Protocol!Known /\ Protocol!Known \subseteq Objects
    BY KnownApart DEF Inv
  <1>2. IsFiniteSet(Protocol!Known)
    BY <1>1, FS_Subset, ObjectAssumption
  <1>3. Cardinality(Protocol!Known) \in Nat /\ Cardinality(Protocol!Known) # 0
    BY <1>1, <1>2, FS_CardinalityType, FS_EmptySet
  <1> QED
    BY <1>1, <1>3 DEF Inv, CountInv, HasData

\* What a step does to the counts of hits.
HitsCounted ==
    IF IsDefault(policy)
    THEN hits' = hits
    ELSE hits' = [o \in Objects |->
                     IF o \notin Protocol!Known THEN 0
                     ELSE IF o \in Hit THEN hits[o] + 1 ELSE hits[o]]

\* Steps without an event of the policy.
LEMMA QuietStep ==
    ASSUME Inv, HitsCounted, policy' = policy,
           \A n \in Managers : KnownOf(n)' = KnownOf(n),
           \A n \in Managers : phase[n] = "hit" => phase'[n] = "hit" /\ subject'[n] = subject[n]
    PROVE  CountInv' /\ TimeInv' /\ UseInv'
  <1>1. Protocol!Known' = Protocol!Known
    <2>1. Protocol!Known' = UNION {KnownOf(m)' : m \in Managers}
      BY DEF Protocol!Known, KnownOf
    <2>2. Protocol!Known = UNION {KnownOf(m) : m \in Managers}
      BY DEF Protocol!Known, KnownOf
    <2> QED
      BY <2>1, <2>2
  <1>2. CountInv'
    BY <1>1 DEF Inv, CountInv, HasData
  <1>3. TimeInv'
    BY DEF Inv, TimeInv
  <1>4. UseInv'
    <2>1. Hit = {}
      BY DEF Hit
    <2>2. Protocol!Known \subseteq Objects
      BY KnownApart DEF Inv
    <2> QED
      BY <1>1, <2>1, <2>2 DEF Inv, UseInv, HitsCounted
  <1> QED
    BY <1>2, <1>3, <1>4

\* A manager that goes on to something else than evicting does not matter to the
\* scans of the others, if it leaves the policy's data of their objects alone.
LEMMA ScansApart ==
    ASSUME Inv, NEW m \in Managers,
           policy'.kind = policy.kind,
           phase'[m] \notin {"priorities", "evict"},
           \A n \in Managers \ {m} :
              /\ phase'[n] = phase[n] /\ stored'[n] = stored[n] /\ todo'[n] = todo[n]
              /\ candidate'[n] = candidate[n] /\ minPriority'[n] = minPriority[n]
              /\ \A o \in stored[n] : policy'.data[o] = policy.data[o]
    PROVE  LeastInv'
  <1> SUFFICES ASSUME NEW n \in Managers, ~IsDefault(policy') \/ Managers = {n}
               PROVE  /\ phase'[n] = "priorities" /\ candidate'[n] # NoObject =>
                            /\ minPriority'[n] = PriorityOf(policy', candidate'[n])
                            /\ \A o \in stored'[n] \ todo'[n] : minPriority'[n] <= PriorityOf(policy', o)
                      /\ phase'[n] = "evict" =>
                            \A o \in stored'[n] : PriorityOf(policy', candidate'[n]) <= PriorityOf(policy', o)
    BY DEF LeastInv
  <1>1. CASE n = m
    BY <1>1
  <1>2. CASE n # m
    <2>1. ~IsDefault(policy') /\ ~IsDefault(policy)
      BY <1>2 DEF IsDefault
    <2>2. \A o \in stored[n] : PriorityOf(policy', o) = PriorityOf(policy, o)
      BY <1>2, <2>1 DEF PriorityOf, LFU!GetPriorityOf
    <2>3. phase[n] = "priorities" /\ candidate[n] # NoObject => candidate[n] \in stored[n]
      BY DEF Inv, PlaceInv
    <2>4. phase[n] = "evict" => candidate[n] \in stored[n]
      BY DEF Inv, PlaceInv
    <2>5. n \in Managers \ {m}
      BY <1>2
    <2> QED
      BY <2>1, <2>2, <2>3, <2>4, <2>5 DEF Inv, LeastInv
  <1> QED
    BY <1>1, <1>2

\* What all managers know in the next state.
LEMMA NextKnown ==
    Protocol!Known' = UNION {KnownOf(n)' : n \in Managers}
  BY DEF Protocol!Known, KnownOf

LEMMA NoHit ==
    ASSUME \A n \in Managers : phase[n] = "hit" => phase'[n] = "hit"
    PROVE  Hit = {}
  BY DEF Hit

\* Steps that look at an object.
LEMMA LookStep ==
    ASSUME Inv, HitsCounted, NEW m \in Managers, NEW o \in KnownOf(m),
           LookEffect(policy, o, policy'),
           \A n \in Managers : KnownOf(n)' = KnownOf(n),
           \A n \in Managers : phase[n] = "hit" => phase'[n] = "hit" /\ subject'[n] = subject[n]
    PROVE  CountInv' /\ TimeInv' /\ UseInv'
  <1>1. Protocol!Known' = Protocol!Known
    BY NextKnown, KnownApart DEF Inv
  <1>2. CountInv'
    BY <1>1 DEF Inv, CountInv, LookEffect, IsDefault
  <1>3. TimeInv'
    <2> SUFFICES ASSUME IsDefault(policy')
                 PROVE  /\ policy'.timeStamp >= 1
                        /\ \A n \in Managers : \A p \in KnownOf(n)' :
                              /\ policy'.data[p].lastPriorityCalculation \in 0..policy'.timeStamp
                              /\ policy'.data[p].lastPriorityCalculation = 0 =>
                                    phase'[n] = "hit" /\ p = subject'[n]
      BY DEF TimeInv
    <2>1. IsDefault(policy) /\ policy \in DefaultPolicies
      BY Kinds DEF IsDefault, LookEffect, Inv, CountInv
    <2>2. /\ policy'.timeStamp = policy.timeStamp /\ policy.timeStamp \in Nat /\ policy.timeStamp >= 1
          /\ policy'.data[o].lastPriorityCalculation = policy.timeStamp
      BY <2>1, PolicyFields DEF LookEffect, Inv, TimeInv
    <2>3. ASSUME NEW n \in Managers, NEW p \in KnownOf(n)
          PROVE  /\ policy'.data[p].lastPriorityCalculation \in 0..policy'.timeStamp
                 /\ policy'.data[p].lastPriorityCalculation = 0 =>
                       phase'[n] = "hit" /\ p = subject'[n]
      <3>1. p \in Objects
        BY KnownData
      <3>2. CASE p = o
        BY <2>2, <3>2
      <3>3. CASE p # o
        <4>1. policy'.data[p] = policy.data[p]
          BY <3>1, <3>3 DEF LookEffect
        <4> QED
          BY <2>1, <2>2, <4>1 DEF Inv, TimeInv
      <3> QED
        BY <3>2, <3>3
    <2> QED
      BY <2>2, <2>3
  <1>4. UseInv'
    <2>1. Protocol!Known \subseteq Objects
      BY KnownApart DEF Inv
    <2>2. ~IsDefault(policy') => ~IsDefault(policy) /\ policy' = policy
      BY DEF LookEffect, IsDefault
    <2> QED
      BY <1>1, <2>1, <2>2, NoHit DEF Inv, UseInv, HitsCounted
  <1> QED
    BY <1>2, <1>3, <1>4

\* Steps that evict an object.
LEMMA EvictionStep ==
    ASSUME Inv, HitsCounted, NEW m \in Managers, NEW o \in KnownOf(m),
           EvictionEffect(policy, o, policy'),
           KnownOf(m)' = KnownOf(m) \ {o},
           \A n \in Managers \ {m} : KnownOf(n)' = KnownOf(n),
           \A n \in Managers : phase[n] = "hit" => phase'[n] = "hit" /\ subject'[n] = subject[n]
    PROVE  CountInv' /\ TimeInv' /\ UseInv'
  <1>1. /\ Protocol!Known = UNION {KnownOf(n) : n \in Managers}
        /\ Protocol!Known \subseteq Objects
        /\ \A n \in Managers \ {m} : o \notin KnownOf(n)
    BY KnownApart DEF Inv
  <1>2. Protocol!Known' = Protocol!Known \ {o} /\ o \in Protocol!Known /\ o \in Objects
    BY <1>1, NextKnown
  <1>3. CountInv'
    <2>1. IsFiniteSet(Protocol!Known)
      BY <1>1, FS_Subset, ObjectAssumption
    <2>2. Cardinality(Protocol!Known \ {o}) = Cardinality(Protocol!Known) - 1
      BY <1>2, <2>1, FS_RemoveElement
    <2> QED
      BY <1>2, <2>2 DEF Inv, CountInv, EvictionEffect, IsDefault
  <1>4. \A n \in Managers : KnownOf(n)' \subseteq KnownOf(n) \ {o}
    BY <1>1
  <1>5. TimeInv'
    <2> SUFFICES ASSUME IsDefault(policy')
                 PROVE  /\ policy'.timeStamp >= 1
                        /\ \A n \in Managers : \A p \in KnownOf(n)' :
                              /\ policy'.data[p].lastPriorityCalculation \in 0..policy'.timeStamp
                              /\ policy'.data[p].lastPriorityCalculation = 0 =>
                                    phase'[n] = "hit" /\ p = subject'[n]
      BY DEF TimeInv
    <2>1. IsDefault(policy)
      BY DEF IsDefault, EvictionEffect
    <2>2. ASSUME NEW n \in Managers, NEW p \in KnownOf(n)'
          PROVE  p \in KnownOf(n) /\ policy'.data[p] = policy.data[p]
      BY <1>1, <1>4, <2>2 DEF EvictionEffect
    <2> QED
      BY <2>1, <2>2 DEF Inv, TimeInv, EvictionEffect
  <1>6. UseInv'
    <2>1. ~IsDefault(policy') => ~IsDefault(policy)
      BY DEF EvictionEffect, IsDefault
    <2>2. \A p \in Protocol!Known \ {o} : policy'.data[p] = policy.data[p]
      BY <1>1 DEF EvictionEffect
    <2> QED
      BY <1>1, <1>2, <2>1, <2>2, NoHit DEF Inv, UseInv, HitsCounted
  <1> QED
    BY <1>3, <1>5, <1>6

-----------------------------------------------------------------------------
(* Every step keeps the invariant.                                         *)

LEMMA HitCallStep ==
    ASSUME Inv, HitsCounted, NEW m \in Managers, NEW o \in Objects, Protocol!HitCall(m, o)
    PROVE  Inv'
  <1>1. ProtocolType' /\ ApartInv' /\ PlaceInv'
    BY HitCallProto DEF Inv
  <1>2. \A n \in Managers : KnownOf(n)' = KnownOf(n)
    BY DEF Inv, ProtocolType, PlaceInv, KnownOf, Protocol!HitCall, Protocol!Become
  <1>3. \A n \in Managers : phase[n] = "hit" => phase'[n] = "hit" /\ subject'[n] = subject[n]
    BY DEF Inv, ProtocolType, Protocol!HitCall, Protocol!Become
  <1>4. policy' = policy
    BY DEF Protocol!HitCall
  <1>5. CountInv' /\ TimeInv' /\ UseInv'
    BY <1>2, <1>3, <1>4, QuietStep
  <1>6. LeastInv'
    <2>1. phase'[m] \notin {"priorities", "evict"}
      BY DEF Inv, ProtocolType, Protocol!HitCall, Protocol!Become
    <2>2. \A n \in Managers \ {m} :
             /\ phase'[n] = phase[n] /\ stored'[n] = stored[n] /\ todo'[n] = todo[n]
             /\ candidate'[n] = candidate[n] /\ minPriority'[n] = minPriority[n]
      BY DEF Inv, ProtocolType, Protocol!HitCall, Protocol!Become
    <2> QED
      BY <1>4, <2>1, <2>2, ScansApart
  <1> QED
    BY <1>1, <1>5, <1>6 DEF Inv

LEMMA MissCallStep ==
    ASSUME Inv, HitsCounted, NEW m \in Managers, NEW o \in Objects, Protocol!MissCall(m, o)
    PROVE  Inv'
  <1>1. ProtocolType' /\ ApartInv' /\ PlaceInv'
    BY MissCallProto DEF Inv
  <1>2. \A n \in Managers : KnownOf(n)' = KnownOf(n)
    BY DEF Inv, ProtocolType, PlaceInv, KnownOf, Protocol!MissCall, Protocol!Become
  <1>3. \A n \in Managers : phase[n] = "hit" => phase'[n] = "hit" /\ subject'[n] = subject[n]
    BY DEF Inv, ProtocolType, Protocol!MissCall, Protocol!Become
  <1>4. policy' = policy
    BY DEF Protocol!MissCall
  <1>5. CountInv' /\ TimeInv' /\ UseInv'
    BY <1>2, <1>3, <1>4, QuietStep
  <1>6. LeastInv'
    <2>1. phase'[m] \notin {"priorities", "evict"}
      BY DEF Inv, ProtocolType, Protocol!MissCall, Protocol!Become
    <2>2. \A n \in Managers \ {m} :
             /\ phase'[n] = phase[n] /\ stored'[n] = stored[n] /\ todo'[n] = todo[n]
             /\ candidate'[n] = candidate[n] /\ minPriority'[n] = minPriority[n]
      BY DEF Inv, ProtocolType, Protocol!MissCall, Protocol!Become
    <2> QED
      BY <1>4, <2>1, <2>2, ScansApart
  <1> QED
    BY <1>1, <1>5, <1>6 DEF Inv

LEMMA NeedSpaceStep ==
    ASSUME Inv, HitsCounted, NEW m \in Managers, Protocol!NeedSpace(m)
    PROVE  Inv'
  <1>1. ProtocolType' /\ ApartInv' /\ PlaceInv'
    BY NeedSpaceProto DEF Inv
  <1>2. \A n \in Managers : KnownOf(n)' = KnownOf(n)
    BY DEF Inv, ProtocolType, PlaceInv, KnownOf, Protocol!NeedSpace, Protocol!Become
  <1>3. \A n \in Managers : phase[n] = "hit" => phase'[n] = "hit" /\ subject'[n] = subject[n]
    BY DEF Inv, ProtocolType, Protocol!NeedSpace, Protocol!Become
  <1>4. policy' = policy
    BY DEF Protocol!NeedSpace
  <1>5. CountInv' /\ TimeInv' /\ UseInv'
    BY <1>2, <1>3, <1>4, QuietStep
  <1>6. LeastInv'
    BY <1>4 DEF Inv, ProtocolType, PlaceInv, LeastInv, Protocol!NeedSpace, Protocol!Become
  <1> QED
    BY <1>1, <1>5, <1>6 DEF Inv

LEMMA SpaceMadeStep ==
    ASSUME Inv, HitsCounted, NEW m \in Managers, Protocol!SpaceMade(m)
    PROVE  Inv'
  <1>1. ProtocolType' /\ ApartInv' /\ PlaceInv'
    BY SpaceMadeProto DEF Inv
  <1>2. \A n \in Managers : KnownOf(n)' = KnownOf(n)
    BY DEF Inv, ProtocolType, PlaceInv, KnownOf, Protocol!SpaceMade, Protocol!Become
  <1>3. \A n \in Managers : phase[n] = "hit" => phase'[n] = "hit" /\ subject'[n] = subject[n]
    BY DEF Inv, ProtocolType, Protocol!SpaceMade, Protocol!Become
  <1>4. policy' = policy
    BY DEF Protocol!SpaceMade
  <1>5. CountInv' /\ TimeInv' /\ UseInv'
    BY <1>2, <1>3, <1>4, QuietStep
  <1>6. LeastInv'
    <2>1. phase'[m] \notin {"priorities", "evict"}
      BY DEF Inv, ProtocolType, Protocol!SpaceMade, Protocol!Become
    <2>2. \A n \in Managers \ {m} :
             /\ phase'[n] = phase[n] /\ stored'[n] = stored[n] /\ todo'[n] = todo[n]
             /\ candidate'[n] = candidate[n] /\ minPriority'[n] = minPriority[n]
      BY DEF Inv, ProtocolType, Protocol!SpaceMade, Protocol!Become
    <2> QED
      BY <1>4, <2>1, <2>2, ScansApart
  <1> QED
    BY <1>1, <1>5, <1>6 DEF Inv

LEMMA CandidateFoundStep ==
    ASSUME Inv, HitsCounted, NEW m \in Managers, Protocol!CandidateFound(m)
    PROVE  Inv'
  <1>1. ProtocolType' /\ ApartInv' /\ PlaceInv'
    BY CandidateFoundProto DEF Inv
  <1>2. \A n \in Managers : KnownOf(n)' = KnownOf(n)
    BY DEF Inv, ProtocolType, PlaceInv, KnownOf, Protocol!CandidateFound, Protocol!Become
  <1>3. \A n \in Managers : phase[n] = "hit" => phase'[n] = "hit" /\ subject'[n] = subject[n]
    BY DEF Inv, ProtocolType, Protocol!CandidateFound, Protocol!Become
  <1>4. policy' = policy
    BY DEF Protocol!CandidateFound
  <1>5. CountInv' /\ TimeInv' /\ UseInv'
    BY <1>2, <1>3, <1>4, QuietStep
  <1>6. LeastInv'
    BY <1>4 DEF Inv, ProtocolType, PlaceInv, LeastInv, Protocol!CandidateFound, Protocol!Become
  <1> QED
    BY <1>1, <1>5, <1>6 DEF Inv

LEMMA CandidateMissingStep ==
    ASSUME Inv, HitsCounted, NEW m \in Managers, Protocol!CandidateMissing(m)
    PROVE  Inv'
  <1>1. ProtocolType' /\ ApartInv' /\ PlaceInv'
    BY CandidateMissingProto DEF Inv
  <1>2. \A n \in Managers : KnownOf(n)' = KnownOf(n)
    BY DEF Inv, ProtocolType, PlaceInv, KnownOf, Protocol!CandidateMissing, Protocol!Become
  <1>3. \A n \in Managers : phase[n] = "hit" => phase'[n] = "hit" /\ subject'[n] = subject[n]
    BY DEF Inv, ProtocolType, Protocol!CandidateMissing, Protocol!Become
  <1>4. policy' = policy
    BY DEF Protocol!CandidateMissing
  <1>5. CountInv' /\ TimeInv' /\ UseInv'
    BY <1>2, <1>3, <1>4, QuietStep
  <1>6. LeastInv'
    <2>1. phase'[m] \notin {"priorities", "evict"}
      BY DEF Inv, ProtocolType, Protocol!CandidateMissing, Protocol!Become
    <2>2. \A n \in Managers \ {m} :
             /\ phase'[n] = phase[n] /\ stored'[n] = stored[n] /\ todo'[n] = todo[n]
             /\ candidate'[n] = candidate[n] /\ minPriority'[n] = minPriority[n]
      BY DEF Inv, ProtocolType, Protocol!CandidateMissing, Protocol!Become
    <2> QED
      BY <1>4, <2>1, <2>2, ScansApart
  <1> QED
    BY <1>1, <1>5, <1>6 DEF Inv

LEMMA ReturnFromCallStep ==
    ASSUME Inv, HitsCounted, NEW m \in Managers, Protocol!ReturnFromCall(m)
    PROVE  Inv'
  <1>1. ProtocolType' /\ ApartInv' /\ PlaceInv'
    BY ReturnFromCallProto DEF Inv
  <1>2. \A n \in Managers : KnownOf(n)' = KnownOf(n)
    BY DEF Inv, ProtocolType, PlaceInv, KnownOf, Protocol!ReturnFromCall, Protocol!Become
  <1>3. \A n \in Managers : phase[n] = "hit" => phase'[n] = "hit" /\ subject'[n] = subject[n]
    BY DEF Inv, ProtocolType, Protocol!ReturnFromCall, Protocol!Become
  <1>4. policy' = policy
    BY DEF Protocol!ReturnFromCall
  <1>5. CountInv' /\ TimeInv' /\ UseInv'
    BY <1>2, <1>3, <1>4, QuietStep
  <1>6. LeastInv'
    <2>1. phase'[m] \notin {"priorities", "evict"}
      BY DEF Inv, ProtocolType, Protocol!ReturnFromCall, Protocol!Become
    <2>2. \A n \in Managers \ {m} :
             /\ phase'[n] = phase[n] /\ stored'[n] = stored[n] /\ todo'[n] = todo[n]
             /\ candidate'[n] = candidate[n] /\ minPriority'[n] = minPriority[n]
      BY DEF Inv, ProtocolType, Protocol!ReturnFromCall, Protocol!Become
    <2> QED
      BY <1>4, <2>1, <2>2, ScansApart
  <1> QED
    BY <1>1, <1>5, <1>6 DEF Inv

LEMMA DestroyManagerStep ==
    ASSUME Inv, HitsCounted, NEW m \in Managers, Protocol!DestroyManager(m)
    PROVE  Inv'
  <1>1. ProtocolType' /\ ApartInv' /\ PlaceInv'
    BY DestroyManagerProto DEF Inv
  <1>2. \A n \in Managers : KnownOf(n)' = KnownOf(n)
    BY DEF Inv, ProtocolType, PlaceInv, KnownOf, Protocol!DestroyManager, Protocol!Become
  <1>3. \A n \in Managers : phase[n] = "hit" => phase'[n] = "hit" /\ subject'[n] = subject[n]
    BY DEF Inv, ProtocolType, Protocol!DestroyManager, Protocol!Become
  <1>4. policy' = policy
    BY DEF Protocol!DestroyManager
  <1>5. CountInv' /\ TimeInv' /\ UseInv'
    BY <1>2, <1>3, <1>4, QuietStep
  <1>6. LeastInv'
    <2>1. phase'[m] \notin {"priorities", "evict"}
      BY DEF Inv, ProtocolType, Protocol!DestroyManager, Protocol!Become
    <2>2. \A n \in Managers \ {m} :
             /\ phase'[n] = phase[n] /\ stored'[n] = stored[n] /\ todo'[n] = todo[n]
             /\ candidate'[n] = candidate[n] /\ minPriority'[n] = minPriority[n]
      BY DEF Inv, ProtocolType, Protocol!DestroyManager, Protocol!Become
    <2> QED
      BY <1>4, <2>1, <2>2, ScansApart
  <1> QED
    BY <1>1, <1>5, <1>6 DEF Inv

LEMMA CreateManagerStep ==
    ASSUME Inv, HitsCounted, NEW m \in Managers, Protocol!CreateManager(m)
    PROVE  Inv'
  <1>1. ProtocolType' /\ ApartInv' /\ PlaceInv'
    BY CreateManagerProto DEF Inv
  <1>2. \A n \in Managers : KnownOf(n)' = KnownOf(n)
    BY DEF Inv, ProtocolType, PlaceInv, KnownOf, Protocol!CreateManager, Protocol!Become
  <1>3. \A n \in Managers : phase[n] = "hit" => phase'[n] = "hit" /\ subject'[n] = subject[n]
    BY DEF Inv, ProtocolType, Protocol!CreateManager, Protocol!Become
  <1>4. policy' = policy
    BY DEF Protocol!CreateManager
  <1>5. CountInv' /\ TimeInv' /\ UseInv'
    BY <1>2, <1>3, <1>4, QuietStep
  <1>6. LeastInv'
    <2>1. phase'[m] \notin {"priorities", "evict"}
      BY DEF Inv, ProtocolType, Protocol!CreateManager, Protocol!Become
    <2>2. \A n \in Managers \ {m} :
             /\ phase'[n] = phase[n] /\ stored'[n] = stored[n] /\ todo'[n] = todo[n]
             /\ candidate'[n] = candidate[n] /\ minPriority'[n] = minPriority[n]
      BY DEF Inv, ProtocolType, Protocol!CreateManager, Protocol!Become
    <2> QED
      BY <1>4, <2>1, <2>2, ScansApart
  <1> QED
    BY <1>1, <1>5, <1>6 DEF Inv

LEMMA CreateDataStep ==
    ASSUME Inv, HitsCounted, NEW m \in Managers, Protocol!CreateData(m)
    PROVE  Inv'
  <1> DEFINE o == subject[m]
  <1>1. ProtocolType' /\ ApartInv' /\ PlaceInv'
    BY CreateDataProto DEF Inv
  <1>2. /\ phase[m] = "create" /\ phase'[m] = "hit" /\ subject' = subject
        /\ stored'[m] = stored[m] \cup {o} /\ policy' = CreationEvent(policy, o)
        /\ \A n \in Managers \ {m} : phase'[n] = phase[n] /\ stored'[n] = stored[n]
        /\ todo' = todo /\ candidate' = candidate /\ minPriority' = minPriority
    BY DEF Inv, ProtocolType, Protocol!CreateData, Protocol!Become
  <1>3. o \in Objects /\ \A n \in Managers : o \notin stored[n]
    BY <1>2 DEF Inv, PlaceInv, ApartInv, Waiting
  <1> HIDE DEF o
  <1>4. PolicyOK(policy)
    BY DEF Inv, CountInv
  <1>5. CreationEffect(policy, o, policy')
    BY <1>2, <1>3, <1>4, CreationEffects
  <1>6. /\ KnownOf(m)' = KnownOf(m) \cup {o}
        /\ \A n \in Managers \ {m} : KnownOf(n)' = KnownOf(n)
    BY <1>2 DEF KnownOf
  <1>7. /\ Protocol!Known = UNION {KnownOf(n) : n \in Managers}
        /\ Protocol!Known \subseteq Objects
        /\ \A n \in Managers : o \notin KnownOf(n)
    BY <1>3, KnownApart DEF Inv
  <1>8. Protocol!Known' = Protocol!Known \cup {o} /\ o \notin Protocol!Known
    BY <1>6, <1>7, NextKnown
  <1>9. CountInv'
    <2>1. IsFiniteSet(Protocol!Known)
      BY <1>7, FS_Subset, ObjectAssumption
    <2>2. Cardinality(Protocol!Known \cup {o}) = Cardinality(Protocol!Known) + 1
      BY <1>8, <2>1, FS_AddElement
    <2> QED
      BY <1>5, <1>8, <2>2 DEF Inv, CountInv, CreationEffect, IsDefault
  <1>10. \A n \in Managers : \A p \in KnownOf(n) : policy'.data[p] = policy.data[p]
    BY <1>5, <1>7 DEF CreationEffect
  <1>11. TimeInv'
    <2> SUFFICES ASSUME IsDefault(policy')
                 PROVE  /\ policy'.timeStamp >= 1
                        /\ \A n \in Managers : \A p \in KnownOf(n)' :
                              /\ policy'.data[p].lastPriorityCalculation \in 0..policy'.timeStamp
                              /\ policy'.data[p].lastPriorityCalculation = 0 =>
                                    phase'[n] = "hit" /\ p = subject'[n]
      BY DEF TimeInv
    <2>1. IsDefault(policy) /\ policy \in DefaultPolicies
      BY <1>4, <1>5, Kinds DEF IsDefault, CreationEffect
    <2>2. /\ policy'.timeStamp = policy.timeStamp /\ policy.timeStamp \in Nat /\ policy.timeStamp >= 1
          /\ policy'.data[o].lastPriorityCalculation = 0
      BY <1>5, <2>1, PolicyFields DEF CreationEffect, Inv, TimeInv
    <2>3. ASSUME NEW n \in Managers, NEW p \in KnownOf(n)'
          PROVE  /\ policy'.data[p].lastPriorityCalculation \in 0..policy'.timeStamp
                 /\ policy'.data[p].lastPriorityCalculation = 0 =>
                       phase'[n] = "hit" /\ p = subject'[n]
      <3>1. CASE p \in KnownOf(n)
        <4>1. policy'.data[p] = policy.data[p]
          BY <1>2, <1>10, <3>1
        <4> QED
          BY <1>2, <1>10, <2>1, <2>2, <3>1, <4>1 DEF Inv, TimeInv
      <3>2. CASE p \notin KnownOf(n)
        <4>1. n = m /\ p = o
          BY <1>6, <2>3, <3>2
        <4> QED
          BY <1>2, <2>2, <4>1 DEF o
      <3> QED
        BY <3>1, <3>2
    <2> QED
      BY <2>2, <2>3
  <1>12. UseInv'
    <2>1. Hit = {}
      BY <1>2, NoHit
    <2>2. ~IsDefault(policy') => ~IsDefault(policy) /\ policy'.data[o] = 0
      BY <1>5 DEF CreationEffect, IsDefault
    <2>3. \A p \in Protocol!Known : policy'.data[p] = policy.data[p]
      BY <1>7, <1>10
    <2> QED
      BY <1>3, <1>7, <1>8, <2>1, <2>2, <2>3 DEF Inv, UseInv, HitsCounted
  <1>13. LeastInv'
    <2>1. \A n \in Managers : \A p \in stored[n] : policy'.data[p] = policy.data[p]
      BY <1>3, <1>5 DEF CreationEffect, Inv, ProtocolType
    <2> QED
      BY <1>2, <1>5, <2>1, ScansApart DEF CreationEffect
  <1> QED
    BY <1>1, <1>9, <1>11, <1>12, <1>13 DEF Inv

LEMMA EvictDataStep ==
    ASSUME Inv, HitsCounted, NEW m \in Managers, Protocol!EvictData(m)
    PROVE  Inv'
  <1> DEFINE o == candidate[m]
  <1>1. ProtocolType' /\ ApartInv' /\ PlaceInv'
    BY EvictDataProto DEF Inv
  <1>2. /\ phase[m] = "evict" /\ phase'[m] = "makeSpace" /\ subject' = subject
        /\ stored'[m] = stored[m] \ {o} /\ policy' = EvictionEvent(policy, o)
        /\ \A n \in Managers \ {m} : phase'[n] = phase[n] /\ stored'[n] = stored[n]
        /\ todo' = todo /\ candidate' = candidate /\ minPriority' = minPriority
    BY DEF Inv, ProtocolType, Protocol!EvictData, Protocol!Become
  <1>3. o \in stored[m] /\ o \in KnownOf(m) /\ o \in Objects
    BY <1>2 DEF Inv, PlaceInv, ProtocolType, KnownOf
  <1> HIDE DEF o
  <1>4. EvictionEffect(policy, o, policy')
    BY <1>2, <1>3, EvictionEffects DEF Inv, CountInv
  <1>5. /\ KnownOf(m)' = KnownOf(m) \ {o}
        /\ \A n \in Managers \ {m} : KnownOf(n)' = KnownOf(n)
        /\ \A n \in Managers : phase[n] = "hit" => phase'[n] = "hit" /\ subject'[n] = subject[n]
    BY <1>2 DEF KnownOf
  <1>6. CountInv' /\ TimeInv' /\ UseInv'
    BY <1>3, <1>4, <1>5, EvictionStep
  <1>7. LeastInv'
    <2>1. \A n \in Managers \ {m} : \A p \in stored[n] : policy'.data[p] = policy.data[p]
      BY <1>3, <1>4 DEF EvictionEffect, Inv, ProtocolType, ApartInv
    <2> QED
      BY <1>2, <1>4, <2>1, ScansApart DEF EvictionEffect
  <1> QED
    BY <1>1, <1>6, <1>7 DEF Inv

LEMMA DestroyDataStep ==
    ASSUME Inv, HitsCounted, NEW m \in Managers, NEW o \in Objects, Protocol!DestroyData(m, o)
    PROVE  Inv'
  <1>1. ProtocolType' /\ ApartInv' /\ PlaceInv'
    BY DestroyDataProto DEF Inv
  <1>2. /\ phase[m] = "destroy" /\ phase' = phase /\ subject' = subject /\ stored' = stored
        /\ todo'[m] = todo[m] \ {o} /\ policy' = EvictionEvent(policy, o)
        /\ \A n \in Managers \ {m} : todo'[n] = todo[n]
        /\ candidate' = candidate /\ minPriority' = minPriority
    BY DEF Inv, ProtocolType, Protocol!DestroyData
  <1>3. o \in stored[m] /\ o \in KnownOf(m)
    BY <1>2 DEF Inv, PlaceInv, KnownOf, Protocol!DestroyData
  <1>4. EvictionEffect(policy, o, policy')
    BY <1>2, EvictionEffects DEF Inv, CountInv
  <1>5. /\ KnownOf(m)' = KnownOf(m) \ {o}
        /\ \A n \in Managers \ {m} : KnownOf(n)' = KnownOf(n)
        /\ \A n \in Managers : phase[n] = "hit" => phase'[n] = "hit" /\ subject'[n] = subject[n]
    BY <1>2 DEF KnownOf
  <1>6. CountInv' /\ TimeInv' /\ UseInv'
    BY <1>3, <1>4, <1>5, EvictionStep
  <1>7. LeastInv'
    <2>1. \A n \in Managers \ {m} : \A p \in stored[n] : policy'.data[p] = policy.data[p]
      BY <1>3, <1>4 DEF EvictionEffect, Inv, ProtocolType, ApartInv
    <2> QED
      BY <1>2, <1>4, <2>1, ScansApart DEF EvictionEffect
  <1> QED
    BY <1>1, <1>6, <1>7 DEF Inv

LEMMA MissDataStep ==
    ASSUME Inv, HitsCounted, NEW m \in Managers, NEW o \in Objects, Protocol!MissData(m, o)
    PROVE  Inv'
  <1>1. ProtocolType' /\ ApartInv' /\ PlaceInv'
    BY MissDataProto DEF Inv
  <1>2. /\ phase[m] = "misses" /\ phase' = phase /\ subject' = subject /\ stored' = stored
        /\ todo'[m] = todo[m] \ {o} /\ policy' = MissEvent(policy, o)
        /\ \A n \in Managers \ {m} : todo'[n] = todo[n]
        /\ candidate' = candidate /\ minPriority' = minPriority
    BY DEF Inv, ProtocolType, Protocol!MissData
  <1>3. o \in stored[m] /\ o \in KnownOf(m)
    BY <1>2 DEF Inv, PlaceInv, KnownOf, Protocol!MissData
  <1>4. LookEffect(policy, o, policy')
    BY <1>2, <1>3, KnownData, MissEffects
  <1>5. /\ \A n \in Managers : KnownOf(n)' = KnownOf(n)
        /\ \A n \in Managers : phase[n] = "hit" => phase'[n] = "hit" /\ subject'[n] = subject[n]
    BY <1>2 DEF KnownOf
  <1>6. CountInv' /\ TimeInv' /\ UseInv'
    BY <1>3, <1>4, <1>5, LookStep
  <1>7. LeastInv'
    <2>1. \A n \in Managers \ {m} : \A p \in stored[n] : policy'.data[p] = policy.data[p]
      BY <1>3, <1>4 DEF LookEffect, Inv, ProtocolType, ApartInv
    <2> QED
      BY <1>2, <1>4, <2>1, ScansApart DEF LookEffect
  <1> QED
    BY <1>1, <1>6, <1>7 DEF Inv

LEMMA HitDataStep ==
    ASSUME Inv, HitsCounted, NEW m \in Managers, Protocol!HitData(m)
    PROVE  Inv'
  <1> DEFINE o == subject[m]
  <1>1. ProtocolType' /\ ApartInv' /\ PlaceInv'
    BY HitDataProto DEF Inv
  <1>2. /\ phase[m] = "hit" /\ phase'[m] = "misses" /\ subject' = subject
        /\ stored' = stored /\ policy' = HitEvent(policy, o)
        /\ \A n \in Managers \ {m} : phase'[n] = phase[n] /\ todo'[n] = todo[n]
        /\ candidate' = candidate /\ minPriority' = minPriority
    BY DEF Inv, ProtocolType, Protocol!HitData, Protocol!Become
  <1>3. o \in stored[m] /\ o \in KnownOf(m)
    BY <1>2 DEF Inv, PlaceInv, KnownOf
  <1>4. Hit = {o}
    BY <1>2 DEF Hit
  <1> HIDE DEF o
  <1>5. o \in Objects /\ PolicyOK(policy) /\ policy.data[o] # NoData
    BY <1>3, KnownData
  <1>6. HitEffect(policy, o, policy')
    BY <1>2, <1>5, HitEffects
  <1>7. \A n \in Managers : KnownOf(n)' = KnownOf(n)
    BY <1>2 DEF KnownOf
  <1>8. Protocol!Known' = Protocol!Known
    BY <1>7, NextKnown, KnownApart DEF Inv
  <1>9. CountInv'
    BY <1>6, <1>8 DEF Inv, CountInv, HitEffect, IsDefault
  <1>10. TimeInv'
    <2> SUFFICES ASSUME IsDefault(policy')
                 PROVE  /\ policy'.timeStamp >= 1
                        /\ \A n \in Managers : \A p \in KnownOf(n)' :
                              /\ policy'.data[p].lastPriorityCalculation \in 0..policy'.timeStamp
                              /\ policy'.data[p].lastPriorityCalculation = 0 =>
                                    phase'[n] = "hit" /\ p = subject'[n]
      BY DEF TimeInv
    <2>1. IsDefault(policy) /\ policy \in DefaultPolicies
      BY <1>5, <1>6, Kinds DEF IsDefault, HitEffect
    <2>2. /\ policy'.timeStamp = policy.timeStamp + 1 /\ policy.timeStamp \in Nat /\ policy.timeStamp >= 1
          /\ policy'.data[o].lastPriorityCalculation =
                IF policy.data[o].lastPriorityCalculation = 0
                THEN policy.timeStamp ELSE policy.data[o].lastPriorityCalculation
      BY <1>6, <2>1, PolicyFields DEF HitEffect, Inv, TimeInv
    <2>3. ASSUME NEW n \in Managers, NEW p \in KnownOf(n)
          PROVE  /\ policy'.data[p].lastPriorityCalculation \in 0..policy'.timeStamp
                 /\ policy'.data[p].lastPriorityCalculation = 0 =>
                       phase'[n] = "hit" /\ p = subject'[n]
      <3>1. /\ policy.data[p].lastPriorityCalculation \in 0..policy.timeStamp
            /\ policy.data[p].lastPriorityCalculation = 0 => phase[n] = "hit" /\ p = subject[n]
        BY <2>1 DEF Inv, TimeInv
      <3>2. CASE p = o
        BY <2>2, <3>1, <3>2
      <3>3. CASE p # o
        <4>1. policy'.data[p] = policy.data[p]
          BY <1>6, <3>3, KnownData DEF HitEffect
        <4>2. CASE n = m
          <5>1. p # subject[n]
            BY <3>3, <4>2 DEF o
          <5> QED
            BY <2>2, <3>1, <4>1, <5>1
        <4>3. CASE n # m
          BY <1>2, <2>2, <3>1, <4>1, <4>3
        <4> QED
          BY <4>2, <4>3
      <3> QED
        BY <3>2, <3>3
    <2> QED
      BY <1>7, <2>2, <2>3
  <1>11. UseInv'
    <2>1. Protocol!Known \subseteq Objects
      BY KnownApart DEF Inv
    <2>2. ~IsDefault(policy') => ~IsDefault(policy) /\ policy'.data[o] = policy.data[o] + 1
      BY <1>6 DEF HitEffect, IsDefault
    <2>3. \A p \in Protocol!Known \ {o} : policy'.data[p] = policy.data[p]
      BY <1>6, <2>1 DEF HitEffect
    <2> QED
      BY <1>4, <1>8, <2>1, <2>2, <2>3 DEF Inv, UseInv, HitsCounted
  <1>12. LeastInv'
    <2>1. \A n \in Managers \ {m} : \A p \in stored[n] : policy'.data[p] = policy.data[p]
      BY <1>3, <1>6 DEF HitEffect, Inv, ProtocolType, ApartInv
    <2> QED
      BY <1>2, <1>6, <2>1, ScansApart DEF HitEffect
  <1> QED
    BY <1>1, <1>9, <1>10, <1>11, <1>12 DEF Inv

\* What a scan learns of the objects of its manager.
LEMMA PrioritiesOfKnown ==
    ASSUME Inv, NEW m \in Managers, NEW o \in KnownOf(m), policy.kind # "unweighted"
    PROVE  PriorityOf(policy, o) \in Int
  <1>1. o \in Objects /\ policy.data[o] # NoData /\ PolicyOK(policy)
        /\ (IsDefault(policy) => policy.dataCount > 0)
    BY KnownData
  <1>2. CASE IsDefault(policy)
    BY <1>1, <1>2, Kinds, PrioritiesAreIntegers DEF PriorityOf
  <1>3. CASE ~IsDefault(policy)
    BY <1>1, <1>3, Kinds DEF PriorityOf, LFU!GetPriorityOf, LFUPolicies
  <1> QED
    BY <1>2, <1>3

\* Looking at an object changes the priorities of none.
LEMMA PrioritiesStay ==
    ASSUME Inv, NEW m \in Managers, NEW o \in KnownOf(m), policy' = AfterPriorityOf(policy, o),
           NEW n \in Managers, NEW p \in KnownOf(n), policy.kind # "unweighted"
    PROVE  PriorityOf(policy', p) = PriorityOf(policy, p)
  <1>1. /\ o \in Objects /\ policy.data[o] # NoData /\ PolicyOK(policy)
        /\ IsDefault(policy) => policy.dataCount > 0
        /\ p \in Objects /\ policy.data[p] # NoData
    BY KnownData
  <1>2. CASE IsDefault(policy)
    <2>1. policy \in DefaultPolicies /\ policy' = Default!Age(policy, o)
      BY <1>1, <1>2, Kinds DEF AfterPriorityOf
    <2>2. IsDefault(policy')
      BY <1>1, <1>2, AgeEffects DEF LookEffect, IsDefault
    <2> QED
      BY <1>1, <1>2, <2>1, <2>2, AgeKeepsPriorities DEF PriorityOf
  <1>3. CASE ~IsDefault(policy)
    BY <1>3 DEF AfterPriorityOf
  <1> QED
    BY <1>2, <1>3

\* Without weights no priority is better than any.
LEMMA NothingIsBetter ==
    ASSUME policy.kind = "unweighted", NEW m \in Managers, NEW o \in Objects
    PROVE  ~Protocol!Better(m, PriorityOf(policy, o))
  <1>1. PriorityOf(policy, o) = NaN
    BY DEF PriorityOf, IsDefault, Default!GetPriorityOf
  <1> QED
    BY <1>1 DEF Protocol!Better

LEMMA GetPriorityProto ==
    ASSUME Inv, NEW m \in Managers, NEW o \in Objects, Protocol!GetPriority(m, o)
    PROVE  ProtocolType' /\ ApartInv' /\ PlaceInv'
  <1>1. o \in stored[m] /\ o \in KnownOf(m)
    BY DEF Inv, PlaceInv, KnownOf, Protocol!GetPriority
  <1>2. Protocol!Better(m, PriorityOf(policy, o)) => PriorityOf(policy, o) \in Int
    BY <1>1, PrioritiesOfKnown, NothingIsBetter
  <1>3. ProtocolType'
    BY <1>2 DEF Inv, ProtocolType, Protocol!GetPriority
  <1>4. ApartInv'
    BY DEF Inv, ApartInv, Waiting, Protocol!GetPriority
  <1>5. PlaceInv'
    BY <1>1, ObjectAssumption DEF Inv, ProtocolType, PlaceInv, Waiting, Protocol!GetPriority, Protocol!Better
  <1> QED
    BY <1>3, <1>4, <1>5

LEMMA GetPriorityStep ==
    ASSUME Inv, WeightInv, HitsCounted, NEW m \in Managers, NEW o \in Objects,
           Protocol!GetPriority(m, o)
    PROVE  Inv'
  <1>1. ProtocolType' /\ ApartInv' /\ PlaceInv'
    BY GetPriorityProto
  <1>2. /\ phase[m] = "priorities" /\ phase' = phase /\ subject' = subject /\ stored' = stored
        /\ todo'[m] = todo[m] \ {o} /\ policy' = AfterPriorityOf(policy, o)
        /\ \A n \in Managers \ {m} : /\ todo'[n] = todo[n] /\ candidate'[n] = candidate[n]
                                     /\ minPriority'[n] = minPriority[n]
    BY DEF Inv, ProtocolType, Protocol!GetPriority
  <1>3. o \in todo[m] /\ o \in stored[m] /\ o \in KnownOf(m)
    BY DEF Inv, PlaceInv, KnownOf, Protocol!GetPriority
  <1>4. LookEffect(policy, o, policy')
    BY <1>2, <1>3, KnownData, AgeEffects
  <1>5. /\ \A n \in Managers : KnownOf(n)' = KnownOf(n)
        /\ \A n \in Managers : phase[n] = "hit" => phase'[n] = "hit" /\ subject'[n] = subject[n]
    BY <1>2, <1>3 DEF KnownOf
  <1>6. CountInv' /\ TimeInv' /\ UseInv'
    BY <1>3, <1>4, <1>5, LookStep
  <1>7. LeastInv'
    <2>1. policy'.kind = policy.kind
      BY <1>4 DEF LookEffect
    <2>2. CASE policy.kind = "unweighted"
      <3>1. candidate' = candidate
        BY <2>2, NothingIsBetter DEF Protocol!GetPriority
      <3>2. \A n \in Managers : /\ phase'[n] = "priorities" => candidate'[n] = NoObject
                              /\ phase'[n] # "evict"
        BY <1>2, <2>2, <3>1 DEF WeightInv
      <3> QED
        BY <3>2 DEF LeastInv
    <2>3. CASE policy.kind # "unweighted"
      <3>1. \A n \in Managers : \A p \in KnownOf(n) :
               PriorityOf(policy', p) = PriorityOf(policy, p) /\ PriorityOf(policy, p) \in Int
        BY <1>2, <1>3, <2>3, PrioritiesStay, PrioritiesOfKnown
      <3>2. IsDefault(policy') <=> IsDefault(policy)
        BY <1>4 DEF LookEffect, IsDefault
      <3> SUFFICES ASSUME NEW n \in Managers, ~IsDefault(policy) \/ Managers = {n}
                   PROVE  /\ phase'[n] = "priorities" /\ candidate'[n] # NoObject =>
                                /\ minPriority'[n] = PriorityOf(policy', candidate'[n])
                                /\ \A p \in stored'[n] \ todo'[n] : minPriority'[n] <= PriorityOf(policy', p)
                          /\ phase'[n] = "evict" =>
                                \A p \in stored'[n] : PriorityOf(policy', candidate'[n]) <= PriorityOf(policy', p)
        BY <3>2 DEF LeastInv
      <3>3. phase[n] \in {"priorities", "evict"} => KnownOf(n) = stored[n]
        BY DEF KnownOf
      <3>4. CASE n # m
        BY <1>2, <3>1, <3>3, <3>4 DEF Inv, LeastInv, PlaceInv
      <3>5. CASE n = m
        <4>1. /\ phase[m] = "priorities" /\ KnownOf(m) = stored[m]
              /\ stored[m] \ todo'[m] \subseteq (stored[m] \ todo[m]) \cup {o}
          BY <1>2, <3>3, <3>5
        <4>2. \A p \in stored[m] : PriorityOf(policy', p) = PriorityOf(policy, p)
                                   /\ PriorityOf(policy, p) \in Int
          BY <3>1, <4>1
        <4>3. candidate[m] # NoObject =>
                 /\ candidate[m] \in stored[m]
                 /\ minPriority[m] = PriorityOf(policy, candidate[m])
                 /\ \A p \in stored[m] \ todo[m] : minPriority[m] <= PriorityOf(policy, p)
          BY <3>5, <4>1 DEF Inv, LeastInv, PlaceInv
        <4>4. candidate[m] = NoObject => stored[m] \ todo[m] = {}
          BY <2>3, <4>1 DEF WeightInv
        <4>5. CASE Protocol!Better(m, PriorityOf(policy, o))
          <5>1. candidate'[m] = o /\ minPriority'[m] = PriorityOf(policy, o)
            BY <4>5 DEF Inv, ProtocolType, Protocol!GetPriority
          <5>2. \A p \in stored[m] \ todo[m] : PriorityOf(policy, o) <= PriorityOf(policy, p)
            <6>1. CASE candidate[m] = NoObject
              BY <4>4, <6>1
            <6>2. CASE candidate[m] # NoObject
              <7>1. PriorityOf(policy, o) < minPriority[m] /\ minPriority[m] \in Int
                BY <4>2, <4>3, <4>5, <6>2 DEF Protocol!Better
              <7> QED
                BY <1>3, <4>2, <4>3, <6>2, <7>1
            <6> QED
              BY <6>1, <6>2
          <5> QED
            BY <1>2, <1>3, <3>5, <4>1, <4>2, <5>1, <5>2
        <4>6. CASE ~Protocol!Better(m, PriorityOf(policy, o))
          <5>1. candidate' = candidate /\ minPriority' = minPriority
            BY <4>6 DEF Protocol!GetPriority
          <5>2. candidate[m] # NoObject /\ ~(PriorityOf(policy, o) < minPriority[m])
            BY <1>3, <4>2, <4>6, ObjectAssumption DEF Protocol!Better
          <5>3. minPriority[m] <= PriorityOf(policy, o)
            BY <1>3, <4>2, <4>3, <5>2
          <5> QED
            BY <1>2, <1>3, <3>5, <4>1, <4>2, <4>3, <5>1, <5>2, <5>3
        <4> QED
          BY <4>5, <4>6
      <3> QED
        BY <3>4, <3>5
    <2> QED
      BY <2>2, <2>3
  <1> QED
    BY <1>1, <1>6, <1>7 DEF Inv

LEMMA InitInv ==
    Init => Inv
  <1> SUFFICES ASSUME Init
               PROVE  Inv
    OBVIOUS
  <1>1. PICK ps : ps = policy /\ ps \in Default!PolicyInit \cup LFU!PolicyInit
    BY DEF Init
  <1>2. /\ stored = [m \in Managers |-> {}] /\ phase = [m \in Managers |-> "idle"]
        /\ subject = [m \in Managers |-> NoObject] /\ todo = [m \in Managers |-> {}]
        /\ candidate = [m \in Managers |-> NoObject] /\ minPriority = [m \in Managers |-> 0]
    BY DEF Init, Protocol!ProtocolInit
  <1>3. ProtocolType /\ ApartInv /\ PlaceInv
    BY <1>2 DEF ProtocolType, Phases, ApartInv, PlaceInv, Waiting
  <1>4. \A m \in Managers : KnownOf(m) = {}
    BY <1>2 DEF KnownOf
  <1>5. Protocol!Known = {}
    BY <1>3, <1>4, KnownApart
  <1>6. Cardinality({}) = 0
    BY FS_EmptySet
  <1>7. CASE ps \in Default!PolicyInit
    <2>1. /\ policy \in DefaultPolicies /\ policy.dataCount = 0 /\ policy.timeStamp = 1
          /\ IsDefault(policy) /\ \A o \in Objects : policy.data[o] = NoData
      BY <1>1, <1>7 DEF Default!PolicyInit, DefaultPolicies, IsDefault
    <2>2. CountInv
      BY <1>5, <1>6, <2>1 DEF CountInv, PolicyOK, HasData
    <2>3. TimeInv /\ UseInv
      BY <1>4, <2>1 DEF TimeInv, UseInv
    <2> QED
      BY <1>2, <1>3, <2>2, <2>3 DEF Inv, LeastInv
  <1>8. CASE ps \in LFU!PolicyInit
    <2>1. /\ policy \in LFUPolicies /\ ~IsDefault(policy)
          /\ \A o \in Objects : policy.data[o] = NoData
      BY <1>1, <1>8 DEF LFU!PolicyInit, LFUPolicies, IsDefault
    <2>2. CountInv
      BY <1>5, <2>1 DEF CountInv, PolicyOK, HasData
    <2>3. TimeInv /\ UseInv
      BY <1>5, <2>1 DEF TimeInv, UseInv
    <2> QED
      BY <1>2, <1>3, <2>2, <2>3 DEF Inv, LeastInv
  <1> QED
    BY <1>1, <1>7, <1>8

LEMMA Stutter ==
    ASSUME Inv, UNCHANGED vars
    PROVE  Inv'
  <1>1. /\ policy' = policy /\ stored' = stored /\ phase' = phase /\ subject' = subject
        /\ todo' = todo /\ candidate' = candidate /\ minPriority' = minPriority /\ hits' = hits
    BY DEF vars
  <1>2. ProtocolType' /\ ApartInv' /\ PlaceInv'
    BY <1>1 DEF Inv, ProtocolType, ApartInv, PlaceInv, Waiting
  <1>3. \A n \in Managers : KnownOf(n)' = KnownOf(n)
    BY <1>1 DEF KnownOf
  <1>4. Protocol!Known' = Protocol!Known
    BY <1>3, NextKnown, KnownApart DEF Inv
  <1>5. CountInv' /\ TimeInv' /\ UseInv'
    BY <1>1, <1>3, <1>4 DEF Inv, CountInv, HasData, TimeInv, UseInv
  <1>6. LeastInv'
    BY <1>1 DEF Inv, LeastInv
  <1> QED
    BY <1>2, <1>5, <1>6 DEF Inv

LEMMA StepInv ==
    Inv /\ WeightInv /\ [Next]_vars => Inv'
  <1> SUFFICES ASSUME Inv, WeightInv, [Next]_vars
               PROVE  Inv'
    OBVIOUS
  <1>1. CASE UNCHANGED vars
    BY <1>1, Stutter
  <1>2. CASE Next
    <2>1. HitsCounted
      BY <1>2 DEF Next, HitsCounted
    <2>2. PICK m \in Managers : Protocol!ProtocolStep(m)
      BY <1>2 DEF Next, Protocol!ProtocolNext
    <2>3. CASE \E o \in Objects : \/ Protocol!HitCall(m, o) \/ Protocol!MissCall(m, o)
                                  \/ Protocol!GetPriority(m, o) \/ Protocol!MissData(m, o)
                                  \/ Protocol!DestroyData(m, o)
      BY <2>1, <2>3, HitCallStep, MissCallStep, GetPriorityStep, MissDataStep, DestroyDataStep
    <2>4. CASE \/ Protocol!NeedSpace(m) \/ Protocol!SpaceMade(m) \/ Protocol!CandidateFound(m)
               \/ Protocol!CandidateMissing(m) \/ Protocol!EvictData(m) \/ Protocol!CreateData(m) \/ Protocol!HitData(m)
               \/ Protocol!ReturnFromCall(m) \/ Protocol!DestroyManager(m)
               \/ Protocol!CreateManager(m)
      BY <2>1, <2>4, NeedSpaceStep, SpaceMadeStep, CandidateFoundStep,
         CandidateMissingStep, EvictDataStep,
         CreateDataStep, HitDataStep, ReturnFromCallStep, DestroyManagerStep, CreateManagerStep
    <2> QED
      BY <2>2, <2>3, <2>4 DEF Protocol!ProtocolStep
  <1> QED
    BY <1>1, <1>2

\* The kind of a policy never changes.
LEMMA KindStays ==
    ASSUME Inv, NEW m \in Managers, Protocol!ProtocolStep(m)
    PROVE  policy'.kind = policy.kind
  <1>1. CASE \E o \in Objects : Protocol!GetPriority(m, o)
    <2>1. PICK o \in Objects : Protocol!GetPriority(m, o)
      BY <1>1
    <2>2. o \in KnownOf(m) /\ policy' = AfterPriorityOf(policy, o)
      BY <2>1 DEF Inv, PlaceInv, KnownOf, Protocol!GetPriority
    <2> QED
      BY <2>2, KnownData, AgeEffects DEF LookEffect
  <1>2. CASE \E o \in Objects : Protocol!MissData(m, o)
    <2>1. PICK o \in Objects : Protocol!MissData(m, o)
      BY <1>2
    <2>2. o \in KnownOf(m) /\ policy' = MissEvent(policy, o)
      BY <2>1 DEF Inv, PlaceInv, KnownOf, Protocol!MissData
    <2> QED
      BY <2>2, KnownData, MissEffects DEF LookEffect
  <1>3. CASE \E o \in Objects : Protocol!DestroyData(m, o)
    BY <1>3, EvictionEffects DEF Inv, CountInv, EvictionEffect, Protocol!DestroyData
  <1>4. CASE Protocol!EvictData(m)
    <2>1. candidate[m] \in Objects /\ policy' = EvictionEvent(policy, candidate[m])
      BY <1>4 DEF Inv, PlaceInv, ProtocolType, Protocol!EvictData
    <2> QED
      BY <2>1, EvictionEffects DEF Inv, CountInv, EvictionEffect
  <1>5. CASE Protocol!CreateData(m)
    <2>1. subject[m] \in Objects /\ policy' = CreationEvent(policy, subject[m])
      BY <1>5 DEF Inv, PlaceInv, Waiting, Protocol!CreateData
    <2> QED
      BY <2>1, CreationEffects DEF Inv, CountInv, CreationEffect
  <1>6. CASE Protocol!HitData(m)
    <2>1. subject[m] \in KnownOf(m) /\ policy' = HitEvent(policy, subject[m])
      BY <1>6 DEF Inv, PlaceInv, KnownOf, Protocol!HitData
    <2> QED
      BY <2>1, KnownData, HitEffects DEF HitEffect
  <1>7. CASE \/ \E o \in Objects : Protocol!HitCall(m, o) \/ Protocol!MissCall(m, o)
             \/ Protocol!NeedSpace(m) \/ Protocol!SpaceMade(m) \/ Protocol!CandidateFound(m)
             \/ Protocol!CandidateMissing(m) \/ Protocol!ReturnFromCall(m)
             \/ Protocol!DestroyManager(m) \/ Protocol!CreateManager(m)
    BY <1>7 DEF Protocol!HitCall, Protocol!MissCall, Protocol!NeedSpace, Protocol!SpaceMade,
                Protocol!CandidateFound, Protocol!CandidateMissing, Protocol!ReturnFromCall,
                Protocol!DestroyManager, Protocol!CreateManager
  <1> QED
    BY <1>1, <1>2, <1>3, <1>4, <1>5, <1>6, <1>7 DEF Protocol!ProtocolStep

\* The scan and the eviction of a manager, as WeightInv has it.
WeightOf(m) ==
    /\ phase[m] = "priorities" =>
          (candidate[m] = NoObject <=> todo[m] = stored[m] \/ policy.kind = "unweighted")
    /\ phase[m] = "evict" => policy.kind # "unweighted"
    /\ phase[m] = "stopped" => policy.kind = "unweighted"

LEMMA WeightOthers ==
    ASSUME Inv, WeightInv, NEW m \in Managers, Protocol!ProtocolStep(m), NEW n \in Managers, n # m
    PROVE  WeightOf(n)'
  <1>1. policy'.kind = policy.kind
    BY KindStays
  <1>2. /\ phase'[n] = phase[n] /\ stored'[n] = stored[n] /\ todo'[n] = todo[n]
        /\ candidate'[n] = candidate[n]
    <2>1. CASE \E o \in Objects : \/ Protocol!HitCall(m, o) \/ Protocol!MissCall(m, o)
                                  \/ Protocol!GetPriority(m, o) \/ Protocol!MissData(m, o)
                                  \/ Protocol!DestroyData(m, o)
      BY <2>1 DEF Inv, ProtocolType, Protocol!HitCall, Protocol!MissCall, Protocol!GetPriority,
                  Protocol!MissData, Protocol!DestroyData, Protocol!Become
    <2>2. CASE Protocol!NeedSpace(m) \/ Protocol!SpaceMade(m) \/ Protocol!CandidateFound(m)
               \/ Protocol!CandidateMissing(m) \/ Protocol!EvictData(m)
      BY <2>2 DEF Inv, ProtocolType, Protocol!NeedSpace, Protocol!SpaceMade, Protocol!CandidateFound,
                  Protocol!CandidateMissing, Protocol!EvictData, Protocol!Become
    <2>3. CASE Protocol!CreateData(m) \/ Protocol!HitData(m) \/ Protocol!ReturnFromCall(m)
               \/ Protocol!DestroyManager(m) \/ Protocol!CreateManager(m)
      BY <2>3 DEF Inv, ProtocolType, Protocol!CreateData, Protocol!HitData, Protocol!ReturnFromCall,
                  Protocol!DestroyManager, Protocol!CreateManager, Protocol!Become
    <2> QED
      BY <2>1, <2>2, <2>3 DEF Protocol!ProtocolStep
  <1> QED
    BY <1>1, <1>2 DEF WeightInv, WeightOf

LEMMA WeightSelf ==
    ASSUME Inv, WeightInv, NEW m \in Managers, Protocol!ProtocolStep(m)
    PROVE  WeightOf(m)'
  <1>1. policy'.kind = policy.kind
    BY KindStays
  <1>2. CASE \E o \in Objects : Protocol!GetPriority(m, o)
    <2>1. PICK o \in Objects : Protocol!GetPriority(m, o)
      BY <1>2
    <2>2. /\ phase[m] = "priorities" /\ phase' = phase /\ stored' = stored
          /\ o \in stored[m] /\ todo'[m] = todo[m] \ {o} /\ o \in KnownOf(m) /\ o # NoObject
      BY <2>1, ObjectAssumption DEF Inv, ProtocolType, PlaceInv, KnownOf, Protocol!GetPriority
    <2>3. CASE policy.kind = "unweighted"
      <3>1. candidate' = candidate
        BY <2>1, <2>3, NothingIsBetter DEF Protocol!GetPriority
      <3> QED
        BY <1>1, <2>2, <2>3, <3>1 DEF WeightInv, WeightOf
    <2>4. CASE policy.kind # "unweighted"
      <3>1. PriorityOf(policy, o) # NaN
        BY <2>2, <2>4, PrioritiesOfKnown, ObjectAssumption
      <3>2. candidate'[m] \in {o, candidate[m]} /\ (candidate[m] = NoObject => candidate'[m] = o)
        BY <2>1, <3>1 DEF Inv, ProtocolType, Protocol!GetPriority, Protocol!Better
      <3> QED
        BY <1>1, <2>2, <2>4, <3>2 DEF WeightInv, WeightOf
    <2> QED
      BY <2>3, <2>4
  <1>3. CASE Protocol!NeedSpace(m)
    BY <1>3 DEF Inv, ProtocolType, WeightOf, Protocol!NeedSpace, Protocol!Become
  <1>4. CASE Protocol!CandidateFound(m)
    BY <1>1, <1>4 DEF Inv, ProtocolType, PlaceInv, WeightInv, WeightOf, Protocol!CandidateFound, Protocol!Become
  <1>5. CASE Protocol!CandidateMissing(m)
    BY <1>1, <1>5 DEF Inv, ProtocolType, PlaceInv, WeightInv, WeightOf, Protocol!CandidateMissing, Protocol!Become
  <1>6. CASE \E o \in Objects : \/ Protocol!HitCall(m, o) \/ Protocol!MissCall(m, o)
                                \/ Protocol!MissData(m, o) \/ Protocol!DestroyData(m, o)
    BY <1>6 DEF Inv, ProtocolType, WeightOf, Protocol!HitCall, Protocol!MissCall, Protocol!MissData,
                Protocol!DestroyData, Protocol!Become
  <1>7. CASE Protocol!SpaceMade(m) \/ Protocol!EvictData(m) \/ Protocol!CreateData(m)
    BY <1>7 DEF Inv, ProtocolType, WeightOf, Protocol!SpaceMade, Protocol!EvictData,
                Protocol!CreateData, Protocol!Become
  <1>8. CASE Protocol!HitData(m) \/ Protocol!ReturnFromCall(m) \/ Protocol!DestroyManager(m)
             \/ Protocol!CreateManager(m)
    BY <1>8 DEF Inv, ProtocolType, WeightOf, Protocol!HitData, Protocol!ReturnFromCall,
                Protocol!DestroyManager, Protocol!CreateManager, Protocol!Become
  <1> QED
    BY <1>2, <1>3, <1>4, <1>5, <1>6, <1>7, <1>8 DEF Protocol!ProtocolStep

LEMMA WeightStep ==
    Inv /\ WeightInv /\ [Next]_vars => WeightInv'
  <1>1. ASSUME Inv, WeightInv, UNCHANGED vars
        PROVE  WeightInv'
    BY <1>1 DEF vars, WeightInv
  <1>2. ASSUME Inv, WeightInv, NEW m \in Managers, Protocol!ProtocolStep(m)
        PROVE  WeightInv'
    <2>1. \A n \in Managers : WeightOf(n)'
      BY <1>2, WeightOthers, WeightSelf
    <2> QED
      BY <2>1 DEF WeightInv, WeightOf
  <1> QED
    BY <1>1, <1>2 DEF Next, Protocol!ProtocolNext

\* The policies and the managers that share one keep the invariant, whatever each
\* manager does between two steps of another.
THEOREM Invariant == Spec => [](Inv /\ WeightInv)
  <1>1. Init => Inv /\ WeightInv
    BY InitInv DEF Init, Protocol!ProtocolInit, WeightInv
  <1>2. Inv /\ WeightInv /\ [Next]_vars => Inv' /\ WeightInv'
    BY StepInv, WeightStep
  <1> QED
    BY <1>1, <1>2, PTL DEF Spec

-----------------------------------------------------------------------------
(* The theorems.                                                           *)

\* The policy has data for exactly the objects in the caches and has counted them,
\* however many managers create, evict and destroy objects in turn.
THEOREM DataIsCounted == Spec => []DataCounted
  <1>1. Inv => DataCounted
    BY DEF Inv, CountInv, DataCounted, HasData
  <1> QED
    BY <1>1, Invariant, PTL

\* Whenever the priority of an object may be asked for, the object was last looked at
\* at a time that has come: the unsigned difference to it cannot wrap around.
THEOREM TimesAreOrdered == Spec => []TimesOrdered
  <1>1. Inv => TimesOrdered
    <2> SUFFICES ASSUME Inv, IsDefault(policy), NEW m \in Managers,
                        phase[m] \in {"idle", "priorities", "evict", "misses"}, NEW o \in stored[m]
                 PROVE  policy.data[o].lastPriorityCalculation \in 1..policy.timeStamp
      BY DEF TimesOrdered
    <2>1. o \in KnownOf(m) /\ phase[m] # "hit"
      BY DEF KnownOf
    <2>2. policy.timeStamp \in Nat
      BY Kinds, PolicyFields DEF Inv, CountInv
    <2> QED
      BY <2>1, <2>2 DEF Inv, TimeInv
  <1> QED
    BY <1>1, Invariant, PTL

\* The LFU policy evicts the object that has been used least often since it was stored,
\* among those of its manager, however many managers share it.
THEOREM LeastUsedIsEvicted == Spec => []LeastFrequentlyUsed
  <1>1. Inv => LeastFrequentlyUsed
    <2> SUFFICES ASSUME Inv, ~IsDefault(policy), NEW m \in Managers, phase[m] = "evict",
                        NEW o \in stored[m]
                 PROVE  hits[candidate[m]] <= hits[o]
      BY DEF LeastFrequentlyUsed
    <2>1. /\ candidate[m] \in stored[m]
          /\ PriorityOf(policy, candidate[m]) <= PriorityOf(policy, o)
      BY DEF Inv, PlaceInv, LeastInv
    <2>2. candidate[m] \in Protocol!Known /\ o \in Protocol!Known
      <3>1. KnownOf(m) = stored[m]
        BY DEF KnownOf
      <3> QED
        BY <2>1, <3>1, KnownApart DEF Inv
    <2> QED
      BY <2>1, <2>2 DEF Inv, UseInv, PriorityOf, LFU!GetPriorityOf
  <1> QED
    BY <1>1, Invariant, PTL

\* A manager that has its policy to itself evicts the object of the least priority: the
\* policy changes its state while it is asked, and the priorities stay comparable.
THEOREM LeastIsEvicted ==
    ASSUME NEW m, Managers = {m}
    PROVE  Spec => []CandidateLeast
  <1>1. Inv => CandidateLeast
    BY DEF Inv, PlaceInv, LeastInv, CandidateLeast
  <1> QED
    BY <1>1, Invariant, PTL

\* A scan finds a candidate, unless the contribution constants of the policy are lost,
\* however many managers share the policy.
THEOREM CandidateIsFound == Spec => []StopsOnlyUnweighted
  <1>1. WeightInv => StopsOnlyUnweighted
    BY DEF WeightInv, StopsOnlyUnweighted
  <1> QED
    BY <1>1, Invariant, PTL

-----------------------------------------------------------------------------
(* Sums over finite sets.                                                  *)

LEMMA LeastOfNaturals ==
    ASSUME NEW U \in SUBSET Nat, U # {}
    PROVE  \E u \in U : \A v \in U : u <= v
  <1> DEFINE R == {ss \in Nat \X Nat : ss[1] < ss[2]}
  <1>1. IsWellFoundedOn(R, Nat)
    BY NatLessThanWellFounded, Zenon DEF OpToRel
  <1>2. PICK u \in U : \A v \in U : ~ (<<v, u>> \in R)
    <2> HIDE DEF R
    <2> QED
      BY <1>1, WFMin, Zenon
  <1>3. ASSUME NEW v \in U
        PROVE  u <= v
    <2>1. u \in Nat /\ v \in Nat
      OBVIOUS
    <2>2. ~ (v < u)
      BY <1>2, <2>1
    <2> QED
      BY <2>1, <2>2
  <1> QED
    BY <1>3

\* Among subsets of a finite set there is a least one: what holds of a set if it
\* holds without any one element holds of all.
LEMMA LeastSubset ==
    ASSUME NEW T, IsFiniteSet(T), NEW U \in SUBSET (SUBSET T), U # {}
    PROVE  \E s \in U : IsFiniteSet(s) /\ \A x \in s : s \ {x} \notin U
  <1> DEFINE N == {Cardinality(s) : s \in U}
  <1>1. \A s \in SUBSET T : IsFiniteSet(s) /\ Cardinality(s) \in Nat
    BY FS_Subset, FS_CardinalityType
  <1>2. N \in SUBSET Nat /\ N # {}
    BY <1>1
  <1>3. PICK n \in N : \A m \in N : n <= m
    <2> HIDE DEF N
    <2> QED
      BY <1>2, LeastOfNaturals
  <1>4. PICK s \in U : n = Cardinality(s)
    OBVIOUS
  <1>5. ASSUME NEW x \in s, s \ {x} \in U
        PROVE  FALSE
    <2>1. Cardinality(s \ {x}) = n - 1 /\ n \in Nat
      BY <1>1, <1>4, FS_RemoveElement
    <2>2. n <= Cardinality(s \ {x})
      BY <1>3, <1>5
    <2> QED
      BY <2>1, <2>2
  <1> QED
    BY <1>1, <1>5

First(s) == CHOOSE x \in s : TRUE

\* g sums up c over every subset of S.
SumStep(g, c, S) == [s \in SUBSET S |-> IF s = {} THEN 0 ELSE c[First(s)] + g[s \ {First(s)}]]
Sums(g, c, S) == g = SumStep(g, c, S)

LEMMA SumsUnfold ==
    ASSUME NEW g, NEW c, NEW S, Sums(g, c, S)
    PROVE  /\ g[{}] = 0
           /\ \A s \in SUBSET S :
                 s # {} => First(s) \in s /\ g[s] = c[First(s)] + g[s \ {First(s)}]
  BY DEF Sums, SumStep, First

\* g sums up numbers.
SumsNumbers(g, c, S) == IsFiniteSet(S) /\ c \in [S -> Int] /\ Sums(g, c, S)

LEMMA SumsAreNumbers ==
    ASSUME NEW S, NEW c, NEW g, SumsNumbers(g, c, S)
    PROVE  \A s \in SUBSET S : g[s] \in Int
  <1>1. IsFiniteSet(S) /\ c \in [S -> Int]
    BY DEF SumsNumbers
  <1>2. /\ g[{}] = 0
        /\ \A w \in SUBSET S : w # {} => First(w) \in w /\ g[w] = c[First(w)] + g[w \ {First(w)}]
    <2>1. Sums(g, c, S)
      BY DEF SumsNumbers
    <2> QED
      BY <2>1, SumsUnfold
  <1> DEFINE Bad == {s \in SUBSET S : g[s] \notin Int}
  <1> SUFFICES ASSUME Bad # {}
               PROVE  FALSE
    OBVIOUS
  <1>3. PICK s \in Bad : IsFiniteSet(s) /\ \A x \in s : s \ {x} \notin Bad
    <2> HIDE DEF Bad
    <2>1. Bad \in SUBSET (SUBSET S)
      BY DEF Bad
    <2> QED
      BY <1>1, <2>1, LeastSubset
  <1>4. s \in SUBSET S /\ g[s] \notin Int
    OBVIOUS
  <1>5. s # {}
    <2> HIDE DEF Bad
    <2>1. g[{}] = 0
      BY <1>4, <1>2
    <2> QED
      BY <1>4, <2>1
  <1>6. First(s) \in s /\ g[s] = c[First(s)] + g[s \ {First(s)}]
    <2> HIDE DEF Bad
    <2> QED
      BY <1>4, <1>5, <1>2
  <1>7. g[s \ {First(s)}] \in Int
    BY <1>3, <1>6
  <1>8. c[First(s)] \in Int
    BY <1>1, <1>4, <1>6
  <1> QED
    BY <1>4, <1>6, <1>7, <1>8

\* A sum depends on what is summed up only.
LEMMA SumsAgree ==
    ASSUME NEW S, IsFiniteSet(S), NEW c, NEW g, Sums(g, c, S),
           NEW R, NEW d, NEW h, Sums(h, d, R)
    PROVE  \A r \in SUBSET (S \cap R) : (\A x \in r : c[x] = d[x]) => g[r] = h[r]
  <1> SUFFICES ASSUME NEW r \in SUBSET (S \cap R), \A x \in r : c[x] = d[x]
               PROVE  g[r] = h[r]
    OBVIOUS
  <1> DEFINE Bad == {s \in SUBSET r : g[s] # h[s]}
  <1> SUFFICES ASSUME Bad # {}
               PROVE  FALSE
    OBVIOUS
  <1>1. PICK s \in Bad : \A x \in s : s \ {x} \notin Bad
    <2> HIDE DEF Bad
    <2>1. Bad \in SUBSET (SUBSET S)
      BY DEF Bad
    <2> QED
      BY <2>1, LeastSubset
  <1>2. s \in SUBSET S /\ s \in SUBSET R
    OBVIOUS
  <1>3. s # {}
    <2>1. g[{}] = 0
      BY SumsUnfold
    <2>2. h[{}] = 0
      BY SumsUnfold
    <2> QED
      BY <2>1, <2>2
  <1> HIDE DEF Bad
  <1>4. First(s) \in s /\ g[s] = c[First(s)] + g[s \ {First(s)}]
    BY <1>2, <1>3, SumsUnfold
  <1>5. h[s] = d[First(s)] + h[s \ {First(s)}]
    BY <1>2, <1>3, SumsUnfold
  <1>6. c[First(s)] = d[First(s)]
    BY <1>4 DEF Bad
  <1>7. g[s \ {First(s)}] = h[s \ {First(s)}]
    BY <1>1, <1>4 DEF Bad
  <1> QED
    BY <1>4, <1>5, <1>6, <1>7 DEF Bad

\* The order in which a sum takes the elements does not matter.
LEMMA SumsAdd ==
    ASSUME NEW S, NEW c, NEW g, SumsNumbers(g, c, S)
    PROVE  \A s \in SUBSET S : \A x \in S \ s : g[s \cup {x}] = c[x] + g[s]
  <1>1. IsFiniteSet(S) /\ c \in [S -> Int]
    BY DEF SumsNumbers
  <1>2. /\ g[{}] = 0
        /\ \A w \in SUBSET S : w # {} => First(w) \in w /\ g[w] = c[First(w)] + g[w \ {First(w)}]
    <2>1. Sums(g, c, S)
      BY DEF SumsNumbers
    <2> QED
      BY <2>1, SumsUnfold
  <1> DEFINE Bad == {s \in SUBSET S : \E x \in S \ s : g[s \cup {x}] # c[x] + g[s]}
  <1> SUFFICES ASSUME Bad # {}
               PROVE  FALSE
    OBVIOUS
  <1>3. PICK s \in Bad : \A x \in s : s \ {x} \notin Bad
    <2> HIDE DEF Bad
    <2>1. Bad \in SUBSET (SUBSET S)
      BY DEF Bad
    <2> QED
      BY <1>1, <2>1, LeastSubset
  <1>4. PICK x \in S \ s : g[s \cup {x}] # c[x] + g[s]
    OBVIOUS
  <1> DEFINE u == s \cup {x}
             y == First(u)
  <1>5. y \in u /\ g[u] = c[y] + g[u \ {y}] /\ u \in SUBSET S
    <2>1. u \in SUBSET S /\ u # {}
      BY <1>4
    <2> HIDE DEF u, y, Bad
    <2>2. First(u) \in u /\ g[u] = c[First(u)] + g[u \ {First(u)}]
      BY <1>2, <2>1
    <2> QED
      BY <2>1, <2>2 DEF y
  <1>6. CASE y = x
    <2>1. u \ {y} = s
      BY <1>6
    <2> QED
      BY <1>4, <1>5, <1>6, <2>1
  <1>7. CASE y # x
    <2> HIDE DEF y
    <2>1. y \in s
      BY <1>5, <1>7
    <2> DEFINE r == s \ {y}
    <2>2. r \in SUBSET S /\ r \notin Bad /\ y \in S \ r /\ x \in S \ r
      BY <1>3, <2>1
    <2>3. g[r \cup {x}] = c[x] + g[r] /\ g[r \cup {y}] = c[y] + g[r]
      BY <2>2
    <2>4. r \cup {x} = u \ {y} /\ r \cup {y} = s
      BY <1>7, <2>1
    <2>5. c[x] \in Int /\ c[y] \in Int /\ g[r] \in Int
      BY <1>1, <2>2, SumsAreNumbers
    <2>6. g[u \ {y}] = c[x] + g[r] /\ g[s] = c[y] + g[r]
      BY <2>3, <2>4
    <2> HIDE DEF r, Bad, u
    <2>7. g[u] = c[x] + g[s]
      BY <1>5, <2>5, <2>6
    <2> QED
      BY <1>4, <2>7 DEF u
  <1> QED
    BY <1>6, <1>7

\* There is a sum over every finite set.
LEMMA SumsExist ==
    ASSUME NEW T, IsFiniteSet(T), NEW c
    PROVE  \E g : Sums(g, c, T)
  <1> DEFINE Value(s) == (CHOOSE g : Sums(g, c, s))[s]
             Bad == {S \in SUBSET T : ~ \E g : Sums(g, c, S)}
  <1> SUFFICES ASSUME Bad # {}
               PROVE  FALSE
    OBVIOUS
  <1>1. PICK S \in Bad : IsFiniteSet(S) /\ \A x \in S : S \ {x} \notin Bad
    <2> HIDE DEF Bad
    <2>1. Bad \in SUBSET (SUBSET T)
      BY DEF Bad
    <2> QED
      BY <2>1, LeastSubset
  <1> DEFINE h == [s \in SUBSET S |-> IF s = {} THEN 0 ELSE c[First(s)] + Value(s \ {First(s)})]
  \* A set within another one that has a sum has that sum.
  <1>2. ASSUME NEW s \in SUBSET S, s # S
        PROVE  Sums(CHOOSE g : Sums(g, c, s), c, s)
    <2>1. PICK x \in S : s \in SUBSET (S \ {x})
      BY <1>2
    <2>2. PICK g : Sums(g, c, S \ {x})
      BY <1>1
    <2>3. Sums([r \in SUBSET s |-> g[r]], c, s)
      <3> DEFINE f == [r \in SUBSET s |-> g[r]]
      <3>1. ASSUME NEW r \in SUBSET s
            PROVE  f[r] = IF r = {} THEN 0 ELSE c[First(r)] + f[r \ {First(r)}]
        <4>1. r \in SUBSET (S \ {x}) /\ r \ {First(r)} \in SUBSET s
          BY <2>1
        <4>2. g[{}] = 0 /\ (r # {} => g[r] = c[First(r)] + g[r \ {First(r)}])
          BY <2>2, <4>1, SumsUnfold
        <4> QED
          BY <4>1, <4>2
      <3>2. f = SumStep(f, c, s)
        BY <3>1 DEF SumStep
      <3> QED
        BY <3>2 DEF Sums
    <2> QED
      BY <2>3
  <1>3. ASSUME NEW r \in SUBSET S, r # S
        PROVE  h[r] = Value(r)
    <2> DEFINE gr == CHOOSE g : Sums(g, c, r)
    <2>1. Sums(gr, c, r)
      BY <1>2, <1>3
    <2> HIDE DEF gr
    <2>2. CASE r = {}
      BY <2>1, <2>2, SumsUnfold DEF gr
    <2>3. CASE r # {}
      <3> DEFINE q == r \ {First(r)}
                 gq == CHOOSE g : Sums(g, c, q)
      <3>1. q \in SUBSET S /\ q # S /\ q \in SUBSET (r \cap q) /\ First(r) \in r
        BY <2>3 DEF First
      <3>2. Sums(gq, c, q)
        BY <1>2, <3>1
      <3> HIDE DEF gq, q
      <3>3. IsFiniteSet(r)
        BY <1>1, FS_Subset
      <3>4. gr[q] = gq[q]
        <4>1. \A p \in SUBSET (r \cap q) : gr[p] = gq[p]
          BY <2>1, <3>2, <3>3, SumsAgree
        <4> QED
          BY <3>1, <4>1
      <3>5. gr[r] = c[First(r)] + gr[q]
        <4>1. r \in SUBSET r
          OBVIOUS
        <4> HIDE DEF h, Bad, Value
        <4> QED
          BY <2>1, <2>3, <4>1, SumsUnfold DEF q
      <3> QED
        BY <2>3, <3>4, <3>5 DEF gr, gq, q
    <2> QED
      BY <2>2, <2>3
  <1>4. ASSUME NEW s \in SUBSET S
        PROVE  h[s] = IF s = {} THEN 0 ELSE c[First(s)] + h[s \ {First(s)}]
    <2>1. CASE s = {}
      BY <2>1
    <2>2. CASE s # {}
      <3>1. First(s) \in s
        BY <2>2 DEF First
      <3>2. s \ {First(s)} \in SUBSET S /\ s \ {First(s)} # S
        BY <3>1
      <3>3. h[s \ {First(s)}] = Value(s \ {First(s)})
        <4> HIDE DEF h, Value
        <4> QED
          BY <1>3, <3>2
      <3>4. h[s] = c[First(s)] + Value(s \ {First(s)})
        <4> HIDE DEF Value
        <4> QED
          BY <2>2
      <3> QED
        BY <2>2, <3>3, <3>4
    <2> QED
      BY <2>1, <2>2
  <1>5. h = SumStep(h, c, S)
    <2>1. h = [s \in SUBSET S |-> h[s]]
      <3> HIDE DEF Value
      <3> QED
        OBVIOUS
    <2> HIDE DEF h
    <2> QED
      BY <1>4, <2>1 DEF SumStep
  <1> HIDE DEF h
  <1> QED
    BY <1>5 DEF Sums

-----------------------------------------------------------------------------
(* What all objects are worth together.                                    *)

RefOf(ps, S) == MapThenSumSet(LAMBDA o : ps.data[o].referenceCount, S)

CountsOf(ps, S) == [o \in S |-> ps.data[o].referenceCount]

LEMMA RefIsSum ==
    ASSUME NEW ps, NEW S, IsFiniteSet(S)
    PROVE  \E g : Sums(g, CountsOf(ps, S), S) /\ RefOf(ps, S) = g[S]
  <1> DEFINE c == CountsOf(ps, S)
             Equation(g) == g = [s \in SUBSET S |->
                 IF s = {} THEN 0
                 ELSE ps.data[CHOOSE x \in s : TRUE].referenceCount + g[s \ {CHOOSE x \in s : TRUE}]]
  <1>1. RefOf(ps, S) = (CHOOSE g : Equation(g))[S]
    BY DEF RefOf, MapThenSumSet, MapThenFoldSet
  <1>2. \A g : Equation(g) <=> Sums(g, c, S)
    <2> TAKE g
    <2>1. ASSUME NEW s \in SUBSET S
          PROVE  (IF s = {} THEN 0
                  ELSE ps.data[CHOOSE x \in s : TRUE].referenceCount + g[s \ {CHOOSE x \in s : TRUE}])
                 = IF s = {} THEN 0 ELSE c[First(s)] + g[s \ {First(s)}]
      <3>1. CASE s = {}
        BY <3>1
      <3>2. CASE s # {}
        <4>1. First(s) \in s /\ First(s) = CHOOSE x \in s : TRUE
          BY <3>2 DEF First
        <4>2. c[First(s)] = ps.data[First(s)].referenceCount
          BY <4>1 DEF CountsOf
        <4> QED
          BY <3>2, <4>1, <4>2
      <3> QED
        BY <3>1, <3>2
    <2>2. SumStep(g, c, S) = [s \in SUBSET S |->
                 IF s = {} THEN 0
                 ELSE ps.data[CHOOSE x \in s : TRUE].referenceCount + g[s \ {CHOOSE x \in s : TRUE}]]
      <3> HIDE DEF c
      <3> QED
        BY <2>1 DEF SumStep
    <2> QED
      BY <2>2 DEF Sums
  <1>3. \E g : Equation(g)
    <2> HIDE DEF Equation, c
    <2> QED
      BY <1>2, SumsExist
  <1>4. Equation(CHOOSE g : Equation(g))
    <2> HIDE DEF Equation
    <2> QED
      BY <1>3
  <1> HIDE DEF Equation
  <1> QED
    BY <1>1, <1>2, <1>4

LEMMA RefEmpty ==
    ASSUME NEW ps
    PROVE  RefOf(ps, {}) = 0
  <1>1. PICK g : Sums(g, CountsOf(ps, {}), {}) /\ RefOf(ps, {}) = g[{}]
    BY RefIsSum, FS_EmptySet
  <1> QED
    BY <1>1, SumsUnfold

\* The sum is that of the counts, whatever else the policies know.
LEMMA RefSame ==
    ASSUME NEW ps, NEW q, NEW S, IsFiniteSet(S),
           \A o \in S : q.data[o].referenceCount = ps.data[o].referenceCount
    PROVE  RefOf(q, S) = RefOf(ps, S)
  <1>1. PICK g : Sums(g, CountsOf(q, S), S) /\ RefOf(q, S) = g[S]
    BY RefIsSum
  <1>2. PICK h : Sums(h, CountsOf(ps, S), S) /\ RefOf(ps, S) = h[S]
    BY RefIsSum
  <1>3. \A o \in S : CountsOf(q, S)[o] = CountsOf(ps, S)[o]
    BY DEF CountsOf
  <1>4. g[S] = h[S]
    <2>1. \A r \in SUBSET (S \cap S) :
             (\A o \in r : CountsOf(q, S)[o] = CountsOf(ps, S)[o]) => g[r] = h[r]
      BY <1>1, <1>2, SumsAgree
    <2> QED
      BY <1>3, <2>1
  <1> QED
    BY <1>1, <1>2, <1>4

LEMMA RefAdd ==
    ASSUME NEW ps, NEW S, IsFiniteSet(S), NEW x, x \notin S,
           \A o \in S \cup {x} : ps.data[o].referenceCount \in Int
    PROVE  /\ RefOf(ps, S) \in Int
           /\ RefOf(ps, S \cup {x}) = RefOf(ps, S) + ps.data[x].referenceCount
  <1> DEFINE R == S \cup {x}
             c == CountsOf(ps, R)
             d == CountsOf(ps, S)
  <1>1. IsFiniteSet(R)
    BY FS_AddElement
  <1>2. PICK g : Sums(g, c, R) /\ RefOf(ps, R) = g[R]
    BY <1>1, RefIsSum
  <1>3. PICK h : Sums(h, d, S) /\ RefOf(ps, S) = h[S]
    BY RefIsSum
  <1>4. c \in [R -> Int] /\ c[x] = ps.data[x].referenceCount /\ \A o \in S : d[o] = c[o]
    BY DEF CountsOf
  <1> HIDE DEF c, d
  <1>5. S \in SUBSET (S \cap R) /\ S \in SUBSET R /\ x \in R \ S
    OBVIOUS
  <1> HIDE DEF R
  <1>6. SumsNumbers(g, c, R)
    BY <1>1, <1>2, <1>4 DEF SumsNumbers
  <1>7. h[S] = g[S]
    <2>1. \A r \in SUBSET (S \cap R) : (\A o \in r : d[o] = c[o]) => h[r] = g[r]
      BY <1>2, <1>3, SumsAgree
    <2> QED
      BY <1>4, <1>5, <2>1
  <1>8. g[S] \in Int
    BY <1>5, <1>6, SumsAreNumbers
  <1>9. g[S \cup {x}] = c[x] + g[S]
    BY <1>5, <1>6, SumsAdd
  <1>10. c[x] \in Int
    BY <1>4, <1>5
  <1> QED
    BY <1>2, <1>3, <1>4, <1>7, <1>8, <1>9, <1>10 DEF R

\* The references of all objects that have data.
Worth(ps) == RefOf(ps, HasData(ps))

LEMMA CountsAreNumbers ==
    ASSUME NEW ps \in DefaultPolicies
    PROVE  /\ IsFiniteSet(HasData(ps))
           /\ \A o \in HasData(ps) : o \in Objects /\ ps.data[o].referenceCount \in Int
  <1>1. HasData(ps) \subseteq Objects
    BY DEF HasData
  <1>2. \A o \in HasData(ps) : ps.data[o] \in PolicyData
    BY PolicyFields DEF HasData
  <1> QED
    BY <1>1, <1>2, FS_Subset, ObjectAssumption DEF PolicyData

\* The worth without one object, and with it.
LEMMA WorthWithout ==
    ASSUME NEW ps \in DefaultPolicies, NEW o \in HasData(ps)
    PROVE  /\ IsFiniteSet(HasData(ps) \ {o})
           /\ RefOf(ps, HasData(ps) \ {o}) \in Int
           /\ Worth(ps) \in Int
           /\ Worth(ps) = RefOf(ps, HasData(ps) \ {o}) + ps.data[o].referenceCount
  <1> DEFINE S == HasData(ps) \ {o}
  <1>1. IsFiniteSet(S) /\ o \notin S /\ S \cup {o} = HasData(ps)
    BY CountsAreNumbers, FS_Subset
  <1>2. \A x \in S \cup {o} : ps.data[x].referenceCount \in Int
    BY <1>1, CountsAreNumbers
  <1> HIDE DEF S
  <1>3. RefOf(ps, S) \in Int /\ RefOf(ps, S \cup {o}) = RefOf(ps, S) + ps.data[o].referenceCount
    BY <1>1, <1>2, RefAdd
  <1>4. ps.data[o].referenceCount \in Int
    BY <1>1, <1>2
  <1>5. Worth(ps) = RefOf(ps, S) + ps.data[o].referenceCount
    BY <1>1, <1>3 DEF Worth
  <1>6. Worth(ps) \in Int
    BY <1>3, <1>4, <1>5
  <1> QED
    BY <1>1, <1>3, <1>5, <1>6 DEF S

LEMMA WorthIsNumber ==
    ASSUME NEW ps \in DefaultPolicies
    PROVE  Worth(ps) \in Int
  <1>1. CASE HasData(ps) = {}
    BY <1>1, RefEmpty DEF Worth
  <1>2. CASE HasData(ps) # {}
    BY <1>2, WorthWithout
  <1> QED
    BY <1>1, <1>2

\* What a change of one object makes of it, and the loss of one.
LEMMA WorthChanged ==
    ASSUME NEW ps \in DefaultPolicies, NEW q \in DefaultPolicies, HasData(q) = HasData(ps),
           NEW o \in HasData(ps), \A p \in Objects \ {o} : q.data[p] = ps.data[p]
    PROVE  /\ ps.data[o].referenceCount \in Int /\ q.data[o].referenceCount \in Int
           /\ Worth(q) = Worth(ps) + q.data[o].referenceCount - ps.data[o].referenceCount
  <1> DEFINE S == HasData(ps) \ {o}
  <1>1. ps.data[o].referenceCount \in Int /\ q.data[o].referenceCount \in Int
    BY CountsAreNumbers
  <1>2. \A x \in S : q.data[x].referenceCount = ps.data[x].referenceCount
    BY CountsAreNumbers
  <1>3. /\ IsFiniteSet(S) /\ RefOf(ps, S) \in Int
        /\ Worth(ps) = RefOf(ps, S) + ps.data[o].referenceCount
    BY WorthWithout
  <1>4. Worth(q) = RefOf(q, S) + q.data[o].referenceCount
    BY WorthWithout
  <1> HIDE DEF S
  <1>5. RefOf(q, S) = RefOf(ps, S)
    BY <1>2, <1>3, RefSame
  <1> QED
    BY <1>1, <1>3, <1>4, <1>5

LEMMA WorthLost ==
    ASSUME NEW ps \in DefaultPolicies, NEW q \in DefaultPolicies,
           NEW o \in HasData(ps), HasData(q) = HasData(ps) \ {o},
           \A p \in Objects \ {o} : q.data[p] = ps.data[p]
    PROVE  /\ ps.data[o].referenceCount \in Int
           /\ RefOf(ps, {o}) = ps.data[o].referenceCount
           /\ Worth(q) = Worth(ps) - ps.data[o].referenceCount
  <1> DEFINE S == HasData(ps) \ {o}
  <1>1. ps.data[o].referenceCount \in Int
    BY CountsAreNumbers
  <1>2. \A x \in S : q.data[x].referenceCount = ps.data[x].referenceCount
    BY CountsAreNumbers
  <1>3. /\ IsFiniteSet(S) /\ RefOf(ps, S) \in Int
        /\ Worth(ps) = RefOf(ps, S) + ps.data[o].referenceCount
    BY WorthWithout
  <1>4. RefOf(q, S) = RefOf(ps, S)
    <2> HIDE DEF S
    <2> QED
      BY <1>2, <1>3, RefSame
  <1>5. RefOf(ps, {o}) = ps.data[o].referenceCount
    <2>1. IsFiniteSet({}) /\ o \notin {} /\ {} \cup {o} = {o}
      BY FS_EmptySet
    <2>2. \A x \in {} \cup {o} : ps.data[x].referenceCount \in Int
      BY <1>1
    <2>3. RefOf(ps, {} \cup {o}) = RefOf(ps, {}) + ps.data[o].referenceCount
      BY <2>1, <2>2, RefAdd
    <2> QED
      BY <1>1, <2>1, <2>3, RefEmpty
  <1>6. Worth(q) = RefOf(q, S)
    BY DEF Worth
  <1> QED
    BY <1>1, <1>3, <1>4, <1>5, <1>6

LEMMA WorthGained ==
    ASSUME NEW ps \in DefaultPolicies, NEW q \in DefaultPolicies,
           NEW o, o \notin HasData(ps), HasData(q) = HasData(ps) \cup {o},
           \A p \in Objects \ {o} : q.data[p] = ps.data[p], q.data[o].referenceCount = 0
    PROVE  Worth(q) = Worth(ps)
  <1> DEFINE S == HasData(ps)
  <1>1. IsFiniteSet(S) /\ \A x \in S : q.data[x].referenceCount = ps.data[x].referenceCount
    BY CountsAreNumbers
  <1>2. o \in HasData(q) /\ HasData(q) \ {o} = S
    OBVIOUS
  <1>3. Worth(q) = RefOf(q, S) + 0 /\ RefOf(q, S) \in Int
    BY <1>2, WorthWithout
  <1>4. RefOf(q, S) = RefOf(ps, S)
    <2> HIDE DEF S
    <2> QED
      BY <1>1, RefSame
  <1> QED
    BY <1>3, <1>4 DEF Worth

-----------------------------------------------------------------------------
(* References are only moved, if one manager has the policy to itself.     *)

\* An object that was looked at when time last passed.
Dated(m, o) ==
    \/ phase[m] \in {"idle", "makeSpace", "priorities", "evict", "create"}
    \/ phase[m] = "misses" /\ o \notin todo[m]

\* What a hit has given is still to be taken from the objects that have not got their
\* miss event, and from nothing else.
BalanceInv(m) ==
    IsDefault(policy) /\ useCacheMissEvent =>
        /\ evicted \in Int
        /\ evicted + Worth(policy) =
              IF phase[m] = "misses" THEN Default!Share(policy) * Cardinality(todo[m]) ELSE 0
        /\ \A o \in stored[m] : Dated(m, o) => policy.data[o].lastPriorityCalculation = policy.timeStamp

\* What the next step adds to the sum of what is evicted.
LostCounted == IsDefault(policy) => evicted' = evicted + References(Lost)

LEMMA LostReferences ==
    References(Lost) = RefOf(policy, HasData(policy) \ HasData(policy'))
  <1>1. Lost = HasData(policy) \ HasData(policy')
    BY DEF Lost, HasData
  <1> QED
    BY <1>1 DEF References, RefOf

LEMMA KnownToOne ==
    ASSUME Inv, NEW m, Managers = {m}, IsDefault(policy)
    PROVE  /\ policy \in DefaultPolicies /\ Worth(policy) \in Int /\ policy.timeStamp \in Nat
           /\ HasData(policy) = KnownOf(m) /\ policy.dataCount = Cardinality(KnownOf(m))
           /\ stored[m] \subseteq Objects /\ IsFiniteSet(stored[m]) /\ IsFiniteSet(KnownOf(m))
           /\ phase[m] # "destroy" => KnownOf(m) = stored[m]
  <1>1. policy \in DefaultPolicies
    BY Kinds DEF Inv, CountInv
  <1>2. Protocol!Known = KnownOf(m)
    BY KnownApart DEF Inv
  <1>3. stored[m] \subseteq Objects /\ KnownOf(m) \subseteq stored[m]
    BY KnownApart DEF Inv, ProtocolType
  <1>4. IsFiniteSet(stored[m]) /\ IsFiniteSet(KnownOf(m))
    BY <1>3, FS_Subset, ObjectAssumption
  <1> QED
    BY <1>1, <1>2, <1>3, <1>4, PolicyFields, WorthIsNumber DEF Inv, CountInv, KnownOf

\* Steps without an event.
LEMMA QuietBalance ==
    ASSUME Inv, NEW m, Managers = {m}, BalanceInv(m), LostCounted,
           useCacheMissEvent' = useCacheMissEvent, policy' = policy, phase'[m] # "misses",
           phase[m] = "misses" => todo[m] = {},
           \A o \in stored'[m] : Dated(m, o)' => o \in stored[m] /\ Dated(m, o)
    PROVE  BalanceInv(m)'
  <1> SUFFICES ASSUME IsDefault(policy), useCacheMissEvent
               PROVE  /\ evicted' \in Int /\ evicted' + Worth(policy) = 0
                      /\ \A o \in stored'[m] : Dated(m, o)' =>
                            policy.data[o].lastPriorityCalculation = policy.timeStamp
    BY DEF BalanceInv
  <1>1. policy \in DefaultPolicies /\ Worth(policy) \in Int /\ policy.dataCount \in Int
    BY KnownToOne, PolicyFields
  <1>2. evicted' = evicted /\ evicted \in Int
    <2>1. References(Lost) = 0
      BY LostReferences, RefEmpty
    <2> QED
      BY <2>1 DEF LostCounted, BalanceInv
  <1>3. evicted + Worth(policy) = 0
    <2>1. CASE phase[m] = "misses"
      <3>1. Cardinality(todo[m]) = 0 /\ stored[m] # {}
        BY <2>1, FS_EmptySet DEF Inv, PlaceInv
      <3>2. PICK o \in stored[m] : TRUE
        BY <3>1
      <3>3. o \in KnownOf(m)
        BY <2>1, <3>2 DEF KnownOf
      <3>4. policy.dataCount > 0
        BY <3>3, KnownData
      <3>5. Default!Share(policy) \in Int
        BY <1>1, <3>4, ShareIsInteger
      <3> QED
        BY <2>1, <3>1, <3>5 DEF BalanceInv
    <2> QED
      BY <2>1 DEF BalanceInv
  <1> QED
    BY <1>2, <1>3 DEF BalanceInv

LEMMA QuietSteps ==
    ASSUME Inv, NEW m, Managers = {m}, BalanceInv(m), LostCounted,
           useCacheMissEvent' = useCacheMissEvent,
           \/ \E o \in Objects : Protocol!HitCall(m, o) \/ Protocol!MissCall(m, o)
           \/ Protocol!NeedSpace(m) \/ Protocol!SpaceMade(m) \/ Protocol!CandidateFound(m)
           \/ Protocol!CandidateMissing(m) \/ Protocol!ReturnFromCall(m) \/ Protocol!DestroyManager(m) \/ Protocol!CreateManager(m)
    PROVE  BalanceInv(m)'
  <1>1. CASE \E o \in Objects : Protocol!HitCall(m, o) \/ Protocol!MissCall(m, o)
    <2>1. /\ phase[m] = "idle" /\ phase'[m] \in {"hit", "makeSpace"}
          /\ policy' = policy /\ stored' = stored
      BY <1>1 DEF Inv, ProtocolType, Protocol!HitCall, Protocol!MissCall, Protocol!Become
    <2> QED
      BY <2>1, QuietBalance DEF Dated
  <1>2. CASE Protocol!NeedSpace(m) \/ Protocol!SpaceMade(m)
    <2>1. /\ phase[m] = "makeSpace" /\ phase'[m] \in {"priorities", "create"}
          /\ policy' = policy /\ stored' = stored
      BY <1>2 DEF Inv, ProtocolType, Protocol!NeedSpace, Protocol!SpaceMade, Protocol!Become
    <2> QED
      BY <2>1, QuietBalance DEF Dated
  <1>3. CASE Protocol!CandidateFound(m) \/ Protocol!CandidateMissing(m)
    <2>1. /\ phase[m] = "priorities" /\ phase'[m] \in {"evict", "stopped"}
          /\ policy' = policy /\ stored' = stored
      BY <1>3 DEF Inv, ProtocolType, Protocol!CandidateFound, Protocol!CandidateMissing, Protocol!Become
    <2> QED
      BY <2>1, QuietBalance DEF Dated
  <1>4. CASE Protocol!ReturnFromCall(m)
    <2>1. /\ phase[m] = "misses" /\ todo[m] = {} /\ phase'[m] = "idle"
          /\ policy' = policy /\ stored' = stored
      BY <1>4 DEF Inv, ProtocolType, Protocol!ReturnFromCall, Protocol!Become
    <2> QED
      BY <2>1, QuietBalance DEF Dated
  <1>5. CASE Protocol!DestroyManager(m)
    <2>1. phase[m] = "idle" /\ phase'[m] = "destroy" /\ policy' = policy
      BY <1>5 DEF Inv, ProtocolType, Protocol!DestroyManager, Protocol!Become
    <2> QED
      BY <2>1, QuietBalance DEF Dated
  <1>6. CASE Protocol!CreateManager(m)
    <2>1. phase[m] = "destroy" /\ phase'[m] = "idle" /\ policy' = policy /\ stored'[m] = {}
      BY <1>6 DEF Inv, ProtocolType, Protocol!CreateManager, Protocol!Become
    <2> QED
      BY <2>1, QuietBalance DEF Dated
  <1> QED
    BY <1>1, <1>2, <1>3, <1>4, <1>5, <1>6

LEMMA CreateDataBalance ==
    ASSUME Inv, NEW m, Managers = {m}, BalanceInv(m), LostCounted,
           useCacheMissEvent' = useCacheMissEvent, Protocol!CreateData(m)
    PROVE  BalanceInv(m)'
  <1> DEFINE o == subject[m]
  <1>1. /\ phase[m] = "create" /\ phase'[m] = "hit" /\ policy' = CreationEvent(policy, o)
    BY DEF Inv, ProtocolType, Protocol!CreateData, Protocol!Become
  <1>2. o \in Objects /\ o \notin stored[m] /\ PolicyOK(policy)
    BY <1>1 DEF Inv, CountInv, PlaceInv, ApartInv, Waiting
  <1> HIDE DEF o
  <1>3. CreationEffect(policy, o, policy')
    BY <1>1, <1>2, CreationEffects
  <1> SUFFICES ASSUME IsDefault(policy'), useCacheMissEvent'
               PROVE  evicted' \in Int /\ evicted' + Worth(policy') = 0
    BY <1>1 DEF BalanceInv, Dated
  <1>4. IsDefault(policy) /\ policy' \in DefaultPolicies
    BY <1>3, Kinds DEF IsDefault, CreationEffect
  <1>5. policy \in DefaultPolicies /\ HasData(policy) = stored[m] /\ Worth(policy) \in Int
    BY <1>1, <1>4, KnownToOne
  <1>6. HasData(policy') = HasData(policy) \cup {o} /\ policy'.data[o].referenceCount = 0
    BY <1>3, <1>4 DEF CreationEffect
  <1>7. Worth(policy') = Worth(policy)
    BY <1>2, <1>3, <1>4, <1>5, <1>6, WorthGained DEF CreationEffect
  <1>8. References(Lost) = 0
    <2>1. HasData(policy) \ HasData(policy') = {}
      BY <1>6
    <2> QED
      BY <2>1, LostReferences, RefEmpty
  <1> QED
    BY <1>1, <1>4, <1>7, <1>8 DEF BalanceInv, LostCounted

LEMMA DividesEvenly ==
    ASSUME NEW u \in Nat, NEW n \in Nat \ {0}, u % n = 0
    PROVE  (u \div n) * n = u
  OBVIOUS

LEMMA HitDataBalance ==
    ASSUME Inv, NEW m, Managers = {m}, BalanceInv(m), LostCounted,
           useCacheMissEvent' = useCacheMissEvent, Protocol!HitData(m)
    PROVE  BalanceInv(m)'
  <1> DEFINE o == subject[m]
  <1>1. /\ phase[m] = "hit" /\ phase'[m] = "misses" /\ policy' = HitEvent(policy, o)
        /\ stored' = stored /\ (useCacheMissEvent => todo'[m] = stored[m])
    BY DEF Inv, ProtocolType, Protocol!HitData, Protocol!Become
  <1>2. o \in stored[m] /\ o \in KnownOf(m)
    BY <1>1 DEF Inv, PlaceInv, KnownOf
  <1>3. o \in Objects /\ policy.data[o] # NoData /\ PolicyOK(policy)
        /\ (IsDefault(policy) => policy.dataCount > 0)
    BY <1>2, KnownData
  <1> HIDE DEF o
  <1>4. HitEffect(policy, o, policy')
    BY <1>1, <1>3, HitEffects
  <1> SUFFICES ASSUME IsDefault(policy'), useCacheMissEvent'
               PROVE  /\ evicted' \in Int
                      /\ evicted' + Worth(policy') = Default!Share(policy') * Cardinality(todo'[m])
    BY <1>1 DEF BalanceInv, Dated
  <1>5. IsDefault(policy) /\ policy' \in DefaultPolicies
    BY <1>4, Kinds DEF IsDefault, HitEffect
  <1>6. /\ policy \in DefaultPolicies /\ HasData(policy) = stored[m] /\ Worth(policy) \in Int
        /\ policy.dataCount = Cardinality(stored[m])
        /\ IsFiniteSet(stored[m]) /\ stored[m] \subseteq Objects
    BY <1>1, <1>5, KnownToOne
  <1>7. /\ HasData(policy') = HasData(policy) /\ policy'.dataCount = policy.dataCount
        /\ policy'.data[o].referenceCount = policy.data[o].referenceCount + Unit
    BY <1>4, <1>5 DEF HitEffect
  <1>8. Worth(policy') = Worth(policy) + Unit
    <2>1. /\ policy.data[o].referenceCount \in Int /\ policy'.data[o].referenceCount \in Int
          /\ Worth(policy') = Worth(policy) + policy'.data[o].referenceCount
                                - policy.data[o].referenceCount
      BY <1>2, <1>4, <1>5, <1>6, <1>7, WorthChanged DEF HitEffect
    <2> QED
      BY <1>6, <1>7, <2>1, UnitAssumption
  <1>9. References(Lost) = 0
    <2>1. HasData(policy) \ HasData(policy') = {}
      BY <1>7
    <2> QED
      BY <2>1, LostReferences, RefEmpty
  <1>10. evicted' = evicted /\ evicted \in Int /\ evicted + Worth(policy) = 0
    BY <1>1, <1>5, <1>9 DEF BalanceInv, LostCounted
  <1>11. Default!Share(policy') * Cardinality(todo'[m]) = Unit
    <2> DEFINE n == Cardinality(stored[m])
    <2>1. n \in Nat /\ n > 0 /\ n <= Cardinality(Objects) /\ Cardinality(Objects) \in Nat
      BY <1>3, <1>5, <1>6, FS_CardinalityType, FS_Subset, ObjectAssumption
    <2>2. n \in 1..Cardinality(Objects)
      <3> HIDE DEF n
      <3> QED
        BY <2>1
    <2>3. Unit % n = 0 /\ Unit \in Nat
      BY <2>2, UnitAssumption
    <2>4. Default!Share(policy') = Unit \div n /\ Cardinality(todo'[m]) = n
      BY <1>1, <1>6, <1>7 DEF Default!Share
    <2> HIDE DEF n
    <2> QED
      BY <2>1, <2>3, <2>4, DividesEvenly
  <1> QED
    BY <1>6, <1>8, <1>10, <1>11, UnitAssumption

LEMMA OneLess ==
    ASSUME NEW s \in Int, NEW n \in Int
    PROVE  s * (n - 1) = s * n - s /\ s * n \in Int
  OBVIOUS

LEMMA MissDataBalance ==
    ASSUME Inv, NEW m, Managers = {m}, BalanceInv(m), LostCounted,
           useCacheMissEvent' = useCacheMissEvent, NEW o \in Objects, Protocol!MissData(m, o)
    PROVE  BalanceInv(m)'
  <1>1. /\ phase[m] = "misses" /\ phase' = phase /\ policy' = MissEvent(policy, o)
        /\ stored' = stored /\ todo'[m] = todo[m] \ {o} /\ o \in todo[m]
    BY DEF Inv, ProtocolType, Protocol!MissData
  <1>2. o \in stored[m] /\ o \in KnownOf(m) /\ todo[m] \subseteq stored[m]
    BY <1>1 DEF Inv, PlaceInv, KnownOf
  <1>3. policy.data[o] # NoData /\ PolicyOK(policy) /\ (IsDefault(policy) => policy.dataCount > 0)
    BY <1>2, KnownData
  <1>4. /\ LookEffect(policy, o, policy')
        /\ IsDefault(policy) => policy'.data[o].referenceCount
                                  = policy.data[o].referenceCount - Default!Share(policy)
    BY <1>1, <1>3, MissEffects
  <1> SUFFICES ASSUME IsDefault(policy'), useCacheMissEvent'
               PROVE  /\ evicted' \in Int
                      /\ evicted' + Worth(policy') = Default!Share(policy') * Cardinality(todo'[m])
                      /\ \A p \in stored[m] : p \notin todo'[m] =>
                            policy'.data[p].lastPriorityCalculation = policy'.timeStamp
    BY <1>1 DEF BalanceInv, Dated
  <1>5. IsDefault(policy) /\ policy' \in DefaultPolicies
    BY <1>4, Kinds DEF IsDefault, LookEffect
  <1>6. /\ policy \in DefaultPolicies /\ HasData(policy) = stored[m] /\ Worth(policy) \in Int
        /\ IsFiniteSet(stored[m]) /\ stored[m] \subseteq Objects /\ IsFiniteSet(todo[m])
    BY <1>1, <1>2, <1>5, KnownToOne, FS_Subset
  <1>7. /\ HasData(policy') = HasData(policy) /\ policy'.dataCount = policy.dataCount
        /\ policy'.timeStamp = policy.timeStamp
        /\ policy'.data[o].lastPriorityCalculation = policy.timeStamp
        /\ \A p \in Objects \ {o} : policy'.data[p] = policy.data[p]
    BY <1>4, <1>5 DEF LookEffect
  <1> DEFINE s == Default!Share(policy)
             n == Cardinality(todo[m])
  <1>8. s \in Int /\ Default!Share(policy') = s
    BY <1>3, <1>5, <1>6, <1>7, ShareIsInteger DEF Default!Share
  <1>9. n \in Nat /\ Cardinality(todo'[m]) = n - 1
    BY <1>1, <1>6, FS_CardinalityType, FS_RemoveElement
  <1>10. Worth(policy') = Worth(policy) - s
    <2>1. /\ policy.data[o].referenceCount \in Int /\ policy'.data[o].referenceCount \in Int
          /\ Worth(policy') = Worth(policy) + policy'.data[o].referenceCount
                                - policy.data[o].referenceCount
      BY <1>2, <1>5, <1>6, <1>7, WorthChanged
    <2> HIDE DEF s
    <2>2. policy'.data[o].referenceCount = policy.data[o].referenceCount - s
      BY <1>4, <1>5 DEF s
    <2> QED
      BY <1>6, <1>8, <2>1, <2>2
  <1>11. References(Lost) = 0
    <2>1. HasData(policy) \ HasData(policy') = {}
      BY <1>7
    <2> QED
      BY <2>1, LostReferences, RefEmpty
  <1>12. evicted' = evicted /\ evicted \in Int /\ evicted + Worth(policy) = s * n
    BY <1>1, <1>5, <1>11 DEF BalanceInv, LostCounted
  <1>13. \A p \in stored[m] : p \notin todo'[m] =>
            policy'.data[p].lastPriorityCalculation = policy'.timeStamp
    BY <1>1, <1>5, <1>6, <1>7 DEF BalanceInv, Dated
  <1> HIDE DEF s, n
  <1>14. evicted' + Worth(policy') = s * (n - 1)
    BY <1>6, <1>8, <1>9, <1>10, <1>12, OneLess
  <1> QED
    BY <1>8, <1>9, <1>12, <1>13, <1>14

\* A scan takes nothing: all objects were looked at when time last passed.
LEMMA GetPriorityBalance ==
    ASSUME Inv, NEW m, Managers = {m}, BalanceInv(m), LostCounted,
           useCacheMissEvent' = useCacheMissEvent, NEW o \in Objects, Protocol!GetPriority(m, o)
    PROVE  BalanceInv(m)'
  <1>1. /\ phase[m] = "priorities" /\ phase' = phase /\ policy' = AfterPriorityOf(policy, o)
        /\ stored' = stored /\ o \in todo[m]
    BY DEF Inv, ProtocolType, Protocol!GetPriority
  <1>2. o \in stored[m] /\ o \in KnownOf(m)
    BY <1>1 DEF Inv, PlaceInv, KnownOf
  <1>3. policy.data[o] # NoData /\ PolicyOK(policy) /\ (IsDefault(policy) => policy.dataCount > 0)
    BY <1>2, KnownData
  <1>4. /\ LookEffect(policy, o, policy')
        /\ IsDefault(policy) => policy'.data[o].referenceCount
                                  = policy.data[o].referenceCount - Default!Decay(policy, o)
    BY <1>1, <1>3, AgeEffects
  <1> SUFFICES ASSUME IsDefault(policy'), useCacheMissEvent'
               PROVE  /\ evicted' \in Int /\ evicted' + Worth(policy') = 0
                      /\ \A p \in stored[m] :
                            policy'.data[p].lastPriorityCalculation = policy'.timeStamp
    BY <1>1 DEF BalanceInv, Dated
  <1>5. IsDefault(policy) /\ policy' \in DefaultPolicies
    BY <1>4, Kinds DEF IsDefault, LookEffect
  <1>6. /\ policy \in DefaultPolicies /\ HasData(policy) = stored[m] /\ Worth(policy) \in Int
        /\ stored[m] \subseteq Objects /\ policy.timeStamp \in Nat
    BY <1>1, <1>5, KnownToOne
  <1>7. /\ HasData(policy') = HasData(policy) /\ policy'.timeStamp = policy.timeStamp
        /\ policy'.data[o].lastPriorityCalculation = policy.timeStamp
        /\ \A p \in Objects \ {o} : policy'.data[p] = policy.data[p]
    BY <1>4, <1>5 DEF LookEffect
  <1>8. \A p \in stored[m] : policy.data[p].lastPriorityCalculation = policy.timeStamp
    BY <1>1, <1>5 DEF BalanceInv, Dated
  <1>9. Default!Decay(policy, o) = 0
    <2>1. Default!Share(policy) \in Int
      BY <1>3, <1>5, <1>6, ShareIsInteger
    <2>2. policy.timeStamp - policy.data[o].lastPriorityCalculation = 0
      BY <1>2, <1>6, <1>8
    <2> QED
      BY <2>1, <2>2 DEF Default!Decay
  <1>10. Worth(policy') = Worth(policy)
    <2>1. /\ policy.data[o].referenceCount \in Int /\ policy'.data[o].referenceCount \in Int
          /\ Worth(policy') = Worth(policy) + policy'.data[o].referenceCount
                                - policy.data[o].referenceCount
      BY <1>2, <1>5, <1>6, <1>7, WorthChanged
    <2>2. policy'.data[o].referenceCount = policy.data[o].referenceCount - 0
      BY <1>4, <1>5, <1>9
    <2> QED
      BY <1>6, <2>1, <2>2
  <1>11. References(Lost) = 0
    <2>1. HasData(policy) \ HasData(policy') = {}
      BY <1>7
    <2> QED
      BY <2>1, LostReferences, RefEmpty
  <1>12. evicted' = evicted /\ evicted \in Int /\ evicted + Worth(policy) = 0
    BY <1>1, <1>5, <1>11 DEF BalanceInv, LostCounted
  <1>13. \A p \in stored[m] : policy'.data[p].lastPriorityCalculation = policy'.timeStamp
    BY <1>6, <1>7, <1>8
  <1> QED
    BY <1>10, <1>12, <1>13

\* What is evicted is counted.
LEMMA EvictionBalance ==
    ASSUME Inv, NEW m, Managers = {m}, BalanceInv(m), LostCounted,
           useCacheMissEvent' = useCacheMissEvent, NEW o \in KnownOf(m),
           policy' = EvictionEvent(policy, o), phase[m] \in {"evict", "destroy"},
           phase'[m] \in {"makeSpace", "destroy"}, phase'[m] = "makeSpace" => phase[m] = "evict",
           stored'[m] \subseteq stored[m], phase[m] = "evict" => o \notin stored'[m]
    PROVE  BalanceInv(m)'
  <1>1. EvictionEffect(policy, o, policy') /\ o \in Objects
    BY KnownData, EvictionEffects DEF Inv, CountInv
  <1> SUFFICES ASSUME IsDefault(policy'), useCacheMissEvent'
               PROVE  /\ evicted' \in Int /\ evicted' + Worth(policy') = 0
                      /\ \A p \in stored'[m] : Dated(m, p)' =>
                            policy'.data[p].lastPriorityCalculation = policy'.timeStamp
    BY DEF BalanceInv
  <1>2. IsDefault(policy) /\ policy' \in DefaultPolicies
    BY <1>1, Kinds DEF IsDefault, EvictionEffect
  <1>3. /\ policy \in DefaultPolicies /\ HasData(policy) = KnownOf(m) /\ Worth(policy) \in Int
        /\ stored[m] \subseteq Objects
    BY <1>2, KnownToOne
  <1>4. /\ HasData(policy') = HasData(policy) \ {o} /\ policy'.timeStamp = policy.timeStamp
        /\ \A p \in Objects \ {o} : policy'.data[p] = policy.data[p]
    BY <1>1, <1>2 DEF EvictionEffect
  <1>5. /\ policy.data[o].referenceCount \in Int
        /\ RefOf(policy, {o}) = policy.data[o].referenceCount
        /\ Worth(policy') = Worth(policy) - policy.data[o].referenceCount
    BY <1>2, <1>3, <1>4, WorthLost
  <1>6. References(Lost) = policy.data[o].referenceCount
    <2>1. HasData(policy) \ HasData(policy') = {o}
      BY <1>3, <1>4
    <2> QED
      BY <1>5, <2>1, LostReferences
  <1>7. evicted \in Int /\ evicted + Worth(policy) = 0 /\ evicted' = evicted + References(Lost)
    BY <1>2 DEF BalanceInv, LostCounted
  <1>8. \A p \in stored'[m] : Dated(m, p)' =>
            policy'.data[p].lastPriorityCalculation = policy'.timeStamp
    BY <1>2, <1>3, <1>4 DEF BalanceInv, Dated
  <1> QED
    BY <1>3, <1>5, <1>6, <1>7, <1>8

LEMMA BalanceStep ==
    ASSUME Inv, NEW m, Managers = {m}, BalanceInv(m), [Next]_vars
    PROVE  BalanceInv(m)'
  <1>1. CASE UNCHANGED vars
    BY <1>1 DEF vars, BalanceInv, Dated
  <1>2. CASE Next
    <2>1. LostCounted /\ useCacheMissEvent' = useCacheMissEvent
      BY <1>2 DEF Next, LostCounted, Protocol!ProtocolNext
    <2>2. Protocol!ProtocolStep(m)
      BY <1>2 DEF Next, Protocol!ProtocolNext
    <2>3. CASE \E o \in Objects : Protocol!GetPriority(m, o) \/ Protocol!MissData(m, o)
      BY <2>1, <2>3, GetPriorityBalance, MissDataBalance
    <2>4. CASE \E o \in Objects : Protocol!DestroyData(m, o)
      <3>1. PICK o \in Objects : Protocol!DestroyData(m, o)
        BY <2>4
      <3>2. /\ phase[m] = "destroy" /\ phase' = phase /\ stored' = stored
            /\ policy' = EvictionEvent(policy, o) /\ o \in KnownOf(m)
        BY <3>1 DEF Protocol!DestroyData, KnownOf
      <3> QED
        BY <2>1, <3>2, EvictionBalance
    <2>5. CASE Protocol!EvictData(m)
      <3>1. /\ phase[m] = "evict" /\ phase'[m] = "makeSpace"
            /\ stored'[m] = stored[m] \ {candidate[m]}
            /\ policy' = EvictionEvent(policy, candidate[m]) /\ candidate[m] \in KnownOf(m)
        BY <2>5 DEF Inv, ProtocolType, PlaceInv, Protocol!EvictData, Protocol!Become, KnownOf
      <3> QED
        BY <2>1, <3>1, EvictionBalance
    <2>6. CASE Protocol!CreateData(m) \/ Protocol!HitData(m)
      BY <2>1, <2>6, CreateDataBalance, HitDataBalance
    <2> QED
      BY <2>1, <2>2, <2>3, <2>4, <2>5, <2>6, QuietSteps DEF Protocol!ProtocolStep
  <1> QED
    BY <1>1, <1>2

\* A manager that has its policy to itself and sends miss events gives, takes and loses
\* references, and makes none: what all objects have gained and lost since it was made,
\* the evicted ones included, adds up to nothing.
THEOREM ReferencesAreBalanced ==
    ASSUME NEW m, Managers = {m}
    PROVE  Spec => []ReferencesBalanced
  <1>1. Init => BalanceInv(m)
    <2> SUFFICES ASSUME Init, IsDefault(policy)
                 PROVE  BalanceInv(m)
      BY DEF BalanceInv
    <2>1. evicted = 0 /\ phase[m] = "idle" /\ stored[m] = {}
      BY DEF Init, Protocol!ProtocolInit
    <2>2. HasData(policy) = {}
      BY <2>1, InitInv, KnownToOne DEF KnownOf
    <2> QED
      BY <2>1, <2>2, RefEmpty DEF BalanceInv, Worth
  <1>2. Inv /\ BalanceInv(m) /\ [Next]_vars => BalanceInv(m)'
    BY BalanceStep
  <1>3. Inv /\ BalanceInv(m) => ReferencesBalanced
    <2> SUFFICES ASSUME Inv, BalanceInv(m), IsDefault(policy), useCacheMissEvent,
                        phase[m] \in {"idle", "makeSpace", "priorities", "evict"}
                 PROVE  evicted + References(Protocol!Known) = 0
      BY DEF ReferencesBalanced
    <2>1. HasData(policy) = Protocol!Known
      BY DEF Inv, CountInv
    <2>2. References(Protocol!Known) = Worth(policy)
      BY <2>1 DEF References, RefOf, Worth
    <2> QED
      BY <2>2 DEF BalanceInv
  <1> QED
    BY <1>1, <1>2, <1>3, Invariant, PTL DEF Spec
=============================================================================
