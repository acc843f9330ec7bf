------------------------ MODULE MuscleWrapperProofs ------------------------
(***************************************************************************)
(* Proofs about MuscleWrapper, for every number of wrappers, every set of  *)
(* editable sources and every bound: who is the master of whom, what the   *)
(* flags of a wrapper promise, and what a redraw leaves.                   *)
(***************************************************************************)
EXTENDS MuscleWrapper, SequenceTheorems, TLAPS

-----------------------------------------------------------------------------
(* The attributes of a wrapper, and what the checks leave alone of them.   *)

Fields == {"modified", "itemModified", "known", "lastTime", "lastConfirm", "prevent",
           "showFibers", "curves", "transformed", "deformed", "decomposed", "polyData",
           "master", "slaves"}

Attributes(s) == s = [f \in Fields |-> s[f]] /\ s.modified \subseteq Flags

\* t are attributes with the master and the slaves of s.
SameGroup(s, t) == Attributes(t) /\ t.master = s.master /\ t.slaves = s.slaves

LEMMA FastChecksEffect ==
    ASSUME NEW s, NEW w, Attributes(s)
    PROVE  SameGroup(s, FastChecks(s, w))
  BY DEF FastChecks, SameGroup, Attributes, Fields, Flags

LEMMA SlowChecksEffect ==
    ASSUME NEW s, NEW w, Attributes(s)
    PROVE  SameGroup(s, SlowChecks(s, w))
  BY DEF SlowChecks, SameGroup, Attributes, Fields, Flags

LEMMA ConsequencesEffect ==
    ASSUME NEW s, NEW w, Attributes(s)
    PROVE  SameGroup(s, Consequences(s, w))
  <1> DEFINE inputs == s.modified \cup IF "space" \in s.modified THEN Inputs ELSE {}
             confirmed == confirm # s.lastConfirm
             deform == inputs \cup IF inputs \cap Inputs # {} \/ confirmed THEN {"deformation"} ELSE {}
             shown == deform \cup IF "deformation" \in deform THEN {"fibers", "polyData"} ELSE {}
             seen == IF s.showFibers THEN shown ELSE shown \ {"fibers"}
             flags == shown \cup IF seen # {} THEN {"polyData"} ELSE {}
             options == IF confirmed THEN prevent ELSE s.prevent
  <1>1. Consequences(s, w) = [s EXCEPT !.lastConfirm = confirm, !.prevent = options,
                                       !.modified = flags]
    BY DEF Consequences
  <1>2. flags \subseteq Flags
    BY DEF Attributes, Flags, Inputs
  <1> HIDE DEF flags, options
  <1> QED
    BY <1>1, <1>2 DEF SameGroup, Attributes, Fields

LEMMA WrappersEffect ==
    ASSUME NEW s, NEW w, Attributes(s)
    PROVE  SameGroup(s, PrepareInputWrappers(s, w))
  BY DEF PrepareInputWrappers, SameGroup, Attributes, Fields, Flags

LEMMA MuscleEffect ==
    ASSUME NEW s, NEW w, Attributes(s)
    PROVE  SameGroup(s, PrepareInputMuscle(s, w))
  BY DEF PrepareInputMuscle, SameGroup, Attributes, Fields, Flags

LEMMA DeformedEffect ==
    ASSUME NEW s, NEW d, Attributes(s)
    PROVE  SameGroup(s, [s EXCEPT !.deformed = d, !.modified = @ \ {"deformation"}])
  BY DEF SameGroup, Attributes, Fields

LEMMA FibersEffect ==
    ASSUME NEW s, Attributes(s)
    PROVE  SameGroup(s, GenerateFibers(s))
  BY DEF GenerateFibers, SameGroup, Attributes, Fields

LEMMA EditEffect ==
    ASSUME NEW s, Attributes(s), NEW flag \in Flags, NEW items
    PROVE  SameGroup(s, [s EXCEPT !.modified = @ \cup {flag}, !.itemModified = @ \cup items])
  BY DEF SameGroup, Attributes, Fields

LEMMA SwitchEffect ==
    ASSUME NEW s, Attributes(s)
    PROVE  SameGroup(s, [s EXCEPT !.showFibers = ~@, !.modified = @ \cup {"polyData"}])
  BY DEF SameGroup, Attributes, Fields, Flags

\* Preparing the input of a wrapper changes neither its master nor its slaves.
LEMMA PrepareInputEffect ==
    ASSUME NEW w, Attributes(vme[w])
    PROVE  SameGroup(vme[w], PrepareInput(w))
  <1> DEFINE r == IF w \in UsesFastChecks THEN FastChecks(vme[w], w) ELSE SlowChecks(vme[w], w)
             s == MustUpdateCheck(vme[w], w)
             t == PrepareInputWrappers(s, w)
             u == PrepareInputMuscle(t, w)
  <1>1. SameGroup(vme[w], r)
    BY FastChecksEffect, SlowChecksEffect
  <1>2. SameGroup(vme[w], s)
    BY <1>1, ConsequencesEffect DEF MustUpdateCheck, SameGroup
  <1>3. SameGroup(vme[w], t)
    BY <1>2, WrappersEffect DEF SameGroup
  <1>4. SameGroup(vme[w], u)
    BY <1>3, MuscleEffect DEF SameGroup
  <1>5. SameGroup(vme[w], [u EXCEPT !.modified = @ \ (Inputs \cup {"space"})])
    BY <1>4 DEF SameGroup, Attributes, Fields
  <1> QED
    BY <1>2, <1>5 DEF PrepareInput

-----------------------------------------------------------------------------
(* Masters and slaves.                                                     *)

GroupsOK ==
    /\ enabled \subseteq Model
    /\ updated \in Wrappers \cup {None}
    /\ vme = [w \in Wrappers |-> vme[w]]
    /\ \A w \in Wrappers :
        /\ Attributes(vme[w])
        /\ vme[w].master \in Wrappers \cup {None}
        /\ vme[w].slaves \subseteq Wrappers \ {w}
    /\ MasterKnowsSlave

\* A wrapper of a higher rank may ask one of a lower rank, never the other way around.
Ranked(rank) ==
    /\ rank \in [Wrappers -> Nat]
    /\ \A w \in Wrappers : vme[w].master # None => rank[w] > rank[vme[w].master]

\* Nobody's master or slaves change.
GroupsKept ==
    /\ vme' = [w \in Wrappers |-> vme'[w]]
    /\ \A w \in Wrappers : SameGroup(vme[w], vme'[w])

LEMMA GroupsPreserved ==
    ASSUME GroupsOK, GroupsKept, enabled' \subseteq Model, updated' \in Wrappers \cup {None}
    PROVE  GroupsOK'
  <1>1. ASSUME NEW w \in Wrappers
        PROVE  /\ Attributes(vme'[w])
               /\ vme'[w].master = vme[w].master
               /\ vme'[w].slaves = vme[w].slaves
    BY DEF GroupsKept, SameGroup
  <1>2. ASSUME NEW w \in Wrappers, vme'[w].master # None
        PROVE  w \in vme'[vme'[w].master].slaves
    <2>1. vme[w].master \in Wrappers /\ w \in vme[vme[w].master].slaves
      BY <1>1, <1>2 DEF GroupsOK, MasterKnowsSlave
    <2> QED
      BY <1>1, <2>1
  <1>3. MasterKnowsSlave'
    BY <1>2 DEF MasterKnowsSlave
  <1> QED
    BY <1>1, <1>3 DEF GroupsOK, GroupsKept

LEMMA RanksPreserved ==
    ASSUME GroupsOK, GroupsKept, NEW rank, Ranked(rank)
    PROVE  Ranked(rank)'
  BY DEF GroupsKept, SameGroup, Ranked

\* A step that changes the attributes of one wrapper only, and not its group.
LEMMA OneChanged ==
    ASSUME GroupsOK, NEW w \in Wrappers, NEW s, SameGroup(vme[w], s), vme' = [vme EXCEPT ![w] = s]
    PROVE  GroupsKept
  BY DEF GroupsOK, GroupsKept, SameGroup, Attributes

LEMMA NoneChanged ==
    ASSUME GroupsOK, vme' = vme
    PROVE  GroupsKept
  BY DEF GroupsOK, GroupsKept, SameGroup, Attributes

\* Lead is the one step that makes masters and slaves: what it makes of them.
LEMMA LeadEffect ==
    ASSUME GroupsOK, NEW w \in Wrappers, Lead(w), vme[w].master = None
    PROVE  /\ vme' = [v \in Wrappers |-> vme'[v]]
           /\ \A v \in Wrappers :
                /\ Attributes(vme'[v])
                /\ vme'[v].slaves = IF v = w THEN Slaves(w) ELSE vme[v].slaves
                /\ vme'[v].master = IF v \in Slaves(w) THEN w
                                    ELSE IF v \in vme[w].slaves THEN None
                                    ELSE vme[v].master
  <1> DEFINE group == Slaves(w)
             prepared == [v \in group |-> PrepareInput(v)]
             asked == \E v \in group : "deformation" \in prepared[v].modified
             run == asked \/ "deformation" \in vme[w].modified
             told == [v \in Wrappers |-> IF v \in group THEN [prepared[v] EXCEPT !.master = w]
                                         ELSE RevokeMastership(w)[v]]
             forced == (IF run THEN group ELSE {}) \cup (IF asked THEN {w} ELSE {})
             next(v) == [told[v] EXCEPT !.slaves = IF v = w THEN group ELSE @,
                                        !.modified = @ \cup IF v \in forced THEN RunAll ELSE {}]
  <1>1. vme' = [v \in Wrappers |-> next(v)]
    BY DEF Lead
  <1>2. ASSUME NEW v \in Wrappers
        PROVE  /\ Attributes(told[v])
               /\ told[v].slaves = vme[v].slaves
               /\ told[v].master = IF v \in group THEN w
                                   ELSE IF v \in vme[w].slaves THEN None
                                   ELSE vme[v].master
    <2>1. CASE v \in group
      <3>1. SameGroup(vme[v], prepared[v])
        BY <2>1, PrepareInputEffect DEF GroupsOK
      <3>2. told[v] = [prepared[v] EXCEPT !.master = w]
        BY <2>1
      <3> HIDE DEF told, prepared, group
      <3> QED
        BY <2>1, <3>1, <3>2 DEF SameGroup, Attributes, Fields
    <2>2. CASE v \notin group
      <3>1. told[v] = IF v \in vme[w].slaves THEN [vme[v] EXCEPT !.master = None] ELSE vme[v]
        BY <2>2 DEF RevokeMastership
      <3>2. Attributes(vme[v])
        BY DEF GroupsOK
      <3> HIDE DEF told, group
      <3> QED
        BY <2>2, <3>1, <3>2 DEF Attributes, Fields
    <2> QED
      BY <2>1, <2>2
  <1>3. ASSUME NEW v \in Wrappers
        PROVE  /\ Attributes(next(v))
               /\ next(v).slaves = IF v = w THEN group ELSE told[v].slaves
               /\ next(v).master = told[v].master
    <2> DEFINE t == told[v]
               more == IF v \in forced THEN RunAll ELSE {}
               slaves == IF v = w THEN group ELSE told[v].slaves
    <2>1. Attributes(t)
      BY <1>2
    <2>2. more \subseteq Flags
      BY DEF RunAll, Flags
    <2>3. next(v) = [t EXCEPT !.slaves = slaves, !.modified = @ \cup more]
      OBVIOUS
    <2> HIDE DEF told, more, slaves, next, forced, group, t
    <2>4. t = [f \in Fields |-> t[f]] /\ t.modified \subseteq Flags
      BY <2>1 DEF Attributes
    <2>5. /\ next(v) = [f \in Fields |-> next(v)[f]]
          /\ next(v).slaves = slaves /\ next(v).master = t.master
      BY <2>3, <2>4 DEF Fields
    <2>6. next(v).modified = t.modified \cup more
      BY <2>3, <2>4 DEF Fields
    <2>7. Attributes(next(v))
      BY <2>2, <2>4, <2>5, <2>6 DEF Attributes
    <2> QED
      BY <2>5, <2>7 DEF slaves, t
  <1> HIDE DEF next, told
  <1> QED
    BY <1>1, <1>2, <1>3

\* The new master gets the lowest rank.
LEMMA LeadPreserves ==
    ASSUME GroupsOK, NEW w \in Wrappers, Lead(w), NEW rank, Ranked(rank)
    PROVE  GroupsOK' /\ \E r : Ranked(r)'
  <1>1. CASE vme[w].master # None
    <2>1. vme' = vme /\ enabled' = enabled /\ updated' = updated
      BY <1>1 DEF Lead, world
    <2> QED
      BY <2>1, NoneChanged, GroupsPreserved, RanksPreserved DEF GroupsOK
  <1>2. CASE vme[w].master = None
    <2> DEFINE r == [v \in Wrappers |-> IF v = w THEN 0 ELSE rank[v] + 1]
    <2>1. Slaves(w) \subseteq Wrappers \ {w}
      BY ModelAssumption DEF Slaves, GroupsOK
    <2>2. enabled' = enabled /\ updated' = updated
      BY DEF Lead, world
    <2>3. MasterKnowsSlave'
      <3>1. ASSUME NEW v \in Wrappers, vme'[v].master # None
            PROVE  v \in vme'[vme'[v].master].slaves
        <4>1. CASE v \in Slaves(w)
          BY <1>2, <4>1, LeadEffect
        <4>2. CASE v \notin Slaves(w)
          <5>1. v \notin vme[w].slaves /\ vme'[v].master = vme[v].master
            BY <1>2, <3>1, <4>2, LeadEffect
          <5>2. vme[v].master \in Wrappers \ {w} /\ v \in vme[vme[v].master].slaves
            BY <3>1, <5>1 DEF GroupsOK, MasterKnowsSlave
          <5> QED
            BY <1>2, <5>1, <5>2, LeadEffect
        <4> QED
          BY <4>1, <4>2
      <3> QED
        BY <3>1 DEF MasterKnowsSlave
    <2>4. GroupsOK'
      BY <1>2, <2>1, <2>2, <2>3, LeadEffect DEF GroupsOK
    <2>5. ASSUME NEW v \in Wrappers, vme'[v].master # None
          PROVE  r[v] > r[vme'[v].master]
      <3>1. CASE v \in Slaves(w)
        BY <1>2, <2>1, <3>1, LeadEffect DEF Ranked
      <3>2. CASE v \notin Slaves(w)
        <4>1. v \notin vme[w].slaves /\ vme'[v].master = vme[v].master
          BY <1>2, <2>5, <3>2, LeadEffect
        <4>2. vme[v].master \in Wrappers \ {w} /\ v # w
          BY <1>2, <2>5, <4>1 DEF GroupsOK, MasterKnowsSlave
        <4> QED
          BY <2>5, <4>1, <4>2 DEF Ranked
      <3> QED
        BY <3>1, <3>2
    <2>6. r \in [Wrappers -> Nat]
      BY DEF Ranked
    <2>7. Ranked(r)'
      <3> HIDE DEF r
      <3> QED
        BY <2>5, <2>6 DEF Ranked
    <2> QED
      BY <2>4, <2>7
  <1> QED
    BY <1>1, <1>2

-----------------------------------------------------------------------------
(* The calls.  They are left in an order in which those up the masters can *)
(* come before those that wait for them, and only those.                   *)

Calls == [op : {"InternalPreUpdate", "Lead", "InternalUpdate", "Show", "Return"}, on : Wrappers]

Before(rank, c, d) ==
    /\ d.op # "InternalPreUpdate"
    /\ d.op = "Lead" => c.op \in {"InternalPreUpdate", "Lead"}
    /\ d.op = "Show" => c.op \in {"InternalUpdate", "Show"}
    /\ c.op = "InternalPreUpdate" /\ d.op = "Lead" => rank[d.on] > rank[c.on]
    /\ c.op = "InternalUpdate" /\ d.op = "Show" => rank[d.on] > rank[c.on]

Ordered(rank, s) ==
    /\ s \in Seq(Calls)
    /\ \A i, j \in 1..Len(s) : i < j => Before(rank, s[i], s[j])

LEMMA TailOrdered ==
    ASSUME NEW rank, NEW s, Ordered(rank, s), s # <<>>
    PROVE  /\ Ordered(rank, Tail(s))
           /\ \A i \in 1..Len(Tail(s)) : Before(rank, Head(s), Tail(s)[i])
  <1>1. /\ Tail(s) \in Seq(Calls)
        /\ Len(s) \in Nat \ {0}
        /\ Len(Tail(s)) = Len(s) - 1
        /\ \A i \in 1..Len(Tail(s)) : Tail(s)[i] = s[i + 1]
    BY HeadTailProperties, EmptySeq DEF Ordered
  <1>2. Head(s) = s[1]
    BY DEF Ordered
  <1>3. ASSUME NEW i \in 1..Len(Tail(s)), NEW j \in 1..Len(Tail(s)), i < j
        PROVE  Before(rank, Tail(s)[i], Tail(s)[j])
    <2>1. i + 1 \in 1..Len(s) /\ j + 1 \in 1..Len(s) /\ i + 1 < j + 1
      BY <1>1, <1>3
    <2> QED
      BY <1>1, <2>1 DEF Ordered
  <1>4. ASSUME NEW i \in 1..Len(Tail(s))
        PROVE  Before(rank, Head(s), Tail(s)[i])
    <2>1. 1 \in 1..Len(s) /\ i + 1 \in 1..Len(s) /\ 1 < i + 1
      BY <1>1
    <2> QED
      BY <1>1, <1>2, <2>1 DEF Ordered
  <1> QED
    BY <1>1, <1>3, <1>4 DEF Ordered

LEMMA ConsOrdered ==
    ASSUME NEW rank, NEW s, Ordered(rank, s), NEW c \in Calls, NEW t, t = <<c>> \o s,
           \A i \in 1..Len(s) : Before(rank, c, s[i])
    PROVE  Ordered(rank, t)
  <1>1. /\ t \in Seq(Calls)
        /\ Len(s) \in Nat
        /\ Len(t) = Len(s) + 1
        /\ t[1] = c
        /\ \A i \in 2..Len(t) : t[i] = s[i - 1] /\ i - 1 \in 1..Len(s)
    BY DEF Ordered
  <1>2. ASSUME NEW i \in 1..Len(t), NEW j \in 1..Len(t), i < j
        PROVE  Before(rank, t[i], t[j])
    <2>1. j \in 2..Len(t) /\ (i = 1 \/ i \in 2..Len(t))
      BY <1>1, <1>2
    <2>2. CASE i = 1
      BY <1>1, <2>1, <2>2
    <2>3. CASE i \in 2..Len(t)
      <3>1. i - 1 < j - 1
        BY <1>1, <1>2
      <3> QED
        BY <1>1, <2>1, <2>3, <3>1 DEF Ordered
    <2> QED
      BY <2>1, <2>2, <2>3
  <1> QED
    BY <1>1, <1>2 DEF Ordered

-----------------------------------------------------------------------------
(* The inductive invariant.                                                *)

CallsOK == \E rank : Ranked(rank) /\ Ordered(rank, calls)

IInv == GroupsOK /\ CallsOK

LEMMA InitInvariant == Init => IInv
  <1> SUFFICES ASSUME Init PROVE IInv
    OBVIOUS
  <1>1. \A w \in Wrappers :
          Attributes(vme[w]) /\ vme[w].master = None /\ vme[w].slaves = {}
    BY DEF Init, Attributes, Fields, Flags
  <1>2. GroupsOK
    BY <1>1 DEF Init, GroupsOK, MasterKnowsSlave
  <1> DEFINE rank == [w \in Wrappers |-> 0]
  <1>3. Ranked(rank)
    BY <1>1 DEF Ranked
  <1>4. Ordered(rank, calls)
    BY DEF Init, Ordered
  <1> QED
    BY <1>2, <1>3, <1>4 DEF IInv, CallsOK

\* Steps that only go on with the calls, or leave them.
LEMMA CallsShortened ==
    ASSUME IInv, GroupsKept, enabled' \subseteq Model, updated' \in Wrappers \cup {None},
           \/ calls' = calls
           \/ calls # <<>> /\ calls' = Tail(calls)
           \/ calls' = <<>>
    PROVE  IInv'
  <1>1. PICK rank : Ranked(rank) /\ Ordered(rank, calls)
    BY DEF IInv, CallsOK
  <1>2. Ranked(rank)'
    BY <1>1, RanksPreserved DEF IInv
  <1>3. Ordered(rank, <<>>)
    BY DEF Ordered
  <1>4. Ordered(rank, calls')
    BY <1>1, <1>3, TailOrdered
  <1> QED
    BY <1>2, <1>4, GroupsPreserved DEF IInv, CallsOK

LEMMA RedrawInvariant ==
    ASSUME IInv, NEW w \in Wrappers, Redraw(w)
    PROVE  IInv'
  <1>1. GroupsKept
    BY NoneChanged DEF IInv, Redraw
  <1>2. GroupsOK'
    BY <1>1, GroupsPreserved DEF IInv, GroupsOK, Redraw, world
  <1>3. PICK rank : Ranked(rank)
    BY DEF IInv, CallsOK
  <1>4. Ranked(rank)'
    BY <1>1, <1>3, RanksPreserved DEF IInv
  <1>5. Ordered(rank, calls')
    BY DEF Redraw, Call, Ordered, Calls, Before
  <1> QED
    BY <1>2, <1>4, <1>5 DEF IInv, CallsOK

\* The call at the head of the sequence, and those behind it.
LEMMA RunningEffect ==
    ASSUME NEW rank, Ordered(rank, calls), NEW op, NEW w, Running(op, w)
    PROVE  /\ calls # <<>>
           /\ Call(op, w) \in Calls
           /\ Ordered(rank, Tail(calls))
           /\ \A i \in 1..Len(Tail(calls)) :
                Tail(calls)[i] \in Calls /\ Before(rank, Call(op, w), Tail(calls)[i])
  <1>1. calls # <<>> /\ Head(calls) = Call(op, w)
    BY DEF Running
  <1>2. Head(calls) \in Calls
    BY <1>1, HeadTailProperties DEF Ordered
  <1>3. \A i \in 1..Len(Tail(calls)) : Tail(calls)[i] \in Calls
    BY <1>1, TailOrdered DEF Ordered
  <1> QED
    BY <1>1, <1>2, <1>3, TailOrdered

LEMMA InternalPreUpdateInvariant ==
    ASSUME IInv, NEW w \in Wrappers, InternalPreUpdate(w)
    PROVE  IInv'
  <1> DEFINE s == PrepareInput(w)
             master == vme[w].master
             lead == <<Call("Lead", w)>> \o Tail(calls)
  <1>1. GroupsKept
    <2>1. SameGroup(vme[w], s)
      BY PrepareInputEffect DEF IInv, GroupsOK
    <2>2. vme' = [vme EXCEPT ![w] = s]
      BY DEF InternalPreUpdate
    <2> HIDE DEF s
    <2> QED
      BY <2>1, <2>2, OneChanged DEF IInv
  <1>2. GroupsOK'
    BY <1>1, GroupsPreserved DEF IInv, GroupsOK, InternalPreUpdate, world
  <1>3. PICK rank : Ranked(rank) /\ Ordered(rank, calls)
    BY DEF IInv, CallsOK
  <1>4. Ranked(rank)'
    BY <1>1, <1>3, RanksPreserved DEF IInv
  <1>5. /\ Ordered(rank, Tail(calls))
        /\ \A i \in 1..Len(Tail(calls)) :
             Tail(calls)[i] \in Calls /\ Before(rank, Call("InternalPreUpdate", w), Tail(calls)[i])
    BY <1>3, RunningEffect DEF InternalPreUpdate
  <1>6. Call("Lead", w) \in Calls /\ Call("InternalPreUpdate", w) \in Calls
    BY DEF Call, Calls
  <1>7. \A i \in 1..Len(Tail(calls)) : Before(rank, Call("Lead", w), Tail(calls)[i])
    BY <1>5 DEF Before, Call
  <1>8. /\ Ordered(rank, lead)
        /\ Len(lead) = Len(Tail(calls)) + 1
        /\ lead[1] = Call("Lead", w)
        /\ \A i \in 2..Len(lead) : lead[i] = Tail(calls)[i - 1]
    <2> DEFINE c == Call("Lead", w)
               tail == Tail(calls)
    <2>1. /\ lead = <<c>> \o tail
          /\ c \in Calls
          /\ Ordered(rank, tail)
          /\ \A i \in 1..Len(tail) : Before(rank, c, tail[i])
      BY <1>5, <1>6, <1>7
    <2> HIDE DEF lead, c, tail
    <2>2. Ordered(rank, lead)
      BY <2>1, ConsOrdered
    <2>3. /\ Len(lead) = Len(tail) + 1
          /\ lead[1] = c
          /\ \A i \in 2..Len(lead) : lead[i] = tail[i - 1]
      BY <2>1 DEF Ordered
    <2> QED
      BY <2>2, <2>3 DEF c, tail
  <1>9. CASE calls' = lead
    BY <1>2, <1>4, <1>8, <1>9 DEF IInv, CallsOK
  <1>10. CASE /\ master # None
              /\ calls' = <<Call("InternalPreUpdate", master)>> \o lead
    <2>1. master \in Wrappers /\ rank[w] > rank[master]
      BY <1>3, <1>10 DEF IInv, GroupsOK, Ranked
    <2>2. Call("InternalPreUpdate", master) \in Calls
      BY <2>1 DEF Call, Calls
    <2> HIDE DEF lead, master
    <2>3. ASSUME NEW i \in 1..Len(lead)
          PROVE  Before(rank, Call("InternalPreUpdate", master), lead[i])
      <3>1. CASE i = 1
        BY <1>8, <2>1, <3>1 DEF Before, Call
      <3>2. CASE i # 1
        <4> DEFINE j == i - 1
        <4>1. j \in 1..Len(Tail(calls)) /\ i = j + 1
          BY <1>5, <1>8, <3>2 DEF Ordered
        <4>2. lead[i] = Tail(calls)[j] /\ lead[i].on \in Wrappers
          BY SMTT(30), <1>5, <1>8, <4>1 DEF Calls
        <4>3. /\ lead[i].op \notin {"InternalPreUpdate", "Show"}
              /\ lead[i].op = "Lead" => rank[lead[i].on] > rank[w]
          BY <1>5, <4>1, <4>2 DEF Before, Call
        <4>4. rank[lead[i].on] \in Nat /\ rank[w] \in Nat /\ rank[master] \in Nat
          BY <1>3, <2>1, <4>2 DEF Ranked
        <4>5. lead[i].op = "Lead" => rank[lead[i].on] > rank[master]
          BY <2>1, <4>3, <4>4
        <4> QED
          BY <4>3, <4>5 DEF Before, Call
      <3> QED
        BY <3>1, <3>2
    <2>4. Ordered(rank, calls')
      BY <1>8, <1>10, <2>2, <2>3, ConsOrdered
    <2> QED
      BY <1>2, <1>4, <2>4 DEF IInv, CallsOK
  <1>11. \/ calls' = lead
         \/ master # None /\ calls' = <<Call("InternalPreUpdate", master)>> \o lead
    <2>1. s.master = master
      BY PrepareInputEffect DEF IInv, GroupsOK, SameGroup
    <2>2. Tail(calls) \in Seq(Calls) /\ <<Call("Lead", w)>> \in Seq(Calls)
      BY <1>5, <1>6 DEF Ordered
    <2>3. CASE s.master # None /\ "deformation" \in s.modified
      <3>1. calls' = <<Call("InternalPreUpdate", s.master)>> \o <<Call("Lead", w)>> \o Tail(calls)
        BY <2>3 DEF InternalPreUpdate
      <3>2. <<Call("InternalPreUpdate", s.master)>> \in Seq(Calls)
        BY <2>1, <2>3 DEF IInv, GroupsOK, Call, Calls
      <3> HIDE DEF s, master
      <3> QED
        BY <2>1, <2>2, <2>3, <3>1, <3>2, ConcatAssociative
    <2>4. CASE ~(s.master # None /\ "deformation" \in s.modified)
      <3>1. calls' = <<>> \o <<Call("Lead", w)>> \o Tail(calls)
        BY <2>4 DEF InternalPreUpdate
      <3> HIDE DEF s, master
      <3> QED
        BY <2>2, <3>1, ConcatEmptySeq
    <2> QED
      BY <2>3, <2>4
  <1> QED
    BY <1>9, <1>10, <1>11

\* No call of InternalPreUpdate and no Show is left behind Lead, so its new ranks are right.
LEMMA LeadInvariant ==
    ASSUME IInv, NEW w \in Wrappers, Lead(w)
    PROVE  IInv'
  <1>1. PICK old : Ranked(old) /\ Ordered(old, calls)
    BY DEF IInv, CallsOK
  <1>2. GroupsOK' /\ \E r : Ranked(r)'
    BY <1>1, LeadPreserves DEF IInv
  <1>3. PICK rank : Ranked(rank)'
    BY <1>2
  <1>4. /\ Ordered(old, Tail(calls))
        /\ \A i \in 1..Len(Tail(calls)) : Before(old, Call("Lead", w), Tail(calls)[i])
    BY <1>1, RunningEffect DEF Lead
  <1>5. \A i \in 1..Len(Tail(calls)) : Tail(calls)[i].op \notin {"InternalPreUpdate", "Show"}
    BY <1>4 DEF Before, Call
  <1>6. calls' = Tail(calls)
    BY DEF Lead
  <1>7. Ordered(rank, calls')
    BY <1>4, <1>5, <1>6 DEF Ordered, Before
  <1> QED
    BY <1>2, <1>3, <1>7 DEF IInv, CallsOK

LEMMA InternalUpdateInvariant ==
    ASSUME IInv, NEW w \in Wrappers, InternalUpdate(w)
    PROVE  IInv'
  <1> DEFINE master == vme[w].master
             show == Call("Show", w)
             tail == Tail(calls)
             shown == <<show>> \o tail
  <1>1. GroupsKept
    <2>1. CASE vme' = vme
      BY <2>1, NoneChanged DEF IInv
    <2>2. CASE vme' # vme
      <3> DEFINE group == vme[w].slaves \cup {w}
      <3>1. vme' = [v \in Wrappers |->
                       IF v \notin group THEN vme[v]
                       ELSE [vme[v] EXCEPT !.deformed = Deform(group, v),
                                           !.modified = @ \ {"deformation"}]]
        <4>1. vme[w].master = None /\ "deformation" \in vme[w].modified
          BY <2>2 DEF InternalUpdate
        <4> QED
          BY <4>1 DEF InternalUpdate
      <3> HIDE DEF group
      <3>2. ASSUME NEW v \in Wrappers
            PROVE  SameGroup(vme[v], [vme[v] EXCEPT !.deformed = Deform(group, v),
                                                    !.modified = @ \ {"deformation"}])
        BY DeformedEffect DEF IInv, GroupsOK
      <3>3. \A v \in Wrappers : SameGroup(vme[v], vme[v])
        BY DEF IInv, GroupsOK, SameGroup
      <3> QED
        BY <3>1, <3>2, <3>3 DEF GroupsKept
    <2> QED
      BY <2>1, <2>2
  <1>2. GroupsOK'
    BY <1>1, GroupsPreserved DEF IInv, GroupsOK, InternalUpdate, world
  <1>3. PICK rank : Ranked(rank) /\ Ordered(rank, calls)
    BY DEF IInv, CallsOK
  <1>4. Ranked(rank)'
    BY <1>1, <1>3, RanksPreserved DEF IInv
  <1>5. /\ Ordered(rank, tail)
        /\ \A i \in 1..Len(tail) : tail[i] \in Calls /\ Before(rank, Call("InternalUpdate", w), tail[i])
    BY <1>3, RunningEffect DEF InternalUpdate
  <1>6. show \in Calls /\ rank \in [Wrappers -> Nat]
    BY <1>3 DEF Call, Calls, Ranked
  <1>7. Ordered(rank, shown) /\ shown \in Seq(Calls)
    <2>1. \A i \in 1..Len(tail) : Before(rank, show, tail[i])
      BY <1>5 DEF Before, Call
    <2>2. shown = <<show>> \o tail
      OBVIOUS
    <2> HIDE DEF shown, show, tail
    <2> QED
      BY <1>5, <1>6, <2>1, <2>2, ConsOrdered DEF Ordered
  <1>8. CASE master = None
    <2>1. calls' = shown
      BY <1>8 DEF InternalUpdate
    <2> QED
      BY <1>2, <1>4, <1>7, <2>1 DEF IInv, CallsOK
  <1>9. CASE master # None
    <2> DEFINE update == Call("InternalUpdate", master)
    <2>1. master \in Wrappers /\ rank[w] > rank[master]
      BY <1>3, <1>9 DEF IInv, GroupsOK, Ranked
    <2>2. update \in Calls
      BY <2>1 DEF Call, Calls
    <2>3. calls' = <<update>> \o shown
      <3>1. calls' = <<update, show>> \o tail
        BY <1>9 DEF InternalUpdate
      <3>2. tail \in Seq(Calls)
        BY <1>5 DEF Ordered
      <3> HIDE DEF update, show, tail
      <3>3. <<update, show>> = <<update>> \o <<show>>
        BY <1>6, <2>2
      <3> QED
        BY <1>6, <2>2, <3>1, <3>2, <3>3, ConcatAssociative
    <2>4. ASSUME NEW i \in 1..Len(shown)
          PROVE  Before(rank, update, shown[i])
      <3>1. Len(shown) = Len(tail) + 1 /\ shown[1] = show
        BY <1>5, <1>6 DEF Ordered
      <3>2. CASE i = 1
        <4>1. shown[i] = show /\ show = [op |-> "Show", on |-> w]
          BY <3>1, <3>2 DEF Call
        <4>2. update = [op |-> "InternalUpdate", on |-> master]
          BY DEF Call
        <4> HIDE DEF shown, show, update, master
        <4> QED
          BY <2>1, <4>1, <4>2 DEF Before
      <3>3. CASE i # 1
        <4> DEFINE j == i - 1
        <4>1. j \in 1..Len(tail) /\ shown[i] = tail[j] /\ tail[j].on \in Wrappers
          <5>1. tail \in Seq(Calls) /\ shown = <<show>> \o tail
            BY <1>5 DEF Ordered
          <5> HIDE DEF tail, show, shown
          <5>2. j \in 1..Len(tail) /\ shown[i] = tail[j]
            BY <3>1, <3>3, <5>1
          <5>3. tail[j] \in Calls
            BY <1>5, <5>2
          <5> QED
            BY <5>2, <5>3 DEF Calls
        <4> HIDE DEF shown, j, master, tail
        <4>2. /\ tail[j].op \notin {"InternalPreUpdate", "Lead"}
              /\ tail[j].op = "Show" => rank[tail[j].on] > rank[w]
          BY <1>5, <4>1 DEF Before, Call
        <4>3. rank[tail[j].on] \in Nat /\ rank[w] \in Nat /\ rank[master] \in Nat
          BY <1>6, <2>1, <4>1
        <4>4. tail[j].op = "Show" => rank[tail[j].on] > rank[master]
          BY <2>1, <4>2, <4>3
        <4> QED
          BY <4>1, <4>2, <4>4 DEF Before, Call
      <3> QED
        BY <3>2, <3>3
    <2>5. Ordered(rank, calls')
      <3> HIDE DEF update, shown
      <3> QED
        BY <1>7, <2>2, <2>3, <2>4, ConsOrdered
    <2> QED
      BY <1>2, <1>4, <2>5 DEF IInv, CallsOK
  <1> QED
    BY <1>8, <1>9

\* The steps that change no group, after the calls above.
LEMMA ShowInvariant ==
    ASSUME IInv, NEW w \in Wrappers, Show(w)
    PROVE  IInv'
  <1> DEFINE r == IF vme[w].deformed = Empty /\ vme[w].transformed = Empty
                  THEN PrepareInput(w) ELSE vme[w]
             s == IF ~(vme[w].showFibers /\ "fibers" \in vme[w].modified) THEN vme[w]
                  ELSE GenerateFibers(r)
             t == IF "polyData" \notin s.modified THEN s
                  ELSE [s EXCEPT !.polyData = View(s), !.modified = @ \ {"polyData"}]
  <1>1. SameGroup(vme[w], vme[w])
    BY DEF IInv, GroupsOK, SameGroup
  <1>2. SameGroup(vme[w], s)
    <2>1. SameGroup(vme[w], r)
      BY <1>1, PrepareInputEffect DEF IInv, GroupsOK
    <2>2. SameGroup(vme[w], GenerateFibers(r))
      <3> HIDE DEF r
      <3> QED
        BY <2>1, FibersEffect DEF SameGroup
    <2> HIDE DEF r
    <2> QED
      BY <1>1, <2>2
  <1>3. /\ vme' = [v \in Wrappers |-> vme'[v]]
        /\ vme'[w] = t
        /\ \A v \in Wrappers \ {w} : vme'[v] \in {PrepareInput(v), vme[v]}
    BY DEF Show
  <1>4. SameGroup(vme[w], t)
    <2> HIDE DEF s
    <2> QED
      BY <1>2 DEF SameGroup, Attributes, Fields
  <1>5. ASSUME NEW v \in Wrappers
        PROVE  SameGroup(vme[v], PrepareInput(v)) /\ SameGroup(vme[v], vme[v])
    BY PrepareInputEffect DEF IInv, GroupsOK, SameGroup
  <1>6. GroupsKept
    <2> HIDE DEF t
    <2> QED
      BY <1>3, <1>4, <1>5 DEF GroupsKept
  <1> QED
    BY <1>6, CallsShortened DEF Show, Running, world, IInv, GroupsOK

LEMMA ReturnInvariant ==
    ASSUME IInv, NEW w \in Wrappers, Return(w)
    PROVE  IInv'
  BY NoneChanged, CallsShortened DEF Return, world, IInv, GroupsOK

LEMMA EditInvariant ==
    ASSUME IInv, NEW w \in Wrappers, NEW src, NEW c, Edit(w, src, c)
    PROVE  IInv'
  <1>1. GroupsKept
    <2>1. CASE w \notin UsesFastChecks
      BY <2>1, NoneChanged DEF Edit, IInv
    <2>2. CASE w \in UsesFastChecks
      <3> DEFINE s == [vme[w] EXCEPT
                         !.modified = @ \cup {IF src = "muscle" THEN src ELSE "wrapper"},
                         !.itemModified = @ \cup ({src} \ {"muscle"})]
      <3>1. vme' = [vme EXCEPT ![w] = s]
        BY <2>2 DEF Edit
      <3>2. SameGroup(vme[w], s)
        <4>1. (IF src = "muscle" THEN src ELSE "wrapper") \in Flags
          BY DEF Flags
        <4> QED
          BY <4>1, EditEffect DEF IInv, GroupsOK
      <3> HIDE DEF s
      <3> QED
        BY <3>1, <3>2, OneChanged DEF IInv
    <2> QED
      BY <2>1, <2>2
  <1> QED
    BY <1>1, CallsShortened DEF Edit, Acts, IInv, GroupsOK

LEMMA SwitchVisModeInvariant ==
    ASSUME IInv, NEW w \in Wrappers, SwitchVisMode(w)
    PROVE  IInv'
  <1> DEFINE s == [vme[w] EXCEPT !.showFibers = ~@, !.modified = @ \cup {"polyData"}]
  <1>1. vme' = [vme EXCEPT ![w] = s]
    BY DEF SwitchVisMode
  <1>2. SameGroup(vme[w], s)
    BY SwitchEffect DEF IInv, GroupsOK
  <1>3. GroupsKept
    <2> HIDE DEF s
    <2> QED
      BY <1>1, <1>2, OneChanged DEF IInv
  <1> QED
    BY <1>3, CallsShortened DEF SwitchVisMode, Acts, IInv, GroupsOK

LEMMA StepInvariant == IInv /\ [Next]_vars => IInv'
  <1> SUFFICES ASSUME IInv, [Next]_vars PROVE IInv'
    OBVIOUS
  <1>1. ASSUME NEW w \in Wrappers, Redraw(w) PROVE IInv'
    BY <1>1, RedrawInvariant
  <1>2. ASSUME NEW w \in Wrappers, Runs(w) PROVE IInv'
    BY <1>2, InternalPreUpdateInvariant, LeadInvariant, InternalUpdateInvariant,
       ShowInvariant, ReturnInvariant DEF Runs
  <1>3. ASSUME NEW w \in Wrappers, Exclude(w) PROVE IInv'
    <2>1. enabled' \subseteq Model
      BY <1>3 DEF Exclude, IInv, GroupsOK
    <2> QED
      BY <1>3, <2>1, NoneChanged, CallsShortened DEF Exclude, Acts, IInv
  <1>4. ASSUME NEW w \in Wrappers, SwitchVisMode(w) PROVE IInv'
    BY <1>4, SwitchVisModeInvariant
  <1>5. ASSUME NEW e \in Editable, NEW c, Edit(e[1], e[2], c) PROVE IInv'
    <2>1. e[1] \in Wrappers
      BY EditableAssumption
    <2> QED
      BY <1>5, <2>1, EditInvariant
  <1>6. ASSUME NEW t, MoveTimebar(t) PROVE IInv'
    BY <1>6, NoneChanged, CallsShortened DEF MoveTimebar, Acts, IInv, GroupsOK
  <1>7. ASSUME NEW p, Confirm(p) PROVE IInv'
    BY <1>7, NoneChanged, CallsShortened DEF Confirm, Acts, IInv, GroupsOK
  <1>8. CASE UNCHANGED vars
    BY <1>8, NoneChanged, CallsShortened DEF vars, world, IInv, GroupsOK
  <1> QED
    BY <1>1, <1>2, <1>3, <1>4, <1>5, <1>6, <1>7, <1>8 DEF Next

-----------------------------------------------------------------------------
(* What the attributes s of a wrapper say of its sources; sc is its part   *)
(* of the scene.                                                           *)

Seen(sc, t, src) == IF sc[src] = None THEN None ELSE <<sc[src], IF src = "CP" THEN t ELSE 0>>

Line(sc) == \A p \in Positions : sc[p] # None

\* What w takes for the contents of its sources, until it checks them again.
Recorded(w, s, sc) ==
    IF w \in UsesFastChecks THEN [src \in Sources |-> Seen(sc, s.lastTime, src)] ELSE s.known

\* The input was prepared from what is recorded, where no flag says otherwise.
InputOK(w, s, sc) ==
    LET r == Recorded(w, s, sc)
    IN  /\ s.modified \cap {"muscle", "space"} = {} =>
              s.transformed = IF r["muscle"] = None THEN Empty ELSE <<r["muscle"], r["space"][1]>>
        /\ \A p \in Positions :
              "space" \notin s.modified /\ p \notin s.itemModified /\ r[p] # None =>
                 s.curves[p] = <<r[p], r["space"][1]>>
        /\ w \in UsesFastChecks /\ s.itemModified # {} /\ "wrapper" \notin s.modified => ~Line(sc)

\* The deformed muscle was made of the prepared input, where no flag says otherwise, and
\* without the reference points known to have gone.
MuscleOK(s) ==
    s.modified \cap {"deformation", "muscle", "wrapper", "space"} = {} /\ s.transformed # Empty =>
        /\ s.deformed # Empty
        /\ s.deformed.muscle = s.transformed
        /\ s.deformed.curves = s.curves
        /\ \A p \in Positions :
              s.known[RefSys(p)] = None /\ RefSys(p) \notin s.itemModified =>
                 s.deformed.origins[p] = None

SceneOK ==
    /\ scene \in [Wrappers -> [Sources -> Contents \cup {None}]]
    /\ \A w \in Wrappers : scene[w]["space"] # None
    /\ \A w \in UsesFastChecks, p \in Positions : scene[w][RefSys(p)] # None
    /\ time \in 0..MaxTime

SourcesOK == SceneOK /\ \A w \in Wrappers : InputOK(w, vme[w], scene[w]) /\ MuscleOK(vme[w])

\* What is recorded is what is there.
Noticed(w, s, sc, t) ==
    /\ \A src \in Sources : Recorded(w, s, sc)[src] = Seen(sc, t, src)
    /\ w \in UsesFastChecks => s.lastTime = t

\* The input was prepared since the user has done something last.
Current(w, s, sc, t, c) ==
    /\ Noticed(w, s, sc, t)
    /\ s.modified \cap {"muscle", "wrapper", "space"} = {}
    /\ s.lastConfirm = c
    /\ Line(sc) => s.itemModified = {}

Prepared(w) == Current(w, vme[w], scene[w], time, confirm)

LEMMA ContentSeen ==
    ASSUME NEW w, NEW src
    PROVE  Content(w, src) = Seen(scene[w], time, src)
  BY DEF Content, Seen

\* Only where there is nothing, nothing is seen.
LEMMA SeenNothing ==
    ASSUME SceneOK, NEW w \in Wrappers, NEW src \in Sources, Seen(scene[w], time, src) = None
    PROVE  scene[w][src] = None
  <1> SUFFICES ASSUME scene[w][src] # None PROVE FALSE
    OBVIOUS
  <1>1. scene[w][src] \in Contents /\ time \in 0..MaxTime /\ 0 \in 0..MaxTime
    BY BoundAssumption DEF SceneOK
  <1>2. Seen(scene[w], time, src) \in Contents \X (0..MaxTime)
    BY <1>1 DEF Seen
  <1> QED
    BY <1>2, NoneAssumption

\* The reference points are sources of their own.
LEMMA PointSources ==
    ASSUME NEW p \in Positions
    PROVE  RefSys(p) \in Sources \ (Positions \cup {"muscle", "space"})
  BY DEF RefSys, Positions, Sources

LEMMA LineSeen ==
    ASSUME NEW w
    PROVE  ValidLine(w) <=> Line(scene[w])
  BY DEF ValidLine, Line

\* A flag that is set makes the two claims say less.
LEMMA MoreFlags ==
    ASSUME NEW w, NEW sc, NEW s, NEW t, s.modified \subseteq t.modified,
           t.itemModified = s.itemModified, t.known = s.known, t.lastTime = s.lastTime,
           t.curves = s.curves, t.transformed = s.transformed, t.deformed = s.deformed,
           InputOK(w, s, sc), MuscleOK(s)
    PROVE  InputOK(w, t, sc) /\ MuscleOK(t)
  BY DEF InputOK, MuscleOK, Recorded

\* The checks notice every change, and set a flag for what it affects.
LEMMA FastChecksNotice ==
    ASSUME NEW w \in UsesFastChecks, NEW s, Attributes(s),
           InputOK(w, s, scene[w]), MuscleOK(s), NEW t, t = FastChecks(s, w)
    PROVE  /\ InputOK(w, t, scene[w]) /\ MuscleOK(t) /\ Noticed(w, t, scene[w], time)
           /\ Line(scene[w]) /\ t.itemModified # {} => "wrapper" \in t.modified
           /\ s.modified \subseteq t.modified /\ t.lastConfirm = s.lastConfirm
           /\ Noticed(w, s, scene[w], time) => t = s
  <1>1. CASE time = s.lastTime
    <2>1. t = s
      BY <1>1 DEF FastChecks
    <2>2. Noticed(w, s, scene[w], time)
      BY <1>1 DEF Noticed, Recorded
    <2> QED
      BY <2>1, <2>2 DEF InputOK
  <1>2. CASE time # s.lastTime
    <2>1. t = [s EXCEPT !.lastTime = time, !.itemModified = @ \cup {"CP"},
                        !.modified = @ \cup IF ValidLine(w) THEN {"wrapper"} ELSE {}]
      BY <1>2 DEF FastChecks
    <2>2. /\ t.lastTime = time /\ t.itemModified = s.itemModified \cup {"CP"}
          /\ t.modified = s.modified \cup IF Line(scene[w]) THEN {"wrapper"} ELSE {}
          /\ t.curves = s.curves /\ t.transformed = s.transformed /\ t.deformed = s.deformed
          /\ t.lastConfirm = s.lastConfirm
      BY <2>1, LineSeen DEF Attributes, Fields
    <2> HIDE <2>1
    <2>3. Noticed(w, t, scene[w], time)
      BY <2>2 DEF Noticed, Recorded
    <2>4. MuscleOK(t)
      BY <2>2 DEF MuscleOK
    <2>5. \A src \in Sources \ {"CP"} :
            Recorded(w, t, scene[w])[src] = Recorded(w, s, scene[w])[src]
      BY DEF Recorded, Seen
    <2>6. {"muscle", "space", "RP"} \subseteq Sources \ {"CP"} /\ Positions = {"RP", "CP"}
      BY DEF Sources, Positions
    <2>7. InputOK(w, t, scene[w])
      BY <2>2, <2>5, <2>6 DEF InputOK
    <2> QED
      BY <1>2, <2>2, <2>3, <2>4, <2>7 DEF Noticed
  <1> QED
    BY <1>1, <1>2

LEMMA SlowChecksNotice ==
    ASSUME NEW w \in Wrappers, SceneOK, w \notin UsesFastChecks, NEW s, Attributes(s),
           InputOK(w, s, scene[w]), MuscleOK(s), NEW t, t = SlowChecks(s, w)
    PROVE  /\ InputOK(w, t, scene[w]) /\ MuscleOK(t) /\ Noticed(w, t, scene[w], time)
           /\ Line(scene[w]) /\ t.itemModified # {} => "wrapper" \in t.modified
           /\ s.modified \subseteq t.modified /\ t.lastConfirm = s.lastConfirm
           /\ /\ Noticed(w, s, scene[w], time)
              /\ Line(scene[w]) => s.itemModified = {}
              => t.modified = s.modified /\ t.itemModified = s.itemModified
  <1> DEFINE changed == {src \in Sources : Content(w, src) # s.known[src]}
             items == s.itemModified \cup (changed \cap Positions)
                   \cup {p \in {RefSys(q) : q \in Positions} \cap changed : scene[w][p] = None}
  <1>1. /\ t.known = [src \in Sources |-> Seen(scene[w], time, src)]
        /\ t.itemModified = items
        /\ t.modified = s.modified \cup (changed \cap {"space", "muscle"})
                          \cup IF Line(scene[w]) /\ items # {} THEN {"wrapper"} ELSE {}
        /\ t.curves = s.curves /\ t.transformed = s.transformed /\ t.deformed = s.deformed
        /\ t.lastConfirm = s.lastConfirm
    BY LineSeen, ContentSeen DEF SlowChecks, Attributes, Fields
  <1>2. \A src \in Sources : src \in changed <=> Seen(scene[w], time, src) # s.known[src]
    BY ContentSeen
  <1>3. Noticed(w, t, scene[w], time)
    BY <1>1 DEF Noticed, Recorded
  <1>4. changed \subseteq Sources /\ {"muscle", "space"} \subseteq Sources /\ Positions \subseteq Sources
    BY DEF Sources
  <1>5. s.itemModified \subseteq items /\ changed \cap Positions \subseteq items
    OBVIOUS
  <1>6. changed = {} => items = s.itemModified
    OBVIOUS
  <1>7. Noticed(w, s, scene[w], time) => changed = {}
    BY <1>2, <1>4 DEF Noticed, Recorded
  <1>10. \A p \in Positions :
            RefSys(p) \in changed /\ Seen(scene[w], time, RefSys(p)) = None => RefSys(p) \in items
    <2>1. ASSUME NEW p \in Positions, RefSys(p) \in changed, Seen(scene[w], time, RefSys(p)) = None
          PROVE  RefSys(p) \in items
      <3>1. scene[w][RefSys(p)] = None
        BY <2>1, SeenNothing, PointSources
      <3> QED
        BY <2>1, <3>1
    <2> QED
      BY <2>1
  <1> HIDE DEF items, changed
  <1>8. MuscleOK(t)
    <2>1. ASSUME NEW p \in Positions, t.known[RefSys(p)] = None, RefSys(p) \notin t.itemModified
          PROVE  s.known[RefSys(p)] = None /\ RefSys(p) \notin s.itemModified
      <3>1. RefSys(p) \in Sources
        BY PointSources
      <3>2. Seen(scene[w], time, RefSys(p)) = None
        BY <1>1, <2>1, <3>1
      <3> QED
        BY <1>1, <1>2, <1>5, <1>10, <2>1, <3>1, <3>2
    <2>2. t.modified \cap {"deformation", "muscle", "wrapper", "space"} = {}
            => s.modified \cap {"deformation", "muscle", "wrapper", "space"} = {}
      BY <1>1
    <2> QED
      BY <1>1, <2>1, <2>2 DEF MuscleOK
  <1>9. InputOK(w, t, scene[w])
    <2>1. \A src \in Sources : src \notin changed => t.known[src] = s.known[src]
      BY <1>1, <1>2
    <2> QED
      BY <1>1, <1>4, <1>5, <2>1 DEF InputOK, Recorded
  <1> QED
    BY <1>1, <1>3, <1>6, <1>7, <1>8, <1>9

\* The flags that follow: a change of the output space is one of the inputs, and one of the
\* inputs makes the deformation run.
LEMMA ConsequencesFollow ==
    ASSUME NEW w, NEW sc, NEW s, Attributes(s), InputOK(w, s, sc), MuscleOK(s),
           NEW t, t = Consequences(s, w)
    PROVE  /\ InputOK(w, t, sc) /\ MuscleOK(t)
           /\ s.modified \subseteq t.modified
           /\ t.itemModified = s.itemModified /\ t.known = s.known /\ t.lastTime = s.lastTime
           /\ t.lastConfirm = confirm
           /\ "space" \in t.modified => Inputs \subseteq t.modified
           /\ t.modified \cap Inputs # {} => "deformation" \in t.modified
           /\ s.modified \cap {"muscle", "wrapper", "space"} = {} /\ s.lastConfirm = confirm
              => t.modified \ {"fibers", "polyData"} = s.modified \ {"fibers", "polyData"}
  <1> DEFINE inputs == s.modified \cup IF "space" \in s.modified THEN Inputs ELSE {}
             confirmed == confirm # s.lastConfirm
             deform == inputs \cup IF inputs \cap Inputs # {} \/ confirmed THEN {"deformation"} ELSE {}
             shown == deform \cup IF "deformation" \in deform THEN {"fibers", "polyData"} ELSE {}
             seen == IF s.showFibers THEN shown ELSE shown \ {"fibers"}
             modified == shown \cup IF seen # {} THEN {"polyData"} ELSE {}
  <1>1. t = [s EXCEPT !.lastConfirm = confirm,
                      !.prevent = IF confirmed THEN prevent ELSE @,
                      !.modified = modified]
    BY DEF Consequences
  <1>2. /\ t.lastConfirm = confirm /\ t.modified = modified
        /\ t.itemModified = s.itemModified /\ t.known = s.known /\ t.lastTime = s.lastTime
        /\ t.curves = s.curves /\ t.transformed = s.transformed /\ t.deformed = s.deformed
    <2> HIDE DEF modified, confirmed
    <2> QED
      BY <1>1 DEF Attributes, Fields
  <1>3. /\ s.modified \subseteq modified
        /\ "space" \in modified => Inputs \subseteq modified
        /\ modified \cap Inputs # {} => "deformation" \in modified
        /\ s.modified \cap {"muscle", "wrapper", "space"} = {} /\ s.lastConfirm = confirm
           => modified \ {"fibers", "polyData"} = s.modified \ {"fibers", "polyData"}
    BY DEF Inputs
  <1> HIDE DEF modified
  <1>4. InputOK(w, t, sc) /\ MuscleOK(t)
    BY <1>2, <1>3, MoreFlags
  <1> QED
    BY <1>2, <1>3, <1>4

\* What PrepareInput makes of the attributes that MustUpdateCheck leaves.
LEMMA PreparationComplete ==
    ASSUME NEW w, SceneOK, w \in Wrappers, NEW s, Attributes(s),
           InputOK(w, s, scene[w]), MuscleOK(s), Noticed(w, s, scene[w], time),
           "space" \in s.modified => Inputs \subseteq s.modified,
           s.modified \cap Inputs # {}, "deformation" \in s.modified,
           Line(scene[w]) /\ s.itemModified # {} => "wrapper" \in s.modified,
           s.lastConfirm = confirm,
           NEW x, x = [PrepareInputMuscle(PrepareInputWrappers(s, w), w)
                         EXCEPT !.modified = @ \ (Inputs \cup {"space"})]
    PROVE  /\ InputOK(w, x, scene[w]) /\ MuscleOK(x)
           /\ Current(w, x, scene[w], time, confirm)
           /\ "deformation" \in x.modified
  <1> DEFINE t == PrepareInputWrappers(s, w)
             u == PrepareInputMuscle(t, w)
             sc == scene[w]
             redo == {p \in Positions : /\ p \in s.itemModified \/ "space" \in s.modified
                                        /\ sc[p] # None}
             curves == [p \in Positions |-> IF p \in redo THEN Transformed(w, p) ELSE s.curves[p]]
             reread == {RefSys(p) : p \in redo} \cap {src \in Sources : sc[src] # None}
             known == [src \in Sources |-> IF w \in UsesFastChecks /\ src \in reread
                                           THEN Content(w, src) ELSE s.known[src]]
  <1>1. /\ Attributes(t)
        /\ t.modified = s.modified /\ t.lastConfirm = s.lastConfirm /\ t.lastTime = s.lastTime
        /\ t.transformed = s.transformed /\ t.deformed = s.deformed
        /\ IF "wrapper" \notin s.modified
           THEN t.curves = s.curves /\ t.known = s.known /\ t.itemModified = s.itemModified
           ELSE t.curves = curves /\ t.known = known /\ t.itemModified = {}
    <2>1. CASE "wrapper" \notin s.modified
      BY <2>1 DEF PrepareInputWrappers
    <2>2. CASE "wrapper" \in s.modified
      <3>1. t = [s EXCEPT !.curves = curves, !.known = known, !.itemModified = {}]
        BY <2>2 DEF PrepareInputWrappers
      <3> HIDE DEF curves, known, t
      <3> QED
        BY <2>2, <3>1 DEF Attributes, Fields
    <2> QED
      BY <2>1, <2>2
  <1> HIDE DEF t
  <1>2. /\ u.modified = t.modified /\ u.lastConfirm = t.lastConfirm /\ u.lastTime = t.lastTime
        /\ u.curves = t.curves /\ u.known = t.known /\ u.itemModified = t.itemModified
        /\ u.transformed = IF t.modified \cap {"muscle", "space"} = {} THEN t.transformed
                           ELSE IF sc["muscle"] = None THEN Empty ELSE Transformed(w, "muscle")
        /\ u = [f \in Fields |-> u[f]]
    <2>1. CASE t.modified \cap {"muscle", "space"} = {}
      BY <1>1, <2>1 DEF PrepareInputMuscle, Attributes
    <2>2. CASE t.modified \cap {"muscle", "space"} # {} /\ sc["muscle"] = None
      BY <1>1, <2>2 DEF PrepareInputMuscle, Attributes, Fields
    <2>3. CASE t.modified \cap {"muscle", "space"} # {} /\ sc["muscle"] # None
      BY <1>1, <2>3 DEF PrepareInputMuscle, Attributes, Fields
    <2> QED
      BY <2>1, <2>2, <2>3
  <1> HIDE DEF u
  <1>3. /\ x.modified = s.modified \ {"muscle", "wrapper", "space"}
        /\ x.lastConfirm = confirm /\ x.lastTime = s.lastTime
        /\ x.curves = t.curves /\ x.known = t.known /\ x.itemModified = t.itemModified
        /\ x.transformed = u.transformed
    <2>1. x = [u EXCEPT !.modified = @ \ (Inputs \cup {"space"})]
      BY DEF t, u
    <2> QED
      BY <1>1, <1>2, <2>1 DEF Fields, Inputs
  <1>4. /\ \A src \in Sources : Recorded(w, x, sc)[src] = Recorded(w, s, sc)[src]
        /\ \A src \in Sources : Recorded(w, x, sc)[src] = Seen(sc, time, src)
    <2>1. \A src \in Sources : w \notin UsesFastChecks => known[src] = s.known[src]
      OBVIOUS
    <2> HIDE DEF known
    <2>2. \A src \in Sources : Recorded(w, x, sc)[src] = Recorded(w, s, sc)[src]
      BY <1>1, <1>3, <2>1 DEF Recorded
    <2> QED
      BY <2>2 DEF Noticed
  <1>5. x.itemModified \subseteq s.itemModified /\ (Line(sc) => x.itemModified = {})
    BY <1>1, <1>3
  <1>6. Current(w, x, sc, time, confirm)
    BY <1>3, <1>4, <1>5 DEF Current, Noticed
  <1>7. "deformation" \in x.modified
    BY <1>3
  <1>8. MuscleOK(x)
    BY <1>7 DEF MuscleOK
  <1>9. /\ {"muscle", "space", "RP", "CP"} \subseteq Sources /\ Positions = {"RP", "CP"}
        /\ "space" \notin Positions /\ "muscle" \notin Positions
    BY DEF Sources, Positions
  <1>10. /\ Recorded(w, x, sc)["space"][1] = sc["space"]
         /\ \A src \in Sources : sc[src] = None => Recorded(w, x, sc)[src] = None
         /\ sc["muscle"] # None => Recorded(w, x, sc)["muscle"] # None
    <2>1. sc["space"] # None /\ sc["muscle"] \in Contents \cup {None} /\ 0 \in 0..MaxTime
      BY <1>9, BoundAssumption DEF SceneOK
    <2>2. sc["muscle"] # None => <<sc["muscle"], 0>> # None
      BY <2>1, NoneAssumption
    <2>3. /\ Seen(sc, time, "space") = <<sc["space"], 0>>
          /\ sc["muscle"] # None => Seen(sc, time, "muscle") = <<sc["muscle"], 0>>
          /\ \A src \in Sources : sc[src] = None => Seen(sc, time, src) = None
      BY <2>1 DEF Seen
    <2>4. <<sc["space"], 0>>[1] = sc["space"]
      OBVIOUS
    <2> QED
      BY <1>4, <1>9, <2>2, <2>3, <2>4
  <1>11. \A p \in Positions : Transformed(w, p) = <<Recorded(w, x, sc)[p], sc["space"]>>
    BY <1>4, <1>9, ContentSeen DEF Transformed
  <1>12. Transformed(w, "muscle") = <<Recorded(w, x, sc)["muscle"], sc["space"]>>
    BY <1>4, <1>9, ContentSeen DEF Transformed
  <1>13. x.transformed = IF Recorded(w, x, sc)["muscle"] = None THEN Empty
                         ELSE <<Recorded(w, x, sc)["muscle"], Recorded(w, x, sc)["space"][1]>>
    <2>1. CASE s.modified \cap {"muscle", "space"} = {}
      BY <1>1, <1>2, <1>3, <1>4, <1>9, <2>1 DEF InputOK
    <2>2. CASE s.modified \cap {"muscle", "space"} # {}
      <3> HIDE DEF sc
      <3> QED
        BY <1>1, <1>2, <1>3, <1>9, <1>10, <1>12, <2>2
    <2> QED
      BY <2>1, <2>2
  <1>14. ASSUME NEW p \in Positions, p \notin x.itemModified, Recorded(w, x, sc)[p] # None
         PROVE  x.curves[p] = <<Recorded(w, x, sc)[p], Recorded(w, x, sc)["space"][1]>>
    <2>1. /\ p \in Sources /\ Recorded(w, x, sc)[p] = Recorded(w, s, sc)[p]
          /\ Recorded(w, x, sc)["space"] = Recorded(w, s, sc)["space"]
      BY <1>4, <1>9
    <2>2. CASE p \notin s.itemModified /\ "space" \notin s.modified
      <3>1. s.curves[p] = <<Recorded(w, s, sc)[p], Recorded(w, s, sc)["space"][1]>>
        BY <1>14, <2>1, <2>2 DEF InputOK
      <3>2. x.curves[p] = s.curves[p]
        BY <1>1, <1>3, <2>2
      <3> QED
        BY <2>1, <3>1, <3>2
    <2>3. CASE p \in s.itemModified \/ "space" \in s.modified
      <3>1. "wrapper" \in s.modified
        BY <1>1, <1>3, <1>14, <2>3 DEF Inputs
      <3>2. sc[p] # None
        BY <1>10, <1>14, <2>1
      <3>3. x.curves[p] = Transformed(w, p)
        BY <1>1, <1>3, <2>3, <3>1, <3>2
      <3> QED
        BY <1>10, <1>11, <3>3
    <2> QED
      BY <2>2, <2>3
  <1>15. InputOK(w, x, sc)
    BY <1>5, <1>13, <1>14 DEF InputOK
  <1> QED
    BY <1>6, <1>7, <1>8, <1>15

MustDeform(w) == "deformation" \in vme[w].modified

\* Preparing the input of w brings it up to date with the scene.  It asks for the
\* deformation if something has changed, and does not take back what was asked for.
Fresh(w, x) ==
    /\ InputOK(w, x, scene[w]) /\ MuscleOK(x)
    /\ Current(w, x, scene[w], time, confirm)
    /\ MustDeform(w) => "deformation" \in x.modified
    /\ Prepared(w) /\ "deformation" \in x.modified => MustDeform(w)

LEMMA PrepareInputBrings ==
    ASSUME NEW w \in Wrappers, GroupsOK, SourcesOK
    PROVE  Fresh(w, PrepareInput(w))
  <1> DEFINE v == vme[w]
             r == IF w \in UsesFastChecks THEN FastChecks(v, w) ELSE SlowChecks(v, w)
             s == MustUpdateCheck(v, w)
             sc == scene[w]
  <1>1. Attributes(v) /\ InputOK(w, v, sc) /\ MuscleOK(v) /\ SceneOK
    BY DEF GroupsOK, SourcesOK
  <1>2. /\ Attributes(r) /\ InputOK(w, r, sc) /\ MuscleOK(r) /\ Noticed(w, r, sc, time)
        /\ Line(sc) /\ r.itemModified # {} => "wrapper" \in r.modified
        /\ v.modified \subseteq r.modified /\ r.lastConfirm = v.lastConfirm
        /\ Noticed(w, v, sc, time) /\ (Line(sc) => v.itemModified = {})
           => r.modified = v.modified
    <2>1. CASE w \in UsesFastChecks
      BY <1>1, <2>1, FastChecksEffect, FastChecksNotice DEF SameGroup
    <2>2. CASE w \notin UsesFastChecks
      BY <1>1, <2>2, SlowChecksEffect, SlowChecksNotice DEF SameGroup
    <2> QED
      BY <2>1, <2>2
  <1>3. s = Consequences(r, w)
    BY DEF MustUpdateCheck
  <1> HIDE DEF r, s, v
  <1>4. Attributes(s)
    BY <1>2, <1>3, ConsequencesEffect DEF SameGroup
  <1>5. /\ InputOK(w, s, sc) /\ MuscleOK(s)
        /\ r.modified \subseteq s.modified
        /\ s.itemModified = r.itemModified /\ s.known = r.known /\ s.lastTime = r.lastTime
        /\ s.lastConfirm = confirm
        /\ "space" \in s.modified => Inputs \subseteq s.modified
        /\ s.modified \cap Inputs # {} => "deformation" \in s.modified
    BY <1>2, <1>3, ConsequencesFollow
  <1>6. Noticed(w, s, sc, time)
    BY <1>2, <1>5 DEF Noticed, Recorded
  <1>7. Line(sc) /\ s.itemModified # {} => "wrapper" \in s.modified
    BY <1>2, <1>5
  <1>8. "deformation" \in v.modified => "deformation" \in s.modified
    BY <1>2, <1>5
  <1>9. Current(w, v, sc, time, confirm) =>
           s.modified \ {"fibers", "polyData"} = v.modified \ {"fibers", "polyData"}
    <2> SUFFICES ASSUME Current(w, v, sc, time, confirm)
                 PROVE  s.modified \ {"fibers", "polyData"} = v.modified \ {"fibers", "polyData"}
      OBVIOUS
    <2>1. r.modified = v.modified /\ r.modified \cap {"muscle", "wrapper", "space"} = {}
      BY <1>2 DEF Current
    <2>2. r.lastConfirm = confirm
      BY <1>2 DEF Current
    <2>3. s.modified \ {"fibers", "polyData"} = r.modified \ {"fibers", "polyData"}
      BY <1>2, <1>3, <2>1, <2>2, ConsequencesFollow
    <2> QED
      BY <2>1, <2>3
  <1>10. CASE s.modified \cap Inputs = {}
    <2>1. PrepareInput(w) = s
      BY <1>10 DEF PrepareInput, s, v
    <2>2. s.modified \cap {"muscle", "wrapper", "space"} = {}
      BY <1>5, <1>10 DEF Inputs
    <2>3. Current(w, s, sc, time, confirm)
      BY <1>5, <1>6, <1>7, <2>2 DEF Current
    <2> QED
      BY <1>5, <1>8, <1>9, <2>1, <2>3 DEF Fresh, Prepared, MustDeform, v
  <1>11. CASE s.modified \cap Inputs # {}
    <2> DEFINE x == [PrepareInputMuscle(PrepareInputWrappers(s, w), w)
                       EXCEPT !.modified = @ \ (Inputs \cup {"space"})]
    <2>1. PrepareInput(w) = x
      BY <1>11 DEF PrepareInput, s, v
    <2>2. /\ InputOK(w, x, sc) /\ MuscleOK(x) /\ Current(w, x, sc, time, confirm)
          /\ "deformation" \in x.modified
      BY <1>1, <1>4, <1>5, <1>6, <1>7, <1>11, PreparationComplete
    <2>3. ~Current(w, v, sc, time, confirm)
      BY <1>9, <1>11 DEF Current, Inputs
    <2> HIDE DEF x
    <2> QED
      BY <2>1, <2>2, <2>3 DEF Fresh, Prepared, v
  <1> QED
    BY <1>10, <1>11

\* The new attributes x of w are as true to its sources as the old ones.
Kept(w, x) ==
    /\ InputOK(w, x, scene[w]) /\ MuscleOK(x)
    /\ Prepared(w) => Current(w, x, scene[w], time, confirm)

LEMMA SourcesKept ==
    ASSUME SourcesOK, UNCHANGED world, \A v \in Wrappers : Kept(v, vme'[v])
    PROVE  SourcesOK' /\ \A v \in Wrappers : Prepared(v) => Prepared(v)'
  <1>1. scene' = scene /\ time' = time /\ confirm' = confirm
    BY DEF world
  <1>2. SceneOK'
    BY <1>1 DEF SourcesOK, SceneOK
  <1> QED
    BY <1>1, <1>2 DEF SourcesOK, Kept, Prepared

LEMMA FreshKept ==
    ASSUME NEW w, NEW x, Fresh(w, x)
    PROVE  Kept(w, x)
  BY DEF Fresh, Kept

LEMMA SameKept ==
    ASSUME NEW w \in Wrappers, SourcesOK
    PROVE  Kept(w, vme[w])
  BY DEF SourcesOK, Kept, Prepared

\* Attributes that differ in what is deformed and shown, and in the flags for it.
SameInput(s, x) ==
    /\ x.itemModified = s.itemModified /\ x.known = s.known /\ x.lastTime = s.lastTime
    /\ x.lastConfirm = s.lastConfirm /\ x.curves = s.curves /\ x.transformed = s.transformed
    /\ x.modified \cap {"muscle", "wrapper", "space"} = s.modified \cap {"muscle", "wrapper", "space"}

LEMMA SameInputKept ==
    ASSUME NEW w, NEW sc, NEW t, NEW c, NEW s, NEW x, SameInput(s, x)
    PROVE  /\ InputOK(w, s, sc) => InputOK(w, x, sc)
           /\ Current(w, s, sc, t, c) => Current(w, x, sc, t, c)
  <1>1. /\ "muscle" \in x.modified <=> "muscle" \in s.modified
        /\ "wrapper" \in x.modified <=> "wrapper" \in s.modified
        /\ "space" \in x.modified <=> "space" \in s.modified
    BY DEF SameInput
  <1>2. Recorded(w, x, sc) = Recorded(w, s, sc)
    BY DEF SameInput, Recorded
  <1>3. InputOK(w, s, sc) => InputOK(w, x, sc)
    BY <1>1, <1>2 DEF SameInput, InputOK
  <1>4. Current(w, s, sc, t, c) => Current(w, x, sc, t, c)
    BY <1>1, <1>2 DEF SameInput, Current, Noticed
  <1> QED
    BY <1>3, <1>4

LEMMA DeformKeeps ==
    ASSUME NEW w \in Wrappers, GroupsOK, SourcesOK, NEW group, NEW x,
           x = [vme[w] EXCEPT !.deformed = Deform(group, w), !.modified = @ \ {"deformation"}]
    PROVE  Kept(w, x) /\ "deformation" \notin x.modified
  <1> DEFINE s == vme[w]
             d == Deform(group, w)
  <1>1. Attributes(s)
    BY DEF GroupsOK
  <1>2. s.transformed # Empty =>
            /\ d # Empty /\ d.muscle = s.transformed /\ d.curves = s.curves
            /\ \A p \in Positions : d.origins[p] = s.known[RefSys(p)]
    <2>1. SUFFICES ASSUME s.transformed # Empty
                   PROVE  /\ d # Empty /\ d.muscle = s.transformed /\ d.curves = s.curves
                          /\ \A p \in Positions : d.origins[p] = s.known[RefSys(p)]
      OBVIOUS
    <2>2. d = [muscle |-> s.transformed, curves |-> s.curves,
               origins |-> [p \in Positions |-> s.known[RefSys(p)]],
               together |-> {vme[u].transformed : u \in group}]
      BY <2>1 DEF Deform
    <2>3. DOMAIN d = {"muscle", "curves", "origins", "together"}
      BY <2>2
    <2>4. DOMAIN Empty = {}
      BY DEF Empty
    <2> QED
      BY <2>2, <2>3, <2>4
  <1>3. /\ x.deformed = d /\ x.modified = s.modified \ {"deformation"}
        /\ SameInput(s, x)
    <2>1. x = [s EXCEPT !.deformed = d, !.modified = @ \ {"deformation"}]
      OBVIOUS
    <2> HIDE DEF s, d
    <2> QED
      BY <1>1, <2>1 DEF Attributes, Fields, SameInput
  <1> HIDE DEF d
  <1>4. MuscleOK(x)
    BY <1>2, <1>3 DEF MuscleOK, SameInput
  <1> QED
    BY <1>3, <1>4, SameInputKept DEF SourcesOK, Kept, Prepared

LEMMA FibersKeep ==
    ASSUME NEW s, Attributes(s), MuscleOK(s)
    PROVE  /\ SameInput(s, GenerateFibers(s)) /\ MuscleOK(GenerateFibers(s))
           /\ GenerateFibers(s).modified = s.modified \ {"fibers"}
           /\ GenerateFibers(s).showFibers = s.showFibers
  <1> DEFINE x == GenerateFibers(s)
  <1>1. /\ x.modified = s.modified \ {"fibers"} /\ SameInput(s, x)
        /\ x.showFibers = s.showFibers
        /\ ~(s.deformed = Empty /\ s.transformed # Empty) => x.deformed = s.deformed
    BY DEF GenerateFibers, Attributes, Fields, SameInput
  <1>2. MuscleOK(x)
    <2> HIDE DEF x
    <2> QED
      BY <1>1 DEF MuscleOK, SameInput
  <1> QED
    BY <1>1, <1>2

-----------------------------------------------------------------------------
(* What the steps of a redraw do to the claims, and to what must deform.   *)

LEMMA PreUpdateEffect ==
    ASSUME NEW w \in Wrappers, GroupsOK, SourcesOK, InternalPreUpdate(w)
    PROVE  /\ SourcesOK' /\ Prepared(w)'
           /\ \A v \in Wrappers : /\ Prepared(v) => Prepared(v)'
                                  /\ MustDeform(v) => MustDeform(v)'
                                  /\ Prepared(v) /\ MustDeform(v)' => MustDeform(v)
                                  /\ vme'[v].master = vme[v].master
  <1> DEFINE x == PrepareInput(w)
  <1>1. Fresh(w, x) /\ x.master = vme[w].master
    BY PrepareInputBrings, PrepareInputEffect DEF GroupsOK, SameGroup
  <1>2. \A v \in Wrappers : vme'[v] = IF v = w THEN x ELSE vme[v]
    BY DEF InternalPreUpdate, GroupsOK
  <1> HIDE DEF x
  <1>3. \A v \in Wrappers : Kept(v, vme'[v])
    BY <1>1, <1>2, FreshKept, SameKept
  <1>4. UNCHANGED world
    BY DEF InternalPreUpdate
  <1>5. Prepared(w)'
    BY <1>1, <1>2, <1>4 DEF Fresh, Prepared, world
  <1>6. ASSUME NEW v \in Wrappers
        PROVE  /\ MustDeform(v) => MustDeform(v)'
               /\ Prepared(v) /\ MustDeform(v)' => MustDeform(v)
               /\ vme'[v].master = vme[v].master
    BY <1>1, <1>2 DEF Fresh, MustDeform
  <1> QED
    BY <1>3, <1>4, <1>5, <1>6, SourcesKept

LEMMA LeadDeforms ==
    ASSUME NEW w \in Wrappers, GroupsOK, SourcesOK, Lead(w), vme[w].master = None
    PROVE  /\ SourcesOK'
           /\ \A v \in Wrappers :
                /\ Prepared(v) => Prepared(v)'
                /\ MustDeform(v) => MustDeform(v)'
                /\ v \in Slaves(w) /\ MustDeform(v)' => MustDeform(w)'
                /\ v \notin Slaves(w) \cup {w} /\ MustDeform(v)' => MustDeform(v)
  <1> DEFINE group == Slaves(w)
             prepared == [v \in group |-> PrepareInput(v)]
             asked == \E v \in group : "deformation" \in prepared[v].modified
             run == asked \/ "deformation" \in vme[w].modified
             told == [v \in Wrappers |-> IF v \in group THEN [prepared[v] EXCEPT !.master = w]
                                         ELSE RevokeMastership(w)[v]]
             forced == (IF run THEN group ELSE {}) \cup (IF asked THEN {w} ELSE {})
             next(v) == [told[v] EXCEPT !.slaves = IF v = w THEN group ELSE @,
                                        !.modified = @ \cup IF v \in forced THEN RunAll ELSE {}]
             base(v) == IF v \in group THEN prepared[v] ELSE vme[v]
  <1>1. vme' = [v \in Wrappers |-> next(v)]
    BY DEF Lead
  <1>2. ASSUME NEW v \in Wrappers
        PROVE  /\ Attributes(told[v])
               /\ SameInput(base(v), told[v]) /\ told[v].deformed = base(v).deformed
               /\ told[v].modified = base(v).modified
    <2>1. CASE v \in group
      <3>1. Attributes(prepared[v])
        BY <2>1, PrepareInputEffect DEF GroupsOK, SameGroup
      <3>2. told[v] = [prepared[v] EXCEPT !.master = w] /\ base(v) = prepared[v]
        BY <2>1
      <3> HIDE DEF told, prepared, group, base
      <3> QED
        BY <3>1, <3>2 DEF Attributes, Fields, SameInput
    <2>2. CASE v \notin group
      <3>1. /\ told[v] = IF v \in vme[w].slaves THEN [vme[v] EXCEPT !.master = None] ELSE vme[v]
            /\ base(v) = vme[v]
        BY <2>2 DEF RevokeMastership
      <3>2. Attributes(vme[v])
        BY DEF GroupsOK
      <3> HIDE DEF told, group, base
      <3> QED
        BY <3>1, <3>2 DEF Attributes, Fields, SameInput
    <2> QED
      BY <2>1, <2>2
  <1>3. ASSUME NEW v \in Wrappers
        PROVE  /\ vme'[v].modified = base(v).modified \cup IF v \in forced THEN RunAll ELSE {}
               /\ SameInput(base(v), vme'[v]) /\ vme'[v].deformed = base(v).deformed
    <2> DEFINE t == told[v]
               more == IF v \in forced THEN RunAll ELSE {}
               slaves == IF v = w THEN group ELSE told[v].slaves
    <2>1. vme'[v] = [t EXCEPT !.slaves = slaves, !.modified = @ \cup more]
      BY <1>1
    <2>2. more \cap {"muscle", "wrapper", "space"} = {}
      BY DEF RunAll
    <2>3. Attributes(t) /\ SameInput(base(v), t) /\ t.deformed = base(v).deformed
          /\ t.modified = base(v).modified
      BY <1>2
    <2> HIDE DEF t, more, slaves, base
    <2>4. /\ vme'[v].modified = t.modified \cup more
          /\ vme'[v].itemModified = t.itemModified /\ vme'[v].known = t.known
          /\ vme'[v].lastTime = t.lastTime /\ vme'[v].lastConfirm = t.lastConfirm
          /\ vme'[v].curves = t.curves /\ vme'[v].transformed = t.transformed
          /\ vme'[v].deformed = t.deformed
      BY <2>1, <2>3 DEF Attributes, Fields
    <2>5. SameInput(base(v), vme'[v])
      BY <2>2, <2>3, <2>4 DEF SameInput
    <2> QED
      BY <2>3, <2>4, <2>5 DEF more
  <1>4. Slaves(w) \subseteq Wrappers \ {w}
    BY ModelAssumption DEF Slaves, GroupsOK
  <1>5. ASSUME NEW v \in Wrappers
        PROVE  /\ Kept(v, base(v))
               /\ MustDeform(v) => "deformation" \in base(v).modified
               /\ v \notin group => base(v) = vme[v]
               /\ v \in group => base(v) = prepared[v]
    <2>1. CASE v \in group
      <3>1. base(v) = PrepareInput(v)
        BY <2>1
      <3>2. Fresh(v, PrepareInput(v))
        BY PrepareInputBrings
      <3> QED
        BY <2>1, <3>1, <3>2, FreshKept DEF Fresh
    <2>2. CASE v \notin group
      BY <2>2, SameKept DEF MustDeform
    <2> QED
      BY <2>1, <2>2
  <1>6. /\ \A v \in group : "deformation" \in prepared[v].modified => asked
        /\ \A v \in Wrappers : v \in forced => v \in group \cup {w} /\ run
        /\ run /\ w \notin forced => "deformation" \in vme[w].modified
        /\ asked => w \in forced
        /\ asked => run
    OBVIOUS
  <1> HIDE DEF base, forced, group, asked, run, prepared
  <1>7. "deformation" \in RunAll
    BY DEF RunAll
  <1>8. ASSUME NEW v \in Wrappers
        PROVE  Kept(v, vme'[v]) /\ (MustDeform(v) => MustDeform(v)')
    <2>1. MuscleOK(base(v)) => MuscleOK(vme'[v])
      BY <1>3 DEF MuscleOK, SameInput
    <2>2. Kept(v, vme'[v])
      BY <1>3, <1>5, <2>1, SameInputKept DEF Kept
    <2> QED
      BY <1>3, <1>5, <2>2 DEF MustDeform
  <1>9. run => MustDeform(w)'
    <2>1. w \notin group
      BY <1>4 DEF group
    <2> QED
      BY <1>3, <1>5, <1>6, <1>7, <2>1 DEF MustDeform
  <1>10. ASSUME NEW v \in Wrappers, MustDeform(v)'
         PROVE  /\ v \in group => MustDeform(w)'
                /\ v \notin group \cup {w} => MustDeform(v)
    BY <1>3, <1>5, <1>6, <1>9, <1>10 DEF MustDeform
  <1>11. UNCHANGED world
    BY DEF Lead
  <1> QED
    BY <1>8, <1>10, <1>11, SourcesKept DEF group

LEMMA UpdateEffect ==
    ASSUME NEW w \in Wrappers, GroupsOK, SourcesOK, InternalUpdate(w)
    PROVE  /\ SourcesOK'
           /\ \A v \in Wrappers : /\ Prepared(v) => Prepared(v)'
                                  /\ MustDeform(v)' => MustDeform(v)
                                  /\ vme'[v].master = vme[v].master
           /\ vme[w].master = None => ~MustDeform(w)'
           /\ vme[w].master = None /\ MustDeform(w) => \A v \in vme[w].slaves : ~MustDeform(v)'
  <1>1. UNCHANGED world
    BY DEF InternalUpdate
  <1>2. CASE vme[w].master # None \/ ~MustDeform(w)
    <2>1. vme' = vme
      BY <1>2 DEF InternalUpdate, MustDeform
    <2> QED
      BY <1>1, <1>2, <2>1, SameKept, SourcesKept DEF MustDeform
  <1>3. CASE vme[w].master = None /\ MustDeform(w)
    <2> DEFINE group == vme[w].slaves \cup {w}
               next(v) == [vme[v] EXCEPT !.deformed = Deform(group, v),
                                         !.modified = @ \ {"deformation"}]
    <2>1. vme' = [v \in Wrappers |-> IF v \notin group THEN vme[v] ELSE next(v)]
      BY <1>3 DEF InternalUpdate, MustDeform
    <2>2. group \subseteq Wrappers
      BY DEF GroupsOK
    <2>3. ASSUME NEW v \in Wrappers
          PROVE  /\ Kept(v, next(v)) /\ "deformation" \notin next(v).modified
                 /\ next(v).master = vme[v].master
      <3>1. SameGroup(vme[v], next(v))
        BY DeformedEffect DEF GroupsOK
      <3> QED
        BY <3>1, DeformKeeps DEF SameGroup
    <2> HIDE DEF next, group
    <2>4. ASSUME NEW v \in Wrappers
          PROVE  /\ Kept(v, vme'[v]) /\ vme'[v].master = vme[v].master
                 /\ MustDeform(v)' => MustDeform(v)
                 /\ v \in group => ~MustDeform(v)'
      BY <2>1, <2>3, SameKept DEF MustDeform
    <2>5. w \in group /\ vme[w].slaves \subseteq group
      BY DEF group
    <2> QED
      BY <1>1, <2>2, <2>4, <2>5, SourcesKept
  <1> QED
    BY <1>2, <1>3

LEMMA ShowEffect ==
    ASSUME NEW w \in Wrappers, GroupsOK, SourcesOK, Show(w)
    PROVE  /\ SourcesOK'
           /\ \A v \in Wrappers : /\ Prepared(v) => Prepared(v)'
                                  /\ Prepared(v) /\ MustDeform(v)' => MustDeform(v)
                                  /\ vme'[v].master = vme[v].master
           /\ Prepared(w) => vme'[w].modified \subseteq {"fibers", "deformation"}
  <1> DEFINE q == IF vme[w].deformed = Empty /\ vme[w].transformed = Empty
                  THEN PrepareInput(w) ELSE vme[w]
             s == IF ~(vme[w].showFibers /\ "fibers" \in vme[w].modified) THEN vme[w]
                  ELSE GenerateFibers(q)
             t == IF "polyData" \notin s.modified THEN s
                  ELSE [s EXCEPT !.polyData = View(s), !.modified = @ \ {"polyData"}]
  <1>1. Attributes(vme[w])
    BY DEF GroupsOK
  <1>2. \A v \in Wrappers : /\ Kept(v, vme[v]) /\ SameGroup(vme[v], vme[v])
                            /\ Fresh(v, PrepareInput(v)) /\ SameGroup(vme[v], PrepareInput(v))
    BY SameKept, PrepareInputBrings, PrepareInputEffect DEF GroupsOK, SameGroup
  <1>3. /\ Kept(w, q) /\ SameGroup(vme[w], q)
        /\ Prepared(w) /\ "deformation" \in q.modified => MustDeform(w)
    BY <1>2, FreshKept DEF Fresh, MustDeform
  <1> HIDE DEF q
  <1>4. /\ Kept(w, s) /\ SameGroup(vme[w], s)
        /\ Prepared(w) /\ "deformation" \in s.modified => MustDeform(w)
    <2>1. CASE ~(vme[w].showFibers /\ "fibers" \in vme[w].modified)
      BY <1>2, <2>1 DEF MustDeform
    <2>2. CASE vme[w].showFibers /\ "fibers" \in vme[w].modified
      <3>1. s = GenerateFibers(q)
        BY <2>2
      <3>2. Attributes(q) /\ MuscleOK(q)
        BY <1>3 DEF SameGroup, Kept
      <3>3. /\ SameInput(q, s) /\ MuscleOK(s) /\ s.modified = q.modified \ {"fibers"}
            /\ SameGroup(q, s)
        BY <3>1, <3>2, FibersKeep, FibersEffect
      <3> HIDE DEF s
      <3> QED
        BY <1>3, <3>3, SameInputKept DEF Kept, SameGroup
    <2> QED
      BY <2>1, <2>2
  <1> HIDE DEF s
  <1>5. /\ t.modified = s.modified \ {"polyData"} /\ t.master = s.master
        /\ SameInput(s, t) /\ t.deformed = s.deformed
    <2>1. Attributes(s)
      BY <1>4 DEF SameGroup
    <2>2. CASE "polyData" \notin s.modified
      BY <2>2 DEF SameInput
    <2>3. CASE "polyData" \in s.modified
      <3>1. t = [s EXCEPT !.polyData = View(s), !.modified = @ \ {"polyData"}]
        BY <2>3
      <3> HIDE DEF t
      <3> QED
        BY <2>1, <3>1 DEF Attributes, Fields, SameInput
    <2> QED
      BY <2>2, <2>3
  <1>6. \A v \in Wrappers : vme'[v] = IF v = w THEN t ELSE IF vme'[v] = PrepareInput(v) THEN PrepareInput(v) ELSE vme[v]
    BY DEF Show, s, q
  <1> HIDE DEF t
  <1>7. /\ Kept(w, t) /\ t.master = vme[w].master
        /\ Prepared(w) /\ "deformation" \in t.modified => MustDeform(w)
        /\ Prepared(w) => t.modified \subseteq {"fibers", "deformation"}
    <2>1. MuscleOK(t)
      BY <1>4, <1>5 DEF Kept, MuscleOK, SameInput
    <2>2. Kept(w, t)
      BY <1>4, <1>5, <2>1, SameInputKept DEF Kept
    <2>3. s.modified \subseteq Flags
      BY <1>4 DEF SameGroup, Attributes
    <2>4. Prepared(w) => t.modified \cap {"muscle", "wrapper", "space"} = {}
      BY <2>2 DEF Kept, Current
    <2>5. Prepared(w) => t.modified \subseteq {"fibers", "deformation"}
      BY <1>5, <2>3, <2>4 DEF Flags
    <2> QED
      BY <1>4, <1>5, <2>2, <2>5 DEF SameGroup
  <1>8. ASSUME NEW v \in Wrappers
        PROVE  /\ Kept(v, vme'[v]) /\ vme'[v].master = vme[v].master
               /\ Prepared(v) /\ MustDeform(v)' => MustDeform(v)
    BY <1>2, <1>6, <1>7, FreshKept DEF Fresh, MustDeform, SameGroup
  <1>9. vme'[w] = t
    BY <1>6
  <1>10. UNCHANGED world
    BY DEF Show
  <1> QED
    BY <1>7, <1>8, <1>9, <1>10, SourcesKept

-----------------------------------------------------------------------------
(* The redraw of a wrapper r, from InternalPreUpdate to Return.            *)

\* If r must deform and has a master, that is m or one that will deform, too.
Asked(r, m) ==
    MustDeform(r) /\ vme[r].master # None => vme[r].master = m \/ MustDeform(vme[r].master)

\* If r must deform and has a master, that one will deform, unless it is a slave itself.
Covered(r) == MustDeform(r) => ~Direct(r) \/ vme[r].master = None \/ MustDeform(vme[r].master)

Handled(r) == Direct(r) => ~MustDeform(r)

Finished(r) == Handled(r) /\ vme[r].modified \subseteq {"fibers", "deformation"}

PreCalls == [op : {"InternalPreUpdate", "Lead"}, on : Wrappers]
UpdateCalls == [op : {"InternalUpdate", "Show"}, on : Wrappers]

Updating(r) == <<Call("InternalUpdate", r), Call("Return", r)>>
Leading(r) == <<Call("Lead", r), Call("InternalUpdate", r), Call("Return", r)>>
Showing(r) == <<Call("Show", r), Call("Return", r)>>

Begun(r) == calls = <<Call("InternalPreUpdate", r)>> \o Updating(r)

\* The calls up the masters that come before Lead(r), the last of them on the master asked.
Asking(r) ==
    \E up \in Seq(PreCalls) :
        /\ calls = up \o Leading(r)
        /\ IF up = <<>> THEN Covered(r) ELSE Asked(r, up[Len(up)].on)

Led(r) == calls = Updating(r) /\ Covered(r)

Delegated(r) ==
    /\ vme[r].master # None
    /\ calls = <<Call("InternalUpdate", vme[r].master)>> \o Showing(r)
    /\ Covered(r)

\* The calls up the masters that come before Show(r).
Deforming(r) == \E up \in Seq(UpdateCalls) : calls = up \o Showing(r) /\ Handled(r)

Returning(r) == calls = <<Call("Return", r)>> /\ Finished(r)

Flight ==
    \/ calls = <<>> /\ (updated # None => Prepared(updated) /\ Finished(updated))
    \/ /\ updated = None
       /\ \E r \in Wrappers :
            \/ Begun(r)
            \/ Prepared(r) /\ (Asking(r) \/ Led(r) \/ Delegated(r) \/ Deforming(r) \/ Returning(r))

MInv == IInv /\ SourcesOK /\ Flight

LEMMA Pop ==
    ASSUME NEW S, NEW up \in Seq(S), up # <<>>, NEW T, NEW low \in Seq(T)
    PROVE  /\ up \o low # <<>>
           /\ Head(up \o low) = Head(up) /\ Tail(up \o low) = Tail(up) \o low
           /\ Head(up) \in S /\ Tail(up) \in Seq(S)
           /\ Tail(up) = <<>> => up[Len(up)] = Head(up)
           /\ Tail(up) # <<>> => Tail(up)[Len(Tail(up))] = up[Len(up)]
  <1>1. /\ Len(up) \in Nat \ {0} /\ Len(low) \in Nat /\ Head(up) = up[1] /\ Head(up) \in S
        /\ Tail(up) \in Seq(S) /\ Len(Tail(up)) = Len(up) - 1
        /\ \A i \in 1..Len(Tail(up)) : Tail(up)[i] = up[i + 1]
    BY EmptySeq, HeadTailProperties
  <1>2. up \in Seq(S \cup T) /\ low \in Seq(S \cup T)
    OBVIOUS
  <1>3. up \o low \in Seq(S \cup T) /\ Len(up \o low) = Len(up) + Len(low)
    BY <1>2, ConcatProperties
  <1>4. up \o low # <<>> /\ Head(up \o low) = Head(up)
    BY <1>1, <1>2, <1>3
  <1>5. Tail(up \o low) = Tail(up) \o low
    <2> DEFINE a == Tail(up \o low)
               b == Tail(up) \o low
    <2>1. /\ a \in Seq(S \cup T) /\ Len(a) = Len(up) + Len(low) - 1
          /\ \A i \in 1..Len(a) : a[i] = (up \o low)[i + 1]
      BY <1>1, <1>3, <1>4, HeadTailProperties
    <2>2. b \in Seq(S \cup T) /\ Len(b) = Len(up) + Len(low) - 1
      BY <1>1, <1>2, ConcatProperties
    <2>3. \A i \in 1..Len(a) : a[i] = b[i]
      BY <1>1, <1>2, <1>3, <2>1
    <2> HIDE DEF a, b
    <2> QED
      BY <2>1, <2>2, <2>3, SeqEqual
  <1>6. Tail(up) = <<>> => Len(up) = 1
    <2>1. Tail(up) = <<>> => Len(Tail(up)) = 0
      BY EmptySeq
    <2> QED
      BY <1>1, <2>1
  <1>7. Tail(up) # <<>> => Len(Tail(up)) \in 1..Len(Tail(up))
    BY <1>1, EmptySeq
  <1> QED
    BY <1>1, <1>4, <1>5, <1>6, <1>7

LEMMA Push ==
    ASSUME NEW S, NEW up \in Seq(S), NEW c \in S
    PROVE  /\ <<c>> \o up \in Seq(S) /\ <<c>> \o up # <<>>
           /\ (<<c>> \o up)[Len(<<c>> \o up)] = IF up = <<>> THEN c ELSE up[Len(up)]
  <1>1. <<c>> \in Seq(S) /\ Len(<<c>>) = 1
    OBVIOUS
  <1>2. /\ <<c>> \o up \in Seq(S) /\ Len(<<c>> \o up) = Len(up) + 1 /\ Len(up) \in Nat
        /\ \A i \in 1..Len(up) + 1 : (<<c>> \o up)[i] = IF i = 1 THEN c ELSE up[i - 1]
    BY <1>1
  <1>3. up # <<>> => Len(up) # 0
    BY EmptySeq
  <1> HIDE <1>1
  <1>4. <<c>> \o up # <<>>
    BY <1>2
  <1> QED
    BY <1>2, <1>3, <1>4

\* The calls are of different operations on whatever wrappers.
LEMMA CallTypes ==
    ASSUME NEW r \in Wrappers
    PROVE  /\ Updating(r) \in Seq(Calls) /\ Leading(r) \in Seq(Calls) /\ Showing(r) \in Seq(Calls)
           /\ Call("InternalPreUpdate", r) \in PreCalls /\ Call("Lead", r) \in PreCalls
           /\ Call("InternalUpdate", r) \in UpdateCalls /\ Call("Show", r) \in UpdateCalls
           /\ Call("InternalPreUpdate", r) \in Calls /\ Call("InternalUpdate", r) \in Calls
           /\ Head(Updating(r)) = Call("InternalUpdate", r)
           /\ Tail(Updating(r)) = <<Call("Return", r)>>
           /\ Head(Leading(r)) = Call("Lead", r) /\ Tail(Leading(r)) = Updating(r)
           /\ Head(Showing(r)) = Call("Show", r) /\ Tail(Showing(r)) = <<Call("Return", r)>>
           /\ Updating(r) # <<>> /\ Leading(r) # <<>> /\ Showing(r) # <<>>
           /\ <<Call("Lead", r)>> \o Updating(r) = Leading(r)
           /\ <<Call("Show", r)>> \o <<Call("Return", r)>> = Showing(r)
           /\ <<>> \o Leading(r) = Leading(r) /\ <<>> \o Showing(r) = Showing(r)
  <1> DEFINE a == Call("InternalPreUpdate", r)
             b == Call("Lead", r)
             c == Call("InternalUpdate", r)
             d == Call("Show", r)
             e == Call("Return", r)
  <1>1. /\ a \in Calls /\ b \in Calls /\ c \in Calls /\ d \in Calls /\ e \in Calls
        /\ a \in PreCalls /\ b \in PreCalls /\ c \in UpdateCalls /\ d \in UpdateCalls
    BY DEF Call, Calls, PreCalls, UpdateCalls
  <1>2. Updating(r) = <<c, e>> /\ Leading(r) = <<b, c, e>> /\ Showing(r) = <<d, e>>
    BY DEF Updating, Leading, Showing
  <1> HIDE DEF a, b, c, d, e
  <1>3. /\ <<b>> \o <<c, e>> = <<b, c, e>> /\ <<d>> \o <<e>> = <<d, e>>
        /\ <<>> \o <<b, c, e>> = <<b, c, e>> /\ <<>> \o <<d, e>> = <<d, e>>
    <2>1. <<b, c, e>> = <<b>> \o <<c, e>>
      BY <1>1
    <2>2. <<d, e>> = <<d>> \o <<e>>
      <3> DEFINE s == <<d>> \o <<e>>
      <3>1. <<d>> \in Seq(Calls) /\ <<e>> \in Seq(Calls) /\ Len(<<d>>) = 1 /\ Len(<<e>>) = 1
        BY <1>1
      <3>2. s \in Seq(Calls) /\ Len(s) = 2 /\ s[1] = d /\ s[2] = e
        BY <1>1, <3>1, ConcatProperties
      <3>3. <<d, e>> \in Seq(Calls) /\ Len(<<d, e>>) = 2 /\ <<d, e>>[1] = d /\ <<d, e>>[2] = e
        BY <1>1
      <3> HIDE DEF s
      <3>4. \A i \in 1..2 : s[i] = <<d, e>>[i]
        BY <3>2, <3>3
      <3>5. s = <<d, e>>
        BY <3>2, <3>3, <3>4, SeqEqual
      <3> QED
        BY <3>5 DEF s
    <2>3. <<b, c, e>> \in Seq(Calls) /\ <<d, e>> \in Seq(Calls)
      BY <1>1
    <2> QED
      BY <2>1, <2>2, <2>3, ConcatEmptySeq
  <1>4. /\ Tail(<<c, e>>) = <<e>> /\ Tail(<<b, c, e>>) = <<c, e>> /\ Tail(<<d, e>>) = <<e>>
        /\ Head(<<c, e>>) = c /\ Head(<<b, c, e>>) = b /\ Head(<<d, e>>) = d
        /\ <<c, e>> # <<>> /\ <<b, c, e>> # <<>> /\ <<d, e>> # <<>>
        /\ <<c, e>> \in Seq(Calls) /\ <<b, c, e>> \in Seq(Calls) /\ <<d, e>> \in Seq(Calls)
    BY <1>1
  <1> QED
    BY <1>1, <1>2, <1>3, <1>4 DEF a, b, c, d, e

\* Sequences of calls: the first of them, and how they are joined.
LEMMA First ==
    ASSUME NEW S, NEW a \in S, NEW low \in Seq(S)
    PROVE  /\ <<a>> \in Seq(S) /\ <<a>> # <<>> /\ <<a>>[Len(<<a>>)] = a
           /\ Head(<<a>> \o low) = a /\ Tail(<<a>> \o low) = low
  <1>1. <<a>> \in Seq(S) /\ <<a>> # <<>> /\ Head(<<a>>) = a /\ Tail(<<a>>) = <<>>
    OBVIOUS
  <1>2. <<a>>[Len(<<a>>)] = a
    OBVIOUS
  <1>3. Tail(<<a>> \o low) = <<>> \o low /\ Head(<<a>> \o low) = a
    BY <1>1, Pop
  <1> QED
    BY <1>1, <1>2, <1>3, ConcatEmptySeq

LEMMA Joined ==
    ASSUME NEW S, NEW a \in Seq(S), NEW b \in Seq(S), NEW c \in Seq(S), NEW d \in Seq(S)
    PROVE  /\ a \o b \o c = a \o (b \o c)
           /\ a \o b \o (c \o d) = (a \o (b \o c)) \o d
  <1>1. a \o b \in Seq(S) /\ c \o d \in Seq(S)
    BY ConcatProperties
  <1>2. (a \o b) \o (c \o d) = ((a \o b) \o c) \o d
    BY SMTT(30), <1>1, ConcatAssociative
  <1>3. (a \o b) \o c = a \o (b \o c)
    BY SMTT(30), ConcatAssociative
  <1> QED
    BY <1>2, <1>3

LEMMA CallSequences ==
    Seq(PreCalls) \subseteq Seq(Calls) /\ Seq(UpdateCalls) \subseteq Seq(Calls)
  <1>1. PreCalls \subseteq Calls /\ UpdateCalls \subseteq Calls
    BY DEF PreCalls, UpdateCalls, Calls
  <1> QED
    BY <1>1

\* The wrapper that the last of the calls up the masters is on, if w has the first of them.
LastOn(w, rest) == IF rest = <<>> THEN w ELSE rest[Len(rest)].on

\* Where the redraw of r is when the call op on w is next, and what comes after that.
AtBeginning(op, w, r) == op = "InternalPreUpdate" /\ w = r /\ Tail(calls) = Updating(r)

AtAsking(op, w, r) ==
    /\ op \in {"InternalPreUpdate", "Lead"}
    /\ \E rest \in Seq(PreCalls) : Tail(calls) = rest \o Leading(r) /\ Asked(r, LastOn(w, rest))

AtLead(op, w, r) == op = "Lead" /\ w = r /\ Tail(calls) = Updating(r) /\ Covered(r)

AtUpdate(op, w, r) ==
    op = "InternalUpdate" /\ w = r /\ Tail(calls) = <<Call("Return", r)>> /\ Covered(r)

AtMaster(op, w, r) ==
    /\ op = "InternalUpdate" /\ vme[r].master # None /\ w = vme[r].master
    /\ Tail(calls) = Showing(r) /\ Covered(r)

AtDeforming(op, w, r) ==
    /\ op \in {"InternalUpdate", "Show"}
    /\ \E rest \in Seq(UpdateCalls) : Tail(calls) = rest \o Showing(r) /\ Handled(r)

AtShow(op, w, r) == op = "Show" /\ w = r /\ Tail(calls) = <<Call("Return", r)>> /\ Handled(r)

AtReturn(op, w, r) == op = "Return" /\ w = r /\ Finished(r)

LEMMA Stages ==
    ASSUME Flight, GroupsOK, NEW op, NEW w, Running(op, w)
    PROVE  /\ updated = None
           /\ \E r \in Wrappers :
                \/ AtBeginning(op, w, r)
                \/ /\ Prepared(r)
                   /\ \/ AtAsking(op, w, r) \/ AtLead(op, w, r) \/ AtUpdate(op, w, r)
                      \/ AtMaster(op, w, r) \/ AtDeforming(op, w, r) \/ AtShow(op, w, r)
                      \/ AtReturn(op, w, r)
  <1>1. calls # <<>> /\ Head(calls) = Call(op, w)
    BY DEF Running
  <1>2. ASSUME NEW o, NEW v, Call(op, w) = Call(o, v)
        PROVE  op = o /\ w = v
    BY <1>2 DEF Call
  <1>3. updated = None
    BY <1>1 DEF Flight
  <1>4. PICK r \in Wrappers :
             \/ Begun(r)
             \/ Prepared(r) /\ (Asking(r) \/ Led(r) \/ Delegated(r) \/ Deforming(r) \/ Returning(r))
    BY <1>1 DEF Flight
  <1>5. CASE Begun(r)
    <2>1. /\ Head(calls) = Call("InternalPreUpdate", r)
          /\ Tail(calls) = Updating(r)
      <3> DEFINE a == Call("InternalPreUpdate", r)
                 low == Updating(r)
      <3>1. a \in Calls /\ low \in Seq(Calls)
        BY CallTypes
      <3>2. calls = <<a>> \o low
        BY <1>5 DEF Begun
      <3>3. Head(calls) = a /\ Tail(calls) = low
        <4> HIDE DEF a, low
        <4> QED
          BY <3>1, <3>2, First
      <3> QED
        BY <3>3
    <2> QED
      BY <1>1, <1>2, <1>3, <2>1 DEF AtBeginning
  <1>6. CASE Prepared(r) /\ Asking(r)
    <2>1. PICK up \in Seq(PreCalls) :
                 /\ calls = up \o Leading(r)
                 /\ IF up = <<>> THEN Covered(r) ELSE Asked(r, up[Len(up)].on)
      BY <1>6 DEF Asking
    <2>2. CASE up = <<>>
      <3>1. Head(calls) = Call("Lead", r) /\ Tail(calls) = Updating(r)
        BY <2>1, <2>2, CallTypes
      <3> QED
        BY <1>1, <1>2, <1>3, <1>6, <2>1, <2>2, <3>1 DEF AtLead
    <2>3. CASE up # <<>>
      <3> DEFINE rest == Tail(up)
      <3>1. /\ Head(calls) = Head(up) /\ Tail(calls) = rest \o Leading(r)
            /\ Head(up) \in PreCalls /\ rest \in Seq(PreCalls)
            /\ rest = <<>> => up[Len(up)] = Head(up)
            /\ rest # <<>> => rest[Len(rest)] = up[Len(up)]
        <4>1. Leading(r) \in Seq(Calls)
          BY CallTypes
        <4> QED
          BY <2>1, <2>3, <4>1, Pop, SMTT(30)
      <3> HIDE DEF rest
      <3>2. Head(up) = Call(op, w) /\ op \in {"InternalPreUpdate", "Lead"} /\ Head(up).on = w
        BY <1>1, <3>1 DEF PreCalls, Call
      <3>3. LastOn(w, rest) = up[Len(up)].on
        <4>1. CASE rest = <<>>
          BY <3>1, <3>2, <4>1 DEF LastOn
        <4>2. CASE rest # <<>>
          BY <3>1, <4>2 DEF LastOn
        <4> QED
          BY <4>1, <4>2
      <3>4. AtAsking(op, w, r)
        BY <2>1, <2>3, <3>1, <3>2, <3>3 DEF AtAsking
      <3> QED
        BY <1>3, <1>6, <3>4
    <2> QED
      BY <2>2, <2>3
  <1>7. CASE Prepared(r) /\ Led(r)
    <2>1. Head(calls) = Call("InternalUpdate", r) /\ Tail(calls) = <<Call("Return", r)>>
      BY <1>7, CallTypes DEF Led
    <2> QED
      BY <1>1, <1>2, <1>3, <1>7, <2>1 DEF AtUpdate, Led
  <1>8. CASE Prepared(r) /\ Delegated(r)
    <2> DEFINE m == vme[r].master
               a == Call("InternalUpdate", m)
               low == Showing(r)
    <2>1. m \in Wrappers
      BY <1>8 DEF GroupsOK, Delegated
    <2>2. a \in Calls /\ low \in Seq(Calls)
      BY <2>1, CallTypes
    <2>3. calls = <<a>> \o low
      BY <1>8 DEF Delegated
    <2>4. Head(calls) = a /\ Tail(calls) = low
      <3> HIDE DEF a, low
      <3> QED
        BY <2>2, <2>3, First
    <2>5. op = "InternalUpdate" /\ w = m
      BY <1>1, <1>2, <2>4
    <2> QED
      BY <1>3, <1>8, <2>4, <2>5 DEF AtMaster, Delegated
  <1>9. CASE Prepared(r) /\ Deforming(r)
    <2>1. PICK up \in Seq(UpdateCalls) : calls = up \o Showing(r) /\ Handled(r)
      BY <1>9 DEF Deforming
    <2>2. CASE up = <<>>
      <3>1. Head(calls) = Call("Show", r) /\ Tail(calls) = <<Call("Return", r)>>
        BY <2>1, <2>2, CallTypes
      <3> QED
        BY <1>1, <1>2, <1>3, <1>9, <2>1, <3>1 DEF AtShow
    <2>3. CASE up # <<>>
      <3> DEFINE rest == Tail(up)
      <3>1. /\ Head(calls) = Head(up) /\ Tail(calls) = rest \o Showing(r)
            /\ Head(up) \in UpdateCalls /\ rest \in Seq(UpdateCalls)
        <4>1. Showing(r) \in Seq(Calls)
          BY CallTypes
        <4> QED
          BY <2>1, <2>3, <4>1, Pop
      <3> HIDE DEF rest
      <3>2. op \in {"InternalUpdate", "Show"}
        BY <1>1, <3>1 DEF UpdateCalls, Call
      <3>3. AtDeforming(op, w, r)
        BY <2>1, <3>1, <3>2 DEF AtDeforming
      <3> QED
        BY <1>3, <1>9, <3>3
    <2> QED
      BY <2>2, <2>3
  <1>10. CASE Prepared(r) /\ Returning(r)
    <2>1. Head(calls) = Call("Return", r)
      BY <1>10 DEF Returning
    <2> QED
      BY <1>1, <1>2, <1>3, <1>10, <2>1 DEF AtReturn, Returning
  <1> QED
    BY <1>4, <1>5, <1>6, <1>7, <1>8, <1>9, <1>10

\* A redraw under way, at one of its stages; the calls of the new state are s.
LEMMA UnderWay ==
    ASSUME NEW r \in Wrappers, updated' = None, Prepared(r)',
           Asking(r)' \/ Led(r)' \/ Delegated(r)' \/ Deforming(r)' \/ Returning(r)'
    PROVE  Flight'
  BY DEF Flight

LEMMA StillAsking ==
    ASSUME NEW r \in Wrappers, updated' = None, Prepared(r)',
           NEW up \in Seq(PreCalls), calls' = up \o Leading(r),
           IF up = <<>> THEN Covered(r)' ELSE Asked(r, up[Len(up)].on)'
    PROVE  Flight'
  <1>1. Asking(r)'
    BY DEF Asking
  <1> QED
    BY <1>1, UnderWay

LEMMA PreUpdateFlight ==
    ASSUME MInv, NEW w \in Wrappers, InternalPreUpdate(w)
    PROVE  SourcesOK' /\ Flight'
  <1> DEFINE op == "InternalPreUpdate"
             s == PrepareInput(w)
             ask == s.master # None /\ "deformation" \in s.modified
             first == Call("InternalPreUpdate", s.master)
             lead == Call("Lead", w)
  <1>1. /\ SourcesOK' /\ Prepared(w)'
        /\ \A v \in Wrappers : /\ Prepared(v) => Prepared(v)'
                               /\ MustDeform(v) => MustDeform(v)'
                               /\ Prepared(v) /\ MustDeform(v)' => MustDeform(v)
                               /\ vme'[v].master = vme[v].master
    BY PreUpdateEffect DEF MInv, IInv
  <1>2. PICK pre : /\ pre = IF ask THEN <<first>> ELSE <<>>
                   /\ calls' = pre \o <<lead>> \o Tail(calls)
    BY DEF InternalPreUpdate
  <1>3. /\ vme'[w] = s
        /\ \A v \in Wrappers : vme[v].master \in Wrappers \cup {None}
    BY DEF InternalPreUpdate, MInv, IInv, GroupsOK
  <1>4. /\ pre \in Seq(PreCalls) /\ lead \in PreCalls
        /\ pre # <<>> => pre[Len(pre)].on = vme'[w].master
    <2>1. ask => first \in PreCalls
      BY <1>1, <1>3, CallTypes
    <2>2. first.on = s.master
      BY DEF Call
    <2>3. lead \in PreCalls
      BY CallTypes
    <2> HIDE DEF first, s, lead
    <2>4. CASE ask
      <3>1. first \in PreCalls /\ pre = <<first>>
        BY <1>2, <2>1, <2>4
      <3>2. <<>> \in Seq(PreCalls)
        OBVIOUS
      <3> QED
        BY <1>3, <2>2, <2>3, <3>1, <3>2, First
    <2>5. CASE ~ask
      <3>1. pre = <<>>
        BY <1>2, <2>5
      <3> QED
        BY <2>3, <3>1
    <2> QED
      BY <2>4, <2>5
  <1>5. updated' = updated /\ Running(op, w)
    BY DEF InternalPreUpdate
  <1>6. PICK r \in Wrappers :
             \/ AtBeginning(op, w, r)
             \/ Prepared(r) /\ AtAsking(op, w, r)
    BY <1>5, Stages DEF MInv, IInv, AtLead, AtUpdate, AtMaster, AtDeforming, AtShow, AtReturn
  <1>7. updated' = None
    BY <1>5, Stages DEF MInv, IInv
  <1>8. CASE AtBeginning(op, w, r)
    <2>1. w = r /\ Tail(calls) = Updating(r)
      BY <1>8 DEF AtBeginning
    <2>2. calls' = pre \o Leading(r)
      <3>1. pre \in Seq(Calls) /\ Updating(r) \in Seq(Calls) /\ lead \in Calls
        BY <1>4, CallTypes, CallSequences DEF PreCalls, Calls
      <3>2. <<lead>> \o Updating(r) = Leading(r)
        BY <2>1, CallTypes
      <3> HIDE DEF lead
      <3>3. pre \o <<lead>> \o Updating(r) = pre \o (<<lead>> \o Updating(r))
        BY <3>1, First, Joined
      <3> QED
        BY <1>2, <2>1, <3>2, <3>3
    <2>3. pre = <<>> => Covered(r)'
      <3>1. CASE ask
        <4>1. pre = <<first>>
          BY <1>2, <3>1
        <4> HIDE DEF first
        <4> QED
          BY <4>1
      <3>2. CASE ~ask
        BY <1>3, <2>1, <3>2 DEF Covered, MustDeform
      <3> QED
        BY <3>1, <3>2
    <2>4. pre # <<>> => Asked(r, pre[Len(pre)].on)'
      BY <1>4, <2>1 DEF Asked
    <2> QED
      BY <1>1, <1>4, <1>7, <2>1, <2>2, <2>3, <2>4, StillAsking
  <1>9. CASE Prepared(r) /\ AtAsking(op, w, r)
    <2>1. PICK rest \in Seq(PreCalls) :
                 Tail(calls) = rest \o Leading(r) /\ Asked(r, LastOn(w, rest))
      BY <1>9 DEF AtAsking
    <2>2. PICK last : last = <<lead>> \o rest
      OBVIOUS
    <2>3. /\ last \in Seq(PreCalls) /\ last # <<>>
          /\ last[Len(last)].on = LastOn(w, rest)
      <3>1. lead.on = w
        BY DEF Call
      <3> HIDE DEF lead
      <3>2. /\ last \in Seq(PreCalls) /\ last # <<>>
            /\ last[Len(last)] = IF rest = <<>> THEN lead ELSE rest[Len(rest)]
        BY <1>4, <2>2, Push
      <3> QED
        BY <3>1, <3>2 DEF LastOn
    <2>4. PICK up : up = pre \o last
      OBVIOUS
    <2>5. up \in Seq(PreCalls) /\ up # <<>> /\ up[Len(up)].on = LastOn(w, rest)
      <3>1. CASE ask
        <4>1. pre = <<first>> /\ first \in PreCalls
          BY <1>1, <1>2, <1>3, <3>1, CallTypes
        <4> HIDE DEF first, s
        <4>2. /\ <<first>> \o last \in Seq(PreCalls) /\ <<first>> \o last # <<>>
              /\ (<<first>> \o last)[Len(<<first>> \o last)] = last[Len(last)]
          BY <2>3, <4>1, Push
        <4> QED
          BY <2>3, <2>4, <4>1, <4>2
      <3>2. CASE ~ask
        <4>1. pre = <<>>
          BY <1>2, <3>2
        <4>2. up = last
          BY <2>3, <2>4, <4>1, ConcatEmptySeq
        <4> QED
          BY <2>3, <4>2
      <3> QED
        BY <3>1, <3>2
    <2>6. calls' = up \o Leading(r)
      <3>1. /\ pre \in Seq(Calls) /\ lead \in Calls /\ rest \in Seq(Calls)
            /\ Leading(r) \in Seq(Calls)
        BY <1>4, CallTypes, CallSequences DEF PreCalls, Calls
      <3> DEFINE low == Leading(r)
      <3> HIDE DEF lead, low
      <3>2. calls' = pre \o <<lead>> \o (rest \o low)
        BY <1>2, <2>1 DEF low
      <3>3. pre \o <<lead>> \o (rest \o low) = (pre \o (<<lead>> \o rest)) \o low
        BY SMTT(30), <3>1, First, Joined DEF low
      <3> QED
        BY <2>2, <2>4, <3>2, <3>3 DEF low
    <2>7. Asked(r, up[Len(up)].on)'
      <3>1. PICK m : m = up[Len(up)].on
        OBVIOUS
      <3>2. Asked(r, m)
        BY <2>1, <2>5, <3>1
      <3>3. Asked(r, m)'
        BY <1>1, <1>3, <1>9, <3>2 DEF Asked
      <3> QED
        BY <3>1, <3>3
    <2> QED
      BY <1>1, <1>7, <1>9, <2>5, <2>6, <2>7, StillAsking
  <1> QED
    BY <1>1, <1>6, <1>8, <1>9

\* Leading asks what must be asked: a wrapper whose last master to be asked was w is covered.
LEMMA LeadKeeps ==
    ASSUME MInv, NEW w \in Wrappers, Lead(w)
    PROVE  /\ SourcesOK'
           /\ Covered(w) => Covered(w)'
           /\ \A r \in Wrappers : /\ Prepared(r) => Prepared(r)'
                                  /\ Asked(r, w) => Covered(r)'
                                  /\ \A m : Asked(r, m) => Asked(r, m)'
  <1>1. /\ GroupsOK /\ SourcesOK
        /\ \A v \in Wrappers : vme[v].master \in Wrappers \cup {None}
    BY DEF MInv, IInv, GroupsOK
  <1>2. CASE vme[w].master # None
    <2>1. vme' = vme /\ UNCHANGED world
      BY <1>2 DEF Lead
    <2>2. SourcesOK' /\ \A r \in Wrappers : Prepared(r) => Prepared(r)'
      BY <1>1, <2>1, SameKept, SourcesKept
    <2>3. \A r \in Wrappers : \A m : Asked(r, m) => Asked(r, m)'
      BY <2>1 DEF Asked, MustDeform
    <2>4. \A r \in Wrappers : Asked(r, w) => Covered(r)'
      BY <1>2, <2>1 DEF Asked, Covered, Direct, MustDeform
    <2>5. Covered(w) => Covered(w)'
      BY <2>1 DEF Covered, Direct, MustDeform
    <2> QED
      BY <2>2, <2>3, <2>4, <2>5
  <1>3. CASE vme[w].master = None
    <2>1. /\ SourcesOK'
          /\ \A v \in Wrappers :
               /\ Prepared(v) => Prepared(v)'
               /\ MustDeform(v) => MustDeform(v)'
               /\ v \in Slaves(w) /\ MustDeform(v)' => MustDeform(w)'
               /\ v \notin Slaves(w) \cup {w} /\ MustDeform(v)' => MustDeform(v)
      BY <1>1, <1>3, LeadDeforms
    <2>2. \A v \in Wrappers :
            vme'[v].master = IF v \in Slaves(w) THEN w
                             ELSE IF v \in vme[w].slaves THEN None
                             ELSE vme[v].master
      BY <1>1, <1>3, LeadEffect
    <2>3. w \notin Slaves(w) /\ w \notin vme[w].slaves
      BY <1>1 DEF Slaves, GroupsOK
    <2>4. vme'[w].master = None
      BY <1>3, <2>2, <2>3
    <2>5. \A v \in Wrappers : vme[v].master = w => v \in vme[w].slaves
      BY <1>1, NoneAssumption DEF GroupsOK, MasterKnowsSlave
    <2>6. ASSUME NEW r \in Wrappers, NEW n, n = vme'[r].master, n # None, MustDeform(r)'
          PROVE  \/ MustDeform(n)'
                 \/ MustDeform(r) /\ n = vme[r].master /\ n # w
      <3>1. CASE r \in Slaves(w)
        <4>1. n = w
          BY <2>2, <2>6, <3>1
        <4>2. MustDeform(w)'
          BY <2>1, <2>6, <3>1
        <4> QED
          BY <4>1, <4>2
      <3>2. CASE r \notin Slaves(w)
        <4>1. n = vme[r].master /\ r # w /\ n # w
          BY <2>2, <2>4, <2>5, <2>6, <3>2
        <4> QED
          BY <2>1, <2>6, <3>2, <4>1
      <3> QED
        BY <3>1, <3>2
    <2>7. ASSUME NEW r \in Wrappers, NEW m, NEW n, n = vme'[r].master, n # None,
                 Asked(r, m), MustDeform(r)'
          PROVE  MustDeform(n)' \/ (n = m /\ m # w)
      <3>1. CASE MustDeform(r) /\ n = vme[r].master /\ n # w
        <4>1. n \in Wrappers
          BY <1>1, <2>7, <3>1
        <4>2. n = m \/ MustDeform(n)
          BY <2>7, <3>1 DEF Asked
        <4>3. MustDeform(n) => MustDeform(n)'
          BY <2>1, <4>1 DEF MustDeform
        <4> QED
          BY <3>1, <4>2, <4>3
      <3>2. MustDeform(n)' \/ (MustDeform(r) /\ n = vme[r].master /\ n # w)
        BY <2>6, <2>7
      <3> QED
        BY <3>1, <3>2
    <2>8. ASSUME NEW r \in Wrappers, NEW m, Asked(r, m)
          PROVE  Asked(r, m)' /\ (m = w => Covered(r)')
      <3>1. PICK n : n = vme'[r].master
        OBVIOUS
      <3>2. n # None /\ MustDeform(r)' => MustDeform(n)' \/ (n = m /\ m # w)
        BY <2>7, <2>8, <3>1
      <3>3. Asked(r, m)'
        BY <3>1, <3>2 DEF Asked, MustDeform
      <3>4. m = w => Covered(r)'
        BY <3>1, <3>2 DEF Covered, MustDeform
      <3> QED
        BY <3>3, <3>4
    <2>10. Covered(w)'
      BY <2>4 DEF Covered
    <2> QED
      BY <2>1, <2>8, <2>10
  <1> QED
    BY <1>2, <1>3

LEMMA LeadFlight ==
    ASSUME MInv, NEW w \in Wrappers, Lead(w)
    PROVE  SourcesOK' /\ Flight'
  <1> DEFINE op == "Lead"
  <1>1. /\ SourcesOK'
        /\ Covered(w) => Covered(w)'
        /\ \A r \in Wrappers : /\ Prepared(r) => Prepared(r)'
                               /\ Asked(r, w) => Covered(r)'
                               /\ \A m : Asked(r, m) => Asked(r, m)'
    BY LeadKeeps
  <1>2. updated' = updated /\ Running(op, w) /\ calls' = Tail(calls)
    BY DEF Lead
  <1>3. PICK r \in Wrappers : Prepared(r) /\ (AtAsking(op, w, r) \/ AtLead(op, w, r))
    BY <1>2, Stages DEF MInv, IInv, AtBeginning, AtUpdate, AtMaster, AtDeforming, AtShow, AtReturn
  <1>4. updated' = None
    BY <1>2, Stages DEF MInv, IInv
  <1>5. CASE AtAsking(op, w, r)
    <2>1. PICK rest \in Seq(PreCalls) :
                 Tail(calls) = rest \o Leading(r) /\ Asked(r, LastOn(w, rest))
      BY <1>5 DEF AtAsking
    <2>2. rest = <<>> => Covered(r)'
      BY <1>1, <2>1 DEF LastOn
    <2>3. rest # <<>> => Asked(r, rest[Len(rest)].on)'
      <3>1. PICK m : m = LastOn(w, rest)
        OBVIOUS
      <3>2. Asked(r, m)'
        BY <1>1, <2>1, <3>1
      <3> QED
        BY <3>1, <3>2 DEF LastOn
    <2> QED
      BY <1>1, <1>2, <1>3, <1>4, <2>1, <2>2, <2>3, StillAsking
  <1>6. CASE AtLead(op, w, r)
    <2>1. Led(r)'
      BY <1>1, <1>2, <1>6 DEF AtLead, Led
    <2> QED
      BY <1>1, <1>3, <1>4, <2>1, UnderWay
  <1> QED
    BY <1>3, <1>5, <1>6

LEMMA StillDeforming ==
    ASSUME NEW r \in Wrappers, updated' = None, Prepared(r)', Handled(r)',
           NEW up \in Seq(UpdateCalls), calls' = up \o Showing(r)
    PROVE  Flight'
  <1>1. Deforming(r)'
    BY DEF Deforming
  <1> QED
    BY <1>1, UnderWay

LEMMA UpdateFlight ==
    ASSUME MInv, NEW w \in Wrappers, InternalUpdate(w)
    PROVE  SourcesOK' /\ Flight'
  <1> DEFINE op == "InternalUpdate"
             m == vme[w].master
             first == Call("InternalUpdate", m)
             show == Call("Show", w)
  <1>1. /\ SourcesOK'
        /\ \A v \in Wrappers : /\ Prepared(v) => Prepared(v)'
                               /\ MustDeform(v)' => MustDeform(v)
                               /\ vme'[v].master = vme[v].master
        /\ vme[w].master = None => ~MustDeform(w)'
        /\ vme[w].master = None /\ MustDeform(w) => \A v \in vme[w].slaves : ~MustDeform(v)'
    BY UpdateEffect DEF MInv, IInv
  <1>2. /\ updated' = updated /\ Running(op, w)
        /\ m # None => vme' = vme
    BY DEF InternalUpdate
  <1>3. PICK pre : /\ pre = IF m # None THEN <<first, show>> ELSE <<show>>
                   /\ calls' = pre \o Tail(calls)
    BY DEF InternalUpdate
  <1>4. m \in Wrappers \cup {None} /\ MasterKnowsSlave
    BY DEF MInv, IInv, GroupsOK
  <1>5. pre \in Seq(UpdateCalls)
    <2>1. show \in UpdateCalls /\ (m # None => first \in UpdateCalls)
      BY <1>4, CallTypes
    <2> HIDE DEF show, first
    <2> QED
      BY <1>3, <2>1
  <1>6. PICK r \in Wrappers :
             /\ Prepared(r)
             /\ AtUpdate(op, w, r) \/ AtMaster(op, w, r) \/ AtDeforming(op, w, r)
    BY <1>2, Stages DEF MInv, IInv, AtBeginning, AtAsking, AtLead, AtShow, AtReturn
  <1>7. updated' = None /\ Prepared(r)'
    BY <1>1, <1>2, <1>6, Stages DEF MInv, IInv
  <1>8. CASE AtUpdate(op, w, r)
    <2>1. w = r /\ Tail(calls) = <<Call("Return", r)>> /\ Covered(r)
      BY <1>8 DEF AtUpdate
    <2>2. CASE m = None
      <3>1. calls' = <<>> \o Showing(r)
        BY <1>3, <2>1, <2>2, CallTypes
      <3>2. Handled(r)'
        BY <1>1, <2>1, <2>2 DEF Handled
      <3>3. <<>> \in Seq(UpdateCalls)
        OBVIOUS
      <3> QED
        BY <1>1, <1>7, <3>1, <3>2, <3>3, StillDeforming
    <2>3. CASE m # None
      <3>1. m \in Wrappers /\ vme'[r].master = m
        BY <1>1, <1>4, <2>1, <2>3
      <3>2. calls' = <<first>> \o Showing(r)
        <4>1. first \in Calls /\ show \in Calls /\ Call("Return", r) \in Calls
          BY <3>1 DEF Call, Calls
        <4>2. pre = <<first, show>> /\ Showing(r) = <<show, Call("Return", r)>>
          BY <1>3, <2>1, <2>3 DEF Showing
        <4> DEFINE e == Call("Return", r)
        <4>3. calls' = <<first, show>> \o <<e>>
          BY <1>3, <2>1, <4>2
        <4> HIDE DEF first, show, e
        <4>4. e \in Calls /\ Showing(r) = <<show, e>>
          BY <4>1, <4>2 DEF e
        <4>5. <<first, show, e>> = <<first, show>> \o <<e>>
          BY <4>1, <4>4
        <4>6. <<first, show, e>> = <<first>> \o <<show, e>>
          BY <4>1, <4>4
        <4> QED
          BY <4>3, <4>4, <4>5, <4>6
      <3>3. Covered(r)'
        BY <1>2, <2>1, <2>3 DEF Covered, Direct, MustDeform
      <3>4. Delegated(r)'
        BY <2>3, <3>1, <3>2, <3>3 DEF Delegated
      <3> QED
        BY <1>1, <1>7, <3>4, UnderWay
    <2> QED
      BY <2>2, <2>3
  <1>9. CASE AtMaster(op, w, r)
    <2>1. /\ vme[r].master # None /\ w = vme[r].master
          /\ Tail(calls) = Showing(r) /\ Covered(r)
      BY <1>9 DEF AtMaster
    <2>2. CASE m = None
      <3>1. r \in vme[w].slaves
        BY <1>4, <2>1 DEF MasterKnowsSlave
      <3>2. MustDeform(r) => MustDeform(w)
        BY <2>1, <2>2 DEF Covered, Direct
      <3>3. ~MustDeform(r)'
        BY <1>1, <2>2, <3>1, <3>2
      <3>4. Handled(r)'
        BY <3>3 DEF Handled
      <3> QED
        BY <1>1, <1>3, <1>5, <1>7, <2>1, <3>4, StillDeforming
    <2>3. CASE m # None
      <3>1. Handled(r)'
        BY <1>2, <2>1, <2>3 DEF Handled, Direct
      <3> QED
        BY <1>1, <1>3, <1>5, <1>7, <2>1, <3>1, StillDeforming
    <2> QED
      BY <2>2, <2>3
  <1>10. CASE AtDeforming(op, w, r)
    <2>1. PICK rest \in Seq(UpdateCalls) : Tail(calls) = rest \o Showing(r) /\ Handled(r)
      BY <1>10 DEF AtDeforming
    <2>2. Handled(r)'
      <3>1. vme[r].master \in Wrappers \cup {None}
        BY DEF MInv, IInv, GroupsOK
      <3> QED
        BY <1>1, <2>1, <3>1 DEF Handled, Direct
    <2>3. PICK up : up = pre \o rest
      OBVIOUS
    <2>4. up \in Seq(UpdateCalls)
      BY <1>5, <2>3, ConcatProperties
    <2>5. calls' = up \o Showing(r)
      <3>1. pre \in Seq(Calls) /\ rest \in Seq(Calls) /\ Showing(r) \in Seq(Calls)
        BY <1>5, CallTypes, CallSequences
      <3>2. pre \o rest \o Showing(r) = pre \o (rest \o Showing(r))
        BY <3>1, ConcatAssociative
      <3> QED
        BY <1>3, <2>1, <2>3, <3>2
    <2> QED
      BY <1>1, <1>7, <2>2, <2>4, <2>5, StillDeforming
  <1> QED
    BY <1>6, <1>8, <1>9, <1>10

LEMMA ShowFlight ==
    ASSUME MInv, NEW w \in Wrappers, Show(w)
    PROVE  SourcesOK' /\ Flight'
  <1> DEFINE op == "Show"
  <1>1. /\ SourcesOK'
        /\ \A v \in Wrappers : /\ Prepared(v) => Prepared(v)'
                               /\ Prepared(v) /\ MustDeform(v)' => MustDeform(v)
                               /\ vme'[v].master = vme[v].master
        /\ Prepared(w) => vme'[w].modified \subseteq {"fibers", "deformation"}
    BY ShowEffect DEF MInv, IInv
  <1>2. updated' = updated /\ Running(op, w) /\ calls' = Tail(calls)
    BY DEF Show
  <1>3. PICK r \in Wrappers : Prepared(r) /\ (AtDeforming(op, w, r) \/ AtShow(op, w, r))
    BY <1>2, Stages DEF MInv, IInv, AtBeginning, AtAsking, AtLead, AtUpdate, AtMaster, AtReturn
  <1>4. updated' = None /\ Prepared(r)'
    BY <1>1, <1>2, <1>3, Stages DEF MInv, IInv
  <1>5. Handled(r) => Handled(r)'
    <2>1. vme[r].master \in Wrappers \cup {None}
      BY DEF MInv, IInv, GroupsOK
    <2> QED
      BY <1>1, <1>3, <2>1 DEF Handled, Direct
  <1>6. CASE AtDeforming(op, w, r)
    <2>1. PICK rest \in Seq(UpdateCalls) : Tail(calls) = rest \o Showing(r) /\ Handled(r)
      BY <1>6 DEF AtDeforming
    <2> QED
      BY <1>1, <1>2, <1>4, <1>5, <2>1, StillDeforming
  <1>7. CASE AtShow(op, w, r)
    <2>1. w = r /\ Tail(calls) = <<Call("Return", r)>> /\ Handled(r)
      BY <1>7 DEF AtShow
    <2>2. Returning(r)'
      BY <1>1, <1>2, <1>3, <1>5, <2>1 DEF Returning, Finished
    <2> QED
      BY <1>1, <1>4, <2>2, UnderWay
  <1> QED
    BY <1>3, <1>6, <1>7

LEMMA ReturnFlight ==
    ASSUME MInv, NEW w \in Wrappers, Return(w)
    PROVE  SourcesOK' /\ Flight'
  <1>1. /\ updated' = w /\ Running("Return", w) /\ calls' = <<>>
        /\ vme' = vme /\ UNCHANGED world
    BY DEF Return
  <1>2. SourcesOK' /\ \A v \in Wrappers : Prepared(v) => Prepared(v)'
    BY <1>1, SameKept, SourcesKept DEF MInv
  <1>3. Prepared(w) /\ Finished(w)
    BY <1>1, Stages
       DEF MInv, IInv, AtBeginning, AtAsking, AtLead, AtUpdate, AtMaster, AtDeforming, AtShow, AtReturn
  <1>4. Finished(w)'
    BY <1>1, <1>3 DEF Finished, Handled, Direct, MustDeform
  <1>5. Prepared(w)'
    BY <1>2, <1>3
  <1> QED
    BY <1>1, <1>2, <1>4, <1>5 DEF Flight

LEMMA RedrawFlight ==
    ASSUME MInv, NEW w \in Wrappers, Redraw(w)
    PROVE  SourcesOK' /\ Flight'
  <1>1. /\ updated' = None /\ vme' = vme /\ UNCHANGED world
        /\ calls' = <<Call("InternalPreUpdate", w), Call("InternalUpdate", w), Call("Return", w)>>
    BY DEF Redraw
  <1>2. SourcesOK'
    BY <1>1, SameKept, SourcesKept DEF MInv
  <1>3. Begun(w)'
    <2> DEFINE a == Call("InternalPreUpdate", w)
               c == Call("InternalUpdate", w)
               e == Call("Return", w)
    <2>1. a \in Calls /\ c \in Calls /\ e \in Calls
      BY DEF Call, Calls
    <2>2. calls' = <<a, c, e>>
      BY <1>1
    <2> HIDE DEF a, c, e
    <2>3. calls' = <<a>> \o <<c, e>>
      BY <2>1, <2>2
    <2> QED
      BY <2>3 DEF Begun, Updating, a, c, e
  <1> QED
    BY <1>1, <1>2, <1>3 DEF Flight

-----------------------------------------------------------------------------
(* What the user does.                                                     *)

\* What a slow check compares is in the attributes alone.
LEMMA SlowIndifferent ==
    ASSUME NEW w, w \notin UsesFastChecks, NEW s, NEW sc, InputOK(w, s, sc), NEW new
    PROVE  InputOK(w, s, new)
  BY DEF InputOK, Recorded

\* An edit in the dialog of w marks what it was made to.
LEMMA EditMarks ==
    ASSUME NEW w \in UsesFastChecks, NEW src \in Positions \cup {"muscle"},
           NEW s, NEW sc, InputOK(w, s, sc),
           NEW new, \A p \in Sources : p # src => new[p] = sc[p],
           NEW x, x.modified = s.modified \cup {IF src = "muscle" THEN src ELSE "wrapper"},
           x.itemModified = s.itemModified \cup ({src} \ {"muscle"}),
           x.curves = s.curves, x.transformed = s.transformed, x.lastTime = s.lastTime
    PROVE  InputOK(w, x, new) /\ MuscleOK(x)
  <1> DEFINE flag == IF src = "muscle" THEN src ELSE "wrapper"
             items == {src} \ {"muscle"}
  <1>1. /\ x.modified = s.modified \cup {flag} /\ x.itemModified = s.itemModified \cup items
        /\ x.curves = s.curves /\ x.transformed = s.transformed /\ x.lastTime = s.lastTime
    OBVIOUS
  <1>2. /\ {"muscle", "space", "RP", "CP"} \subseteq Sources /\ Positions = {"RP", "CP"}
        /\ src # "space"
    BY DEF Sources, Positions
  <1>3. \A p \in Sources : p # src => new[p] = sc[p]
    OBVIOUS
  <1>4. \A p \in Sources : p # src => Recorded(w, x, new)[p] = Recorded(w, s, sc)[p]
    BY <1>1, <1>3 DEF Recorded, Seen
  <1>5. flag \in x.modified
    BY <1>1
  <1>6. MuscleOK(x)
    BY <1>1, <1>2 DEF MuscleOK
  <1>7. x.modified \cap {"muscle", "space"} = {} =>
          x.transformed = IF Recorded(w, x, new)["muscle"] = None THEN Empty
                          ELSE <<Recorded(w, x, new)["muscle"], Recorded(w, x, new)["space"][1]>>
    <2>1. CASE src = "muscle"
      BY <1>5, <2>1
    <2>2. CASE src # "muscle"
      BY <1>1, <1>2, <1>4, <2>2 DEF InputOK
    <2> QED
      BY <2>1, <2>2
  <1>8. ASSUME NEW p \in Positions, "space" \notin x.modified, p \notin x.itemModified,
               Recorded(w, x, new)[p] # None
        PROVE  x.curves[p] = <<Recorded(w, x, new)[p], Recorded(w, x, new)["space"][1]>>
    <2>1. p # src
      BY <1>1, <1>2, <1>8
    <2>2. /\ Recorded(w, x, new)[p] = Recorded(w, s, sc)[p]
          /\ Recorded(w, x, new)["space"] = Recorded(w, s, sc)["space"]
      BY <1>2, <1>4, <2>1
    <2>3. "space" \notin s.modified /\ p \notin s.itemModified
      BY <1>1, <1>8
    <2> QED
      BY <1>1, <1>8, <2>2, <2>3 DEF InputOK
  <1>9. x.itemModified # {} /\ "wrapper" \notin x.modified => ~Line(new)
    <2>1. CASE src = "muscle"
      <3>1. x.itemModified = s.itemModified /\ ("wrapper" \in x.modified <=> "wrapper" \in s.modified)
        BY <1>1, <2>1
      <3>2. Line(new) <=> Line(sc)
        BY <1>2, <1>3, <2>1 DEF Line
      <3> QED
        BY <3>1, <3>2 DEF InputOK
    <2>2. CASE src # "muscle"
      BY <1>5, <2>2
    <2> QED
      BY <2>1, <2>2
  <1> QED
    BY <1>6, <1>7, <1>8, <1>9 DEF InputOK

LEMMA SwitchKeeps ==
    ASSUME NEW w, NEW sc, NEW s, Attributes(s), InputOK(w, s, sc), MuscleOK(s), NEW x,
           x = [s EXCEPT !.showFibers = ~@, !.modified = @ \cup {"polyData"}]
    PROVE  InputOK(w, x, sc) /\ MuscleOK(x)
  <1>1. /\ x.modified = s.modified \cup {"polyData"} /\ x.deformed = s.deformed
        /\ SameInput(s, x)
    BY DEF Attributes, Fields, SameInput
  <1>2. MuscleOK(x)
    BY <1>1 DEF MuscleOK, SameInput
  <1> QED
    BY <1>1, <1>2, SameInputKept

LEMMA EditFlight ==
    ASSUME MInv, NEW e \in Editable, NEW c \in Contents \cup {None}, Edit(e[1], e[2], c)
    PROVE  SourcesOK' /\ Flight'
  <1> DEFINE w == e[1]
             src == e[2]
  <1>1. w \in Wrappers /\ src \in Sources
    BY EditableAssumption
  <1>2. /\ calls' = <<>> /\ updated' = None /\ time' = time
        /\ scene' = [scene EXCEPT ![w][src] = c]
        /\ src = "space" => c # None
        /\ w \in UsesFastChecks => src \in Positions \cup {"muscle"}
    BY DEF Edit, Acts
  <1>3. /\ SceneOK /\ vme = [v \in Wrappers |-> vme[v]]
        /\ \A v \in Wrappers : /\ Attributes(vme[v])
                               /\ InputOK(v, vme[v], scene[v]) /\ MuscleOK(vme[v])
    BY DEF MInv, IInv, GroupsOK, SourcesOK
  <1>4. vme' = IF w \notin UsesFastChecks THEN vme
               ELSE [vme EXCEPT
                       ![w].modified = @ \cup {IF src = "muscle" THEN src ELSE "wrapper"},
                       ![w].itemModified = @ \cup ({src} \ {"muscle"})]
    BY DEF Edit
  <1>5. scene[w] = [p \in Sources |-> scene[w][p]] /\ scene'[w] = [scene[w] EXCEPT ![src] = c]
    BY <1>1, <1>2, <1>3 DEF SceneOK
  <1> HIDE DEF w, src
  <1>6. SceneOK'
    <2>1. scene' \in [Wrappers -> [Sources -> Contents \cup {None}]]
      BY <1>1, <1>2, <1>3 DEF SceneOK
    <2>2. \A v \in Wrappers : scene'[v]["space"] # None
      <3>1. "space" \in Sources
        BY DEF Sources
      <3> QED
        BY <1>1, <1>2, <1>3, <3>1 DEF SceneOK
    <2>3. ASSUME NEW v \in UsesFastChecks, NEW p \in Positions
          PROVE  scene'[v][RefSys(p)] # None
      <3>1. v \in Wrappers /\ scene[v][RefSys(p)] # None
        BY <1>3, <2>3, FastAssumption DEF SceneOK
      <3>2. CASE v = w
        <4>1. RefSys(p) # src /\ RefSys(p) \in Sources
          BY <1>2, <2>3, <3>2, PointSources
        <4> QED
          BY <1>5, <3>1, <3>2, <4>1
      <3>3. CASE v # w
        <4>1. scene'[v] = scene[v]
          BY <1>2, <1>3, <3>1, <3>3 DEF SceneOK
        <4> QED
          BY <3>1, <4>1
      <3> QED
        BY <3>2, <3>3
    <2> QED
      BY <1>2, <1>3, <2>1, <2>2, <2>3 DEF SceneOK
  <1>7. ASSUME NEW v \in Wrappers, v # w
        PROVE  InputOK(v, vme'[v], scene'[v]) /\ MuscleOK(vme'[v])
    <2>1. vme'[v] = vme[v]
      BY <1>1, <1>3, <1>4, <1>7
    <2>2. scene'[v] = scene[v]
      BY <1>2, <1>3, <1>7 DEF SceneOK
    <2> QED
      BY <1>3, <2>1, <2>2
  <1>8. InputOK(w, vme'[w], scene'[w]) /\ MuscleOK(vme'[w])
    <2>1. CASE w \notin UsesFastChecks
      BY <1>1, <1>3, <1>4, <2>1, SlowIndifferent
    <2>2. CASE w \in UsesFastChecks
      <3> DEFINE flag == {IF src = "muscle" THEN src ELSE "wrapper"}
                 items == {src} \ {"muscle"}
                 s == vme[w]
                 x == [s EXCEPT !.modified = @ \cup flag, !.itemModified = @ \cup items]
      <3>1. vme' = [vme EXCEPT ![w].modified = @ \cup flag, ![w].itemModified = @ \cup items]
        BY <1>4, <2>2
      <3>2. vme'[w] = x
        <4> HIDE DEF flag, items
        <4> QED
          BY <1>1, <1>3, <3>1 DEF Attributes, Fields
      <3>3. InputOK(w, s, scene[w]) /\ Attributes(s)
        BY <1>1, <1>3
      <3>4. src \in Positions \cup {"muscle"}
        BY <1>2, <2>2
      <3>5. InputOK(w, x, scene'[w]) /\ MuscleOK(x)
        <4>1. /\ x.modified = s.modified \cup flag /\ x.itemModified = s.itemModified \cup items
              /\ x.curves = s.curves /\ x.transformed = s.transformed /\ x.lastTime = s.lastTime
          <5> HIDE DEF flag, items
          <5> QED
            BY <3>3 DEF Attributes, Fields
        <4>2. \A p \in Sources : p # src => scene'[w][p] = scene[w][p]
          BY <1>5
        <4> HIDE DEF x, s
        <4> QED
          BY <2>2, <3>3, <3>4, <4>1, <4>2, EditMarks
      <3> QED
        BY <3>2, <3>5
    <2> QED
      BY <2>1, <2>2
  <1>9. SourcesOK'
    BY <1>6, <1>7, <1>8 DEF SourcesOK
  <1> QED
    BY <1>2, <1>9 DEF Flight

LEMMA UserFlight ==
    ASSUME MInv, NEW w \in Wrappers,
           \/ Exclude(w) \/ SwitchVisMode(w)
           \/ \E t \in 0..MaxTime : MoveTimebar(t)
           \/ \E p \in BOOLEAN : Confirm(p)
    PROVE  SourcesOK' /\ Flight'
  <1>1. calls' = <<>> /\ updated' = None /\ scene' = scene
    BY DEF Exclude, SwitchVisMode, MoveTimebar, Confirm, Acts
  <1>2. time' \in 0..MaxTime
    BY DEF Exclude, SwitchVisMode, MoveTimebar, Confirm, MInv, SourcesOK, SceneOK
  <1>3. SceneOK'
    BY <1>1, <1>2 DEF MInv, SourcesOK, SceneOK
  <1>4. /\ vme = [v \in Wrappers |-> vme[v]]
        /\ \A v \in Wrappers : /\ Attributes(vme[v])
                               /\ InputOK(v, vme[v], scene[v]) /\ MuscleOK(vme[v])
    BY DEF MInv, IInv, GroupsOK, SourcesOK
  <1>5. ASSUME NEW v \in Wrappers
        PROVE  InputOK(v, vme'[v], scene[v]) /\ MuscleOK(vme'[v])
    <2>1. CASE vme' = vme
      BY <1>4, <2>1
    <2>2. CASE SwitchVisMode(w)
      <3> DEFINE s == vme[w]
                 x == [s EXCEPT !.showFibers = ~@, !.modified = @ \cup {"polyData"}]
      <3>1. vme' = [vme EXCEPT ![w].showFibers = ~@, ![w].modified = @ \cup {"polyData"}]
        BY <2>2 DEF SwitchVisMode
      <3>2. vme'[w] = x /\ \A u \in Wrappers : u # w => vme'[u] = vme[u]
        BY <1>4, <3>1 DEF Attributes, Fields
      <3>3. InputOK(w, x, scene[w]) /\ MuscleOK(x)
        <4>1. x = [s EXCEPT !.showFibers = ~@, !.modified = @ \cup {"polyData"}]
          OBVIOUS
        <4>2. Attributes(s) /\ InputOK(w, s, scene[w]) /\ MuscleOK(s)
          BY <1>4
        <4> HIDE DEF x, s
        <4> QED
          BY <4>1, <4>2, SwitchKeeps
      <3> QED
        BY <1>4, <3>2, <3>3
    <2> QED
      BY <2>1, <2>2 DEF Exclude, MoveTimebar, Confirm
  <1>6. SourcesOK'
    BY <1>1, <1>3, <1>5 DEF SourcesOK
  <1> QED
    BY <1>1, <1>6 DEF Flight

-----------------------------------------------------------------------------
(* The claims hold at first, and every step keeps them.                    *)

LEMMA InitSources ==
    ASSUME Init
    PROVE  SourcesOK /\ Flight
  <1>1. PICK c \in Contents : scene = [w \in Wrappers |-> [src \in Sources |-> c]]
    BY DEF Init
  <1>2. SceneOK
    <2>1. c # None /\ "space" \in Sources
      BY NoneAssumption DEF Sources
    <2>2. time \in 0..MaxTime
      BY BoundAssumption DEF Init
    <2>3. \A w \in UsesFastChecks, p \in Positions : scene[w][RefSys(p)] # None
      BY <1>1, <2>1, FastAssumption, PointSources
    <2> QED
      BY <1>1, <2>1, <2>2, <2>3 DEF SceneOK
  <1>3. \A w \in Wrappers : vme[w].modified = Flags
    BY DEF Init
  <1>4. \A w \in Wrappers : InputOK(w, vme[w], scene[w]) /\ MuscleOK(vme[w])
    BY <1>3 DEF InputOK, MuscleOK, Flags
  <1> QED
    BY <1>2, <1>4 DEF SourcesOK, Flight, Init

LEMMA StepSources ==
    ASSUME MInv, [Next]_vars
    PROVE  MInv'
  <1>1. IInv'
    BY StepInvariant DEF MInv
  <1>2. SourcesOK' /\ Flight'
    <2>1. CASE \E w \in Wrappers : Redraw(w)
      BY <2>1, RedrawFlight
    <2>2. CASE \E w \in Wrappers : InternalPreUpdate(w)
      BY <2>2, PreUpdateFlight
    <2>3. CASE \E w \in Wrappers : Lead(w)
      BY <2>3, LeadFlight
    <2>4. CASE \E w \in Wrappers : InternalUpdate(w)
      BY <2>4, UpdateFlight
    <2>5. CASE \E w \in Wrappers : Show(w)
      BY <2>5, ShowFlight
    <2>6. CASE \E w \in Wrappers : Return(w)
      BY <2>6, ReturnFlight
    <2>7. CASE \E w \in Wrappers : Exclude(w) \/ SwitchVisMode(w)
      BY <2>7, UserFlight
    <2>8. CASE \E e \in Editable, c \in Contents \cup {None} : Edit(e[1], e[2], c)
      BY <2>8, EditFlight
    <2>9. CASE (\E t \in 0..MaxTime : MoveTimebar(t)) \/ (\E p \in BOOLEAN : Confirm(p))
      <3>1. CASE Wrappers = {}
        <4>1. calls' = <<>> /\ updated' = None /\ scene' = scene /\ time' \in 0..MaxTime
          BY <2>9 DEF MoveTimebar, Confirm, Acts, MInv, SourcesOK, SceneOK
        <4> QED
          BY <3>1, <4>1 DEF MInv, SourcesOK, SceneOK, Flight
      <3>2. CASE Wrappers # {}
        BY <2>9, <3>2, UserFlight
      <3> QED
        BY <3>1, <3>2
    <2>10. CASE UNCHANGED vars
      <3>1. UNCHANGED world /\ vme' = vme /\ calls' = calls /\ updated' = updated
        BY <2>10 DEF vars
      <3>2. SourcesOK'
        BY <3>1, SameKept, SourcesKept DEF MInv
      <3>3. Flight'
        BY <3>1 DEF MInv, Flight, Prepared, Finished, Handled, Covered, Asked, Direct, MustDeform,
                    Begun, Asking, Led, Delegated, Deforming, Returning, world
      <3> QED
        BY <3>2, <3>3
    <2> QED
      BY <2>1, <2>2, <2>3, <2>4, <2>5, <2>6, <2>7, <2>8, <2>9, <2>10 DEF Next, Runs
  <1> QED
    BY <1>1, <1>2 DEF MInv

-----------------------------------------------------------------------------
(* The theorems.                                                           *)

\* The masters always form a forest, and the calls follow it: the inductive invariant.
THEOREM Invariance == Spec => []IInv
  BY InitInvariant, StepInvariant, PTL DEF Spec

\* Type correctness of the attributes that the checks and the masters work on; no wrapper
\* is ever its own slave.
THEOREM TypeCorrect == Spec => []TypeOK
  <1>1. IInv => TypeOK
    BY DEF IInv, GroupsOK, Attributes, TypeOK
  <1> QED
    BY <1>1, Invariance, PTL

\* Whatever number of wrappers is excluded, included and redrawn in whatever order, a
\* wrapper is in the list of the master it knows.
THEOREM MastersKnowTheirSlaves == Spec => []MasterKnowsSlave
  <1>1. IInv => MasterKnowsSlave
    BY DEF IInv, GroupsOK
  <1> QED
    BY <1>1, Invariance, PTL

\* However long the chain of masters, InternalPreUpdate and InternalUpdate never come back
\* to a wrapper that is running them.
THEOREM CallsEnd == Spec => []NeverReentered
  <1>1. IInv => NeverReentered
    <2> SUFFICES ASSUME IInv,
                        NEW i \in DOMAIN calls, NEW j \in DOMAIN calls, i < j,
                        NEW w \in Wrappers
                 PROVE  /\ calls[i] = Call("InternalPreUpdate", w) => calls[j] # Call("Lead", w)
                        /\ calls[i] = Call("InternalUpdate", w) => calls[j] # Call("Show", w)
      BY DEF NeverReentered
    <2>1. PICK rank : Ranked(rank) /\ Ordered(rank, calls)
      BY DEF IInv, CallsOK
    <2>2. Before(rank, calls[i], calls[j])
      BY <2>1 DEF Ordered
    <2>3. rank[w] \in Nat
      BY <2>1 DEF Ranked
    <2> QED
      BY <2>2, <2>3 DEF Before, Call
  <1> QED
    BY <1>1, Invariance, PTL

\* No change goes unnoticed and none is taken for handled too early, at every stage of a
\* redraw: the inductive invariant of the two theorems that follow.
THEOREM Redraws == Spec => []MInv
  <1>1. Init => MInv
    BY InitInvariant, InitSources DEF MInv
  <1> QED
    BY <1>1, StepSources, PTL DEF Spec

\* However often the user edits, excludes, confirms and switches between two redraws, the
\* muscle of a wrapper just redrawn was deformed by the muscle, the output space and the
\* curves that are in the scene now, and without the reference points that have gone,
\* unless its master is a slave itself.
THEOREM RedrawnIsDeformed == Spec => []DeformedFromScene
  <1>1. MInv => DeformedFromScene
    <2> SUFFICES ASSUME MInv, updated # None, Direct(updated), ValidLine(updated),
                        scene[updated]["muscle"] # None
                 PROVE  /\ vme[updated].deformed # Empty
                        /\ vme[updated].deformed.muscle = Transformed(updated, "muscle")
                        /\ \A p \in Positions :
                              /\ vme[updated].deformed.curves[p] = Transformed(updated, p)
                              /\ scene[updated][RefSys(p)] = None =>
                                    vme[updated].deformed.origins[p] = None
      BY DEF DeformedFromScene, UpToDate
    <2> DEFINE w == updated
               s == vme[w]
               sc == scene[w]
    <2>1. w \in Wrappers
      BY DEF MInv, IInv, GroupsOK
    <2>2. Prepared(w) /\ Finished(w)
      BY DEF MInv, Flight
    <2>3. InputOK(w, s, sc) /\ MuscleOK(s) /\ SceneOK
      BY <2>1 DEF MInv, SourcesOK
    <2>4. /\ Current(w, s, sc, time, confirm) /\ "deformation" \notin s.modified /\ Line(sc)
          /\ sc["muscle"] # None
      BY <2>2, LineSeen DEF Prepared, Finished, Handled, MustDeform
    <2>5. /\ Transformed(w, "muscle") = <<Seen(sc, time, "muscle"), sc["space"]>>
          /\ \A p \in Positions : Transformed(w, p) = <<Seen(sc, time, p), sc["space"]>>
      BY ContentSeen DEF Transformed
    <2>6. /\ {"muscle", "space", "RP", "CP"} \subseteq Sources /\ Positions = {"RP", "CP"}
      BY DEF Sources, Positions
    <2>7. /\ sc \in [Sources -> Contents \cup {None}] /\ sc["space"] # None
          /\ time \in 0..MaxTime /\ 0 \in 0..MaxTime
      BY <2>1, <2>3, BoundAssumption DEF SceneOK
    <2> HIDE DEF s, sc, w
    <2>8. ASSUME NEW src \in Sources, sc[src] # None
          PROVE  Seen(sc, time, src) # None
      <3>1. Seen(sc, time, src) \in Contents \X (0..MaxTime)
        BY <2>7, <2>8 DEF Seen
      <3> QED
        BY <3>1, NoneAssumption
    <2>9. /\ \A src \in Sources : Recorded(w, s, sc)[src] = Seen(sc, time, src)
          /\ s.modified \cap {"muscle", "wrapper", "space"} = {} /\ s.itemModified = {}
      BY <2>4 DEF Current, Noticed
    <2>10. Recorded(w, s, sc)["space"][1] = sc["space"]
      <3>1. Seen(sc, time, "space") = <<sc["space"], 0>>
        BY <2>7 DEF Seen
      <3> QED
        BY <2>6, <2>9, <3>1
    <2>11. s.transformed = <<Seen(sc, time, "muscle"), sc["space"]>>
      BY <2>3, <2>4, <2>6, <2>8, <2>9, <2>10 DEF InputOK
    <2>12. \A p \in Positions : s.curves[p] = <<Seen(sc, time, p), sc["space"]>>
      BY <2>3, <2>4, <2>6, <2>8, <2>9, <2>10 DEF InputOK, Line
    <2>13. s.transformed # Empty
      BY <2>11 DEF Empty
    <2>14. s.deformed # Empty /\ s.deformed.muscle = s.transformed /\ s.deformed.curves = s.curves
      BY <2>3, <2>4, <2>9, <2>13 DEF MuscleOK
    <2>15. ASSUME NEW p \in Positions, sc[RefSys(p)] = None
           PROVE  s.deformed.origins[p] = None
      <3>1. RefSys(p) \in Sources
        BY PointSources
      <3>2. w \notin UsesFastChecks
        BY <2>3, <2>15 DEF SceneOK, sc
      <3>3. s.known[RefSys(p)] = None
        BY <2>9, <2>15, <3>1, <3>2 DEF Recorded, Seen
      <3> QED
        BY <2>3, <2>4, <2>9, <2>13, <2>15, <3>3 DEF MuscleOK
    <2> QED
      BY <2>5, <2>11, <2>12, <2>14, <2>15 DEF s, w, sc
  <1> QED
    BY <1>1, Redraws, PTL

\* However often the user edits, excludes, confirms and switches between two redraws, a
\* redraw leaves nothing to do for its wrapper but fibers that are not shown, unless its
\* master is a slave itself: the deformation of a slave of a slave stays to be done.
THEOREM RedrawnIsDone == Spec => []NothingPending
  <1>1. MInv => NothingPending
    BY DEF MInv, Flight, Finished, Handled, MustDeform, NothingPending
  <1> QED
    BY <1>1, Redraws, PTL
=============================================================================
