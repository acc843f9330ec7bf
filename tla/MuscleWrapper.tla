--------------------------- MODULE MuscleWrapper ---------------------------
(***************************************************************************)
(* The musculoskeletal application built on the cached deformation filter: *)
(* when a muscle wrapper is redrawn it finds out what has changed in the   *)
(* scene, and which wrapper has to run the deformation for which others.   *)
(* A wrapper whose model prevents penetrations becomes the MASTER of the   *)
(* other enabled wrappers, its SLAVES, and deforms them all at once.       *)
(*                                                                         *)
(* One thread runs everything.  InternalPreUpdate and InternalUpdate of a  *)
(* slave call those of its master: calls is the sequence of what is left   *)
(* to run, the innermost first.  A wrapper has one action line, with a     *)
(* rest pose (RP) and a current pose (CP) curve; the content of a curve, a *)
(* muscle, a matrix or a reference point is a member of a small set, and a *)
(* checksum stands for the content it was computed from.                   *)
(***************************************************************************)
EXTENDS Naturals, Sequences

CONSTANTS
    Wrappers,        \* the objects of class medVMEMuscleWrapper
    UsesFastChecks,  \* those with m_UseFastChecks
    Model,           \* those of one model; each of the others has a model of its own
    RestPose,        \* the wrapper of the same muscle in the rest pose, if there is another
    Editable,        \* which sources of which wrappers the user edits
    Contents,        \* what there can be in a source
    MaxTime,         \* bound on the positions of the timebar
    MaxEdits,        \* bound on what the user does between updates, all in all
    None             \* no content, no wrapper

ASSUME FastAssumption == UsesFastChecks \subseteq Wrappers
ASSUME ModelAssumption == Model \subseteq Wrappers
ASSUME RestPoseAssumption == RestPose \in [Wrappers -> (Wrappers \ Model) \cup {None}]
ASSUME BoundAssumption == MaxTime \in Nat
ASSUME NoneAssumption == None \notin Contents \cup Wrappers \cup (Contents \X (0..MaxTime))

Positions == {"RP", "CP"}
RefSys(p) == IF p = "RP" THEN "RP_RefSys" ELSE "CP_RefSys"
Sources == Positions \cup {RefSys(p) : p \in Positions} \cup {"muscle", "space"}

ASSUME EditableAssumption == Editable \subseteq Wrappers \X Sources

\* The bits of m_Modified: output space, input muscle, input wrapper, deformation
\* options, fibers options, poly data.
Flags == {"space", "muscle", "wrapper", "deformation", "fibers", "polyData"}
Inputs == {"muscle", "wrapper"}

VARIABLES
    scene,     \* the content of each source of each wrapper
    time,      \* the position of the timebar, on which CP curves depend
    enabled,   \* the wrappers of the model that it does not exclude
    prevent,   \* the model's options: a method that prevents penetrations
    confirm,   \* its ConfirmTimeStamp
    edits,     \* how often the user has done something
    vme,       \* the attributes of each wrapper
    calls,     \* the calls to run
    updated    \* the wrapper updated last, if nothing happened since

world == <<scene, time, enabled, prevent, confirm, edits>>
vars == <<world, vme, calls, updated>>

-----------------------------------------------------------------------------
(* What a wrapper sees of the scene.                                       *)

Content(w, src) ==
    IF scene[w][src] = None THEN None
    ELSE <<scene[w][src], IF src = "CP" THEN time ELSE 0>>

\* A curve or a muscle in the output space of w.
Transformed(w, src) == <<Content(w, src), scene[w]["space"]>>

ValidLine(w) == \A p \in Positions : scene[w][p] # None

Empty == <<>>
NoCurves == [p \in Positions |-> Empty]

\* What the output shows of the attributes s: the deformed muscle or its fibers.
View(s) == <<s.showFibers, IF s.showFibers THEN s.decomposed ELSE s.deformed>>

Init ==
    /\ \E c \in Contents : scene = [w \in Wrappers |-> [src \in Sources |-> c]]
    /\ time = 0
    /\ enabled \in SUBSET Model
    /\ prevent = TRUE
    /\ confirm = 1
    /\ edits = 0
    /\ vme = [w \in Wrappers |->
        [modified |-> Flags, itemModified |-> Positions,
         known |-> [src \in Sources |-> None], lastTime |-> 0, lastConfirm |-> 0,
         prevent |-> FALSE, showFibers |-> FALSE,
         curves |-> NoCurves, transformed |-> Empty,
         deformed |-> Empty, decomposed |-> Empty, polyData |-> Empty,
         master |-> None, slaves |-> {}]]
    /\ calls = <<>>
    /\ updated = None

-----------------------------------------------------------------------------
(* The checks.  Each takes the attributes s of wrapper w to the new ones.  *)

FastChecksWithoutFlag(s, w) ==
    IF time = s.lastTime THEN s
    ELSE [s EXCEPT !.lastTime = time, !.itemModified = @ \cup {"CP"}]

\* Only the timebar is looked at: edits in the dialog of w have set its flags.
FastChecks(s, w) ==
    IF time = s.lastTime THEN s
    ELSE [s EXCEPT !.lastTime = time,
                   !.itemModified = @ \cup {"CP"},
                   !.modified = @ \cup IF ValidLine(w) THEN {"wrapper"} ELSE {}]

\* Every source is compared with its checksum.  A reference point that has moved is
\* recorded and sets no flag; one that has gone does.
SlowChecks(s, w) ==
    LET changed == {src \in Sources : Content(w, src) # s.known[src]}
        items == s.itemModified \cup (changed \cap Positions)
                   \cup {p \in {RefSys(q) : q \in Positions} \cap changed : scene[w][p] = None}
    IN  [s EXCEPT !.known = [src \in Sources |-> Content(w, src)],
                  !.itemModified = items,
                  !.modified = @ \cup (changed \cap {"space", "muscle"})
                                 \cup IF ValidLine(w) /\ items # {} THEN {"wrapper"} ELSE {}]

\* What follows from the flags that are set, in the order of the code.
Consequences(s, w) ==
    LET inputs == s.modified \cup IF "space" \in s.modified THEN Inputs ELSE {}
        confirmed == confirm # s.lastConfirm
        deform == inputs \cup IF inputs \cap Inputs # {} \/ confirmed THEN {"deformation"} ELSE {}
        shown == deform \cup IF "deformation" \in deform THEN {"fibers", "polyData"} ELSE {}
        seen == IF s.showFibers THEN shown ELSE shown \ {"fibers"}
    IN  [s EXCEPT !.lastConfirm = confirm,
                  !.prevent = IF confirmed THEN prevent ELSE @,
                  !.modified = shown \cup IF seen # {} THEN {"polyData"} ELSE {}]

MustUpdateCheck(s, w) ==
    Consequences(IF w \in UsesFastChecks THEN FastChecks(s, w) ELSE SlowChecks(s, w), w)

PrepareInputWrappers(s, w) ==
    LET redo == {p \in Positions : /\ p \in s.itemModified \/ "space" \in s.modified
                                   /\ scene[w][p] # None}
        reread == {RefSys(p) : p \in redo} \cap {src \in Sources : scene[w][src] # None}
    IN  IF "wrapper" \notin s.modified THEN s
        ELSE [s EXCEPT
                !.curves = [p \in Positions |-> IF p \in redo THEN Transformed(w, p) ELSE @[p]],
                !.known = [src \in Sources |-> IF w \in UsesFastChecks /\ src \in reread
                                               THEN Content(w, src) ELSE @[src]],
                !.itemModified = {}]

PrepareInputMuscle(s, w) ==
    IF s.modified \cap {"muscle", "space"} = {} THEN s
    ELSE IF scene[w]["muscle"] = None
         THEN [s EXCEPT !.transformed = Empty, !.deformed = Empty, !.decomposed = Empty]
         ELSE [s EXCEPT !.transformed = Transformed(w, "muscle")]

PrepareInputKeepingFlags(w) ==
    LET s == MustUpdateCheck(vme[w], w)
    IN  IF s.modified \cap Inputs = {} THEN s ELSE PrepareInputMuscle(PrepareInputWrappers(s, w), w)

PrepareInput(w) ==
    LET s == MustUpdateCheck(vme[w], w)
    IN  IF s.modified \cap Inputs = {} THEN s
        ELSE [PrepareInputMuscle(PrepareInputWrappers(s, w), w)
                EXCEPT !.modified = @ \ (Inputs \cup {"space"})]

-----------------------------------------------------------------------------
(* The calls.                                                              *)

Call(op, w) == [op |-> op, on |-> w]

Running(op, w) == calls # <<>> /\ Head(calls) = Call(op, w)

\* The kernel redraws w.
Redraw(w) ==
    /\ calls = <<>>
    /\ calls' = <<Call("InternalPreUpdate", w), Call("InternalUpdate", w), Call("Return", w)>>
    /\ updated' = None
    /\ UNCHANGED <<world, vme>>

\* A slave lets its master decide, if there is a deformation to run.
InternalPreUpdate(w) ==
    /\ Running("InternalPreUpdate", w)
    /\ LET s == PrepareInput(w)
           ask == s.master # None /\ "deformation" \in s.modified
       IN  /\ vme' = [vme EXCEPT ![w] = s]
           /\ calls' = (IF ask THEN <<Call("InternalPreUpdate", s.master)>> ELSE <<>>)
                         \o <<Call("Lead", w)>> \o Tail(calls)
    /\ UNCHANGED <<world, updated>>

SlavesWithItself(w) == IF vme[w].prevent /\ w \in enabled THEN enabled ELSE {}

\* The wrappers that w would be the master of.
Slaves(w) == IF vme[w].prevent /\ w \in enabled THEN enabled \ {w} ELSE {}

RevokeMastershipSilently(w) == vme

\* The slaves of w are told that they have no master any more.
RevokeMastership(w) ==
    [v \in Wrappers |-> IF v \in vme[w].slaves THEN [vme[v] EXCEPT !.master = None] ELSE vme[v]]

\* What every wrapper of a group has to do when one of them needs the deformation.
RunAll == {"deformation", "fibers", "polyData"}

\* The rest of InternalPreUpdate: without a master w revokes its mastership, takes it
\* again, and finds out whether any of the group needs the deformation.
Lead(w) ==
    /\ Running("Lead", w)
    /\ calls' = Tail(calls)
    /\ IF vme[w].master # None THEN UNCHANGED vme
       ELSE LET group == Slaves(w)
                prepared == [v \in group |-> PrepareInput(v)]
                asked == \E v \in group : "deformation" \in prepared[v].modified
                run == asked \/ "deformation" \in vme[w].modified
                told == [v \in Wrappers |-> IF v \in group THEN [prepared[v] EXCEPT !.master = w]
                                            ELSE RevokeMastership(w)[v]]
                forced == (IF run THEN group ELSE {}) \cup (IF asked THEN {w} ELSE {})
            IN  vme' = [v \in Wrappers |->
                    [told[v] EXCEPT !.slaves = IF v = w THEN group ELSE @,
                                    !.modified = @ \cup IF v \in forced THEN RunAll ELSE {}]]
    /\ UNCHANGED <<world, updated>>

\* What DeformMuscle makes of the prepared input of v, together with the rest of a group.
Deform(group, v) ==
    LET s == vme[v]
    IN  IF s.transformed = Empty THEN Empty
        ELSE [muscle |-> s.transformed, curves |-> s.curves,
              origins |-> [p \in Positions |-> s.known[RefSys(p)]],
              together |-> {vme[u].transformed : u \in group}]

\* The master, or a wrapper on its own, deforms itself and its slaves.
InternalUpdate(w) ==
    /\ Running("InternalUpdate", w)
    /\ LET master == vme[w].master
           group == vme[w].slaves \cup {w}
       IN  IF master # None
           THEN /\ calls' = <<Call("InternalUpdate", master), Call("Show", w)>> \o Tail(calls)
                /\ UNCHANGED vme
           ELSE /\ calls' = <<Call("Show", w)>> \o Tail(calls)
                /\ vme' = IF "deformation" \notin vme[w].modified THEN vme
                          ELSE [v \in Wrappers |->
                                 IF v \notin group THEN vme[v]
                                 ELSE [vme[v] EXCEPT !.deformed = Deform(group, v),
                                                     !.modified = @ \ {"deformation"}]]
    /\ UNCHANGED <<world, updated>>

\* GenerateFibers takes a muscle that was never deformed as it is.
GenerateFibers(s) ==
    LET undeformed == [muscle |-> s.transformed, curves |-> NoCurves, origins |-> NoCurves,
                       together |-> {}]
        muscle == IF s.deformed = Empty /\ s.transformed # Empty THEN undeformed ELSE s.deformed
    IN  [s EXCEPT !.deformed = muscle, !.decomposed = muscle, !.modified = @ \ {"fibers"}]

\* The rest of InternalUpdate: the fibers, if they are shown, and the output.  If there is
\* no muscle yet the input is prepared first, and, since fibers are fitted in the muscle of
\* the rest pose, so is that of the other wrapper.
Show(w) ==
    /\ Running("Show", w)
    /\ LET fibers == vme[w].showFibers /\ "fibers" \in vme[w].modified
           s == IF ~fibers THEN vme[w]
                ELSE GenerateFibers(IF vme[w].deformed = Empty /\ vme[w].transformed = Empty
                                    THEN PrepareInput(w) ELSE vme[w])
           t == IF "polyData" \notin s.modified THEN s
                ELSE [s EXCEPT !.polyData = View(s), !.modified = @ \ {"polyData"}]
       IN  vme' = [v \in Wrappers |-> IF v = w THEN t
                                      ELSE IF fibers /\ v = RestPose[w] THEN PrepareInput(v)
                                      ELSE vme[v]]
    /\ calls' = Tail(calls)
    /\ UNCHANGED <<world, updated>>

Return(w) ==
    /\ Running("Return", w)
    /\ calls' = <<>>
    /\ updated' = w
    /\ UNCHANGED <<world, vme>>

-----------------------------------------------------------------------------
(* The user.                                                               *)

Acts ==
    /\ calls = <<>>
    /\ edits < MaxEdits
    /\ edits' = edits + 1
    /\ updated' = None
    /\ UNCHANGED calls

\* A source is edited, linked or unlinked.  With fast checks this comes from the dialog
\* of w, which sets the flags; the output space is then no source of change.
Edit(w, src, c) ==
    /\ Acts
    /\ c # scene[w][src]
    /\ src = "space" => c # None
    /\ w \in UsesFastChecks => src \in Positions \cup {"muscle"}
    /\ scene' = [scene EXCEPT ![w][src] = c]
    /\ vme' = IF w \notin UsesFastChecks THEN vme
              ELSE [vme EXCEPT ![w].modified = @ \cup {IF src = "muscle" THEN src ELSE "wrapper"},
                               ![w].itemModified = @ \cup ({src} \ {"muscle"})]
    /\ UNCHANGED <<time, enabled, prevent, confirm>>

MoveTimebar(t) ==
    /\ Acts
    /\ t # time
    /\ time' = t
    /\ UNCHANGED <<scene, enabled, prevent, confirm, vme>>

\* A wrapper is excluded from the processing of the model, or included again.
Exclude(w) ==
    /\ Acts
    /\ w \in Model
    /\ enabled' = IF w \in enabled THEN enabled \ {w} ELSE enabled \cup {w}
    /\ UNCHANGED <<scene, time, prevent, confirm, vme>>

\* The options of the model are confirmed, with another method or the same.
Confirm(p) ==
    /\ Acts
    /\ prevent' = p
    /\ confirm' = confirm + 1
    /\ UNCHANGED <<scene, time, enabled, vme>>

SwitchVisMode(w) ==
    /\ Acts
    /\ vme' = [vme EXCEPT ![w].showFibers = ~@, ![w].modified = @ \cup {"polyData"}]
    /\ UNCHANGED <<scene, time, enabled, prevent, confirm>>

-----------------------------------------------------------------------------
Runs(w) ==
    \/ InternalPreUpdate(w)
    \/ Lead(w)
    \/ InternalUpdate(w)
    \/ Show(w)
    \/ Return(w)

Next ==
    \/ \E w \in Wrappers : Redraw(w) \/ Runs(w) \/ Exclude(w) \/ SwitchVisMode(w)
    \/ \E e \in Editable, c \in Contents \cup {None} : Edit(e[1], e[2], c)
    \/ \E t \in 0..MaxTime : MoveTimebar(t)
    \/ \E p \in BOOLEAN : Confirm(p)

Spec == Init /\ [][Next]_vars

-----------------------------------------------------------------------------
(* Properties.                                                             *)

\* Type correctness; the slaves of a wrapper do not include itself.
TypeOK ==
    /\ enabled \subseteq Model
    /\ \A w \in Wrappers :
        /\ vme[w].modified \subseteq Flags
        /\ vme[w].master \in Wrappers \cup {None}
        /\ vme[w].slaves \subseteq Wrappers \ {w}
    /\ updated \in Wrappers \cup {None}

\* A wrapper is in the list of the master it knows, whatever wrappers were excluded and
\* included and whoever was redrawn first: otherwise that master would deform without it,
\* and would never tell it that it is on its own again.
MasterKnowsSlave ==
    \A w \in Wrappers : vme[w].master # None => w \in vme[vme[w].master].slaves

\* The calls of InternalPreUpdate and InternalUpdate up the masters never come back to a
\* wrapper that is still running them: they would not end.
NeverReentered ==
    \A i, j \in DOMAIN calls : i < j =>
        \A w \in Wrappers :
            /\ calls[i] = Call("InternalPreUpdate", w) => calls[j] # Call("Lead", w)
            /\ calls[i] = Call("InternalUpdate", w) => calls[j] # Call("Show", w)

\* The deformed muscle of w was computed from what is in the scene now, and without a
\* reference point that has gone.  (One that has moved, or was linked, sets no flag in
\* SlowChecks: the deformation goes on with the point of before, until it runs again for
\* another reason.)
UpToDate(w) ==
    LET d == vme[w].deformed
    IN  ValidLine(w) /\ scene[w]["muscle"] # None =>
            /\ d # Empty
            /\ d.muscle = Transformed(w, "muscle")
            /\ \A p \in Positions :
                  /\ d.curves[p] = Transformed(w, p)
                  /\ scene[w][RefSys(p)] = None => d.origins[p] = None

\* The master of w, if it has one, is no slave itself.
Direct(w) == vme[w].master # None => vme[vme[w].master].master = None

\* The muscle of a wrapper just redrawn was deformed by what is in the scene now, whoever
\* ran the deformation: no change of its muscle, its output space, its curves or the
\* timebar, and no loss of a reference point goes unnoticed, and none is taken for handled
\* too early.  It does not speak of a reference point that has moved, nor of the fibers
\* and the output made of the muscle (see DecomposedAgain).
DeformedFromScene == updated # None /\ Direct(updated) => UpToDate(updated)

\* The comment of MustUpdateCheck: if input has changed, the deformation will run once
\* again, whatever the masters.  It does not for the slave of a slave.
RedrawnIsUpToDate == updated # None => UpToDate(updated)

\* The comment of MustUpdateCheck: if the muscle should deform, its decomposition must run
\* once again.  It does not if GenerateFibers has prepared the input and its caller takes
\* the fibers for done: the deformation, still to come, leaves fibers and output unmarked.
DecomposedAgain ==
    calls = <<>> =>
        \A w \in Wrappers : "fibers" \in vme[w].modified \/ vme[w].decomposed = vme[w].deformed

\* After its redraw nothing is left to do for a wrapper, except fibers it does not show:
\* the deformation does not run again at every redraw.  A slave of a slave is excepted: the
\* deformation it asks for is not run at all (RedrawnIsUpToDate).
NothingPending ==
    updated # None /\ Direct(updated) => vme[updated].modified \subseteq {"fibers"}

=============================================================================
