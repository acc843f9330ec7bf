------------------------- MODULE MuscleDeformation -------------------------
(***************************************************************************)
(* DeformMuscle and the cached deformation filter it runs.  A master hands *)
(* the meshes and curves of its group, and the bones, to the filter; hulls *)
(* (coarse meshes) that the scene already has are handed over too, the     *)
(* missing ones are computed by the deformation and stored in the scene    *)
(* afterwards.  The cache compares the input of a call with stored inputs, *)
(* which are copied after the deformation has completed them, up to a      *)
(* tolerance, but looks for them under a hash of the exact coordinates.    *)
(*                                                                         *)
(* Geometry is one-dimensional: a mesh is the shape of a muscle or a bone, *)
(* its position in multiples of the tolerance, and how far it is bent.  In *)
(* its rest pose a muscle, its curve and the reference point of the curve  *)
(* are at 0.  vtkMEDPolyDataDeformationPK and the hull VMEs of the scene   *)
(* are known from their use.                                               *)
(***************************************************************************)
EXTENDS Integers, SequencesExt

CONSTANTS
    Muscles,    \* the muscles, with one wrapper each
    Bones,      \* the sequence of the bones
    Poses,      \* the positions of the current pose: curves and bones
    Origins,    \* the positions of the reference points of the curves in the current pose
    Shifts,     \* the transforms of the rest pose to the pelvis; 0 is none
    StepCounts, \* the values of m_InterpolateStepCount
    Progressives, \* the values of m_UseProgressiveHulls
    MaxCached,  \* bound on the inputs in the cache
    None,       \* no hull, no coarse mesh, no redraw
    Removed     \* a hull that the scene had and has no more

Things == Muscles \cup ToSet(Bones)
Meshes == [of : Things, at : Int, bent : Int]

ASSUME StepCountAssumption == StepCounts \subseteq Nat \ {0}
ASSUME ThingsAssumption ==
    IsFiniteSet(Muscles) /\ Bones \in Seq(ToSet(Bones)) /\ Muscles \cap ToSet(Bones) = {}
ASSUME PositionsAssumption == Poses \subseteq Int /\ Origins \subseteq Int /\ Shifts \subseteq Int
ASSUME NoneAssumption == None # Removed /\ None \notin Meshes /\ Removed \notin Meshes

VARIABLES
    pose,      \* the position of the current pose
    origin,    \* RefSysOrigin, the position of the reference points in it
    shift,     \* the transform of the rest pose
    hull,      \* the hulls in the scene, in the rest pose
    cached,    \* the stored inputs and outputs, each with the hulls that its redraw has left
    deformed,  \* m_pDeformedMuscle in the group redrawn last, if nothing has moved since
    stopped    \* why the program has stopped, if it has

scene == <<pose, origin, shift>>
vars == <<pose, origin, shift, hull, cached, deformed, stopped>>

-----------------------------------------------------------------------------
(* Meshes.                                                                 *)

Mesh(of, at) == [of |-> of, at |-> at, bent |-> 0]
Moved(mesh, by) == [mesh EXCEPT !.at = @ + by]

Close(x, y) == x - y \in -1..1
Near(m, n) == m.of = n.of /\ Close(m.at, n.at) /\ Close(m.bent, n.bent)

Init ==
    /\ pose \in Poses
    /\ origin \in Origins
    /\ shift \in Shifts
    /\ hull = [x \in Things |-> None]
    /\ cached = {}
    /\ deformed = None
    /\ stopped = "no"

-----------------------------------------------------------------------------
(* The input of the filter: the muscles of the group, then the bones.      *)

CoarseMesh(x, by) == IF hull[x] \in {None, Removed} THEN None ELSE Moved(hull[x], by)

\* The correspondence of the curves (pCCList) is the same in every input.
MusclePart(m) ==
    [mesh |-> Mesh(m, shift), coarse |-> CoarseMesh(m, shift), lines |-> <<shift, pose>>, rso |-> origin]

BonePart(b) == [mesh |-> Mesh(b, pose), coarse |-> CoarseMesh(b, pose), lines |-> <<>>, rso |-> 0]

Inputs(group, prevent) ==
    [i \in DOMAIN group |-> MusclePart(group[i])]
        \o IF prevent THEN [i \in DOMAIN Bones |-> BonePart(Bones[i])] ELSE <<>>

\* ExecuteMultiData of the superclass computes the coarse meshes that are missing.
Completed(parts) ==
    [i \in DOMAIN parts |-> [parts[i] EXCEPT !.coarse = IF @ = None THEN parts[i].mesh ELSE @]]

\* It bends the i-th mesh from the first to the second curve, turned as the reference point
\* of that says, clear of the bones.
OutputMesh(parts, i) ==
    LET p == parts[i]
    IN  [mesh |-> [p.mesh EXCEPT !.bent = @ + p.lines[2] - p.lines[1]],
         turned |-> p.rso,
         clearOf |-> {q.mesh : q \in {r \in ToSet(parts) : r.lines = <<>>}}]

OutputMeshes(parts) ==
    [i \in {j \in DOMAIN parts : parts[j].lines # <<>>} |-> OutputMesh(parts, i)]

-----------------------------------------------------------------------------
(* The manipulation functions.                                             *)

\* The coordinates of a part are added up, whatever they belong to.
Coordinates(p) == p.mesh.at + FoldSeq(+, 0, p.lines)

InputHashCountingCoarse(parts) ==
    FoldSeq(LAMBDA p, sum : sum + Coordinates(p) + IF p.coarse = None THEN 0 ELSE 1, 0, parts)

\* Coarse meshes do not count.
InputHash(parts) == FoldSeq(LAMBDA p, sum : sum + Coordinates(p), 0, parts)

ComparePartWithoutLines(p, q) ==
    IF ~Near(p.mesh, q.mesh) THEN "different"
    ELSE IF None \in {p.coarse, q.coarse} THEN "no mesh"
    ELSE IF Near(p.coarse, q.coarse) THEN "equal" ELSE "different"

\* Two parts with meshes close to each other must both have a coarse mesh.
ComparePart(p, q) ==
    IF ~Near(p.mesh, q.mesh) THEN "different"
    ELSE IF None \in {p.coarse, q.coarse} THEN "no mesh"
    ELSE IF /\ Near(p.coarse, q.coarse)
            /\ Len(p.lines) = Len(q.lines)
            /\ \A k \in DOMAIN p.lines : Close(p.lines[k], q.lines[k])
            /\ Close(p.rso, q.rso)
         THEN "equal" ELSE "different"

\* The meshes of an input; its other parts are obstacles.
MeshCount(parts) == Cardinality({i \in DOMAIN parts : parts[i].lines # <<>>})

\* Parts are compared in turn, up to the first that is not equal: the meshes if they are as
\* many, and then the obstacles if they are.
EqualFunction(a, b) ==
    LET meshes == MeshCount(a.parts)
        compared == IF Len(a.parts) = Len(b.parts) THEN DOMAIN a.parts ELSE 1..meshes
        result == [i \in compared |-> ComparePart(a.parts[i], b.parts[i])]
        reached == {i \in compared : \A j \in 1..(i - 1) : result[j] = "equal"}
    IN  IF meshes # MeshCount(b.parts) THEN "different"
        ELSE IF \E i \in reached : result[i] = "no mesh" THEN "no mesh"
        ELSE IF /\ Len(a.parts) = Len(b.parts)
                /\ \A i \in compared : result[i] = "equal"
                /\ a.progressive = b.progressive
             THEN "equal" ELSE "different"

\* What comparing the input with the stored ones of its hash may come to.
Outcomes(input) ==
    {EqualFunction(d.input, input) : d \in {e \in cached : e.hash = InputHash(input.parts)}}

\* The copy of an input is made after the deformation has completed it.
InitInput(input) == [input EXCEPT !.parts = Completed(@)]

-----------------------------------------------------------------------------
(* The PK method, through the cache.                                       *)

Input(group, prevent, progressive) ==
    [parts |-> Inputs(group, prevent), progressive |-> progressive]

\* The output meshes are copied to the wrappers of the group, in its order.
SetDeformed(group, method, prevent, meshes) ==
    deformed' = [method |-> method, prevent |-> prevent,
                 mesh |-> [m \in ToSet(group) |->
                              meshes[CHOOSE i \in DOMAIN group : group[i] = m]]]

StoreHullsInPlace(parts, completed) ==
    hull' = [x \in Things |->
        LET new == {i \in DOMAIN parts : parts[i].mesh.of = x /\ parts[i].coarse = None}
        IN  IF new = {} THEN hull[x] ELSE completed[CHOOSE i \in new : TRUE].coarse]

StoreHullsForgotten(parts, completed) == UNCHANGED hull

\* Hulls that were not handed over are taken from the filter, and moved back.
StoreHulls(parts, completed) ==
    hull' = [x \in Things |->
        LET new == {i \in DOMAIN parts : parts[i].mesh.of = x /\ parts[i].coarse = None}
        IN  IF new = {} THEN hull[x]
            ELSE Moved(completed[CHOOSE i \in new : TRUE].coarse,
                       IF x \in Muscles THEN -shift ELSE -pose)]

\* A hit.  The coarse meshes of the filter are the ones that were handed over.
DeformCached(group, prevent, progressive) ==
    LET input == Input(group, prevent, progressive)
    IN  \E d \in cached :
            /\ d.hash = InputHash(input.parts)
            /\ EqualFunction(d.input, input) = "equal"
            /\ SetDeformed(group, "PK", prevent, d.output)
            /\ StoreHulls(input.parts, input.parts)
            /\ UNCHANGED <<scene, cached, stopped>>

\* A miss.  The completed input is stored under the hash from before, or not at all, if the
\* deformation was too quick or its data are too big.
DeformMissed(group, prevent, progressive, store) ==
    LET input == Input(group, prevent, progressive)
        meshes == OutputMeshes(input.parts)
        copy == InitInput(input)
    IN  /\ Outcomes(input) \subseteq {"different"}
        /\ store => Cardinality(cached) < MaxCached
        /\ SetDeformed(group, "PK", prevent, meshes)
        /\ StoreHulls(input.parts, copy.parts)
        /\ cached' = cached \cup
              IF store
              THEN {[hash |-> InputHash(input.parts), input |-> copy, output |-> meshes,
                     hulls |-> [x \in {p.mesh.of : p \in ToSet(copy.parts)} |-> hull'[x]]]}
              ELSE {}
        /\ UNCHANGED <<scene, stopped>>

\* The comparison calls a method of a coarse mesh that is not there.
DeformStops(group, prevent, progressive) ==
    /\ "no mesh" \in Outcomes(Input(group, prevent, progressive))
    /\ stopped' = "no coarse mesh"
    /\ UNCHANGED <<scene, hull, cached, deformed>>

Evict(d) ==
    /\ cached' = cached \ {d}
    /\ UNCHANGED <<scene, hull, deformed, stopped>>

-----------------------------------------------------------------------------
(* The interpolation by steps of the PK method, without the cache.         *)

\* The k-th of n positions on the way from the rest pose to the current pose.
Interpolated(k, n) == shift + (k * (pose - shift)) \div n

\* The input of the last of n steps.  From the second step on a muscle is deformed further,
\* and the filter has to compute the coarse mesh of what is deformed so far.  The reference
\* point goes beyond the one of the current pose.
LastStep(group, n) ==
    [i \in DOMAIN group |->
        [mesh |-> [Mesh(group[i], shift) EXCEPT !.bent = Interpolated(n - 1, n) - shift],
         coarse |-> IF n = 1 THEN CoarseMesh(group[i], shift) ELSE None,
         lines |-> <<Interpolated(n - 1, n), Interpolated(n, n)>>,
         rso |-> origin + (origin - shift) \div n]]

\* The hulls of the muscles are stored as above, and those that were there are deleted
\* without being taken out of the scene, which may find them as they were, or gone.  The
\* hulls of the bones are stored if the array that says so, which is not initialized,
\* happens to, from the first step or from the last.
DeformInterpolated(group, n) ==
    LET parts == LastStep(group, n) \o [i \in DOMAIN Bones |-> BonePart(Bones[i])]
        present == {x \in ToSet(group) : hull[x] \notin {None, Removed}}
    IN  /\ shift # 0
        /\ SetDeformed(group, "interpolation", TRUE, OutputMeshes(parts))
        /\ \E stored \in SUBSET ToSet(Bones), k \in {1, n}, gone \in SUBSET present :
              hull' = [x \in Things |->
                IF x \in stored THEN Mesh(x, Interpolated(k, n) - pose)
                ELSE IF x \in gone THEN Removed
                ELSE IF x \in ToSet(group) \ present
                THEN LET i == CHOOSE j \in DOMAIN group : group[j] = x
                     IN  Moved(Completed(parts)[i].coarse, -shift)
                ELSE hull[x]]
        /\ UNCHANGED <<scene, cached, stopped>>

\* Without a transform of the rest pose, or without bones, arrays that were never filled
\* are used and freed; a hull that is deleted in the scene may end the program as well.
InterpolationStops(group, prevent) ==
    /\ \/ shift = 0 \/ ~prevent
       \/ \E x \in ToSet(group) : hull[x] \notin {None, Removed}
    /\ stopped' = "undefined"
    /\ UNCHANGED <<scene, hull, cached, deformed>>

-----------------------------------------------------------------------------
(* The user.                                                               *)

Move(p, o, s) ==
    /\ <<p, o, s>> # scene
    /\ pose' = p
    /\ origin' = o
    /\ shift' = s
    /\ deformed' = None
    /\ UNCHANGED <<hull, cached, stopped>>

RemoveHull(x) ==
    /\ hull[x] \notin {None, Removed}
    /\ hull' = [hull EXCEPT ![x] = Removed]
    /\ UNCHANGED <<scene, cached, deformed, stopped>>

\* The groups of a master and its slaves; alone a wrapper needs no model to be in.
Groups == UNION {SetToSeqs(S) : S \in SUBSET Muscles \ {{}}}
Prevented(group) == IF Len(group) > 1 THEN {TRUE} ELSE BOOLEAN

Next ==
    /\ stopped = "no"
    /\ \/ \E g \in Groups, progressive \in Progressives : \E prevent \in Prevented(g) :
            \/ DeformCached(g, prevent, progressive)
            \/ \E store \in BOOLEAN : DeformMissed(g, prevent, progressive, store)
            \/ DeformStops(g, prevent, progressive)
       \/ \E g \in Groups, n \in StepCounts : DeformInterpolated(g, n)
       \/ \E g \in Groups : \E prevent \in Prevented(g) : InterpolationStops(g, prevent)
       \/ \E d \in cached : Evict(d)
       \/ \E p \in Poses, o \in Origins, s \in Shifts : Move(p, o, s)
       \/ \E x \in Things : RemoveHull(x)

Spec == Init /\ [][Next]_vars

-----------------------------------------------------------------------------
(* Properties.                                                             *)

\* After a redraw every wrapper of the group has its own muscle, deformed from the rest
\* pose of now to the current pose of now and clear of the bones of now, up to the
\* tolerance, whether it was computed, interpolated or found in the cache, and whoever was
\* the master then: tolerances do not add up, meshes are not taken for each other's.  Except
\* where it was interpolated, it is turned as the reference point of now says.
AnswerForAsked ==
    deformed # None =>
        \A m \in DOMAIN deformed.mesh :
            LET d == deformed.mesh[m]
            IN  /\ d.mesh.of = m
                /\ Close(d.mesh.at, shift)
                /\ Close(d.mesh.at + d.mesh.bent, pose)
                /\ deformed.method = "PK" => Close(d.turned, origin)
                /\ {b.of : b \in d.clearOf} = IF deformed.prevent THEN ToSet(Bones) ELSE {}
                /\ \A b \in d.clearOf : Close(b.at, pose)

\* A hull that a redraw stores is the hull of the rest pose, whatever the transform was when
\* it was computed ("Hull was computed in RP' position => transform it it RP").  An
\* interpolation in several steps does not keep to it: it stores hulls of muscles deformed
\* half-way, and of bones on their way.
HullsOfRestPose ==
    [][\/ \A x \in Things : hull'[x] \in {hull[x], Removed, Mesh(x, 0)}
       \/ \E g \in Groups, n \in StepCounts \ {1} : DeformInterpolated(g, n)]_vars

\* The input that a master would make now is found, if it is one that was stored and the
\* scene has the hulls that the redraw had left that stored it: those it had computed itself
\* went through the scene, to and from the rest pose, and are the ones it was stored with.
FoundAgain ==
    \A d \in cached, g \in Groups : \A prevent \in Prevented(g) :
        LET parts == Inputs(g, prevent)
            stored == d.input.parts
        IN  /\ Len(parts) = Len(stored)
            /\ \A i \in DOMAIN parts :
                  /\ parts[i].mesh = stored[i].mesh /\ parts[i].lines = stored[i].lines
                  /\ parts[i].rso = stored[i].rso
                  /\ hull[parts[i].mesh.of] = d.hulls[parts[i].mesh.of]
            => /\ d.hash = InputHash(parts)
               /\ EqualFunction(d.input, [d.input EXCEPT !.parts = parts]) = "equal"

\* The comparison of inputs meets a missing coarse mesh only if the scene had a hull and has
\* it no more, because the user has removed it or an interpolation deleted it: not at the
\* first redraw, not after another master's.
StopsOnlyWithoutHull ==
    stopped = "no coarse mesh" => \E x \in Things : hull[x] = Removed

=============================================================================
