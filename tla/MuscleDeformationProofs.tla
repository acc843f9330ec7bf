---------------------- MODULE MuscleDeformationProofs ----------------------
(***************************************************************************)
(* Proofs about MuscleDeformation, for every set of muscles and bones,     *)
(* every position and any number of stored inputs: what is found in the    *)
(* cache is what was asked for, what is asked for again is found, and      *)
(* hulls are stored where they belong.                                     *)
(***************************************************************************)
EXTENDS MuscleDeformation, FiniteSetTheorems, SequenceTheorems, TLAPS

-----------------------------------------------------------------------------
(* Types.                                                                  *)

Part == [mesh : Meshes, coarse : Meshes \cup {None}, lines : Seq(Int), rso : Int]

\* A straight mesh, and for a muscle the curve of its rest pose at the same position.
Proper(parts) ==
    /\ parts \in Seq(Part)
    /\ \A i \in DOMAIN parts :
          /\ parts[i].mesh.bent = 0
          /\ \/ parts[i].lines = <<>>
             \/ \E k \in Int : parts[i].lines = <<parts[i].mesh.at, k>>

SceneOK ==
    /\ pose \in Int
    /\ origin \in Int
    /\ shift \in Int
    /\ hull \in [Things -> Meshes \cup {None, Removed}]

LEMMA GroupType ==
    ASSUME NEW group \in Groups
    PROVE  /\ group \in Seq(Muscles)
           /\ ToSet(group) = {group[i] : i \in DOMAIN group}
  <1>1. PICK S \in SUBSET Muscles : group \in SetToSeqs(S)
    BY DEF Groups
  <1>2. Cardinality(S) \in Nat
    BY <1>1, ThingsAssumption, FS_Subset, FS_CardinalityType
  <1>3. group \in [1..Cardinality(S) -> S]
    BY <1>1 DEF SetToSeqs
  <1>4. group \in [1..Cardinality(S) -> Muscles]
    BY <1>1, <1>3
  <1> QED
    BY <1>2, <1>4 DEF ToSet

LEMMA BonesType ==
    /\ Bones \in Seq(Things)
    /\ \A i \in DOMAIN Bones : Bones[i] \in ToSet(Bones) /\ Bones[i] \notin Muscles
  <1>1. \A i \in DOMAIN Bones : Bones[i] \in ToSet(Bones)
    BY DEF ToSet
  <1> QED
    BY <1>1, ThingsAssumption DEF Things

LEMMA MeshType ==
    ASSUME NEW x \in Things, NEW at \in Int
    PROVE  /\ Mesh(x, at) \in Meshes
           /\ Mesh(x, at).of = x /\ Mesh(x, at).at = at /\ Mesh(x, at).bent = 0
  BY DEF Mesh, Meshes

LEMMA MovedType ==
    ASSUME NEW mesh \in Meshes, NEW by \in Int
    PROVE  Moved(mesh, by) \in Meshes
  BY DEF Moved, Meshes

LEMMA MovedMesh ==
    ASSUME NEW x \in Things, NEW at \in Int, NEW by \in Int
    PROVE  Moved(Mesh(x, at), by) = Mesh(x, at + by)
  BY DEF Moved, Mesh

LEMMA PartType ==
    ASSUME NEW mesh \in Meshes, NEW coarse \in Meshes \cup {None}, NEW lines \in Seq(Int),
           NEW rso \in Int
    PROVE  [mesh |-> mesh, coarse |-> coarse, lines |-> lines, rso |-> rso] \in Part
  BY DEF Part

LEMMA PartTypes ==
    ASSUME SceneOK
    PROVE  /\ \A m \in Muscles : MusclePart(m) \in Part
           /\ \A b \in ToSet(Bones) : BonePart(b) \in Part
  <1>1. ASSUME NEW x \in Things, NEW by \in Int
        PROVE  CoarseMesh(x, by) \in Meshes \cup {None}
    BY MovedType DEF CoarseMesh, SceneOK
  <1>2. ASSUME NEW m \in Muscles
        PROVE  MusclePart(m) \in Part
    <2>1. m \in Things
      BY DEF Things
    <2>2. Mesh(m, shift) \in Meshes /\ CoarseMesh(m, shift) \in Meshes \cup {None}
      BY <1>1, <2>1, MeshType DEF SceneOK
    <2>3. <<shift, pose>> \in Seq(Int) /\ origin \in Int
      BY DEF SceneOK
    <2>4. MusclePart(m) = [mesh |-> Mesh(m, shift), coarse |-> CoarseMesh(m, shift),
                           lines |-> <<shift, pose>>, rso |-> origin]
      BY DEF MusclePart
    <2> QED
      BY <2>2, <2>3, <2>4, PartType
  <1>3. ASSUME NEW b \in ToSet(Bones)
        PROVE  BonePart(b) \in Part
    <2>1. b \in Things
      BY DEF Things
    <2>2. Mesh(b, pose) \in Meshes /\ CoarseMesh(b, pose) \in Meshes \cup {None}
      BY <1>1, <2>1, MeshType DEF SceneOK
    <2>3. <<>> \in Seq(Int) /\ 0 \in Int
      OBVIOUS
    <2>4. BonePart(b) = [mesh |-> Mesh(b, pose), coarse |-> CoarseMesh(b, pose),
                         lines |-> <<>>, rso |-> 0]
      BY DEF BonePart
    <2> QED
      BY <2>2, <2>3, <2>4, PartType
  <1> QED
    BY <1>2, <1>3

\* The input: the muscles of the group in its order, then the bones.
LEMMA InputsEffect ==
    ASSUME SceneOK, NEW group \in Groups, NEW prevent \in BOOLEAN
    PROVE  /\ Inputs(group, prevent) \in Seq(Part)
           /\ Len(Inputs(group, prevent)) = Len(group) + IF prevent THEN Len(Bones) ELSE 0
           /\ \A i \in 1..Len(group) : Inputs(group, prevent)[i] = MusclePart(group[i])
           /\ \A i \in 1..Len(Inputs(group, prevent)) : i > Len(group) =>
                 /\ i - Len(group) \in 1..Len(Bones)
                 /\ Inputs(group, prevent)[i] = BonePart(Bones[i - Len(group)])
  <1> DEFINE muscles == [i \in DOMAIN group |-> MusclePart(group[i])]
             bones == [i \in DOMAIN Bones |-> BonePart(Bones[i])]
             rest == IF prevent THEN bones ELSE <<>>
  <1>1. /\ group \in Seq(Muscles)
        /\ \A i \in DOMAIN group : group[i] \in Muscles
        /\ DOMAIN group = 1..Len(group)
        /\ Len(group) \in Nat
    BY GroupType
  <1>2. muscles \in Seq(Part) /\ Len(muscles) = Len(group)
    BY <1>1, PartTypes
  <1>3. /\ DOMAIN Bones = 1..Len(Bones)
        /\ Len(Bones) \in Nat
        /\ \A i \in DOMAIN Bones : Bones[i] \in ToSet(Bones)
    BY BonesType
  <1>4. bones \in Seq(Part) /\ Len(bones) = Len(Bones)
    BY <1>3, PartTypes
  <1>5. rest \in Seq(Part) /\ Len(rest) = IF prevent THEN Len(Bones) ELSE 0
    BY <1>4
  <1>6. Inputs(group, prevent) = muscles \o rest
    BY DEF Inputs
  <1>7. \A i \in 1..Len(group) : muscles[i] = MusclePart(group[i])
    BY <1>1
  <1>8. \A i \in 1..Len(rest) : prevent /\ i \in 1..Len(Bones) /\ rest[i] = BonePart(Bones[i])
    BY <1>3, <1>4, <1>5
  <1> HIDE DEF muscles, rest
  <1>9. /\ muscles \o rest \in Seq(Part)
        /\ Len(muscles \o rest) = Len(muscles) + Len(rest)
        /\ \A i \in 1..(Len(muscles) + Len(rest)) :
              (muscles \o rest)[i] = IF i <= Len(muscles) THEN muscles[i]
                                     ELSE rest[i - Len(muscles)]
    BY <1>2, <1>5, ConcatProperties
  <1>10. \A i \in 1..Len(group) : (muscles \o rest)[i] = muscles[i]
    BY <1>1, <1>2, <1>5, <1>9
  <1>11. ASSUME NEW i \in 1..Len(muscles \o rest), i > Len(group)
         PROVE  /\ i - Len(group) \in 1..Len(rest)
                /\ (muscles \o rest)[i] = rest[i - Len(group)]
    BY <1>1, <1>2, <1>5, <1>9, <1>11
  <1> QED
    BY <1>2, <1>5, <1>6, <1>7, <1>8, <1>9, <1>10, <1>11

\* The same, part by part.
LEMMA InputParts ==
    ASSUME SceneOK, NEW group \in Groups, NEW prevent \in BOOLEAN,
           NEW i \in DOMAIN Inputs(group, prevent)
    PROVE  LET p == Inputs(group, prevent)[i]
           IN  \/ /\ i \in DOMAIN group /\ group[i] \in Muscles
                  /\ p = MusclePart(group[i])
               \/ /\ i \notin DOMAIN group /\ prevent
                  /\ \E b \in ToSet(Bones) : p = BonePart(b)
  <1>1. /\ DOMAIN Inputs(group, prevent) = 1..Len(Inputs(group, prevent))
        /\ group \in Seq(Muscles) /\ DOMAIN group = 1..Len(group) /\ Len(group) \in Nat
    BY InputsEffect, GroupType
  <1>2. CASE i \in DOMAIN group
    BY <1>1, <1>2, InputsEffect
  <1>3. CASE i \notin DOMAIN group
    <2>1. i > Len(group)
      BY <1>1, <1>3
    <2>2. /\ i - Len(group) \in 1..Len(Bones)
          /\ Inputs(group, prevent)[i] = BonePart(Bones[i - Len(group)])
      BY <1>1, <2>1, InputsEffect
    <2>3. Bones[i - Len(group)] \in ToSet(Bones)
      BY <2>2, BonesType
    <2>4. prevent
      <3>1. CASE prevent = FALSE
        BY <1>1, <2>1, <3>1, InputsEffect
      <3> QED
        BY <3>1
    <2> QED
      BY <1>3, <2>2, <2>3, <2>4
  <1> QED
    BY <1>2, <1>3

\* A bone has its part if penetrations are to be prevented.
LEMMA BonesHandedOver ==
    ASSUME SceneOK, NEW group \in Groups, NEW prevent \in BOOLEAN, prevent, NEW b \in ToSet(Bones)
    PROVE  \E i \in DOMAIN Inputs(group, prevent) : Inputs(group, prevent)[i] = BonePart(b)
  <1>1. PICK k \in DOMAIN Bones : Bones[k] = b
    BY DEF ToSet
  <1>2. k \in 1..Len(Bones) /\ Len(Bones) \in Nat /\ Len(group) \in Nat
    BY BonesType, GroupType
  <1> DEFINE n == Len(group)
             asked == Inputs(group, prevent)
  <1>3. /\ asked \in Seq(Part)
        /\ Len(asked) = n + Len(Bones)
        /\ \A j \in 1..Len(asked) : j > n => asked[j] = BonePart(Bones[j - n])
    BY InputsEffect
  <1> HIDE DEF n, asked
  <1>4. n \in Nat
    BY <1>2 DEF n
  <1>5. n + k \in 1..Len(asked) /\ n + k > n /\ (n + k) - n = k
    BY <1>2, <1>3, <1>4
  <1>6. asked[n + k] = BonePart(b) /\ n + k \in DOMAIN asked
    BY <1>1, <1>3, <1>5
  <1> QED
    BY <1>6 DEF asked

LEMMA InputsProper ==
    ASSUME SceneOK, NEW group \in Groups, NEW prevent \in BOOLEAN
    PROVE  Proper(Inputs(group, prevent))
  <1>1. ASSUME NEW i \in DOMAIN Inputs(group, prevent)
        PROVE  LET p == Inputs(group, prevent)[i]
               IN  /\ p.mesh.bent = 0
                   /\ \/ p.lines = <<>>
                      \/ \E k \in Int : p.lines = <<p.mesh.at, k>>
    <2>1. ASSUME NEW m \in Muscles
          PROVE  LET p == MusclePart(m)
                 IN  p.mesh.bent = 0 /\ p.lines = <<p.mesh.at, pose>>
      BY MeshType DEF MusclePart, SceneOK, Things
    <2>2. ASSUME NEW b \in ToSet(Bones)
          PROVE  LET p == BonePart(b)
                 IN  p.mesh.bent = 0 /\ p.lines = <<>>
      BY MeshType DEF BonePart, SceneOK, Things
    <2> QED
      BY <2>1, <2>2, InputParts DEF SceneOK
  <1> QED
    BY <1>1, InputsEffect DEF Proper

-----------------------------------------------------------------------------
(* The answer.                                                             *)

\* Parts that could stand for those asked for.
Matches(stored, asked) ==
    /\ Len(stored) = Len(asked)
    /\ \A i \in 1..Len(asked) :
          /\ Near(stored[i].mesh, asked[i].mesh)
          /\ Len(stored[i].lines) = Len(asked[i].lines)
          /\ \A k \in DOMAIN stored[i].lines : Close(stored[i].lines[k], asked[i].lines[k])
          /\ Close(stored[i].rso, asked[i].rso)

\* What the deformation of m has to be, with the PK method in one step or by interpolation.
Right(d, m, method, prevent) ==
    /\ d.mesh.of = m
    /\ Close(d.mesh.at, shift)
    /\ Close(d.mesh.at + d.mesh.bent, pose)
    /\ method = "PK" => Close(d.turned, origin)
    /\ {b.of : b \in d.clearOf} = IF prevent THEN ToSet(Bones) ELSE {}
    /\ \A b \in d.clearOf : Close(b.at, pose)

LEMMA MatchMuscle ==
    ASSUME SceneOK, NEW m \in Muscles, NEW p \in Part, p.mesh.bent = 0,
           p.lines = <<>> \/ \E k \in Int : p.lines = <<p.mesh.at, k>>,
           Near(p.mesh, MusclePart(m).mesh),
           Len(p.lines) = Len(MusclePart(m).lines),
           \A k \in DOMAIN p.lines : Close(p.lines[k], MusclePart(m).lines[k]),
           Close(p.rso, MusclePart(m).rso)
    PROVE  /\ p.mesh.of = m
           /\ Close(p.mesh.at, shift)
           /\ p.lines # <<>>
           /\ p.lines[1] = p.mesh.at
           /\ p.lines[2] \in Int
           /\ Close(p.lines[2], pose)
           /\ Close(p.rso, origin)
  <1>1. /\ MusclePart(m).mesh.of = m /\ MusclePart(m).mesh.at = shift
        /\ MusclePart(m).lines = <<shift, pose>> /\ MusclePart(m).rso = origin
    BY MeshType DEF MusclePart, SceneOK, Things
  <1>2. Len(p.lines) = 2 /\ p.lines # <<>>
    BY <1>1
  <1>3. PICK k \in Int : p.lines = <<p.mesh.at, k>>
    BY <1>2
  <1>4. 2 \in DOMAIN p.lines /\ p.lines[2] = k /\ p.lines[1] = p.mesh.at
    BY <1>3
  <1>5. Close(p.lines[2], pose)
    BY <1>1, <1>4
  <1>6. p.mesh.of = m /\ Close(p.mesh.at, shift)
    BY <1>1 DEF Near
  <1> QED
    BY <1>1, <1>2, <1>4, <1>5, <1>6

LEMMA MatchBone ==
    ASSUME SceneOK, NEW b \in ToSet(Bones), NEW p \in Part,
           Near(p.mesh, BonePart(b).mesh),
           Len(p.lines) = Len(BonePart(b).lines)
    PROVE  p.mesh.of = b /\ Close(p.mesh.at, pose) /\ p.lines = <<>>
  <1>1. /\ BonePart(b).mesh.of = b /\ BonePart(b).mesh.at = pose
        /\ BonePart(b).lines = <<>>
    BY MeshType DEF BonePart, SceneOK, Things
  <1>2. p.lines \in Seq(Int) /\ Len(p.lines) = 0
    BY <1>1 DEF Part
  <1>3. p.lines = <<>>
    BY <1>2, EmptySeq
  <1> QED
    BY <1>1, <1>3 DEF Near

\* Whatever stored parts match the input, the group gets from them what it asked for:
\* its own muscles, each a tolerance off at most, clear of all bones or of none.
LEMMA RightAnswer ==
    ASSUME SceneOK, NEW group \in Groups, NEW prevent \in BOOLEAN, NEW stored,
           Proper(stored), Matches(stored, Inputs(group, prevent)),
           NEW i \in DOMAIN group
    PROVE  /\ i \in DOMAIN OutputMeshes(stored)
           /\ Right(OutputMeshes(stored)[i], group[i], "PK", prevent)
  <1> DEFINE asked == Inputs(group, prevent)
             n == Len(group)
             p == stored[i]
             d == OutputMesh(stored, i)
  <1>1. /\ asked \in Seq(Part) /\ stored \in Seq(Part)
        /\ Len(stored) = Len(asked)
        /\ DOMAIN stored = 1..Len(asked) /\ DOMAIN asked = 1..Len(asked)
    BY InputsEffect DEF Proper, Matches
  <1>2. ASSUME NEW j \in DOMAIN asked
        PROVE  \/ /\ j \in DOMAIN group /\ group[j] \in Muscles
                  /\ stored[j].mesh.of = group[j]
                  /\ Close(stored[j].mesh.at, shift)
                  /\ stored[j].lines # <<>>
                  /\ stored[j].lines[1] = stored[j].mesh.at
                  /\ stored[j].lines[2] \in Int
                  /\ Close(stored[j].lines[2], pose)
                  /\ Close(stored[j].rso, origin)
               \/ /\ j \notin DOMAIN group /\ prevent
                  /\ stored[j].lines = <<>>
                  /\ Close(stored[j].mesh.at, pose)
                  /\ stored[j].mesh.of \in ToSet(Bones)
                  /\ asked[j] = BonePart(stored[j].mesh.of)
    <2> DEFINE q == stored[j]
    <2>1. /\ q \in Part /\ q.mesh.bent = 0
          /\ q.lines = <<>> \/ \E k \in Int : q.lines = <<q.mesh.at, k>>
          /\ Near(q.mesh, asked[j].mesh)
          /\ Len(q.lines) = Len(asked[j].lines)
          /\ \A k \in DOMAIN q.lines : Close(q.lines[k], asked[j].lines[k])
          /\ Close(q.rso, asked[j].rso)
      BY <1>1 DEF Proper, Matches
    <2>2. \/ /\ j \in DOMAIN group /\ group[j] \in Muscles
             /\ asked[j] = MusclePart(group[j])
          \/ /\ j \notin DOMAIN group /\ prevent
             /\ \E b \in ToSet(Bones) : asked[j] = BonePart(b)
      BY InputParts
    <2> HIDE DEF q, asked
    <2>3. CASE j \in DOMAIN group
      <3>1. group[j] \in Muscles /\ asked[j] = MusclePart(group[j])
        BY <2>2, <2>3
      <3>2. /\ q.mesh.of = group[j]
            /\ Close(q.mesh.at, shift)
            /\ q.lines # <<>>
            /\ q.lines[1] = q.mesh.at
            /\ q.lines[2] \in Int
            /\ Close(q.lines[2], pose)
            /\ Close(q.rso, origin)
        BY <2>1, <3>1, MatchMuscle
      <3> QED
        BY <2>3, <3>1, <3>2 DEF q
    <2>4. CASE j \notin DOMAIN group
      <3>1. PICK b \in ToSet(Bones) : asked[j] = BonePart(b)
        BY <2>2, <2>4
      <3>2. q.mesh.of = b /\ Close(q.mesh.at, pose) /\ q.lines = <<>>
        BY <2>1, <3>1, MatchBone
      <3> QED
        BY <2>2, <2>4, <3>1, <3>2 DEF q
    <2> QED
      BY <2>3, <2>4
  <1>3. i \in DOMAIN asked
    BY InputsEffect, GroupType
  <1>4. /\ group[i] \in Muscles /\ p.mesh.of = group[i]
        /\ Close(p.mesh.at, shift) /\ p.lines # <<>>
        /\ p.lines[1] = p.mesh.at /\ p.lines[2] \in Int /\ Close(p.lines[2], pose)
        /\ Close(p.rso, origin)
    BY <1>2, <1>3
  <1>5. p \in Part /\ p.mesh.bent = 0
    BY <1>1, <1>3 DEF Proper
  <1>6. i \in DOMAIN OutputMeshes(stored) /\ OutputMeshes(stored)[i] = d
    BY <1>1, <1>3, <1>4 DEF OutputMeshes
  <1>7. d.mesh = [p.mesh EXCEPT !.bent = @ + p.lines[2] - p.lines[1]] /\ d.turned = p.rso
    BY DEF OutputMesh
  <1>8. d.mesh.of = group[i] /\ d.mesh.at = p.mesh.at /\ d.mesh.at + d.mesh.bent = p.lines[2]
    <2>1. p.mesh \in Meshes
      BY <1>5 DEF Part
    <2> HIDE DEF p, d
    <2> QED
      BY <1>4, <1>5, <1>7, <2>1 DEF Meshes
  <1>9. ASSUME NEW b \in d.clearOf
        PROVE  prevent /\ b.of \in ToSet(Bones) /\ Close(b.at, pose)
    <2>1. PICK j \in DOMAIN stored : b = stored[j].mesh /\ stored[j].lines = <<>>
      BY DEF OutputMesh, ToSet
    <2> HIDE DEF asked, d
    <2> QED
      BY <1>1, <1>2, <2>1
  <1>10. ASSUME NEW b \in ToSet(Bones), prevent
         PROVE  \E c \in d.clearOf : c.of = b
    <2>1. PICK j \in DOMAIN asked : asked[j] = BonePart(b)
      BY <1>10, BonesHandedOver
    <2>2. /\ stored[j] \in Part
          /\ Near(stored[j].mesh, BonePart(b).mesh)
          /\ Len(stored[j].lines) = Len(BonePart(b).lines)
      BY <1>1, <2>1 DEF Matches
    <2>3. stored[j].mesh.of = b /\ stored[j].lines = <<>>
      BY <2>2, MatchBone
    <2>4. stored[j].mesh \in d.clearOf
      BY <1>1, <2>1, <2>3 DEF OutputMesh, ToSet
    <2> QED
      BY <2>3, <2>4
  <1>11. {b.of : b \in d.clearOf} = IF prevent THEN ToSet(Bones) ELSE {}
    <2> HIDE DEF d
    <2> QED
      BY <1>9, <1>10
  <1>12. Right(d, group[i], "PK", prevent)
    <2> HIDE DEF d, p
    <2> QED
      BY <1>4, <1>7, <1>8, <1>9, <1>11 DEF Right
  <1> QED
    BY <1>6, <1>12

LEMMA AnswerSet ==
    ASSUME NEW group \in Groups, NEW method, NEW prevent, NEW meshes,
           SetDeformed(group, method, prevent, meshes), UNCHANGED scene,
           \A i \in DOMAIN group : Right(meshes[i], group[i], method, prevent)
    PROVE  AnswerForAsked'
  <1>1. ASSUME NEW m \in ToSet(group)
        PROVE  Right(deformed'.mesh[m], m, method, prevent)
    <2> DEFINE i == CHOOSE j \in DOMAIN group : group[j] = m
    <2>1. \E j \in DOMAIN group : group[j] = m
      BY GroupType
    <2>2. i \in DOMAIN group /\ group[i] = m
      BY <2>1
    <2>3. deformed'.mesh[m] = meshes[i]
      BY DEF SetDeformed
    <2> HIDE DEF i
    <2> QED
      BY <2>2, <2>3
  <1>2. /\ DOMAIN deformed'.mesh = ToSet(group)
        /\ deformed'.prevent = prevent /\ deformed'.method = method
    BY DEF SetDeformed
  <1>3. shift' = shift /\ pose' = pose /\ origin' = origin
    BY DEF scene
  <1> QED
    BY <1>1, <1>2, <1>3 DEF AnswerForAsked, Right

\* Inputs that compare equal match, and lack no coarse mesh.
LEMMA EqualEffect ==
    ASSUME NEW a, NEW b, a.parts \in Seq(Part), b.parts \in Seq(Part),
           EqualFunction(a, b) = "equal"
    PROVE  /\ Matches(a.parts, b.parts)
           /\ \A i \in DOMAIN b.parts : b.parts[i].coarse # None
  <1> DEFINE result == [i \in DOMAIN a.parts |-> ComparePart(a.parts[i], b.parts[i])]
  <1>1. Len(a.parts) = Len(b.parts) /\ \A i \in DOMAIN a.parts : result[i] = "equal"
    BY DEF EqualFunction
  <1>2. DOMAIN a.parts = 1..Len(b.parts) /\ DOMAIN b.parts = 1..Len(b.parts)
    BY <1>1
  <1>3. ASSUME NEW i \in 1..Len(b.parts)
        PROVE  ComparePart(a.parts[i], b.parts[i]) = "equal"
    BY <1>1, <1>2
  <1>4. ASSUME NEW i \in 1..Len(b.parts)
        PROVE  /\ Near(a.parts[i].mesh, b.parts[i].mesh)
               /\ b.parts[i].coarse # None
               /\ Len(a.parts[i].lines) = Len(b.parts[i].lines)
               /\ \A k \in DOMAIN a.parts[i].lines :
                     Close(a.parts[i].lines[k], b.parts[i].lines[k])
               /\ Close(a.parts[i].rso, b.parts[i].rso)
    BY <1>3 DEF ComparePart
  <1> QED
    BY <1>1, <1>2, <1>4 DEF Matches

LEMMA SameDomain ==
    ASSUME NEW S, NEW s \in Seq(S), NEW t \in Seq(S), Len(s) = Len(t)
    PROVE  DOMAIN s = DOMAIN t
  OBVIOUS

LEMMA AmongFirst ==
    ASSUME NEW n \in Nat, NEW S \in SUBSET (1..n)
    PROVE  Cardinality(S) \in Nat /\ Cardinality(S) <= n
  <1>1. IsFiniteSet(1..n) /\ Cardinality(1..n) = IF 1 > n THEN 0 ELSE n - 1 + 1
    BY FS_Interval
  <1>2. Cardinality(1..n) = n
    BY <1>1
  <1>3. IsFiniteSet(S) /\ Cardinality(S) <= Cardinality(1..n)
    BY <1>1, FS_Subset
  <1> QED
    BY <1>2, <1>3, FS_CardinalityType

\* The meshes are among the parts.
LEMMA MeshCountBound ==
    ASSUME NEW parts \in Seq(Part)
    PROVE  MeshCount(parts) \in Nat /\ 1..MeshCount(parts) \subseteq DOMAIN parts
  <1> DEFINE meshes == {i \in DOMAIN parts : parts[i].lines # <<>>}
             n == Len(parts)
  <1>1. DOMAIN parts = 1..n /\ n \in Nat /\ meshes \in SUBSET (1..n)
    OBVIOUS
  <1>2. MeshCount(parts) = Cardinality(meshes)
    BY DEF MeshCount
  <1> HIDE DEF meshes, n
  <1>3. Cardinality(meshes) \in Nat /\ Cardinality(meshes) <= n
    BY <1>1, AmongFirst
  <1> QED
    BY <1>1, <1>2, <1>3

\* Only a coarse mesh that is missing stops the comparison.
LEMMA NoMeshEffect ==
    ASSUME NEW a, NEW b, a.parts \in Seq(Part), b.parts \in Seq(Part),
           EqualFunction(a, b) = "no mesh"
    PROVE  \E i \in DOMAIN a.parts :
              /\ i \in DOMAIN b.parts
              /\ a.parts[i].mesh.of = b.parts[i].mesh.of
              /\ None \in {a.parts[i].coarse, b.parts[i].coarse}
  <1> DEFINE compared == IF Len(a.parts) = Len(b.parts) THEN DOMAIN a.parts
                         ELSE 1..MeshCount(a.parts)
  <1>1. /\ MeshCount(a.parts) = MeshCount(b.parts)
        /\ \E i \in compared : ComparePart(a.parts[i], b.parts[i]) = "no mesh"
    BY DEF EqualFunction
  <1>2. PICK i \in compared : ComparePart(a.parts[i], b.parts[i]) = "no mesh"
    BY <1>1
  <1>3. i \in DOMAIN a.parts /\ i \in DOMAIN b.parts
    <2>1. CASE Len(a.parts) = Len(b.parts)
      BY <1>2, <2>1, SameDomain
    <2>2. CASE Len(a.parts) # Len(b.parts)
      BY <1>1, <1>2, <2>2, MeshCountBound
    <2> QED
      BY <2>1, <2>2
  <1> QED
    BY <1>2, <1>3 DEF ComparePart, Near

\* An input matches itself, completed.
LEMMA CompletedEffect ==
    ASSUME NEW parts, Proper(parts)
    PROVE  /\ Proper(Completed(parts))
           /\ OutputMeshes(Completed(parts)) = OutputMeshes(parts)
           /\ DOMAIN Completed(parts) = DOMAIN parts
           /\ \A i \in DOMAIN parts :
                 /\ Completed(parts)[i].mesh = parts[i].mesh
                 /\ Completed(parts)[i].lines = parts[i].lines
                 /\ Completed(parts)[i].rso = parts[i].rso
                 /\ Completed(parts)[i].coarse =
                        IF parts[i].coarse = None THEN parts[i].mesh ELSE parts[i].coarse
                 /\ Completed(parts)[i].coarse \in Meshes
  <1> DEFINE all == Completed(parts)
  <1>1. /\ DOMAIN all = DOMAIN parts /\ DOMAIN parts = 1..Len(parts) /\ Len(parts) \in Nat
        /\ \A i \in DOMAIN parts :
              all[i] = [parts[i] EXCEPT !.coarse = IF @ = None THEN parts[i].mesh ELSE @]
    BY DEF Completed, Proper
  <1> HIDE DEF all
  <1>2. ASSUME NEW i \in DOMAIN parts
        PROVE  /\ all[i] \in Part
               /\ all[i].mesh = parts[i].mesh /\ all[i].lines = parts[i].lines
               /\ all[i].rso = parts[i].rso
               /\ all[i].coarse = IF parts[i].coarse = None THEN parts[i].mesh ELSE parts[i].coarse
               /\ all[i].coarse \in Meshes
    <2>1. parts[i] \in Part
      BY DEF Proper
    <2> QED
      BY <1>1, <2>1 DEF Part
  <1>3. all \in Seq(Part)
    <2>1. all = [i \in 1..Len(parts) |-> all[i]]
      BY <1>1 DEF all, Completed
    <2> QED
      BY <1>1, <1>2, <2>1
  <1>4. Proper(all)
    BY <1>1, <1>2, <1>3 DEF Proper
  <1>5. {q.mesh : q \in {r \in ToSet(all) : r.lines = <<>>}}
          = {q.mesh : q \in {r \in ToSet(parts) : r.lines = <<>>}}
    BY <1>1, <1>2 DEF ToSet
  <1>6. ASSUME NEW i \in DOMAIN parts
        PROVE  OutputMesh(all, i) = OutputMesh(parts, i)
    BY <1>2, <1>5 DEF OutputMesh
  <1>7. OutputMeshes(all) = OutputMeshes(parts)
    <2>1. {j \in DOMAIN all : all[j].lines # <<>>} = {j \in DOMAIN parts : parts[j].lines # <<>>}
      BY <1>1, <1>2
    <2> QED
      BY <1>6, <2>1 DEF OutputMeshes
  <1> QED
    BY <1>1, <1>2, <1>4, <1>7 DEF all

-----------------------------------------------------------------------------
(* The hulls.                                                              *)

\* Where the rest pose of x is in the input.
Offset(x) == IF x \in Muscles THEN shift ELSE pose

LEMMA CoarseMeshMissing ==
    ASSUME SceneOK, NEW x \in Things, NEW by \in Int
    PROVE  CoarseMesh(x, by) = None <=> hull[x] \in {None, Removed}
  <1>1. CASE hull[x] \in {None, Removed}
    BY <1>1 DEF CoarseMesh
  <1>2. CASE hull[x] \notin {None, Removed}
    BY <1>2, MovedType, NoneAssumption DEF CoarseMesh, SceneOK
  <1> QED
    BY <1>1, <1>2

LEMMA InputHulls ==
    ASSUME SceneOK, NEW group \in Groups, NEW prevent \in BOOLEAN,
           NEW i \in DOMAIN Inputs(group, prevent)
    PROVE  LET p == Inputs(group, prevent)[i]
           IN  /\ p.mesh.of \in Things
               /\ p.mesh = Mesh(p.mesh.of, Offset(p.mesh.of))
               /\ p.mesh.at = Offset(p.mesh.of)
               /\ p.coarse = CoarseMesh(p.mesh.of, Offset(p.mesh.of))
               /\ p.coarse = None <=> hull[p.mesh.of] \in {None, Removed}
  <1>1. ASSUME NEW m \in Muscles
        PROVE  LET p == MusclePart(m)
               IN  /\ p.mesh.of = m /\ m \in Things
                   /\ p.mesh = Mesh(m, Offset(m)) /\ p.mesh.at = Offset(m)
                   /\ p.coarse = CoarseMesh(m, Offset(m))
                   /\ p.coarse = None <=> hull[m] \in {None, Removed}
    BY MeshType, CoarseMeshMissing DEF MusclePart, Offset, Things, SceneOK
  <1>2. ASSUME NEW b \in ToSet(Bones)
        PROVE  LET p == BonePart(b)
               IN  /\ p.mesh.of = b /\ b \in Things
                   /\ p.mesh = Mesh(b, Offset(b)) /\ p.mesh.at = Offset(b)
                   /\ p.coarse = CoarseMesh(b, Offset(b))
                   /\ p.coarse = None <=> hull[b] \in {None, Removed}
    <2>1. b \in Things /\ b \notin Muscles
      BY ThingsAssumption DEF Things
    <2> QED
      BY <2>1, MeshType, CoarseMeshMissing DEF BonePart, Offset, SceneOK
  <1> QED
    BY <1>1, <1>2, InputParts

\* Of the input completed, a hull stays as it was, or is stored, in the rest pose; either
\* way it gives the coarse mesh back when it is handed over again.
LEMMA HullsStored ==
    ASSUME SceneOK, NEW group \in Groups, NEW prevent \in BOOLEAN, NEW completed,
           \A i \in DOMAIN Inputs(group, prevent) :
              completed[i].coarse = IF Inputs(group, prevent)[i].coarse = None
                                    THEN Inputs(group, prevent)[i].mesh
                                    ELSE Inputs(group, prevent)[i].coarse,
           StoreHulls(Inputs(group, prevent), completed)
    PROVE  /\ hull' \in [Things -> Meshes \cup {None, Removed}]
           /\ \A x \in Things : hull'[x] \in {hull[x], Mesh(x, 0)}
           /\ \A i \in DOMAIN Inputs(group, prevent) :
                 LET p == Inputs(group, prevent)[i]
                 IN  /\ hull'[p.mesh.of] \in Meshes
                     /\ completed[i].coarse = Moved(hull'[p.mesh.of], p.mesh.at)
  <1> DEFINE asked == Inputs(group, prevent)
             New(x) == {i \in DOMAIN asked : asked[i].mesh.of = x /\ asked[i].coarse = None}
             Back(x) == IF x \in Muscles THEN -shift ELSE -pose
  <1>1. ASSUME NEW x \in Things
        PROVE  \/ New(x) = {} /\ hull'[x] = hull[x]
               \/ \E i \in New(x) : hull'[x] = Moved(completed[i].coarse, Back(x))
    <2>1. hull'[x] = IF New(x) = {} THEN hull[x]
                     ELSE Moved(completed[CHOOSE i \in New(x) : TRUE].coarse, Back(x))
      BY DEF StoreHulls
    <2> HIDE DEF New, Back
    <2>2. New(x) # {} => (CHOOSE i \in New(x) : TRUE) \in New(x)
      OBVIOUS
    <2> QED
      BY <2>1, <2>2
  <1>2. ASSUME NEW i \in DOMAIN asked
        PROVE  /\ asked[i].mesh.of \in Things
               /\ asked[i].mesh = Mesh(asked[i].mesh.of, Offset(asked[i].mesh.of))
               /\ asked[i].mesh.at = Offset(asked[i].mesh.of)
               /\ asked[i].coarse = CoarseMesh(asked[i].mesh.of, Offset(asked[i].mesh.of))
               /\ asked[i].coarse = None <=> hull[asked[i].mesh.of] \in {None, Removed}
               /\ completed[i].coarse = IF asked[i].coarse = None THEN asked[i].mesh
                                        ELSE asked[i].coarse
    BY InputHulls
  <1>3. hull' = [x \in Things |-> hull'[x]]
    BY DEF StoreHulls
  <1> HIDE DEF asked
  <1>4. ASSUME NEW x \in Things
        PROVE  Back(x) \in Int /\ Offset(x) \in Int /\ Offset(x) + Back(x) = 0
    BY DEF Offset, SceneOK
  <1> HIDE DEF Back
  <1>5. ASSUME NEW x \in Things
        PROVE  (New(x) = {} /\ hull'[x] = hull[x]) \/ hull'[x] = Mesh(x, 0)
    <2>1. ASSUME NEW i \in New(x), hull'[x] = Moved(completed[i].coarse, Back(x))
          PROVE  hull'[x] = Mesh(x, 0)
      <3>1. completed[i].coarse = Mesh(x, Offset(x))
        BY <1>2
      <3> QED
        BY <1>4, <2>1, <3>1, MovedMesh
    <2> QED
      BY <1>1, <2>1
  <1>6. hull' \in [Things -> Meshes \cup {None, Removed}]
    <2>1. \A x \in Things : hull'[x] \in Meshes \cup {None, Removed}
      BY <1>5, MeshType DEF SceneOK
    <2> QED
      BY <1>3, <2>1
  <1>7. ASSUME NEW i \in DOMAIN asked
        PROVE  /\ hull'[asked[i].mesh.of] \in Meshes
               /\ completed[i].coarse = Moved(hull'[asked[i].mesh.of], asked[i].mesh.at)
    <2> DEFINE x == asked[i].mesh.of
    <2>1. x \in Things /\ asked[i].mesh.at = Offset(x)
      BY <1>2
    <2>2. CASE asked[i].coarse = None
      <3>1. hull'[x] = Mesh(x, 0)
        BY <1>5, <2>1, <2>2
      <3>2. Moved(Mesh(x, 0), Offset(x)) = Mesh(x, 0 + Offset(x)) /\ 0 + Offset(x) = Offset(x)
        BY <1>4, <2>1, MovedMesh
      <3> QED
        BY <1>2, <2>1, <2>2, <3>1, <3>2, MeshType
    <2>3. CASE asked[i].coarse # None
      <3>1. hull[x] \notin {None, Removed}
        BY <1>2, <2>3
      <3>2. New(x) = {}
        BY <1>2, <3>1
      <3>3. hull'[x] = hull[x]
        BY <1>1, <2>1, <3>2
      <3> QED
        BY <1>2, <2>1, <2>3, <3>1, <3>3 DEF CoarseMesh, SceneOK
    <2> QED
      BY <2>2, <2>3
  <1>8. \A x \in Things : hull'[x] \in {hull[x], Mesh(x, 0)}
    BY <1>5
  <1> QED
    BY <1>6, <1>7, <1>8 DEF asked

-----------------------------------------------------------------------------
(* The hash.                                                               *)

\* What InputHash adds up: a fold takes its elements in an order that depends only on
\* which are left.
HashStep(weight, sum) ==
    [s \in SUBSET DOMAIN weight |->
        IF s = {} THEN 0
        ELSE sum[s \ {CHOOSE x \in s : TRUE}] + weight[CHOOSE x \in s : TRUE]]

HashOf(weight) == (CHOOSE sum : sum = HashStep(weight, sum))[DOMAIN weight]

Weights(parts) == [i \in DOMAIN parts |-> Coordinates(parts[i])]

LEMMA HashOfWeights ==
    ASSUME NEW parts
    PROVE  InputHash(parts) = HashOf(Weights(parts))
  <1> DEFINE D == DOMAIN parts
             w == Weights(parts)
             Equation(f) == f = [s \in SUBSET D |->
                 IF s = {} THEN 0
                 ELSE f[s \ {CHOOSE x \in s : TRUE}] + Coordinates(parts[CHOOSE x \in s : TRUE])]
  <1>1. InputHash(parts) = (CHOOSE f : Equation(f))[D]
    BY DEF InputHash, FoldSeq, FoldFunction, FoldFunctionOnSet, MapThenFoldSet
  <1>2. DOMAIN w = D /\ \A i \in D : w[i] = Coordinates(parts[i])
    BY DEF Weights
  <1>3. \A f : Equation(f) <=> f = HashStep(w, f)
    <2> TAKE f
    <2>1. ASSUME NEW s \in SUBSET D, s # {}
          PROVE  Coordinates(parts[CHOOSE x \in s : TRUE]) = w[CHOOSE x \in s : TRUE]
      <3>1. (CHOOSE x \in s : TRUE) \in s
        BY <2>1
      <3> QED
        BY <1>2, <3>1
    <2> HIDE DEF w
    <2>2. HashStep(w, f) = [s \in SUBSET D |->
                 IF s = {} THEN 0
                 ELSE f[s \ {CHOOSE x \in s : TRUE}] + Coordinates(parts[CHOOSE x \in s : TRUE])]
      BY <1>2, <2>1 DEF HashStep
    <2> QED
      BY <2>2
  <1> HIDE DEF Equation, w
  <1>4. (CHOOSE f : Equation(f)) = (CHOOSE f : f = HashStep(w, f))
    BY <1>3
  <1> QED
    BY <1>1, <1>2, <1>4 DEF HashOf, w

LEMMA SameHash ==
    ASSUME NEW p, NEW q, DOMAIN p = DOMAIN q,
           \A i \in DOMAIN p : Coordinates(p[i]) = Coordinates(q[i])
    PROVE  InputHash(p) = InputHash(q)
  BY HashOfWeights DEF Weights

-----------------------------------------------------------------------------
(* The invariant: beside the properties, the output of a stored input is   *)
(* the one of its parts, its coarse meshes are those that the hulls give   *)
(* that its redraw has left, its hash is the one of its parts, and the     *)
(* scene has, or had, the hull of each of its meshes.                      *)

StoredOK(d) ==
    /\ Proper(d.input.parts)
    /\ d.output = OutputMeshes(d.input.parts)
    /\ d.input = [parts |-> d.input.parts, progressive |-> d.input.progressive]
    /\ d.hash = InputHash(d.input.parts)
    /\ \A i \in DOMAIN d.input.parts :
          LET p == d.input.parts[i]
          IN  /\ p.coarse # None
              /\ d.hulls[p.mesh.of] \in Meshes
              /\ p.coarse = Moved(d.hulls[p.mesh.of], p.mesh.at)

CachedOK ==
    \A d \in cached :
        /\ StoredOK(d)
        /\ \A i \in DOMAIN d.input.parts : hull[d.input.parts[i].mesh.of] # None

Inv == SceneOK /\ CachedOK /\ AnswerForAsked /\ StopsOnlyWithoutHull

LEMMA ProperThings ==
    ASSUME NEW parts, Proper(parts), NEW i \in DOMAIN parts
    PROVE  parts[i].mesh.of \in Things
  <1>1. parts[i] \in Part
    BY DEF Proper
  <1> QED
    BY <1>1 DEF Part, Meshes

\* Hulls are added and removed, none is forgotten: what is stored stays complete.
LEMMA CachedKept ==
    ASSUME CachedOK, cached' \subseteq cached,
           \A x \in Things : hull[x] # None => hull'[x] # None
    PROVE  CachedOK'
  BY ProperThings DEF CachedOK, StoredOK

LEMMA InitInv == Init => Inv
  <1> SUFFICES ASSUME Init
               PROVE  Inv
    OBVIOUS
  <1>1. SceneOK
    BY PositionsAssumption DEF Init, SceneOK
  <1>2. CachedOK /\ AnswerForAsked /\ StopsOnlyWithoutHull
    BY DEF Init, CachedOK, AnswerForAsked, StopsOnlyWithoutHull
  <1> QED
    BY <1>1, <1>2 DEF Inv

LEMMA InputMatchesItself ==
    ASSUME SceneOK, NEW group \in Groups, NEW prevent \in BOOLEAN
    PROVE  Matches(Inputs(group, prevent), Inputs(group, prevent))
  <1> DEFINE asked == Inputs(group, prevent)
  <1>1. asked \in Seq(Part)
    BY InputsEffect
  <1> HIDE DEF asked
  <1>2. ASSUME NEW i \in 1..Len(asked)
        PROVE  /\ Near(asked[i].mesh, asked[i].mesh)
               /\ \A k \in DOMAIN asked[i].lines :
                     Close(asked[i].lines[k], asked[i].lines[k])
               /\ Close(asked[i].rso, asked[i].rso)
    <2>0. asked[i] \in Part
      BY <1>1
    <2>1. asked[i].mesh \in Meshes /\ asked[i].lines \in Seq(Int) /\ asked[i].rso \in Int
      BY <2>0 DEF Part
    <2>2. \A k \in DOMAIN asked[i].lines : asked[i].lines[k] \in Int
      BY <2>1
    <2> QED
      BY <2>1, <2>2 DEF Near, Close, Meshes
  <1>3. Matches(asked, asked)
    BY <1>2 DEF Matches
  <1> QED
    BY <1>3 DEF asked

\* Nothing is stored at a hit: the input lacks no coarse mesh.
LEMMA HitLeavesHulls ==
    ASSUME SceneOK, NEW group \in Groups, NEW prevent \in BOOLEAN,
           \A i \in DOMAIN Inputs(group, prevent) : Inputs(group, prevent)[i].coarse # None,
           StoreHulls(Inputs(group, prevent), Inputs(group, prevent))
    PROVE  hull' = hull
  <1>1. \A x \in Things : hull'[x] = hull[x]
    BY DEF StoreHulls
  <1>2. hull' = [x \in Things |-> hull'[x]]
    BY DEF StoreHulls
  <1> QED
    BY <1>1, <1>2 DEF SceneOK

LEMMA HitEffect ==
    ASSUME Inv, NEW group \in Groups, NEW prevent \in BOOLEAN, NEW progressive,
           DeformCached(group, prevent, progressive)
    PROVE  hull' = hull /\ AnswerForAsked'
  <1> DEFINE input == Input(group, prevent, progressive)
             asked == Inputs(group, prevent)
  <1>1. PICK d \in cached :
           /\ EqualFunction(d.input, input) = "equal"
           /\ SetDeformed(group, "PK", prevent, d.output)
           /\ StoreHulls(input.parts, input.parts)
           /\ UNCHANGED <<scene, cached, stopped>>
    BY DEF DeformCached
  <1>2. input.parts = asked
    BY DEF Input
  <1>3. /\ Proper(d.input.parts) /\ d.output = OutputMeshes(d.input.parts)
        /\ d.input.parts \in Seq(Part) /\ asked \in Seq(Part) /\ SceneOK
    BY InputsEffect DEF Inv, CachedOK, StoredOK, Proper
  <1>4. Matches(d.input.parts, asked) /\ \A i \in DOMAIN asked : asked[i].coarse # None
    BY <1>1, <1>2, <1>3, EqualEffect
  <1>5. \A i \in DOMAIN group : Right(d.output[i], group[i], "PK", prevent)
    BY <1>3, <1>4, RightAnswer
  <1>6. AnswerForAsked'
    BY <1>1, <1>5, AnswerSet
  <1>7. StoreHulls(asked, asked)
    BY <1>1, <1>2
  <1>8. hull' = hull
    BY <1>3, <1>4, <1>7, HitLeavesHulls
  <1> QED
    BY <1>6, <1>8

LEMMA DeformCachedInv ==
    ASSUME Inv, NEW group \in Groups, NEW prevent \in BOOLEAN, NEW progressive,
           DeformCached(group, prevent, progressive), stopped = "no"
    PROVE  Inv'
  <1>1. hull' = hull /\ AnswerForAsked'
    BY HitEffect
  <1>2. UNCHANGED <<scene, cached, stopped>>
    BY DEF DeformCached
  <1>3. CachedOK'
    BY <1>1, <1>2, CachedKept DEF Inv
  <1>4. SceneOK' /\ StopsOnlyWithoutHull'
    BY <1>1, <1>2 DEF Inv, SceneOK, StopsOnlyWithoutHull, scene
  <1> QED
    BY <1>1, <1>3, <1>4 DEF Inv

\* The hulls that a miss leaves for an input, of those in the record.
HullsLeft(parts) == [x \in {p.mesh.of : p \in ToSet(parts)} |-> hull'[x]]

\* A miss stores what is consistent, and hulls of the rest pose.
LEMMA MissEffect ==
    ASSUME SceneOK, NEW group \in Groups, NEW prevent \in BOOLEAN, NEW progressive,
           NEW store, DeformMissed(group, prevent, progressive, store)
    PROVE  /\ hull' \in [Things -> Meshes \cup {None, Removed}]
           /\ \A x \in Things : hull'[x] \in {hull[x], Mesh(x, 0)}
           /\ AnswerForAsked'
           /\ \A d \in cached' : d \notin cached =>
                 /\ StoredOK(d)
                 /\ \A i \in DOMAIN d.input.parts : hull'[d.input.parts[i].mesh.of] # None
  <1> DEFINE input == Input(group, prevent, progressive)
             asked == Inputs(group, prevent)
             all == Completed(asked)
             new == [hash |-> InputHash(input.parts),
                     input |-> InitInput(input),
                     output |-> OutputMeshes(input.parts),
                     hulls |-> HullsLeft(InitInput(input).parts)]
  <1>1. /\ cached' = cached \cup IF store THEN {new} ELSE {}
        /\ SetDeformed(group, "PK", prevent, OutputMeshes(input.parts))
        /\ StoreHulls(input.parts, InitInput(input).parts)
        /\ UNCHANGED scene
    BY DEF DeformMissed, HullsLeft
  <1>2. /\ input.parts = asked /\ InitInput(input) = [parts |-> all, progressive |-> progressive]
        /\ InitInput(input).parts = all
    BY DEF Input, InitInput
  <1>3. Proper(asked)
    BY InputsProper
  <1>4. /\ Proper(all) /\ OutputMeshes(all) = OutputMeshes(asked)
        /\ DOMAIN all = DOMAIN asked
        /\ \A i \in DOMAIN asked :
              /\ all[i].mesh = asked[i].mesh
              /\ all[i].lines = asked[i].lines
              /\ all[i].coarse = IF asked[i].coarse = None THEN asked[i].mesh
                                 ELSE asked[i].coarse
              /\ all[i].coarse \in Meshes
    BY <1>3, CompletedEffect
  <1>5. \A i \in DOMAIN group : Right(OutputMeshes(asked)[i], group[i], "PK", prevent)
    BY <1>3, InputMatchesItself, RightAnswer
  <1> HIDE DEF asked, all
  <1>6. AnswerForAsked'
    BY <1>1, <1>2, <1>5, AnswerSet
  <1>7. StoreHulls(asked, all)
    BY <1>1, <1>2
  <1>8. /\ hull' \in [Things -> Meshes \cup {None, Removed}]
        /\ \A x \in Things : hull'[x] \in {hull[x], Mesh(x, 0)}
        /\ \A i \in DOMAIN asked :
              /\ hull'[asked[i].mesh.of] \in Meshes
              /\ all[i].coarse = Moved(hull'[asked[i].mesh.of], asked[i].mesh.at)
    BY <1>4, <1>7, HullsStored DEF asked
  <1>9. InputHash(all) = InputHash(asked)
    BY <1>4, SameHash DEF Coordinates
  <1>10. /\ new.input = [parts |-> all, progressive |-> progressive]
         /\ new.input.parts = all /\ new.input.progressive = progressive
         /\ new.hash = InputHash(all) /\ new.output = OutputMeshes(all)
         /\ new.hulls = HullsLeft(all)
    BY <1>2, <1>4, <1>9
  <1>11. \A i \in DOMAIN all : HullsLeft(all)[all[i].mesh.of] = hull'[all[i].mesh.of]
    BY DEF HullsLeft, ToSet
  <1> HIDE DEF input, new
  <1>12. \A i \in DOMAIN all :
            /\ all[i].coarse # None
            /\ hull'[all[i].mesh.of] # None
            /\ new.hulls[all[i].mesh.of] \in Meshes
            /\ all[i].coarse = Moved(new.hulls[all[i].mesh.of], all[i].mesh.at)
    BY <1>4, <1>8, <1>10, <1>11, NoneAssumption
  <1>13. StoredOK(new)
    BY <1>4, <1>10, <1>12 DEF StoredOK
  <1> QED
    BY <1>1, <1>6, <1>8, <1>10, <1>12, <1>13

LEMMA DeformMissedInv ==
    ASSUME Inv, NEW group \in Groups, NEW prevent \in BOOLEAN, NEW progressive,
           NEW store \in BOOLEAN,
           DeformMissed(group, prevent, progressive, store), stopped = "no"
    PROVE  Inv'
  <1>1. SceneOK
    BY DEF Inv
  <1>2. /\ hull' \in [Things -> Meshes \cup {None, Removed}]
        /\ \A x \in Things : hull'[x] \in {hull[x], Mesh(x, 0)}
        /\ AnswerForAsked'
        /\ \A d \in cached' : d \notin cached =>
              /\ StoredOK(d)
              /\ \A i \in DOMAIN d.input.parts : hull'[d.input.parts[i].mesh.of] # None
    BY <1>1, MissEffect
  <1>3. UNCHANGED <<scene, stopped>>
    BY DEF DeformMissed
  <1>4. \A x \in Things : hull[x] # None => hull'[x] # None
    BY <1>2, MeshType, NoneAssumption
  <1>5. CachedOK'
    BY <1>2, <1>4, ProperThings DEF Inv, CachedOK, StoredOK
  <1>6. SceneOK' /\ StopsOnlyWithoutHull'
    BY <1>2, <1>3 DEF Inv, SceneOK, StopsOnlyWithoutHull, scene
  <1> QED
    BY <1>2, <1>5, <1>6 DEF Inv

LEMMA DeformStopsInv ==
    ASSUME Inv, NEW group \in Groups, NEW prevent \in BOOLEAN, NEW progressive,
           DeformStops(group, prevent, progressive)
    PROVE  Inv'
  <1> DEFINE input == Input(group, prevent, progressive)
             asked == Inputs(group, prevent)
  <1>1. PICK d \in cached : EqualFunction(d.input, input) = "no mesh"
    BY DEF DeformStops, Outcomes
  <1>2. input.parts = asked
    BY DEF Input
  <1>3. d.input.parts \in Seq(Part) /\ asked \in Seq(Part) /\ SceneOK
    BY InputsEffect DEF Inv, CachedOK, StoredOK, Proper
  <1>4. PICK i \in DOMAIN d.input.parts :
           /\ i \in DOMAIN asked
           /\ d.input.parts[i].mesh.of = asked[i].mesh.of
           /\ None \in {d.input.parts[i].coarse, asked[i].coarse}
    <2>1. input.parts \in Seq(Part)
      BY <1>2, <1>3
    <2> HIDE DEF input, asked
    <2>2. \E i \in DOMAIN d.input.parts :
             /\ i \in DOMAIN input.parts
             /\ d.input.parts[i].mesh.of = input.parts[i].mesh.of
             /\ None \in {d.input.parts[i].coarse, input.parts[i].coarse}
      BY <1>1, <1>3, <2>1, NoMeshEffect
    <2> QED
      BY <1>2, <2>2
  <1> DEFINE x == asked[i].mesh.of
  <1>5. x \in Things /\ (asked[i].coarse = None <=> hull[x] \in {None, Removed})
    BY <1>3, <1>4, InputHulls
  <1>6. d.input.parts[i].coarse # None /\ hull[x] # None
    BY <1>4 DEF Inv, CachedOK, StoredOK
  <1>7. hull[x] = Removed
    BY <1>4, <1>5, <1>6
  <1>8. hull' = hull /\ cached' = cached /\ deformed' = deformed
        /\ pose' = pose /\ origin' = origin /\ shift' = shift
    BY DEF DeformStops, scene
  <1>9. StopsOnlyWithoutHull'
    BY <1>5, <1>7, <1>8 DEF StopsOnlyWithoutHull
  <1> QED
    BY <1>8, <1>9 DEF Inv, SceneOK, CachedOK, AnswerForAsked

-----------------------------------------------------------------------------
(* The interpolation.                                                      *)

LEMMA Division ==
    ASSUME NEW n \in Nat \ {0}, NEW x \in Int
    PROVE  (n * x) \div n = x /\ x \div n \in Int
  OBVIOUS

\* It ends in the current pose; a single step starts from the rest pose.
LEMMA InterpolatedEffect ==
    ASSUME SceneOK, NEW n \in StepCounts
    PROVE  /\ Interpolated(n - 1, n) \in Int
           /\ Interpolated(n, n) = pose
           /\ n = 1 => Interpolated(n - 1, n) = shift /\ Interpolated(1, n) = pose
           /\ \A k \in {1, n} : Interpolated(k, n) \in Int
           /\ origin + (origin - shift) \div n \in Int
  <1>1. pose \in Int /\ shift \in Int /\ pose - shift \in Int /\ n \in Nat \ {0}
    BY StepCountAssumption DEF SceneOK
  <1>2. ASSUME NEW k \in Int
        PROVE  Interpolated(k, n) \in Int
    <2>1. k * (pose - shift) \in Int
      BY <1>1
    <2>2. (k * (pose - shift)) \div n \in Int
      BY <1>1, <2>1, Division
    <2> QED
      BY <1>1, <2>2 DEF Interpolated
  <1>3. Interpolated(n, n) = pose
    <2>1. (n * (pose - shift)) \div n = pose - shift
      BY <1>1, Division
    <2> QED
      BY <1>1, <2>1 DEF Interpolated
  <1>4. ASSUME n = 1
        PROVE  Interpolated(n - 1, n) = shift
    BY <1>1, <1>4 DEF Interpolated
  <1>5. origin + (origin - shift) \div n \in Int
    <2>1. origin \in Int /\ origin - shift \in Int
      BY <1>1 DEF SceneOK
    <2> QED
      BY <1>1, <2>1, Division
  <1> QED
    BY <1>1, <1>2, <1>3, <1>4, <1>5

\* The parts of the last step.
LastParts(group, n) == LastStep(group, n) \o [i \in DOMAIN Bones |-> BonePart(Bones[i])]

LEMMA LastStepParts ==
    ASSUME SceneOK, NEW group \in Groups, NEW n \in StepCounts
    PROVE  LET parts == LastParts(group, n)
           IN  /\ parts \in Seq(Part)
               /\ \A i \in DOMAIN group :
                     i \in DOMAIN parts /\ parts[i] = LastStep(group, n)[i]
               /\ \A i \in DOMAIN parts : i \notin DOMAIN group =>
                     \E b \in ToSet(Bones) : parts[i] = BonePart(b)
               /\ \A b \in ToSet(Bones) :
                     \E i \in DOMAIN parts : i \notin DOMAIN group /\ parts[i] = BonePart(b)
  <1> DEFINE parts == LastParts(group, n)
             bones == [i \in DOMAIN Bones |-> BonePart(Bones[i])]
             muscles == LastStep(group, n)
  <1>1. /\ group \in Seq(Muscles) /\ DOMAIN group = 1..Len(group) /\ Len(group) \in Nat
        /\ \A i \in DOMAIN group : group[i] \in Muscles
    BY GroupType
  <1>2. ASSUME NEW i \in DOMAIN group
        PROVE  muscles[i] \in Part
    <2> DEFINE mesh == [Mesh(group[i], shift) EXCEPT !.bent = Interpolated(n - 1, n) - shift]
               coarse == IF n = 1 THEN CoarseMesh(group[i], shift) ELSE None
               lines == <<Interpolated(n - 1, n), Interpolated(n, n)>>
               rso == origin + (origin - shift) \div n
    <2>1. group[i] \in Things
      BY <1>1 DEF Things
    <2>2. mesh \in Meshes
      BY <2>1, InterpolatedEffect DEF Mesh, Meshes, SceneOK
    <2>3. coarse \in Meshes \cup {None}
      BY <2>1, MovedType DEF CoarseMesh, SceneOK
    <2>4. lines \in Seq(Int) /\ rso \in Int
      BY InterpolatedEffect DEF SceneOK
    <2>5. muscles[i] = [mesh |-> mesh, coarse |-> coarse, lines |-> lines, rso |-> rso]
      BY DEF LastStep
    <2> HIDE DEF mesh, coarse, lines, rso
    <2> QED
      BY <2>2, <2>3, <2>4, <2>5, PartType
  <1>3. muscles \in Seq(Part) /\ Len(muscles) = Len(group)
    <2>1. muscles = [i \in 1..Len(group) |-> muscles[i]]
      BY <1>1 DEF LastStep
    <2> HIDE DEF muscles
    <2> QED
      BY <1>1, <1>2, <2>1
  <1>4. /\ DOMAIN Bones = 1..Len(Bones) /\ Len(Bones) \in Nat
        /\ \A i \in DOMAIN Bones : Bones[i] \in ToSet(Bones)
    BY BonesType
  <1>5. /\ bones \in Seq(Part) /\ Len(bones) = Len(Bones)
        /\ \A i \in 1..Len(Bones) : bones[i] = BonePart(Bones[i])
    BY <1>4, PartTypes
  <1>6. parts = muscles \o bones
    BY DEF LastParts
  <1> HIDE DEF muscles, bones, parts
  <1>7. /\ parts \in Seq(Part)
        /\ Len(parts) = Len(muscles) + Len(bones)
        /\ \A i \in 1..(Len(muscles) + Len(bones)) :
              parts[i] = IF i <= Len(muscles) THEN muscles[i] ELSE bones[i - Len(muscles)]
    <2>1. /\ muscles \o bones \in Seq(Part)
          /\ Len(muscles \o bones) = Len(muscles) + Len(bones)
          /\ \A i \in 1..(Len(muscles) + Len(bones)) :
                (muscles \o bones)[i] = IF i <= Len(muscles) THEN muscles[i]
                                        ELSE bones[i - Len(muscles)]
      <3>1. muscles \in Seq(Part) /\ bones \in Seq(Part)
        BY <1>3, <1>5
      <3> QED
        BY <3>1, ConcatProperties
    <2> QED
      BY <1>6, <2>1
  <1>8. DOMAIN parts = 1..(Len(group) + Len(Bones))
    BY <1>3, <1>5, <1>7
  <1>9. ASSUME NEW i \in DOMAIN group
        PROVE  i \in DOMAIN parts /\ parts[i] = muscles[i]
    BY <1>1, <1>3, <1>4, <1>5, <1>7, <1>8
  <1>10. ASSUME NEW i \in DOMAIN parts, i \notin DOMAIN group
         PROVE  \E b \in ToSet(Bones) : parts[i] = BonePart(b)
    <2>1. i - Len(group) \in 1..Len(Bones) /\ parts[i] = bones[i - Len(group)]
      BY <1>1, <1>3, <1>4, <1>5, <1>7, <1>8, <1>10
    <2> QED
      BY <1>4, <1>5, <2>1
  <1>11. ASSUME NEW b \in ToSet(Bones)
         PROVE  \E i \in DOMAIN parts : i \notin DOMAIN group /\ parts[i] = BonePart(b)
    <2>1. PICK k \in DOMAIN Bones : Bones[k] = b
      BY DEF ToSet
    <2> DEFINE i == Len(group) + k
    <2>2. /\ i \in DOMAIN parts /\ i \notin DOMAIN group
          /\ i > Len(group) /\ i - Len(group) = k
      BY <1>1, <1>4, <1>8
    <2> HIDE DEF i
    <2>3. parts[i] = bones[k]
      BY <1>1, <1>3, <1>4, <1>5, <1>7, <1>8, <2>2
    <2> QED
      BY <1>4, <1>5, <2>1, <2>2, <2>3
  <1> QED
    BY <1>7, <1>9, <1>10, <1>11 DEF muscles, parts

\* The last step ends in the current pose, clear of the bones.
LEMMA InterpolatedAnswer ==
    ASSUME SceneOK, NEW group \in Groups, NEW n \in StepCounts, NEW i \in DOMAIN group
    PROVE  Right(OutputMeshes(LastParts(group, n))[i], group[i], "interpolation", TRUE)
  <1> DEFINE parts == LastParts(group, n)
             x == group[i]
             from == Interpolated(n - 1, n)
             d == OutputMesh(parts, i)
             clear == {q.mesh : q \in {r \in ToSet(parts) : r.lines = <<>>}}
  <1>1. x \in Muscles /\ x \in Things /\ from \in Int /\ shift \in Int /\ pose \in Int
    BY GroupType, InterpolatedEffect DEF Things, SceneOK
  <1>2. /\ i \in DOMAIN parts /\ parts[i] = LastStep(group, n)[i]
        /\ parts[i].mesh = [Mesh(x, shift) EXCEPT !.bent = from - shift]
        /\ parts[i].lines = <<from, pose>>
    BY SMTT(30), LastStepParts, InterpolatedEffect DEF LastStep
  <1>3. OutputMeshes(parts)[i] = d
    <2> HIDE DEF parts, from
    <2> QED
      BY <1>2 DEF OutputMeshes
  <1>4. /\ d.mesh = [parts[i].mesh EXCEPT !.bent = @ + parts[i].lines[2] - parts[i].lines[1]]
        /\ d.clearOf = clear
    BY DEF OutputMesh
  <1>5. /\ \A j \in DOMAIN group : parts[j] = LastStep(group, n)[j]
        /\ \A j \in DOMAIN parts : j \notin DOMAIN group =>
              \E b \in ToSet(Bones) : parts[j] = BonePart(b)
        /\ \A b \in ToSet(Bones) :
              \E j \in DOMAIN parts : j \notin DOMAIN group /\ parts[j] = BonePart(b)
    BY LastStepParts
  <1> HIDE DEF d, from, parts
  <1>6. d.mesh.of = x /\ d.mesh.at = shift /\ d.mesh.at + d.mesh.bent = pose
    BY <1>1, <1>2, <1>4 DEF Mesh
  <1>7. \A b \in ToSet(Bones) :
           BonePart(b).lines = <<>> /\ BonePart(b).mesh = Mesh(b, pose)
    BY DEF BonePart
  <1>8. clear = {Mesh(b, pose) : b \in ToSet(Bones)}
    <2>1. ASSUME NEW j \in DOMAIN parts, parts[j].lines = <<>>
          PROVE  \E b \in ToSet(Bones) : parts[j].mesh = Mesh(b, pose)
      <3>1. CASE j \in DOMAIN group
        <4>1. parts[j].lines = <<from, Interpolated(n, n)>>
          <5>1. LastStep(group, n)[j].lines = <<from, Interpolated(n, n)>>
            BY <3>1 DEF LastStep, from
          <5> QED
            BY <1>5, <3>1, <5>1
        <4>2. Len(parts[j].lines) = 2
          BY <4>1
        <4> QED
          BY <2>1, <4>2
      <3>2. CASE j \notin DOMAIN group
        BY <1>7, <1>5, <3>2
      <3> QED
        BY <3>1, <3>2
    <2>2. ASSUME NEW b \in ToSet(Bones)
          PROVE  \E j \in DOMAIN parts : parts[j].lines = <<>> /\ parts[j].mesh = Mesh(b, pose)
      BY <1>7, <1>5
    <2> QED
      BY <2>1, <2>2 DEF ToSet
  <1>9. \A b \in ToSet(Bones) : Mesh(b, pose).of = b /\ Mesh(b, pose).at = pose
    BY DEF Mesh
  <1> HIDE DEF clear
  <1>10. {b.of : b \in d.clearOf} = ToSet(Bones) /\ \A b \in d.clearOf : b.at = pose
    BY <1>4, <1>8, <1>9
  <1>11. Right(d, x, "interpolation", TRUE)
    BY <1>1, <1>6, <1>10 DEF Right, Close
  <1> QED
    BY <1>3, <1>11 DEF parts

\* The hull that the last step leaves for a muscle without one.
LEMMA InterpolatedHull ==
    ASSUME SceneOK, NEW group \in Groups, NEW n \in StepCounts, NEW i \in DOMAIN group,
           hull[group[i]] \in {None, Removed}
    PROVE  LET new == Moved(Completed(LastParts(group, n))[i].coarse, -shift)
           IN  /\ new \in Meshes
               /\ n = 1 => new = Mesh(group[i], 0)
  <1> DEFINE parts == LastParts(group, n)
             x == group[i]
             from == Interpolated(n - 1, n)
             mesh == [Mesh(x, shift) EXCEPT !.bent = from - shift]
  <1>1. /\ x \in Things /\ from \in Int /\ shift \in Int
        /\ n = 1 => from = shift
    BY GroupType, InterpolatedEffect DEF Things, SceneOK
  <1>2. i \in DOMAIN parts /\ parts[i] = LastStep(group, n)[i]
    BY LastStepParts
  <1>3. LastStep(group, n)[i].mesh = mesh /\ LastStep(group, n)[i].coarse = None
    <2>1. CoarseMesh(x, shift) = None
      BY DEF CoarseMesh
    <2> QED
      BY <2>1 DEF LastStep
  <1> HIDE DEF parts, from, x
  <1>4. Completed(parts)[i].coarse = mesh
    <2>1. parts[i] \in Part
      BY <1>2, LastStepParts DEF parts
    <2>2. Completed(parts)[i] = [parts[i] EXCEPT !.coarse = parts[i].mesh]
      BY <1>2, <1>3 DEF Completed
    <2> HIDE DEF mesh
    <2>3. parts[i].mesh = mesh
      BY <1>2, <1>3
    <2> QED
      BY <2>1, <2>2, <2>3 DEF Part
  <1>5. mesh \in Meshes /\ (n = 1 => mesh = Mesh(x, shift))
    BY <1>1 DEF Mesh, Meshes
  <1> HIDE DEF mesh
  <1>6. Moved(mesh, -shift) \in Meshes
    BY <1>1, <1>5, MovedType
  <1>7. Moved(Mesh(x, shift), -shift) = Mesh(x, 0)
    <2>1. -shift \in Int /\ shift + (-shift) = 0
      BY <1>1
    <2> QED
      BY <1>1, <2>1, MovedMesh
  <1> QED
    BY <1>4, <1>5, <1>6, <1>7 DEF parts, x

\* The scene loses no hull without a trace, and a single step stores hulls of the rest pose.
LEMMA InterpolatedHulls ==
    ASSUME SceneOK, NEW group \in Groups, NEW n \in StepCounts, DeformInterpolated(group, n)
    PROVE  /\ hull' \in [Things -> Meshes \cup {None, Removed}]
           /\ \A x \in Things : hull[x] # None => hull'[x] # None
           /\ n = 1 => \A x \in Things : hull'[x] \in {hull[x], Removed, Mesh(x, 0)}
  <1> DEFINE parts == LastParts(group, n)
             New(x) == Moved(Completed(parts)[CHOOSE j \in DOMAIN group : group[j] = x].coarse,
                             -shift)
             present == {x \in ToSet(group) : hull[x] \notin {None, Removed}}
  <1>1. PICK stored \in SUBSET ToSet(Bones), k \in {1, n}, gone \in SUBSET present :
           hull' = [x \in Things |->
             IF x \in stored THEN Mesh(x, Interpolated(k, n) - pose)
             ELSE IF x \in gone THEN Removed
             ELSE IF x \in ToSet(group) \ present THEN New(x)
             ELSE hull[x]]
    BY DEF DeformInterpolated, LastParts
  <1>2. ASSUME NEW x \in ToSet(group) \ present
        PROVE  New(x) \in Meshes /\ (n = 1 => New(x) = Mesh(x, 0))
    <2> DEFINE i == CHOOSE j \in DOMAIN group : group[j] = x
    <2>1. i \in DOMAIN group /\ group[i] = x /\ hull[x] \in {None, Removed}
      BY GroupType
    <2>2. New(x) = Moved(Completed(parts)[i].coarse, -shift)
      OBVIOUS
    <2> HIDE DEF i, New
    <2> QED
      BY <2>1, <2>2, InterpolatedHull
  <1> HIDE DEF New, parts
  <1>3. ASSUME NEW x \in stored
        PROVE  /\ Mesh(x, Interpolated(k, n) - pose) \in Meshes
               /\ n = 1 => Mesh(x, Interpolated(k, n) - pose) = Mesh(x, 0)
    <2>1. x \in Things
      BY DEF Things
    <2>2. Interpolated(k, n) \in Int /\ pose \in Int /\ (n = 1 => Interpolated(k, n) = pose)
      BY InterpolatedEffect DEF SceneOK
    <2>3. Interpolated(k, n) - pose \in Int /\ (n = 1 => Interpolated(k, n) - pose = 0)
      BY <2>2
    <2> QED
      BY <2>1, <2>3, MeshType
  <1> HIDE DEF present
  <1>4. ASSUME NEW x \in Things
        PROVE  \/ hull'[x] = hull[x]
               \/ hull'[x] = Removed
               \/ hull'[x] \in Meshes /\ (n = 1 => hull'[x] = Mesh(x, 0))
    BY <1>1, <1>2, <1>3
  <1>5. hull' \in [Things -> Meshes \cup {None, Removed}]
    <2>1. hull' = [x \in Things |-> hull'[x]]
      BY <1>1
    <2>2. \A x \in Things : hull'[x] \in Meshes \cup {None, Removed}
      BY <1>4 DEF SceneOK
    <2> QED
      BY <2>1, <2>2
  <1>6. \A x \in Things : hull[x] # None => hull'[x] # None
    BY <1>4, NoneAssumption
  <1>7. n = 1 => \A x \in Things : hull'[x] \in {hull[x], Removed, Mesh(x, 0)}
    BY <1>4
  <1> QED
    BY <1>5, <1>6, <1>7

LEMMA DeformInterpolatedInv ==
    ASSUME Inv, NEW group \in Groups, NEW n \in StepCounts, DeformInterpolated(group, n),
           stopped = "no"
    PROVE  Inv'
  <1>1. /\ SetDeformed(group, "interpolation", TRUE, OutputMeshes(LastParts(group, n)))
        /\ UNCHANGED <<scene, cached, stopped>>
    BY DEF DeformInterpolated, LastParts
  <1>2. SceneOK
    BY DEF Inv
  <1>3. AnswerForAsked'
    BY <1>1, <1>2, InterpolatedAnswer, AnswerSet
  <1>4. /\ hull' \in [Things -> Meshes \cup {None, Removed}]
        /\ \A x \in Things : hull[x] # None => hull'[x] # None
    BY <1>2, InterpolatedHulls
  <1>5. CachedOK'
    BY <1>1, <1>4, CachedKept DEF Inv
  <1>6. SceneOK' /\ StopsOnlyWithoutHull'
    BY <1>1, <1>4 DEF Inv, SceneOK, StopsOnlyWithoutHull, scene
  <1> QED
    BY <1>3, <1>5, <1>6 DEF Inv

LEMMA NextInv == Inv /\ [Next]_vars => Inv'
  <1> SUFFICES ASSUME Inv, [Next]_vars
               PROVE  Inv'
    OBVIOUS
  <1>1. ASSUME NEW group \in Groups, NEW prevent \in BOOLEAN, NEW progressive,
               stopped = "no",
               \/ DeformCached(group, prevent, progressive)
               \/ \E store \in BOOLEAN : DeformMissed(group, prevent, progressive, store)
               \/ DeformStops(group, prevent, progressive)
        PROVE  Inv'
    BY <1>1, DeformCachedInv, DeformMissedInv, DeformStopsInv
  <1>2. ASSUME NEW group \in Groups, NEW n \in StepCounts, DeformInterpolated(group, n),
               stopped = "no"
        PROVE  Inv'
    BY <1>2, DeformInterpolatedInv
  <1> USE DEF Inv, SceneOK, AnswerForAsked, StopsOnlyWithoutHull
  <1>3. CASE UNCHANGED vars
    BY <1>3, CachedKept DEF vars, scene, CachedOK
  <1>4. ASSUME NEW p \in Poses, NEW o \in Origins, NEW s \in Shifts, Move(p, o, s),
               stopped = "no"
        PROVE  Inv'
    BY <1>4, PositionsAssumption DEF Move, scene, CachedOK
  <1>5. ASSUME NEW x \in Things, RemoveHull(x), stopped = "no"
        PROVE  Inv'
    <2>1. \A y \in Things : hull[y] # None => hull'[y] # None
      BY <1>5, NoneAssumption DEF RemoveHull
    <2>2. CachedOK'
      BY <1>5, <2>1, CachedKept DEF RemoveHull
    <2> QED
      BY <1>5, <2>2 DEF RemoveHull, scene
  <1>6. ASSUME NEW d \in cached, Evict(d), stopped = "no"
        PROVE  Inv'
    <2>1. CachedOK'
      BY <1>6, CachedKept DEF Evict
    <2> QED
      BY <1>6, <2>1 DEF Evict, scene
  <1>7. ASSUME NEW group \in Groups, NEW prevent \in BOOLEAN,
               InterpolationStops(group, prevent), stopped = "no"
        PROVE  Inv'
    <2>1. /\ UNCHANGED <<scene, hull, cached, deformed>>
          /\ stopped' = "undefined"
      BY <1>7 DEF InterpolationStops
    <2> QED
      BY <2>1, CachedKept DEF scene
  <1>8. \A group \in Groups : Prevented(group) \subseteq BOOLEAN
    BY DEF Prevented
  <1> HIDE DEF Inv
  <1> QED
    BY ZenonT(60), <1>1, <1>2, <1>3, <1>4, <1>5, <1>6, <1>7, <1>8 DEF Next

-----------------------------------------------------------------------------
(* Finding again what is stored.                                           *)

LEMMA NearItself ==
    ASSUME NEW mesh \in Meshes
    PROVE  Near(mesh, mesh)
  <1>1. mesh.at \in Int /\ mesh.bent \in Int
    BY DEF Meshes
  <1> QED
    BY <1>1 DEF Near, Close

\* An input is found by one with its meshes, curves and coarse meshes.
LEMMA FoundEqual ==
    ASSUME NEW d, StoredOK(d),
           NEW parts \in Seq(Part), Len(parts) = Len(d.input.parts),
           \A i \in DOMAIN parts :
              /\ parts[i].mesh = d.input.parts[i].mesh
              /\ parts[i].lines = d.input.parts[i].lines
              /\ parts[i].coarse = d.input.parts[i].coarse
              /\ parts[i].rso = d.input.parts[i].rso
    PROVE  /\ d.hash = InputHash(parts)
           /\ EqualFunction(d.input, [d.input EXCEPT !.parts = parts]) = "equal"
  <1> DEFINE stored == d.input.parts
             input == [d.input EXCEPT !.parts = parts]
  <1>1. /\ stored \in Seq(Part)
        /\ DOMAIN parts = DOMAIN stored
        /\ input.parts = parts /\ input.progressive = d.input.progressive
    BY SameDomain DEF StoredOK, Proper
  <1>2. d.hash = InputHash(parts)
    BY <1>1, SameHash DEF StoredOK, Coordinates
  <1>3. ASSUME NEW i \in DOMAIN stored
        PROVE  ComparePart(stored[i], parts[i]) = "equal"
    <2>1. stored[i] \in Part
      BY <1>1
    <2>2. /\ parts[i].mesh = stored[i].mesh /\ parts[i].lines = stored[i].lines
          /\ parts[i].coarse = stored[i].coarse /\ stored[i].coarse # None
          /\ parts[i].rso = stored[i].rso
      BY <1>1 DEF StoredOK
    <2>3. /\ stored[i].mesh \in Meshes /\ stored[i].rso \in Int /\ stored[i].coarse \in Meshes
          /\ \A k \in DOMAIN stored[i].lines : stored[i].lines[k] \in Int
      BY <2>1, <2>2 DEF Part
    <2>4. /\ Near(stored[i].mesh, stored[i].mesh)
          /\ Near(stored[i].coarse, stored[i].coarse)
      BY <2>3, NearItself
    <2>5. /\ \A k \in DOMAIN stored[i].lines : Close(stored[i].lines[k], stored[i].lines[k])
          /\ Close(stored[i].rso, stored[i].rso)
      BY <2>3 DEF Close
    <2> HIDE DEF stored
    <2> QED
      BY <2>2, <2>4, <2>5 DEF ComparePart
  <1>4. MeshCount(parts) = MeshCount(stored)
    <2>1. {i \in DOMAIN parts : parts[i].lines # <<>>}
            = {i \in DOMAIN stored : stored[i].lines # <<>>}
      BY <1>1
    <2> HIDE DEF stored
    <2> QED
      BY <2>1 DEF MeshCount
  <1> HIDE DEF input
  <1>5. Len(stored) = Len(input.parts) /\ MeshCount(stored) = MeshCount(input.parts)
    BY <1>1, <1>4
  <1>6. \A i \in DOMAIN stored : ComparePart(stored[i], input.parts[i]) = "equal"
    BY <1>1, <1>3
  <1>7. EqualFunction(d.input, input) = "equal"
    BY <1>1, <1>5, <1>6 DEF EqualFunction
  <1> QED
    BY <1>2, <1>7 DEF input

-----------------------------------------------------------------------------
(* Theorems.                                                               *)

THEOREM Invariance == Spec => []Inv
  <1>1. Init => Inv
    BY InitInv
  <1>2. Inv /\ [Next]_vars => Inv'
    BY NextInv
  <1> QED
    BY <1>1, <1>2, PTL DEF Spec

\* A redraw gives every wrapper of the group its own muscle, bent to the current pose and
\* clear of the bones, up to one tolerance, whatever the cache holds and whoever stored it,
\* and turned as its reference point says, except where it was interpolated (DeformMuscle;
\* equalFunction of the deformation filter).
THEOREM AnswersRight == Spec => []AnswerForAsked
  <1>1. Inv => AnswerForAsked
    BY DEF Inv
  <1> QED
    BY <1>1, Invariance, PTL

\* Every hull that DeformMuscle puts in the scene is the one of the rest pose, unless the PK
\* method interpolates in more than one step.
THEOREM HullsCorrect == Spec => HullsOfRestPose
  <1> DEFINE InRestPose == \A x \in Things : hull'[x] \in {hull[x], Removed, Mesh(x, 0)}
             Several == \E g \in Groups, n \in StepCounts \ {1} : DeformInterpolated(g, n)
  <1>1. ASSUME Inv, Next
        PROVE  InRestPose \/ Several
    <2>1. SceneOK
      BY <1>1 DEF Inv
    <2>2. ASSUME NEW group \in Groups, NEW prevent \in BOOLEAN, NEW progressive,
                 \/ DeformCached(group, prevent, progressive)
                 \/ \E store \in BOOLEAN : DeformMissed(group, prevent, progressive, store)
                 \/ DeformStops(group, prevent, progressive)
          PROVE  InRestPose
      <3>1. CASE DeformCached(group, prevent, progressive)
        BY <1>1, <3>1, HitEffect
      <3>2. ASSUME NEW store \in BOOLEAN, DeformMissed(group, prevent, progressive, store)
            PROVE  InRestPose
        BY <2>1, <3>2, MissEffect
      <3>3. CASE DeformStops(group, prevent, progressive)
        BY <3>3 DEF DeformStops
      <3> QED
        BY <2>2, <3>1, <3>2, <3>3
    <2>3. ASSUME NEW group \in Groups, NEW n \in StepCounts, DeformInterpolated(group, n)
          PROVE  InRestPose \/ Several
      BY <2>1, <2>3, InterpolatedHulls
    <2>4. ASSUME NEW x \in Things, RemoveHull(x)
          PROVE  InRestPose
      BY <2>1, <2>4 DEF RemoveHull, SceneOK
    <2>5. ASSUME hull' = hull
          PROVE  InRestPose
      BY <2>5
    <2>6. ASSUME \/ \E g \in Groups, prevent \in BOOLEAN : InterpolationStops(g, prevent)
                 \/ \E d \in cached : Evict(d)
                 \/ \E p \in Poses, o \in Origins, s \in Shifts : Move(p, o, s)
          PROVE  hull' = hull
      BY <2>6 DEF InterpolationStops, Evict, Move
    <2>7. \A group \in Groups : Prevented(group) \subseteq BOOLEAN
      BY DEF Prevented
    <2> HIDE DEF InRestPose, Several
    <2> QED
      BY ZenonT(60), <1>1, <2>2, <2>3, <2>4, <2>5, <2>6, <2>7 DEF Next
  <1>2. Inv /\ [Next]_vars => [InRestPose \/ Several]_vars
    BY <1>1
  <1> QED
    BY <1>2, Invariance, PTL DEF Spec, HullsOfRestPose

\* The comparison meets a missing coarse mesh only if the scene has lost a hull, to the user
\* or to an interpolation: the invariant keeps that it has had one for each mesh in the cache.
THEOREM StopsOnlyIfRemoved == Spec => []StopsOnlyWithoutHull
  <1>1. Inv => StopsOnlyWithoutHull
    BY DEF Inv
  <1> QED
    BY <1>1, Invariance, PTL

\* An input that is stored is found when it is asked for again with the hulls that its redraw
\* has left: it is under the hash from before the deformation completed it, and its coarse
\* meshes are those that the hulls give, the ones among them that the deformation computed
\* having gone to the rest pose and back (inputHash, equalFunction and initInputFunction of
\* the deformation filter, and DeformMuscle).
THEOREM StoredIsFoundAgain == Spec => []FoundAgain
  <1>1. Inv => FoundAgain
    <2> SUFFICES ASSUME Inv, NEW d \in cached, NEW group \in Groups,
                        NEW prevent \in Prevented(group),
                        Len(Inputs(group, prevent)) = Len(d.input.parts),
                        \A i \in DOMAIN Inputs(group, prevent) :
                           LET p == Inputs(group, prevent)[i]
                           IN  /\ p.mesh = d.input.parts[i].mesh
                               /\ p.lines = d.input.parts[i].lines
                               /\ p.rso = d.input.parts[i].rso
                               /\ hull[p.mesh.of] = d.hulls[p.mesh.of]
                 PROVE  /\ d.hash = InputHash(Inputs(group, prevent))
                        /\ EqualFunction(d.input,
                               [d.input EXCEPT !.parts = Inputs(group, prevent)]) = "equal"
      BY DEF FoundAgain
    <2> DEFINE parts == Inputs(group, prevent)
               stored == d.input.parts
    <2>1. prevent \in BOOLEAN /\ SceneOK /\ StoredOK(d)
      BY DEF Prevented, Inv, CachedOK
    <2>2. parts \in Seq(Part) /\ stored \in Seq(Part) /\ DOMAIN parts = DOMAIN stored
      BY <2>1, InputsEffect, SameDomain DEF StoredOK, Proper
    <2>3. ASSUME NEW i \in DOMAIN parts
          PROVE  parts[i].coarse = stored[i].coarse
      <3> DEFINE x == parts[i].mesh.of
      <3>1. parts[i].coarse = CoarseMesh(x, Offset(x)) /\ parts[i].mesh.at = Offset(x)
        BY <2>1, InputHulls
      <3>2. /\ d.hulls[stored[i].mesh.of] \in Meshes
            /\ stored[i].coarse = Moved(d.hulls[stored[i].mesh.of], stored[i].mesh.at)
        BY <2>1, <2>2 DEF StoredOK
      <3>3. parts[i].mesh = stored[i].mesh /\ hull[x] = d.hulls[x]
        OBVIOUS
      <3> HIDE DEF parts, stored
      <3> QED
        BY <3>1, <3>2, <3>3, NoneAssumption DEF CoarseMesh
    <2>4. \A i \in DOMAIN parts :
             /\ parts[i].mesh = stored[i].mesh /\ parts[i].lines = stored[i].lines
             /\ parts[i].coarse = stored[i].coarse /\ parts[i].rso = stored[i].rso
      BY <2>3
    <2> HIDE DEF parts
    <2>5. Len(parts) = Len(stored)
      BY DEF parts
    <2>6. /\ d.hash = InputHash(parts)
          /\ EqualFunction(d.input, [d.input EXCEPT !.parts = parts]) = "equal"
      BY <2>1, <2>2, <2>4, <2>5, FoundEqual
    <2> QED
      BY <2>6 DEF parts
  <1> QED
    BY <1>1, Invariance, PTL
=============================================================================
