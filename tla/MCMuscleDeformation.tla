----------------------- MODULE MCMuscleDeformation -----------------------
(* A small instance of MuscleDeformation for TLC. *)
EXTENDS MuscleDeformation

CONSTANTS a, b, pelvis

OneBone == <<pelvis>>
Symmetry == Permutations(Muscles)
===========================================================================
