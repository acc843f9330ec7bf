------------------------- MODULE MCMuscleWrapper -------------------------
(* Small instances of MuscleWrapper for TLC. *)
EXTENDS MuscleWrapper, TLC

CONSTANTS a, b, c, rp, old, new

\* The fibers of c are fitted in the muscle of rp, which belongs to another model.
RestPoseOfC == [w \in Wrappers |-> IF w = c THEN rp ELSE None]
Alone == [w \in Wrappers |-> None]

\* Sources of every kind are edited, and unlinked, somewhere.
SomeOfEach == ({a, b} \X {"muscle", "space"}) \cup ({c} \X {"muscle", "CP"})
                \cup {<<rp, "CP_RefSys">>}
Muscles == Wrappers \X {"muscle"}

\* Wrappers with the same kind of checks are interchangeable, and so are the contents.
Symmetry == {f @@ g : f \in Permutations({a, b}), g \in Permutations({old, new})}
===========================================================================
