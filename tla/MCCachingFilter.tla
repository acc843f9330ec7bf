-------------------------- MODULE MCCachingFilter --------------------------
(* Small instances of CachingFilter for TLC. *)
EXTENDS CachingFilter

CONSTANTS x, y, x1, x2, x3, y1, y2

\* x and y are filter classes, x1 to x3, y1 and y2 filters of theirs.
MCClassOf == [f \in Filters |-> IF f \in {y1, y2} THEN y ELSE x]

\* Filters of one class are interchangeable, and threads that do the same things.
Symmetry ==
    Permutations(Makers) \cup Permutations(Threads \ Makers)
        \cup Permutations(Filters \ {y1, y2}) \cup Permutations(Filters \cap {y1, y2})
        \cup Permutations(Managers)
=============================================================================
