----------------------------- MODULE ObjectSet -----------------------------
(***************************************************************************)
(* What the data structure of a cached function promises the rest of the   *)
(* library: it is a set of objects with their inputs, a lookup finds an    *)
(* object with equal inputs whenever there is one, and a scan meets every  *)
(* object of the set once before it ends.                                  *)
(***************************************************************************)
CONSTANTS Objects, Keys, Equal, NoObject

VARIABLES
    contents,   \* the objects in the set, each with its inputs: <<o, k>>
    found,      \* what the last lookup has found
    scanning,   \* a scan is under way
    unseen      \* the objects it has not met yet

vars == <<contents, found, scanning, unseen>>

Members == {c[1] : c \in contents}

Matching(k) == {c[1] : c \in {d \in contents : <<d[2], k>> \in Equal}}

Init ==
    /\ contents = {}
    /\ found = NoObject
    /\ scanning = FALSE
    /\ unseen = {}

Lookup(k) ==
    /\ ~scanning
    /\ found' \in (IF Matching(k) = {} THEN {NoObject} ELSE Matching(k))
    /\ UNCHANGED <<contents, scanning, unseen>>

Add(o, k) ==
    /\ ~scanning
    /\ o \notin Members
    /\ Matching(k) = {}
    /\ contents' = contents \cup {<<o, k>>}
    /\ UNCHANGED <<found, scanning, unseen>>

Remove(o) ==
    /\ ~scanning
    /\ o \in Members
    /\ contents' = {c \in contents : c[1] # o}
    /\ UNCHANGED <<found, scanning, unseen>>

BeginScan ==
    /\ ~scanning
    /\ scanning' = TRUE
    /\ unseen' = Members
    /\ UNCHANGED <<contents, found>>

Meet(o) ==
    /\ scanning
    /\ o \in unseen
    /\ unseen' = unseen \ {o}
    /\ UNCHANGED <<contents, found, scanning>>

EndScan ==
    /\ scanning
    /\ unseen = {}
    /\ scanning' = FALSE
    /\ UNCHANGED <<contents, found, unseen>>

Clear ==
    /\ ~scanning
    /\ contents' = {}
    /\ found' = NoObject
    /\ UNCHANGED <<scanning, unseen>>

Next ==
    \/ \E k \in Keys : Lookup(k)
    \/ \E o \in Objects, k \in Keys : Add(o, k)
    \/ \E o \in Objects : Remove(o) \/ Meet(o)
    \/ BeginScan \/ EndScan \/ Clear

Spec == Init /\ [][Next]_vars
=============================================================================
