------------------------ MODULE MCCacheDataStructure ------------------------
(* Small instances of CacheDataStructure for TLC. *)
EXTENDS CacheDataStructure

CONSTANTS p, q, near, r, s, z

\* p, q, near and s collide, near is equal to q up to a tolerance; r and z
\* have hashes of their own.
MCHashOf == [k \in Keys |-> CASE k = r -> 2 [] k = z -> 3 [] OTHER -> 1]
MCEqual == {<<k, k>> : k \in Keys} \cup {<<q, near>>, <<near, q>>}
=============================================================================
