---------------------- MODULE MCCachedFunctionManager ----------------------
(* Small instances of CachedFunctionManager for TLC. *)
EXTENDS CachedFunctionManager, TLC

CONSTANTS f, g, small, large, huge, inner, empty

\* f computes small, large and empty, g computes huge and inner.  Computing huge
\* calls f on large, and computing large calls g on inner.  huge fits no cache and
\* empty takes no space.  With all keys and a capacity of 3, any two of small,
\* large and inner fit the cache and the three overfill it; with large and inner
\* alone and a capacity of 2, each of them displaces the other.
MCFunctionOf == [k \in Keys |-> IF k \in {small, large, empty} THEN f ELSE g]
MCSizeOf == [k \in Keys |-> CASE k = huge -> 4 [] k = large -> 2 [] k = empty -> 0 [] OTHER -> 1]
MCRank == [k \in Keys |-> CASE k = huge -> 2 [] k = large -> 1 [] OTHER -> 0]
MCCalls == {<<huge, large>>, <<large, inner>>} \cap (Keys \X Keys)
MCMaxDataSize == f :> 2 @@ g :> 5
MCMinCreationTime == f :> 1 @@ g :> 0
MCCreationTimes == {0, 1}

Symmetry == Permutations(Threads) \cup Permutations(Objects)
=============================================================================
