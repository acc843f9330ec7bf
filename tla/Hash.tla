-------------------------------- MODULE Hash --------------------------------
(* The combination of hash values, in the arithmetic of size_t. *)
EXTENDS Integers, Bitwise, SequencesExt

CONSTANTS
    Word,    \* 2^w, for the w bits of size_t
    Magic,   \* 0x9e3779b9, modulo Word
    StdHash(_)   \* std::hash of a size_t

\* hash_combine_hvs(seed, hv): what becomes of seed.
HashCombine(seed, hv) == seed ^^ ((hv + Magic + seed * 64 + seed \div 4) % Word)

\* hash_combine(seed, val): val, although a hash value itself, is hashed first.
HashCombineValue(seed, val) == HashCombine(seed, StdHash(val))

\* hash_combine_hvs(hv, ...): several hash values in one.
HashCombineAll(hvs) == FoldLeft(HashCombine, 0, hvs)
=============================================================================
