-------------------------- MODULE MCCachePolicies --------------------------
(* Small instances of CachePolicies for TLC. *)
EXTENDS CachePolicies

CONSTANTS a, b, c, d

\* c is worth more than a reference to keep, the others less than a decay apart.
MCContribution == [o \in Objects |-> CASE o = a -> 3 [] o = c -> 8 [] OTHER -> 0]
=============================================================================
