----------------------------- MODULE MemoCache -----------------------------
(***************************************************************************)
(* What the cache promises its callers, whatever the threads, locks and    *)
(* objects it is made of: a set of remembered keys that always fits the    *)
(* capacity, in which a key enters only for a call in progress that asked  *)
(* for it, from which nothing is dropped but to make room for such a key,  *)
(* and whose calls tell truly whether their result is remembered.          *)
(***************************************************************************)
EXTENDS Integers, FiniteSets

CONSTANTS Threads, Keys, SizeOf, Capacity, Word, NoKey

VARIABLES
    contents,   \* the keys whose results are remembered
    pending,    \* the keys of the calls in progress, by thread
    lastCall    \* the outcome of the call a thread has just returned from

vars == <<contents, pending, lastCall>>

NoCall == [key |-> NoKey, stored |-> FALSE]

\* The bytes that the results of a set of keys occupy.
Bytes(K) == {b \in K \X (1..(Word - 1)) : b[2] <= SizeOf[b[1]]}

Fits(K) == Cardinality(Bytes(K)) <= Capacity

Init ==
    /\ contents = {}
    /\ pending = [t \in Threads |-> {}]
    /\ lastCall = [t \in Threads |-> NoCall]

Invoke(t, k) ==
    /\ k \notin pending[t]
    /\ pending' = [pending EXCEPT ![t] = @ \cup {k}]
    /\ lastCall' = IF pending[t] = {} THEN [lastCall EXCEPT ![t] = NoCall] ELSE lastCall
    /\ contents' = contents

Remember(t, k) ==
    /\ k \in pending[t] \ contents
    /\ Fits(contents \cup {k})
    /\ contents' = contents \cup {k}
    /\ UNCHANGED <<pending, lastCall>>

\* Only for a key that would fit an empty cache and does not fit this one.
Forget(k) ==
    /\ k \in contents
    /\ \E t \in Threads : \E p \in pending[t] \ contents :
          Fits({p}) /\ ~Fits(contents \cup {p})
    /\ contents' = contents \ {k}
    /\ UNCHANGED <<pending, lastCall>>

Leave(t, k, outcome) ==
    /\ k \in pending[t]
    /\ pending' = [pending EXCEPT ![t] = @ \ {k}]
    /\ lastCall' = IF pending[t] = {k} THEN [lastCall EXCEPT ![t] = outcome] ELSE lastCall
    /\ contents' = contents

Return(t, k) == Leave(t, k, [key |-> k, stored |-> k \in contents])

\* A call may fail before its result is remembered and after.
Fail(t, k) == Leave(t, k, NoCall)

Clear ==
    /\ \A t \in Threads : pending[t] = {}
    /\ contents' = {}
    /\ UNCHANGED <<pending, lastCall>>

ReadOutcome(t) ==
    /\ lastCall' = [lastCall EXCEPT ![t] = NoCall]
    /\ UNCHANGED <<contents, pending>>

Next ==
    \/ \E t \in Threads : ReadOutcome(t)
    \/ \E t \in Threads, k \in Keys :
          Invoke(t, k) \/ Remember(t, k) \/ Return(t, k) \/ Fail(t, k)
    \/ \E k \in Keys : Forget(k)
    \/ Clear

Spec == Init /\ [][Next]_vars
=============================================================================
