----------------------------- MODULE CacheData -----------------------------
(***************************************************************************)
(* The values of a cached function: what a call does with its parameters,  *)
(* according to the infos about them, and with the copies that CacheData   *)
(* objects keep of them in memory of their own.                            *)
(*                                                                         *)
(* The function computes each output from its inputs; what it computes is  *)
(* left uninterpreted.  Calls are made by one program, between calls it    *)
(* changes its variables, and other functions' calls evict data.  Which    *)
(* object of equal hash is found, and when there is space, are the         *)
(* business of CacheDataStructure and CachedFunctionManager.               *)
(***************************************************************************)
EXTENDS Integers, FiniteSets, SequencesExt

CONSTANTS
    N,                \* the number of parameters
    Configurations,   \* the parameter types the function may be configured with
    Passing,          \* "pointer" or "reference": how outputs are passed
    Contents,         \* by parameter, the values that it, or what it points to, can have ...
    InitialContent,   \* ... and the one it has first
    MaxAddress,       \* bound on the cache's memory: as many values at a time
    MaxObjects,       \* bound on the number of objects in the cache
    MaxFailures,      \* bound on the number of copies that fail
    Equal(_, _),      \* equalFunction
    ContentHash(_),   \* hashFunction
    Combine(_, _),    \* hash_combine of two hash values
    Free, None

Params == 1..N
Addresses == 1..MaxAddress

\* The values of parameters, and of outputs; the returned value is output number 0.
Values == {InitialContent} \cup UNION {Contents[p] : p \in Params}
Results == [output : 0..N, of : UNION {[S -> Values] : S \in SUBSET Params}]

ASSUME ParameterAssumption ==
    /\ N \in Nat \ {0} /\ MaxAddress \in Nat
    /\ Configurations \subseteq [Params -> {"Input", "Output", "Ignored"}]
ASSUME ValueAssumption == Free \notin Values \cup Results \cup {None} /\ None \notin Addresses

VARIABLES
    paramType,    \* InputParam, OutputParam or IgnoredParam, by parameter
    returnType,   \* UsedReturn or IgnoredReturn
    argument,     \* what the program's variables hold
    returned,     \* the value of the last call, None if it is undefined
    phase,        \* "returned" after a call, until the program goes on
    memory,       \* the values that were allocated
    cached,       \* the CacheData objects in the cache
    failures

configuration == <<paramType, returnType>>
vars == <<configuration, argument, returned, phase, memory, cached, failures>>

Of(type) == {p \in Params : paramType[p] = type}

Result(p, inputs) == [output |-> p, of |-> inputs]

Init ==
    /\ paramType \in Configurations
    /\ returnType \in {"Used", "Ignored"}
    /\ argument = [p \in Params |-> InitialContent]
    /\ returned = None
    /\ phase = "ready"
    /\ memory = [a \in Addresses |-> Free]
    /\ cached = {}
    /\ failures = 0

Inputs == [p \in Of("Input") |-> argument[p]]

\* The program's variables once the function has run.
Computed == [p \in Params |-> IF paramType[p] = "Output" THEN Result(p, Inputs) ELSE argument[p]]

-----------------------------------------------------------------------------
(* The iterations over the parameters.                                     *)

Rank(S, x) == 1 + Cardinality({y \in S : y < x})

\* The counter that they carry: the index that a parameter of the type has among
\* the stored values of its kind.
IndexOf(type, p) == Rank(Of(type), p)

\* The hash combined from what each parameter adds to it.
HashOf(own) ==
    LET hash[p \in Params] == IF p = N THEN own[p] ELSE Combine(own[p], hash[p + 1])
    IN  hash[1]

CalculateHashOfIgnored ==
    HashOf([p \in Params |-> IF paramType[p] # "Output" THEN ContentHash(argument[p]) ELSE 0])
CalculateHash ==
    HashOf([p \in Params |-> IF paramType[p] = "Input" THEN ContentHash(argument[p]) ELSE 0])

Equals(d) ==
    \A p \in Of("Input") : Equal(memory[d.inputParameters[IndexOf("Input", p)]], argument[p])

Found(d) == d.hash = CalculateHash /\ Equals(d)

\* The invoker of the output function passes a copy of the parameter on: what a copy
\* of a pointer points to is the program's variable, a copied variable is not.
VariableReached == Passing = "pointer"

SetOutput(d, m, arguments) ==
    [p \in Params |->
        IF paramType[p] = "Output" /\ VariableReached
        THEN m[d.outputParameters[IndexOf("Output", p)]] ELSE arguments[p]]

ReturnValue(d, m) == IF returnType = "Used" THEN m[d.returnValue] ELSE None

-----------------------------------------------------------------------------
(* Copies in memory, made in the order returned value, parameters.         *)

\* The elements of a set of numbers in ascending order.
Sorted(S) == [i \in 1..Cardinality(S) |-> CHOOSE x \in S : Rank(S, x) = i]

Unused == Sorted({a \in Addresses : memory[a] = Free})

\* The values that a new object holds, by the parameter they are of.
Stored ==
    (IF returnType = "Used" THEN {0} ELSE {}) \cup {p \in Params : paramType[p] # "Ignored"}

AddressOf(p) == Unused[Rank(Stored, p)]

CopiesBefore(arguments) ==
    [p \in Stored |-> IF p = 0 THEN Result(0, Inputs) ELSE argument[p]]
Copies(arguments) ==
    [p \in Stored |-> IF p = 0 THEN Result(0, Inputs) ELSE arguments[p]]

AddressesOf(type) == [i \in 1..Cardinality(Of(type)) |-> AddressOf(Sorted(Of(type))[i])]

NewData ==
    [hash |-> CalculateHash,
     inputParameters |-> AddressesOf("Input"),
     outputParameters |-> AddressesOf("Output"),
     returnValue |-> IF returnType = "Used" THEN AddressOf(0) ELSE None]

MemoryWith(arguments) ==
    [a \in Addresses |->
        IF \E p \in Stored : AddressOf(p) = a
        THEN Copies(arguments)[CHOOSE p \in Stored : AddressOf(p) = a]
        ELSE memory[a]]

OwnedBy(d) ==
    ToSet(d.inputParameters) \cup ToSet(d.outputParameters) \cup ({d.returnValue} \ {None})

\* The destructor.
ReleaseNothing(S) == memory' = memory
Release(S) == memory' = [a \in Addresses |-> IF a \in S THEN Free ELSE memory[a]]

-----------------------------------------------------------------------------

\* The program changes one of its variables; the outputs are for calls to write.
SetArgument(p, c) ==
    /\ paramType[p] # "Output" /\ c # argument[p]
    /\ argument' = [argument EXCEPT ![p] = c]
    /\ phase' = "ready" /\ returned' = None
    /\ UNCHANGED <<configuration, memory, cached, failures>>

CallHit(d) ==
    /\ phase = "ready"
    /\ Found(d)
    /\ argument' = SetOutput(d, memory, argument)
    /\ returned' = ReturnValue(d, memory)
    /\ phase' = "returned"
    /\ UNCHANGED <<configuration, memory, cached, failures>>

Miss == phase = "ready" /\ \A d \in cached : ~Found(d)

\* The result is not worth storing; its value is returned even if it is ignored.
CallUncached ==
    /\ Miss
    /\ argument' = Computed
    /\ returned' = Result(0, Inputs)
    /\ phase' = "returned"
    /\ UNCHANGED <<configuration, memory, cached, failures>>

CallStored ==
    /\ Miss
    /\ Cardinality(cached) < MaxObjects /\ Len(Unused) >= Cardinality(Stored)
    /\ memory' = MemoryWith(Computed)
    /\ cached' = cached \cup {NewData}
    /\ argument' = SetOutput(NewData, memory', Computed)
    /\ returned' = ReturnValue(NewData, memory')
    /\ phase' = "returned"
    /\ UNCHANGED <<configuration, failures>>

\* The init function of one of the values throws.  The object is destroyed with the
\* values it has, but nobody owns the memory allocated for that one.
CallFails ==
    /\ Miss
    /\ failures < MaxFailures /\ Unused # <<>>
    /\ failures' = failures + 1
    /\ memory' = [memory EXCEPT ![Head(Unused)] = None]
    /\ argument' = Computed
    /\ UNCHANGED <<configuration, returned, phase, cached>>

Evict(d) ==
    /\ cached' = cached \ {d}
    /\ Release(OwnedBy(d))
    /\ UNCHANGED <<configuration, argument, returned, phase, failures>>

Next ==
    \/ \E p \in Params : \E c \in Contents[p] : SetArgument(p, c)
    \/ \E d \in cached : CallHit(d) \/ Evict(d)
    \/ CallUncached \/ CallStored \/ CallFails

Spec == Init /\ [][Next]_vars

-----------------------------------------------------------------------------
(* Properties.                                                             *)

\* Caching is transparent: whatever was cached, evicted and overwritten before, a
\* call leaves in the outputs, and returns, what the function computes from the
\* inputs it is called with ("second parameter is the actual parameter into which
\* the function must copy the cached value").
Transparent ==
    phase = "returned" =>
        /\ \A p \in Of("Output") : argument[p] = Result(p, Inputs)
        /\ returnType = "Used" => returned = Result(0, Inputs)

\* The inputs and outputs that an object holds copies of.
StoredInputs(d) ==
    [p \in Of("Input") |-> memory[d.inputParameters[IndexOf("Input", p)]]]
StoredOutputs(d) ==
    [p \in Of("Output") |-> memory[d.outputParameters[IndexOf("Output", p)]]]

\* Stored outputs stay what the function computed from the stored inputs, although
\* the program goes on using, and changing, the variables they were copied from.
AnswersIntact ==
    \A d \in cached :
        /\ StoredOutputs(d) = [p \in Of("Output") |-> Result(p, StoredInputs(d))]
        /\ returnType = "Used" => memory[d.returnValue] = Result(0, StoredInputs(d))

\* Every allocated value belongs to one object, in one place, and none is freed twice; one
\* value is leaked with each copy that failed, and no other.
OwnedOnce ==
    LET owned == UNION {OwnedBy(d) : d \in cached}
        allocated == {a \in Addresses : memory[a] # Free}
    IN  /\ owned \subseteq allocated
        /\ Cardinality(allocated) = Cardinality(owned) + failures
        /\ \A d \in cached : Cardinality(OwnedBy(d)) = Cardinality(Stored)
        /\ \A d, e \in cached : d # e => OwnedBy(d) \cap OwnedBy(e) = {}

\* Equal inputs are stored once: a call on them finds the object, since its hash
\* depends on inputs only and equal inputs have equal hashes.
EqualInputsStoredOnce ==
    \A d, e \in cached :
        (\A p \in Of("Input") : Equal(StoredInputs(d)[p], StoredInputs(e)[p])) => d = e
=============================================================================
