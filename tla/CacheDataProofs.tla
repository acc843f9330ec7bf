-------------------------- MODULE CacheDataProofs --------------------------
(***************************************************************************)
(* Proofs about CacheData, for every number of parameters, every           *)
(* configuration of them, all contents and every function that compares    *)
(* and hashes them: the copies that the cache keeps are right, they belong *)
(* to one object each, and a call that is answered from them cannot be     *)
(* told from one that is computed.                                         *)
(***************************************************************************)
EXTENDS CacheData, FiniteSetTheorems, SequenceTheorems, TLAPS

-----------------------------------------------------------------------------
(* Counting the parameters of a type.                                      *)

\* The counter of an iteration takes every value once.
LEMMA RankIsBijection ==
    ASSUME NEW S \in SUBSET Int, IsFiniteSet(S)
    PROVE  /\ Cardinality(S) \in Nat
           /\ \A x \in S : Rank(S, x) \in 1..Cardinality(S)
           /\ \A x, y \in S : Rank(S, x) = Rank(S, y) => x = y
           /\ \A i \in 1..Cardinality(S) : \E x \in S : Rank(S, x) = i
  <1> DEFINE Below(x) == {y \in S : y < x}
             rank == [x \in S |-> Rank(S, x)]
  <1>1. Cardinality(S) \in Nat
    BY FS_CardinalityType
  <1>2. ASSUME NEW x \in S
        PROVE  IsFiniteSet(Below(x)) /\ Cardinality(Below(x)) \in Nat
    BY FS_Subset, FS_CardinalityType
  <1>3. ASSUME NEW x \in S
        PROVE  Rank(S, x) \in 1..Cardinality(S)
    <2>1. IsFiniteSet(S \ {x}) /\ Cardinality(S \ {x}) = Cardinality(S) - 1
      BY FS_RemoveElement
    <2>2. Below(x) \in SUBSET (S \ {x})
      OBVIOUS
    <2>3. Cardinality(Below(x)) <= Cardinality(S \ {x})
      BY <2>1, <2>2, FS_Subset
    <2>4. Rank(S, x) = 1 + Cardinality(Below(x))
      BY DEF Rank
    <2> HIDE DEF Below
    <2>5. Cardinality(Below(x)) \in Nat /\ Cardinality(Below(x)) <= Cardinality(S) - 1
      BY <1>2, <2>1, <2>3
    <2> QED
      BY <1>1, <2>4, <2>5
  <1>4. ASSUME NEW x \in S, NEW y \in S, x < y
        PROVE  Rank(S, x) # Rank(S, y)
    <2>1. Below(x) \in SUBSET Below(y) /\ Below(x) # Below(y)
      <3>1. x \in Below(y) /\ x \notin Below(x)
        BY <1>4
      <3>2. \A z \in S : z < x => z < y
        BY <1>4
      <3> QED
        BY <3>1, <3>2
    <2>2. Cardinality(Below(y)) # Cardinality(Below(x))
      BY <1>2, <2>1, FS_Subset
    <2>3. Rank(S, x) = 1 + Cardinality(Below(x)) /\ Rank(S, y) = 1 + Cardinality(Below(y))
      BY DEF Rank
    <2> QED
      BY <1>2, <2>2, <2>3
  <1>5. ASSUME NEW x \in S, NEW y \in S, Rank(S, x) = Rank(S, y)
        PROVE  x = y
    <2>1. x \in Int /\ y \in Int
      OBVIOUS
    <2> QED
      BY <1>4, <1>5, <2>1
  <1>6. rank \in Injection(S, 1..Cardinality(S))
    BY <1>3, <1>5 DEF Injection, IsInjective
  <1>7. IsFiniteSet(1..Cardinality(S)) /\ Cardinality(1..Cardinality(S)) = Cardinality(S)
    BY <1>1, FS_Interval
  <1>8. rank \in Surjection(S, 1..Cardinality(S))
    BY <1>6, <1>7, FS_Injection
  <1>9. ASSUME NEW i \in 1..Cardinality(S)
        PROVE  \E x \in S : Rank(S, x) = i
    BY <1>8 DEF Surjection
  <1> QED
    BY <1>1, <1>3, <1>5, <1>9

LEMMA SortedInverse ==
    ASSUME NEW S \in SUBSET Int, IsFiniteSet(S)
    PROVE  /\ Sorted(S) \in Seq(S) /\ Len(Sorted(S)) = Cardinality(S)
           /\ \A i \in 1..Cardinality(S) : Sorted(S)[i] \in S /\ Rank(S, Sorted(S)[i]) = i
           /\ \A x \in S : Sorted(S)[Rank(S, x)] = x
  <1>1. Cardinality(S) \in Nat
    BY RankIsBijection
  <1>2. ASSUME NEW i \in 1..Cardinality(S)
        PROVE  Sorted(S)[i] \in S /\ Rank(S, Sorted(S)[i]) = i
    <2>1. \E x \in S : Rank(S, x) = i
      BY RankIsBijection
    <2>2. Sorted(S)[i] = CHOOSE x \in S : Rank(S, x) = i
      BY DEF Sorted
    <2> QED
      BY <2>1, <2>2
  <1>3. Sorted(S) \in Seq(S) /\ Len(Sorted(S)) = Cardinality(S)
    <2>1. Sorted(S) \in [1..Cardinality(S) -> S]
      BY <1>2 DEF Sorted
    <2> QED
      BY <1>1, <2>1
  <1>4. ASSUME NEW x \in S
        PROVE  Sorted(S)[Rank(S, x)] = x
    <2>1. Rank(S, x) \in 1..Cardinality(S)
      BY RankIsBijection
    <2>2. Sorted(S)[Rank(S, x)] \in S /\ Rank(S, Sorted(S)[Rank(S, x)]) = Rank(S, x)
      BY <1>2, <2>1
    <2>3. \A y \in S : Rank(S, y) = Rank(S, x) => y = x
      BY RankIsBijection
    <2> QED
      BY <2>2, <2>3
  <1> QED
    BY <1>2, <1>3, <1>4

-----------------------------------------------------------------------------
(* The inductive invariant.                                                *)

TypeInv ==
    /\ paramType \in [Params -> {"Input", "Output", "Ignored"}]
    /\ returnType \in {"Used", "Ignored"}
    /\ argument = [p \in Params |-> argument[p]]
    /\ \A p \in Params : paramType[p] # "Output" => argument[p] \in Values
    /\ phase \in {"ready", "returned"}
    /\ memory \in [Addresses -> Values \cup Results \cup {Free, None}]
    /\ failures \in Nat

\* The address of a value that an object holds.
Place(d, p) ==
    IF p = 0 THEN d.returnValue
    ELSE IF paramType[p] = "Input" THEN d.inputParameters[IndexOf("Input", p)]
    ELSE d.outputParameters[IndexOf("Output", p)]

Shape(d) ==
    /\ d.inputParameters \in [1..Cardinality(Of("Input")) -> Addresses]
    /\ d.outputParameters \in [1..Cardinality(Of("Output")) -> Addresses]
    /\ d.returnValue \in IF returnType = "Used" THEN Addresses ELSE {None}

\* Every value has an allocated place of its own ...
PlacesApart(d) ==
    /\ \A p \in Stored : memory[Place(d, p)] # Free
    /\ \A p, q \in Stored : Place(d, p) = Place(d, q) => p = q

\* ... and is what it was when the object was made.
Answers(d) ==
    /\ \A p \in Of("Input") : StoredInputs(d)[p] \in Values
    /\ StoredOutputs(d) = [p \in Of("Output") |-> Result(p, StoredInputs(d))]
    /\ returnType = "Used" => memory[d.returnValue] = Result(0, StoredInputs(d))
    /\ d.hash = HashOf([p \in Params |->
                           IF paramType[p] = "Input" THEN ContentHash(StoredInputs(d)[p]) ELSE 0])

DataOK(d) == Shape(d) /\ PlacesApart(d) /\ Answers(d)

Allocated == {a \in Addresses : memory[a] # Free}
Owned == UNION {OwnedBy(d) : d \in cached}

OwnInv ==
    /\ Cardinality(Allocated \ Owned) = failures
    /\ \A d, e \in cached : d # e => OwnedBy(d) \cap OwnedBy(e) = {}

Inv == TypeInv /\ (\A d \in cached : DataOK(d)) /\ OwnInv

-----------------------------------------------------------------------------
(* The values that an object holds, and where.                             *)

LEMMA StoredIsFinite ==
    ASSUME TypeInv
    PROVE  /\ \A type : Of(type) \in SUBSET Int /\ IsFiniteSet(Of(type))
           /\ Stored \in SUBSET Int /\ IsFiniteSet(Stored) /\ Stored \subseteq Params \cup {0}
           /\ Params \subseteq Int /\ 0 \notin Params
           /\ Stored = (IF returnType = "Used" THEN {0} ELSE {}) \cup Of("Input") \cup Of("Output")
  <1>1. IsFiniteSet(Params) /\ Params \subseteq Int /\ 0 \notin Params
    BY ParameterAssumption, FS_Interval DEF Params
  <1>2. ASSUME NEW type
        PROVE  Of(type) \in SUBSET Int /\ IsFiniteSet(Of(type))
    <2>1. Of(type) \in SUBSET Params
      BY DEF Of
    <2> QED
      BY <1>1, <2>1, FS_Subset
  <1>3. IsFiniteSet(Params \cup {0})
    BY <1>1, FS_AddElement
  <1>4. Stored \in SUBSET (Params \cup {0})
    BY DEF Stored
  <1>5. IsFiniteSet(Stored)
    BY <1>3, <1>4, FS_Subset
  <1>6. Stored = (IF returnType = "Used" THEN {0} ELSE {}) \cup Of("Input") \cup Of("Output")
    BY DEF TypeInv, Stored, Of
  <1> QED
    BY <1>1, <1>2, <1>4, <1>5, <1>6

\* The counter stays within the stored values of its kind and comes to each of them.
LEMMA IndexIsBijection ==
    ASSUME TypeInv, NEW type
    PROVE  /\ \A p \in Of(type) : IndexOf(type, p) \in 1..Cardinality(Of(type))
           /\ \A i \in 1..Cardinality(Of(type)) : \E p \in Of(type) : IndexOf(type, p) = i
  BY StoredIsFinite, RankIsBijection DEF IndexOf

LEMMA PlaceIs ==
    ASSUME TypeInv, NEW d
    PROVE  /\ Place(d, 0) = d.returnValue
           /\ \A p \in Of("Input") : Place(d, p) = d.inputParameters[IndexOf("Input", p)]
           /\ \A p \in Of("Output") : Place(d, p) = d.outputParameters[IndexOf("Output", p)]
  BY StoredIsFinite DEF Place, Of

LEMMA OwnedPlaces ==
    ASSUME TypeInv, NEW d, Shape(d)
    PROVE  OwnedBy(d) = {Place(d, p) : p \in Stored} /\ OwnedBy(d) \subseteq Addresses
  <1>1. ToSet(d.inputParameters) = {Place(d, p) : p \in Of("Input")}
    <2>1. ToSet(d.inputParameters) = {d.inputParameters[i] : i \in 1..Cardinality(Of("Input"))}
      BY DEF ToSet, Shape
    <2> QED
      BY <2>1, PlaceIs, IndexIsBijection
  <1>2. ToSet(d.outputParameters) = {Place(d, p) : p \in Of("Output")}
    <2>1. ToSet(d.outputParameters) = {d.outputParameters[i] : i \in 1..Cardinality(Of("Output"))}
      BY DEF ToSet, Shape
    <2> QED
      BY <2>1, PlaceIs, IndexIsBijection
  <1>3. {d.returnValue} \ {None} = {Place(d, p) : p \in IF returnType = "Used" THEN {0} ELSE {}}
    BY PlaceIs, ValueAssumption DEF Shape
  <1>4. OwnedBy(d) = {Place(d, p) : p \in Stored}
    BY <1>1, <1>2, <1>3, StoredIsFinite DEF OwnedBy
  <1>5. OwnedBy(d) \subseteq Addresses
    BY DEF OwnedBy, Shape, ToSet
  <1> QED
    BY <1>4, <1>5

\* An object stays what it is while nobody writes the memory that it owns.
LEMMA DataKept ==
    ASSUME TypeInv, NEW d, DataOK(d), UNCHANGED configuration,
           \A a \in OwnedBy(d) : memory'[a] = memory[a]
    PROVE  /\ DataOK(d)' /\ OwnedBy(d)' = OwnedBy(d)
           /\ StoredInputs(d)' = StoredInputs(d)
           /\ Stored' = Stored
  <1>1. paramType' = paramType /\ returnType' = returnType
    BY DEF configuration
  <1>2. /\ Stored' = Stored /\ Of("Input")' = Of("Input") /\ Of("Output")' = Of("Output")
    BY <1>1 DEF Stored, Of
  <1>3. /\ \A p : IndexOf("Input", p)' = IndexOf("Input", p)
        /\ \A p : IndexOf("Output", p)' = IndexOf("Output", p)
        /\ \A p : Place(d, p)' = Place(d, p)
    BY <1>1, <1>2 DEF IndexOf, Place
  <1>4. \A p \in Stored : memory'[Place(d, p)] = memory[Place(d, p)]
    BY OwnedPlaces DEF DataOK
  <1>5. Shape(d)'
    BY <1>1, <1>2 DEF DataOK, Shape
  <1>6. PlacesApart(d)'
    BY <1>2, <1>3, <1>4 DEF DataOK, PlacesApart
  <1>7. /\ Of("Input") \subseteq Stored /\ Of("Output") \subseteq Stored
        /\ returnType = "Used" => 0 \in Stored
    BY StoredIsFinite
  <1>8. StoredInputs(d)' = StoredInputs(d)
    BY <1>2, <1>3, <1>4, <1>7, PlaceIs DEF StoredInputs
  <1>9. StoredOutputs(d)' = StoredOutputs(d)
    BY <1>2, <1>3, <1>4, <1>7, PlaceIs DEF StoredOutputs
  <1>10. returnType = "Used" => memory'[d.returnValue] = memory[d.returnValue]
    BY <1>4, <1>7, PlaceIs
  <1>11. Answers(d)'
    BY <1>1, <1>2, <1>8, <1>9, <1>10 DEF DataOK, Answers, Result
  <1> QED
    BY <1>2, <1>5, <1>6, <1>8, <1>11 DEF DataOK, OwnedBy

-----------------------------------------------------------------------------
(* A new object.                                                           *)

LEMMA InputsAreValues ==
    ASSUME TypeInv
    PROVE  /\ \A p \in Of("Input") : Inputs[p] \in Values /\ Computed[p] = Inputs[p]
           /\ \A p \in 0..N : Result(p, Inputs) \in Results
           /\ \A p \in Of("Output") : Computed[p] = Result(p, Inputs)
  <1>1. \A p \in Of("Input") : Inputs[p] \in Values /\ Computed[p] = Inputs[p]
    BY DEF TypeInv, Of, Inputs, Computed
  <1>2. Inputs \in [Of("Input") -> Values]
    BY <1>1 DEF Inputs
  <1>3. Inputs \in UNION {[S -> Values] : S \in SUBSET Params}
    BY <1>2 DEF Of
  <1>4. \A p \in 0..N : Result(p, Inputs) \in Results
    BY <1>3 DEF Result, Results
  <1>5. \A p \in Of("Output") : Computed[p] = Result(p, Inputs)
    BY DEF Of, Computed
  <1> QED
    BY <1>1, <1>4, <1>5

\* The allocator gives every value memory of its own that nobody has.
LEMMA NewPlaces ==
    ASSUME TypeInv, Len(Unused) >= Cardinality(Stored)
    PROVE  /\ \A p \in Stored : AddressOf(p) \in Addresses /\ memory[AddressOf(p)] = Free
           /\ \A p, q \in Stored : AddressOf(p) = AddressOf(q) => p = q
  <1> DEFINE F == {a \in Addresses : memory[a] = Free}
  <1>1. F \in SUBSET Addresses /\ IsFiniteSet(Addresses) /\ Addresses \subseteq Int
    BY ParameterAssumption, FS_Interval DEF Addresses
  <1>2. F \in SUBSET Int /\ IsFiniteSet(F)
    BY <1>1, FS_Subset
  <1> HIDE DEF F
  <1>3. /\ \A i \in 1..Cardinality(F) : Sorted(F)[i] \in F /\ Rank(F, Sorted(F)[i]) = i
        /\ Len(Sorted(F)) = Cardinality(F) /\ Cardinality(F) \in Nat
    BY <1>2, SortedInverse, RankIsBijection
  <1>4. Unused = Sorted(F)
    BY DEF Unused, F
  <1>5. /\ Cardinality(Stored) \in Nat
        /\ \A p \in Stored : Rank(Stored, p) \in 1..Cardinality(Stored)
        /\ \A p, q \in Stored : Rank(Stored, p) = Rank(Stored, q) => p = q
    BY StoredIsFinite, RankIsBijection
  <1>6. Cardinality(Stored) <= Cardinality(F)
    BY <1>3, <1>4, <1>5
  <1>7. \A p \in Stored : Rank(Stored, p) \in 1..Cardinality(F)
    BY <1>3, <1>5, <1>6
  <1>8. \A p \in Stored : AddressOf(p) \in F /\ Rank(F, AddressOf(p)) = Rank(Stored, p)
    BY <1>3, <1>4, <1>7 DEF AddressOf
  <1>9. \A p, q \in Stored : AddressOf(p) = AddressOf(q) => p = q
    BY <1>5, <1>8
  <1> QED
    BY <1>8, <1>9 DEF F

LEMMA NewMemory ==
    ASSUME TypeInv, Len(Unused) >= Cardinality(Stored), NEW arguments
    PROVE  /\ \A p \in Stored : MemoryWith(arguments)[AddressOf(p)] = Copies(arguments)[p]
           /\ \A a \in Addresses \ {AddressOf(p) : p \in Stored} :
                 MemoryWith(arguments)[a] = memory[a]
           /\ DOMAIN MemoryWith(arguments) = Addresses
  <1>1. ASSUME NEW p \in Stored
        PROVE  MemoryWith(arguments)[AddressOf(p)] = Copies(arguments)[p]
    <2>1. AddressOf(p) \in Addresses
      BY NewPlaces
    <2>2. (CHOOSE q \in Stored : AddressOf(q) = AddressOf(p)) = p
      BY NewPlaces
    <2> QED
      BY <2>1, <2>2 DEF MemoryWith
  <1>2. ASSUME NEW a \in Addresses \ {AddressOf(p) : p \in Stored}
        PROVE  MemoryWith(arguments)[a] = memory[a]
    BY DEF MemoryWith
  <1> QED
    BY <1>1, <1>2 DEF MemoryWith

LEMMA NewDataPlaces ==
    ASSUME TypeInv, Len(Unused) >= Cardinality(Stored), NEW d, d = NewData
    PROVE  /\ Shape(d) /\ d.hash = CalculateHash
           /\ \A p \in Stored : Place(d, p) = AddressOf(p)
           /\ OwnedBy(d) = {AddressOf(p) : p \in Stored}
  <1>1. /\ d.inputParameters = AddressesOf("Input") /\ d.outputParameters = AddressesOf("Output")
        /\ d.returnValue = (IF returnType = "Used" THEN AddressOf(0) ELSE None)
        /\ d.hash = CalculateHash
    BY DEF NewData
  <1>2. /\ Of("Input") \subseteq Stored /\ Of("Output") \subseteq Stored
        /\ returnType = "Used" => 0 \in Stored
    BY StoredIsFinite
  <1>3. ASSUME NEW type, Of(type) \subseteq Stored
        PROVE  /\ AddressesOf(type) \in [1..Cardinality(Of(type)) -> Addresses]
               /\ \A p \in Of(type) : AddressesOf(type)[IndexOf(type, p)] = AddressOf(p)
    <2>1. Of(type) \in SUBSET Int /\ IsFiniteSet(Of(type))
      BY StoredIsFinite
    <2>2. \A i \in 1..Cardinality(Of(type)) : Sorted(Of(type))[i] \in Of(type)
      BY <2>1, SortedInverse
    <2>3. AddressesOf(type) \in [1..Cardinality(Of(type)) -> Addresses]
      BY <1>3, <2>2, NewPlaces DEF AddressesOf
    <2>4. \A p \in Of(type) : Sorted(Of(type))[IndexOf(type, p)] = p
      BY <2>1, SortedInverse DEF IndexOf
    <2> QED
      BY <2>3, <2>4, IndexIsBijection DEF AddressesOf
  <1>4. Shape(d)
    BY <1>1, <1>2, <1>3, NewPlaces DEF TypeInv, Shape
  <1>5. \A p \in Stored : Place(d, p) = AddressOf(p)
    BY <1>1, <1>2, <1>3, StoredIsFinite, PlaceIs
  <1> QED
    BY <1>1, <1>4, <1>5, OwnedPlaces

\* The object of a call that stores its result holds what the function computed.
LEMMA NewDataOK ==
    ASSUME TypeInv, Len(Unused) >= Cardinality(Stored), UNCHANGED configuration,
           memory' = MemoryWith(Computed), NEW d, d = NewData
    PROVE  /\ DataOK(d)' /\ StoredInputs(d)' = Inputs
           /\ StoredOutputs(d)' = [p \in Of("Output") |-> Result(p, Inputs)]
           /\ returnType = "Used" => memory'[d.returnValue] = Result(0, Inputs)
  <1>1. paramType' = paramType /\ returnType' = returnType
    BY DEF configuration
  <1>2. /\ Stored' = Stored /\ Of("Input")' = Of("Input") /\ Of("Output")' = Of("Output")
    BY <1>1 DEF Stored, Of
  <1>3. /\ \A p : IndexOf("Input", p)' = IndexOf("Input", p)
        /\ \A p : IndexOf("Output", p)' = IndexOf("Output", p)
        /\ \A p : Place(d, p)' = Place(d, p)
    BY <1>1, <1>2 DEF IndexOf, Place
  <1>4. /\ Shape(d) /\ d.hash = CalculateHash
        /\ \A p \in Stored : Place(d, p) = AddressOf(p)
    BY NewDataPlaces
  <1>5. \A p \in Stored : memory'[Place(d, p)] = Copies(Computed)[p]
    BY <1>4, NewMemory
  <1>6. /\ \A p \in Of("Input") : Copies(Computed)[p] = Inputs[p]
        /\ \A p \in Of("Output") : Copies(Computed)[p] = Result(p, Inputs)
        /\ returnType = "Used" => Copies(Computed)[0] = Result(0, Inputs)
    BY StoredIsFinite, InputsAreValues DEF Copies, Of
  <1>7. /\ Of("Input") \subseteq Stored /\ Of("Output") \subseteq Stored
        /\ Of("Input") \subseteq Params /\ Of("Output") \subseteq Params
        /\ returnType = "Used" <=> 0 \in Stored
        /\ \A p \in Stored : p = 0 \/ p \in Of("Input") \/ p \in Of("Output")
    BY StoredIsFinite DEF Of
  <1>8. Shape(d)'
    BY <1>1, <1>2, <1>4 DEF Shape
  <1>9. PlacesApart(d)'
    <2>1. ASSUME NEW p \in Stored
          PROVE  Copies(Computed)[p] # Free
      <3>1. CASE p = 0
        <4>1. Result(0, Inputs) \in Results
          BY InputsAreValues, ParameterAssumption
        <4> QED
          BY <1>6, <1>7, <3>1, <4>1, ValueAssumption
      <3>2. CASE p \in Of("Input")
        BY <1>6, <3>2, InputsAreValues, ValueAssumption
      <3>3. CASE p \in Of("Output")
        <4>1. p \in 0..N
          BY <1>7, <3>3, ParameterAssumption DEF Params
        <4> QED
          BY <1>6, <3>3, <4>1, InputsAreValues, ValueAssumption
      <3> QED
        BY <1>7, <3>1, <3>2, <3>3
    <2> QED
      BY <1>2, <1>3, <1>4, <1>5, <2>1, NewPlaces DEF PlacesApart
  <1>10. StoredInputs(d)' = Inputs
    <2>1. \A p \in Of("Input") : memory'[d.inputParameters[IndexOf("Input", p)]] = Inputs[p]
      BY <1>5, <1>6, <1>7, PlaceIs
    <2> QED
      BY <1>2, <1>3, <2>1 DEF StoredInputs, Inputs
  <1>11. StoredOutputs(d)' = [p \in Of("Output") |-> Result(p, Inputs)]
    <2>1. \A p \in Of("Output") :
             memory'[d.outputParameters[IndexOf("Output", p)]] = Result(p, Inputs)
      BY <1>5, <1>6, <1>7, PlaceIs
    <2> QED
      BY <1>2, <1>3, <2>1 DEF StoredOutputs
  <1>12. returnType = "Used" => memory'[d.returnValue] = Result(0, Inputs)
    BY <1>5, <1>6, <1>7, PlaceIs
  <1>13. Answers(d)'
    <2>1. [p \in Params |-> IF paramType[p] = "Input" THEN ContentHash(Inputs[p]) ELSE 0]
             = [p \in Params |-> IF paramType[p] = "Input" THEN ContentHash(argument[p]) ELSE 0]
      BY DEF Inputs, Of
    <2>2. d.hash = HashOf([p \in Params |->
                              IF paramType[p] = "Input" THEN ContentHash(Inputs[p]) ELSE 0])
      BY <1>4, <2>1 DEF CalculateHash
    <2>3. \A p \in Of("Input")' : StoredInputs(d)'[p] \in Values
      BY <1>2, <1>10, InputsAreValues
    <2>4. StoredOutputs(d)' = [p \in Of("Output")' |-> Result(p, StoredInputs(d))']
      BY <1>2, <1>10, <1>11 DEF Result
    <2>5. returnType' = "Used" => memory'[d.returnValue] = Result(0, StoredInputs(d))'
      BY <1>1, <1>10, <1>12 DEF Result
    <2>6. d.hash = HashOf([p \in Params |->
                     IF paramType'[p] = "Input" THEN ContentHash(StoredInputs(d)'[p]) ELSE 0])
      BY <1>1, <1>10, <2>2
    <2> QED
      BY <2>3, <2>4, <2>5, <2>6 DEF Answers
  <1> QED
    BY <1>8, <1>9, <1>10, <1>11, <1>12, <1>13 DEF DataOK

-----------------------------------------------------------------------------
(* Every step keeps the invariant.                                         *)

LEMMA OwnedIsAllocated ==
    ASSUME Inv
    PROVE  /\ \A d \in cached : OwnedBy(d) \subseteq Allocated
           /\ Owned \subseteq Allocated /\ Allocated \subseteq Addresses
           /\ IsFiniteSet(Addresses) /\ IsFiniteSet(Allocated) /\ IsFiniteSet(Owned)
  <1>1. ASSUME NEW d \in cached
        PROVE  OwnedBy(d) \subseteq Allocated
    <2>1. TypeInv /\ Shape(d) /\ PlacesApart(d)
      BY DEF Inv, DataOK
    <2> QED
      BY <2>1, OwnedPlaces DEF PlacesApart, Allocated
  <1>2. Owned \subseteq Allocated /\ Allocated \subseteq Addresses
    BY <1>1 DEF Owned, Allocated
  <1>3. IsFiniteSet(Addresses)
    BY ParameterAssumption, FS_Interval DEF Addresses
  <1>4. IsFiniteSet(Allocated) /\ IsFiniteSet(Owned)
    <2>1. Allocated \in SUBSET Addresses /\ Owned \in SUBSET Addresses
      BY <1>2
    <2> QED
      BY <1>3, <2>1, FS_Subset
  <1> QED
    BY <1>1, <1>2, <1>3, <1>4

\* Steps that change neither memory nor the cache.
LEMMA QuietStep ==
    ASSUME Inv, TypeInv', UNCHANGED <<configuration, memory, cached, failures>>
    PROVE  Inv' /\ \A d \in cached : StoredInputs(d)' = StoredInputs(d)
  <1>1. ASSUME NEW d \in cached
        PROVE  DataOK(d)' /\ OwnedBy(d)' = OwnedBy(d) /\ StoredInputs(d)' = StoredInputs(d)
    BY DataKept DEF Inv
  <1>2. Owned' = Owned /\ Allocated' = Allocated
    BY <1>1 DEF Owned, Allocated
  <1>3. OwnInv'
    BY <1>1, <1>2 DEF Inv, OwnInv
  <1> QED
    BY <1>1, <1>3 DEF Inv

\* What a call leaves in the program's variables.
LEMMA ArgumentsWritten ==
    ASSUME TypeInv, NEW arguments \in {argument, Computed}, NEW d, NEW m
    PROVE  /\ SetOutput(d, m, arguments)
                 = [p \in Params |-> SetOutput(d, m, arguments)[p]]
           /\ Computed = [p \in Params |-> Computed[p]]
           /\ \A p \in Params : paramType[p] # "Output" =>
                 SetOutput(d, m, arguments)[p] = argument[p] /\ Computed[p] = argument[p]
  BY DEF SetOutput, Computed

LEMMA SetArgumentStep ==
    ASSUME Inv, NEW p \in Params, NEW c \in Contents[p], SetArgument(p, c)
    PROVE  Inv' /\ \A d \in cached : StoredInputs(d)' = StoredInputs(d)
  <1>1. TypeInv'
    BY DEF Inv, TypeInv, SetArgument, configuration, Values
  <1> QED
    BY <1>1, QuietStep DEF SetArgument

LEMMA CallHitStep ==
    ASSUME Inv, NEW d \in cached, CallHit(d)
    PROVE  Inv' /\ \A e \in cached : StoredInputs(e)' = StoredInputs(e)
  <1>1. TypeInv'
    BY ArgumentsWritten DEF Inv, TypeInv, CallHit, configuration
  <1> QED
    BY <1>1, QuietStep DEF CallHit

LEMMA CallUncachedStep ==
    ASSUME Inv, CallUncached
    PROVE  Inv' /\ \A d \in cached : StoredInputs(d)' = StoredInputs(d)
  <1>1. TypeInv'
    BY ArgumentsWritten DEF Inv, TypeInv, CallUncached, configuration
  <1> QED
    BY <1>1, QuietStep DEF CallUncached

LEMMA CallFailsStep ==
    ASSUME Inv, CallFails
    PROVE  Inv' /\ \A d \in cached : StoredInputs(d)' = StoredInputs(d)
  <1> DEFINE h == Head(Unused)
  <1>1. h \in Addresses /\ memory[h] = Free
    <2> DEFINE F == {a \in Addresses : memory[a] = Free}
    <2>1. F \in SUBSET Addresses /\ IsFiniteSet(Addresses) /\ Addresses \subseteq Int
      BY ParameterAssumption, FS_Interval DEF Addresses
    <2>2. F \in SUBSET Int /\ IsFiniteSet(F)
      BY <2>1, FS_Subset
    <2>3. Unused = Sorted(F) /\ Unused # <<>>
      BY DEF Unused, CallFails
    <2> HIDE DEF F
    <2>4. Unused \in Seq(F)
      BY <2>2, <2>3, SortedInverse
    <2>5. Head(Unused) \in F
      BY <2>3, <2>4
    <2> QED
      BY <2>5 DEF F
  <1>2. /\ memory' = [memory EXCEPT ![h] = None] /\ cached' = cached
        /\ failures' = failures + 1 /\ UNCHANGED configuration
        /\ argument' = Computed /\ phase' = phase
    BY DEF CallFails
  <1> HIDE DEF h
  <1>3. TypeInv'
    BY <1>1, <1>2, ArgumentsWritten DEF Inv, TypeInv, configuration
  <1>4. h \notin Allocated /\ h \notin Owned
    BY <1>1, OwnedIsAllocated DEF Allocated
  <1>5. ASSUME NEW d \in cached
        PROVE  DataOK(d)' /\ OwnedBy(d)' = OwnedBy(d) /\ StoredInputs(d)' = StoredInputs(d)
    <2>1. \A a \in OwnedBy(d) : memory'[a] = memory[a]
      BY <1>2, <1>4, OwnedIsAllocated DEF Owned, Inv, TypeInv
    <2> QED
      BY <1>2, <2>1, DataKept DEF Inv
  <1>6. OwnInv'
    <2>1. Owned' = Owned
      BY <1>2, <1>5 DEF Owned
    <2>2. Allocated' = Allocated \cup {h}
      BY <1>1, <1>2, ValueAssumption DEF Allocated, Inv, TypeInv
    <2>3. Allocated' \ Owned' = (Allocated \ Owned) \cup {h} /\ h \notin Allocated \ Owned
      BY <1>4, <2>1, <2>2
    <2>4. IsFiniteSet(Allocated \ Owned)
      BY OwnedIsAllocated, FS_Difference
    <2>5. Cardinality(Allocated' \ Owned') = Cardinality(Allocated \ Owned) + 1
      BY <2>3, <2>4, FS_AddElement
    <2> QED
      BY <1>2, <1>5, <2>5 DEF Inv, OwnInv
  <1> QED
    BY <1>2, <1>3, <1>5, <1>6 DEF Inv

LEMMA EvictStep ==
    ASSUME Inv, NEW d \in cached, Evict(d)
    PROVE  Inv' /\ \A e \in cached' : StoredInputs(e)' = StoredInputs(e)
  <1>1. /\ memory' = [a \in Addresses |-> IF a \in OwnedBy(d) THEN Free ELSE memory[a]]
        /\ cached' = cached \ {d} /\ UNCHANGED configuration
        /\ argument' = argument /\ failures' = failures /\ phase' = phase
    BY DEF Evict, Release
  <1>2. TypeInv'
    BY <1>1 DEF Inv, TypeInv, configuration
  <1>3. ASSUME NEW e \in cached'
        PROVE  /\ e \in cached /\ OwnedBy(e) \cap OwnedBy(d) = {}
               /\ DataOK(e)' /\ OwnedBy(e)' = OwnedBy(e) /\ StoredInputs(e)' = StoredInputs(e)
    <2>1. e \in cached /\ OwnedBy(e) \cap OwnedBy(d) = {}
      BY <1>1 DEF Inv, OwnInv
    <2>2. \A a \in OwnedBy(e) : memory'[a] = memory[a]
      BY <1>1, <2>1, OwnedIsAllocated
    <2>3. DataOK(e) /\ TypeInv
      BY <2>1 DEF Inv
    <2> QED
      BY <1>1, <2>1, <2>2, <2>3, DataKept
  <1>4. OwnInv'
    <2>1. Owned' = Owned \ OwnedBy(d)
      <3>1. Owned' = UNION {OwnedBy(e) : e \in cached \ {d}}
        BY <1>1, <1>3 DEF Owned
      <3>2. \A e \in cached \ {d} : OwnedBy(e) \cap OwnedBy(d) = {}
        BY <1>1, <1>3
      <3> QED
        BY <3>1, <3>2 DEF Owned
    <2>2. Allocated' = Allocated \ OwnedBy(d)
      BY <1>1 DEF Allocated
    <2>3. OwnedBy(d) \subseteq Owned
      BY DEF Owned
    <2>4. Allocated' \ Owned' = Allocated \ Owned
      BY <2>1, <2>2, <2>3
    <2> QED
      BY <1>1, <1>3, <2>4 DEF Inv, OwnInv
  <1> QED
    BY <1>2, <1>3, <1>4 DEF Inv

LEMMA CallStoredStep ==
    ASSUME Inv, CallStored
    PROVE  Inv' /\ \A d \in cached : StoredInputs(d)' = StoredInputs(d)
  <1>0. PICK new : new = NewData
    OBVIOUS
  <1>1. /\ memory' = MemoryWith(Computed) /\ cached' = cached \cup {new}
        /\ argument' = SetOutput(new, memory', Computed) /\ phase' = "returned"
        /\ UNCHANGED configuration /\ failures' = failures
        /\ Len(Unused) >= Cardinality(Stored) /\ TypeInv
    BY <1>0 DEF CallStored, Inv
  <1>2. DataOK(new)' /\ OwnedBy(new) = {AddressOf(p) : p \in Stored}
    BY <1>0, <1>1, NewDataOK, NewDataPlaces
  <1>3. OwnedBy(new)' = OwnedBy(new)
    BY DEF OwnedBy
  <1>4. OwnedBy(new) \subseteq Addresses /\ OwnedBy(new) \cap Allocated = {}
    BY <1>1, <1>2, NewPlaces DEF Allocated
  <1>5. /\ \A a \in Addresses \ OwnedBy(new) : memory'[a] = memory[a]
        /\ \A p \in Stored : memory'[AddressOf(p)] = Copies(Computed)[p]
        /\ memory' = [a \in Addresses |-> memory'[a]]
    <2>1. \A a \in Addresses \ OwnedBy(new) : memory'[a] = memory[a]
      BY <1>1, <1>2, NewMemory
    <2>2. \A p \in Stored : memory'[AddressOf(p)] = Copies(Computed)[p]
      BY <1>1, NewMemory
    <2>3. memory' = [a \in Addresses |-> memory'[a]]
      BY <1>1 DEF MemoryWith
    <2> QED
      BY <2>1, <2>2, <2>3
  <1>6. TypeInv'
    <2>1. \A p \in Stored : Copies(Computed)[p] \in Values \cup Results
      <3>1. ASSUME NEW p \in Stored, p # 0
            PROVE  Copies(Computed)[p] \in Values \cup Results
        <4>1. p \in Params /\ (p \in Of("Input") \/ p \in Of("Output"))
          BY <3>1, StoredIsFinite, <1>1
        <4>2. p \in 0..N
          BY <4>1, ParameterAssumption DEF Params
        <4> QED
          BY <1>1, <3>1, <4>1, <4>2, InputsAreValues DEF Copies
      <3>2. 0 \in Stored => Copies(Computed)[0] \in Results
        <4>1. 0 \in 0..N
          BY ParameterAssumption
        <4> QED
          BY <1>1, <4>1, InputsAreValues DEF Copies
      <3> QED
        BY <3>1, <3>2
    <2>2. \A a \in Addresses : memory'[a] \in Values \cup Results \cup {Free, None}
      BY <1>1, <1>2, <1>5, <2>1 DEF TypeInv
    <2>3. memory' \in [Addresses -> Values \cup Results \cup {Free, None}]
      BY <1>5, <2>2
    <2>4. /\ argument' = [p \in Params |-> argument'[p]]
          /\ \A p \in Params : paramType[p] # "Output" => argument'[p] = argument[p]
      BY <1>1, ArgumentsWritten
    <2> QED
      BY <1>1, <2>3, <2>4 DEF TypeInv, configuration
  <1>7. ASSUME NEW d \in cached
        PROVE  /\ DataOK(d)' /\ OwnedBy(d)' = OwnedBy(d) /\ StoredInputs(d)' = StoredInputs(d)
               /\ OwnedBy(d) \cap OwnedBy(new) = {}
    <2>1. OwnedBy(d) \subseteq Allocated /\ OwnedBy(d) \subseteq Addresses
      BY OwnedIsAllocated
    <2>2. OwnedBy(d) \cap OwnedBy(new) = {}
      BY <1>4, <2>1
    <2>3. \A a \in OwnedBy(d) : memory'[a] = memory[a]
      BY <1>5, <2>1, <2>2
    <2> QED
      BY <1>1, <2>2, <2>3, DataKept DEF Inv
  <1>8. OwnInv'
    <2>1. Owned' = Owned \cup OwnedBy(new)
      BY <1>1, <1>3, <1>7 DEF Owned
    <2>2. Allocated' = Allocated \cup OwnedBy(new)
      <3>1. \A a \in OwnedBy(new) : memory'[a] # Free
        <4>1. \A p \in Stored : Place(new, p) = AddressOf(p)
          BY <1>0, <1>1, NewDataPlaces
        <4>2. Stored' = Stored /\ \A p : Place(new, p)' = Place(new, p)
          BY <1>1 DEF configuration, Stored, Place, IndexOf, Of
        <4>3. \A p \in Stored : memory'[Place(new, p)] # Free
          BY <1>2, <4>2 DEF DataOK, PlacesApart
        <4> QED
          BY <1>2, <4>1, <4>3
      <3> QED
        BY <1>4, <1>5, <3>1 DEF Allocated
    <2>3. Allocated' \ Owned' = Allocated \ Owned
      BY <1>4, <2>1, <2>2
    <2>4. \A d, e \in cached' : d # e => OwnedBy(d)' \cap OwnedBy(e)' = {}
      BY <1>1, <1>3, <1>7 DEF Inv, OwnInv
    <2> QED
      BY <1>1, <2>3, <2>4 DEF Inv, OwnInv
  <1> QED
    BY <1>1, <1>2, <1>6, <1>7, <1>8 DEF Inv

LEMMA InitInv ==
    Init => Inv
  <1> SUFFICES ASSUME Init
               PROVE  Inv
    OBVIOUS
  <1>1. TypeInv
    <2>1. paramType \in [Params -> {"Input", "Output", "Ignored"}]
      BY ParameterAssumption DEF Init
    <2> QED
      BY <2>1 DEF Init, TypeInv, Values
  <1>2. Allocated = {}
    BY DEF Init, Allocated
  <1>3. OwnInv
    <2>1. Allocated \ Owned = {} /\ Cardinality({}) = 0
      BY <1>2, FS_EmptySet
    <2> QED
      BY <2>1 DEF Init, OwnInv
  <1> QED
    BY <1>1, <1>3 DEF Init, Inv

LEMMA Stutter ==
    ASSUME Inv, UNCHANGED vars
    PROVE  Inv' /\ \A d \in cached : StoredInputs(d)' = StoredInputs(d)
  <1>1. TypeInv'
    BY DEF vars, configuration, Inv, TypeInv
  <1> QED
    BY <1>1, QuietStep DEF vars, configuration

\* Objects enter the cache by CallStored only, and keep their inputs while they are there.
LEMMA StepInv ==
    ASSUME Inv, [Next]_vars
    PROVE  /\ Inv'
           /\ \A d \in cached' \cap cached : StoredInputs(d)' = StoredInputs(d)
           /\ ~CallStored => cached' \subseteq cached
  <1>1. CASE UNCHANGED vars
    BY <1>1, Stutter DEF vars
  <1>2. ASSUME NEW p \in Params, NEW c \in Contents[p], SetArgument(p, c)
        PROVE  /\ Inv' /\ cached' \subseteq cached
               /\ \A d \in cached' \cap cached : StoredInputs(d)' = StoredInputs(d)
    BY <1>2, SetArgumentStep DEF SetArgument
  <1>3. ASSUME NEW d \in cached, CallHit(d) \/ Evict(d)
        PROVE  /\ Inv' /\ cached' \subseteq cached
               /\ \A e \in cached' \cap cached : StoredInputs(e)' = StoredInputs(e)
    <2>1. CASE CallHit(d)
      BY <2>1, CallHitStep DEF CallHit
    <2>2. CASE Evict(d)
      BY <2>2, EvictStep DEF Evict
    <2> QED
      BY <1>3, <2>1, <2>2
  <1>4. CASE CallUncached
    BY <1>4, CallUncachedStep DEF CallUncached
  <1>5. CASE CallStored
    BY <1>5, CallStoredStep
  <1>6. CASE CallFails
    BY <1>6, CallFailsStep DEF CallFails
  <1> QED
    BY <1>1, <1>2, <1>3, <1>4, <1>5, <1>6 DEF Next

\* Every run of the program keeps the invariant.
THEOREM Invariant == Spec => []Inv
  <1>1. Init => Inv
    BY InitInv
  <1>2. Inv /\ [Next]_vars => Inv'
    BY StepInv
  <1> QED
    BY <1>1, <1>2, PTL DEF Spec

-----------------------------------------------------------------------------
(* The theorems.                                                           *)

\* What an object holds stays what the function computed from the inputs it holds,
\* although the program goes on writing to the variables they were copied from.
THEOREM AnswersStayIntact == Spec => []AnswersIntact
  <1>1. Inv => AnswersIntact
    BY DEF Inv, DataOK, Answers, AnswersIntact
  <1> QED
    BY <1>1, Invariant, PTL

\* Every allocated value is owned by one object in one place, so that each destructor
\* frees what nobody else does; all that leaks is one value for each copy that failed.
THEOREM ValuesAreOwnedOnce == Spec => []OwnedOnce
  <1>1. Inv => OwnedOnce
    <2> SUFFICES ASSUME Inv
                 PROVE  OwnedOnce
      OBVIOUS
    <2>1. Owned \subseteq Allocated /\ IsFiniteSet(Allocated) /\ IsFiniteSet(Owned)
      BY OwnedIsAllocated
    <2>2. Cardinality(Allocated) = Cardinality(Owned) + failures
      <3>1. Allocated \cap Owned = Owned
        BY <2>1
      <3>2. Cardinality(Allocated \ Owned) = Cardinality(Allocated) - Cardinality(Owned)
        BY <2>1, <3>1, FS_Difference
      <3>3. Cardinality(Allocated) \in Nat /\ Cardinality(Owned) \in Nat
        BY <2>1, FS_CardinalityType
      <3> QED
        BY <3>2, <3>3 DEF Inv, OwnInv
    <2>3. ASSUME NEW d \in cached
          PROVE  Cardinality(OwnedBy(d)) = Cardinality(Stored)
      <3> DEFINE place == [p \in Stored |-> Place(d, p)]
      <3>1. TypeInv /\ Shape(d) /\ PlacesApart(d)
        BY DEF Inv, DataOK
      <3>2. IsFiniteSet(Stored) /\ OwnedBy(d) = {Place(d, p) : p \in Stored}
        BY <3>1, StoredIsFinite, OwnedPlaces
      <3>3. place \in Bijection(Stored, OwnedBy(d))
        BY <3>1, <3>2 DEF PlacesApart, Bijection, Injection, Surjection, IsInjective
      <3>4. ExistsBijection(Stored, OwnedBy(d))
        BY <3>3 DEF ExistsBijection
      <3> QED
        BY <3>2, <3>4, FS_Bijection
    <2> QED
      BY <2>1, <2>2, <2>3 DEF OwnedOnce, Inv, OwnInv, Owned, Allocated
  <1> QED
    BY <1>1, Invariant, PTL

\* What a call finds is what was stored for inputs equal to its own, by the program's
\* functions for comparing and hashing them.
LEMMA EqualInputsAreFound ==
    ASSUME Inv, NEW d \in cached,
           \A c, e \in Values : Equal(c, e) => ContentHash(c) = ContentHash(e),
           \A p \in Of("Input") : Equal(StoredInputs(d)[p], Inputs[p])
    PROVE  Found(d)
  <1>1. \A p \in Of("Input") : StoredInputs(d)[p] \in Values /\ Inputs[p] \in Values
    BY InputsAreValues DEF Inv, DataOK, Answers
  <1>2. \A p \in Params : paramType[p] = "Input" =>
           ContentHash(StoredInputs(d)[p]) = ContentHash(argument[p])
    BY <1>1 DEF Of, Inputs
  <1>3. d.hash = CalculateHash
    <2>1. [p \in Params |-> IF paramType[p] = "Input" THEN ContentHash(StoredInputs(d)[p]) ELSE 0]
             = [p \in Params |-> IF paramType[p] = "Input" THEN ContentHash(argument[p]) ELSE 0]
      BY <1>2
    <2> QED
      BY <2>1 DEF Inv, DataOK, Answers, CalculateHash
  <1>4. Equals(d)
    BY DEF Equals, StoredInputs, Inputs
  <1> QED
    BY <1>3, <1>4 DEF Found

\* Equal inputs are stored once, if the program's functions keep the contract of a hash:
\* equality goes both ways and equal contents have equal hashes.
THEOREM EqualInputsAreStoredOnce ==
    ASSUME \A c, e \in Values : Equal(c, e) => Equal(e, c) /\ ContentHash(c) = ContentHash(e)
    PROVE  Spec => []EqualInputsStoredOnce
  <1>1. Init => EqualInputsStoredOnce
    BY DEF Init, EqualInputsStoredOnce
  <1>2. Inv /\ EqualInputsStoredOnce /\ [Next]_vars => EqualInputsStoredOnce'
    <2> SUFFICES ASSUME Inv, EqualInputsStoredOnce, [Next]_vars
                 PROVE  EqualInputsStoredOnce'
      OBVIOUS
    <2>1. Of("Input")' = Of("Input") /\ paramType' = paramType
      <3>1. paramType' = paramType
        BY DEF Next, vars, configuration, SetArgument, CallHit, Evict, CallUncached,
               CallStored, CallFails
      <3> QED
        BY <3>1 DEF Of
    <2>2. ASSUME NEW d \in cached', NEW e \in cached', d \in cached, e \in cached,
                 \A p \in Of("Input") : Equal(StoredInputs(d)'[p], StoredInputs(e)'[p])
          PROVE  d = e
      <3>1. StoredInputs(d)' = StoredInputs(d) /\ StoredInputs(e)' = StoredInputs(e)
        BY <2>2, StepInv
      <3> QED
        BY <2>2, <3>1 DEF EqualInputsStoredOnce
    <2>3. ASSUME NEW d \in cached', NEW e \in cached', d \notin cached \/ e \notin cached,
                 \A p \in Of("Input") : Equal(StoredInputs(d)'[p], StoredInputs(e)'[p])
          PROVE  d = e
      <3>1. CallStored
        BY <2>3, StepInv
      <3>2. PICK new : new = NewData
        OBVIOUS
      <3>3. /\ cached' = cached \cup {new} /\ StoredInputs(new)' = Inputs
            /\ \A f \in cached : ~Found(f)
        BY <3>1, <3>2, NewDataOK DEF CallStored, Inv, Miss
      <3>4. \A f \in cached : StoredInputs(f)' = StoredInputs(f)
        BY <3>1, CallStoredStep
      <3>5. \A p \in Of("Input") : Inputs[p] \in Values
        BY InputsAreValues DEF Inv
      <3>6. \A f \in cached : \A p \in Of("Input") : StoredInputs(f)[p] \in Values
        BY DEF Inv, DataOK, Answers
      <3>7. ASSUME NEW f \in cached,
                   \A p \in Of("Input") : \/ Equal(StoredInputs(f)[p], Inputs[p])
                                          \/ Equal(Inputs[p], StoredInputs(f)[p])
            PROVE  FALSE
        <4>1. \A p \in Of("Input") : Equal(StoredInputs(f)[p], Inputs[p])
          BY <3>5, <3>6, <3>7
        <4>2. Found(f)
          BY <4>1, EqualInputsAreFound
        <4> QED
          BY <3>3, <4>2
      <3>8. CASE d \in cached
        <4>1. e = new
          BY <2>3, <3>3, <3>8
        <4> QED
          BY <2>3, <3>3, <3>4, <3>7, <3>8, <4>1
      <3>9. CASE e \in cached
        <4>1. d = new
          BY <2>3, <3>3, <3>9
        <4> QED
          BY <2>3, <3>3, <3>4, <3>7, <3>9, <4>1
      <3>10. CASE d \notin cached /\ e \notin cached
        BY <3>3, <3>10
      <3> QED
        BY <3>8, <3>9, <3>10
    <2> QED
      BY <2>1, <2>2, <2>3 DEF EqualInputsStoredOnce
  <1> QED
    BY <1>1, <1>2, Invariant, PTL DEF Spec

\* A call that is answered from the cache leaves in the outputs, and returns, what the
\* function would have computed, if the outputs are passed by pointer and the program's
\* function for comparing inputs tells all contents apart.
THEOREM CachingIsTransparent ==
    ASSUME Passing = "pointer", \A c, e \in Values : Equal(c, e) => c = e
    PROVE  Spec => []Transparent
  <1>1. Init => Transparent
    BY DEF Init, Transparent
  <1>2. Inv /\ Transparent /\ [Next]_vars => Transparent'
    <2> SUFFICES ASSUME Inv, Transparent, [Next]_vars
                 PROVE  Transparent'
      OBVIOUS
    <2>1. /\ paramType' = paramType /\ returnType' = returnType
          /\ Of("Input")' = Of("Input") /\ Of("Output")' = Of("Output")
      <3>1. paramType' = paramType /\ returnType' = returnType
        BY DEF Next, vars, configuration, SetArgument, CallHit, Evict, CallUncached,
               CallStored, CallFails
      <3> QED
        BY <3>1 DEF Of
    <2>2. ASSUME \A p \in Of("Input") : argument'[p] = argument[p]
          PROVE  Inputs' = Inputs
      BY <2>1, <2>2 DEF Inputs
    <2>3. \A p \in Of("Input") : p \in Params /\ paramType[p] # "Output"
      BY DEF Of
    <2>4. \A p \in Of("Output") : p \in Params /\ paramType[p] = "Output"
      BY DEF Of
    <2>5. ASSUME phase' = phase, argument' = argument, returned' = returned
          PROVE  Transparent'
      <3>1. Inputs' = Inputs
        BY <2>2, <2>5
      <3> QED
        BY <2>1, <2>5, <3>1 DEF Transparent, Result
    <2>6. ASSUME phase' = "ready"
          PROVE  Transparent'
      BY <2>6 DEF Transparent
    <2>7. ASSUME NEW d \in cached, CallHit(d)
          PROVE  Transparent'
      <3>1. /\ argument' = SetOutput(d, memory, argument) /\ returned' = ReturnValue(d, memory)
            /\ Found(d)
        BY <2>7 DEF CallHit
      <3>2. \A p \in Of("Input") : argument'[p] = argument[p]
        BY <2>3, <3>1 DEF SetOutput
      <3>3. Inputs' = Inputs
        BY <2>2, <3>2
      <3>4. StoredInputs(d) = Inputs
        <4>1. \A p \in Of("Input") : StoredInputs(d)[p] \in Values /\ Inputs[p] \in Values
          BY InputsAreValues DEF Inv, DataOK, Answers
        <4>2. \A p \in Of("Input") : Equal(StoredInputs(d)[p], Inputs[p])
          BY <3>1 DEF Found, Equals, StoredInputs, Inputs
        <4>3. \A p \in Of("Input") : StoredInputs(d)[p] = Inputs[p]
          BY <4>1, <4>2
        <4> QED
          BY <4>3 DEF StoredInputs, Inputs
      <3>5. StoredOutputs(d) = [p \in Of("Output") |-> Result(p, Inputs)]
            /\ (returnType = "Used" => memory[d.returnValue] = Result(0, Inputs))
        BY <3>4 DEF Inv, DataOK, Answers
      <3>6. \A p \in Of("Output") : argument'[p] = StoredOutputs(d)[p]
        BY <2>4, <3>1 DEF SetOutput, StoredOutputs, VariableReached
      <3> QED
        BY <2>1, <3>1, <3>3, <3>5, <3>6 DEF Transparent, ReturnValue, Result
    <2>8. ASSUME CallUncached
          PROVE  Transparent'
      <3>1. argument' = Computed /\ returned' = Result(0, Inputs)
        BY <2>8 DEF CallUncached
      <3>2. Inputs' = Inputs
        BY <2>2, <2>3, <3>1 DEF Computed
      <3> QED
        BY <2>1, <2>4, <3>1, <3>2 DEF Transparent, Computed, Result
    <2>9. ASSUME CallStored
          PROVE  Transparent'
      <3>1. PICK new : new = NewData
        OBVIOUS
      <3>2. /\ argument' = SetOutput(new, memory', Computed) /\ returned' = ReturnValue(new, memory')
            /\ Len(Unused) >= Cardinality(Stored) /\ UNCHANGED configuration
            /\ memory' = MemoryWith(Computed) /\ TypeInv
        BY <2>9, <3>1 DEF CallStored, Inv
      <3>3. /\ StoredOutputs(new)' = [p \in Of("Output") |-> Result(p, Inputs)]
            /\ returnType = "Used" => memory'[new.returnValue] = Result(0, Inputs)
        BY <3>1, <3>2, NewDataOK
      <3>4. \A p \in Of("Input") : argument'[p] = argument[p]
        BY <2>3, <3>2 DEF SetOutput, Computed
      <3>5. Inputs' = Inputs
        BY <2>2, <3>4
      <3>6. \A p \in Of("Output") : argument'[p] = StoredOutputs(new)'[p]
        <4>1. \A p : IndexOf("Output", p)' = IndexOf("Output", p)
          BY <2>1 DEF IndexOf
        <4> QED
          BY <2>1, <2>4, <3>2, <4>1 DEF SetOutput, StoredOutputs, VariableReached
      <3> QED
        BY <2>1, <3>2, <3>3, <3>5, <3>6 DEF Transparent, ReturnValue, Result
    <2>10. CASE UNCHANGED vars
      BY <2>5, <2>10 DEF vars
    <2>11. CASE \E p \in Params : \E c \in Contents[p] : SetArgument(p, c)
      BY <2>6, <2>11 DEF SetArgument
    <2>12. CASE \E d \in cached : Evict(d)
      BY <2>5, <2>12 DEF Evict
    <2>13. CASE CallFails
      BY <2>6, <2>13 DEF CallFails, Miss
    <2> QED
      BY <2>7, <2>8, <2>9, <2>10, <2>11, <2>12, <2>13 DEF Next
  <1> QED
    BY <1>1, <1>2, Invariant, PTL DEF Spec

=============================================================================
