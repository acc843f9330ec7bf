# A TLA+ model of CacheSystem

This directory is a verification development for the C++ caching library in
`src/` (HrdDataCacheSystem): TLA+ modules that model its components, TLC
configurations that check them on small instances, and TLAPS proofs of the
properties that matter most. Paths below are relative to the repository.

## 1. Inventory of the system

The library memoises functions. A program creates a `CachedFunctionManager`,
registers functions with `createCachedFunction`, and calls them through
`call(params...)`. A call whose inputs are equal to those of a stored
`CacheData` object copies that object's outputs; any other call runs the user's
function and stores a copy of inputs, outputs and return value if they were
expensive enough to create and are small enough to keep. When the manager's
capacity is used up, its cache policy names the objects to evict.

| Component | State | Operations | Talks to |
|---|---|---|---|
| **Cached function call** `CachedFunction.h`, `AbstractCachedFunction.h` | configuration, `cacheData`, `dataInCacheIndicator`, `cpuTicksPerMs` | `call` (with and without return value), `setDataInCacheIndicator`, `calculateHash`, `calculateSize` | locks the manager for the whole call; calls the user's function under the lock, which may call cached functions again; manager, data structure, policy |
| **Manager** `CachedFunctionManager.{h,cpp}` | `cachedFunctions`, `spaceTaken`, `policy`, recursive `mutex` | constructor, destructor, `createCachedFunction`, `checkSpace`, `takeSpace`, `makeSpace`, `getEvictionCandidate`, `performCacheMissEvents` | iterates over all functions' data structures, asks the policy for priorities |
| **Data structure** `CacheDataStructure.h` | hash map of vectors of objects; `mapIterator`, `listIndex` | `getCacheData`, `addCacheData`, `resetDataIterator`, `getNextData`, `removeData` | called by its function's `call`, and by the manager |
| **Cache data** `CacheData.{h,cpp}`, `Value.h`, `TypedValue.h` | copies of parameters and return value, hash, size, creation time, policy data | `setParameters`, `setReturnValue`, `equals`, `setOutput`, destructor | the user's init, equal, output and destroy functions |
| **Manipulation functions** `Standard*Functions.h`, `StandardFunctions.h`, `DataManipulationFunctionsTypeTraits.h`, `Hash.h` | none | hash, equality, copy, output, size and destruction of values | invoked by call and cache data, with or without the dependency object |
| **Configuration** `CacheConfiguration.h`, `CacheManagerConfiguration.h`, `TypedParameterInfo.h`, `TypedReturnInfo.h`, ... | parameter and return infos, thresholds, capacity, policy | setters and copy constructors | read by the others |
| **Cache policies** `CachePolicy.{h,cpp}`, `DefaultCachePolicy.{h,cpp}`, `LFUCachePolicy.{h,cpp}` | policy data on every cache data object (reference count, last reference, hits) and counters of the policy | `createData`, `hitData`, `missData`, `evictData`, `getPriority`, setters of the weights | called by manager and call, within the manager's mutex; a policy object may be shared by managers built from one configuration |
| **Caching filter** `CacheSystemVtkWrapper/CachingFilter.h`, `CacheManagerSource.{h,cpp}` | static manager, static counter, static mutex; a cached function per filter | constructor, destructor, `RequestData`, init and destroy of the filter copies that the cache keeps | the manager, VTK |
| **VTK data functions** `CacheUtils.{h,cpp}` | none | `CacheInit`, `CacheEquals`, `CacheGetSize`, `CacheHash` for VTK data sets | VTK |
| **Muscle wrappers** `Samples/LHPApps/VME/medVMEMuscleWrapper_Core.cpp` | per wrapper: `m_Modified` and the checksums behind it, master and slaves, transformed, deformed and decomposed muscle, output | `InternalPreUpdate`, `InternalUpdate`, `MustUpdateCheck`, `PrepareInput`, `DeformMuscle`, `GenerateFibers` | each other, through masters and slaves; the model that enables wrappers; the deformation filter; hulls in the scene |
| **Cached deformation filter** `Samples/LHPApps/vtkLHP/vtkMEDPolyDataDeformationPKCaching.{h,cpp}` | static manager and cached function; meshes, coarse meshes, curves | `ExecuteMultiData` through the cache; the manipulation functions of its inputs and outputs | the manager; `vtkMEDPolyDataDeformationPK`, of which the repository has the header only |
| **Small samples** `Samples/DependencyObject`, `Samples/vtkDecimator` | none of their own | programs that time the library | the library |

### What is hard here

* **Threads and recursion.** Every call holds the manager's recursive mutex from
  its first to its last line, the user's function included, and that function may
  call cached functions of the same manager. State read by the outer call (the
  miss, the hash, the new object) is used after any number of inner calls have
  stored and evicted data. Some operations do not take the mutex:
  `createCachedFunction`, `setDataInCacheIndicator`, `getSpaceTaken`, and the
  destructor.
* **Failure.** The user's function may throw, and so may the user's hash, equality,
  copy, output and return functions, the last two when the result is already stored;
  the new object and the lock are released by destructors, the bytes taken are not.
* **Limits.** Space is counted in the unsigned arithmetic of `size_t`; the loop of
  `makeSpace` dereferences its candidate without a check, and a priority that is not a
  number is below no other, so a scan may end without one.
* **Iterators kept across operations.** A scan of the data leaves its iterator in
  the structure while `removeData` erases from it.
* **Life cycle.** Filters share a manager through a counter that the destructor
  reads without the mutex, and the copies of filters kept in the cache count too.
* **Groups.** A wrapper that is redrawn may have to let another one, its master, run
  the deformation for a group, and the user excludes, includes and edits wrappers
  between redraws. Who is whose master depends on the order of the redraws; calls go
  up the masters and flags say what is still to do.
* **Approximate answers.** The deformation is cached up to a tolerance, under a hash of
  exact coordinates that is computed before the deformation completes its input.
* **Formulas.** Policies compute priorities in floating point, and default weights
  can be set so that a priority is not a number.

### What makes each component correct

* Call and manager: at most one thread works on the cache; a call answers from
  an object that holds its own inputs; a miss is still a miss when its result is
  stored; no inputs are stored twice; the count of bytes is the size of what is
  stored, never above the capacity; eviction always finds a candidate and
  removes nothing needlessly; every call gives the mutex back; the indicator
  tells whether the result was stored.
* Data structure: an object is found under its hash until it is removed; a scan
  yields every object once and never follows a dangling iterator.
* Policies: events arrive in the order create, hits and misses, evict, once per
  object; a candidate exists whenever there are data; the priority falls with
  age and rises with use.
* Cache data: a stored object owns copies of exactly the input and output
  parameters, and what it gives back is what the function computed.
* Caching filter: the manager lives as long as any filter or copy of one, there is one
  at a time, and no filter uses a deleted one.
* VTK functions: equal data have equal hashes, and are equal iff their parts are.
* Muscle wrappers: a wrapper is listed by the master it knows; calls up the masters
  end; what is shown after a redraw was computed from what is in the scene; fibers are
  those of the muscle that was deformed last, or marked; nothing runs again without need;
  hulls are those of the rest pose.
* Cached deformation filter: an approximate answer is for the muscles, poses and bones
  asked about; what was computed once is found again; the comparison of two inputs
  finds both complete.


## 2. Modules

Modules are parameterised by CONSTANTS and composed as follows; each `MC*` module
extends one of them and gives its constants small values.

```
MemoCache  <----implements---- CachedFunctionManager <-- CachedFunctionManagerProofs
ObjectSet  <----implements---- CacheDataStructure    <-- CacheDataStructureProofs
EvictionProtocol <--instance-- CachePolicies --instance--> DefaultCachePolicy, LFUCachePolicy
                               CachePolicies         <-- CachePoliciesProofs
ContributionConstants          (the weights of DefaultCachePolicy) <-- ContributionConstantsProofs
CachingFilter                  (filters, copies and the static manager) <-- CachingFilterProofs
CacheData                      (values of a call)    <-- CacheDataProofs
                               (with CacheUtils and Hash in MCCacheData)
MuscleWrapper      <-- MuscleWrapperProofs      (when and for whom the application deforms)
MuscleDeformation  <-- MuscleDeformationProofs  (what a deformation hands to the cache)
```

`MuscleWrapper` and `MuscleDeformation` are the application on top of the library. `InternalUpdate` of
`MuscleWrapper` takes the deformation for a function of the group's prepared inputs;
`MuscleDeformation` opens that function and takes from `CacheDataStructure` and
`CachedFunctionManager` that a lookup compares the stored inputs of equal hash, and that
a result may or may not be stored, and may go at any time.

```
CachedFunctionManager's promise <--used by-- MuscleDeformation <--used by-- MuscleWrapper
```

| Module | Models | State and how it corresponds |
|---|---|---|
| `CachedFunctionManager` | `call` with every early return, nested calls, exceptions of the user's functions wherever `call` runs one (hash and equality: `LookupThrows`; the function itself and copies; outputs and return value, on a hit as on a miss: `OutputThrows`), the locker, `checkSpace`/`makeSpace`/`takeSpace` in unsigned arithmetic, creation and destruction of the manager, the indicator | a stack of frames per thread, `pc` being the point a call has reached: `lock` (line 25), `lookup` (27), `run` (35), `makeSpace` (55), `store` (57), `hit` (61). Everything between two points that another thread or a nested call can see is one action. Inputs are a *key*; equal inputs are equal keys |
| `MemoCache` | what manager and calls promise: a set of remembered keys that fits the capacity, forgets only when it must, and truthful outcomes | refinement: contents are the keys of the stored objects, pending calls those on the stacks |
| `CacheDataStructure` | map of vectors, lookups, additions with a possible rehash, removals, the iterator that stays in the structure | `cacheData` from hashes to sequences, `order` the order in which the map is iterated (any, and any other after a rehash), `mapIterator`, `listIndex` |
| `ObjectSet` | the set of objects that the above promises, and a scan that meets each member once | refinement: contents are the objects of all vectors |
| `EvictionProtocol` | the events by which managers drive a policy and the scan of `getEvictionCandidate`, one `getPriority` per step; a policy is a parameter | `phase`, `todo`, `candidate` of every manager. A candidate is replaced by a lower priority only, and NaN is below nothing (`Better`); `CandidateMissing` is the null dereference, after which the phase is `stopped` |
| `DefaultCachePolicy`, `LFUCachePolicy` | the five events of each policy as operators on its state | reference counts are integers in units that all shares divide; `NoData` is missing user data |
| `CachePolicies` | both policies under the protocol, the default one also with weights that are NaN (`unweighted`), with ghost sums of evicted references and hits | composes the three |
| `ContributionConstants` | the six setters of the weights with both bounds of their checks, in rational arithmetic with NaN | `time`, `size`, `reference` |
| `CachingFilter` | constructor, destructor, `RequestData`, copies of filters stored and destroyed by the cache, per-class mutex, static manager and counter | a stack of frames per thread, because evictions and the manager's destructor run destructors of copies |
| `CacheData` | configuration of parameters, hash of the inputs, comparison, copies in memory, what outputs and return value a call delivers, destruction | `memory` is the heap of cached values, `cached` the objects that point into it, `argument` the program's variables |
| `MuscleWrapper` | `MustUpdateCheck` with fast and slow checks, `PrepareInput`, `InternalPreUpdate`, `InternalUpdate`, the input preparations of `GenerateFibers`; the user's edits, the timebar, exclusion, the model's options | `vme` has the attributes of each wrapper (`modified` is `m_Modified`, `known` the checksums, `curves`, `transformed`, `deformed`, `decomposed`, `polyData` name the contents they were computed from); `calls` is the call stack, because calls go from slave to master; `scene` is what the user edits |
| `MuscleDeformation` | `DeformMuscle` with the PK method: inputs, hulls, outputs; the methods of `vtkMEDPolyDataDeformationPKCaching`; the interpolation by steps (method 3) in any number of steps, with the hull it deletes (`:1045`) | `hull` is what `GetHullVME` finds, `Removed` where it found one and will not again, `cached` the stored inputs and outputs, `origin` the reference points, `deformed` the muscles of the group redrawn last; a mesh is whose it is, where it is, and how far it is bent. `EqualFunction` compares in the order of the code: number of meshes (`:58`), then part by part the muscles with coarse meshes, curves and reference points, and the number of obstacles only at the end (`:254`) |
| `CacheUtils`, `Hash` | equality and hash of VTK arrays, field data, data objects and information vectors; `hash_combine` | pure operators. The bytes of an array are a number; that hashes look at mantissas only, ignore small arrays and geometry, and collide, is kept |

`PROJECT.json` maps every definition to the lines it translates.

## 3. Runs

Passing runs:

| Run | Instance | Shows |
|---|---|---|
| `manager` | 3 threads, 2 functions, 5 keys (one that fits no cache, one of size 0, nesting three deep), 5 addresses, capacity 3, words of 3 bits | eight invariants and the refinement of `MemoCache`. Any two of the keys of size 1, 2, 1 fit and all three do not, so single and repeated evictions happen, also below a running call; three threads are one owner, one waiting and one free. Words of 8 values make every sum that could wrap do so |
| `manager_liveness` | 2 threads, 2 keys that displace each other, capacity 2 | `MutexReleased`, `UncontendedCallReturns` under fairness |
| `data_structure` | 6 inputs of 3 hashes, two of them equal by tolerance, 3 objects | iterator validity, completeness and end of scans, refinement of `ObjectSet`; three objects give a vector of three, vectors of two and one, and three vectors |
| `policies` | 1 manager, 3 objects, 6 calls, either policy, with and without miss events, the default policy also with weights that are NaN | policy data for exactly the stored objects, comparable time stamps, conservation of references, least candidate, and that a scan without a candidate has NaN for a reason. The number of calls bounds the time stamp; six allow eviction, re-creation at the same address and hits between scans |
| `weights` | proportions 0, 1/4, 1/2, 1 and, out of range, −1/4 and 3/2; denominators up to 12 | exactly when the sum stays 1 and when a setter loses two weights to NaN, and that unset weights keep their proportion |
| `filters` | 3 threads of which two create and delete, 5 filters of two classes, 2 managers, under the constraint `OneAtATime` | the manager exists exactly as long as filters and copies do. Five addresses allow a filter of either class with a copy each. The constraint cuts off what happens after two constructors or destructors have met outside one mutex: what the mutexes would exclude if they were one, held until the manager is deleted. Without it `ManagerAlive` fails (section 5) |
| `cache_data` | 3 parameters in three configurations, returned value used or not, 4 VTK data objects of which two pairs collide, 2 cached objects, 9 cells, 1 failing copy | `Transparent`, `AnswersIntact`, `OwnedOnce`, `EqualInputsStoredOnce`. Two objects of three values or more leave holes that are reused; the third parameter takes two values only |
| `muscles` | 3 wrappers of one model, of which one has fast checks, shows fibers fitted in the muscle of a fourth wrapper, and is edited in a dialog; two contents of every source; 2 acts of the user between any redraws | the five properties of `MuscleWrapper`: what was shown last is deformed from the muscle, the curves and the output space of the scene and without reference points that have gone, and nothing is left to do, unless the master of the wrapper is a slave itself. Three wrappers are the least with a master of a master; two acts are an edit and an exclusion, inclusion, change of options or of what is shown, in any order, among any number of redraws. The mutants are found with two acts, and the proofs cover any number of them. Each wrapper has its own selection of editable sources, so that every branch of the checks runs |
| `deformation` | 2 muscles, a bone, two positions of the current and of the rest pose within the tolerance of each other, two of the reference points outside it, 1 or 2 interpolation steps, 1 cached input, progressive hulls (no property depends on their setting, and either is in the proofs) | the four properties of `MuscleDeformation`. Two steps are the least whose intermediate meshes differ from the first and the last. Groups of one and of two in either order are what masters can make of two wrappers; one cached input suffices for every comparison, because a comparison is of one stored input with one asked for |

Runs that disagree with the documentation or with comments:

| Run | What TLC finds |
|---|---|
| `output_by_reference` | an output passed by reference is not written on a hit, because the invoker copies its arguments |
| `vtk_inputs` | information vectors are compared with themselves, so data of equal hash are answered with each other's results |
| `muscles_chain` | A leads B, B is excluded and C included, C is redrawn and becomes the master of A: B, now the slave of a slave, is edited and redrawn, and not deformed. The assertion at `medVMEMuscleWrapper_Core.cpp:516` excludes this |

Five disagreements more are shown by passing runs, whose properties say of the code
exactly where it departs from its comments; section 5 lists them first.

Deadlock is checked in every run but `policies` and `deformation`, where the program may
stop: a scan ends without a candidate, which is dereferenced; the comparison dereferences
a coarse mesh that is missing, and the interpolation frees arrays that it has not filled.
In `policies` the calls are bounded, too. `NeverReentered` is the safety counterpart of termination
in `MuscleWrapper`: the calls go up a finite forest, so no fairness is needed to say
that they end.

External behaviour that the two modules of the application assume: the kernel calls
`InternalPreUpdate` and then `InternalUpdate` of a wrapper; the dialog sets the flag of
what was edited and, for a curve, of its item; `GetMuscleWrappers` of the model lists the
enabled wrappers; the wrapper of the rest pose belongs to another model (`:660` compares
the two); `ExecuteMultiData` of the deformation filter computes the coarse meshes that it
was not given, and an output that depends on the input meshes, curves and bones.

Fairness is assumed in two modules. In `CachedFunctionManager`: weak fairness
of the steps inside the library and of taking the mutex (a thread that can run
does), and strong fairness, at every level of nesting, of the end of the user's
function (it terminates, possibly by an exception, although nested calls may
delay it). Nothing is assumed about whom the mutex admits, as Windows promises
nothing: hence a call is only shown to return when the others leave the manager
alone. In `CacheDataStructure`: weak fairness of `GetNextData`, which the three
loops of the manager call until it answers null.

## 4. Proofs

### The manager

`CachedFunctionManagerProofs` proves every invariant of the `manager` run for
all threads, functions, keys, objects, sizes, capacities and nestings that
satisfy the named assumptions:

* `KeyAssumption`: every key belongs to a function; the null values are no values.
* `SizeAssumption`: sizes are words, and **twice the capacity is less than the
  range of `size_t`**. Without it `checkSpace` may wrap around.
* `NestingAssumption`: nested calls are on inputs of smaller rank; a function
  that calls itself on its own inputs would not terminate uncached either.
* `ObjectAssumption`: finitely many addresses.

The invariants are not inductive one by one. `Inv` is the conjunction of four
parts, each with a lemma that a step preserves it, given those before it:

1. `LockInv`: types and mutex discipline. That a nested call may be pushed needs
   its rank, so the step also uses `FrameInv` and `StoredInv`.
2. `DataInv`: what frames say about stored data. `NestInv`, that the keys on a stack
   descend along `Calls` and so in rank, makes a nested call never store the
   inputs of an outer one; `LockDiscipline` makes other threads stand still
   (`OwnerAlone`). Together they give `MissStillValid`, from which `UniqueEntries`
   and `AnswerStored` follow step by step.
3. `SpaceInv`: the count is the cardinality of the set of bytes of the stored
   objects, it is at most the capacity, and in front of `store` there is room for the
   new object. Bytes are pairs of an object and a number up to its size, so that a sum
   is a cardinality and adding or removing an object is a disjoint union (`BytesAdd`).
4. `DeadInv`: without a manager there are no calls and no data.

Each theorem (`TypeCorrect`, `MutexCorrect`, `SpaceAccounted`, `CapacityRespected`,
`EvictionPossible`, `MissesStayMisses`, `EntriesUnique`, `AnswersStored`) follows
from `Invariance`. `EvictionPossible` is the one that needs an argument of its own: an
empty cache has zero bytes, and what is wanted is at most the capacity.

The same module proves that the manager implements `MemoCache`
(`MemoCacheImplemented`): every step, seen through the keys of the stored objects and
those on the stacks, is a step of the abstract cache or a stutter. A call that returns
reports what `AnswerStored` and `UniqueEntries` make true, and one that an exception ends
returns nothing, although its result may be remembered already (`Fail`); an eviction forgets a key
*because there was no room*, which `RoomWanted` derives from the byte count: the keys
that are remembered have as many bytes as the objects they are stored in (`BytesOfKeys`),
no key being stored twice. A pop of a frame takes away the key of that frame and no other
one, since the keys on a stack descend in rank (`PopPends`).

### Objects and scans

`CacheDataStructureProofs` proves `TypeOK`, `IteratorValid`, `ScanComplete` and the
refinement of `ObjectSet`, for any finite set of objects, any inputs, any hash function
that gives equal inputs equal hashes (`EqualAssumption`), and any order of iteration that
a rehash may produce. `ObjectAssumption` says that there is a finite memory and something
to cache, `IteratorAssumption` that the end of the map and an invalid iterator are no
hashes. The invariant has three parts besides the types:

1. `MapInv`: no vector of the map is empty, an object is in one place only, under the hash
   of its inputs, no two objects have equal inputs, and `order` enumerates the map.
2. `PendingInv`: a call between its miss and its addition holds an object whose inputs
   no stored object and no other such call has, so that the addition keeps `MapInv`.
3. `ScanInv`: a running scan stands on an object or at the end, what it has met and what
   is still to come (`Unseen`) are disjoint, without repetitions, and all there is.

`ScanInv` needs lexicographic places: `Unseen` is what lies at or behind the iterator in
`order` and in the vector (`UnseenPlaces`), and a step of `getNextData` takes just the
first of it away (`StepOfUnseen`). That scans end needs fairness and stays with TLC.

### Policies

`CachePoliciesProofs` proves `DataCounted`, `TimesOrdered` and `LeastFrequentlyUsed` for
any number of managers that share a policy, any objects and contributions, and
`CandidateLeast` for **one** manager: with two it is false (section 5). `UnitAssumption`
says that a reference divides into shares without rest, so that priorities are integers;
`ObjectAssumption` that objects are finitely many. The proof has a lemma on each event
of the two policies (`CreationEffects`, `HitEffects`, `MissEffects`, `AgeEffects`,
`EvictionEffects`), one on each step of the protocol for the places of the objects
(`...Proto`), and one that combines them (`...Step`). What the properties do not say by
themselves: an object that was never looked at (time 0) is the one its call has just
created (`TimeInv`), which is why a scan never meets it; and asking for a priority
changes the data but not the order of priorities, because time does not pass within a
scan (`AgeKeepsPriorities`), so that the minimum of a scan stays one (`LeastInv`).
`CandidateIsFound` says that a scan ends without a candidate only if the weights are NaN, for
any number of managers: NaN is the priority of all objects of a policy or of none
(`WeightInv`), and any number is below the maximum with which the scan begins.

`ReferencesBalanced` is proved for one manager too. It is not inductive: between the miss
events of one call the sum is off. `BalanceInv` says by how much: what was evicted and what
the objects are worth (`Worth`, the sum of their counts at the present time) add up to one
share for each object whose miss event is still to come. The sum is a fold over a set, a
recursive function that the prover can only take as *the* function that satisfies its
equation; `SumsExist` and `SumsAgree` show that there is one and only one on the subsets of
a finite set, by a least counterexample, and `SumsAdd` that it adds up in any order.

### Weights

`ContributionConstantsProofs` proves `SumIsOne` and `ProportionKept` for any set of
proportions, nothing, the whole and values out of range included, and any bound on
denominators. `ProportionAssumption` says that arguments are numbers. Both are temporal
properties, because they say of each setter what it does: `SumIsOne` that after a setter of
two weights the sum is 1, and after a setter of one exactly if it was before and the weight
that was set was not the whole. The invariant `WeightsInv` has two cases: the weights are
numbers that make one whole (`Right`), or two of them are lost (`Lost`), which only a setter
of two repairs. The share of a weight in what is left is a number exactly if not both of the
others are 0, hence, in `Right`, if the weight that is set is less than the whole.
Numbers are compared through cross products: `Is(x, n, d)` says that `x` is n/d, in whatever
form, and `PlusOf`, `MinusOf`, `TimesOf` and `DividedByOf` are the operations on it. That
equal numbers are equal pairs, which `ProportionKept` needs, takes Euclid's lemma (`Euclid`):
the least positive multiplier that makes p divisible by q divides all others (it is there
because naturals are well-founded), so if p and q have no common factor it is q.

### Values

`CacheDataProofs` proves `AnswersIntact` and `OwnedOnce` for any number of parameters,
any set of configurations and contents, any equality and hash.
`ParameterAssumption` and `ValueAssumption` say that there is a parameter and that a free
cell is told from a value. `Stored` values are numbered: the place of a parameter among
those of its type is its rank there, and the rank is a bijection (`RankIsBijection`), so
that an object's addresses are apart (`PlacesApart`) and what is read back through them is
what was written (`Answers`).
A copy that fails leaves what it has allocated behind: `OwnInv` counts one unowned cell
for each failure, and none else. Two theorems have hypotheses, which are the contracts
of the library with the program:

* `EqualInputsAreStoredOnce`: equality is symmetric and equal contents hash alike;
* `CachingIsTransparent`: outputs are passed by pointer and the equality tells contents
  apart. Without either, `output_by_reference` and `vtk_inputs` show it violated.

### Filters

`CachingFilterProofs` proves `TypeOK`, `ManagerAlive` and `ManagerGoesWithLastCounted` for any
number of filters, copies, classes, managers and threads, of which any may create and
delete, along behaviours in which constructors and destructors meet one at a time:
`Spec /\ []OneAtATime => []...`. Without that hypothesis they are false (section 5), so it says
what a lock must do that would make them true. `OneMakerIsEnough` derives it from the
specification alone if the filters are of one class and one thread makes and deletes them,
which is how the code can be used as it is.
`ThreadAssumption` and `FilterAssumption` say what null values are and that filters are
finitely many. The invariant says of each stack what it may hold (`StackOK`: a filter of
the program, or a call with a copy within it), that no two threads are
busy with the same filter (`StackInv`), that the counter counts the filters that exist
and whoever is about to write it has read what it is (`CountInv`), and that a thread that
has read zero is alone (`ManagerInv`): copies cannot exist without a manager, and no
filter is made meanwhile. `ManagerAlive` is not inductive without the last part, since
the destructor deletes the manager in three steps after it has left the mutex.

`ManagerGoesWithLastCounted` does not say that the manager goes with the program's last filter:
copies in the cache are counted as filters, so a manager that has kept one outlives them
all, and so does one of whose copies the reference count outlived the `Delete`. It says
that the manager goes with the last of what is counted, and that its destructor therefore
never has a copy to destroy.

### Masters and slaves

`MuscleWrapperProofs` proves `TypeOK`, `MasterKnowsSlave` and `NeverReentered` for any
wrappers, sources, contents and bounds. The invariant `IInv` says that `master` is a
forest and that `calls` follows it: there is a rank, a natural number for each wrapper,
lower for a master than for its slaves (`Ranked`), and a call that the rest of another
one waits for is on a wrapper of lower rank (`Ordered`).
The rank has to be quantified within the invariant because `Lead` changes it: the new
master, which has none itself, gets rank 0 and all others move up by one. Calls already
on the stack are not disturbed, since moving up keeps their order, and `Lead` removes
its own. `MasterKnowsSlave` is inductive only with the fact that the slaves of a wrapper
do not include itself. The lemmas `...Effect` state once that the checks and the
preparation of inputs change neither masters nor slaves.

### Redraws

The same module proves `DeformedFromScene` and `NothingPending`, however often the user
acts between two redraws. `BoundAssumption` and `NoneAssumption` say that positions of the
timebar are numbers and that nothing is no content. The invariant `MInv` adds two parts
to `IInv`:

1. `SourcesOK`: whatever the flags of a wrapper do *not* mark is right. The input was
   prepared from what the wrapper has recorded of its sources (`InputOK`: checksums with
   slow checks, the sources themselves at the last time seen with fast ones), and the
   deformed muscle was made of that input and of no reference point that the wrapper knows
   to have gone (`MuscleOK`). That `PrepareInput` makes the
   record agree with the scene is `PrepareInputBrings`, from a lemma on each of
   its parts: the checks (`FastChecksNotice`, `SlowChecksNotice`), the flags that follow
   (`ConsequencesFollow`) and the preparation (`PreparationComplete`). Fast checks do not look
   at reference points, but those of a wrapper that has them stay linked (`PointSources`).
2. `Flight`: where a redraw is. Before `InternalUpdate` the wrapper that is redrawn, if it
   must deform and has a master, has asked it, or that master will deform anyway (`Asked`,
   `Covered`); from there on it is deformed (`Handled`), with the
   exception the theorems make, of a wrapper whose master is a slave. The calls up the
   masters that come before are any sequence of calls (`Asking`, `Deforming`), whose
   last one is on the master asked. No step of theirs undoes what was prepared.

The case that decides is `Lead`, which may take the wrapper for a slave of somebody else,
or set it free, while its redraw is under way (`LeadKeeps`).
Neither theorem claims that a reference point that has *moved* is noticed, or that a slave of
a slave is deformed: both are false (section 5, and the run `muscles_chain`).
`DecomposedAgain` fails (section 5), so the theorems say nothing of wrappers that are not redrawn.

### Approximate answers

`MuscleDeformationProofs` proves `AnswerForAsked`, `HullsOfRestPose`, `FoundAgain` and
`StopsOnlyWithoutHull`, for any muscles, any sequence of bones, any positions, any numbers of
interpolation steps and any number of stored inputs. The invariant `Inv` consists of
`SceneOK`, `CachedOK` and the two state properties `AnswerForAsked` and
`StopsOnlyWithoutHull`. `CachedOK` says of a stored input that it consists of muscles with two
curves and bones with none, that its output is what the deformation makes of it, that all
its coarse meshes are there, and that the scene has, or had until the user or an
interpolation removed it, a hull of each of its parts. An input that
compares as equal has as many parts, of the same muscles and bones in the same order, each
within the tolerance of one comparison; so the output in its place is of the same muscle
and clear of the same bones, near where they are asked for. Tolerances do not add up,
because what is compared is always what a miss has stored, never what a hit has returned.
And the comparison meets a missing coarse mesh only on the side of the new input, whose
mesh is close to one that was stored: then the scene had its hull. It may do so even if the
inputs differ in their obstacles, which are counted last.
`HullsOfRestPose` exempts the interpolation in several steps, which does not keep it (section 5).
`FoundAgain` says that a stored input is found when the scene has the hulls that the redraw
left which stored it; for that, `cached` remembers them beside the input (they are no state of
the program). It needs that completing an input leaves its hash (`SameHash`), and that the
hulls, moved from the rest pose, are the coarse meshes it was completed with (`StoredOK`). A hash is a fold whose elements come in an order that depends only on which are
left, so inputs of equal coordinates have one and the same recursive function behind their
hashes, and no induction is needed (`HashOfWeights`).

### What only TLC checks

* Liveness: `MutexReleased`, `UncontendedCallReturns` and `ScanEnds`. The prover has
  neither fairness nor ENABLED.

A definition that filters a sequence with a recursive operator cannot be expanded in a
proof. `CacheData` therefore says `Rank` and `Sorted` for the order of the parameters, and
`CacheDataStructure` says `RemoveFirst` by position.

## 5. Findings beyond the runs

What passing runs show beside what a comment says; to see the comment fail, change the
run as said:

* The miss event goes to the object that was hit as well (`CachedFunctionManager.cpp:59`),
  against `CachePolicy.h:27`, `DefaultCachePolicy.h:72` and `LFUCachePolicy.h:25`.
  `ReferencesBalanced` of the run `policies` is the balance that follows, with
  the object that was hit paying its own share; if `MissEvents` left it out, that balance
  would fail.
* A setter of one weight that is 1 divides 0 by 0 (`DefaultCachePolicy.cpp:64`) and every
  priority becomes NaN, against `DefaultCachePolicy.h:96`. `SumIsOne` of the run `weights` says
  that this is the only case; that `SumsToOne` is an invariant fails. A scan of such
  priorities finds no candidate, and `makeSpace` dereferences null: `StopsOnlyUnweighted` of
  the run `policies` says that it is the only way to get there.
* A filter constructed between the destructor's unlock and its test of the counter
  (`CachingFilter.h:321`), or by another class under another mutex (`:312`), loses its
  manager, against `CachingFilter.h:20`: `ManagerAlive` fails in the run `filters` without its
  `CONSTRAINT`.
* A reference point that has moved is recorded and sets no flag
  (`medVMEMuscleWrapper_Core.cpp:188-194`), although the comment at `:138` announces the
  check; the deformation uses the new point only when something else has changed.
  `DeformedFromScene` of the run `muscles` claims of reference points that those that have
  gone are not used; with `d.origins[p] = Content(w, RefSys(p))` in `UpToDate` it fails.
* With two or more steps of interpolation the hull that is stored is that of a muscle
  deformed half the way (`medVMEMuscleWrapper_Core.cpp:1277`, `:1331`), against the comment
  at `:1339`. `HullsOfRestPose` of the run `deformation` says that this is the only case; without
  its second disjunct it fails.

Stated in the modules, violated in instances that are not among the runs (change the
configuration as said to reproduce them):

* The indicator is a field of the cached function, not of the call
  (`CachedFunction.h:61-62`), so another thread's outcome is written to it:
  `IndicatorTruthful` of `CachedFunctionManager` fails with two threads that call one
  function, against `AbstractCachedFunction.h:92`.
* A leads B; A, whose muscle was unlinked and linked again, shows fibers when B is
  redrawn: `GenerateFibers` prepares the input of A
  (`medVMEMuscleWrapper_Core.cpp:1595-1596`), which sets the flags of deformation and
  fibers, and its caller clears the latter (`:665`). The next redraw of B runs the
  deformation that is left over; the fibers of A stay those of before and nothing marks
  them: `DecomposedAgain` fails in `MuscleWrapper` with `MuscleWrapperChain.cfg`,
  `Wrappers = Model = {a, b}` and three acts of the user, against the comment at `:239`. In the same way the next redraw
  of a slave runs a deformation left over by `GenerateFibers` of its master without marking
  its own output, which then shows the muscle of before; hence `DeformedFromScene` speaks of
  what was deformed.

Read in the code while modelling:

* `GenerateFibers` assigns the insertion points to the origin points (`:1631-1632`).
* The parallel collisions of the mass spring method leave out `startIndex` in one index
  (`ProcessCollisions`, `:740-762`).
* Method 3: the reference points of a step are computed as `(pw1-pw0)/stepCount + pw1`
  (`:1136`), beyond the later one; the hull taken from the scene is deleted (`:1045`), so a
  muscle has none afterwards although the user has not removed it; arrays are used that are
  filled only with a transform, with bones, or not at all (`:1116`, `:1195`, `:1351`).
* `equalFunction` calls a method of a coarse mesh that is missing if the user, or
  an interpolation, has removed a hull (`vtkMEDPolyDataDeformationPKCaching.cpp:94-97`); `DeformStops` models it.
* The hash of inputs is not consistent with their equality up to a tolerance (`:384-423`):
  close inputs are usually missed. A negative sum is converted to `uint32_t` (`:422`),
  which is undefined. Settings of the filter other than the hulls are not compared.
* `initInput` deletes a list of the source (`:352`); `outputGetSize` adds up in `int`
  (`:517`).
* Managers built from one configuration share the policy object but have a mutex
  each (`CacheManagerConfiguration.h:52`): events of one fall into the scan of the other
  and the candidate is not the least. `CachePolicies` takes a set of managers and
  shows it when given two.
* The destroy function of a filter's cached function captures `this`
  (`CachingFilter.h:52`), and copies outlive the filter: an eviction then calls a
  virtual method of a deleted object.
* The copies of filters kept in the cache count as filters (`CachingFilter.h:321`), so a
  manager that has kept one is never freed, nor are its data.
* The `memcpy` of a copied filter overwrites its reference count (`CachingFilter.h:217`).
* The capacity is read again for each new manager (`CachingFilter.h:39`), although
  `CacheManagerSource.h:13-14` says that later changes are ignored.
* `outputCopyOutFunction` of the filter shallow-copies, so cached data are shared with
  the pipeline.
* The destroy function gets a copy of a value that is then destroyed once more
  (`TypedValue.h:58` through the invoker), harmless for pointers and plain types only.
* `standardInitFunction` of `std::string` assigns to uninitialised memory
  (`StandardInitFunctions.h:20`).
* Equality of 2-dimensional images ignores the third coordinate of the origin
  (`CacheUtils.cpp:215`), so parallel slices are equal.
* `VTK_HYPER_OCTREE` and `VTK_HYPER_TREE_GRID` fall through to a cast that gives null
  (`CacheUtils.cpp:83`, `:361`).
* `CacheInit` of an array of information vectors allocates one pointer and writes n
  (`CacheUtils.h:113`).

## 6. What is not modelled

Rounding of floating point (weights and priorities are rational numbers), running
out of memory in the library's own containers, exceptions of a cache policy, the data race of
`createCachedFunction` with calls (functions are registered before a manager is
called), two managers that call each other, functions that change what their
inputs point to, sizes that `CacheGetSize` reports, and VTK itself.

Of the muscle wrappers: the mass spring method (`DeformMuscleMMSS`, `ProcessCollisions`:
numerical, on particles of external classes), the original skinning (method 0, which
deforms one wrapper without a master), fibers taken from particles (`GF_UFP`), the
geometry of fibers, several action lines in one wrapper, the particles that a change of
master deletes, profiling. In `MuscleWrapper` every group is deformed by the PK method,
with or without prevention of penetrations. A wrapper outside the model has a model of
its own, so it is on its own; how the rest pose changes fibers already made is left out.

The two small samples are straight-line programs. The configuration classes are records,
whose values are the constants and the initial states of the other modules.

## 7. Plan

In the order in which it should be continued:

1. `CachedFunctionManager` with two managers and nested calls between them: the order
   in which their mutexes are taken; `createCachedFunction` during calls; inputs that a
   function changes, stored under the earlier hash.
