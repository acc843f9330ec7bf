SPECIFICATION Spec
CONSTANTS
    f = f  g = g
    small = small  large = large  huge = huge  inner = inner  empty = empty
    NoThread = NoThread  NoKey = NoKey  NoObject = NoObject
    Functions = {f, g}
    Keys = {small, large, huge, inner, empty}
    FunctionOf <- MCFunctionOf
    SizeOf <- MCSizeOf
    Calls <- MCCalls
    Rank <- MCRank
    MaxDepth = 3
    Capacity = 3
    MaxDataSize <- MCMaxDataSize
    MinCreationTime <- MCMinCreationTime
    CreationTimes <- MCCreationTimes
    Word = 8
    IndicatorFunctions = {}
    Threads = {t1, t2, t3}
    Objects = {a1, a2, a3, a4, a5}
SYMMETRY Symmetry
INVARIANTS
    TypeOK LockDiscipline SpaceAccounting WithinCapacity CandidateExists
    MissStillValid UniqueEntries AnswerStored
PROPERTIES
    ImplementsMemoCache
