SPECIFICATION FairSpec
CONSTANTS
    f = f  g = g
    small = small  large = large  huge = huge  inner = inner  empty = empty
    NoThread = NoThread  NoKey = NoKey  NoObject = NoObject
    Functions = {f, g}
    Keys = {large, inner}
    FunctionOf <- MCFunctionOf
    SizeOf <- MCSizeOf
    Calls <- MCCalls
    Rank <- MCRank
    MaxDepth = 3
    Capacity = 2
    MaxDataSize <- MCMaxDataSize
    MinCreationTime <- MCMinCreationTime
    CreationTimes <- MCCreationTimes
    Word = 8
    IndicatorFunctions = {f}
    Threads = {t1, t2}
    Objects = {a1, a2}
PROPERTIES
    MutexReleased UncontendedCallReturns
