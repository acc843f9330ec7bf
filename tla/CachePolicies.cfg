SPECIFICATION Spec
CONSTANTS
    a = a  b = b  c = c  d = d
    Managers = {m1}
    Objects = {a, b, c}
    MaxCalls = 6
    Unit = 6
    Contribution <- MCContribution
    NoObject = NoObject  NoData = NoData  NaN = NaN
INVARIANTS
    DataCounted TimesOrdered ReferencesBalanced CandidateLeast LeastFrequentlyUsed StopsOnlyUnweighted
CHECK_DEADLOCK FALSE
