SPECIFICATION Spec
CONSTANTS
    a = a  b = b  pelvis = pelvis
    Muscles = {a, b}
    Bones <- OneBone
    Poses = {0, 1}
    Origins = {0, 2}
    Shifts = {0, 1}
    StepCounts = {1, 2}
    Progressives = {TRUE}
    MaxCached = 1
    None = None
    Removed = Removed
SYMMETRY Symmetry
INVARIANTS
    AnswerForAsked FoundAgain StopsOnlyWithoutHull
PROPERTIES
    HullsOfRestPose
CHECK_DEADLOCK FALSE
