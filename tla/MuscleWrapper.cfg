SPECIFICATION Spec
CONSTANTS
    a = a  b = b  c = c  rp = rp
    old = old  new = new
    Wrappers = {a, b, c, rp}
    Model = {a, b, c}
    UsesFastChecks = {c}
    RestPose <- RestPoseOfC
    Editable <- SomeOfEach
    Contents = {old, new}
    MaxTime = 1
    MaxEdits = 2
    None = None
SYMMETRY Symmetry
INVARIANTS
    TypeOK MasterKnowsSlave NeverReentered DeformedFromScene NothingPending
