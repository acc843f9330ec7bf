SPECIFICATION Spec
CONSTANTS
    a = a  b = b  c = c  rp = rp
    old = old  new = new
    Wrappers = {a, b, c}
    Model = {a, b, c}
    UsesFastChecks = {}
    RestPose <- Alone
    Editable <- Muscles
    Contents = {old, new}
    MaxTime = 0
    MaxEdits = 3
    None = None
SYMMETRY Symmetry
INVARIANT RedrawnIsUpToDate
