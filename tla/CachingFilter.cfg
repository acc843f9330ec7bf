SPECIFICATION Spec
CONSTANTS
    x = x  y = y  x1 = x1  x2 = x2  x3 = x3  y1 = y1  y2 = y2
    Threads = {t1, t2, t3}
    Makers = {t1, t2}
    Filters = {x1, x2, x3, y1, y2}
    Classes = {x, y}
    ClassOf <- MCClassOf
    Managers = {m1, m2}
    MaxRefs = 2
    NoThread = NoThread  NoFilter = NoFilter  NoManager = NoManager
CONSTRAINT OneAtATime
SYMMETRY Symmetry
INVARIANTS
    TypeOK ManagerAlive ManagerGoesWithLastCounted
