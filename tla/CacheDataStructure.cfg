SPECIFICATION FairSpec
CONSTANTS
    p = p  q = q  near = near  r = r  s = s  z = z
    Keys = {p, q, near, r, s, z}
    Objects = {o1, o2, o3}
    HashOf <- MCHashOf
    Equal <- MCEqual
    NoObject = NoObject  End = End  Dangling = Dangling
INVARIANTS
    TypeOK IteratorValid ScanComplete
PROPERTIES
    ImplementsObjectSet
    ScanEnds
