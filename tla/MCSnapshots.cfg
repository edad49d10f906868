CONSTANTS
    Refreshes = {r1, r2}
    Users = {u1, u2, u3}
    Copies = {x1, x2, x3, x4, x5, x6}
    None = None
    MaxCached = 2
    MaxVersion = 3
    MaxStops = 1
SPECIFICATION Spec
SYMMETRY Symmetry
INVARIANTS
    CurrentIsLatest
    CatalogsShared
