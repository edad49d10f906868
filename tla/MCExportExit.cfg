CONSTANTS
    Producers = {p1, p2}
    Eids = {e1}
    None = None
    MaxStops = 1
SPECIFICATION ExitSpec
SYMMETRY Symmetry
CHECK_DEADLOCK FALSE
INVARIANTS
    IndexedIsComplete
