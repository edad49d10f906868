CONSTANTS
    Producers = {p1, p2, p3}
    Eids = {e1}
    None = None
    MaxStops = 2
SPECIFICATION FairSpec
CHECK_DEADLOCK FALSE
INVARIANTS
    IndexedIsComplete
    GateExcludes
    NoStrays
PROPERTIES
    ProducersEnd
    PublishedIsFinal
    ImplementsStore
