CONSTANTS
    Ids = {1, 2, 3, 4}
    Keys = {"k"}
    Files <- SomeFiles
    KeyTables <- SomeKeys
    Numeric = {4}
    Requests <- SomeRequests
    Anything = Anything
SPECIFICATION CatalogSpec
CHECK_DEADLOCK FALSE
INVARIANTS
    ClosureIsReachable
    PlansAreCarriedOut
