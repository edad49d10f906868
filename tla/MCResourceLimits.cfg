CONSTANTS
    e1 = e1
    e2 = e2
    e3 = e3
    l1 = l1
    l2 = l2
    l3 = l3
    Exports = {e1, e2, e3}
    Videos = {e2, e3}
    Locations = {l1, l2, l3}
    Needs <- SomeNeeds
    Size <- Sizes
    Encrypted = {l2, l3}
    Masked = 2
    Ops = {o1, o2, o3}
    None = None
    Configs <- SomeConfigs
    LeastBudget = 1
    MostBudget = 8
SPECIFICATION FairSpec
CHECK_DEADLOCK FALSE
INVARIANTS
    ReservationsExact
    PayloadsStay
PROPERTIES
    ExportsEnd
