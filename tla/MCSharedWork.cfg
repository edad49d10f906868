CONSTANTS
    Callers = {c1, c2}
    Keys = {k1}
    Ops = {s1, s2}
    NoKey = NoKey
    NoOp = NoOp
SPECIFICATION FairSpec
INVARIANTS
    HeldIsNotCancelled
    SingleFlight
    CancelledIsOwn
PROPERTIES
    ImplementsPromise
    Answered
    CancelledReturns
    AbandonedIsCancelled
