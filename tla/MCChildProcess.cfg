CONSTANTS
    Kinds = {"worker", "tool", "probe"}
    Descendants = {"d1", "d2"}
    Amounts = {0, 1, 4}
    PipeSize = 2
    ReadSize = 2
    OutLimit = 2
    ErrLimit = 2
SPECIFICATION FairSpec
CHECK_DEADLOCK FALSE
INVARIANTS
    GroupIsGone
    CaptureIsExact
PROPERTIES
    ProcessesEnd
