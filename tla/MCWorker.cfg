CONSTANTS
    Streams <- SomeStreams
    Directories <- SomeDirectories
    Shapes <- SomeShapes
    Limit = 3
    MaxTracks = 3
    Jobs <- SomeJobs
    OutputBytes = 5
    ExpandedBytes = 2
    MaxFiles = 4
    ResultFiles = 3
    Sizes = {1, 3}
    None = None
SPECIFICATION Spec
CHECK_DEADLOCK FALSE
INVARIANTS
    AcceptsExactlyWholeFiles
    PublishedIsComplete
    FailsWithReason
