CONSTANTS
    t1 = t1
    t2 = t2
    k1 = k1
    k2 = k2
    x1 = x1
    x2 = x2
    Uploads = {u1}
    Trees = {t1, t2}
    Objects = {k1, k2}
    Contents = {x1, x2}
    Index <- TwoTrees
    Manifest = Manifest
    Absent = Absent
    Concurrency = 2
    Attempts = 3
    MaxRuns = 2
SPECIFICATION FairSpec
CHECK_DEADLOCK FALSE
INVARIANTS
    ManifestIsLast
    SuccessIsPublished
PROPERTIES
    UploadEnds
