SPECIFICATION Spec
CONSTANTS
    p1 = p1
    p2 = p2
    b1 = b1
    b2 = b2
    b3 = b3
    j1 = j1
    j2 = j2
    Procs = {p1, p2}
    Blobs = {b1, b2, b3}
    JobIds = {j1, j2}
    MaxVersion = 2
    NoRecord = NoRecord
    NoJob = NoJob
    None = None
SYMMETRY Symmetry
INVARIANTS
    TypeOK
    NoVersionGaps
    FingerprintsFollowRecords
    OnlyVerifiedPromoted
PROPERTIES
    EndedJobsStayEnded
    WithdrawnIsNotRead
CHECK_DEADLOCK FALSE
