CONSTANTS
    i1 = i1
    i2 = i2
    Images = {i1, i2}
    Reports <- MCUpdate
    Requests = {q1, q2}
    KnownStatuses = {"Downloading", "Running", "deleted"}
    Undefined = Undefined
    Null = Null
    None = None
    Full = 100
    Overlap = TRUE
    MaxFaults = 1
SYMMETRY MCSymmetry
SPECIFICATION Spec
INVARIANTS
    ReportInv
    ProgressFitsStatus
