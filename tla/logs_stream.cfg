CONSTANTS
    Instances = {0, 1, 2}
    Home = 0
    Outages = {0}
    MaxLogs = 2
    MaxChunk = 2
    WriteBufferLimit = 1
    RetentionLimit = 1
    Readers = {1, 2, 3}
    InstanceOf <- MCInstanceOf
    Count <- MCCount
    Compressing = {1}
    CreatedAt <- MCApart
    Crashes = {2}
SPECIFICATION Spec
INVARIANTS
    StreamInv
    NothingMissed
\* Readers and lines are bounded: once they are used up the system stops.
CHECK_DEADLOCK FALSE
