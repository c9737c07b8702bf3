CONSTANTS
    Instances = {0}
    Home = 0
    Outages = {0}
    MaxLogs = 10
    MaxChunk = 3
    WriteBufferLimit = 2
    RetentionLimit = 3
SPECIFICATION FairWriteSpec
INVARIANTS
    LinesAccountedFor
    BufferWillFlush
    BufferBounded
PROPERTIES
    EveryLineIsPublished
CHECK_DEADLOCK FALSE
