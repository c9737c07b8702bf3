CONSTANTS
    Devices = {d1}
    MortalDevices = {}
    Handlers = {h1}
    Background = {b1}
    Consumers = {c1, c2}
    NoId = NoId
    MsgIds <- MCFewIds
    MaxQueued = 1
    UpdateCacheTimeoutSet = FALSE
    PromptCalls = FALSE
    FaultKinds = {"read", "delete"}
    MaxFaults = 1
SYMMETRY MCSymmetry
SPECIFICATION Spec
INVARIANTS
    TypeOK
    OnlineWillExpire
    TimeoutWillGoOffline
\* Calls may be arbitrarily slow here, and then fill the three message slots
\* and wait for one.
CHECK_DEADLOCK FALSE
