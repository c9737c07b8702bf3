CONSTANTS
    Devices = {d1}
    MortalDevices = {d1}
    Handlers = {h1}
    Background = {b1}
    Consumers = {c1}
    NoId = NoId
    MsgIds <- MCMsgIds
    MaxQueued = 1
    UpdateCacheTimeoutSet = TRUE
    PromptCalls = TRUE
    FaultKinds = {"handler", "consumer"}
    MaxFaults = 1
SPECIFICATION FairSpec
PROPERTIES
    SilentDeviceGoesOffline
    PollingDeviceComesBack
CHECK_DEADLOCK FALSE
