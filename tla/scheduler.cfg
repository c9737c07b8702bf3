CONSTANTS
    a1 = a1
    f1 = f1
    t1 = t1
    i1 = i1
    i2 = i2
    h1 = h1
    h2 = h2
    Handlers = {h1, h2}
    None = None
    MaxSlot = 1
    MaxRuns = 2
    MaxFaults = 1
    Slugs = {a1, f1, t1}
    ContractType <- MCContractType
    Required = {a1}
    Versions <- MCVersions
    InstanceOf <- MCInstanceOf
SPECIFICATION FairSpec
INVARIANTS
    Exclusive
    OncePerSlot
    
PROPERTIES
    IsLease
    RunsEnd
\* The slots of the schedule are bounded.
CHECK_DEADLOCK FALSE
