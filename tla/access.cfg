SPECIFICATION FairSpec
CONSTANTS
    i1 = i1
    i2 = i2
    r1 = r1
    r2 = r2
    k1 = k1
    Instances <- MCInstances
    Registrations <- MCRegistrations
    At <- MCAt
    DeletesAt <- MCDeletesAt
    Keys <- MCKeys
    KeyOf <- MCKeyOf
    NoOne = NoOne
    MaxDeletes = 1
    MaxFaults = 1
INVARIANTS
    AccessInv
PROPERTIES
    CachesSettle
    RegistrationEnds
CHECK_DEADLOCK FALSE
