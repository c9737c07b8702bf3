CONSTANTS
    A = A
    B = B
    H = H
    U = U
    u1 = u1
    u2 = u2
    iU2 = iU2
    iU = iU
    sU = sU
    a1 = a1
    a2 = a2
    b1 = b1
    h1 = h1
    iA = iA
    iA2 = iA2
    iB = iB
    iH = iH
    iP = iP
    iX = iX
    sA = sA
    sB = sB
    sH = sH
    sP = sP
    sX = sX
    d1 = d1
    d2 = d2
    t1 = t1
    Devices = {d1, d2}
    Apps = {A, B, H, U}
    Releases = {a1, a2, b1, h1, u1, u2}
    Images = {iA, iA2, iB, iH, iP, iX, iU, iU2}
    Services = {sA, sB, sH, sP, sX, sU}
    AppOf <- MCAppOf
    ImagesOf <- MCImagesOf
    ServiceOf <- MCServiceOf
    ServiceApp <- MCServiceApp
    ImageProfiles <- MCImageProfiles
    ActiveProfiles <- MCActiveProfiles
    ImageLabel <- MCImageLabel
    ServiceLabel <- MCServiceLabel
    IsPublic <- MCIsPublic
    TypeOf <- MCTypeOf
    UpdatedBy <- MCUpdatedBy
    Succeeded = {a1, a2, b1, h1, u1, u2}
    Values = {20}
    NotANumber = NotANumber
    DefaultPollInterval = 10
    Unset = Unset
    Requests = {q1, q2}
    Instances = {v1, v2}
    InitialLink = v1
    Unreliable = {d1}
    VarKeys <- MCVarKeys
    DevicePatches <- MCDevicePatches
    InitialDevice <- MCInitialDevice
    InitialVar <- MCInitialVar
    InitialTarget <- MCInitialTarget
    MaxStarted = 2
    MaxFaults = 1
    Builder = Builder
    ResinOs = ResinOs
    User = User
    Guest = Guest
    Scopes <- MCScopes
    Deletable <- MCDeletable
    MultiStage = {iA2}
    AttemptLimit = 2
SYMMETRY MCSymmetry
SPECIFICATION Spec
INVARIANTS
    StaleDeviceIsTold
    ConnectionIsKnown
    VersionsAgree
    FleetStateIsWhatDevicesGet
    TargetIsPullable
    PullsOwnImages
    RegistryInv
CHECK_DEADLOCK FALSE
