CONSTANTS
    Apps = {1, 2}
    Releases = {1, 2, 3, 4}
    Semvers = {s1, s2}
    Variants = {v1}
    Txs = {t1, t2}
    None = None
    NewReleases <- MCEachApp
    Patches <- MCFinalizeAs
    PatchTargets <- MCPairs
    TrackingApps = {1}
    MaxRevision = 1
SYMMETRY MCSymmetry
SPECIFICATION Spec
INVARIANTS
    UniqueRevision
    LockInv

    
