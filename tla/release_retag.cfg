CONSTANTS
    Apps = {1}
    Releases = {1, 2}
    Semvers = {s1, s2}
    Variants = {v1}
    Txs = {t1, t2}
    None = None
    NewReleases <- MCFailedDrafts
    Patches <- MCFinalizeRetagOrJudge
    PatchTargets <- MCOneOrAll
    TrackingApps = {1}
    MaxRevision = 3
SYMMETRY MCSymmetry
SPECIFICATION TrackingSpec

    
PROPERTY
    FinalStaysFinal
