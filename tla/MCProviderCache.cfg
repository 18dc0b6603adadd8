SPECIFICATION FairSpec
CONSTANTS
    Callers = {r1, r2}
    Files <- MCFiles
    Dirs <- MCDirs
    Present <- MCPresent
    BackendConcurrent = 2
    CacheConcurrent = 1
    MaxStreams = 2
    None = None
INVARIANTS
    SlotsAccounted
    RememberedWasSaid
PROPERTIES
    WaitersGetOn
