SPECIFICATION FairSpec
CONSTANTS
    Groups = {g1, g2}
    Requests = {r1, r2}
    Commits = {c1, c2}
    NoGroup = NoGroup
    NoCommit = NoCommit
    MaxPending = 1
INVARIANTS
    RegisteredGroupIsLive
    OneOpenGroup
    WatcherInOnePlace
    UpdateSplitsWatchers
    StrandedOnlyByBroker
PROPERTIES
    UpdateReachesWatchers
    ClosedGroupStops
CHECK_DEADLOCK FALSE
