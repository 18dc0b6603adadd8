SPECIFICATION FairSpec
CONSTANTS
    Streams = {s1, s2}
    NLoads = 3
    MaxEvents = 2
    Limit = 1
    None = None
INVARIANTS
    OneOpenStream
    NoBroadcastLost
    NobodyWaitsInVain
PROPERTY
    TasksEnd
CHECK_DEADLOCK FALSE
