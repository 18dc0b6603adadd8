SPECIFICATION FairSpec
CONSTANTS
    p1 = p1
    p2 = p2
    f1 = f1
    Pages = {p1, p2}
    Stores = {f1}
    Socket = Socket
    NCalls = 2
    Ping = Ping
    Read = Read
    Tokens = 1
    None = None
    Plans <- SmallPlans
INVARIANTS
    NothingOutlivesClosers
    DrainedMeansOver
PROPERTIES
    EndsWithContext
    TasksEnd
    EndsWithResult
CHECK_DEADLOCK FALSE
