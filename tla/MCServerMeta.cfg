SPECIFICATION FairSpec
CONSTANTS
    Servers = {s1}
    Repos <- MCRepos
    Requests = {r1, r2}
    Updates = {u1, u2}
    MaxCommit = 1
    Kind <- MCKind
    Refresh = 1
    RefreshConcurrent = 1
    None = None
INVARIANTS
    SingleFlight
    TokensAccounted
    NoRollback
PROPERTY
    CallersAreAnswered
