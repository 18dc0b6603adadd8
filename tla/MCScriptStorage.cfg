SPECIFICATION StorageSpec
CONSTANTS
    i1 = i1
    i2 = i2
    i3 = i3
    i4 = i4
    i5 = i5
    bx = bx
    by = by
    c1 = c1
    c2 = c2
    Clients = {c1, c2}
    Inodes = {i1, i2, i3, i4, i5}
    Blocks = {bx, by}
    Calls <- MCCalls
    Trees <- MCTrees
    Paths <- MCPaths
    MaxCalls = 3
    Dir = Dir
    NoEntry = NoEntry
    NoFile = NoFile
    NoCall = NoCall
    Invalid = Invalid
INVARIANTS
    ListingIsFair
PROPERTIES
    UndisturbedIsAtomic
CHECK_DEADLOCK FALSE
