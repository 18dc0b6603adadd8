SPECIFICATION FairSpec
CONSTANTS
    NCalls = 3
    Programs <- SmallPrograms
INVARIANTS
    WriterIsReleased
PROPERTIES
    IsOrderedPipe
    CloseEndsStream
CHECK_DEADLOCK FALSE
