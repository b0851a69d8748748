CONSTANTS
    Pool = 3
    Limit = 2
    Delay = 1
    TimeMod = 9
    Parts <- SliceParts
    Garbage = {4}
    MaxLag = 1
    MaxPcrs = 1
    MaxTime = 5
    NULL = NULL
SPECIFICATION FairSpec
INVARIANTS TypeOK ReadyBounded BufferInOnePlace RenderedInOrder NeverEarlyWhenSynced
PROPERTY Drained
CHECK_DEADLOCK FALSE
