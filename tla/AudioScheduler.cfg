CONSTANTS
    SliceMs = 2
    Delay = 4
    Half = 1
    Target = 6
    NumBufs = 5
    MaxLag = 1
    MaxSlices = 7
SPECIFICATION Spec
INVARIANTS TypeOK BufferInOnePlace PlayedInOrder BufferThere
PROPERTY EverySlicePlayed
CHECK_DEADLOCK FALSE
