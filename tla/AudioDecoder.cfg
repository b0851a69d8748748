CONSTANTS
    PesLen = 3
    SeqNums = 3
    MaxGap = 2
    MaxSlices = 3
    MaxVideo = 2
    MaxBacklog = 2
SPECIFICATION Spec
INVARIANTS TypeOK SlicesWhole NoOverrun SlicesInOrder IntactSliceDelivered OneOwner
CHECK_DEADLOCK FALSE
