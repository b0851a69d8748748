CONSTANTS
    PesLen = 3
    SeqNums = 3
    MaxGap = 2
    MaxSlices = 3
    MaxVideo = 0
    MaxBacklog = 1
SPECIFICATION Spec
INVARIANT GivenUpOnlyAfterLoss
CHECK_DEADLOCK FALSE
