CONSTANTS
    CCMod = 3
    MaxTs = 2
    MaxGap = 2
    MaxSlices = 3
    MaxDatagrams = 3
    MaxBacklog = 1
SPECIFICATION Spec
INVARIANT DumpedComplete
CHECK_DEADLOCK FALSE
