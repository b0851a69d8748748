CONSTANTS
    DataLen <- CodeLen
    Payloads <- Stream
    SeqNums = 3
    MaxGap = 2
    MaxSent = 4
SPECIFICATION Spec
INVARIANT LengthKept
CHECK_DEADLOCK FALSE
