CONSTANTS
    DataLen <- ContractLen
    Payloads <- StreamAndEmpty
    SeqNums = 3
    MaxGap = 2
    MaxSent = 4
SPECIFICATION FairSpec
INVARIANTS TypeOK LossReported Dispatched ClockAhead
PROPERTY EveryDatagramProcessed
CHECK_DEADLOCK FALSE
