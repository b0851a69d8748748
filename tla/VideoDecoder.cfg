CONSTANTS
    CCMod = 3
    MaxTs = 2
    MaxGap = 2
    MaxSlices = 3
    MaxDatagrams = 3
    MaxBacklog = 1
SPECIFICATION FairSpec
INVARIANTS TypeOK ChainsUnbroken IntactSliceDelivered TimestampsIncrease WrongStampOnlyAfterLoss OneOwner
PROPERTY StartsBeginChains
CHECK_DEADLOCK FALSE
