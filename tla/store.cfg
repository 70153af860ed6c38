SPECIFICATION FairStoreSpec
CONSTANTS
    i1 = i1
    i2 = i2
    stageA = stageA
    stageB = stageB
    turn = turn
    Ops = {stageA, stageB, turn}
    Instances = {i1, i2}
    Resets = {r1}
    MaxAttempts = 2
    InstanceOf <- TwoInstances
    Excludes <- Exclusion
INVARIANTS
    StoreTypeOK
    CopyIsCurrent
    ExclusionHolds
    AcknowledgedOnce
    NoSelfContention
PROPERTIES
    OnlySeenIsErased
    ImplementsAtomic
    EveryMutationAnswered
CHECK_DEADLOCK FALSE
