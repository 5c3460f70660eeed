SPECIFICATION Spec
CONSTANTS
    N = 2
    TotalMem = 8
    Least = 3
    Configured <- TwoSizes
    InvWeight <- TwoInvWeights
    Limit2 = 1
    Max_free = 1
    Overhead = 1
    WARMUP_COUNT = 1
    One = 4
    Speeds <- MeasuredSpeeds
    Frees = {0, 2}
    MaxRounds = 4
INVARIANTS StepIsUpdated
CHECK_DEADLOCK FALSE
