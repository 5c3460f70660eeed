SPECIFICATION AllSpec
CONSTANTS
    N = 3
    TotalMem = 11
    Least = 3
    Configured <- Sizes
    InvWeight <- InvWeights
    Limit2 = 1
    Max_free = 1
    Overhead = 1
    WARMUP_COUNT = 1
    One = 4
    Speeds <- MeasuredSpeeds
    Frees = {0, 2}
    MaxRounds = 3
    Min_share = 1
    AVE_LEN = 1
    Settled = 1
    RPRounds = 3
    WfmMem = 8
    MinLoc = 2
    Swaps = {0, 4}
    WfmFrees = {0, 3}
    WfmSizes <- EqualSizes
    WfmWeights <- EqualWeights
    WfmRounds = 3
    Wfm3Sizes <- ThreeSizes
    Wfm3Weights <- InvWeights
    Wfm3Rounds = 2
    Atoms = {"operator", "symbol"}
    MaxTokens = 5
    MaxExprs = 3
    FitLen = 2
    FitWindow = 2
    Ideals <- MeasuredIdeals
    Progress = {0, 1, 3}
    MaxSamples = 6
    Wrappers = {"api", "xmlrpc", "xmlbulk", "jsonrpc", "jsonbulk", "client"}
    Expiration = 1
    Values = {"old", "new"}
    MaxUpdates = 1
    MaxRefusals = 1
    Width = 4
    Interval = 2
    MaxCount = 12
    MaxPasses = 5
INVARIANTS BudgetKept  UnfairnessIsActedOn TransferIsFair WaterFilled LongTermFair ParserAcceptsMatched ParserFindsStructure EvaluatorMeansIt  SampleIsVdsms CountersAddUp
CHECK_DEADLOCK FALSE
