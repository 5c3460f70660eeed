SPECIFICATION FairSpec
CONSTANTS
    r1 = r1
    r2 = r2
    Readers = {r1, r2}
    NumCollectors = 2
    getFields <- TwoFields
    getOptionalFields <- TwoOptional
    HistoryLength = 2
    MaxPasses = 3
    NoEntity = NoEntity
INVARIANTS ReadyMeansCurrent FirstCollectorWins
PROPERTIES WindowSpec InterrogationReturns StopEndsThread
