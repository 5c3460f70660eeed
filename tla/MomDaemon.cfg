SPECIFICATION FairSpec
CONSTANTS
    MaxFaults = 2
INVARIANTS AtMostOneMoreControl
PROPERTIES DeadThreadEndsRun ShutdownReturns WorkersEnd
CHECK_DEADLOCK FALSE
