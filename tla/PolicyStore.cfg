SPECIFICATION FairSpec
CONSTANTS
    t1 = t1
    Comment = Comment
    Stray = Stray
    main = main
    rpc = rpc
    Callers = {main, rpc}
    Starter = main
    NumNames = 3
    Default = 2
    LoadList <- Files
    Codes = {t1}
    Null = Null
    Blanks = {Comment}
    Unscanned = {Stray}
    Bad = Bad
    NoText = NoText
    Zero = Zero
    MaxCalls = 2
    MaxRounds = 1
    MaxFaults = 1
INVARIANTS  CodeBelongsToStrings
PROPERTIES MapSpec CallsAndRoundsEnd
CHECK_DEADLOCK FALSE
