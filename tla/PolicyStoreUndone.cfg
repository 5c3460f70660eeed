SPECIFICATION Spec
CONSTANTS
    t1 = t1
    Comment = Comment
    Stray = Stray
    main = main
    rpc = rpc
    Callers = {main, rpc}
    Starter = main
    NumNames = 2
    Default = 2
    LoadList <- NoFile
    Codes = {t1}
    Null = Null
    Blanks = {Comment}
    Unscanned = {Stray}
    Bad = Bad
    NoText = NoText
    Zero = Zero
    MaxCalls = 2
    MaxRounds = 0
    MaxFaults = 0
PROPERTIES UnparsableIsUndone
CHECK_DEADLOCK FALSE
