SPECIFICATION Spec
CONSTANTS
    Wrap = 5
    MaxHandles = 3
    MaxFaults = 3
INVARIANTS ReportsFresh
