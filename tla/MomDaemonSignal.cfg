SPECIFICATION FairSpec
CONSTANTS
    MaxFaults = 0

PROPERTIES SignalShutsDown
CHECK_DEADLOCK FALSE
