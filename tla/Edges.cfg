SPECIFICATION Spec
CONSTANTS
    Wrap = 6
    MaxHandles = 3
    Collectors = {"old", "new", "lost"}
    NoAddress = {"lost"}
    Threads = {"manager", "monitor"}
    Expiration = 1
    SetBacks = {1, 3, 6}
    MaxTime = 6
    Settings = {1, 2}
    MaxChanges = 2
    Callers = {"manager", "monitor"}
    MaxFaults = 2
INVARIANTS AgentInStep NoHandleLeft NothingLeftOver AgeBounded
PROPERTIES  ControlSettles
