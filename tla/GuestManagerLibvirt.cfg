SPECIFICATION Spec
CONSTANTS
    d1 = d1
    m1 = m1
    m2 = m2
    r1 = r1
    Ids = {d1}
    Monitors = {m1, m2}
    Readers = {r1}
    NoMonitor = NoMonitor
    NoId = NoId
    Threaded = TRUE
    Iface = "libvirt"
    Weights = TRUE
    QemuProc = FALSE
    MaxChanges = 2
    MaxFaults = 0
INVARIANTS ManagerSurvives
