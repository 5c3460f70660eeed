SPECIFICATION BothSpec
CONSTANTS
    d1 = d1
    d2 = d2
    m1 = m1
    m2 = m2
    m3 = m3
    r1 = r1
    Ids = {d1, d2}
    Monitors = {m1, m2, m3}
    Readers = {r1}
    NoMonitor = NoMonitor
    NoId = NoId
    Threaded = FALSE
    Iface = "libvirt"
    Weights = TRUE
    QemuProc = TRUE
    MaxChanges = 2
    MaxFaults = 1
INVARIANTS NoOrphan OneMonitorPerDomain SnapshotOfGuests SemaphoreNotLeaked
PROPERTIES VdsmKeepsGuests
SYMMETRY Symmetric
