SPECIFICATION StoresSpec
CONSTANTS
    IncidentIds = {i1, i2}
    NoIncidentId = NoIncidentId
    Keys = {m1, m2}
    NoKey = NoKey
    Severities = {"warning", "critical"}
    SignalIds = {1, 2, 3}
    Admins = {a1}
    MariaKeys = {k1}
    Requests = {r1, r2, r3}
    NewStatuses = {"acknowledged", "resolved"}
    GapLocks = {FALSE}
    HistoryIds = {1, 2, 3}
    HistoryTime = 3
    PageLimits = {1, 2}
SYMMETRY Symmetry
INVARIANTS
    IndexExact
    ReportMatchesSignal
    HistoryComplete
PROPERTY StoresImplementLifecycle
