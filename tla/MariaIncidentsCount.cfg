SPECIFICATION Spec
CONSTANTS
    IncidentIds = {i1, i2}
    Keys = {k1}
    NoKey = NoKey
    Severities = {"warning", "critical"}
    SignalIds = {1, 2, 3}
    Requests = {r1, r2, r3}
    NoIncidentId = NoIncidentId
    NewStatuses = {"resolved"}
    GapLocks = {TRUE}
SYMMETRY Symmetry
INVARIANT EveryOccurrenceCounted
