SPECIFICATION FairSpec
CONSTANTS
    IncidentIds = {i1, i2}
    Keys = {k1}
    NoKey = NoKey
    Severities = {"warning"}
    SignalIds = {1, 2}
    Requests = {r1, r2, r3}
    NoIncidentId = NoIncidentId
    NewStatuses = {"acknowledged", "resolved"}
    GapLocks = {TRUE, FALSE}
INVARIANTS
    OneActivePerKey
    KeyIffActive
    ReportMatchesSignal
    OccurrencesCounted
PROPERTIES
    TerminalIsFinal
    EveryRequestReturns
