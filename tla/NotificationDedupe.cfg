SPECIFICATION Spec
CONSTANTS
    opened = opened
    resolved = resolved
    audit = audit
    Events = {opened, resolved, audit}
    Resolutions = {resolved}
    Ineligible = {audit}
    Base <- MCBase
    Destinations = {c1, c2}
    Fallbacks = {}
    Deliveries = {d1, d2}
    MaxEntries = 1
    Window = 2
    FanoutTimeout = 1
SYMMETRY Symmetry
CONSTRAINT IneligibleBound
INVARIANTS
    EntriesBounded
    InFlightHasOwner
    ReceiptsTrue
PROPERTY EligibleUntilAccepted
