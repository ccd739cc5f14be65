SPECIFICATION HistorySpec
CONSTANTS
    opened = opened
    audit = audit
    Events = {opened, audit}
    Resolutions = {}
    Ineligible = {audit}
    Base <- MCBase
    Destinations = {}
    Fallbacks = {fallback}
    Deliveries = {d1, d2}
    Serials = {1, 2}
    MaxEntries = 1
    Window = 2
    FanoutTimeout = 1
INVARIANTS
    HistoryIsTrue
    OneSuppressionRecord
PROPERTY SuppressionEnds
