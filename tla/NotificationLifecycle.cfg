SPECIFICATION LifecycleSpec
CONSTANTS
    opened = opened
    resolved = resolved
    audit = audit
    Events = {opened, resolved}
    Resolutions = {resolved}
    Ineligible = {}
    Base <- MCBase
    Destinations = {c1}
    Fallbacks = {}
    Deliveries = {d1, d2}
    MaxEntries = 2
    Window = 2
    FanoutTimeout = 1
INVARIANT NewLifecycleNotifies
