SPECIFICATION PartsSpec
CONSTANTS
    ActionIds = {a1}
    Requests = {r1, r2}
    Modes = {"safe_auto", "manual_approval"}
    PanelAsks = TRUE
    TransitionKeys = {k1}
    MaxFence = 1
SYMMETRY Symmetry
INVARIANT NoRedispatch
