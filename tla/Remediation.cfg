SPECIFICATION PartsSpec
CONSTANTS
    ActionIds = {a1}
    Requests = {r1, r2, r3}
    Modes = {"disabled", "suggest_only", "safe_auto", "manual_approval"}
    PanelAsks = FALSE
    TransitionKeys = {k1, k2, k3}
    MaxFence = 4
SYMMETRY Symmetry
INVARIANTS
    OnlyPermittedPerformed
    GatesAgree
    ExecutedWasPerformed
    ExecutedConsistent
    AppliedExactlyOnce
