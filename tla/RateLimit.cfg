SPECIFICATION Spec
CONSTANTS
    NoPart = "none"
    AnyId = "{id}"
    Trusted = {"proxy"}
    Garbled = {"garbled"}
    Endpoints <- MCEndpoints
    Callers <- MCCallers
    Requests = {r1, r2}
    Burst = 2
    Window = 2
    MaxBuckets = 1
    MaxTime = 6
    MaxGrants = 4
SYMMETRY Symmetry
INVARIANTS
    MemoryWindowBound
    SharedWindowBound
    NoStandstill
    BucketPerRoute
PROPERTY RefusedForCause
