SPECIFICATION Spec
CONSTANTS
    Ids = {c1, c2}
    Requests = {r1, r2}
    Bodies <- MCBodies
    MaxValue = 1
SYMMETRY Symmetry
INVARIANTS
    WebhookHasURL
    MigrationNeverStuck
    VerifyIsSound
    RoundTrip
