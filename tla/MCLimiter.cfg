SPECIFICATION Spec
CONSTANTS
    Key = {k1, k2, k3}
    Max = 2
    Window = 2
    MaxTime = 5
    SweepThreshold = 2
INVARIANTS
    TypeOK
    RetryAfterIsExact
PROPERTIES
    KeepsPromise
    MapIsSwept
