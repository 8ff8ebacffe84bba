SPECIFICATION Spec
CONSTANTS
    Calls = {k1, k2}
    MaxCall = 3
    Grace = 1
    MaxBackoff = 30
INVARIANTS
    CutOnlyAfterGrace
PROPERTIES
    ReadyMeansRoutes
    ReadinessIsKept
    Recovers
    StopsOnSignal
