SPECIFICATION Spec
CONSTANTS
    Keys = {k1, k2, k3}
    NoKey = NoKey
    Values = {v1}
    Sizes = {0, 1, 2, 4}
    MaxBytes = 3
    TTL = 1
    MaxTime = 2
SYMMETRY Symmetry
INVARIANTS
    Lockstep
    UsedIsBytesHeld
    WithinBudget
PROPERTIES
    EntriesComeFromPut
    ImplementsAtomic
