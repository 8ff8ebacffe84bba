SPECIFICATION Spec
CONSTANTS
    Agents = {a1}
    NoAgent = NoAgent
    Urls = {u1}
    Calls = {c1, c2}
    Offsets = {0, 2}
    Origin <- MCOriginOneOver
    MaxPage = 2
    CacheBudget = 4
    TTL = 1
    Timeout = 1
    MaxTime = 1
INVARIANTS
    SnapshotsAreWhole
