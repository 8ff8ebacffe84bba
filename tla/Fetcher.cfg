SPECIFICATION Spec
CONSTANTS
    Agents = {a1, a2}
    NoAgent = NoAgent
    Urls = {u1}
    Calls = {c1, c2, c3}
    Offsets = {0, 2}
    Origin <- MCOrigin
    MaxPage = 2
    CacheBudget = 4
    TTL = 1
    Timeout = 1
    MaxTime = 3
SYMMETRY Symmetry
INVARIANTS
    AgentsAreIsolated
    AnswersAreFresh
    PagesAreRight
    SnapshotsAreWhole
PROPERTIES
    SuccessIsCached
