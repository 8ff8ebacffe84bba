SPECIFICATION SearchSpec
CONSTANTS
    Agents = {a1, a2}
    NoAgent = NoAgent
    Limits = {0, 2, 3}
    DefaultLimit = 1
    MaxLimit = 2
    Answers <- MCAnswers
    Searches = {s1, s2}
    Keys <- MCKeys
    NoKey = NoKey
    Values <- MCValues
    Sizes <- MCSizes
    MaxBytes = 3
    TTL = 1
    MaxTime = 2
SYMMETRY Symmetry
INVARIANTS
    AnswersAreOwn
    AnswersAreRecent
CHECK_DEADLOCK FALSE
