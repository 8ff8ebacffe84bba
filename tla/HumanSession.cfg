SPECIFICATION Spec
CONSTANTS
    Sessions = {s1}
    Requests = {r1, r2, r3}
    Interval = 2
    Slack = 1
    MaxTokens = 4
    MaxTime = 6
SYMMETRY Symmetry
INVARIANTS
    GrantsAreFresh
    LogoutHolds
    RefusedMeansRevoked
CHECK_DEADLOCK FALSE
