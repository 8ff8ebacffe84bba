SPECIFICATION Spec
CONSTANTS
    Ids <- MCIds
    Actors = {a1}
    Tools = {fetch}
    MaxPending = 1
    Absent = Absent
    Filters <- MCFilters
    Limit = 0
    DefaultPageSize = 2
    MaxPageSize = 4
    Retention = 1
    MaxTime = 2
    Table <- MCTable
    OpenedAt = 1
    MaxMore = 2
    MaxClicks = 3
INVARIANTS
    ListIsOfFilter
    EndIsTheEnd
PROPERTIES
    LoadingEnds
CHECK_DEADLOCK FALSE
