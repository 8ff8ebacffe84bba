SPECIFICATION Spec
CONSTANTS
    Replicas = {r1, r2}
    NoReplica = NoReplica
    NotNulls <- MCNotNulls
    Calls <- MCCalls
    MaxRows = 2
    MaxFaults = 2
INVARIANTS
    RenamesReadAsWritten
    ReplicasDoNotCollide
PROPERTIES
    OpenEnds
CHECK_DEADLOCK FALSE
