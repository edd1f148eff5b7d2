SPECIFICATION Spec
CONSTANTS
    Requests = {r1}
    Events = {e1, e2}
    Refused = {}
    MaxBatch = 2
    MaxConnections = 2
INVARIANTS LogsStored
