SPECIFICATION ClientSpec
CONSTANTS
    Users = {u1}
    Account = u1
    Devices = {d1, d2}
    Notes = {n1}
    Payloads = {p1}
    InputVersions = {0}
    ResolveVersions = {}
    MaxBatch = 1
    PushLimit = 1
    PullLimit = 3
    MaxPulls = 2
    MaxRows = 3
    MaxAttempts = 1
INVARIANT NoRecordSkipped
CHECK_DEADLOCK FALSE
