\* Two devices edit and pull one note in pages of one; resolutions, lost answers, two
\* attempts for a push, three rows.
SPECIFICATION ClientSpec
CONSTANTS
    Users = {u1}
    Account = u1
    Devices = {d1, d2}
    Notes = {n1}
    Payloads = {p1, p2}
    InputVersions = {0}
    ResolveVersions = {0}
    MaxBatch = 1
    PushLimit = 1
    PullLimit = 1
    MaxPulls = 1
    MaxRows = 3
    MaxAttempts = 2
SYMMETRY Symmetry
PROPERTIES
    RetryKeepsContent
    DeliveredOnce
CHECK_DEADLOCK FALSE
