\* One user and device: every batch of two records over two notes, resolutions
\* at any claimed version, three rows.
SPECIFICATION Spec
CONSTANTS
    Users = {u1}
    Devices = {d1}
    Notes = {n1, n2}
    Payloads = {p1, p2}
    InputVersions = {0, 1}
    ResolveVersions = {0, 2}
    MaxBatch = 2
    PushLimit = 2
    PullLimit = 1
    MaxPulls = 2
    MaxRows = 3
SYMMETRY Symmetry
INVARIANTS
    TypeOK
    RecordsMatchSnapshots
    PushRowsAscend
PROPERTIES
    NoStaleOverwrite
    PushBecomesLatest
CHECK_DEADLOCK FALSE
