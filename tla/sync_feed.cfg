\* Two users compete for one device id and the connection; batches of two over two
\* notes, pages of one, three rows, no resolutions.
SPECIFICATION FairSpec
CONSTANTS
    Users = {u1, u2}
    Devices = {d1}
    Notes = {n1, n2}
    Payloads = {p1}
    InputVersions = {0}
    ResolveVersions = {}
    MaxBatch = 2
    PushLimit = 2
    PullLimit = 1
    MaxPulls = 1
    MaxRows = 3
INVARIANTS
    DevicesSound
    PagesClosed
PROPERTIES
    ImplementsFeed
    ConnectionReleased
    PullEnds
CHECK_DEADLOCK FALSE
