\* Two instances that share Redis, with crashes, lost connections and slow requests.
SPECIFICATION FairSpec
CONSTANTS
    Requests = {r1, r2}
    Keys = {k1}
    Bodies = {b1}
    BigBodies = {b1}
    Instances = {i1, i2}
    Store = "redis"
    KeyCap = 1
    Faults = {"crash", "disconnect", "slow"}
INVARIANTS
    SuccessMeansStored
PROPERTIES
    KeyFreed
CHECK_DEADLOCK FALSE
