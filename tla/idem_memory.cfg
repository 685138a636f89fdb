\* One instance with its own store, whose clients may hang up: three requests, two keys,
\* two bodies, a key table of one.
SPECIFICATION Spec
CONSTANTS
    Requests = {r1, r2, r3}
    Keys = {k1, k2}
    Bodies = {b1, b2}
    BigBodies = {}
    Instances = {i1}
    Store = "memory"
    KeyCap = 1
    Faults = {"disconnect"}
SYMMETRY Symmetry
INVARIANTS
    OneHolder
    ProcessedOnce
    SavedMeansStored
PROPERTIES
    AnswerKept
CHECK_DEADLOCK FALSE
