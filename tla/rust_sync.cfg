\* Two devices and four calls on documents; three letters typed and one deletion on
\* two replicas of a text; a cache of four keys that evicts two.
SPECIFICATION SyncPartsSpec
CONSTANTS
    b1 = b1
    b2 = b2
    a = a
    Devices = {1, 2}
    BlockIds = {b1, b2}
    Contents = {c1, c2}
    Times = {1}
    SharedBlocks <- OneSharedBlock
    MaxPosition = 1
    MaxBatch = 2
    MaxCalls = 4
    Writers = {1, 2}
    Letters = {a}
    InitialText <- OneLetter
    TypingTimes = {1, 2}
    MaxTyped = 3
    MaxErased = 1
    OpKeys = {k1, k2, k3, k4, k5, k6}
    KeyCapacity = 4
    EvictShare = 2
    MaxAccepted = 8
INVARIANTS
    SyncPartsTypeOK
    CopiesSound
    EngineAgrees
    RetryWindow
PROPERTIES
    CausesFirst
    NotAppliedAgain
    NothingUndone
CHECK_DEADLOCK FALSE
