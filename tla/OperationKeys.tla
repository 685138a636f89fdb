---------------------------- MODULE OperationKeys ----------------------------
(***************************************************************************)
(* The process-wide cache of operation keys in devnote-sync: a key is      *)
(* processed once, until it is among the oldest fifth that is evicted when *)
(* the cache overflows.                                                    *)
(***************************************************************************)
EXTENDS Naturals, Sequences, FiniteSets

CONSTANTS
    OpKeys,
    KeyCapacity,
    EvictShare,   \* the share of the keys that is evicted at once: a fifth
    MaxAccepted   \* bound: keys accepted

ASSUME KeysAssumption ==
    KeyCapacity \in Nat \ {0} /\ EvictShare \in Nat \ {0} /\ MaxAccepted \in Nat

VARIABLES
    keys,      \* the set the code looks keys up in
    order,     \* the queue it evicts from
    accepted   \* history: every key that was processed, in order

keyVars == <<keys, order, accepted>>

KeysInit == keys = {} /\ order = <<>> /\ accepted = <<>>

Evicted ==
    IF KeyCapacity \div EvictShare = 0 THEN 1 ELSE KeyCapacity \div EvictShare

\* Variant: evicted keys leave the queue only.
InsertKeyLeaves(k) ==
    LET full == Append(order, k)
        over == Cardinality(keys \cup {k}) > KeyCapacity
    IN  /\ order' = SubSeq(full, IF over THEN Evicted + 1 ELSE 1, Len(full))
        /\ keys' = keys \cup {k}

\* Variant: a full cache is cleared, as it was before the eviction.
InsertKeyClears(k) ==
    IF Cardinality(keys \cup {k}) > KeyCapacity
      THEN order' = <<>> /\ keys' = {}
      ELSE order' = Append(order, k) /\ keys' = keys \cup {k}

\* The oldest keys leave the set and the queue once the capacity is exceeded.
InsertKey(k) ==
    LET full == Append(order, k)
        over == Cardinality(keys \cup {k}) > KeyCapacity
        n == IF ~over THEN 0 ELSE IF Evicted < Len(full) THEN Evicted ELSE Len(full)
    IN  /\ order' = SubSeq(full, n + 1, Len(full))
        /\ keys' = (keys \cup {k}) \ {full[i] : i \in 1..n}

\* check_idempotency holds the mutex for the look-up and the insertion.
CheckIdempotency(k) ==
    /\ k \notin keys
    /\ Len(accepted) < MaxAccepted
    /\ InsertKey(k)
    /\ accepted' = Append(accepted, k)

KeysNext == \E k \in OpKeys : CheckIdempotency(k)

KeysSpec == KeysInit /\ [][KeysNext]_keyVars

-----------------------------------------------------------------------------
\* The set and the queue hold the same keys, each once, within the capacity.
KeysTypeOK ==
    /\ keys = {order[i] : i \in DOMAIN order}
    /\ Cardinality(keys) = Len(order)
    /\ Len(order) <= KeyCapacity

\* A key is not processed again before a cache's worth of others came after
\* it: a retry within that window is always recognised.
RetryWindow ==
    \A i, j \in DOMAIN accepted :
        i < j /\ accepted[i] = accepted[j] => j - i > KeyCapacity + 1 - Evicted
=============================================================================
