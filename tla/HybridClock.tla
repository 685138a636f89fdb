---------------------------- MODULE HybridClock ----------------------------
(***************************************************************************)
(* The hybrid logical clock and the vector clock of the Rust CRDT library. *)
(* A clock reads the wall clock of its machine, any time the caller gives; *)
(* node ids are numbers, since the code only compares them.                *)
(***************************************************************************)
EXTENDS Naturals, SequencesExt

Larger(a, b) == IF a < b THEN b ELSE a

NewClock(node, now) == [physical |-> now, logical |-> 0, node |-> node]

\* The clock of the same node at another reading.
At(clock, physical, logical) ==
    [physical |-> physical, logical |-> logical, node |-> clock.node]

\* Variant: the counter is not advanced within one millisecond.
IncrementStill(clock, now) == At(clock, Larger(clock.physical, now), 0)

\* A local event at the wall-clock time now.
Increment(clock, now) ==
    IF now > clock.physical THEN At(clock, now, 0)
    ELSE At(clock, clock.physical, clock.logical + 1)

\* Variant: a later clock is taken over whole, its node included.
ReceiveWhole(clock, other, now) ==
    IF other.physical >= clock.physical
      THEN At(other, other.physical, other.logical + 1)
      ELSE At(clock, clock.physical, clock.logical + 1)

\* An event with the clock other arrives at the wall-clock time now.
Receive(clock, other, now) ==
    IF now > clock.physical /\ now > other.physical THEN At(clock, now, 0)
    ELSE IF other.physical > clock.physical
      THEN At(clock, other.physical, other.logical + 1)
    ELSE IF clock.physical > other.physical
      THEN At(clock, clock.physical, clock.logical + 1)
    ELSE At(clock, clock.physical, Larger(clock.logical, other.logical) + 1)

\* The order of clocks: by time, then by counter, then by node.
Earlier(a, b) ==
    \/ a.physical < b.physical
    \/ a.physical = b.physical /\ a.logical < b.logical
    \/ a.physical = b.physical /\ a.logical = b.logical /\ a.node < b.node

NotLater(a, b) == Earlier(a, b) \/ a = b

(* A vector clock is a function from the nodes it has seen to clocks. *)
NoEvents == << >>

CountEvent(vector, node, now) ==
    LET seen == IF node \in DOMAIN vector THEN vector[node]
                                          ELSE NewClock(node, now)
    IN  [n \in DOMAIN vector \cup {node} |->
            IF n = node THEN Increment(seen, now) ELSE vector[n]]

\* Entries both have are merged as received events, the others are copied.
MergeVectors(vector, other, now) ==
    [n \in DOMAIN vector \cup DOMAIN other |->
        IF n \notin DOMAIN other THEN vector[n]
        ELSE IF n \notin DOMAIN vector THEN other[n]
        ELSE Receive(vector[n], other[n], now)]

HappensBefore(vector, other) ==
    /\ \A n \in DOMAIN vector :
          n \in DOMAIN other /\ NotLater(vector[n], other[n])
    /\ \E n \in DOMAIN vector :
          n \in DOMAIN other /\ Earlier(vector[n], other[n])

Concurrent(vector, other) ==
    /\ ~HappensBefore(vector, other)
    /\ ~HappensBefore(other, vector)
    /\ vector # other
=============================================================================
