---------------------------- MODULE CrdtDocument ----------------------------
(***************************************************************************)
(* The block documents of devnote-crdt.  Every device edits its own copy;  *)
(* the operations it makes reach the other copies in batches, in any order *)
(* and more than once.  Delivery is the caller's business, so any batch of *)
(* operations made so far may be merged at any time.                       *)
(***************************************************************************)
EXTENDS HybridClock, StableOrder

CONSTANTS
    Devices,    \* the devices, numbers for the order of their ids
    BlockIds,
    Contents,
    Times,      \* what a wall clock may read, in any order
    SharedBlocks,   \* the blocks every copy starts with, in order
    MaxPosition,
    MaxBatch,   \* bound: operations of one merge
    MaxCalls    \* bound: calls made on all copies

ASSUME CrdtAssumption ==
    /\ Devices \subseteq Nat /\ Devices # {}
    /\ Contents # {}
    /\ Times \subseteq Nat
    /\ SharedBlocks \in Seq(BlockIds)
    /\ MaxPosition \in Nat

VARIABLES
    copies,   \* each device's document
    issued,   \* the operations handed to callers for other devices
    calls

crdtVars == <<copies, issued, calls>>

Positions == 0..MaxPosition

NewDocument(d, now) ==
    [hlc |-> NewClock(d, now), version |-> NoEvents,
     blocks |-> <<>>, operations |-> <<>>]

(* Applying one operation to a list of blocks. *)

Find(blocks, b) == FirstIndex(blocks, LAMBDA block : block.id = b)

\* Variant: tombstones are not looked at.
OutcomeOfPresent(blocks, op) ==
    IF op.kind # "insert" /\ Find(blocks, op.block) = 0 THEN "invalid" ELSE "ok"

Outcome(blocks, op) ==
    LET i == Find(blocks, op.block)
    IN  IF op.kind = "insert" THEN "ok"
        ELSE IF i = 0 THEN "invalid"
        ELSE IF blocks[i].tombstone THEN "deleted"
        ELSE "ok"

\* Active blocks are numbered from 0 in the order of their positions.
Reindexed(blocks) ==
    [i \in DOMAIN blocks |->
        IF blocks[i].tombstone THEN blocks[i]
        ELSE [blocks[i] EXCEPT !.position =
                Cardinality({j \in DOMAIN blocks :
                    /\ ~blocks[j].tombstone
                    /\ \/ blocks[j].position < blocks[i].position
                       \/ /\ blocks[j].position = blocks[i].position
                          /\ j < i})]]

\* Variant: the positions are not numbered again.
InsertedInPlace(blocks, op) ==
    Append(blocks, [id |-> op.block, position |-> op.to, content |-> op.new,
                    tombstone |-> FALSE, modified |-> op.id])

ByModified(blocks) ==
    StableSort(blocks, LAMBDA a, b : Earlier(a.modified, b.modified))

Inserted(blocks, op) ==
    LET block == [id |-> op.block, position |-> op.to, content |-> op.new,
                  tombstone |-> FALSE, modified |-> op.id]
    IN  Reindexed(ByModified(Append(blocks, block)))

Replaced(blocks, op) ==
    [blocks EXCEPT ![Find(blocks, op.block)] =
        [@ EXCEPT !.content = op.new, !.modified = op.id]]

Deleted(blocks, op) ==
    [blocks EXCEPT ![Find(blocks, op.block)] = [@ EXCEPT !.tombstone = TRUE]]

\* The blocks between the old and the new position make room.
Shifted(block, old, new) ==
    IF block.tombstone THEN block
    ELSE IF old < block.position /\ block.position <= new
      THEN [block EXCEPT !.position = @ - 1]
    ELSE IF new <= block.position /\ block.position < old
      THEN [block EXCEPT !.position = @ + 1]
    ELSE block

Moved(blocks, op) ==
    LET i == Find(blocks, op.block)
        old == blocks[i].position
        moved == [blocks[i] EXCEPT !.position = op.to, !.modified = op.id]
        room == [j \in DOMAIN blocks |->
                   IF blocks[j].id = op.block
                     THEN blocks[j] ELSE Shifted(blocks[j], old, op.to)]
    IN  IF old = op.to THEN [blocks EXCEPT ![i] = moved]
                       ELSE Reindexed([room EXCEPT ![i] = moved])

Applied(blocks, op) ==
    CASE op.kind = "insert"  -> Inserted(blocks, op)
      [] op.kind = "replace" -> Replaced(blocks, op)
      [] op.kind = "move"    -> Moved(blocks, op)
      [] op.kind = "delete"  -> Deleted(blocks, op)

\* An operation that fails is not recorded.
Apply(doc, op) ==
    IF Outcome(doc.blocks, op) = "ok"
      THEN [doc EXCEPT !.blocks = Applied(@, op), !.operations = Append(@, op)]
      ELSE doc

(* Transforming a remote operation against the recorded ones. *)

Conflicting(op, existing) ==
    {i \in DOMAIN existing :
        /\ existing[i].block = op.block
        /\ Concurrent(existing[i].clock, op.clock)}

Transform(op, existing) ==
    LET rivals == Conflicting(op, existing)
        earlierInserts == {i \in rivals : /\ existing[i].kind = "insert"
                                          /\ Earlier(existing[i].id, op.id)}
        loses == \E i \in rivals : Earlier(op.id, existing[i].id)
    IN  CASE op.kind = "insert" ->
               [op EXCEPT !.to = @ + Cardinality(earlierInserts)]
          [] op.kind = "replace" /\ loses -> [op EXCEPT !.new = op.old]
          [] op.kind = "move" /\ loses -> [op EXCEPT !.to = op.from]
          [] OTHER -> op

(* A local edit: the clocks advance even when the operation then fails. *)
NextId(d, now) == Increment(copies[d].hlc, now)

NextVersion(d, now) == CountEvent(copies[d].version, d, now)

Edit(d, op) ==
    LET doc == [copies[d] EXCEPT !.hlc = op.id, !.version = op.clock]
    IN  /\ copies' = [copies EXCEPT ![d] = Apply(doc, op)]
        /\ issued' = IF Outcome(doc.blocks, op) = "ok"
                       THEN issued \cup {op} ELSE issued
        /\ calls' = calls + 1

\* Bound: blocks are inserted with one content.
FirstContent == CHOOSE c \in Contents : TRUE

\* What the caller believes the content and the position of the block to be.
Shown(d, b) ==
    LET i == Find(copies[d].blocks, b)
    IN  IF i = 0 THEN [content |-> FirstContent, position |-> 0]
                 ELSE copies[d].blocks[i]

InsertBlock(d, b, now) ==
    \E to \in Positions :
        Edit(d, [kind |-> "insert", id |-> NextId(d, now), clock |-> NextVersion(d, now),
                 block |-> b, to |-> to, new |-> FirstContent])

ReplaceBlock(d, b, now) ==
    \E c \in Contents :
        Edit(d, [kind |-> "replace", id |-> NextId(d, now), clock |-> NextVersion(d, now),
                 block |-> b, old |-> Shown(d, b).content, new |-> c])

MoveBlock(d, b, now) ==
    \E to \in Positions :
        Edit(d, [kind |-> "move", id |-> NextId(d, now), clock |-> NextVersion(d, now),
                 block |-> b, from |-> Shown(d, b).position, to |-> to])

DeleteBlock(d, b, now) ==
    Edit(d, [kind |-> "delete", id |-> NextId(d, now), clock |-> NextVersion(d, now),
             block |-> b])

(* Merging a batch. *)

\* Variant: the clock does not hear of the operation.
MergeOneUnheard(progress, op, now) ==
    LET local == Transform(op, progress.doc.operations)
    IN  IF progress.failed THEN progress
        ELSE [doc |-> Apply(progress.doc, local),
              failed |-> Outcome(progress.doc.blocks, local) = "invalid"]

\* One operation of a merge; an invalid one ends the merge, earlier ones stay.
MergeOne(progress, op, now) ==
    LET doc == [progress.doc EXCEPT !.hlc = Receive(@, op.id, now)]
        local == Transform(op, doc.operations)
    IN  IF progress.failed THEN progress
        ELSE [doc |-> Apply(doc, local),
              failed |-> Outcome(doc.blocks, local) = "invalid"]

InIdOrder(operations) == StableSort(operations, LAMBDA a, b : Earlier(a.id, b.id))

Unknown(batch, known) == Kept(batch, LAMBDA op : op.id \notin known)

\* Variant: every operation of the batch counts as new.
NewOperationsAll(doc, batch) == InIdOrder(batch)

\* What is new by the operations recorded before the merge, in id order.  The
\* batch is not compared with itself: what it holds twice is new twice.
NewOperations(doc, batch) ==
    InIdOrder(Unknown(batch, {doc.operations[i].id : i \in DOMAIN doc.operations}))

\* The document after a batch, and whether an operation failed.
MergeAll(doc, batch, now) ==
    FoldLeft(LAMBDA p, op : MergeOne(p, op, now), [doc |-> doc, failed |-> FALSE],
             NewOperations(doc, batch))

MergeClock(vector, op, now) == MergeVectors(vector, op.clock, now)

ClockOf(batch, now) == FoldLeft(LAMBDA v, op : MergeClock(v, op, now), NoEvents, batch)

\* The version takes in the batch's clocks only when no operation failed.
Merged(doc, batch, now) ==
    LET progress == MergeAll(doc, batch, now)
    IN  IF progress.failed THEN progress.doc
        ELSE [progress.doc EXCEPT !.version = MergeVectors(@, ClockOf(batch, now), now)]

Merge(d, now) ==
    \E n \in 1..MaxBatch : \E batch \in [1..n -> issued] :
        /\ copies' = [copies EXCEPT ![d] = Merged(copies[d], batch, now)]
        /\ calls' = calls + 1
        /\ UNCHANGED issued

\* The first device inserts the shared blocks, every other copy merges them.
Founder == CHOOSE d \in Devices : \A e \in Devices : d <= e

FounderInserts(doc, b, now) ==
    LET hlc == Increment(doc.hlc, now)
        version == CountEvent(doc.version, Founder, now)
    IN  Apply([doc EXCEPT !.hlc = hlc, !.version = version],
              [kind |-> "insert", id |-> hlc, clock |-> version, block |-> b,
               to |-> Len(doc.blocks), new |-> FirstContent])

FirstCopy(now) ==
    FoldLeft(LAMBDA doc, b : FounderInserts(doc, b, now),
             NewDocument(Founder, now), SharedBlocks)

CrdtInit ==
    \E now \in Times :
        LET first == FirstCopy(now)
        IN  /\ copies = [d \in Devices |->
                  IF d = Founder THEN first
                  ELSE Merged(NewDocument(d, now), first.operations, now)]
            /\ issued = {first.operations[i] : i \in DOMAIN first.operations}
            /\ calls = 0

CrdtNext ==
    /\ calls < MaxCalls
    /\ \E d \in Devices, now \in Times :
          \/ \E b \in BlockIds :
                \/ InsertBlock(d, b, now)
                \/ ReplaceBlock(d, b, now)
                \/ MoveBlock(d, b, now)
                \/ DeleteBlock(d, b, now)
          \/ Merge(d, now)

CrdtSpec == CrdtInit /\ [][CrdtNext]_crdtVars

-----------------------------------------------------------------------------
Clocks == [physical : Nat, logical : Nat, node : Devices]

\* The documents' clocks, blocks and operations, the issued operations and
\* the calls have their types.
CrdtTypeOK ==
    /\ \A d \in Devices :
          /\ copies[d].hlc \in Clocks
          /\ copies[d].hlc.node = d
          /\ DOMAIN copies[d].version \subseteq Devices
          /\ \A i \in DOMAIN copies[d].blocks :
                /\ copies[d].blocks[i].id \in BlockIds
                /\ copies[d].blocks[i].position \in Nat
                /\ copies[d].blocks[i].tombstone \in BOOLEAN
          /\ \A i \in DOMAIN copies[d].operations :
                copies[d].operations[i].id \in Clocks
    /\ \A op \in issued : op.id \in Clocks /\ op.block \in BlockIds
    /\ calls \in Nat

Recorded(d) == {copies[d].operations[i].id : i \in DOMAIN copies[d].operations}

\* An id names one operation for ever: what merge takes for an operation it has
\* already applied is that operation.
IdsUnique == \A op, other \in issued : op.id = other.id => op = other

\* An edit made after a device took in an operation gets the later id, so the
\* order in which merge applies a batch never puts an effect before its cause.
CausesFirst ==
    [][\A op \in issued' \ issued : \A id \in Recorded(op.id.node) :
          Earlier(id, op.id)]_crdtVars

\* What a copy has recorded it does not apply again when a later merge brings it
\* once more, and an edit never takes the id of a recorded operation.
NotAppliedAgain ==
    [][\A d \in Devices :
          \A k \in DOMAIN copies'[d].operations \ DOMAIN copies[d].operations :
             copies'[d].operations[k].id \notin Recorded(d)]_crdtVars

\* The blocks a document shows.
ShownIds(blocks) ==
    {blocks[i].id : i \in {j \in DOMAIN blocks : ~blocks[j].tombstone}}

\* The entry of a deleted block stays as it was left, the record of operations
\* only gets longer, and an id that was not shown, as a deleted one is not, is
\* shown only by a step that applied an insertion of that very id.
DeletedStays ==
    \A d \in Devices :
       LET old == copies[d]
           new == copies'[d]
       IN  /\ \A i \in DOMAIN old.blocks :
                 old.blocks[i].tombstone =>
                    \E j \in DOMAIN new.blocks : new.blocks[j] = old.blocks[i]
           /\ \A k \in DOMAIN old.operations :
                 /\ k \in DOMAIN new.operations
                 /\ new.operations[k] = old.operations[k]
           /\ \A b \in ShownIds(new.blocks) \ ShownIds(old.blocks) :
                 \E k \in DOMAIN new.operations \ DOMAIN old.operations :
                    /\ new.operations[k].kind = "insert"
                    /\ new.operations[k].block = b

\* No two shown blocks of a document share a position, so active_blocks has one
\* order, also after deletions left gaps and merges inserted below them.
PositionsDistinct ==
    \A d \in Devices :
        LET blocks == copies[d].blocks
            active == {i \in DOMAIN blocks : ~blocks[i].tombstone}
        IN  \A i, j \in active :
               blocks[i].position = blocks[j].position => i = j
=============================================================================
