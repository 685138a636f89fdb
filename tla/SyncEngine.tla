----------------------------- MODULE SyncEngine -----------------------------
(***************************************************************************)
(* The client engine of devnote-sync over the documents of CrdtDocument:   *)
(* the operations a device still has to send, the conflicts a merge found  *)
(* and the user's resolution of them.  The engine has no transport yet;    *)
(* sync, push and pull roll back and fail, and change nothing.             *)
(***************************************************************************)
EXTENDS CrdtDocument

VARIABLES
    pending,    \* each device's operations not yet echoed by a peer
    status,
    conflicts   \* what the last merge found and is not resolved

engineVars == <<copies, issued, calls, pending, status, conflicts>>

EngineInit ==
    /\ CrdtInit
    /\ pending = [d \in Devices |-> {}]
    /\ status = [d \in Devices |-> "idle"]
    /\ conflicts = [d \in Devices |-> <<>>]

\* Variant: every engine of the process records the operation.
RecordOperationEverywhere(d) ==
    /\ pending' = [e \in Devices |-> pending[e] \cup (issued' \ issued)]
    /\ UNCHANGED <<status, conflicts>>

\* Variant: only the latest operation is pending.
RecordOperationLast(d) ==
    /\ pending' = [pending EXCEPT ![d] = issued' \ issued]
    /\ UNCHANGED <<status, conflicts>>

\* The caller edits the document and records the operation it gets back.
RecordOperation(d) ==
    LET made == issued' \ issued
    IN  /\ pending' = [pending EXCEPT ![d] = @ \cup made]
        /\ status' = IF made # {} /\ status[d] = "synced"
                       THEN [status EXCEPT ![d] = "idle"] ELSE status
        /\ UNCHANGED conflicts

EngineEdit(d) ==
    \E b \in BlockIds, now \in Times :
        /\ \/ InsertBlock(d, b, now)
           \/ ReplaceBlock(d, b, now)
           \/ MoveBlock(d, b, now)
           \/ DeleteBlock(d, b, now)
        /\ RecordOperation(d)

(* What detect_conflicts reports for a remote operation. *)

\* Detection knows operations by node and counter, without the time of the id.
OperationKey(op) == <<op.id.node, op.id.logical>>

\* The last recorded operation of that kind the remote one is concurrent with.
Rival(doc, op, kind) ==
    LastIndex(doc.operations, LAMBDA own :
        own.block = op.block /\ own.kind = kind /\ Concurrent(own.clock, op.clock))

\* Moves are reported by a text that names the position.
PositionText(p) == [position |-> p]
NoText == [deleted |-> TRUE]

ConflictOf(doc, op) ==
    LET rival == Rival(doc, op, IF op.kind = "move" THEN "move" ELSE "replace")
        own == doc.operations[rival]
        block == Find(doc.blocks, op.block)
        same == \/ op.kind = "replace" /\ block # 0
                     /\ doc.blocks[block].content = op.new
                \/ op.kind = "move" /\ own.to = op.to
        known == {OperationKey(doc.operations[i]) : i \in DOMAIN doc.operations}
    IN  IF OperationKey(op) \in known \/ op.kind = "insert" \/ rival = 0 \/ same
          THEN <<>>
        ELSE IF op.kind = "move"
          THEN <<[block |-> op.block, local |-> PositionText(own.to),
                  remote |-> PositionText(op.to)]>>
        ELSE <<[block |-> op.block, local |-> own.new,
                remote |-> IF op.kind = "delete" THEN NoText ELSE op.new]>>

WithConflict(found, op, doc) == found \o ConflictOf(doc, op)

DetectConflicts(doc, batch) ==
    FoldLeft(LAMBDA found, op : WithConflict(found, op, doc), <<>>, batch)

\* A merge that fails leaves what it applied, and the engine's state as it was.
MergeWithCrdt(d) ==
    \E n \in 1..MaxBatch, now \in Times : \E batch \in [1..n -> issued] :
        LET found == DetectConflicts(copies[d], batch)
            echoed == {batch[i].id : i \in DOMAIN batch}
        IN  /\ copies' = [copies EXCEPT ![d] = Merged(@, batch, now)]
            /\ calls' = calls + 1
            /\ UNCHANGED issued
            /\ IF MergeAll(copies[d], batch, now).failed
                 THEN UNCHANGED <<pending, status, conflicts>>
                 ELSE /\ pending' = [pending EXCEPT ![d] =
                                       {op \in @ : op.id \notin echoed}]
                      /\ status' = [status EXCEPT ![d] =
                           IF found = <<>> THEN "synced" ELSE "conflict"]
                      /\ conflicts' = [conflicts EXCEPT ![d] = found]

(* Resolution: the chosen text replaces the block's content. *)

ConflictAt(found, b) == FirstIndex(found, LAMBDA c : c.block = b)

OnOthers(found, b) == Kept(found, LAMBDA c : c.block # b)

\* The document and the conflicts after resolving block b, or failed.
Resolved(progress, b, answer) ==
    LET doc == progress.doc
        i == ConflictAt(progress.conflicts, b)
        conflict == progress.conflicts[i]
        hlc == Increment(doc.hlc, answer.now)
        version == CountEvent(doc.version, doc.hlc.node, answer.now)
        op == [kind |-> "replace", block |-> b, old |-> conflict.local,
               new |-> IF answer.remote THEN conflict.remote ELSE conflict.local,
               id |-> hlc, clock |-> version]
        done == Apply([doc EXCEPT !.hlc = hlc, !.version = version], op)
    IN  IF progress.failed \/ i = 0 THEN [progress EXCEPT !.failed = TRUE]
        ELSE IF Outcome(doc.blocks, op) # "ok"
          THEN [progress EXCEPT !.doc = done, !.failed = TRUE]
        ELSE [doc |-> done, failed |-> FALSE,
              conflicts |-> OnOthers(progress.conflicts, b)]

\* The call's argument, and what the wall clock reads while it runs.
Answers == [remote : BOOLEAN, now : Times]

ResolveAll(d, blocks, answer) ==
    FoldLeft(LAMBDA p, b : Resolved(p, b, answer),
             [doc |-> copies[d], conflicts |-> conflicts[d], failed |-> FALSE], blocks)

\* Variant: the resolved blocks' operations are pending, and never handed out.
ResolvePending(d, blocks) ==
    \E answer \in Answers :
        LET end == ResolveAll(d, blocks, answer)
        IN  /\ copies' = [copies EXCEPT ![d] = end.doc]
            /\ conflicts' = [conflicts EXCEPT ![d] = end.conflicts]
            /\ pending' = [pending EXCEPT ![d] = @ \cup
                             (ToSet(end.doc.operations) \ ToSet(copies[d].operations))]
            /\ calls' = calls + 1
            /\ UNCHANGED <<issued, status>>

\* Variant: one resolution ends the conflict status.
ResolveSynced(d, blocks) ==
    \E answer \in Answers :
        LET end == ResolveAll(d, blocks, answer)
        IN  /\ copies' = [copies EXCEPT ![d] = end.doc]
            /\ conflicts' = [conflicts EXCEPT ![d] = end.conflicts]
            /\ status' = [status EXCEPT ![d] = "synced"]
            /\ calls' = calls + 1
            /\ UNCHANGED <<issued, pending>>

\* The operation made by a resolution is neither recorded nor sent.
Resolve(d, blocks) ==
    \E answer \in Answers :
        LET end == ResolveAll(d, blocks, answer)
        IN  /\ copies' = [copies EXCEPT ![d] = end.doc]
            /\ conflicts' = [conflicts EXCEPT ![d] = end.conflicts]
            /\ status' = IF end.conflicts = <<>>
                           THEN [status EXCEPT ![d] = "synced"] ELSE status
            /\ calls' = calls + 1
            /\ UNCHANGED <<issued, pending>>

ResolveConflictManual(d) ==
    \E i \in DOMAIN conflicts[d] : Resolve(d, <<conflicts[d][i].block>>)

\* One resolution per conflict: the second on a block finds none and fails.
ResolveConflict(d) ==
    /\ conflicts[d] # <<>>
    /\ Resolve(d, [i \in DOMAIN conflicts[d] |-> conflicts[d][i].block])

EngineNext ==
    /\ calls < MaxCalls
    /\ \E d \in Devices :
          \/ EngineEdit(d)
          \/ MergeWithCrdt(d)
          \/ ResolveConflictManual(d)
          \/ ResolveConflict(d)

EngineSpec == EngineInit /\ [][EngineNext]_engineVars

-----------------------------------------------------------------------------
\* The engine's status, pending operations and conflicts have their types.  A
\* block's content may be the text of a position: resolving a conflict of moves
\* writes the text that reported it into the block.
EngineTypeOK ==
    /\ status \in [Devices -> {"idle", "synced", "conflict"}]
    /\ \A d \in Devices :
          /\ pending[d] \subseteq issued
          /\ \A i \in DOMAIN conflicts[d] : conflicts[d][i].block \in BlockIds
          /\ \A i \in DOMAIN copies[d].blocks :
                copies[d].blocks[i].content \in
                    Contents \cup {NoText} \cup [position : Nat]

\* A device asks its user exactly while there is something to ask, also after
\* merges that failed, resolutions that failed and edits in between.
ConflictStatus ==
    \A d \in Devices : status[d] = "conflict" <=> conflicts[d] # <<>>

\* What a device will send it has applied itself, and under the same id.
PendingApplied ==
    \A d \in Devices : \A op \in pending[d] :
        op.id \in Recorded(d) /\ op.id.node = d

\* What the engine tells its user and what it is about to send agree with the
\* document, also after merges and resolutions that failed half way.
EngineAgrees == ConflictStatus /\ PendingApplied

\* An operation stops being pending only when a batch that held it was merged
\* and the merge went through: no edit, failed merge or resolution drops it.
PendingKept ==
    \A d \in Devices :
       ~(pending[d] \subseteq pending'[d]) =>
          \E n \in 1..MaxBatch, now \in Times : \E batch \in [1..n -> issued] :
             /\ pending[d] \ pending'[d] \subseteq {op \in pending[d] :
                   \E i \in DOMAIN batch : batch[i].id = op.id}
             /\ ~MergeAll(copies[d], batch, now).failed
             /\ copies'[d] = Merged(copies[d], batch, now)
=============================================================================
