--------------------------- MODULE SyncServerProofs ---------------------------
(***************************************************************************)
(* What TLAPS proves of SyncServer for every choice of its constants:      *)
(* type correctness first, then the inductive invariant of the tables and  *)
(* of the open transaction, and the invariants that follow from it; that   *)
(* the server implements the version feed as long as nobody resolves a     *)
(* conflict; and what a commit may do to the latest content of a note.     *)
(***************************************************************************)
EXTENDS SyncServer, TLAPS

-----------------------------------------------------------------------------
(* Type correctness *)

\* A batch, cut to the server's limit, is a sequence of inputs.
LEMMA TruncatedType ==
    ASSUME NEW batch \in Batches
    PROVE  Truncated(batch) \in Seq(SyncRecordInput)
<1>1. PICK k \in 0..MaxBatch : batch \in [1..k -> SyncRecordInput]
  BY DEF Batches
<1>2. batch \in Seq(SyncRecordInput)
  BY <1>1, LimitsAssumption
<1>. QED
  BY <1>2, LimitsAssumption DEF Truncated

\* A snapshot preloaded for a note is a row of the table, or 0 for none.
LEMMA LatestType ==
    ASSUME TypeOK, NEW u \in Users, NEW latest \in preloadLatestSnapshots(u)
    PROVE  /\ latest \in [Notes -> Nat]
           /\ \A n \in Notes : latest[n] # 0 => latest[n] \in SnapshotsOf(u, n)
<1>1. DOMAIN snapshots \subseteq Nat
  BY DEF TypeOK
<1>2. latest \in [Notes -> {0} \cup DOMAIN snapshots]
  BY DEF preloadLatestSnapshots
<1>3. latest \in [Notes -> Nat]
  BY <1>1, <1>2
<1>4. ASSUME NEW n \in Notes, latest[n] # 0
      PROVE  latest[n] \in SnapshotsOf(u, n)
  BY <1>4 DEF preloadLatestSnapshots, LatestSnapshots
<1>. QED
  BY <1>3, <1>4

\* A row of sync_records has the fields of its type.
LEMMA RowType ==
    ASSUME TypeOK, NEW i \in DOMAIN records
    PROVE  /\ records[i].user \in Users
           /\ records[i].device \in Devices \cup {NoDevice}
           /\ records[i].version \in Nat
<1>1. records[i] \in SyncRecord
  BY DEF TypeOK
<1>. QED
  BY <1>1 DEF SyncRecord

\* The versions stored so far are naturals.
LEMMA KnownVersionsType ==
    ASSUME TypeOK PROVE KnownVersions \subseteq Nat
BY RowType DEF KnownVersions

\* The next version and the stored payload of one record.
LEMMA RecordValues ==
    ASSUME TypeOK, tx.phase = "open", tx \in PushTx,
           NEW input \in SyncRecordInput,
           tx.latest[input.note] # 0
             => tx.latest[input.note] \in DOMAIN snapshots
    PROVE  /\ AssignedVersion(tx.latest[input.note]) \in Nat
           /\ AssignedVersion(tx.latest[input.note]) > tx.maxVer
           /\ StoredPayload(input, tx.latest[input.note]) \in Payloads
<1>. DEFINE at == tx.latest[input.note]
<1>1. at # 0 => snapshots[at] \in NoteSnapshot
  BY DEF TypeOK
<1>2. at # 0 => snapshots[at].version \in Nat /\ snapshots[at].payload \in Payloads
  BY <1>1 DEF NoteSnapshot
<1>3. tx.maxVer \in Nat
  BY DEF PushTx
<1>4. input.payload \in Payloads
  BY DEF SyncRecordInput
<1>5. AssignedVersion(at) \in Nat /\ AssignedVersion(at) > tx.maxVer
  BY <1>2, <1>3 DEF AssignedVersion
<1>6. StoredPayload(input, at) \in Payloads
  BY <1>2, <1>4 DEF StoredPayload, ResolveLastWriteWins
<1>. QED
  BY <1>5, <1>6

\* A transaction is open exactly when tx is a PushTx.
LEMMA OpenTx ==
    ASSUME TypeOK, tx.phase = "open" PROVE tx \in PushTx
BY DEF TypeOK, Free

-----------------------------------------------------------------------------
(* The inductive invariant *)

\* The open transaction: it numbers from the end of its user's log, its rows
\* ascend from there, and it writes both tables row for row.
TxSound ==
    tx.phase = "open" =>
        /\ \A i \in RowsOf(tx.user) : records[i].version <= tx.maxVer
        /\ \A n \in Notes :
              tx.latest[n] # 0 => tx.latest[n] \in SnapshotsOf(tx.user, n)
        /\ Len(tx.records) = Len(tx.snapshots)
        /\ \A k \in DOMAIN tx.records :
              /\ tx.records[k].user = tx.user
              /\ tx.records[k].device = tx.device
              /\ tx.snapshots[k] = SnapshotOf(tx.records[k])
              /\ tx.records[k].version <= tx.maxVer
              /\ \A i \in RowsOf(tx.user) :
                    records[i].version < tx.records[k].version
              /\ \A l \in 1..(k - 1) :
                    tx.records[l].version < tx.records[k].version

IInv ==
    /\ TypeOK
    /\ TxSound
    /\ RecordsMatchSnapshots
    /\ PushRowsAscend
    /\ DeviceOwnership

\* Every step is one of the actions, with its parameters named.
LEMMA NextCases ==
    ASSUME Next
    PROVE  \/ \E u \in Users, d \in Devices, batch \in Batches :
                 PushBegin(u, d, batch)
           \/ PushRecord \/ PushCommit \/ PushRollback
           \/ \E u \in Users, d \in Devices, since \in KnownVersions :
                 PullSelect(u, d, since)
           \/ \E d \in Devices : PullMax(d)
           \/ \E d \in Devices : PullUpdateDevice(d)
           \/ \E d \in Devices : PullFail(d)
           \/ \E d \in Devices : PullReturn(d)
           \/ \E u \in Users, n \in Notes, ver \in ResolveVersions,
                 data \in Payloads : ResolveConflict(u, n, ver, data)
           \/ Restart
BY DEF Next, Push, Pull

LEMMA InitInv == ASSUME Init PROVE IInv
<1>1. TypeOK
  BY IdsAssumption DEF Init, TypeOK, Device
<1>2. tx.phase # "open"
  BY DEF Init, Free
<1>3. /\ RecordsMatchSnapshots
      /\ PushRowsAscend
      /\ DeviceOwnership
  BY DEF Init, RecordsMatchSnapshots, PushRowsAscend, DeviceOwnership
<1>. QED
  BY <1>1, <1>2, <1>3 DEF IInv, TxSound

LEMMA TypeInductive == ASSUME IInv, [Next]_vars PROVE TypeOK'
<1>. USE DEF IInv
<1>1. ASSUME NEW u \in Users, NEW d \in Devices, NEW batch \in Batches,
             PushBegin(u, d, batch)
      PROVE  TypeOK'
  <2>1. PICK m \in KnownVersions, latest \in preloadLatestSnapshots(u) :
           tx' = [phase |-> "open", user |-> u, device |-> d,
                  batch |-> Truncated(batch), todo |-> Truncated(batch),
                  maxVer |-> m, latest |-> latest,
                  records |-> <<>>, snapshots |-> <<>>]
    BY <1>1 DEF PushBegin
  <2>2. m \in Nat
    BY KnownVersionsType
  <2>3. latest \in [Notes -> Nat]
    BY LatestType
  <2>4. tx' \in PushTx
    BY <2>1, <2>2, <2>3, TruncatedType DEF PushTx
  <2>. QED
    BY <1>1, <2>4 DEF TypeOK, PushBegin
<1>2. ASSUME PushRecord PROVE TypeOK'
  <2>. DEFINE input == Head(tx.todo)
              at == tx.latest[input.note]
              newVer == AssignedVersion(at)
              payload == StoredPayload(input, at)
              record == [user |-> tx.user, device |-> tx.device,
                         note |-> input.note, version |-> newVer,
                         payload |-> payload]
              snapshot == [user |-> tx.user, note |-> input.note,
                           version |-> newVer, payload |-> payload]
  <2>1. tx \in PushTx /\ tx.phase = "open"
    BY <1>2, OpenTx DEF PushRecord
  <2>2. input \in SyncRecordInput /\ Tail(tx.todo) \in Seq(SyncRecordInput)
    BY <1>2, <2>1 DEF PushRecord, PushTx
  <2>3. input.note \in Notes
    BY <2>2 DEF SyncRecordInput
  <2>4. at # 0 => at \in DOMAIN snapshots
    BY <2>1, <2>3 DEF TxSound, SnapshotsOf
  <2>5. newVer \in Nat /\ payload \in Payloads
    BY <2>1, <2>2, <2>4, RecordValues
  <2>6. record \in SyncRecord /\ snapshot \in NoteSnapshot
    BY <2>1, <2>3, <2>5 DEF PushTx, SyncRecord, NoteSnapshot
  <2>7. tx' = [tx EXCEPT !.todo = Tail(tx.todo), !.maxVer = newVer,
                         !.records = Append(tx.records, record),
                         !.snapshots = Append(tx.snapshots, snapshot)]
    BY <1>2 DEF PushRecord
  <2>8. /\ Append(tx.records, record) \in Seq(SyncRecord)
        /\ Append(tx.snapshots, snapshot) \in Seq(NoteSnapshot)
    BY <2>1, <2>6 DEF PushTx
  <2>. HIDE DEF input, newVer, record, snapshot
  <2>9. tx' \in PushTx
    BY <2>1, <2>2, <2>5, <2>7, <2>8 DEF PushTx
  <2>. QED
    BY <1>2, <2>9 DEF TypeOK, PushRecord
<1>3. ASSUME PushCommit PROVE TypeOK'
  <2>1. tx \in PushTx
    BY <1>3, OpenTx DEF PushCommit
  <2>2. records' \in Seq(SyncRecord) /\ snapshots' \in Seq(NoteSnapshot)
    BY <1>3, <2>1 DEF PushCommit, PushTx, TypeOK
  <2>3. devices' \in [Devices -> Device]
    BY <1>3, <2>1 DEF PushCommit, PushTx, TypeOK, updateDeviceSync, Device
  <2>. QED
    BY <1>3, <2>2, <2>3 DEF PushCommit, TypeOK
<1>4. ASSUME PushRollback PROVE TypeOK'
  BY <1>4 DEF PushRollback, TypeOK
<1>5. ASSUME NEW u \in Users, NEW d \in Devices, NEW since \in KnownVersions,
             PullSelect(u, d, since)
      PROVE  TypeOK'
  <2>1. PICK page \in Pages(u, since, PullLimit) :
           pulls' = [pulls EXCEPT ![d] =
                       [phase |-> "selected", user |-> u, since |-> since,
                        page |-> page, latestVer |-> 0,
                        hasMore |-> Cardinality(RowsAfter(u, since)) > PullLimit]]
    BY <1>5 DEF PullSelect
  <2>2. page \in SUBSET Nat
    BY DEF Pages, RowsAfter, RowsOf, TypeOK
  <2>3. since \in Nat
    BY KnownVersionsType
  <2>4. (Cardinality(RowsAfter(u, since)) > PullLimit) \in BOOLEAN
    OBVIOUS
  <2>. DEFINE more == Cardinality(RowsAfter(u, since)) > PullLimit
              call == [phase |-> "selected", user |-> u, since |-> since,
                       page |-> page, latestVer |-> 0, hasMore |-> more]
  <2>. HIDE DEF more
  <2>5. more \in BOOLEAN
    BY <2>4 DEF more
  <2>6. call \in PullCall
    BY <2>2, <2>3, <2>5 DEF PullCall
  <2>7. pulls' = [pulls EXCEPT ![d] = call]
    BY <2>1 DEF more
  <2>. HIDE DEF call
  <2>. QED
    BY <1>5, <2>6, <2>7 DEF TypeOK, PullSelect
<1>6. ASSUME NEW d \in Devices, PullMax(d) PROVE TypeOK'
  <2>1. pulls[d] \in PullCall
    BY <1>6 DEF PullMax, TypeOK, NoPull
  <2>2. PICK m \in KnownVersions :
           pulls' = [pulls EXCEPT ![d].phase = "counted", ![d].latestVer = m]
    BY <1>6 DEF PullMax
  <2>3. m \in Nat
    BY KnownVersionsType
  <2>4. [pulls[d] EXCEPT !.phase = "counted", !.latestVer = m] \in PullCall
    BY <2>1, <2>3 DEF PullCall
  <2>. QED
    BY <1>6, <2>2, <2>4 DEF TypeOK, PullMax
<1>7. ASSUME NEW d \in Devices, PullUpdateDevice(d) PROVE TypeOK'
  <2>1. pulls[d] \in PullCall
    BY <1>7 DEF PullUpdateDevice, TypeOK, NoPull
  <2>2. [pulls[d] EXCEPT !.phase = "answered"] \in PullCall
    BY <2>1 DEF PullCall
  <2>3. pulls' \in [Devices -> {NoPull} \cup PullCall]
    BY <1>7, <2>2 DEF PullUpdateDevice, TypeOK
  <2>4. devices' \in [Devices -> Device]
    BY <1>7, <2>1
       DEF PullUpdateDevice, TypeOK, PullCall, updateDeviceSync, Device
  <2>. QED
    BY <1>7, <2>3, <2>4 DEF PullUpdateDevice, TypeOK
<1>8. ASSUME NEW d \in Devices, PullFail(d) PROVE TypeOK'
  BY <1>8 DEF PullFail, TypeOK
<1>9. ASSUME NEW d \in Devices, PullReturn(d) PROVE TypeOK'
  BY <1>9 DEF PullReturn, TypeOK
<1>10. ASSUME NEW u \in Users, NEW n \in Notes, NEW ver \in ResolveVersions,
              NEW data \in Payloads, ResolveConflict(u, n, ver, data)
       PROVE  TypeOK'
  <2>1. ver + 1 \in Nat
    BY VersionsAssumption
  <2>2. /\ [user |-> u, note |-> n, version |-> ver + 1, payload |-> data]
              \in NoteSnapshot
        /\ [user |-> u, device |-> NoDevice, note |-> n, version |-> ver + 1,
            payload |-> data] \in SyncRecord
    BY <2>1 DEF NoteSnapshot, SyncRecord
  <2>. QED
    BY <1>10, <2>2 DEF ResolveConflict, TypeOK
<1>11. ASSUME Restart PROVE TypeOK'
  BY <1>11 DEF Restart, TypeOK
<1>12. ASSUME UNCHANGED vars PROVE TypeOK'
  BY <1>12 DEF vars, TypeOK
<1>. QED
  BY NextCases, <1>1, <1>2, <1>3, <1>4, <1>5, <1>6, <1>7, <1>8, <1>9, <1>10,
     <1>11, <1>12

\* Only a commit or a conflict resolution writes the tables, both while no
\* transaction is left open by the step.
LEMMA TablesChange ==
    ASSUME [Next]_vars
    PROVE  \/ UNCHANGED <<records, snapshots>>
           \/ PushCommit
           \/ \E u \in Users, n \in Notes, ver \in ResolveVersions,
                 data \in Payloads : ResolveConflict(u, n, ver, data)
<1>1. ASSUME Next
      PROVE  \/ UNCHANGED <<records, snapshots>>
             \/ PushCommit
             \/ \E u \in Users, n \in Notes, ver \in ResolveVersions,
                   data \in Payloads : ResolveConflict(u, n, ver, data)
  BY <1>1, NextCases
     DEF PushBegin, PushRecord, PushRollback, PullSelect, PullMax,
         PullUpdateDevice, PullFail, PullReturn, Restart
<1>. QED
  BY <1>1 DEF vars

\* The rows a commit appends, one by one.
LEMMA CommittedRows ==
    ASSUME IInv, PushCommit
    PROVE  /\ tx \in PushTx
           /\ Len(records') = Len(records) + Len(tx.records)
           /\ Len(snapshots') = Len(snapshots) + Len(tx.snapshots)
           /\ \A i \in DOMAIN records : records'[i] = records[i]
           /\ \A i \in DOMAIN snapshots : snapshots'[i] = snapshots[i]
           /\ \A i \in DOMAIN records' \ DOMAIN records :
                 /\ i - Len(records) \in DOMAIN tx.records
                 /\ records'[i] = tx.records[i - Len(records)]
           /\ \A i \in DOMAIN snapshots' \ DOMAIN snapshots :
                 /\ i - Len(snapshots) \in DOMAIN tx.snapshots
                 /\ snapshots'[i] = tx.snapshots[i - Len(snapshots)]
<1>1. tx \in PushTx
  BY OpenTx DEF IInv, PushCommit
<1>2. /\ records \in Seq(SyncRecord) /\ tx.records \in Seq(SyncRecord)
      /\ snapshots \in Seq(NoteSnapshot) /\ tx.snapshots \in Seq(NoteSnapshot)
  BY <1>1 DEF IInv, TypeOK, PushTx
<1>3. records' = records \o tx.records /\ snapshots' = snapshots \o tx.snapshots
  BY DEF PushCommit
<1>. QED
  BY <1>1, <1>2, <1>3

\* The rows of a resolution.
LEMMA ResolvedRows ==
    ASSUME IInv, NEW u \in Users, NEW n \in Notes, NEW ver \in ResolveVersions,
           NEW data \in Payloads, ResolveConflict(u, n, ver, data)
    PROVE  /\ Len(records') = Len(records) + 1
           /\ Len(snapshots') = Len(snapshots) + 1
           /\ \A i \in DOMAIN records : records'[i] = records[i]
           /\ \A i \in DOMAIN snapshots : snapshots'[i] = snapshots[i]
           /\ records'[Len(records) + 1].device = NoDevice
           /\ snapshots'[Len(snapshots) + 1]
                = SnapshotOf(records'[Len(records) + 1])
BY DEF IInv, TypeOK, ResolveConflict, SnapshotOf

\* While a transaction is open nobody else writes, so what it read stays true;
\* each record it handles goes above all rows before it.
LEMMA TxInductive == ASSUME IInv, [Next]_vars PROVE TxSound'
<1>1. SUFFICES ASSUME tx'.phase = "open" PROVE TxSound'
  BY DEF TxSound
<1>2. ASSUME NEW u \in Users, NEW d \in Devices, NEW batch \in Batches,
             PushBegin(u, d, batch)
      PROVE  TxSound'
  <2>1. PICK m \in KnownVersions, latest \in preloadLatestSnapshots(u) :
           /\ IsMaxVersion(u, m)
           /\ tx' = [phase |-> "open", user |-> u, device |-> d,
                     batch |-> Truncated(batch), todo |-> Truncated(batch),
                     maxVer |-> m, latest |-> latest,
                     records |-> <<>>, snapshots |-> <<>>]
    BY <1>2 DEF PushBegin
  <2>2. \A n \in Notes : latest[n] # 0 => latest[n] \in SnapshotsOf(u, n)
    BY LatestType DEF IInv
  <2>. QED
    BY <1>2, <2>1, <2>2
       DEF PushBegin, TxSound, IsMaxVersion, RowsOf, SnapshotsOf
<1>3. ASSUME PushRecord PROVE TxSound'
  <2>. DEFINE input == Head(tx.todo)
              at == tx.latest[input.note]
              newVer == AssignedVersion(at)
              payload == StoredPayload(input, at)
              record == [user |-> tx.user, device |-> tx.device,
                         note |-> input.note, version |-> newVer,
                         payload |-> payload]
              snapshot == [user |-> tx.user, note |-> input.note,
                           version |-> newVer, payload |-> payload]
  <2>1. tx \in PushTx /\ tx.phase = "open"
    BY <1>3, OpenTx DEF PushRecord, IInv
  <2>2. input \in SyncRecordInput
    BY <1>3, <2>1 DEF PushRecord, PushTx
  <2>3. input.note \in Notes
    BY <2>2 DEF SyncRecordInput
  <2>4. at # 0 => at \in DOMAIN snapshots
    BY <2>1, <2>3 DEF TxSound, SnapshotsOf, IInv
  <2>5. newVer \in Nat /\ newVer > tx.maxVer
    BY <2>1, <2>2, <2>4, RecordValues DEF IInv
  <2>6. tx' = [tx EXCEPT !.todo = Tail(tx.todo), !.maxVer = newVer,
                         !.records = Append(tx.records, record),
                         !.snapshots = Append(tx.snapshots, snapshot)]
    BY <1>3 DEF PushRecord
  <2>7. snapshot = SnapshotOf(record)
    BY DEF SnapshotOf
  <2>8. record.user = tx.user /\ record.device = tx.device /\ record.version = newVer
    OBVIOUS
  <2>. HIDE DEF input, newVer, payload, record, snapshot
  <2>9. /\ tx'.user = tx.user /\ tx'.device = tx.device
        /\ tx'.latest = tx.latest /\ tx'.maxVer = newVer
        /\ tx'.records = Append(tx.records, record)
        /\ tx'.snapshots = Append(tx.snapshots, snapshot)
    BY <2>1, <2>6 DEF PushTx
  <2>10. UNCHANGED <<records, snapshots>>
    BY <1>3 DEF PushRecord
  <2>11. /\ tx.records \in Seq(SyncRecord) /\ tx.snapshots \in Seq(NoteSnapshot)
         /\ tx.maxVer \in Nat
    BY <2>1 DEF PushTx
  <2>12. \A i \in RowsOf(tx.user) : records[i].version \in Nat
    BY RowType DEF IInv, RowsOf
  <2>13. \A k \in DOMAIN tx.records : tx.records[k].version \in Nat
    <3>1. \A k \in DOMAIN tx.records : tx.records[k] \in SyncRecord
      BY <2>11
    <3>. QED
      BY <3>1 DEF SyncRecord
  <2>14. RowsOf(tx.user)' = RowsOf(tx.user)
    BY <2>9, <2>10 DEF RowsOf
  <2>15. \A i \in RowsOf(tx.user) : records[i].version < newVer
    BY <2>1, <2>5, <2>11, <2>12 DEF TxSound, IInv
  <2>16. ASSUME NEW k \in DOMAIN tx'.records
         PROVE  /\ tx'.records[k].user = tx.user
                /\ tx'.records[k].device = tx.device
                /\ tx'.snapshots[k] = SnapshotOf(tx'.records[k])
                /\ tx'.records[k].version <= newVer
                /\ \A i \in RowsOf(tx.user) :
                      records[i].version < tx'.records[k].version
                /\ \A l \in 1..(k - 1) :
                      tx'.records[l].version < tx'.records[k].version
    <3>1. CASE k \in DOMAIN tx.records
      <4>1. /\ tx'.records[k] = tx.records[k]
            /\ tx'.snapshots[k] = tx.snapshots[k]
            /\ \A l \in 1..(k - 1) : tx'.records[l] = tx.records[l]
        BY <2>1, <2>9, <2>11, <3>1 DEF TxSound, IInv
      <4>2. /\ tx.records[k].version \in Nat
            /\ tx.records[k].version <= tx.maxVer
        BY <2>1, <2>13, <3>1 DEF TxSound, IInv
      <4>3. tx.records[k].version <= newVer
        BY <4>2, <2>5, <2>11
      <4>. QED
        BY <2>1, <3>1, <4>1, <4>3 DEF TxSound, IInv
    <3>2. CASE k \notin DOMAIN tx.records
      <4>1. /\ k = Len(tx.records) + 1
            /\ tx'.records[k] = record
            /\ \A l \in 1..(k - 1) :
                  l \in DOMAIN tx.records /\ tx'.records[l] = tx.records[l]
        BY <2>9, <2>11, <3>2
      <4>2. tx'.snapshots[k] = snapshot
        BY <2>1, <2>9, <2>11, <4>1 DEF TxSound, IInv
      <4>3. \A l \in 1..(k - 1) : tx.records[l].version <= tx.maxVer
        BY <2>1, <4>1 DEF TxSound, IInv
      <4>4. \A l \in 1..(k - 1) : tx.records[l].version < newVer
        BY <2>5, <2>11, <2>13, <4>1, <4>3
      <4>. QED
        BY <2>5, <2>7, <2>8, <2>15, <4>1, <4>2, <4>4
    <3>. QED
      BY <3>1, <3>2
  <2>17. \A i \in RowsOf(tx.user) : records[i].version <= newVer
    BY <2>5, <2>12, <2>15
  <2>18. Len(tx'.records) = Len(tx'.snapshots)
    BY <2>1, <2>9, <2>11 DEF TxSound, IInv
  <2>19. \A n \in Notes :
            tx.latest[n] # 0 => tx.latest[n] \in SnapshotsOf(tx.user, n)'
    BY <2>1, <2>9, <2>10 DEF TxSound, IInv, SnapshotsOf
  <2>. QED
    BY <2>9, <2>10, <2>14, <2>16, <2>17, <2>18, <2>19 DEF TxSound
<1>4. ASSUME UNCHANGED <<records, snapshots, tx>> PROVE TxSound'
  BY <1>1, <1>4 DEF IInv, TxSound, RowsOf, SnapshotsOf
<1>5. ASSUME tx' = Free PROVE TxSound'
  BY <1>1, <1>5 DEF Free
<1>6. ASSUME tx = Free, UNCHANGED tx PROVE TxSound'
  BY <1>1, <1>6 DEF Free
<1>. QED
  BY NextCases, <1>2, <1>3, <1>4, <1>5, <1>6
     DEF vars, PushCommit, PushRollback, PullSelect, PullMax,
         PullUpdateDevice, PullFail, PullReturn, ResolveConflict, Restart

\* Both tables grow by the same rows.
LEMMA MatchInductive == ASSUME IInv, [Next]_vars PROVE RecordsMatchSnapshots'
<1>1. CASE UNCHANGED <<records, snapshots>>
  BY <1>1 DEF IInv, RecordsMatchSnapshots
<1>2. CASE PushCommit
  <2>1. /\ Len(records) = Len(snapshots)
        /\ Len(tx.records) = Len(tx.snapshots)
        /\ \A k \in DOMAIN tx.records :
              tx.snapshots[k] = SnapshotOf(tx.records[k])
    BY <1>2 DEF IInv, PushCommit, TxSound, RecordsMatchSnapshots
  <2>2. /\ records \in Seq(SyncRecord) /\ tx.records \in Seq(SyncRecord)
        /\ snapshots \in Seq(NoteSnapshot) /\ tx.snapshots \in Seq(NoteSnapshot)
        /\ records' \in Seq(SyncRecord) /\ snapshots' \in Seq(NoteSnapshot)
    BY <1>2, CommittedRows, TypeInductive DEF IInv, TypeOK, PushTx
  <2>3. Len(records') = Len(snapshots')
    BY <1>2, <2>1, CommittedRows
  <2>4. ASSUME NEW i \in DOMAIN records'
        PROVE  snapshots'[i] = SnapshotOf(records'[i])
    <3>1. CASE i \in DOMAIN records
      <4>1. i \in DOMAIN snapshots
        BY <2>1, <2>2, <3>1
      <4>. QED
        BY <1>2, <3>1, <4>1, CommittedRows DEF IInv, RecordsMatchSnapshots
    <3>2. CASE i \notin DOMAIN records
      <4>1. i \in DOMAIN snapshots' /\ i \notin DOMAIN snapshots
        BY <2>1, <2>2, <2>3, <3>2
      <4>. QED
        BY <1>2, <2>1, <3>2, <4>1, CommittedRows
    <3>. QED
      BY <3>1, <3>2
  <2>. QED
    BY <2>3, <2>4 DEF RecordsMatchSnapshots, SnapshotOf
<1>3. ASSUME NEW u \in Users, NEW n \in Notes, NEW ver \in ResolveVersions,
             NEW data \in Payloads, ResolveConflict(u, n, ver, data)
      PROVE  RecordsMatchSnapshots'
  <2>1. /\ records \in Seq(SyncRecord) /\ snapshots \in Seq(NoteSnapshot)
        /\ records' \in Seq(SyncRecord) /\ snapshots' \in Seq(NoteSnapshot)
    BY TypeInductive DEF IInv, TypeOK
  <2>2. Len(records) = Len(snapshots)
    BY DEF IInv, RecordsMatchSnapshots
  <2>3. ASSUME NEW i \in DOMAIN records'
        PROVE  snapshots'[i] = SnapshotOf(records'[i])
    <3>1. CASE i \in DOMAIN records
      <4>1. i \in DOMAIN snapshots
        BY <2>1, <2>2, <3>1
      <4>. QED
        BY <1>3, <3>1, <4>1, ResolvedRows DEF IInv, RecordsMatchSnapshots
    <3>2. CASE i \notin DOMAIN records
      <4>1. i = Len(records) + 1
        BY <1>3, <2>1, <3>2, ResolvedRows
      <4>. QED
        BY <1>3, <2>2, <4>1, ResolvedRows
    <3>. QED
      BY <3>1, <3>2
  <2>. QED
    BY <1>3, <2>2, <2>3, ResolvedRows DEF RecordsMatchSnapshots, SnapshotOf
<1>. QED
  BY TablesChange, <1>1, <1>2, <1>3

\* A commit's rows are above all the rows of their user; a resolution's row is
\* not a pushed one.
LEMMA AscendInductive == ASSUME IInv, [Next]_vars PROVE PushRowsAscend'
<1>1. CASE UNCHANGED <<records, snapshots>>
  BY <1>1 DEF IInv, PushRowsAscend
<1>2. ASSUME \/ PushCommit
             \/ \E u \in Users, n \in Notes, ver \in ResolveVersions,
                   data \in Payloads : ResolveConflict(u, n, ver, data),
             NEW i \in DOMAIN records', NEW j \in DOMAIN records',
             i < j, records'[i].user = records'[j].user,
             records'[j].device # NoDevice
      PROVE  records'[i].version < records'[j].version
  <2>1. /\ records \in Seq(SyncRecord) /\ records' \in Seq(SyncRecord)
        /\ Len(records) <= Len(records')
        /\ \A k \in DOMAIN records : records'[k] = records[k]
    BY <1>2, TypeInductive, CommittedRows, ResolvedRows DEF IInv, TypeOK, PushTx
  <2>2. CASE j \in DOMAIN records
    <3>1. i \in DOMAIN records
      BY <1>2, <2>1, <2>2
    <3>. QED
      BY <1>2, <2>1, <2>2, <3>1 DEF IInv, PushRowsAscend
  <2>3. CASE j \notin DOMAIN records
    <3>1. PushCommit
      <4>1. SUFFICES ASSUME NEW u \in Users, NEW n \in Notes,
                            NEW ver \in ResolveVersions, NEW data \in Payloads,
                            ResolveConflict(u, n, ver, data)
                     PROVE  FALSE
        BY <1>2
      <4>2. j = Len(records) + 1
        BY <2>1, <2>3, <4>1, ResolvedRows
      <4>. QED
        BY <1>2, <4>1, <4>2, ResolvedRows
    <3>. DEFINE k == j - Len(records)
    <3>2. k \in DOMAIN tx.records /\ records'[j] = tx.records[k]
      BY <2>3, <3>1, CommittedRows
    <3>3. tx.records[k].user = tx.user
      BY <3>1, <3>2 DEF IInv, TxSound, PushCommit
    <3>4. CASE i \in DOMAIN records
      <4>1. i \in RowsOf(tx.user)
        BY <1>2, <2>1, <3>2, <3>3, <3>4 DEF RowsOf
      <4>. QED
        BY <2>1, <3>1, <3>2, <3>4, <4>1 DEF IInv, TxSound, PushCommit
    <3>5. CASE i \notin DOMAIN records
      <4>1. /\ i - Len(records) \in DOMAIN tx.records
            /\ records'[i] = tx.records[i - Len(records)]
        BY <3>1, <3>5, CommittedRows
      <4>2. i - Len(records) \in 1..(k - 1)
        BY <1>2, <2>1, <3>5
      <4>. QED
        BY <3>1, <3>2, <4>1, <4>2 DEF IInv, TxSound, PushCommit
    <3>. QED
      BY <3>4, <3>5
  <2>. QED
    BY <2>2, <2>3
<1>. QED
  BY TablesChange, <1>1, <1>2 DEF PushRowsAscend

\* A device row is written only for a user who owns it or finds it free, so the
\* owner of an id never changes, and new rows carry the owner's id.
LEMMA OwnershipInductive == ASSUME IInv, [Next]_vars PROVE DeviceOwnership'
<1>1. ASSUME UNCHANGED <<records, devices>> PROVE DeviceOwnership'
  BY <1>1 DEF IInv, DeviceOwnership
<1>2. ASSUME PushCommit PROVE DeviceOwnership'
  <2>1. /\ tx \in PushTx /\ tx.phase = "open"
        /\ CanUpdateDevice(tx.user, tx.device)
        /\ devices' = [devices EXCEPT ![tx.device] =
                         [owner |-> tx.user, lastSyncVer |-> tx.maxVer]]
    BY <1>2, CommittedRows DEF PushCommit, updateDeviceSync
  <2>2. tx.user \in Users /\ tx.device \in Devices
    BY <2>1 DEF PushTx
  <2>3. devices \in [Devices -> Device]
    BY DEF IInv, TypeOK
  <2>4. devices'[tx.device].owner = tx.user
    BY <2>1, <2>2, <2>3
  <2>5. ASSUME NEW i \in DOMAIN records', records'[i].device # NoDevice
        PROVE  devices'[records'[i].device].owner = records'[i].user
    <3>1. CASE i \in DOMAIN records
      <4>1. /\ records'[i] = records[i]
            /\ records[i].device \in Devices
            /\ records[i].user \in Users
        BY <1>2, <2>5, <3>1, CommittedRows, RowType DEF IInv
      <4>2. devices[records[i].device].owner = records[i].user
        BY <2>5, <3>1, <4>1 DEF IInv, DeviceOwnership
      <4>3. CASE records[i].device = tx.device
        BY <2>1, <2>4, <4>1, <4>2, <4>3, IdsAssumption DEF CanUpdateDevice
      <4>4. CASE records[i].device # tx.device
        BY <2>1, <2>3, <4>1, <4>2, <4>4
      <4>. QED
        BY <4>3, <4>4
    <3>2. CASE i \notin DOMAIN records
      <4>1. /\ i - Len(records) \in DOMAIN tx.records
            /\ records'[i] = tx.records[i - Len(records)]
        BY <1>2, <3>2, CommittedRows
      <4>2. records'[i].user = tx.user /\ records'[i].device = tx.device
        BY <2>1, <4>1 DEF IInv, TxSound
      <4>. QED
        BY <2>4, <4>2
    <3>. QED
      BY <3>1, <3>2
  <2>. QED
    BY <2>5 DEF DeviceOwnership
<1>3. ASSUME NEW d \in Devices, PullUpdateDevice(d) PROVE DeviceOwnership'
  <2>1. pulls[d] \in PullCall
    BY <1>3 DEF PullUpdateDevice, IInv, TypeOK, NoPull
  <2>2. pulls[d].user \in Users
    BY <2>1 DEF PullCall
  <2>3. /\ CanUpdateDevice(pulls[d].user, d)
        /\ devices' = [devices EXCEPT ![d] =
              [owner |-> pulls[d].user, lastSyncVer |-> pulls[d].latestVer]]
        /\ UNCHANGED records
    BY <1>3 DEF PullUpdateDevice, updateDeviceSync
  <2>4. devices \in [Devices -> Device]
    BY DEF IInv, TypeOK
  <2>5. ASSUME NEW i \in DOMAIN records, records[i].device # NoDevice
        PROVE  devices'[records[i].device].owner = records[i].user
    <3>1. records[i].device \in Devices /\ records[i].user \in Users
      BY <2>5, RowType DEF IInv
    <3>2. devices[records[i].device].owner = records[i].user
      BY <2>5 DEF IInv, DeviceOwnership
    <3>3. CASE records[i].device = d
      BY <2>3, <2>4, <3>1, <3>2, <3>3, IdsAssumption DEF CanUpdateDevice
    <3>4. CASE records[i].device # d
      BY <2>3, <2>4, <3>1, <3>2, <3>4
    <3>. QED
      BY <3>3, <3>4
  <2>. QED
    BY <2>3, <2>5 DEF DeviceOwnership
<1>4. ASSUME NEW u \in Users, NEW n \in Notes, NEW ver \in ResolveVersions,
             NEW data \in Payloads, ResolveConflict(u, n, ver, data)
      PROVE  DeviceOwnership'
  <2>1. /\ Len(records') = Len(records) + 1
        /\ \A i \in DOMAIN records : records'[i] = records[i]
        /\ records'[Len(records) + 1].device = NoDevice
        /\ UNCHANGED devices
    BY <1>4, ResolvedRows DEF ResolveConflict
  <2>2. records \in Seq(SyncRecord) /\ records' \in Seq(SyncRecord)
    BY TypeInductive DEF IInv, TypeOK
  <2>3. \A i \in DOMAIN records' : i \in DOMAIN records \/ i = Len(records) + 1
    BY <2>1, <2>2
  <2>. QED
    BY <2>1, <2>3 DEF IInv, DeviceOwnership
<1>. QED
  BY NextCases, <1>1, <1>2, <1>3, <1>4
     DEF vars, PushBegin, PushRecord, PushRollback, PullSelect, PullMax,
         PullFail, PullReturn, Restart

-----------------------------------------------------------------------------
(* The theorems *)

THEOREM Invariance == Spec => []IInv
<1>1. Init => IInv
  BY InitInv
<1>2. IInv /\ [Next]_vars => IInv'
  BY TypeInductive, TxInductive, MatchInductive, AscendInductive,
     OwnershipInductive DEF IInv
<1>. QED
  BY <1>1, <1>2, PTL DEF Spec

\* Every reachable state of the tables and handlers is well typed.
THEOREM TypeCorrect == Spec => []TypeOK
BY Invariance, PTL DEF IInv

\* Whatever users push, resolve and fail to commit, note history and sync log
\* hold the same rows: Push and ResolveConflict write both or neither.
THEOREM TablesMatch == Spec => []RecordsMatchSnapshots
BY Invariance, PTL DEF IInv

\* Each pushed row is numbered above everything its user's log held before it.
THEOREM PushesAscend == Spec => []PushRowsAscend
BY Invariance, PTL DEF IInv

\* No user ever writes under a device id another user registered.
THEOREM DevicesOwned == Spec => []DeviceOwnership
BY Invariance, PTL DEF IInv

\* The branch of Push that lifts newVer above latest.Version is never taken.
THEOREM OrderGuardDead == Spec => []OrderGuardIdle
<1>1. IInv => OrderGuardIdle
  <2>1. SUFFICES ASSUME IInv, tx.phase = "open", NEW n \in Notes,
                        tx.latest[n] # 0
                 PROVE  snapshots[tx.latest[n]].version <= tx.maxVer
    BY DEF OrderGuardIdle
  <2>. DEFINE at == tx.latest[n]
  <2>2. /\ at \in DOMAIN snapshots
        /\ snapshots[at].user = tx.user
    BY <2>1 DEF IInv, TxSound, SnapshotsOf
  <2>3. at \in DOMAIN records /\ snapshots[at] = SnapshotOf(records[at])
    BY <2>1, <2>2 DEF IInv, TypeOK, RecordsMatchSnapshots
  <2>4. at \in RowsOf(tx.user) /\ snapshots[at].version = records[at].version
    BY <2>2, <2>3 DEF RowsOf, SnapshotOf
  <2>. QED
    BY <2>1, <2>4 DEF IInv, TxSound
<1>. QED
  BY <1>1, Invariance, PTL

-----------------------------------------------------------------------------
(* Device cursors *)

\* v is 0 or no higher than some row of user u.
Reached(rows, u, v) ==
    v = 0 \/ \E i \in DOMAIN rows : rows[i].user = u /\ v <= rows[i].version

\* The numbers that become cursors: the maximum a Pull has read, and the last
\* number of an open Push, which its own rows may hold.
CursorSound ==
    /\ \A d \in Devices :
          Reached(records, devices[d].owner, devices[d].lastSyncVer)
    /\ \A d \in Devices : pulls[d].phase = "counted" =>
          Reached(records, pulls[d].user, pulls[d].latestVer)
    /\ tx.phase = "open" =>
          \/ Reached(records, tx.user, tx.maxVer)
          \/ \E k \in DOMAIN tx.records : tx.maxVer <= tx.records[k].version

\* Rows are never removed or changed.
LEMMA RowsStay ==
    ASSUME IInv, [Next]_vars
    PROVE  \A i \in DOMAIN records : i \in DOMAIN records' /\ records'[i] = records[i]
<1>1. records \in Seq(SyncRecord) /\ records' \in Seq(SyncRecord)
  BY TypeInductive DEF IInv, TypeOK
<1>2. CASE UNCHANGED <<records, snapshots>>
  BY <1>2
<1>3. CASE PushCommit
  BY <1>1, <1>3, CommittedRows DEF PushTx
<1>4. ASSUME NEW u \in Users, NEW n \in Notes, NEW ver \in ResolveVersions,
             NEW data \in Payloads, ResolveConflict(u, n, ver, data)
      PROVE  \A i \in DOMAIN records :
                i \in DOMAIN records' /\ records'[i] = records[i]
  BY <1>1, <1>4, ResolvedRows
<1>. QED
  BY TablesChange, <1>2, <1>3, <1>4

LEMMA ReachedStays ==
    ASSUME IInv, [Next]_vars
    PROVE  \A u, v : Reached(records, u, v) => Reached(records', u, v)
BY RowsStay DEF Reached

\* A number that an open transaction has given is reached once it commits.
LEMMA CommitReaches ==
    ASSUME IInv, CursorSound, PushCommit
    PROVE  Reached(records', tx.user, tx.maxVer)
<1>1. /\ tx \in PushTx /\ tx.phase = "open"
      /\ records \in Seq(SyncRecord) /\ tx.records \in Seq(SyncRecord)
      /\ records' = records \o tx.records
  BY CommittedRows DEF IInv, TypeOK, PushTx, PushCommit
<1>2. CASE Reached(records, tx.user, tx.maxVer)
  <2>1. [Next]_vars
    BY DEF Next
  <2>. QED
    BY <1>2, <2>1, ReachedStays
<1>3. ASSUME NEW k \in DOMAIN tx.records, tx.maxVer <= tx.records[k].version
      PROVE  Reached(records', tx.user, tx.maxVer)
  <2>. DEFINE i == Len(records) + k
  <2>1. i \in DOMAIN records' /\ records'[i] = tx.records[k]
    BY <1>1
  <2>2. tx.records[k].user = tx.user
    BY <1>1 DEF IInv, TxSound
  <2>. QED
    BY <1>3, <2>1, <2>2 DEF Reached
<1>. QED
  BY <1>1, <1>2, <1>3 DEF CursorSound

LEMMA CursorInductive ==
    ASSUME IInv, CursorSound, [Next]_vars PROVE CursorSound'
<1>1. ASSUME UNCHANGED devices
      PROVE  \A d \in Devices :
                Reached(records', devices'[d].owner, devices'[d].lastSyncVer)
  BY <1>1, ReachedStays DEF CursorSound
<1>2. ASSUME NEW d \in Devices, NEW call, pulls' = [pulls EXCEPT ![d] = call],
             call.phase = "counted" => Reached(records', call.user, call.latestVer)
      PROVE  \A e \in Devices : pulls'[e].phase = "counted" =>
                Reached(records', pulls'[e].user, pulls'[e].latestVer)
  BY <1>2, ReachedStays DEF CursorSound, IInv, TypeOK
<1>3. ASSUME UNCHANGED pulls
      PROVE  \A e \in Devices : pulls'[e].phase = "counted" =>
                Reached(records', pulls'[e].user, pulls'[e].latestVer)
  BY <1>3, ReachedStays DEF CursorSound
<1>4. ASSUME UNCHANGED tx, tx'.phase = "open"
      PROVE  \/ Reached(records', tx'.user, tx'.maxVer)
             \/ \E k \in DOMAIN tx'.records : tx'.maxVer <= tx'.records[k].version
  BY <1>4, ReachedStays DEF CursorSound
<1>5. ASSUME NEW u \in Users, NEW d \in Devices, NEW batch \in Batches,
             PushBegin(u, d, batch)
      PROVE  CursorSound'
  <2>1. PICK m \in KnownVersions : IsMaxVersion(u, m) /\ tx'.user = u /\ tx'.maxVer = m
    BY <1>5 DEF PushBegin
  <2>2. Reached(records, u, m)
    <3>1. m \in Nat
      BY KnownVersionsType DEF IInv
    <3>2. m = 0 \/ \E i \in RowsOf(u) : records[i].version = m
      BY <2>1 DEF IsMaxVersion
    <3>. QED
      BY <3>1, <3>2 DEF Reached, RowsOf
  <2>3. Reached(records', tx'.user, tx'.maxVer)
    BY <1>5, <2>1, <2>2 DEF PushBegin
  <2>. QED
    BY <1>1, <1>3, <1>5, <2>3 DEF PushBegin, CursorSound
<1>6. ASSUME PushRecord PROVE CursorSound'
  <2>1. tx \in PushTx /\ tx.phase = "open"
    BY <1>6, OpenTx DEF PushRecord, IInv
  <2>2. tx'.phase = "open"
    BY <1>6, <2>1 DEF PushRecord, PushTx
  <2>3. tx' \in PushTx
    BY <2>2, TypeInductive DEF TypeOK, Free
  <2>4. PICK record : /\ tx'.records = Append(tx.records, record)
                      /\ tx'.maxVer = record.version
    <3>. DEFINE input == Head(tx.todo)
                at == tx.latest[input.note]
                new == [user |-> tx.user, device |-> tx.device,
                        note |-> input.note, version |-> AssignedVersion(at),
                        payload |-> StoredPayload(input, at)]
    <3>1. /\ tx'.records = Append(tx.records, new)
          /\ tx'.maxVer = new.version
      BY <1>6, <2>1 DEF PushRecord, PushTx
    <3>. QED
      BY <3>1
  <2>. DEFINE k == Len(tx.records) + 1
  <2>5. k \in DOMAIN tx'.records /\ tx'.records[k] = record /\ tx'.maxVer \in Nat
    BY <2>1, <2>3, <2>4 DEF PushTx
  <2>6. \E l \in DOMAIN tx'.records : tx'.maxVer <= tx'.records[l].version
    BY <2>4, <2>5
  <2>. QED
    BY <1>1, <1>3, <1>6, <2>6 DEF PushRecord, CursorSound
<1>7. ASSUME PushCommit PROVE CursorSound'
  <2>1. /\ tx \in PushTx
        /\ devices' = [devices EXCEPT ![tx.device] =
                         [owner |-> tx.user, lastSyncVer |-> tx.maxVer]]
    BY <1>7, CommittedRows DEF PushCommit, updateDeviceSync
  <2>2. \A d \in Devices :
           Reached(records', devices'[d].owner, devices'[d].lastSyncVer)
    BY <1>7, <2>1, CommitReaches, ReachedStays
       DEF CursorSound, IInv, TypeOK, PushTx
  <2>. QED
    BY <1>3, <1>7, <2>2 DEF PushCommit, CursorSound, Free
<1>8. ASSUME PushRollback PROVE CursorSound'
  BY <1>1, <1>3, <1>8 DEF PushRollback, CursorSound, Free
<1>9. ASSUME NEW u \in Users, NEW d \in Devices, NEW since \in KnownVersions,
             PullSelect(u, d, since)
      PROVE  CursorSound'
  <2>. DEFINE more == Cardinality(RowsAfter(u, since)) > PullLimit
              call(page) == [phase |-> "selected", user |-> u, since |-> since,
                             page |-> page, latestVer |-> 0, hasMore |-> more]
  <2>1. PICK page : pulls' = [pulls EXCEPT ![d] = call(page)]
    BY <1>9 DEF PullSelect
  <2>2. call(page).phase = "selected"
    OBVIOUS
  <2>. HIDE DEF call
  <2>. QED
    BY <1>1, <1>2, <1>4, <1>9, <2>1, <2>2 DEF PullSelect, CursorSound
<1>10. ASSUME NEW d \in Devices, PullMax(d) PROVE CursorSound'
  <2>1. PICK m \in KnownVersions :
           /\ IsMaxVersion(pulls[d].user, m)
           /\ pulls' = [pulls EXCEPT ![d].phase = "counted", ![d].latestVer = m]
    BY <1>10 DEF PullMax
  <2>2. pulls[d] \in PullCall
    BY <1>10 DEF PullMax, IInv, TypeOK, NoPull
  <2>3. Reached(records, pulls[d].user, m)
    <3>1. m \in Nat
      BY KnownVersionsType DEF IInv
    <3>2. m = 0 \/ \E i \in RowsOf(pulls[d].user) : records[i].version = m
      BY <2>1 DEF IsMaxVersion
    <3>. QED
      BY <3>1, <3>2 DEF Reached, RowsOf
  <2>. DEFINE call == [pulls[d] EXCEPT !.phase = "counted", !.latestVer = m]
  <2>4. pulls' = [pulls EXCEPT ![d] = call]
    BY <2>1, <2>2 DEF IInv, TypeOK, PullCall
  <2>5. call.user = pulls[d].user /\ call.latestVer = m
    BY <2>2 DEF PullCall
  <2>6. UNCHANGED records
    BY <1>10 DEF PullMax
  <2>. HIDE DEF call
  <2>. QED
    BY <1>1, <1>2, <1>4, <1>10, <2>3, <2>4, <2>5, <2>6 DEF PullMax, CursorSound
<1>11. ASSUME NEW d \in Devices, PullUpdateDevice(d) PROVE CursorSound'
  <2>1. /\ pulls[d].phase = "counted"
        /\ devices' = [devices EXCEPT ![d] =
              [owner |-> pulls[d].user, lastSyncVer |-> pulls[d].latestVer]]
        /\ UNCHANGED records
    BY <1>11 DEF PullUpdateDevice, updateDeviceSync
  <2>2. Reached(records, pulls[d].user, pulls[d].latestVer)
    BY <2>1 DEF CursorSound
  <2>3. \A e \in Devices :
           Reached(records', devices'[e].owner, devices'[e].lastSyncVer)
    BY <2>1, <2>2 DEF CursorSound, IInv, TypeOK
  <2>. DEFINE call == [pulls[d] EXCEPT !.phase = "answered"]
  <2>4. pulls[d] \in PullCall
    BY <1>11 DEF PullUpdateDevice, IInv, TypeOK, NoPull
  <2>5. pulls' = [pulls EXCEPT ![d] = call]
    BY <1>11, <2>4 DEF PullUpdateDevice, IInv, TypeOK, PullCall
  <2>6. call.phase = "answered"
    BY <2>4 DEF PullCall
  <2>. HIDE DEF call
  <2>. QED
    BY <1>2, <1>4, <1>11, <2>3, <2>5, <2>6 DEF PullUpdateDevice, CursorSound
<1>12. ASSUME NEW d \in Devices, PullFail(d) \/ PullReturn(d) PROVE CursorSound'
  <2>1. /\ pulls' = [pulls EXCEPT ![d] = NoPull]
        /\ UNCHANGED <<records, devices, tx>>
    BY <1>12 DEF PullFail, PullReturn
  <2>. QED
    BY <1>1, <1>2, <1>4, <2>1 DEF NoPull, CursorSound
<1>13. ASSUME NEW u \in Users, NEW n \in Notes, NEW ver \in ResolveVersions,
              NEW data \in Payloads, ResolveConflict(u, n, ver, data)
       PROVE  CursorSound'
  BY <1>1, <1>3, <1>4, <1>13 DEF ResolveConflict, CursorSound
<1>14. ASSUME Restart PROVE CursorSound'
  BY <1>1, <1>14 DEF Restart, CursorSound, Free, NoPull
<1>15. ASSUME UNCHANGED vars PROVE CursorSound'
  BY <1>1, <1>3, <1>4, <1>15 DEF vars, CursorSound
<1>. QED
  BY NextCases, <1>5, <1>6, <1>7, <1>8, <1>9, <1>10, <1>11, <1>12, <1>13,
     <1>14, <1>15

\* last_sync_ver of a device never runs ahead of its owner's log, although Push
\* and Pull take the number in one statement and store it in a later one.
THEOREM CursorsWithinLog == Spec => []CursorWithinLog
<1>1. Init => CursorSound
  <2>1. SUFFICES ASSUME Init PROVE CursorSound
    OBVIOUS
  <2>. QED
    BY <2>1 DEF Init, CursorSound, Reached, Free, NoPull
<1>2. IInv /\ CursorSound /\ [Next]_vars => CursorSound'
  BY CursorInductive
<1>3. CursorSound => CursorWithinLog
  BY DEF CursorSound, CursorWithinLog, Reached, RowsOf
<1>. QED
  BY <1>1, <1>2, <1>3, Invariance, PTL DEF Spec

\* Device ids stay with the user who registered them, and no device has a cursor
\* beyond the log of that user, for any numbers of users, devices and notes.
THEOREM DevicesStaySound == Spec => []DevicesSound
<1>1. DeviceOwnership /\ CursorWithinLog => DevicesSound
  BY DEF DevicesSound
<1>. QED
  BY <1>1, DevicesOwned, CursorsWithinLog, PTL

-----------------------------------------------------------------------------
(* SyncServer implements VersionFeed as long as no client resolves a       *)
(* conflict: a resolution claims its own version, which may lie below a    *)
(* page already given out.                                                 *)

\* Every row was pushed by a device.
AllPushed == \A i \in DOMAIN records : records[i].device # NoDevice

FInv == IInv /\ AllPushed

LEMMA AllPushedInductive ==
    ASSUME ResolveVersions = {}, FInv, [Next]_vars PROVE AllPushed'
<1>1. CASE UNCHANGED <<records, snapshots>>
  BY <1>1 DEF FInv, AllPushed
<1>2. CASE PushCommit
  <2>1. ASSUME NEW i \in DOMAIN records' PROVE records'[i].device # NoDevice
    <3>1. CASE i \in DOMAIN records
      BY <1>2, <3>1, CommittedRows DEF FInv, AllPushed
    <3>2. CASE i \notin DOMAIN records
      <4>1. /\ i - Len(records) \in DOMAIN tx.records
            /\ records'[i] = tx.records[i - Len(records)]
            /\ tx \in PushTx
        BY <1>2, <3>2, CommittedRows DEF FInv
      <4>2. records'[i].device = tx.device
        BY <1>2, <4>1 DEF FInv, IInv, TxSound, PushCommit
      <4>3. tx.device \in Devices
        BY <4>1 DEF PushTx
      <4>. QED
        BY <4>2, <4>3, IdsAssumption
    <3>. QED
      BY <3>1, <3>2
  <2>. QED
    BY <2>1 DEF AllPushed
<1>. QED
  BY TablesChange, <1>1, <1>2

THEOREM FeedInvariance == ASSUME ResolveVersions = {} PROVE Spec => []FInv
<1>1. Init => FInv
  BY InitInv DEF FInv, AllPushed, Init
<1>2. FInv /\ [Next]_vars => FInv'
  BY TypeInductive, TxInductive, MatchInductive, AscendInductive,
     OwnershipInductive, AllPushedInductive DEF FInv, IInv
<1>. QED
  BY <1>1, <1>2, PTL DEF Spec

-----------------------------------------------------------------------------
(* The refinement, step by step *)

\* Versions are distinct, so ORDER BY version LIMIT leaves no tie open.
LEMMA PageOfFeed ==
    ASSUME FInv, NEW u \in Users, NEW since \in Nat,
           NEW page \in Pages(u, since, PullLimit)
    PROVE  Feed!IsPage(page, u, since)
<1>1. Feed!After(u, since) = RowsAfter(u, since)
  BY DEF Feed!After, RowsAfter, RowsOf
<1>2. /\ page \subseteq RowsAfter(u, since)
      /\ \A i \in page, j \in RowsAfter(u, since) \ page :
            records[i].version <= records[j].version
  BY DEF Pages
<1>3. ASSUME NEW i \in page, NEW j \in RowsAfter(u, since) \ page
      PROVE  records[i].version < records[j].version
  <2>1. /\ i \in DOMAIN records /\ j \in DOMAIN records /\ i # j
        /\ records[i].user = records[j].user
    BY <1>2, <1>3 DEF RowsAfter, RowsOf
  <2>2. /\ i \in Nat /\ j \in Nat
        /\ records[i].version \in Nat /\ records[j].version \in Nat
    BY <2>1, RowType DEF FInv, IInv, TypeOK
  <2>3. records[i].version # records[j].version
    BY <2>1, <2>2 DEF FInv, IInv, AllPushed, PushRowsAscend
  <2>. QED
    BY <1>2, <2>2, <2>3
<1>. QED
  BY <1>1, <1>2, <1>3 DEF Feed!IsPage

\* A commit publishes its rows, or shows nothing when it has none.
LEMMA CommitPublishes ==
    ASSUME FInv, PushCommit, TypeOK'
    PROVE  Feed!Publish(tx.user) \/ UNCHANGED <<records, pulls>>
<1>. USE DEF FInv
<1>1. /\ tx \in PushTx /\ tx.records \in Seq(SyncRecord)
      /\ records \in Seq(SyncRecord) /\ records' \in Seq(SyncRecord)
      /\ UNCHANGED pulls
  BY CommittedRows DEF PushTx, IInv, TypeOK, PushCommit
<1>2. CASE tx.records = <<>>
  <2>1. records' = records
    BY <1>1, <1>2 DEF PushCommit
  <2>. QED
    BY <1>1, <2>1
<1>3. CASE tx.records # <<>>
  <2>1. Len(records') > Len(records)
    BY <1>1, <1>3, CommittedRows
  <2>2. ASSUME NEW j \in DOMAIN records' \ DOMAIN records
        PROVE  /\ records'[j].user = tx.user
               /\ \A i \in 1..(j - 1) :
                     records'[i].user = tx.user =>
                        records'[i].version < records'[j].version
    <3>. DEFINE k == j - Len(records)
    <3>1. k \in DOMAIN tx.records /\ records'[j] = tx.records[k]
      BY CommittedRows
    <3>2. /\ tx.records[k].user = tx.user
          /\ \A i \in RowsOf(tx.user) :
                records[i].version < tx.records[k].version
          /\ \A l \in 1..(k - 1) :
                tx.records[l].version < tx.records[k].version
      BY <3>1 DEF IInv, TxSound, PushCommit
    <3>3. ASSUME NEW i \in 1..(j - 1), records'[i].user = tx.user
          PROVE  records'[i].version < records'[j].version
      <4>1. CASE i \in DOMAIN records
        BY <3>1, <3>2, <3>3, <4>1, CommittedRows DEF RowsOf
      <4>2. CASE i \notin DOMAIN records
        <5>1. i \in DOMAIN records' \ DOMAIN records /\ i - Len(records) \in 1..(k - 1)
          BY <1>1, <3>3, <4>2
        <5>2. records'[i] = tx.records[i - Len(records)]
          BY <5>1, CommittedRows
        <5>. QED
          BY <3>1, <3>2, <5>1, <5>2
      <4>. QED
        BY <4>1, <4>2
    <3>. QED
      BY <3>1, <3>2, <3>3
  <2>3. \A i \in DOMAIN records : records'[i] = records[i]
    BY CommittedRows
  <2>. QED
    BY <1>1, <2>1, <2>2, <2>3 DEF Feed!Publish, ReadOf
<1>. QED
  BY <1>2, <1>3

\* A row of handlers, seen as reads.
LEMMA ReadsChange ==
    ASSUME TypeOK, NEW d \in Devices, NEW call,
           pulls' = [pulls EXCEPT ![d] = call]
    PROVE  [e \in Devices |-> ReadOf(pulls[e])]'
             = [[e \in Devices |-> ReadOf(pulls[e])] EXCEPT ![d] = ReadOf(call)]
BY DEF TypeOK

\* The answer to the first statement of a Pull is a read of the feed.
LEMMA SelectReads ==
    ASSUME FInv, NEW u \in Users, NEW d \in Devices, NEW since \in KnownVersions,
           PullSelect(u, d, since)
    PROVE  Feed!FeedNext
<1>1. PICK page \in Pages(u, since, PullLimit) :
         pulls' = [pulls EXCEPT ![d] =
                     [phase |-> "selected", user |-> u, since |-> since,
                      page |-> page, latestVer |-> 0,
                      hasMore |-> Cardinality(RowsAfter(u, since)) > PullLimit]]
  BY DEF PullSelect
<1>. DEFINE more == Cardinality(RowsAfter(u, since)) > PullLimit
            call == [phase |-> "selected", user |-> u, since |-> since,
                     page |-> page, latestVer |-> 0, hasMore |-> more]
            read == [user |-> u, since |-> since, page |-> page]
            reads == [e \in Devices |-> ReadOf(pulls[e])]
<1>2. since \in Nat
  BY KnownVersionsType DEF FInv, IInv
<1>3. Feed!IsPage(page, u, since)
  BY <1>2, PageOfFeed
<1>4. call # NoPull
  <2>1. call.phase = "selected"
    OBVIOUS
  <2>. QED
    BY <2>1 DEF NoPull
<1>5. ReadOf(call) = read
  BY <1>4 DEF ReadOf
<1>6. reads' = [reads EXCEPT ![d] = read]
  BY <1>1, <1>5, ReadsChange DEF FInv, IInv
<1>7. reads'[d] = read
  BY <1>6
<1>8. read # Feed!NoRead
  <2>1. DOMAIN read # DOMAIN Feed!NoRead
    BY DEF Feed!NoRead
  <2>. QED
    BY <2>1
<1>9. UNCHANGED records
  BY DEF PullSelect
<1>10. Feed!Read(d, u, since, page)
  BY <1>3, <1>6, <1>9 DEF Feed!Read
<1>11. read.user = u /\ read.since = since /\ read.page = page
  OBVIOUS
<1>. QED
  BY <1>7, <1>8, <1>10, <1>11 DEF Feed!FeedNext

\* The end of a Pull, however it ends, forgets the page.
LEMMA EndForgets ==
    ASSUME TypeOK, NEW d \in Devices, pulls' = [pulls EXCEPT ![d] = NoPull],
           UNCHANGED records
    PROVE  Feed!FeedNext
<1>. DEFINE reads == [e \in Devices |-> ReadOf(pulls[e])]
<1>1. reads' = [reads EXCEPT ![d] = ReadOf(NoPull)]
  BY ReadsChange
<1>2. ReadOf(NoPull) = Feed!NoRead
  BY DEF ReadOf, Feed!NoRead
<1>3. reads' = [e \in Devices |-> IF e \in {d} THEN Feed!NoRead ELSE reads[e]]
  BY <1>1, <1>2
<1>4. Feed!Forget({d})
  BY <1>3 DEF Feed!Forget
<1>. QED
  BY <1>4 DEF Feed!FeedNext

\* The statements after the first do not touch the page.
LEMMA SameRead ==
    ASSUME TypeOK, NEW d \in Devices, NEW call,
           pulls' = [pulls EXCEPT ![d] = call],
           pulls[d] # NoPull, call # NoPull,
           call.user = pulls[d].user, call.since = pulls[d].since,
           call.page = pulls[d].page
    PROVE  UNCHANGED [e \in Devices |-> ReadOf(pulls[e])]
<1>1. ReadOf(call) = ReadOf(pulls[d])
  BY DEF ReadOf
<1>. QED
  BY <1>1, ReadsChange

LEMMA FeedStep ==
    ASSUME ResolveVersions = {}, FInv, [Next]_vars
    PROVE  [Feed!FeedNext]_Feed!feedVars
<1>. USE DEF FInv, IInv
<1>. DEFINE reads == [e \in Devices |-> ReadOf(pulls[e])]
<1>1. ASSUME UNCHANGED <<records, pulls>> PROVE UNCHANGED Feed!feedVars
  BY <1>1 DEF Feed!feedVars
<1>2. ASSUME PushCommit PROVE [Feed!FeedNext]_Feed!feedVars
  <2>1. CASE Feed!Publish(tx.user)
    <3>1. tx.user \in Users
      BY <1>2, CommittedRows DEF PushTx
    <3>. QED
      BY <2>1, <3>1 DEF Feed!FeedNext
  <2>. QED
    BY <1>1, <1>2, <2>1, CommitPublishes, TypeInductive
<1>3. ASSUME NEW u \in Users, NEW d \in Devices, NEW since \in KnownVersions,
             PullSelect(u, d, since)
      PROVE  Feed!FeedNext
  BY <1>3, SelectReads
<1>4. ASSUME NEW d \in Devices, PullMax(d) PROVE UNCHANGED Feed!feedVars
  <2>1. PICK m \in KnownVersions :
           pulls' = [pulls EXCEPT ![d].phase = "counted", ![d].latestVer = m]
    BY <1>4 DEF PullMax
  <2>2. pulls[d] \in PullCall
    BY <1>4 DEF PullMax, TypeOK, NoPull
  <2>. DEFINE call == [pulls[d] EXCEPT !.phase = "counted", !.latestVer = m]
  <2>3. pulls' = [pulls EXCEPT ![d] = call]
    BY <2>1, <2>2 DEF TypeOK, PullCall
  <2>4. /\ call.phase = "counted" /\ call.user = pulls[d].user
        /\ call.since = pulls[d].since /\ call.page = pulls[d].page
    BY <2>2 DEF PullCall
  <2>5. pulls[d] # NoPull /\ call # NoPull
    <3>1. pulls[d].phase = "selected" /\ NoPull.phase = "none"
      BY <1>4 DEF PullMax, NoPull
    <3>. QED
      BY <3>1, <2>4
  <2>6. UNCHANGED reads
    BY <2>3, <2>4, <2>5, SameRead
  <2>. QED
    BY <1>4, <2>6 DEF PullMax, Feed!feedVars
<1>5. ASSUME NEW d \in Devices, PullUpdateDevice(d)
      PROVE  UNCHANGED Feed!feedVars
  <2>1. pulls[d] \in PullCall
    BY <1>5 DEF PullUpdateDevice, TypeOK, NoPull
  <2>. DEFINE call == [pulls[d] EXCEPT !.phase = "answered"]
  <2>2. pulls' = [pulls EXCEPT ![d] = call]
    BY <1>5, <2>1 DEF PullUpdateDevice, TypeOK, PullCall
  <2>3. /\ call.phase = "answered" /\ call.user = pulls[d].user
        /\ call.since = pulls[d].since /\ call.page = pulls[d].page
    BY <2>1 DEF PullCall
  <2>4. pulls[d] # NoPull /\ call # NoPull
    <3>1. pulls[d].phase = "counted" /\ NoPull.phase = "none"
      BY <1>5 DEF PullUpdateDevice, NoPull
    <3>. QED
      BY <3>1, <2>3
  <2>5. UNCHANGED reads
    BY <2>2, <2>3, <2>4, SameRead
  <2>. QED
    BY <1>5, <2>5 DEF PullUpdateDevice, Feed!feedVars
<1>6. ASSUME NEW d \in Devices, PullFail(d) \/ PullReturn(d)
      PROVE  Feed!FeedNext
  BY <1>6, EndForgets DEF PullFail, PullReturn
<1>7. ASSUME Restart PROVE Feed!FeedNext
  <2>1. ReadOf(NoPull) = Feed!NoRead
    BY DEF ReadOf, Feed!NoRead
  <2>2. reads' = [e \in Devices |->
                    IF e \in Devices THEN Feed!NoRead ELSE reads[e]]
    BY <1>7, <2>1 DEF Restart
  <2>3. Feed!Forget(Devices)
    BY <1>7, <2>2 DEF Feed!Forget, Restart
  <2>. QED
    BY <2>3 DEF Feed!FeedNext
<1>. QED
  BY NextCases, <1>1, <1>2, <1>3, <1>4, <1>5, <1>6, <1>7
     DEF vars, PushBegin, PushRecord, PushRollback

LEMMA FeedStart == ASSUME Init PROVE Feed!FeedInit
<1>1. ReadOf(NoPull) = Feed!NoRead
  BY DEF ReadOf, Feed!NoRead
<1>. QED
  BY <1>1 DEF Init, Feed!FeedInit

-----------------------------------------------------------------------------
(* The theorems *)

\* Without conflict resolutions, the tables and the statements of Push and Pull
\* implement the version feed.
THEOREM Refinement == ASSUME ResolveVersions = {} PROVE Spec => ImplementsFeed
<1>1. Init => Feed!FeedInit
  BY FeedStart
<1>2. FInv /\ [Next]_vars => [Feed!FeedNext]_Feed!feedVars
  BY FeedStep
<1>. QED
  BY <1>1, <1>2, FeedInvariance, PTL DEF Spec, ImplementsFeed, Feed!Spec

\* The page a Pull took stays complete while pushes run between its statements:
\* what the feed promises, read back on the tables.
THEOREM PagesStayClosed ==
    ASSUME ResolveVersions = {} PROVE Spec => []PagesClosed
<1>1. FInv /\ Feed!ReadsStayPages => PagesClosed
  <2>1. SUFFICES ASSUME FInv, Feed!ReadsStayPages, NEW d \in Devices,
                        pulls[d] # NoPull, NEW i \in pulls[d].page,
                        NEW j \in RowsAfter(pulls[d].user, pulls[d].since),
                        records[j].version <= records[i].version
                 PROVE  j \in pulls[d].page
    BY DEF PagesClosed
  <2>. DEFINE read == [user |-> pulls[d].user, since |-> pulls[d].since,
                       page |-> pulls[d].page]
  <2>2. ReadOf(pulls[d]) = read
    BY <2>1 DEF ReadOf
  <2>3. read # Feed!NoRead
    <3>1. DOMAIN read # DOMAIN Feed!NoRead
      BY DEF Feed!NoRead
    <3>. QED
      BY <3>1
  <2>4. Feed!IsPage(pulls[d].page, pulls[d].user, pulls[d].since)
    BY <2>1, <2>2, <2>3 DEF Feed!ReadsStayPages
  <2>5. j \in Feed!After(pulls[d].user, pulls[d].since)
    BY <2>1 DEF RowsAfter, RowsOf, Feed!After
  <2>6. i \in DOMAIN records /\ j \in DOMAIN records
    BY <2>1, <2>4, <2>5 DEF Feed!IsPage, Feed!After
  <2>7. records[i].version \in Nat /\ records[j].version \in Nat
    BY <2>1, <2>6, RowType DEF FInv, IInv
  <2>. QED
    BY <2>1, <2>4, <2>5, <2>7 DEF Feed!IsPage
<1>2. ImplementsFeed => []Feed!ReadsStayPages
  BY Feed!PagesStay DEF ImplementsFeed
<1>. QED
  BY <1>1, <1>2, FeedInvariance, Refinement, PTL


-----------------------------------------------------------------------------
(* What a commit does to the notes *)

\* The records an open transaction has still to handle are the tail of its
\* batch.
TodoSound ==
    /\ Len(tx.batch) = Len(tx.snapshots) + Len(tx.todo)
    /\ \A k \in DOMAIN tx.todo : tx.todo[k] = tx.batch[Len(tx.snapshots) + k]

\* The snapshots it preloaded are the latest.
LatestHeld ==
    \A u \in Users, n \in Notes :
        tx.user = u => tx.latest[n] \in LatestSnapshots(u, n)

\* Each row it has made holds what its input and that snapshot decide.
RowsSound ==
    \A k \in DOMAIN tx.snapshots :
        /\ tx.snapshots[k].note = tx.batch[k].note
        /\ tx.snapshots[k].payload =
             StoredPayload(tx.batch[k], tx.latest[tx.batch[k].note])

BatchSound == tx.phase = "open" => TodoSound /\ LatestHeld /\ RowsSound

\* Sums of lengths.
LEMMA Sums ==
    ASSUME NEW a \in Nat, NEW b \in Nat, NEW c \in Nat, c = a + b
    PROVE  /\ c = (a + 1) + (b - 1)
           /\ \A k \in 1..a : k \in 1..c
OBVIOUS

\* Which rows are the latest depends on the table alone.
LEMMA LatestKept ==
    ASSUME UNCHANGED snapshots, NEW u, NEW n
    PROVE  LatestSnapshots(u, n)' = LatestSnapshots(u, n)
<1>1. SnapshotsOf(u, n)' = SnapshotsOf(u, n)
  BY DEF SnapshotsOf
<1>. QED
  BY <1>1 DEF LatestSnapshots

\* Nobody writes a snapshot while a transaction is open, and a turn of the loop
\* makes the row of the next record.
LEMMA BatchInductive == ASSUME IInv, BatchSound, [Next]_vars PROVE BatchSound'
<1>1. SUFFICES ASSUME tx'.phase = "open" PROVE BatchSound'
  BY DEF BatchSound
<1>2. ASSUME NEW u \in Users, NEW d \in Devices, NEW batch \in Batches,
             PushBegin(u, d, batch)
      PROVE  BatchSound'
  <2>1. PICK m \in KnownVersions, latest \in preloadLatestSnapshots(u) :
           tx' = [phase |-> "open", user |-> u, device |-> d,
                  batch |-> Truncated(batch), todo |-> Truncated(batch),
                  maxVer |-> m, latest |-> latest,
                  records |-> <<>>, snapshots |-> <<>>]
    BY <1>2 DEF PushBegin
  <2>2. Truncated(batch) \in Seq(SyncRecordInput)
    BY TruncatedType
  <2>3. /\ tx'.user = u /\ tx'.latest = latest /\ tx'.snapshots = <<>>
        /\ tx'.batch = Truncated(batch) /\ tx'.todo = Truncated(batch)
    BY <2>1
  <2>4. LatestHeld'
    <3>1. \A n \in Notes : latest[n] \in LatestSnapshots(u, n)
      BY DEF preloadLatestSnapshots
    <3>2. UNCHANGED snapshots
      BY <1>2 DEF PushBegin
    <3>. QED
      BY <2>3, <3>1, <3>2, LatestKept DEF LatestHeld
  <2>5. TodoSound'
    BY <2>2, <2>3 DEF TodoSound
  <2>6. RowsSound'
    BY <2>3 DEF RowsSound
  <2>. QED
    BY <2>4, <2>5, <2>6 DEF BatchSound
<1>3. ASSUME PushRecord PROVE BatchSound'
  <2>. DEFINE input == Head(tx.todo)
              at == tx.latest[input.note]
              newVer == AssignedVersion(at)
              payload == StoredPayload(input, at)
              snapshot == [user |-> tx.user, note |-> input.note,
                           version |-> newVer, payload |-> payload]
  <2>1. tx \in PushTx /\ tx.phase = "open"
    BY <1>3, OpenTx DEF PushRecord, IInv
  <2>2. /\ tx.todo \in Seq(SyncRecordInput) /\ tx.todo # <<>>
        /\ tx.batch \in Seq(SyncRecordInput) /\ tx.snapshots \in Seq(NoteSnapshot)
    BY <1>3, <2>1 DEF PushRecord, PushTx
  <2>3. /\ tx'.user = tx.user /\ tx'.batch = tx.batch /\ tx'.latest = tx.latest
        /\ tx'.todo = Tail(tx.todo)
        /\ tx'.snapshots = Append(tx.snapshots, snapshot)
    BY <1>3, <2>1 DEF PushRecord, PushTx
  <2>4. snapshot.note = input.note /\ snapshot.payload = payload
    OBVIOUS
  <2>. HIDE DEF snapshot
  <2>5. input = tx.todo[1] /\ 1 \in DOMAIN tx.todo
    BY <2>2
  <2>6. input = tx.batch[Len(tx.snapshots) + 1]
    BY <2>1, <2>5 DEF BatchSound, TodoSound
  <2>. HIDE DEF input
  <2>7. /\ Len(tx'.todo) = Len(tx.todo) - 1
        /\ Len(tx'.snapshots) = Len(tx.snapshots) + 1
        /\ \A k \in DOMAIN tx'.todo :
               k + 1 \in DOMAIN tx.todo /\ tx'.todo[k] = tx.todo[k + 1]
        /\ \A k \in DOMAIN tx'.snapshots :
               \/ k \in DOMAIN tx.snapshots /\ tx'.snapshots[k] = tx.snapshots[k]
               \/ k = Len(tx.snapshots) + 1 /\ tx'.snapshots[k] = snapshot
    BY <2>2, <2>3
  <2>8. TodoSound'
    <3>0. Len(tx.batch) = Len(tx.snapshots) + Len(tx.todo)
      BY <2>1 DEF BatchSound, TodoSound
    <3>1. /\ Len(tx.snapshots) \in Nat /\ Len(tx.todo) \in Nat
          /\ Len(tx.batch) \in Nat
      BY <2>2
    <3>2. Len(tx'.batch) = Len(tx'.snapshots) + Len(tx'.todo)
      <4>1. Len(tx'.batch) = Len(tx.batch)
        BY <2>3
      <4>2. /\ Len(tx'.todo) = Len(tx.todo) - 1
            /\ Len(tx'.snapshots) = Len(tx.snapshots) + 1
        BY <2>7
      <4>3. Len(tx.batch) = (Len(tx.snapshots) + 1) + (Len(tx.todo) - 1)
        BY <3>0, <3>1, Sums
      <4>. QED
        BY <4>1, <4>2, <4>3
    <3>3. ASSUME NEW k \in DOMAIN tx'.todo
          PROVE  tx'.todo[k] = tx'.batch[Len(tx'.snapshots) + k]
      <4>1. tx.todo[k + 1] = tx.batch[Len(tx.snapshots) + (k + 1)]
        <5>1. k + 1 \in DOMAIN tx.todo
          BY <2>7, <3>3
        <5>. QED
          BY <2>1, <5>1 DEF BatchSound, TodoSound
      <4>2. k \in Nat
        BY <2>2, <2>3
      <4>3. Len(tx.snapshots) + (k + 1) = (Len(tx.snapshots) + 1) + k
        BY <3>1, <4>2
      <4>4. Len(tx'.snapshots) = Len(tx.snapshots) + 1 /\ tx'.todo[k] = tx.todo[k + 1]
        BY <2>7
      <4>. QED
        BY <2>3, <4>1, <4>3, <4>4
    <3>. QED
      BY <3>2, <3>3 DEF TodoSound
  <2>9. UNCHANGED snapshots
    BY <1>3 DEF PushRecord
  <2>10. LatestHeld'
    <3>1. LatestHeld
      BY <2>1 DEF BatchSound
    <3>. QED
      BY <2>3, <2>9, <3>1, LatestKept DEF LatestHeld
  <2>11. ASSUME NEW k \in DOMAIN tx'.snapshots
         PROVE  /\ tx'.snapshots[k].note = tx.batch[k].note
                /\ tx'.snapshots[k].payload =
                     StoredPayload(tx.batch[k], tx.latest[tx.batch[k].note])
    <3>1. CASE k \in DOMAIN tx.snapshots /\ tx'.snapshots[k] = tx.snapshots[k]
      BY <2>1, <3>1 DEF BatchSound, RowsSound
    <3>2. CASE k = Len(tx.snapshots) + 1 /\ tx'.snapshots[k] = snapshot
      BY <2>4, <2>6, <3>2
    <3>. QED
      BY <2>7, <3>1, <3>2
  <2>12. RowsSound'
    BY <2>3, <2>9, <2>11 DEF RowsSound, StoredPayload
  <2>. QED
    BY <2>8, <2>10, <2>12 DEF BatchSound
<1>4. ASSUME UNCHANGED <<snapshots, tx>> PROVE BatchSound'
  <2>1. TodoSound /\ LatestHeld /\ RowsSound
    BY <1>1, <1>4 DEF BatchSound
  <2>2. TodoSound'
    BY <1>4, <2>1 DEF TodoSound
  <2>3. LatestHeld'
    BY <1>4, <2>1, LatestKept DEF LatestHeld
  <2>4. RowsSound'
    BY <1>4, <2>1 DEF RowsSound, StoredPayload
  <2>. QED
    BY <2>2, <2>3, <2>4 DEF BatchSound
<1>5. ASSUME tx' = Free PROVE BatchSound'
  BY <1>1, <1>5 DEF Free
<1>6. ASSUME tx = Free, UNCHANGED tx PROVE BatchSound'
  BY <1>1, <1>6 DEF Free
<1>. QED
  BY NextCases, <1>2, <1>3, <1>4, <1>5, <1>6
     DEF vars, PushCommit, PushRollback, PullSelect, PullMax,
         PullUpdateDevice, PullFail, PullReturn, ResolveConflict, Restart

\* The rows of a note that may come first after a commit.
LEMMA LatestAfterCommit ==
    ASSUME IInv, PushCommit, NEW u, NEW n, NEW i \in Latest(u, n)'
    PROVE  \/ i \in DOMAIN snapshots /\ i \in Latest(u, n) /\ snapshots'[i] = snapshots[i]
           \/ \E k \in DOMAIN tx.snapshots :
                 /\ i = Len(snapshots) + k
                 /\ snapshots'[i] = tx.snapshots[k]
                 /\ tx.snapshots[k].note = n
<1>1. /\ snapshots \in Seq(NoteSnapshot) /\ snapshots' \in Seq(NoteSnapshot)
  BY TypeInductive DEF IInv, TypeOK, Next
<1>2. /\ i \in DOMAIN snapshots' /\ snapshots'[i].user = u /\ snapshots'[i].note = n
      /\ \A j \in DOMAIN snapshots' :
            snapshots'[j].user = u /\ snapshots'[j].note = n
              => snapshots'[j].version <= snapshots'[i].version
  BY DEF Latest, LatestSnapshots, SnapshotsOf
<1>3. CASE i \in DOMAIN snapshots
  <2>1. /\ DOMAIN snapshots \subseteq DOMAIN snapshots'
        /\ \A j \in DOMAIN snapshots : snapshots'[j] = snapshots[j]
    BY <1>1, CommittedRows DEF PushTx
  <2>2. i # 0
    BY <1>1, <1>3
  <2>3. /\ i \in SnapshotsOf(u, n)
        /\ \A j \in SnapshotsOf(u, n) : snapshots[j].version <= snapshots[i].version
    BY <1>2, <1>3, <2>1 DEF SnapshotsOf
  <2>. QED
    BY <1>3, <2>1, <2>2, <2>3 DEF Latest, LatestSnapshots
<1>4. CASE i \notin DOMAIN snapshots
  <2>1. /\ i - Len(snapshots) \in DOMAIN tx.snapshots
        /\ snapshots'[i] = tx.snapshots[i - Len(snapshots)]
    BY <1>2, <1>4, CommittedRows
  <2>2. i = Len(snapshots) + (i - Len(snapshots))
    BY <1>1, <1>2
  <2>. QED
    BY <1>2, <2>1, <2>2
<1>. QED
  BY <1>3, <1>4

\* What is stored for an input is its own content when its base is not behind
\* the latest snapshot, and the content of that snapshot otherwise.
LEMMA StoredFromLatest ==
    ASSUME TypeOK, NEW u \in Users, NEW input \in SyncRecordInput,
           NEW at \in LatestSnapshots(u, input.note)
    PROVE  \/ \E j \in Latest(u, input.note) :
                 StoredPayload(input, at) = snapshots[j].payload
           \/ /\ StoredPayload(input, at) = input.payload
              /\ \A j \in Latest(u, input.note) :
                    snapshots[j].version <= input.version
<1>. DEFINE n == input.note
<1>0. snapshots \in Seq(NoteSnapshot)
  BY DEF TypeOK
<1>1. CASE at = 0
  <2>1. SnapshotsOf(u, n) = {}
    BY <1>0, <1>1 DEF LatestSnapshots, SnapshotsOf
  <2>2. Latest(u, n) = {}
    BY <2>1 DEF Latest, LatestSnapshots
  <2>3. StoredPayload(input, at) = input.payload
    BY <1>1 DEF StoredPayload
  <2>. QED
    BY <2>2, <2>3
<1>2. CASE at # 0
  <2>1. at \in Latest(u, n) /\ at \in DOMAIN snapshots
    BY <1>2 DEF Latest, LatestSnapshots, SnapshotsOf
  <2>2. \A j \in Latest(u, n) :
           j \in DOMAIN snapshots /\ snapshots[j].version <= snapshots[at].version
    BY <1>2, <2>1 DEF Latest, LatestSnapshots, SnapshotsOf
  <2>3. /\ snapshots[at].version \in Nat /\ input.version \in Nat
        /\ \A j \in Latest(u, n) : snapshots[j].version \in Nat
    <3>1. \A j \in DOMAIN snapshots : snapshots[j] \in NoteSnapshot
      BY <1>0
    <3>. QED
      BY <2>1, <2>2, <3>1, VersionsAssumption DEF NoteSnapshot, SyncRecordInput
  <2>4. CASE snapshots[at].version <= input.version
    <3>1. StoredPayload(input, at) = input.payload
      BY <2>3, <2>4 DEF StoredPayload
    <3>. QED
      BY <2>2, <2>3, <2>4, <3>1
  <2>5. CASE snapshots[at].version > input.version
    <3>1. StoredPayload(input, at) = snapshots[at].payload
      BY <1>2, <2>3, <2>5 DEF StoredPayload, DetectConflict, ResolveLastWriteWins
    <3>. QED
      BY <2>1, <3>1
  <2>. QED
    BY <2>3, <2>4, <2>5
<1>. QED
  BY <1>1, <1>2

\* A step that changes the snapshots while a transaction is open commits it.
LEMMA OnlyCommits ==
    ASSUME [Next]_vars, tx.phase = "open", snapshots' # snapshots
    PROVE  PushCommit
<1>1. \A u, n, ver, data : ~ResolveConflict(u, n, ver, data)
  BY DEF ResolveConflict, Free
<1>. QED
  BY <1>1, TablesChange

\* What the transaction knows of its batch holds in every reachable state.
THEOREM BatchInvariance == Spec => []BatchSound
<1>1. Init => BatchSound
  BY DEF Init, BatchSound, Free
<1>2. IInv /\ BatchSound /\ [Next]_vars => BatchSound'
  BY BatchInductive
<1>. QED
  BY <1>1, <1>2, Invariance, PTL DEF Spec

\* NoStaleOverwrite: a push whose base is behind the latest snapshot a note had
\* before the batch leaves the note's content as it was.
THEOREM StaleNeverWins == Spec => NoStaleOverwrite
<1>1. ASSUME IInv, BatchSound, [Next]_vars,
             NEW u \in Users, NEW n \in Notes, CommitBy(u),
             NEW i \in Latest(u, n)'
      PROVE  \/ \E j \in Latest(u, n) :
                   snapshots'[i].payload = snapshots[j].payload
             \/ \E k \in DOMAIN tx.batch :
                   /\ tx.batch[k].note = n
                   /\ tx.batch[k].payload = snapshots'[i].payload
                   /\ \A j \in Latest(u, n) :
                         snapshots[j].version <= tx.batch[k].version
  <2>1. PushCommit /\ tx.phase = "open" /\ tx.user = u /\ tx \in PushTx
    BY <1>1, OnlyCommits, OpenTx DEF CommitBy, IInv
  <2>2. CASE i \in Latest(u, n) /\ snapshots'[i] = snapshots[i]
    BY <2>2
  <2>3. CASE \E k \in DOMAIN tx.snapshots :
                snapshots'[i] = tx.snapshots[k] /\ tx.snapshots[k].note = n
    <3>1. PICK k \in DOMAIN tx.snapshots :
             snapshots'[i] = tx.snapshots[k] /\ tx.snapshots[k].note = n
      BY <2>3
    <3>. DEFINE input == tx.batch[k]
    <3>2. k \in DOMAIN tx.batch /\ input \in SyncRecordInput
      <4>1. /\ tx.batch \in Seq(SyncRecordInput) /\ tx.todo \in Seq(SyncRecordInput)
            /\ tx.snapshots \in Seq(NoteSnapshot)
        BY <2>1 DEF PushTx
      <4>2. k \in DOMAIN tx.batch
        <5>1. k \in 1..Len(tx.snapshots)
          BY <3>1, <4>1
        <5>2. Len(tx.batch) = Len(tx.snapshots) + Len(tx.todo)
          BY <1>1, <2>1 DEF BatchSound, TodoSound
        <5>3. /\ Len(tx.snapshots) \in Nat /\ Len(tx.todo) \in Nat
              /\ Len(tx.batch) \in Nat
          BY <4>1
        <5>4. k \in 1..Len(tx.batch)
          BY <5>1, <5>2, <5>3, Sums
        <5>. QED
          BY <4>1, <5>4
      <4>. QED
        BY <4>1, <4>2
    <3>3. /\ input.note = n /\ tx.latest[n] \in LatestSnapshots(u, n)
          /\ snapshots'[i].payload = StoredPayload(input, tx.latest[n])
      BY <1>1, <2>1, <3>1 DEF BatchSound, LatestHeld, RowsSound
    <3>. HIDE DEF input
    <3>4. \/ \E j \in Latest(u, n) :
                StoredPayload(input, tx.latest[n]) = snapshots[j].payload
          \/ /\ StoredPayload(input, tx.latest[n]) = input.payload
             /\ \A j \in Latest(u, n) : snapshots[j].version <= input.version
      BY <1>1, <3>2, <3>3, StoredFromLatest DEF IInv
    <3>. QED
      BY <3>2, <3>3, <3>4 DEF input
  <2>. QED
    BY <1>1, <2>1, <2>2, <2>3, LatestAfterCommit
<1>2. IInv /\ BatchSound /\ [Next]_vars =>
        [\A u \in Users, n \in Notes : CommitBy(u) =>
            \A i \in Latest(u, n)' :
                \/ \E j \in Latest(u, n) :
                      snapshots'[i].payload = snapshots[j].payload
                \/ \E k \in DOMAIN tx.batch :
                      /\ tx.batch[k].note = n
                      /\ tx.batch[k].payload = snapshots'[i].payload
                      /\ \A j \in Latest(u, n) :
                            snapshots[j].version <= tx.batch[k].version]_vars
  BY <1>1
<1>3. Spec => []BatchSound
  BY BatchInvariance
<1>. QED
  BY <1>2, <1>3, Invariance, PTL DEF Spec, NoStaleOverwrite

\* PushBecomesLatest: after a commit the only latest snapshot of a note is the
\* row of the last record that pushed it.
THEOREM PushedIsLatest == Spec => PushBecomesLatest
<1>1. ASSUME IInv, [Next]_vars, NEW u \in Users, NEW n \in Notes, CommitBy(u),
             NEW k \in DOMAIN tx.snapshots, tx.snapshots[k].note = n,
             \A m \in DOMAIN tx.snapshots : m > k => tx.snapshots[m].note # n
      PROVE  Latest(u, n)' = {Len(snapshots) + k}
  <2>1. PushCommit /\ tx.phase = "open" /\ tx.user = u /\ tx \in PushTx
    BY <1>1, OnlyCommits, OpenTx DEF CommitBy, IInv
  <2>2. /\ snapshots \in Seq(NoteSnapshot) /\ snapshots' \in Seq(NoteSnapshot)
        /\ tx.snapshots \in Seq(NoteSnapshot) /\ tx.records \in Seq(SyncRecord)
        /\ records \in Seq(SyncRecord)
    BY <1>1, <2>1, TypeInductive DEF IInv, TypeOK, PushTx
  <2>3. /\ Len(snapshots') = Len(snapshots) + Len(tx.snapshots)
        /\ \A i \in DOMAIN snapshots : snapshots'[i] = snapshots[i]
        /\ \A i \in DOMAIN snapshots' \ DOMAIN snapshots :
              /\ i - Len(snapshots) \in DOMAIN tx.snapshots
              /\ snapshots'[i] = tx.snapshots[i - Len(snapshots)]
    BY <1>1, <2>1, CommittedRows
  <2>. DEFINE last == Len(snapshots) + k
  <2>4. /\ last \in DOMAIN snapshots' \ DOMAIN snapshots
        /\ last - Len(snapshots) = k
        /\ snapshots'[last] = tx.snapshots[k]
    <3>1. /\ last \in DOMAIN snapshots' \ DOMAIN snapshots
          /\ last - Len(snapshots) = k
      BY <2>2, <2>3
    <3>. QED
      BY <2>3, <3>1
  <2>5. \A l \in DOMAIN tx.snapshots :
           /\ l \in DOMAIN tx.records
           /\ tx.snapshots[l].user = u /\ tx.records[l].user = u
           /\ tx.snapshots[l].version = tx.records[l].version
           /\ tx.snapshots[l].version \in Nat
    <3>1. Len(tx.records) = Len(tx.snapshots)
      BY <1>1, <2>1 DEF IInv, TxSound
    <3>2. ASSUME NEW l \in DOMAIN tx.snapshots
          PROVE  l \in DOMAIN tx.records /\ tx.snapshots[l] \in NoteSnapshot
      BY <2>2, <3>1
    <3>3. ASSUME NEW l \in DOMAIN tx.snapshots
          PROVE  /\ tx.records[l].user = tx.user
                 /\ tx.snapshots[l] = SnapshotOf(tx.records[l])
      BY <1>1, <2>1, <3>2 DEF IInv, TxSound
    <3>4. ASSUME NEW l \in DOMAIN tx.snapshots
          PROVE  /\ tx.snapshots[l].user = tx.records[l].user
                 /\ tx.snapshots[l].version = tx.records[l].version
      <4>1. tx.snapshots[l] = SnapshotOf(tx.records[l])
        BY <3>3
      <4>2. \A row : SnapshotOf(row).user = row.user /\ SnapshotOf(row).version = row.version
        BY DEF SnapshotOf
      <4>. QED
        BY <4>1, <4>2
    <3>5. ASSUME NEW l \in DOMAIN tx.snapshots
          PROVE  tx.snapshots[l].version \in Nat
      BY <3>2 DEF NoteSnapshot
    <3>. QED
      BY <2>1, <3>2, <3>3, <3>4, <3>5
  <2>6. \A l \in DOMAIN tx.snapshots :
           l < k => tx.snapshots[l].version < tx.snapshots[k].version
    <3>1. ASSUME NEW l \in DOMAIN tx.snapshots, l < k
          PROVE  tx.records[l].version < tx.records[k].version
      <4>1. l \in 1..(k - 1)
        BY <2>2, <3>1
      <4>. QED
        BY <1>1, <2>1, <2>5, <4>1 DEF IInv, TxSound
    <3>. QED
      BY <2>5, <3>1
  <2>7. \A i \in DOMAIN snapshots :
           snapshots[i].user = u => snapshots[i].version < tx.snapshots[k].version
    <3>1. ASSUME NEW i \in DOMAIN snapshots, snapshots[i].user = u
          PROVE  snapshots[i].version < tx.snapshots[k].version
      <4>1. i \in DOMAIN records /\ snapshots[i] = SnapshotOf(records[i])
        BY <1>1, <2>2 DEF IInv, RecordsMatchSnapshots
      <4>2. i \in RowsOf(tx.user)
        BY <2>1, <3>1, <4>1 DEF RowsOf, SnapshotOf
      <4>3. records[i].version < tx.records[k].version
        BY <1>1, <2>1, <2>5, <4>2 DEF IInv, TxSound
      <4>4. snapshots[i].version = records[i].version
        BY <4>1 DEF SnapshotOf
      <4>. QED
        BY <2>5, <4>3, <4>4
    <3>. QED
      BY <3>1
  <2>8. ASSUME NEW i \in DOMAIN snapshots', snapshots'[i].user = u,
               snapshots'[i].note = n, i # last
        PROVE  snapshots'[i].version < snapshots'[last].version
    <3>1. CASE i \in DOMAIN snapshots
      BY <2>3, <2>4, <2>7, <2>8, <3>1
    <3>2. CASE i \notin DOMAIN snapshots
      <4>. DEFINE l == i - Len(snapshots)
      <4>1. l \in DOMAIN tx.snapshots /\ snapshots'[i] = tx.snapshots[l]
        BY <2>3, <3>2
      <4>2. i = Len(snapshots) + l /\ l \in Nat /\ k \in Nat
        BY <2>2, <4>1
      <4>. HIDE DEF l
      <4>3. l < k
        BY <1>1, <2>8, <4>1, <4>2
      <4>. QED
        BY <2>4, <2>6, <4>1, <4>3
    <3>. QED
      BY <3>1, <3>2
  <2>9. \A i \in DOMAIN snapshots' : snapshots'[i].version \in Nat
    <3>1. \A i \in DOMAIN snapshots' : snapshots'[i] \in NoteSnapshot
      BY <2>2
    <3>. QED
      BY <3>1 DEF NoteSnapshot
  <2>10. /\ last \in DOMAIN snapshots' /\ last # 0
         /\ snapshots'[last].user = u /\ snapshots'[last].note = n
    <3>1. k \in Nat \ {0} /\ Len(snapshots) \in Nat
      BY <2>2
    <3>. QED
      BY <1>1, <2>4, <2>5, <3>1
  <2>11. last \in Latest(u, n)'
    BY <2>8, <2>9, <2>10 DEF Latest, LatestSnapshots, SnapshotsOf
  <2>12. ASSUME NEW i \in Latest(u, n)' PROVE i = last
    <3>1. /\ i \in DOMAIN snapshots' /\ snapshots'[i].user = u
          /\ snapshots'[i].note = n
          /\ snapshots'[last].version <= snapshots'[i].version
      BY <2>10 DEF Latest, LatestSnapshots, SnapshotsOf
    <3>. QED
      BY <2>8, <2>9, <2>10, <3>1
  <2>. QED
    BY <2>11, <2>12
<1>2. IInv /\ [Next]_vars =>
        [\A u \in Users, n \in Notes : CommitBy(u) =>
            \A k \in DOMAIN tx.snapshots :
                /\ tx.snapshots[k].note = n
                /\ \A m \in DOMAIN tx.snapshots : m > k => tx.snapshots[m].note # n
                => Latest(u, n)' = {Len(snapshots) + k}]_vars
  BY <1>1
<1>. QED
  BY <1>2, Invariance, PTL DEF Spec, PushBecomesLatest
=============================================================================
