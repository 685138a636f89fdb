------------------------------ MODULE SyncServer ------------------------------
(***************************************************************************)
(* The storage half of the Go sync server: SyncService and conflict.go     *)
(* over the tables sync_records, note_snapshots and devices.               *)
(*                                                                         *)
(* SQLite runs with SetMaxOpenConns(1): a transaction owns the only        *)
(* connection from Beginx to Commit or Rollback, and every other SQL       *)
(* statement waits for it.  tx is that transaction.  A Push is one         *)
(* transaction, taken record by record; a Pull is three statements outside *)
(* any transaction, between which other requests run.                      *)
(***************************************************************************)
EXTENDS Integers, Sequences, FiniteSets

CONSTANTS
    Users,           \* authenticated user ids
    Devices,         \* device ids clients send; ids are not scoped to a user
    Notes,           \* note ids
    Payloads,        \* note contents
    InputVersions,   \* base versions a client may claim in a pushed record
    ResolveVersions, \* versions a client may claim in a conflict resolution
    MaxBatch,        \* bound: records in one PushRequest
    PushLimit,       \* records of one PushRequest the server handles
    PullLimit,       \* records in one PullResponse
    MaxPulls,        \* bound: Pull handlers running at once
    MaxRows          \* bound: rows of sync_records

NoDevice == "no device"     \* sync_records.device_id = ''
NoUser == "no user"         \* the device row does not exist

ASSUME IdsAssumption == NoDevice \notin Devices /\ NoUser \notin Users
ASSUME VersionsAssumption ==
    /\ InputVersions \subseteq Nat
    /\ ResolveVersions \subseteq Nat
ASSUME LimitsAssumption ==
    /\ MaxBatch \in Nat
    /\ PushLimit \in Nat \ {0}
    /\ PullLimit \in Nat \ {0}
    /\ MaxPulls \in Nat
    /\ MaxRows \in Nat

VARIABLES
    records,    \* table sync_records, in insertion order
    snapshots,  \* table note_snapshots, in insertion order
    devices,    \* table devices: the owner and last_sync_ver of each id
    tx,         \* the transaction that holds the connection
    pulls       \* the Pull handler running for each device

vars == <<records, snapshots, devices, tx, pulls>>

-----------------------------------------------------------------------------
(* The rows, and the state of the handlers. *)

SyncRecordInput == [note : Notes, version : InputVersions, payload : Payloads]

SyncRecord == [user : Users, device : Devices \cup {NoDevice},
               note : Notes, version : Nat, payload : Payloads]

NoteSnapshot == [user : Users, note : Notes, version : Nat, payload : Payloads]

\* The snapshot row written with a sync record.
SnapshotOf(row) == [user |-> row.user, note |-> row.note,
                    version |-> row.version, payload |-> row.payload]

Device == [owner : Users \cup {NoUser}, lastSyncVer : Nat]

Free == [phase |-> "free"]

\* batch is the request and todo the records not handled yet; latest[n] is the
\* row preloaded for note n, 0 if it has none; records and snapshots hold the
\* rows inserted so far, visible to others only after the commit.
PushTx == [phase : {"open"}, user : Users, device : Devices,
           batch : Seq(SyncRecordInput), todo : Seq(SyncRecordInput),
           maxVer : Nat, latest : [Notes -> Nat],
           records : Seq(SyncRecord), snapshots : Seq(NoteSnapshot)]

NoPull == [phase |-> "none"]

PullCall == [phase : {"selected", "counted", "answered"}, user : Users,
             since : Nat, page : SUBSET Nat, hasMore : BOOLEAN, latestVer : Nat]

TypeOK ==
    /\ records \in Seq(SyncRecord)
    /\ snapshots \in Seq(NoteSnapshot)
    /\ devices \in [Devices -> Device]
    /\ tx \in {Free} \cup PushTx
    /\ pulls \in [Devices -> {NoPull} \cup PullCall]

-----------------------------------------------------------------------------
(* The queries.  MAX and ORDER BY ... LIMIT are relations: rows that tie   *)
(* come in an order SQL leaves open.                                       *)

RowsOf(u) == {i \in DOMAIN records : records[i].user = u}

\* SELECT COALESCE(MAX(version), 0) FROM sync_records WHERE user_id = u
IsMaxVersion(u, m) ==
    /\ \A i \in RowsOf(u) : records[i].version <= m
    /\ m = 0 \/ \E i \in RowsOf(u) : records[i].version = m

KnownVersions == {0} \cup {records[i].version : i \in DOMAIN records}

SnapshotsOf(u, n) ==
    {i \in DOMAIN snapshots : snapshots[i].user = u /\ snapshots[i].note = n}

\* The rows that may come first in ORDER BY version DESC for one note.
LatestSnapshots(u, n) ==
    IF SnapshotsOf(u, n) = {}
      THEN {0}
      ELSE {i \in SnapshotsOf(u, n) :
              \A j \in SnapshotsOf(u, n) :
                 snapshots[j].version <= snapshots[i].version}

\* The code asks for the notes of the batch; the other entries are not read.
preloadLatestSnapshots(u) ==
    {latest \in [Notes -> {0} \cup DOMAIN snapshots] :
        \A n \in Notes : latest[n] \in LatestSnapshots(u, n)}

RowsAfter(u, since) == {i \in RowsOf(u) : records[i].version > since}

\* Variant: the query without its ORDER BY.
PagesUnordered(u, since, limit) ==
    LET rows == RowsAfter(u, since)
    IN  {page \in SUBSET rows :
           Cardinality(page) =
             IF Cardinality(rows) > limit THEN limit ELSE Cardinality(rows)}

\* SELECT ... WHERE version > since ORDER BY version ASC LIMIT limit
Pages(u, since, limit) ==
    LET rows == RowsAfter(u, since)
    IN  {page \in SUBSET rows :
           /\ Cardinality(page) =
                IF Cardinality(rows) > limit THEN limit ELSE Cardinality(rows)
           /\ \A i \in page, j \in rows \ page :
                 records[i].version <= records[j].version}

-----------------------------------------------------------------------------
(* conflict.go *)

DetectConflict(localVer, serverVer, localData, serverData) ==
    localData # serverData /\ localVer # serverVer

\* Variant: the comparison the wrong way round.
ResolveLastWriteWinsSwapped(localVer, serverVer, localData, serverData) ==
    IF localVer < serverVer THEN localData ELSE serverData

ResolveLastWriteWins(localVer, serverVer, localData, serverData) ==
    IF localVer > serverVer THEN localData ELSE serverData

-----------------------------------------------------------------------------
(* Push *)

Truncated(batch) ==
    IF Len(batch) > PushLimit THEN SubSeq(batch, 1, PushLimit) ELSE batch

\* Begin the transaction and run the two queries every record relies on.
PushBegin(u, d, batch) ==
    /\ tx = Free
    /\ Len(records) + Len(Truncated(batch)) <= MaxRows
    /\ \E m \in KnownVersions, latest \in preloadLatestSnapshots(u) :
         /\ IsMaxVersion(u, m)
         /\ tx' = [phase |-> "open", user |-> u, device |-> d,
                   batch |-> Truncated(batch), todo |-> Truncated(batch),
                   maxVer |-> m, latest |-> latest,
                   records |-> <<>>, snapshots |-> <<>>]
    /\ UNCHANGED <<records, snapshots, devices, pulls>>

\* The payload stored for an input: a stale one that differs loses to the
\* snapshot preloaded for its note.
StoredPayload(input, at) ==
    IF /\ at # 0
       /\ snapshots[at].version > input.version
       /\ DetectConflict(input.version, snapshots[at].version,
                         input.payload, snapshots[at].payload)
      THEN ResolveLastWriteWins(input.version, snapshots[at].version,
                                input.payload, snapshots[at].payload)
      ELSE input.payload

\* Variant: a version chain per note instead of one sequence per user.
AssignedVersionPerNote(at) ==
    IF at # 0 THEN snapshots[at].version + 1 ELSE 1

\* Variant: a new row for a known note reuses the version of its snapshot.
AssignedVersionReused(at) ==
    IF at # 0 THEN snapshots[at].version ELSE tx.maxVer + 1

\* The next number of the user's sequence, moved above the note's snapshot
\* when that one is ahead of it.
AssignedVersion(at) ==
    IF at # 0 /\ tx.maxVer + 1 <= snapshots[at].version
      THEN snapshots[at].version + 1
      ELSE tx.maxVer + 1

\* One turn of the loop of Push: both rows of one record.
PushRecord ==
    /\ tx.phase = "open"
    /\ tx.todo # <<>>
    /\ LET input   == Head(tx.todo)
           at      == tx.latest[input.note]
           newVer  == AssignedVersion(at)
           payload == StoredPayload(input, at)
       IN  tx' = [tx EXCEPT
                    !.todo = Tail(@),
                    !.maxVer = newVer,
                    !.records = Append(@,
                       [user |-> tx.user, device |-> tx.device,
                        note |-> input.note, version |-> newVer,
                        payload |-> payload]),
                    !.snapshots = Append(@,
                       [user |-> tx.user, note |-> input.note,
                        version |-> newVer, payload |-> payload])]
    /\ UNCHANGED <<records, snapshots, devices, pulls>>

\* Variants: the row is looked up by id alone; the cursor is stored one behind;
\* the cursor is stored as the next version.
CanUpdateDeviceById(u, d) == TRUE

updateDeviceSyncBehind(u, d, ver) ==
    devices' = [devices EXCEPT ![d] = [owner |-> u, lastSyncVer |-> ver - 1]]

updateDeviceSyncAhead(u, d, ver) ==
    devices' = [devices EXCEPT ![d] = [owner |-> u, lastSyncVer |-> ver + 1]]

\* updateDeviceSyncTx looks a row up by user and id and inserts one when there
\* is none; devices.id alone is the primary key, so the insertion fails when
\* another user has the id.
CanUpdateDevice(u, d) == devices[d].owner \in {NoUser, u}

updateDeviceSync(u, d, ver) ==
    devices' = [devices EXCEPT ![d] = [owner |-> u, lastSyncVer |-> ver]]

PushCommit ==
    /\ tx.phase = "open"
    /\ tx.todo = <<>>
    /\ CanUpdateDevice(tx.user, tx.device)
    /\ updateDeviceSync(tx.user, tx.device, tx.maxVer)
    /\ records' = records \o tx.records
    /\ snapshots' = snapshots \o tx.snapshots
    /\ tx' = Free
    /\ UNCHANGED pulls

\* Variant: an error path returns without a rollback.
PushRollbackForgotten ==
    /\ tx.phase = "open"
    /\ tx' = [tx EXCEPT !.phase = "leaked"]
    /\ UNCHANGED <<records, snapshots, devices, pulls>>

\* Any statement of the transaction may fail, and updateDeviceSync does for an
\* id another user has: every error path rolls back.
PushRollback ==
    /\ tx.phase = "open"
    /\ tx' = Free
    /\ UNCHANGED <<records, snapshots, devices, pulls>>

-----------------------------------------------------------------------------
(* Pull: three statements, each of which waits for the connection. *)

PullSelect(u, d, since) ==
    /\ tx = Free
    /\ pulls[d] = NoPull
    /\ Cardinality({e \in Devices : pulls[e] # NoPull}) < MaxPulls
    /\ \E page \in Pages(u, since, PullLimit) :
         pulls' = [pulls EXCEPT ![d] =
                     [phase |-> "selected", user |-> u, since |-> since,
                      page |-> page, latestVer |-> 0,
                      hasMore |-> Cardinality(RowsAfter(u, since)) > PullLimit]]
    /\ UNCHANGED <<records, snapshots, devices, tx>>

PullMax(d) ==
    /\ tx = Free
    /\ pulls[d].phase = "selected"
    /\ \E m \in KnownVersions :
         /\ IsMaxVersion(pulls[d].user, m)
         /\ pulls' = [pulls EXCEPT ![d].phase = "counted", ![d].latestVer = m]
    /\ UNCHANGED <<records, snapshots, devices, tx>>

PullUpdateDevice(d) ==
    /\ tx = Free
    /\ pulls[d].phase = "counted"
    /\ CanUpdateDevice(pulls[d].user, d)
    /\ updateDeviceSync(pulls[d].user, d, pulls[d].latestVer)
    /\ pulls' = [pulls EXCEPT ![d].phase = "answered"]
    /\ UNCHANGED <<records, snapshots, tx>>

\* Variant: a failed update of the device row is logged and not answered.
PullFailSwallowed(d) ==
    /\ pulls[d].phase = "selected"
    /\ tx = Free
    /\ pulls' = [pulls EXCEPT ![d] = NoPull]
    /\ UNCHANGED <<records, snapshots, devices, tx>>

\* Any of the statements may fail, and updateDeviceSync does for an id another
\* user has: the handler answers with the error.
PullFail(d) ==
    /\ pulls[d].phase \in {"selected", "counted"}
    /\ tx = Free
    /\ pulls' = [pulls EXCEPT ![d] = NoPull]
    /\ UNCHANGED <<records, snapshots, devices, tx>>

\* The response leaves the handler.
PullReturn(d) ==
    /\ pulls[d].phase = "answered"
    /\ pulls' = [pulls EXCEPT ![d] = NoPull]
    /\ UNCHANGED <<records, snapshots, devices, tx>>

-----------------------------------------------------------------------------
(* ResolveConflict: one transaction of two inserts. *)

\* Variant: only the snapshot is written, no sync record.
ResolveConflictSnapshotOnly(u, n, ver, data) ==
    /\ tx = Free
    /\ Len(records) < MaxRows
    /\ snapshots' = Append(snapshots,
                      [user |-> u, note |-> n, version |-> ver + 1,
                       payload |-> data])
    /\ UNCHANGED <<records, devices, tx, pulls>>

ResolveConflict(u, n, ver, data) ==
    /\ tx = Free
    /\ Len(records) < MaxRows
    /\ snapshots' = Append(snapshots,
                      [user |-> u, note |-> n, version |-> ver + 1,
                       payload |-> data])
    /\ records' = Append(records,
                      [user |-> u, device |-> NoDevice, note |-> n,
                       version |-> ver + 1, payload |-> data])
    /\ UNCHANGED <<devices, tx, pulls>>

-----------------------------------------------------------------------------
\* The process dies and restarts: SQLite drops the open transaction, and the
\* running handlers are gone.
Restart ==
    /\ tx' = Free
    /\ pulls' = [d \in Devices |-> NoPull]
    /\ UNCHANGED <<records, snapshots, devices>>

Init ==
    /\ records = <<>>
    /\ snapshots = <<>>
    /\ devices = [d \in Devices |-> [owner |-> NoUser, lastSyncVer |-> 0]]
    /\ tx = Free
    /\ pulls = [d \in Devices |-> NoPull]

Batches == UNION {[1..k -> SyncRecordInput] : k \in 0..MaxBatch}

Push(u, d) == \E batch \in Batches : PushBegin(u, d, batch)

Pull(d) == PullMax(d) \/ PullUpdateDevice(d) \/ PullFail(d) \/ PullReturn(d)

Next ==
    \/ \E u \in Users, d \in Devices : Push(u, d)
    \/ PushRecord
    \/ PushCommit
    \/ PushRollback
    \/ \E u \in Users, d \in Devices, since \in KnownVersions :
          PullSelect(u, d, since)
    \/ \E d \in Devices : Pull(d)
    \/ \E u \in Users, n \in Notes, ver \in ResolveVersions, data \in Payloads :
          ResolveConflict(u, n, ver, data)
    \/ Restart

Spec == Init /\ [][Next]_vars

-----------------------------------------------------------------------------
(* Safety *)

\* sync_records and note_snapshots tell the same story, row for row: what a
\* device can pull is what the note history holds.  Push and ResolveConflict
\* must each write both tables, whatever fails in between.
RecordsMatchSnapshots ==
    /\ Len(records) = Len(snapshots)
    /\ \A i \in DOMAIN records : snapshots[i] = SnapshotOf(records[i])

\* A pushed row's version exceeds that of every row the user's log held before
\* it, resolutions included: a cursor at any version it has reached never hides
\* a later push.
PushRowsAscend ==
    \A i, j \in DOMAIN records :
        /\ i < j
        /\ records[i].user = records[j].user
        /\ records[j].device # NoDevice
        => records[i].version < records[j].version

\* The snapshots preloaded by a Push are never ahead of the sequence it numbers
\* from, so the branch of Push that moves newVer above latest.Version is dead
\* since ResolveConflict writes a sync record too.
OrderGuardIdle ==
    tx.phase = "open" =>
        \A n \in Notes :
            tx.latest[n] # 0 => snapshots[tx.latest[n]].version <= tx.maxVer

\* A row names a device of its own user: a push or a pull by one user never
\* takes over, or writes under, a device id that another user registered.
DeviceOwnership ==
    \A i \in DOMAIN records :
        records[i].device # NoDevice =>
            devices[records[i].device].owner = records[i].user

\* last_sync_ver never passes the end of its owner's log, although a Pull reads
\* the maximum in one statement and stores it in a later one.
CursorWithinLog ==
    \A d \in Devices :
        \/ devices[d].lastSyncVer = 0
        \/ \E i \in RowsOf(devices[d].owner) :
              devices[d].lastSyncVer <= records[i].version

\* A registered device is its user's alone, and has seen no more than there is.
DevicesSound == DeviceOwnership /\ CursorWithinLog

\* The page a Pull holds stays complete up to its last version while other
\* requests run: no row of the user enters the interval the page covers.
PagesClosed ==
    \A d \in Devices : pulls[d] # NoPull =>
        \A i \in pulls[d].page, j \in RowsAfter(pulls[d].user, pulls[d].since) :
            records[j].version <= records[i].version => j \in pulls[d].page

-----------------------------------------------------------------------------
(* Action properties *)

Latest(u, n) == LatestSnapshots(u, n) \ {0}

CommitBy(u) == tx.phase = "open" /\ tx.user = u /\ snapshots' # snapshots

\* A push whose base is behind the latest snapshot a note had before the batch
\* does not change the note: after the commit the latest content is what it was,
\* or it was pushed by a record whose version was not behind that snapshot.
\* Records of one batch are not compared with each other, nor are resolutions.
NoStaleOverwrite ==
    [][\A u \in Users, n \in Notes : CommitBy(u) =>
        \A i \in Latest(u, n)' :
            \/ \E j \in Latest(u, n) :
                  snapshots'[i].payload = snapshots[j].payload
            \/ \E k \in DOMAIN tx.batch :
                  /\ tx.batch[k].note = n
                  /\ tx.batch[k].payload = snapshots'[i].payload
                  /\ \A j \in Latest(u, n) :
                        snapshots[j].version <= tx.batch[k].version]_vars

\* After a commit the latest snapshot of each note pushed is the row of its last
\* record in the batch: GetNoteLatestVersion then returns the version that push
\* was given.
PushBecomesLatest ==
    [][\A u \in Users, n \in Notes : CommitBy(u) =>
        \A k \in DOMAIN tx.snapshots :
            /\ tx.snapshots[k].note = n
            /\ \A m \in DOMAIN tx.snapshots : m > k => tx.snapshots[m].note # n
            => Latest(u, n)' = {Len(snapshots) + k}]_vars

-----------------------------------------------------------------------------
(* Liveness *)

\* A transaction goes on, to a commit or a rollback.  Other statements wait for
\* the connection, and database/sql hands a freed connection to one of the
\* waiting calls at random: a call that waits is served in the end however many
\* pushes come, hence strong fairness.  None for arriving requests or restarts.
Fairness ==
    /\ WF_vars(PushRecord \/ PushCommit \/ PushRollback)
    /\ \A d \in Devices : SF_vars(Pull(d))

FairSpec == Spec /\ Fairness

\* Whatever fails inside a Push, the only connection is released: were one
\* error path to leave the transaction open, every request would wait forever.
ConnectionReleased == tx.phase = "open" ~> tx = Free

\* Every Pull handler ends, with a response or an error.
PullEnds == \A d \in Devices : pulls[d] # NoPull ~> pulls[d] = NoPull
-----------------------------------------------------------------------------
(* Refinement.  Unless a client resolves a conflict, sync_records is a       *)
(* version feed and the page of a Pull is a read of it.                      *)

ReadOf(pull) ==
    IF pull = NoPull
      THEN [user |-> "nobody"]
      ELSE [user |-> pull.user, since |-> pull.since, page |-> pull.page]

Feed == INSTANCE VersionFeed WITH
            Readers <- Devices,
            Changes <- SyncRecord,
            feed    <- records,
            reads   <- [d \in Devices |-> ReadOf(pulls[d])]

\* Every step of the server publishes, reads or forgets, or shows nothing: the
\* three statements of a Pull and the steps of a Push implement the feed.
ImplementsFeed == Feed!Spec
=============================================================================
