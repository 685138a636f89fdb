------------------------------ MODULE SyncClient ------------------------------
(***************************************************************************)
(* The devices of one account: the Dart SyncService over the sync server.  *)
(* A device pulls from a stored cursor and pushes single notes; a call may *)
(* time out after 30 seconds while its handler runs on, and SyncBloc then  *)
(* repeats it.                                                             *)
(***************************************************************************)
EXTENDS SyncServer

CONSTANTS
    Account,     \* the user all devices are signed in as
    MaxAttempts  \* attempts of one push, RetryPolicy.maxRetries

ASSUME AccountAssumption == Account \in Users
ASSUME AttemptsAssumption == MaxAttempts \in Nat \ {0}
ASSUME SinglePushAssumption == MaxBatch # 0   \* a device pushes one record

VARIABLES
    cursor,   \* sync_last_version of each device
    fetched,  \* history: the rows of sync_records each device was sent
    calls     \* the call each device is waiting for

clientVars == <<cursor, fetched, calls>>
allVars == <<vars, clientVars>>

NoCall == [op |-> "none"]
PullWait == [op |-> "pull"]

\* A push waits with its input and op "push", "stored" or "failed"; attempt counts
\* the requests sent for it and copies, a history variable, those the server has
\* stored.

-----------------------------------------------------------------------------
(* Pull *)

StartPull(d) ==
    /\ calls[d] = NoCall
    /\ PullSelect(Account, d, cursor[d])
    /\ calls' = [calls EXCEPT ![d] = PullWait]
    /\ UNCHANGED <<cursor, fetched>>

\* Variant: the cursor waits until the server has no more pages.
ReceivePullHoldsCursor(d) ==
    /\ calls[d] = PullWait
    /\ PullReturn(d)
    /\ cursor' = IF pulls[d].hasMore THEN cursor
                 ELSE [cursor EXCEPT ![d] = pulls[d].latestVer]
    /\ fetched' = [fetched EXCEPT ![d] = @ \cup pulls[d].page]
    /\ calls' = [calls EXCEPT ![d] = NoCall]

\* _performPull keeps the cursor when the page is empty and otherwise stores
\* latest_version, whatever has_more says.
ReceivePull(d) ==
    /\ calls[d] = PullWait
    /\ PullReturn(d)
    /\ LET page == pulls[d].page IN
         /\ cursor' = IF page = {} THEN cursor
                      ELSE [cursor EXCEPT ![d] = pulls[d].latestVer]
         /\ fetched' = [fetched EXCEPT ![d] = @ \cup page]
    /\ calls' = [calls EXCEPT ![d] = NoCall]

\* The device gives up its call, or is answered with an error; the handler's
\* answer comes too late.
PullTimeout(d) ==
    /\ calls[d] = PullWait
    /\ calls' = [calls EXCEPT ![d] = NoCall]
    /\ UNCHANGED <<vars, cursor, fetched>>

AnswerLost(d) ==
    /\ calls[d] # PullWait
    /\ PullReturn(d)
    /\ UNCHANGED clientVars

-----------------------------------------------------------------------------
(* Push *)

\* The versions of notes a device can base an edit on.  The push sends whatever
\* "version" the note's JSON has; that none is above the cursor is an assumption
\* on the app, whose notes have no version and are pushed at 0.
BaseVersions(d) == {v \in InputVersions : v <= cursor[d]}

StartPush(d, input) ==
    /\ calls[d] = NoCall
    /\ input.version \in BaseVersions(d)
    /\ PushBegin(Account, d, <<input>>)
    /\ calls' = [calls EXCEPT ![d] =
                   [op |-> "push", input |-> input, attempt |-> 1, copies |-> 0]]
    /\ UNCHANGED <<cursor, fetched>>

\* The commit: the answer is on its way to a device that still waits.
StorePush(d) ==
    /\ PushCommit
    /\ tx.device = d
    /\ calls' = [calls EXCEPT
                   ![d].copies = @ + 1,
                   ![d].op = IF @ = "push" THEN "stored" ELSE @]
    /\ UNCHANGED <<cursor, fetched>>

FailPush(d) ==
    /\ PushRollback
    /\ tx.device = d
    /\ calls' = [calls EXCEPT ![d].op = "failed"]
    /\ UNCHANGED <<cursor, fetched>>

\* pushChanges ends; the response, conflicts included, is not looked at.
ReceivePush(d) ==
    /\ calls[d].op = "stored"
    /\ calls' = [calls EXCEPT ![d] = NoCall]
    /\ UNCHANGED <<vars, cursor, fetched>>

PushTimeout(d) ==
    /\ calls[d].op \in {"push", "stored"}
    /\ calls' = [calls EXCEPT ![d].op = "failed"]
    /\ UNCHANGED <<vars, cursor, fetched>>

\* _withRetry sends the same request again, with no idempotency key.
RetryPush(d) ==
    /\ calls[d].op = "failed"
    /\ calls[d].attempt < MaxAttempts
    /\ PushBegin(Account, d, <<calls[d].input>>)
    /\ calls' = [calls EXCEPT ![d].op = "push", ![d].attempt = @ + 1]
    /\ UNCHANGED <<cursor, fetched>>

\* The last attempt failed: the event goes to the offline queue.
GiveUpPush(d) ==
    /\ calls[d].op = "failed"
    /\ calls[d].attempt = MaxAttempts
    /\ tx = Free
    /\ calls' = [calls EXCEPT ![d] = NoCall]
    /\ UNCHANGED <<vars, cursor, fetched>>

-----------------------------------------------------------------------------
\* The app resolves conflicts of its account; the server alone goes on.
Resolve ==
    /\ \E n \in Notes, ver \in ResolveVersions, data \in Payloads :
          ResolveConflict(Account, n, ver, data)
    /\ UNCHANGED clientVars

ServerStep ==
    /\ \/ PushRecord
       \/ \E d \in Devices : PullMax(d) \/ PullUpdateDevice(d) \/ PullFail(d)
    /\ UNCHANGED clientVars

ClientInit ==
    /\ Init
    /\ cursor = [d \in Devices |-> 0]
    /\ fetched = [d \in Devices |-> {}]
    /\ calls = [d \in Devices |-> NoCall]

ClientNext ==
    \/ \E d \in Devices :
         \/ StartPull(d) \/ ReceivePull(d) \/ PullTimeout(d) \/ AnswerLost(d)
         \/ \E input \in SyncRecordInput : StartPush(d, input)
         \/ StorePush(d) \/ FailPush(d) \/ ReceivePush(d) \/ PushTimeout(d)
         \/ RetryPush(d) \/ GiveUpPush(d)
    \/ Resolve
    \/ ServerStep

ClientSpec == ClientInit /\ [][ClientNext]_allVars

-----------------------------------------------------------------------------
(* Properties *)

\* A device is sent no row twice, whatever answers it lost and whatever was
\* stored while its pull ran: the cursor it saves covers the page it was given.
DeliveredOnce ==
    [][\A d \in Devices :
         calls[d] = PullWait /\ pulls[d] # NoPull /\ pulls'[d] = NoPull =>
            fetched[d] \cap pulls[d].page = {}]_allVars

\* A push that is repeated after its answer was lost never changes the note
\* again: the second copy carries the content the note already has, or loses to
\* the content another device has stored since.
RetryKeepsContent ==
    [][\A d \in Devices, n \in Notes :
         /\ CommitBy(Account)
         /\ tx.device = d
         /\ calls[d].copies > 0
         => {snapshots'[i].payload : i \in Latest(Account, n)'}
              \subseteq {snapshots[i].payload : i \in Latest(Account, n)}]_allVars

\* Push numbers the records of a user "so that Pull's version > ? works": the
\* cursor has passed only rows the device was sent.
NoRecordSkipped ==
    \A d \in Devices : \A i \in RowsOf(Account) :
        records[i].version <= cursor[d] => i \in fetched[d]

\* A conflict resolution is a sync record "so that other devices can pull it":
\* no cursor has passed it before the device was sent it.
ResolutionReachesDevices ==
    \A d \in Devices : \A i \in RowsOf(Account) :
        records[i].device = NoDevice /\ records[i].version <= cursor[d] =>
            i \in fetched[d]
=============================================================================
