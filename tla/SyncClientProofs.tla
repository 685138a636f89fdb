--------------------------- MODULE SyncClientProofs ---------------------------
(***************************************************************************)
(* What TLAPS proves of SyncClient: whatever answers are lost, a device is *)
(* sent no row twice, and a push that is repeated after it was stored      *)
(* leaves the content of its note alone.                                   *)
(***************************************************************************)
EXTENDS SyncClient, SyncServerProofs

-----------------------------------------------------------------------------
(* The inductive invariant *)

PushCall == [op : {"push", "stored", "failed"}, input : SyncRecordInput,
             attempt : Nat, copies : Nat]

ClientTypes ==
    /\ cursor \in [Devices -> Nat]
    /\ fetched \in [Devices -> SUBSET Nat]
    /\ calls \in [Devices -> {NoCall, PullWait} \cup PushCall]

\* v is 0 or the version of some row of the account.
Known(rows, v) ==
    v = 0 \/ \E i \in DOMAIN rows : rows[i].user = Account /\ rows[i].version = v

\* A device was sent only rows up to its cursor, and the cursor is a version of
\* the account.
CursorsCover ==
    \A d \in Devices :
        /\ Known(records, cursor[d])
        /\ \A i \in fetched[d] :
              i \in DOMAIN records /\ records[i].version <= cursor[d]

\* The page of a pull lies above the cursor it started from, and the maximum the
\* pull has read covers the page.
PullSound(pull, rows, from) ==
    /\ pull.user = Account
    /\ Known(rows, pull.latestVer)
    /\ \A i \in pull.page :
          /\ i \in DOMAIN rows /\ rows[i].user = Account
          /\ rows[i].version > from
          /\ pull.phase # "selected" => rows[i].version <= pull.latestVer

\* A pull that runs, awaited or given up, started from the cursor the device
\* still has.
PullsSound ==
    \A d \in Devices : pulls[d] # NoPull => PullSound(pulls[d], records, cursor[d])

\* A note has a snapshot above the base version of an input.
Overtaken(rows, input) ==
    \E i \in DOMAIN rows :
        /\ rows[i].user = Account /\ rows[i].note = input.note
        /\ rows[i].version > input.version

\* The base version of a push is one the account has reached, and a copy the
\* server has stored is ahead of it.
CallSound(call, log, history) ==
    /\ Reached(log, Account, call.input.version)
    /\ call.copies > 0 => Overtaken(history, call.input)

CallsSound ==
    \A d \in Devices :
        calls[d] \in PushCall => CallSound(calls[d], records, snapshots)

\* The open transaction is the push its device sent last, and numbers it above
\* its base version.
TxIsCall ==
    tx.phase = "open" =>
        /\ tx.user = Account
        /\ calls[tx.device] \in PushCall
        /\ calls[tx.device].op # "stored"
        /\ tx.batch = <<calls[tx.device].input>>
        /\ calls[tx.device].input.version <= tx.maxVer
        /\ \A k \in DOMAIN tx.snapshots :
              tx.snapshots[k].version > calls[tx.device].input.version

CInv ==
    /\ IInv
    /\ BatchSound
    /\ ClientTypes
    /\ CursorsCover
    /\ PullsSound
    /\ CallsSound
    /\ TxIsCall

-----------------------------------------------------------------------------
(* Steps of the devices are steps of the server *)

\* Every step is one of the actions, with its parameters named.
LEMMA ClientCases ==
    ASSUME ClientNext
    PROVE  \/ \E d \in Devices : StartPull(d)
           \/ \E d \in Devices : ReceivePull(d)
           \/ \E d \in Devices : PullTimeout(d)
           \/ \E d \in Devices : AnswerLost(d)
           \/ \E d \in Devices, input \in SyncRecordInput : StartPush(d, input)
           \/ \E d \in Devices : StorePush(d)
           \/ \E d \in Devices : FailPush(d)
           \/ \E d \in Devices : ReceivePush(d)
           \/ \E d \in Devices : PushTimeout(d)
           \/ \E d \in Devices : RetryPush(d)
           \/ \E d \in Devices : GiveUpPush(d)
           \/ Resolve
           \/ ServerStep
BY DEF ClientNext

\* The three kinds of call are told apart by their op.
LEMMA CallKinds ==
    /\ NoCall # PullWait
    /\ \A call \in PushCall :
          /\ call # NoCall /\ call # PullWait
          /\ call.op \in {"push", "stored", "failed"}
          /\ call.input \in SyncRecordInput
          /\ call.attempt \in Nat /\ call.copies \in Nat
    /\ NoCall.op \notin {"push", "stored", "failed"}
    /\ PullWait.op \notin {"push", "stored", "failed"}
<1>1. NoCall.op = "none" /\ PullWait.op = "pull"
  BY DEF NoCall, PullWait
<1>2. \A call \in PushCall :
          /\ call.op \in {"push", "stored", "failed"}
          /\ call.input \in SyncRecordInput
          /\ call.attempt \in Nat /\ call.copies \in Nat
  BY DEF PushCall
<1>. QED
  BY <1>1, <1>2

\* A push of one record is a request of the server, whole.
LEMMA SinglePush ==
    ASSUME NEW input \in SyncRecordInput
    PROVE  /\ <<input>> \in Batches
           /\ Truncated(<<input>>) = <<input>>
<1>1. <<input>> \in [1..1 -> SyncRecordInput]
  OBVIOUS
<1>2. 1 \in 0..MaxBatch
  BY LimitsAssumption, SinglePushAssumption
<1>3. Truncated(<<input>>) = <<input>>
  BY LimitsAssumption DEF Truncated
<1>. QED
  BY <1>1, <1>2, <1>3 DEF Batches

LEMMA KnownFacts ==
    ASSUME NEW v, Known(records, v)
    PROVE  v \in KnownVersions /\ (TypeOK => v \in Nat /\ Reached(records, Account, v))
<1>1. v \in KnownVersions
  BY DEF Known, KnownVersions
<1>2. ASSUME TypeOK PROVE v \in Nat
  BY <1>1, <1>2, KnownVersionsType
<1>3. ASSUME TypeOK PROVE Reached(records, Account, v)
  BY <1>2, <1>3 DEF Known, Reached
<1>. QED
  BY <1>1, <1>2, <1>3

LEMMA ServerStepTaken == ASSUME CInv, [ClientNext]_allVars PROVE [Next]_vars
<1>1. ASSUME NEW d \in Devices, StartPull(d) PROVE Next
  <2>1. cursor[d] \in KnownVersions
    BY KnownFacts DEF CInv, CursorsCover
  <2>. QED
    BY <1>1, <2>1, AccountAssumption DEF StartPull, Next
<1>2. ASSUME NEW d \in Devices, NEW input \in SyncRecordInput,
             PushBegin(Account, d, <<input>>)
      PROVE  Next
  BY <1>2, SinglePush, AccountAssumption DEF Push, Next
<1>3. ASSUME NEW d \in Devices, RetryPush(d) PROVE Next
  <2>1. calls[d] \in PushCall
    BY <1>3, CallKinds DEF RetryPush, CInv, ClientTypes
  <2>2. calls[d].input \in SyncRecordInput
    BY <2>1, CallKinds
  <2>. QED
    BY <1>2, <1>3, <2>2 DEF RetryPush
<1>4. ASSUME Resolve PROVE Next
  BY <1>4, AccountAssumption DEF Resolve, Next
<1>5. ASSUME ServerStep PROVE Next
  BY <1>5 DEF ServerStep, Next, Pull
<1>6. ASSUME NEW d \in Devices, ReceivePull(d) \/ AnswerLost(d) PROVE Next
  BY <1>6 DEF ReceivePull, AnswerLost, Next, Pull
<1>7. ASSUME NEW d \in Devices, StorePush(d) \/ FailPush(d) PROVE Next
  BY <1>7 DEF StorePush, FailPush, Next
<1>8. ASSUME NEW d \in Devices,
             PullTimeout(d) \/ ReceivePush(d) \/ PushTimeout(d) \/ GiveUpPush(d)
      PROVE  UNCHANGED vars
  BY <1>8 DEF PullTimeout, ReceivePush, PushTimeout, GiveUpPush
<1>9. ASSUME NEW d \in Devices, NEW input \in SyncRecordInput, StartPush(d, input)
      PROVE  Next
  BY <1>2, <1>9 DEF StartPush
<1>10. ASSUME UNCHANGED allVars PROVE UNCHANGED vars
  BY <1>10 DEF allVars
<1>. QED
  BY ClientCases, <1>1, <1>3, <1>4, <1>5, <1>6, <1>7, <1>8, <1>9, <1>10

-----------------------------------------------------------------------------
(* What is known stays known *)

\* Snapshots are never removed or changed.
LEMMA HistoryStays ==
    ASSUME IInv, [Next]_vars
    PROVE  \A i \in DOMAIN snapshots :
              i \in DOMAIN snapshots' /\ snapshots'[i] = snapshots[i]
<1>1. snapshots \in Seq(NoteSnapshot) /\ snapshots' \in Seq(NoteSnapshot)
  BY TypeInductive DEF IInv, TypeOK
<1>2. CASE UNCHANGED <<records, snapshots>>
  BY <1>2
<1>3. CASE PushCommit
  BY <1>1, <1>3, CommittedRows DEF PushTx
<1>4. ASSUME NEW u \in Users, NEW n \in Notes, NEW ver \in ResolveVersions,
             NEW data \in Payloads, ResolveConflict(u, n, ver, data)
      PROVE  \A i \in DOMAIN snapshots :
                i \in DOMAIN snapshots' /\ snapshots'[i] = snapshots[i]
  BY <1>1, <1>4, ResolvedRows
<1>. QED
  BY TablesChange, <1>2, <1>3, <1>4

LEMMA KnownStays ==
    ASSUME IInv, [Next]_vars
    PROVE  /\ \A v : Known(records, v) => Known(records', v)
           /\ \A pull, v : PullSound(pull, records, v) => PullSound(pull, records', v)
           /\ \A call : CallSound(call, records, snapshots)
                          => CallSound(call, records', snapshots')
<1>1. \A v : Known(records, v) => Known(records', v)
  BY RowsStay DEF Known
<1>2. ASSUME NEW pull, NEW v, PullSound(pull, records, v)
      PROVE  PullSound(pull, records', v)
  BY <1>1, <1>2, RowsStay DEF PullSound
<1>3. ASSUME NEW call, CallSound(call, records, snapshots)
      PROVE  CallSound(call, records', snapshots')
  <2>1. Overtaken(snapshots, call.input) => Overtaken(snapshots', call.input)
    BY HistoryStays DEF Overtaken
  <2>. QED
    BY <1>3, <2>1, ReachedStays DEF CallSound
<1>. QED
  BY <1>1, <1>2, <1>3

-----------------------------------------------------------------------------
(* The steps keep the invariant *)

LEMMA ClientTypesInductive ==
    ASSUME CInv, [ClientNext]_allVars PROVE ClientTypes'
<1>. USE DEF ClientTypes
<1>1. ClientTypes /\ TypeOK
  BY DEF CInv, IInv
<1>2. ASSUME NEW d \in Devices,
             StartPull(d) \/ PullTimeout(d) \/ ReceivePush(d) \/ GiveUpPush(d)
      PROVE  ClientTypes'
  BY <1>1, <1>2 DEF StartPull, PullTimeout, ReceivePush, GiveUpPush
<1>3. ASSUME NEW d \in Devices, ReceivePull(d) PROVE ClientTypes'
  <2>1. pulls[d] \in PullCall
    BY <1>1, <1>3 DEF ReceivePull, PullReturn, TypeOK, NoPull
  <2>2. pulls[d].latestVer \in Nat /\ pulls[d].page \in SUBSET Nat
    BY <2>1 DEF PullCall
  <2>3. cursor' \in [Devices -> Nat]
    BY <1>1, <1>3, <2>2 DEF ReceivePull
  <2>4. fetched' \in [Devices -> SUBSET Nat]
    BY <1>1, <1>3, <2>2 DEF ReceivePull
  <2>5. calls' \in [Devices -> {NoCall, PullWait} \cup PushCall]
    BY <1>1, <1>3 DEF ReceivePull
  <2>. QED
    BY <2>3, <2>4, <2>5
<1>4. ASSUME NEW d \in Devices, NEW input \in SyncRecordInput, StartPush(d, input)
      PROVE  ClientTypes'
  <2>1. [op |-> "push", input |-> input, attempt |-> 1, copies |-> 0] \in PushCall
    BY DEF PushCall
  <2>. QED
    BY <1>1, <1>4, <2>1 DEF StartPush
<1>5. ASSUME NEW d \in Devices, NEW call \in PushCall, calls[d] \in PushCall,
             calls' = [calls EXCEPT ![d] = call], UNCHANGED <<cursor, fetched>>
      PROVE  ClientTypes'
  BY <1>1, <1>5
<1>6. ASSUME NEW d \in Devices, StorePush(d) PROVE ClientTypes'
  <2>. DEFINE op == IF calls[d].op = "push" THEN "stored" ELSE calls[d].op
              copies == calls[d].copies + 1
              call == [calls[d] EXCEPT !.copies = copies, !.op = op]
  <2>1. calls[d] \in PushCall
    BY <1>6 DEF StorePush, PushCommit, CInv, TxIsCall
  <2>2. call \in PushCall
    <3>1. op \in {"push", "stored", "failed"} /\ copies \in Nat
      BY <2>1, CallKinds
    <3>. HIDE DEF op, copies
    <3>. QED
      BY <2>1, <3>1 DEF PushCall
  <2>3. calls' = [calls EXCEPT ![d] = call]
    BY <1>6, <1>1, <2>1 DEF StorePush, PushCall
  <2>. QED
    BY <1>5, <1>6, <2>1, <2>2, <2>3 DEF StorePush
<1>7. ASSUME NEW d \in Devices, FailPush(d) \/ PushTimeout(d) PROVE ClientTypes'
  <2>1. calls[d] \in PushCall
    <3>1. CASE FailPush(d)
      BY <3>1 DEF FailPush, PushRollback, CInv, TxIsCall
    <3>2. CASE PushTimeout(d)
      BY <1>1, <3>2, CallKinds DEF PushTimeout
    <3>. QED
      BY <1>7, <3>1, <3>2
  <2>. DEFINE call == [calls[d] EXCEPT !.op = "failed"]
  <2>2. call \in PushCall
    BY <2>1 DEF PushCall
  <2>3. calls' = [calls EXCEPT ![d] = call] /\ UNCHANGED <<cursor, fetched>>
    BY <1>7, <1>1 DEF FailPush, PushTimeout
  <2>. QED
    BY <1>5, <2>1, <2>2, <2>3
<1>8. ASSUME NEW d \in Devices, RetryPush(d) PROVE ClientTypes'
  <2>1. calls[d] \in PushCall
    BY <1>1, <1>8, CallKinds DEF RetryPush
  <2>. DEFINE attempt == calls[d].attempt + 1
              call == [calls[d] EXCEPT !.op = "push", !.attempt = attempt]
  <2>2. call \in PushCall
    <3>1. attempt \in Nat
      BY <2>1, CallKinds
    <3>. HIDE DEF attempt
    <3>. QED
      BY <2>1, <3>1 DEF PushCall
  <2>3. calls' = [calls EXCEPT ![d] = call]
    BY <1>8, <1>1, <2>1 DEF RetryPush, PushCall
  <2>. QED
    BY <1>5, <1>8, <2>1, <2>2, <2>3 DEF RetryPush
<1>9. ASSUME UNCHANGED clientVars PROVE ClientTypes'
  BY <1>1, <1>9 DEF clientVars
<1>. QED
  BY ClientCases, <1>2, <1>3, <1>4, <1>6, <1>7, <1>8, <1>9
     DEF AnswerLost, Resolve, ServerStep, allVars

\* The cursor of a device moves when it receives a page, to a version no lower
\* than those of the page.
LEMMA CursorsInductive ==
    ASSUME CInv, [ClientNext]_allVars PROVE CursorsCover'
<1>1. /\ IInv /\ TypeOK /\ ClientTypes /\ CursorsCover /\ [Next]_vars
      /\ \A i \in DOMAIN records : i \in DOMAIN records' /\ records'[i] = records[i]
  BY ServerStepTaken, RowsStay DEF CInv, IInv
<1>2. ASSUME NEW d \in Devices, cursor'[d] = cursor[d], fetched'[d] = fetched[d]
      PROVE  /\ Known(records', cursor'[d])
             /\ \A i \in fetched'[d] :
                   i \in DOMAIN records' /\ records'[i].version <= cursor'[d]
  BY <1>1, <1>2, KnownStays DEF CursorsCover
<1>3. ASSUME NEW d \in Devices, ReceivePull(d)
      PROVE  /\ Known(records', cursor'[d])
             /\ \A i \in fetched'[d] :
                   i \in DOMAIN records' /\ records'[i].version <= cursor'[d]
  <2>1. /\ pulls[d] # NoPull /\ pulls[d].phase = "answered"
        /\ UNCHANGED records
    BY <1>3 DEF ReceivePull, PullReturn, NoPull
  <2>2. PullSound(pulls[d], records, cursor[d])
    BY <2>1 DEF CInv, PullsSound
  <2>3. CASE pulls[d].page = {}
    <3>1. cursor'[d] = cursor[d] /\ fetched'[d] = fetched[d]
      BY <1>1, <1>3, <2>3 DEF ReceivePull, ClientTypes
    <3>. QED
      BY <1>2, <3>1
  <2>4. CASE pulls[d].page # {}
    <3>1. /\ cursor'[d] = pulls[d].latestVer
          /\ fetched'[d] = fetched[d] \cup pulls[d].page
      BY <1>1, <1>3, <2>4 DEF ReceivePull, ClientTypes
    <3>2. \A i \in pulls[d].page :
             /\ i \in DOMAIN records
             /\ cursor[d] < records[i].version
             /\ records[i].version <= pulls[d].latestVer
      BY <2>1, <2>2 DEF PullSound
    <3>3. /\ cursor[d] \in Nat /\ pulls[d].latestVer \in Nat
          /\ \A i \in DOMAIN records : records[i].version \in Nat
      BY <1>1, <2>2, KnownFacts, RowType DEF ClientTypes, PullSound
    <3>4. cursor[d] <= pulls[d].latestVer
      <4>1. PICK i \in pulls[d].page : TRUE
        BY <2>4
      <4>. QED
        BY <3>2, <3>3, <4>1
    <3>5. \A i \in fetched[d] :
             i \in DOMAIN records /\ records[i].version <= cursor[d]
      BY <1>1 DEF CursorsCover
    <3>6. \A i \in fetched[d] :
             i \in DOMAIN records /\ records[i].version <= pulls[d].latestVer
      BY <3>3, <3>4, <3>5
    <3>. QED
      BY <2>1, <2>2, <3>1, <3>2, <3>6 DEF PullSound
  <2>. QED
    BY <2>3, <2>4
<1>4. ASSUME NEW d \in Devices, ReceivePull(d), NEW e \in Devices, e # d
      PROVE  cursor'[e] = cursor[e] /\ fetched'[e] = fetched[e]
  BY <1>1, <1>4 DEF ReceivePull, ClientTypes
<1>5. (\E d \in Devices : ReceivePull(d)) \/ UNCHANGED <<cursor, fetched>>
  BY ClientCases
     DEF StartPull, PullTimeout, AnswerLost, StartPush, StorePush, FailPush,
         ReceivePush, PushTimeout, RetryPush, GiveUpPush, Resolve, ServerStep,
         clientVars, allVars
<1>. QED
  BY <1>2, <1>3, <1>4, <1>5 DEF CursorsCover

\* While a pull runs its device keeps the cursor it started from.
LEMMA PullsInductive ==
    ASSUME CInv, [ClientNext]_allVars PROVE PullsSound'
<1>1. /\ IInv /\ TypeOK /\ ClientTypes /\ PullsSound /\ [Next]_vars
  BY ServerStepTaken DEF CInv, IInv
<1>2. ASSUME NEW d \in Devices, UNCHANGED <<pulls[d], cursor[d]>>, pulls'[d] # NoPull
      PROVE  PullSound(pulls'[d], records', cursor'[d])
  BY <1>1, <1>2, KnownStays DEF PullsSound
<1>3. ASSUME NEW d \in Devices, NEW call, pulls' = [pulls EXCEPT ![d] = call],
             \A e \in Devices : e # d => cursor'[e] = cursor[e],
             call = NoPull \/ PullSound(call, records', cursor'[d])
      PROVE  PullsSound'
  <2>1. pulls'[d] = call /\ \A e \in Devices : e # d => pulls'[e] = pulls[e]
    BY <1>1, <1>3 DEF TypeOK
  <2>. QED
    BY <1>2, <1>3, <2>1 DEF PullsSound
<1>4. ASSUME NEW d \in Devices, StartPull(d) PROVE PullsSound'
  <2>1. PullSelect(Account, d, cursor[d]) /\ UNCHANGED <<records, cursor>>
    BY <1>4 DEF StartPull, PullSelect
  <2>2. PICK page \in Pages(Account, cursor[d], PullLimit) :
           pulls' = [pulls EXCEPT ![d] =
                       [phase |-> "selected", user |-> Account,
                        since |-> cursor[d], page |-> page, latestVer |-> 0,
                        hasMore |-> Cardinality(RowsAfter(Account, cursor[d]))
                                      > PullLimit]]
    BY <2>1 DEF PullSelect
  <2>. DEFINE more == Cardinality(RowsAfter(Account, cursor[d])) > PullLimit
              call == [phase |-> "selected", user |-> Account,
                       since |-> cursor[d], page |-> page, latestVer |-> 0,
                       hasMore |-> more]
  <2>. HIDE DEF more
  <2>3. pulls' = [pulls EXCEPT ![d] = call]
    BY <2>2 DEF more
  <2>4. page \subseteq RowsAfter(Account, cursor[d])
    BY DEF Pages
  <2>5. PullSound(call, records, cursor[d])
    <3>1. call.user = Account /\ call.page = page /\ call.phase = "selected"
          /\ call.latestVer = 0
      OBVIOUS
    <3>. HIDE DEF call
    <3>. QED
      BY <2>4, <3>1 DEF PullSound, Known, RowsAfter, RowsOf
  <2>. QED
    BY <1>3, <2>1, <2>3, <2>5
<1>5. ASSUME NEW d \in Devices, PullMax(d), UNCHANGED cursor PROVE PullsSound'
  <2>1. PICK m \in KnownVersions :
           /\ IsMaxVersion(pulls[d].user, m)
           /\ pulls' = [pulls EXCEPT ![d].phase = "counted", ![d].latestVer = m]
    BY <1>5 DEF PullMax
  <2>2. /\ pulls[d] \in PullCall /\ pulls[d] # NoPull
        /\ pulls[d].phase = "selected" /\ UNCHANGED records
    BY <1>1, <1>5 DEF PullMax, TypeOK, NoPull
  <2>. DEFINE call == [pulls[d] EXCEPT !.phase = "counted", !.latestVer = m]
  <2>3. pulls' = [pulls EXCEPT ![d] = call]
    BY <1>1, <2>1, <2>2 DEF TypeOK, PullCall
  <2>4. /\ call.user = pulls[d].user /\ call.page = pulls[d].page
        /\ call.latestVer = m
    BY <2>2 DEF PullCall
  <2>. HIDE DEF call
  <2>5. PullSound(pulls[d], records, cursor[d])
    BY <1>1, <2>2 DEF PullsSound
  <2>6. Known(records, m)
    BY <2>1, <2>5 DEF IsMaxVersion, Known, RowsOf, PullSound
  <2>7. \A i \in pulls[d].page : records[i].version <= m
    BY <2>1, <2>5 DEF IsMaxVersion, RowsOf, PullSound
  <2>8. PullSound(call, records, cursor[d])
    BY <2>4, <2>5, <2>6, <2>7 DEF PullSound
  <2>. QED
    BY <1>3, <1>5, <2>2, <2>3, <2>8
<1>6. ASSUME NEW d \in Devices, PullUpdateDevice(d), UNCHANGED cursor
      PROVE  PullsSound'
  <2>1. /\ pulls[d] \in PullCall /\ pulls[d] # NoPull
        /\ pulls[d].phase = "counted" /\ UNCHANGED records
    BY <1>1, <1>6 DEF PullUpdateDevice, TypeOK, NoPull
  <2>. DEFINE call == [pulls[d] EXCEPT !.phase = "answered"]
  <2>2. pulls' = [pulls EXCEPT ![d] = call]
    BY <1>1, <1>6, <2>1 DEF PullUpdateDevice, TypeOK, PullCall
  <2>3. /\ call.user = pulls[d].user /\ call.page = pulls[d].page
        /\ call.latestVer = pulls[d].latestVer
    BY <2>1 DEF PullCall
  <2>. HIDE DEF call
  <2>4. PullSound(call, records, cursor[d])
    BY <1>1, <2>1, <2>3 DEF PullSound, PullsSound
  <2>. QED
    BY <1>3, <1>6, <2>1, <2>2, <2>4
<1>7. ASSUME NEW d \in Devices, PullFail(d) \/ PullReturn(d),
             \A e \in Devices : e # d => cursor'[e] = cursor[e]
      PROVE  PullsSound'
  BY <1>3, <1>7 DEF PullFail, PullReturn
<1>8. ASSUME NEW d \in Devices, ReceivePull(d) PROVE PullsSound'
  BY <1>1, <1>7, <1>8 DEF ReceivePull, ClientTypes
<1>9. ASSUME NEW d \in Devices, AnswerLost(d) PROVE PullsSound'
  BY <1>7, <1>9 DEF AnswerLost, clientVars
<1>10. ASSUME UNCHANGED <<pulls, cursor>> PROVE PullsSound'
  BY <1>2, <1>10 DEF PullsSound
<1>11. ASSUME ServerStep PROVE PullsSound'
  BY <1>5, <1>6, <1>7, <1>10, <1>11 DEF ServerStep, clientVars, PushRecord
<1>. QED
  BY ClientCases, <1>4, <1>8, <1>9, <1>10, <1>11
     DEF PullTimeout, StartPush, StorePush, FailPush, ReceivePush, PushTimeout,
         RetryPush, GiveUpPush, Resolve, PushBegin, PushCommit, PushRollback,
         ResolveConflict, allVars, vars, clientVars

\* What a commit stores for the push of a device is ahead of its base version.
LEMMA StoredAhead ==
    ASSUME CInv, PushCommit
    PROVE  Overtaken(snapshots', calls[tx.device].input)
<1>. DEFINE input == calls[tx.device].input
<1>1. /\ tx \in PushTx /\ tx.phase = "open" /\ tx.todo = <<>>
      /\ tx.batch = <<input>> /\ tx.user = Account
      /\ TodoSound /\ RowsSound
  BY OpenTx DEF PushCommit, CInv, IInv, TxIsCall, BatchSound
<1>2. /\ tx.snapshots \in Seq(NoteSnapshot) /\ tx.records \in Seq(SyncRecord)
      /\ snapshots \in Seq(NoteSnapshot)
      /\ Len(tx.records) = Len(tx.snapshots)
  BY <1>1 DEF PushTx, CInv, IInv, TypeOK, TxSound
<1>3. Len(tx.snapshots) = 1
  <2>1. Len(tx.batch) = Len(tx.snapshots) + Len(tx.todo)
    BY <1>1 DEF TodoSound
  <2>2. Len(tx.batch) = 1 /\ Len(tx.todo) = 0
    BY <1>1
  <2>3. Len(tx.snapshots) \in Nat
    BY <1>2
  <2>. QED
    BY <2>1, <2>2, <2>3
<1>4. 1 \in DOMAIN tx.snapshots /\ 1 \in DOMAIN tx.records
  BY <1>2, <1>3
<1>5. tx.snapshots[1].note = input.note
  BY <1>1, <1>4 DEF RowsSound
<1>6. tx.snapshots[1].version > input.version
  BY <1>1, <1>4 DEF CInv, TxIsCall
<1>7. tx.snapshots[1].user = Account
  <2>1. /\ tx.records[1].user = Account
        /\ tx.snapshots[1] = SnapshotOf(tx.records[1])
    BY <1>1, <1>4 DEF CInv, IInv, TxSound
  <2>. QED
    BY <2>1 DEF SnapshotOf
<1>8. /\ Len(snapshots) + 1 \in DOMAIN snapshots'
      /\ snapshots'[Len(snapshots) + 1] = tx.snapshots[1]
  <2>1. snapshots' = snapshots \o tx.snapshots
    BY DEF PushCommit
  <2>. QED
    BY <1>2, <1>3, <2>1
<1>. QED
  BY <1>5, <1>6, <1>7, <1>8 DEF Overtaken

\* A retry sends the input of the call it repeats, and a commit makes that call
\* one copy older.
LEMMA CallsInductive ==
    ASSUME CInv, [ClientNext]_allVars PROVE CallsSound'
<1>1. /\ IInv /\ TypeOK /\ ClientTypes /\ CallsSound /\ [Next]_vars
  BY ServerStepTaken DEF CInv, IInv
<1>2. ASSUME NEW d \in Devices, calls'[d] \in PushCall, calls[d] \in PushCall,
             calls'[d].input = calls[d].input, calls'[d].copies = calls[d].copies
      PROVE  CallSound(calls'[d], records', snapshots')
  <2>1. CallSound(calls[d], records', snapshots')
    BY <1>1, <1>2, KnownStays DEF CallsSound
  <2>. QED
    BY <1>2, <2>1 DEF CallSound
<1>3. ASSUME NEW d \in Devices, NEW call, calls' = [calls EXCEPT ![d] = call],
             call \in PushCall => CallSound(call, records', snapshots')
      PROVE  CallsSound'
  <2>1. calls'[d] = call /\ \A e \in Devices : e # d => calls'[e] = calls[e]
    BY <1>1, <1>3 DEF ClientTypes
  <2>. QED
    BY <1>2, <1>3, <2>1 DEF CallsSound
<1>4. ASSUME NEW d \in Devices, StartPull(d) \/ ReceivePull(d) \/ PullTimeout(d)
                                \/ ReceivePush(d) \/ GiveUpPush(d)
      PROVE  CallsSound'
  BY <1>3, <1>4, CallKinds
     DEF StartPull, ReceivePull, PullTimeout, ReceivePush, GiveUpPush
<1>5. ASSUME NEW d \in Devices, NEW input \in SyncRecordInput, StartPush(d, input)
      PROVE  CallsSound'
  <2>. DEFINE call == [op |-> "push", input |-> input, attempt |-> 1, copies |-> 0]
  <2>1. calls' = [calls EXCEPT ![d] = call]
    BY <1>5 DEF StartPush
  <2>2. call.input = input /\ call.copies = 0
    OBVIOUS
  <2>. HIDE DEF call
  <2>3. input.version \in Nat /\ input.version <= cursor[d]
    BY <1>5, VersionsAssumption DEF StartPush, BaseVersions
  <2>4. Reached(records, Account, cursor[d]) /\ cursor[d] \in Nat
    BY <1>1, KnownFacts DEF CInv, CursorsCover
  <2>5. Reached(records, Account, input.version)
    BY <1>1, <2>3, <2>4, RowType DEF Reached
  <2>6. Reached(records', Account, input.version)
    BY <1>1, <2>5, ReachedStays
  <2>7. CallSound(call, records', snapshots')
    BY <2>2, <2>6 DEF CallSound
  <2>. QED
    BY <1>3, <2>1, <2>7
<1>6. ASSUME NEW d \in Devices, StorePush(d) PROVE CallsSound'
  <2>. DEFINE call == [calls[d] EXCEPT !.copies = @ + 1,
                         !.op = IF @ = "push" THEN "stored" ELSE @]
  <2>1. calls[d] \in PushCall /\ tx.device = d /\ PushCommit
    BY <1>6 DEF StorePush, PushCommit, CInv, TxIsCall
  <2>2. calls' = [calls EXCEPT ![d] = call]
    BY <1>6, <1>1, <2>1 DEF StorePush, PushCall
  <2>3. call.input = calls[d].input
    BY <2>1 DEF PushCall
  <2>. HIDE DEF call
  <2>4. Overtaken(snapshots', call.input)
    BY <2>1, <2>3, StoredAhead
  <2>5. Reached(records', Account, call.input.version)
    BY <1>1, <2>1, <2>3, ReachedStays DEF CallsSound, CallSound
  <2>. QED
    BY <1>3, <2>2, <2>4, <2>5 DEF CallSound
<1>7. ASSUME NEW d \in Devices, FailPush(d) \/ PushTimeout(d) \/ RetryPush(d)
      PROVE  CallsSound'
  <2>1. calls[d] \in PushCall
    <3>1. CASE FailPush(d)
      BY <3>1 DEF FailPush, PushRollback, CInv, TxIsCall
    <3>2. CASE PushTimeout(d) \/ RetryPush(d)
      BY <1>1, <3>2, CallKinds DEF PushTimeout, RetryPush, ClientTypes
    <3>. QED
      BY <1>7, <3>1, <3>2
  <2>2. /\ calls'[d].input = calls[d].input /\ calls'[d].copies = calls[d].copies
        /\ \A e \in Devices : e # d => calls'[e] = calls[e]
    BY <1>1, <1>7, <2>1
       DEF FailPush, PushTimeout, RetryPush, ClientTypes, PushCall
  <2>3. ASSUME NEW e \in Devices, calls'[e] \in PushCall
        PROVE  CallSound(calls'[e], records', snapshots')
    BY <1>2, <2>1, <2>2, <2>3
  <2>. QED
    BY <2>3 DEF CallsSound
<1>8. ASSUME UNCHANGED calls PROVE CallsSound'
  BY <1>2, <1>8 DEF CallsSound
<1>. QED
  BY ClientCases, <1>4, <1>5, <1>6, <1>7, <1>8
     DEF AnswerLost, Resolve, ServerStep, clientVars, allVars

\* A transaction is begun for the call its device waits for, and no device makes
\* another call before it is over.
LEMMA TxCallInductive ==
    ASSUME CInv, [ClientNext]_allVars PROVE TxIsCall'
<1>0. SUFFICES ASSUME tx'.phase = "open" PROVE TxIsCall'
  BY DEF TxIsCall
<1>1. /\ IInv /\ TypeOK /\ ClientTypes /\ ClientTypes' /\ TypeOK'
  BY ServerStepTaken, ClientTypesInductive, TypeInductive DEF CInv, IInv
<1>2. Free.phase # "open"
  BY DEF Free
<1>3. ASSUME NEW d \in Devices, NEW input \in SyncRecordInput,
             PushBegin(Account, d, <<input>>), calls'[d] \in PushCall,
             calls'[d].op = "push", calls'[d].input = input,
             Reached(records, Account, input.version)
      PROVE  TxIsCall'
  <2>1. PICK m \in KnownVersions, latest \in preloadLatestSnapshots(Account) :
           /\ IsMaxVersion(Account, m)
           /\ tx' = [phase |-> "open", user |-> Account, device |-> d,
                     batch |-> Truncated(<<input>>), todo |-> Truncated(<<input>>),
                     maxVer |-> m, latest |-> latest,
                     records |-> <<>>, snapshots |-> <<>>]
    BY <1>3 DEF PushBegin
  <2>2. /\ tx'.user = Account /\ tx'.device = d /\ tx'.batch = <<input>>
        /\ tx'.maxVer = m /\ tx'.snapshots = <<>>
    BY <2>1, SinglePush
  <2>3. /\ m \in Nat /\ input.version \in Nat
        /\ \A i \in DOMAIN records : records[i].version \in Nat
    BY <1>1, KnownVersionsType, RowType, VersionsAssumption DEF SyncRecordInput
  <2>4. input.version <= m
    BY <1>3, <2>1, <2>3 DEF Reached, IsMaxVersion, RowsOf
  <2>. QED
    BY <1>3, <2>2, <2>4 DEF TxIsCall
<1>4. ASSUME NEW d \in Devices, NEW input \in SyncRecordInput, StartPush(d, input)
      PROVE  TxIsCall'
  <2>. DEFINE call == [op |-> "push", input |-> input, attempt |-> 1, copies |-> 0]
  <2>1. calls'[d] = call
    BY <1>1, <1>4 DEF StartPush, ClientTypes
  <2>2. call \in PushCall /\ call.op = "push" /\ call.input = input
    BY DEF PushCall
  <2>. HIDE DEF call
  <2>3. input.version \in Nat /\ input.version <= cursor[d]
    BY <1>4, VersionsAssumption DEF StartPush, BaseVersions
  <2>4. Reached(records, Account, cursor[d]) /\ cursor[d] \in Nat
    BY <1>1, KnownFacts DEF CInv, CursorsCover
  <2>5. Reached(records, Account, input.version)
    BY <1>1, <2>3, <2>4, RowType DEF Reached
  <2>. QED
    BY <1>3, <1>4, <2>1, <2>2, <2>5 DEF StartPush
<1>5. ASSUME NEW d \in Devices, RetryPush(d) PROVE TxIsCall'
  <2>1. calls[d] \in PushCall
    BY <1>1, <1>5, CallKinds DEF RetryPush, ClientTypes
  <2>2. /\ calls'[d].op = "push" /\ calls'[d].input = calls[d].input
        /\ calls'[d] = [calls[d] EXCEPT !.op = "push", !.attempt = @ + 1]
    BY <1>1, <1>5, <2>1 DEF RetryPush, ClientTypes, PushCall
  <2>3. calls'[d] \in PushCall
    BY <1>1, <2>2, CallKinds DEF ClientTypes
  <2>4. Reached(records, Account, calls[d].input.version)
    BY <2>1 DEF CInv, CallsSound, CallSound
  <2>5. calls[d].input \in SyncRecordInput
    BY <2>1, CallKinds
  <2>. QED
    BY <1>3, <1>5, <2>2, <2>3, <2>4, <2>5 DEF RetryPush
<1>6. ASSUME UNCHANGED tx,
             calls'[tx.device] = calls[tx.device]
             \/ /\ calls'[tx.device] = [calls[tx.device] EXCEPT !.op = "failed"]
                /\ calls[tx.device] \in PushCall
      PROVE  TxIsCall'
  <2>1. /\ calls[tx.device] \in PushCall /\ calls[tx.device].op # "stored"
    BY <1>0, <1>6 DEF CInv, TxIsCall
  <2>2. /\ calls'[tx.device] \in PushCall /\ calls'[tx.device].op # "stored"
        /\ calls'[tx.device].input = calls[tx.device].input
    <3>1. ASSUME NEW call \in PushCall
          PROVE  /\ [call EXCEPT !.op = "failed"] \in PushCall
                 /\ [call EXCEPT !.op = "failed"].op = "failed"
                 /\ [call EXCEPT !.op = "failed"].input = call.input
      BY DEF PushCall
    <3>2. CASE calls'[tx.device] = calls[tx.device]
      BY <2>1, <3>2
    <3>3. CASE calls'[tx.device] = [calls[tx.device] EXCEPT !.op = "failed"]
      BY <2>1, <3>1, <3>3
    <3>. QED
      BY <1>6, <3>2, <3>3
  <2>. QED
    BY <1>0, <1>6, <2>2 DEF CInv, TxIsCall
<1>7. ASSUME UNCHANGED <<tx, calls>> PROVE TxIsCall'
  BY <1>6, <1>7
<1>8. ASSUME NEW d \in Devices, UNCHANGED tx,
             ReceivePull(d) \/ PullTimeout(d) \/ ReceivePush(d)
      PROVE  TxIsCall'
  <2>1. calls[tx.device] \in PushCall /\ calls[tx.device].op # "stored"
        /\ tx.device \in Devices
    BY <1>0, <1>1, <1>8, OpenTx DEF CInv, TxIsCall, PushTx
  <2>2. tx.device # d
    BY <1>8, <2>1, CallKinds DEF ReceivePull, PullTimeout, ReceivePush
  <2>3. calls'[tx.device] = calls[tx.device]
    BY <1>1, <1>8, <2>1, <2>2
       DEF ReceivePull, PullTimeout, ReceivePush, ClientTypes
  <2>. QED
    BY <1>6, <1>8, <2>3
<1>9. ASSUME NEW d \in Devices, PushTimeout(d) PROVE TxIsCall'
  <2>1. calls[d] \in PushCall /\ UNCHANGED tx
    BY <1>1, <1>9, CallKinds DEF PushTimeout, ClientTypes, vars
  <2>2. tx.device \in Devices
    BY <1>0, <1>1, <2>1, OpenTx DEF PushTx
  <2>. QED
    BY <1>1, <1>6, <1>9, <2>1, <2>2 DEF PushTimeout, ClientTypes
<1>10. ASSUME PushRecord, UNCHANGED calls PROVE TxIsCall'
  <2>. DEFINE input == Head(tx.todo)
              at == tx.latest[input.note]
              newVer == AssignedVersion(at)
              snapshot == [user |-> tx.user, note |-> input.note,
                           version |-> newVer, payload |-> StoredPayload(input, at)]
  <2>1. tx \in PushTx /\ tx.phase = "open" /\ tx.todo # <<>>
    BY <1>1, <1>10, OpenTx DEF PushRecord
  <2>2. /\ tx'.user = tx.user /\ tx'.device = tx.device /\ tx'.batch = tx.batch
        /\ tx'.maxVer = newVer
        /\ tx'.snapshots = Append(tx.snapshots, snapshot)
    BY <1>10, <2>1 DEF PushRecord, PushTx
  <2>3. snapshot.version = newVer
    OBVIOUS
  <2>. HIDE DEF snapshot
  <2>4. newVer \in Nat /\ newVer > tx.maxVer /\ tx.maxVer \in Nat
    <3>1. input \in SyncRecordInput
      BY <2>1 DEF PushTx
    <3>2. at # 0 => at \in DOMAIN snapshots
      BY <1>1, <2>1, <3>1 DEF IInv, TxSound, SnapshotsOf, SyncRecordInput
    <3>3. tx.maxVer \in Nat
      BY <2>1 DEF PushTx
    <3>. QED
      BY <1>1, <2>1, <3>1, <3>2, <3>3, RecordValues
  <2>. HIDE DEF newVer
  <2>5. /\ TxIsCall /\ calls[tx.device].input \in SyncRecordInput
    BY <2>1, CallKinds DEF CInv, TxIsCall
  <2>6. calls[tx.device].input.version \in Nat
    BY <2>5, VersionsAssumption DEF SyncRecordInput
  <2>7. newVer > calls[tx.device].input.version
    BY <2>1, <2>4, <2>5, <2>6 DEF TxIsCall
  <2>8. tx.snapshots \in Seq(NoteSnapshot)
    BY <2>1 DEF PushTx
  <2>9. \A k \in DOMAIN tx'.snapshots :
           \/ k \in DOMAIN tx.snapshots /\ tx'.snapshots[k] = tx.snapshots[k]
           \/ tx'.snapshots[k] = snapshot
    BY <2>2, <2>8
  <2>10. \A k \in DOMAIN tx'.snapshots :
            tx'.snapshots[k].version > calls[tx.device].input.version
    BY <2>1, <2>3, <2>5, <2>7, <2>9 DEF TxIsCall
  <2>. QED
    BY <1>10, <2>1, <2>2, <2>4, <2>5, <2>6, <2>7, <2>10 DEF TxIsCall
<1>11. ASSUME tx = Free, UNCHANGED tx PROVE TxIsCall'
  BY <1>0, <1>2, <1>11
<1>12. ASSUME tx' = Free PROVE TxIsCall'
  BY <1>0, <1>2, <1>12
<1>13. ASSUME NEW d \in Devices, StartPull(d) \/ GiveUpPush(d) PROVE TxIsCall'
  BY <1>11, <1>13 DEF StartPull, GiveUpPush, PullSelect, vars
<1>14. ASSUME NEW d \in Devices, StorePush(d) \/ FailPush(d) PROVE TxIsCall'
  BY <1>12, <1>14 DEF StorePush, FailPush, PushCommit, PushRollback
<1>15. ASSUME NEW d \in Devices, AnswerLost(d) PROVE TxIsCall'
  BY <1>7, <1>15 DEF AnswerLost, PullReturn, clientVars
<1>16. ASSUME Resolve PROVE TxIsCall'
  BY <1>11, <1>16 DEF Resolve, ResolveConflict
<1>17. ASSUME ServerStep PROVE TxIsCall'
  BY <1>7, <1>10, <1>17
     DEF ServerStep, clientVars, PullMax, PullUpdateDevice, PullFail
<1>18. ASSUME NEW d \in Devices, ReceivePull(d) \/ PullTimeout(d) \/ ReceivePush(d)
       PROVE  TxIsCall'
  BY <1>8, <1>18 DEF ReceivePull, PullTimeout, ReceivePush, PullReturn, vars
<1>19. ASSUME UNCHANGED allVars PROVE TxIsCall'
  BY <1>7, <1>19 DEF allVars, vars, clientVars
<1>. QED
  BY ClientCases, <1>4, <1>5, <1>9, <1>13, <1>14, <1>15, <1>16, <1>17, <1>18,
     <1>19

THEOREM ClientInvariance == ClientSpec => []CInv
<1>1. ClientInit => CInv
  <2>1. SUFFICES ASSUME ClientInit PROVE CInv
    OBVIOUS
  <2>2. IInv /\ BatchSound
    BY <2>1, InitInv DEF ClientInit, Init, BatchSound, Free
  <2>3. ClientTypes
    BY <2>1 DEF ClientInit, ClientTypes
  <2>4. CursorsCover
    BY <2>1 DEF ClientInit, CursorsCover, Known
  <2>5. PullsSound
    BY <2>1 DEF ClientInit, Init, PullsSound
  <2>6. CallsSound
    BY <2>1, CallKinds DEF ClientInit, CallsSound
  <2>7. TxIsCall
    BY <2>1 DEF ClientInit, Init, TxIsCall, Free
  <2>. QED
    BY <2>2, <2>3, <2>4, <2>5, <2>6, <2>7 DEF CInv
<1>2. CInv /\ [ClientNext]_allVars => CInv'
  <2>1. SUFFICES ASSUME CInv, [ClientNext]_allVars PROVE CInv'
    OBVIOUS
  <2>2. [Next]_vars
    BY <2>1, ServerStepTaken
  <2>3. IInv'
    BY <2>1, <2>2, TypeInductive, TxInductive, MatchInductive, AscendInductive,
       OwnershipInductive DEF CInv, IInv
  <2>4. BatchSound'
    BY <2>1, <2>2, BatchInductive DEF CInv
  <2>. QED
    BY <2>1, <2>3, <2>4, ClientTypesInductive, CursorsInductive, PullsInductive,
       CallsInductive, TxCallInductive DEF CInv
<1>. QED
  BY <1>1, <1>2, PTL DEF ClientSpec

-----------------------------------------------------------------------------
(* The theorems *)

\* DeliveredOnce: a device is sent no row twice, whatever answers it lost.
THEOREM NothingSentTwice == ClientSpec => DeliveredOnce
<1>1. ASSUME CInv, NEW d \in Devices, pulls[d] # NoPull
      PROVE  fetched[d] \cap pulls[d].page = {}
  <2>1. PullSound(pulls[d], records, cursor[d])
    BY <1>1 DEF CInv, PullsSound
  <2>2. \A i \in pulls[d].page : i \in DOMAIN records /\ cursor[d] < records[i].version
    BY <2>1 DEF PullSound
  <2>3. \A i \in fetched[d] : i \in DOMAIN records /\ records[i].version <= cursor[d]
    BY <1>1 DEF CInv, CursorsCover
  <2>4. cursor[d] \in Nat /\ \A i \in DOMAIN records : records[i].version \in Nat
    BY <1>1, RowType DEF CInv, IInv, ClientTypes
  <2>. QED
    BY <2>2, <2>3, <2>4
<1>2. CInv /\ [ClientNext]_allVars =>
        [\A d \in Devices :
           calls[d] = PullWait /\ pulls[d] # NoPull /\ pulls'[d] = NoPull =>
              fetched[d] \cap pulls[d].page = {}]_allVars
  BY <1>1
<1>. QED
  BY <1>2, ClientInvariance, PTL DEF ClientSpec, DeliveredOnce

\* RetryKeepsContent: the second copy of a push carries the content its note
\* already has, or loses to what was stored since.
THEOREM RetriesChangeNothing == ClientSpec => RetryKeepsContent
<1>1. ASSUME CInv, [ClientNext]_allVars, NEW d \in Devices, NEW n \in Notes,
             CommitBy(Account), tx.device = d, calls[d].copies > 0,
             NEW i \in Latest(Account, n)'
      PROVE  \E j \in Latest(Account, n) :
                snapshots'[i].payload = snapshots[j].payload
  <2>. DEFINE input == calls[d].input
  <2>1. IInv /\ TypeOK /\ BatchSound /\ TxIsCall /\ CallsSound
    BY <1>1 DEF CInv, IInv
  <2>2. PushCommit /\ tx.phase = "open" /\ tx \in PushTx /\ tx.todo = <<>>
    BY <1>1, <2>1, ServerStepTaken, OnlyCommits, OpenTx DEF CommitBy, PushCommit
  <2>3. /\ calls[d] \in PushCall /\ input \in SyncRecordInput
        /\ tx.batch = <<input>> /\ tx.user = Account
    BY <1>1, <2>1, <2>2, CallKinds DEF TxIsCall
  <2>4. Overtaken(snapshots, input)
    BY <1>1, <2>1, <2>3 DEF CallsSound, CallSound
  <2>5. CASE i \in Latest(Account, n) /\ snapshots'[i] = snapshots[i]
    BY <2>5
  <2>6. ASSUME NEW k \in DOMAIN tx.snapshots,
               snapshots'[i] = tx.snapshots[k], tx.snapshots[k].note = n
        PROVE  \E j \in Latest(Account, n) :
                  snapshots'[i].payload = snapshots[j].payload
    <3>1. k = 1
      <4>1. Len(tx.batch) = Len(tx.snapshots) + Len(tx.todo)
        BY <2>1, <2>2 DEF BatchSound, TodoSound
      <4>2. Len(tx.batch) = 1 /\ Len(tx.todo) = 0
        BY <2>2, <2>3
      <4>3. tx.snapshots \in Seq(NoteSnapshot) /\ Len(tx.snapshots) \in Nat
        BY <2>2 DEF PushTx
      <4>4. Len(tx.snapshots) = 1
        BY <4>1, <4>2, <4>3
      <4>. QED
        BY <4>3, <4>4
    <3>2. tx.batch[k] = input
      BY <2>3, <3>1
    <3>3. /\ input.note = n
          /\ tx.snapshots[k].payload = StoredPayload(input, tx.latest[n])
      BY <2>1, <2>2, <2>6, <3>2 DEF BatchSound, RowsSound
    <3>4. tx.latest[n] \in LatestSnapshots(Account, n)
      BY <2>1, <2>2, <2>3, AccountAssumption DEF BatchSound, LatestHeld
    <3>5. PICK j \in SnapshotsOf(Account, n) : snapshots[j].version > input.version
      BY <2>4, <3>3 DEF Overtaken, SnapshotsOf
    <3>6. PICK at \in Latest(Account, n) : snapshots[at].version > input.version
      <4>1. /\ tx.latest[n] \in SnapshotsOf(Account, n)
            /\ snapshots[j].version <= snapshots[tx.latest[n]].version
        BY <3>4, <3>5 DEF LatestSnapshots
      <4>2. tx.latest[n] \in Latest(Account, n)
        <5>1. tx.latest[n] # 0
          BY <2>1, <4>1 DEF TypeOK, SnapshotsOf
        <5>. QED
          BY <3>4, <5>1 DEF Latest
      <4>3. /\ snapshots[j].version \in Nat /\ input.version \in Nat
            /\ snapshots[tx.latest[n]].version \in Nat
        <5>1. snapshots[j] \in NoteSnapshot /\ snapshots[tx.latest[n]] \in NoteSnapshot
          BY <2>1, <3>5, <4>1 DEF TypeOK, SnapshotsOf
        <5>. QED
          BY <2>3, <5>1, VersionsAssumption DEF NoteSnapshot, SyncRecordInput
      <4>. QED
        BY <3>5, <4>1, <4>2, <4>3
    <3>7. snapshots[at].version \in Nat /\ input.version \in Nat
      <4>1. snapshots[at] \in NoteSnapshot
        BY <2>1, <3>6 DEF TypeOK, Latest, LatestSnapshots, SnapshotsOf
      <4>. QED
        BY <2>3, <4>1, VersionsAssumption DEF NoteSnapshot, SyncRecordInput
    <3>8. \E e \in Latest(Account, n) :
             StoredPayload(input, tx.latest[n]) = snapshots[e].payload
      <4>. HIDE DEF input
      <4>1. \/ \E e \in Latest(Account, n) :
                  StoredPayload(input, tx.latest[n]) = snapshots[e].payload
            \/ \A e \in Latest(Account, n) : snapshots[e].version <= input.version
        BY <2>1, <2>3, <3>3, <3>4, StoredFromLatest, AccountAssumption
      <4>. QED
        BY <3>6, <3>7, <4>1
    <3>. QED
      BY <2>6, <3>3, <3>8
  <2>. QED
    BY <1>1, <2>1, <2>2, <2>5, <2>6, LatestAfterCommit
<1>2. CInv /\ [ClientNext]_allVars =>
        [\A d \in Devices, n \in Notes :
           /\ CommitBy(Account)
           /\ tx.device = d
           /\ calls[d].copies > 0
           => {snapshots'[i].payload : i \in Latest(Account, n)'}
                \subseteq {snapshots[i].payload : i \in Latest(Account, n)}]_allVars
  BY <1>1
<1>. QED
  BY <1>2, ClientInvariance, PTL DEF ClientSpec, RetryKeepsContent
=============================================================================
