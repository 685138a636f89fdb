# DevNote: a verification project

DevNote is an offline-first notes app: a Flutter client, a core of Rust
libraries, a Go sync server, a Go business server and a small Go library the
servers share for state. This directory holds TLA+ models of the parts where
its data can be lost or diverge, the configurations TLC checks them with, and
proofs TLAPS checks. The modules are written from the source; each definition
that models code is listed with its file and lines in `PROJECT.json` (`map`).

## 1. Inventory

Paths are relative to `src/devnote/`; `rust/` stands for `rust-core/devnote-`.

| Component | State | Operations | Hard behaviour |
|---|---|---|---|
| Sync storage, `sync-server/internal/service/sync_service.go`, `conflict.go` | tables `sync_records`, `note_snapshots`, `devices`; one SQL connection | Push, Pull, ResolveConflict, GetStatus, note history | Push is a transaction that can fail at each statement; Pull is three statements with pushes between them; versions order everything |
| Sync client, `lib/features/sync/sync_service.dart`, retries of `bloc/sync_bloc.dart` | `sync_last_version`, pending counter | push, pull, resolve | timeouts while the server still works, repeated calls, lost answers |
| Idempotency, `middleware/idempotency.go`, `shared/pkg/state/store.go` | lock and cached answer of each key, with expiry; the handler's table of 1000 keys | claim, answer, release | check-then-act, locks that expire under their owner, crash of the owner |
| Rust CRDT, `rust/crdt` | clocks, blocks, operation log; characters of a text | local edits, merge, transform | batches out of order, twice, or failing half way; convergence |
| Rust sync engine, `rust/sync` | pending operations, conflicts, status; the key cache | record, merge, resolve; check a key | failed merges and resolutions between edits; a bounded cache |
| Peer-to-peer nodes, `rust/p2p` | queues between a node and its loop, connections, the node's view | connect, send, broadcast, stop, poll, process | commands and events cross; several connections of one pair |
| Sync through git, `rust/extensions/src/workflow.rs` | branches, work tree, an open merge; the hosted branch | sync, pull | machines push in between; `checkout -B`, forced pushes, failed pushes |
| Knowledge graph, `rust/graph` | nodes, edges, cached centralities and one dirty flag | change, build, centrality, searches | changes while a thread computes without the lock |
| Plugins, `rust/plugin` | entries, instances, lazy plugins | load, unload, enable, grant, execute | the life cycle in any order, loads that fail |
| Databases, `rust/database` | databases, fields, rows, cells, views | their calls; filters, sorts; formulas | writes that fail half way, dangling names, order of several sorts |
| Objects, `rust/object` | types, properties, relations, objects, links | their calls | an update answered under a second lock; deletions between |
| Flashcards, `rust/flashcard` | decks, cards, review records | review, due cards, statistics, cleanup | a review takes its lock three times; midnight |
| Notes database, audit log and encrypted notes, `rust/persistence` | tables; key and salt under two locks | their calls | transactions, cascades, reading by offset while the log moves, password calls between reads |
| Search, `rust/search` | FTS5 table with triggers; tantivy index with its writer's queue | index, remove, rebuild, search | statements that fail, reused row ids, leftovers of failed calls |
| Editor, `rust/editor` | blocks with positions | create, move, delete, list, parse | positions shifted by hand; constructs left open |
| Canvas, `rust/extensions/src/canvas.rs` | nodes, edges | edit, layouts | equal places, dangling edges, cycles |
| Realtime rooms and CRDT hub, `handler/realtime_handler.go`, `ws_crdt_handler.go` | rooms, members, history, document state | join, leave, operation, update | join against removal of an empty room, update broadcast and saved in two steps |
| Authentication, `service/auth_service.go` | users, refresh tokens, SRP sessions | login, refresh, revoke | read-then-write of tokens and sessions |
| Offline queue, SyncBloc events, realtime client, `lib/features/sync/` | queue, bloc state, connection | replay, reconnect, resend | event handlers that interleave at each await |
| Sharing, rate limits, gateways, business server, cloud storage, cryptography, formats, user interface, FFI | | | single statements, pure I/O, conversions, generated code |

How they interact. A device edits notes through the Rust libraries, each of
which keeps its own tables or vectors; they share no state with each other.
For sync, `SyncBloc` calls the Dart `SyncService`, which posts `/sync/push` and
`/sync/pull` to the Go server. The middleware answers repeated requests that
carry an `Idempotency-Key`; the handler calls `SyncService` (Go), which owns
the three tables through one SQLite connection. Merging concurrent edits is the
job of the Rust CRDT and the client engine over it, whatever carries the
operations: their own transport is not written yet, and the peer-to-peer nodes
and git sync are two more ways to carry notes. While a note is open, devices
also exchange operations over a WebSocket, between server instances through
publish and subscribe of the state store.

What makes each correct, in short:

- storage: the two tables agree, versions of a user's log ascend, a stale push
  never wins, a device never loses its row, the connection is always released;
- client: nothing the cursor passed was missed, nothing comes twice, a retry
  changes nothing;
- idempotency: one key, one execution; every request ends;
- CRDT: ids are unique, causes come before effects, deletions stay, replicas
  with the same operations agree;
- engine: what is pending is neither lost nor foreign; the status says conflict
  exactly when there is one; a retry within the cache's window is recognised;
- carriers: what was accepted is sent, what was reported as synced is there,
  and nothing delivered is taken away;
- stores: no call, failing or interleaved, leaves half a write or a name of
  something deleted; what an answer promised holds until the next call;
- computed views (searches, sorts, layouts, formulas, Markdown): they are what
  their definition says on every bounded input.

`PROJECT.json` lists every hazard at its line, with the properties that cover
it or the reason why none does.

## 2. Structure

The most important came first: the sync feed and its clients, where data of several
devices meets; idempotency; the CRDT and the engine; the other carriers; the
local stores. Three parts share an execution and are composed:
`SyncClient` conjoins its actions with those of `SyncServer`,
`SyncServer` implements `VersionFeed`, and `SyncEngine` and `TantivyIndex`
extend the modules they build on (`CrdtDocument`; the documents of
`SearchIndex`). The Rust libraries share nothing, so they are checked side by
side: `RustSync`, `RustServices` and `RustStores` take the modules of several
libraries, and a variable `part`, chosen in the initial state, says which one
moves. The state space is then the sum of theirs, not the product, each
library's properties are checked over all of its own behaviours, and a
configuration gives the bounds of all of them.

## 3. Modules

| Module | Models |
|---|---|
| `VersionFeed` | abstract specification: a feed per user whose versions ascend, and pages read from it; with its theorem |
| `SyncServer` | Go `SyncService`, `conflict.go` and the tables |
| `SyncClient` | the devices of one account over `SyncServer` |
| `Idempotency` | the middleware and the handler's key table around a push |
| `HybridClock` | hybrid logical clock and vector clock |
| `CrdtDocument` | block documents: edits, operations, merge, transform |
| `SyncEngine` | pending operations, conflicts and their resolution over `CrdtDocument` |
| `TextCrdt` | the replicated text of one block |
| `OperationKeys` | the bounded cache of operation keys |
| `PeerSync` | peer-to-peer nodes, their event loops and connections |
| `GitSync` | machines that synchronise through one hosted branch |
| `KnowledgeGraph` | the graph, its searches, and the centrality cache at the grain of its locks |
| `PluginHost` | plugin manager and sandbox |
| `MarkdownBlocks` | the line parser of the editor |
| `Formula` | parser over tokens and evaluator of formulas |
| `TableStore` | databases, fields, rows, views, filters and sorts |
| `ObjectStore` | object types, objects and relations |
| `Flashcards` | decks, cards, reviews and SM-2 |
| `NoteStore`, `AuditLog`, `Vault` | notes database, audit log, encrypted repository |
| `SearchIndex`, `TantivyIndex` | the two search engines |
| `BlockEditor`, `Canvas` | block positions; canvas and its layouts |
| `StableOrder`, `SqlRows` | Rust's stable sort, first match and filter; a SQLite table as a function |
| `StatefulServices` | peers, git, graph and plugins side by side |
| `RustSync`, `RustServices`, `RustStores` | the libraries side by side; `RustServices` adds Markdown and formulas to `StatefulServices` |
| `MCSyncServer`, `MCSyncClient`, `MCIdempotency` | the same with symmetry sets, for TLC |
| `MCRustSync`, `MCRustServices`, `MCRustStores`, `MCTextCrdt` | the small inputs the configurations name |
| `SyncServerProofs`, `SyncClientProofs`, `IdempotencyProofs`, `ServicesProofs`, `RustSyncProofs`, `RustStoresProofs` | theorems about the module each is named for; `ServicesProofs` about the four services of `StatefulServices` and about `MarkdownBlocks` |
| `FoldInduction` | induction over folds and sorts, as lemmas that a proof instantiates for the fold it is about |

Definitions marked "Variant" are plausible bugs of the definition below them.
No specification uses them; each is what a property of a run catches.

### SyncServer

State: `records`, `snapshots` and `devices` are the tables; `tx` is the
transaction that holds the connection; `pulls[d]` is the Pull handler running
for device id `d`. SQLite is opened with `SetMaxOpenConns(1)`: while a
transaction is open every other statement waits, which is the guard
`tx = Free` of all other actions. Nothing inside the transaction is visible
before `PushCommit`.

| Action | Code |
|---|---|
| `PushBegin` | `Beginx`, `MAX(version)`, `preloadLatestSnapshots` |
| `PushRecord` | one turn of the loop: conflict check against the preloaded snapshot, version, both inserts |
| `PushCommit` | `updateDeviceSyncTx` and `Commit` |
| `PushRollback` | every error path of Push |
| `PullSelect`, `PullMax`, `PullUpdateDevice` | the three statements of Pull, each on its own |
| `PullFail`, `PullReturn` | an error answer; the answer |
| `ResolveConflict` | its transaction; nothing is visible between its two inserts, so it is one step |
| `Restart` | the process dies: the transaction is dropped, handlers are gone |

Abstractions. Payloads are model values. Timestamps, ids and the `action` of a
record are left out: no code in the server reads them. Versions are unbounded
naturals (the code has `int64`; a log that long is out of reach). `MAX` and
`ORDER BY version LIMIT` are relations, so ties come in any order. A row of
`devices` is looked up and written in one step; the failure two interleaved
first pulls of one id can meet is `PullFail`. One Pull runs per device id at a
time. `PushBegin` preloads a snapshot for every note, the code for those of the
batch, and no other is read.

### SyncClient

State: `cursor` is `sync_last_version` of each device, `calls` the call it
waits for; `fetched` and the field `copies` are history variables. Each action
conjoins a server action: `StartPull` is `PullSelect` with the device's cursor,
`ReceivePull` is `PullReturn` plus what `_performPull` does with the answer,
and so on. A timeout (30 s in the code, at any moment in the model) frees the
device while the handler runs on (`PullTimeout`, `AnswerLost`, `PushTimeout`).
`_withRetry` repeats a failed push with the same body and no idempotency key.
A device pushes one record at a time, as `pushChanges` does. Payload decoding and
what the app does with pulled notes are not modelled.

An assumption on the environment: `_performPush` sends whatever `version` the
note's JSON has, unchecked (`sync_service.dart:440-457`). `BaseVersions` lets a
device push at any base version up to its cursor and at none above. The app
keeps to that: `NoteModel.toJson` writes no version, so its pushes are at 0.
`RetryKeepsContent` and its theorem rest on it: a push at a version the
server has not reached would win again when it is repeated.

### Idempotency

State: `lock[k]` and `entry[k]` are the two keys of the state store,
`handled[i]` the key table of `SyncService` in instance `i`, `reqs` the requests
in their stages; `done` and `stored` are history variables. Each call of the
store is a step, so requests interleave between any two of them.

| Action | Code |
|---|---|
| `Arrive`, `Load` | the middleware's entry and first look at the cached answer |
| `Lock` | `IncrWithTTL`: lock taken, 409, or on an error straight to the handler |
| `Recheck`, `Mark` | second look under the lock; the placeholder |
| `Check`, `Push`, `Record` | the handler: its key table, the push, the key recorded |
| `Finish`, `Unlock` | a 2xx answer cached or the placeholder dropped; the lock deleted |
| `Disconnect` | the request's context is cancelled, which Redis calls obey and memory calls ignore |
| `Crash` | an instance restarts; the memory store goes with it |
| `ExpireLock`, `ExpirePlaceholder`, `ExpireAnswer` | the TTLs of 5 minutes, 5 minutes and 24 hours |

Abstractions. A push is one step that commits or fails (`SyncServer` has its
details); 400, 401 and 500 are one error. The counter behind the lock is
modelled by its creator, as only "greater than one" is read. Time is not
counted: an entry expires once its writer has ended, and at any moment when
requests may be `"slow"`; an answer lives for 24 hours, longer than any request.
Requests without a key bypass the middleware and are left out. Keys are shared
by all users and routes in the code; the model has one route.

### The Rust libraries

Each module's variables are the tables, vectors and queues of its library, and
each action is one call, or one stretch of a call between two takings of its
lock. A SQLite transaction is one step, since the connection is locked for it,
and one whose statement fails leaves the tables as they were. What a model leaves to its
environment is in the comment at its head: delivery of operations for
`CrdtDocument` (any batch of those made so far, at any time), the swarm for
`PeerSync`, git for `GitSync`, the WASM runtime for `PluginHost`.

- `CrdtDocument`. `copies[d]` is a device's document with its clock, blocks and
  operation log; `issued` holds the operations ever made. `Merged` sorts a batch
  by id as the code does and applies it one by one; an operation that cannot be
  applied ends the merge and leaves what came before it. Two devices and four
  calls are enough for an operation that arrives before its cause, after a
  deletion, or twice. A later batch is kept from repeating an operation by the
  ids recorded; within one batch nothing is, and an operation that stands in it
  twice is applied twice.
- `SyncEngine`. A merge keeps as conflicts the operations of a batch that meet an
  own change of the same block, and drops from `pending` what came back; when
  the document's merge fails, all three stay as they were.
  Resolving a conflict of moves writes the text that reported it into the block,
  as the code does.
- `TextCrdt`. Characters with the id of the one they were typed after. The
  place of a merged character is found as the code finds it, by what is there.
- `PeerSync`. `commands[p]` and `events[p]` are the two queues of a node,
  `view[p]` what it shows as connected. `TakeCommand` is one turn of the loop.
- `GitSync`. A branch is the set of commits it reaches. `syncs[m]` says at which
  git command of `sync_to_github` a machine is; every other machine may move
  between two of them, and the program may end at any.
- `KnowledgeGraph`. `cache` holds for each algorithm the graph its result was
  computed from; `CacheMiss`, `LoadAllNodes`, `LoadAllEdges` and `StoreResult`
  are the stretches of `calculate_centrality_cached` between its locks. The flag
  is cleared first, so `ComputeFails` leaves it clear over what was stored
  before, and so does a computation asked for by a name the cache has no field
  for (`Asked` has more names than `Algorithms`); the history variable `latest`
  names the algorithm whose result the last computation stored. Added edges have
  any of the `Weights`. `Settle` is a round of dijkstra, and `ShortestPath` walks
  back by scores alone, as the code does.
- `PluginHost`. `lazy` maps a registered id to its bytes; `LoadLazy` takes them
  out first and loads the plugin under the id of its manifest, which may be
  another.
- `Flashcards`. `StartReview`, `ScheduleReview`, `SaveReview` are the three
  stretches of a review. Time is in days, ease factors in hundredths.
- `Vault`. A ciphertext is its key and its text; `vaultKey` and `vaultSalt` are
  under two locks, so a password call stores them in two steps and a read meets
  them in between.
- `TantivyIndex`. `queued` and `committed` are the writer's queue and the last
  commit; a failed call leaves its operations queued. A rebuild empties the
  index, and nothing indexes the notes again; one that fails before the
  directory is removed changes nothing, one that fails after it leaves an index
  without files (`filesGone`), on which a writer that had documents cannot
  commit.
- `TableStore` and `NoteStore`. The history variables `addedRow` and
  `createdNote` hold what the call that made a row or a note was given, so that a
  step can be compared with its own call.
- `MarkdownBlocks`. A line is its kind. Rows are of one or two cells, do not end
  in a bar ("half"), or are a bar alone; the last makes the parser panic when it
  is read as a row, which stands in the model as a block of kind "panic".
- `MarkdownBlocks` and `Formula` have one variable, the document or the
  expression, which grows in every way up to its bound; the properties compare
  the parser and evaluator with their definition on each.

Contents, titles and times that no branch reads are left out; ids are model
values, drawn once where the code draws them at random.

## 4. Runs

| Run | Shows | Bounds |
|---|---|---|
| `sync_server` | type correctness; the tables match row for row; versions of pushed rows ascend; a stale push changes no note; a push is the latest version of its note afterwards | one user and device, two notes and payloads, batches of two, base versions 0 and 1, resolutions at 1 and 3, three rows |
| `sync_feed` | the server implements `VersionFeed`; a page stays complete; a device id is never taken over; a cursor never passes the log; a transaction always ends; every Pull is answered | two users competing for one device id and the connection, two notes, batches of two, pages of one, three rows, no resolutions |
| `client_sync` | a repeated push never changes the content again; no row is sent to a device twice | two devices, one note, two payloads, pages of one, resolutions at 1, two attempts, three rows, one Pull handler at a time |
| `idem_memory` | one request per key past the lock; one push per key and window; a cached answer is never replaced and goes only to its own body | one instance, three requests, two keys, two bodies, a key table of one, lost connections |
| `idem_faults` | a success always stands for a stored push; lock and placeholder always go away | two instances sharing Redis, two requests with one key and one unhashed body, crashes, lost connections and slow requests |
| `rust_sync` | `CopiesSound`: ids name one operation, shown blocks have places of their own, no character stands twice or left of the one it was typed after; `CausesFirst`: an edit comes after all its device took in; `NotAppliedAgain`: what a document recorded no later merge applies; `NothingUndone`: the entry of a deleted block stays and only an insertion shows such an id again, erased characters and the order of characters stay, an operation is pending until a merge that went through brought it back; `EngineAgrees`: status and conflicts agree, what is pending was applied; `RetryWindow`: a retry within the window is recognised | two devices, two blocks, four calls, batches of two; two replicas, three letters typed and one deletion; a cache of four that evicts two, eight keys accepted |
| `rust_stores` | `NothingLeftBehind`: no record without its card, field, row or view without its database, cell without field and row, link without its ends (filters and sorts of a view may name deleted fields); `ObjectsHold`: types are whole, related objects load, an update answers nothing older than itself; `AnswersHold`: intervals and ease stay in bounds, statistics add up, pages of the audit log miss nothing, the vault answers texts and keeps key and salt together; `SearchesFind`: what an answered call indexed is found until the next call for that note or the next rebuild, filters miss nothing, a set cell is empty or not; `OrdersHold`: positions of fields and blocks differ, sorts nest, layers descend, grid and distribution keep apart; `CallsComplete`: a new row has exactly the cells and a new note exactly the tags its call was given, a cleanup keeps schedules, a move keeps the others' order, a steady key reads all | one card, two reviewers, three days; two databases, fields and rows; two objects and types; two notes, folders, tags; three audit entries, pages of one; three blocks; three canvas nodes; three index calls; two passwords, two salts |
| `rust_services` | `CommandsTaken`: no accepted command stays in its queue for ever, whether its node runs, runs into failures or is stopped; `TwoSidesAgree`: stop is last, a node shows only connected peers, the two maps of plugins agree; `WorkKept`: a successful sync delivered its commits, ordinary pushes drop nothing, machines lose no work; `CacheFresh`: under a clear flag the result stored last is of the present graph; `SearchesExact`: clusters and relations match their definitions, a path is found exactly within a cluster, along edges when none weighs 0 and with the fewest edges when all weigh 1; `MarkdownFaithful`: of an answered document no line is lost, blank lines separate, tables are whole; `FormulasFaithful`: parsed as written, no token ignored, De Morgan, errors surface | two peers, three commands; two machines, three commits; three nodes, one changing and one computing thread, two algorithms and a name that is none, edges of weight 1 and 3, two changes; two plugins; documents of three lines of seventeen kinds; expressions grown from up to three tokens |

The three Rust runs also check the type invariants of their modules. Where a
run asks several questions of one kind about libraries that share nothing, the
property is a conjunction of named parts, each stated in the module it is
about; every part has a mutant of its own.

Why these bounds are enough. A batch of two is the smallest in which the
second record meets a snapshot that is stale, three rows the smallest log with
a page before, at and after a page limit of one, or with a push, a push of
another device and a repeated push. Two users make every conflict over a
device id. Pulls of different devices meet only in the tables and the
connection, so `client_sync` runs one handler at a time. Three requests with
one key are the one that owns the lock, one between the first look and the
lock, and one that comes later; a key table of one evicts at the second key.
`SuccessMeansStored` is checked with one body per key, as the code asks of
clients: a key reused for other data is answered "deduplicated" from the
handler's table.

In the Rust runs two of each kind are enough for every pair of actors and for
a list with a first and a last element, three where an order can be wrong in
the middle (audit entries, canvas nodes, graph nodes, letters). Four document
calls are an edit on each side, the merge of one in the other and a third edit
or merge on top. Two salts and two passwords make a key that does not fit its
salt or its notes. Three lines are an opened block, its content and what
follows it. Larger instances of single modules were not needed for a mutant to
be found.

`KeyCap`, `PushLimit`, `PullLimit`, `KeyCapacity` and `PageLimit` are limits of
the code or its callers made small; constants named `Max...` bound the model.
Deadlock is not checked: a server, node or store without requests has nothing
to do, and the bounds end every behaviour.

Fairness. `sync_feed`: weak fairness of a transaction's next step, since
Push runs to its end without waiting for anything but the database; strong
fairness of each Pull, since it waits for the connection again for each
statement and `database/sql` hands a freed connection to waiting callers, so
one that waits is not passed over for ever. No fairness is assumed for
arriving requests or restarts. `idem_faults`: weak fairness of each
request's next step, since handlers wait for nothing but the store and the
database, and of the two expiries, since time passes. `rust_services`: weak
fairness of each peer's `TakeCommand`, since the loop is a task of its own that
the runtime polls while a command waits. That it comes to the command though the
swarm keeps reporting events is assumed: `tokio::select!` picks at random among
the branches that are ready. What `CommandsTaken` checks on top of it is that no
command is stranded: behind a stop, in a queue whose loop has ended, or behind
one that fails. None is assumed for the node's owner, who may never look at its
events. The runs that check liveness have no symmetry.

### Disagreements found

Each is a run that TLC finds violated, stated from a line of the repository
(`findings` in `PROJECT.json` quotes it).

| Run | What happens |
|---|---|
| `pull_skips_race` | a push commits between the two queries of a Pull; `latest_version` covers a row the page lacks and the device's cursor passes it |
| `resolution_unseen` | a resolution is numbered from the client's version, below cursors already past it |
| `text_diverges` | a merged character is placed behind those that arrived before it, so two replicas of the same characters read differently |
| `lapsed_card_hidden` | a card answered badly is due by its latest record, but the query takes the largest date of all its records and hides it |

Three more are in the models and are no runs of their own; a property that
meets one leaves it out by its hypothesis:

- `get_shortest_path` measures with weights and walks back without them
  (`devnote-graph/src/lib.rs:724`, `740-749`), so its path may weigh more than
  the distance dijkstra found, and with edges of weight 0 the walk may not end.
  `PathIsFound` asks for the fewest edges only when all weigh 1.
- A line that is a bar alone is cut as a table row with the slice [1..0]
  (`devnote-editor/src/lib.rs:729`, `739`): the parser panics and the document
  is lost. `MarkdownFaithful` speaks of the documents it answers.
- `merge` filters a batch by the ids recorded before it
  (`devnote-crdt/src/lib.rs:309-323`), so an operation that stands twice in one
  batch is applied twice; ADR 005 asks that repeating an operation changes
  nothing. `NotAppliedAgain` speaks of operations recorded before the batch.

## 5. Proofs

Eight modules hold theorems; `PROJECT.json` lists them. None takes more on
trust than the `ASSUME`s of the modules, which TLC evaluates in every run, and
the hypotheses named here. A theorem holds for any devices, notes, peers,
letters and capacities its module allows, so also without the bounds of the
runs.

### Sync feed

`SyncServerProofs` proves `Spec => []I` for `TypeOK`, `RecordsMatchSnapshots`,
`PushRowsAscend`, `DevicesSound` (`DeviceOwnership` and `CursorWithinLog`), and for
`OrderGuardIdle`: the branch of Push that adjusts a version behind its note's
snapshot is never taken.

None of them is inductive alone. `TypeOK` needs to know that the snapshots
preloaded by an open transaction exist; `PushRowsAscend` that the numbers given
inside a transaction start from the maximum read at its beginning and that
nobody has written since. `TxSound` says what an open transaction knows: its
`maxVer` bounds its user's log, its own rows ascend from there, carry its user
and device and pair up with their snapshots. `IInv` conjoins it with the
invariants above. One lemma per conjunct shows that every step keeps it, with
one step per action; `NextCases` names the actions and `TablesChange` reduces
the cases to the two actions that write. `OrderGuardIdle` follows: a preloaded
snapshot is paired with a record of the same user, whose version `maxVer`
bounds. `CursorSound` adds what Pull carries from its second statement to the
third.

`BatchSound` says what a push under way has done so far: the records it has
taken and those it has left make up the batch, the row it holds as a note's
latest is at least as new as every record of that note it has taken, and each
row carries the note and payload of the record it stands for. From it follow the two
action properties of the commit, `NoStaleOverwrite` and `PushBecomesLatest`.
`NoStaleOverwrite` compares a record with the snapshots from before its batch;
what records of one batch do to each other is `PushBecomesLatest`, and
resolutions are no pushes and in neither.

`VersionFeed` proves of the abstract feed that a page stays a page (`PagesStay`). `SyncServerProofs` proves, when
`ResolveVersions = {}`, that `SyncServer` implements it (`Refinement`, the
mapping of `ImplementsFeed`) and derives `PagesClosed` from the abstract
`PagesStay`. The hypothesis is needed: a resolution claims its own version and
may be published below a page already given out (`resolution_unseen`).

### Sync client

`SyncClientProofs` builds on these and proves `DeliveredOnce` and
`RetryKeepsContent` for any number of devices and attempts; resolutions are
allowed. The invariant says that a device's cursor is a version of the account
and covers every row the device was sent (`CursorsCover`), that a pull under
way started from the cursor its device still has (`PullsSound`), and that a
push some copy of which was stored has been overtaken: its note has a snapshot
above the push's base version (`CallsSound`), so a second copy of it meets a
snapshot and takes over its content. `SinglePushAssumption`, that a push of one record
fits the server's limit, is all it assumes besides the base versions of
section 3, which `CallsSound` needs: at most the device's cursor.

### Idempotency

`IdempotencyProofs` proves, for any number of requests, keys and instances:

- `OneHolder` and `AnswerKept`, when `"slow"` is not among the faults: the
  code's lock expires under a request that runs longer than five minutes, and
  neither holds then. A request past `IncrWithTTL` owns its lock
  (`LockOwned`), one that skipped the middleware writes nothing to the store
  (`BypassEnds`), and one that would write over a cached answer has lost its
  store since it failed to see it (`WontReplace`). It holds through crashes and
  lost connections because a lock outlives its owner until it expires.
- `SuccessMeansStored` when a key is used with one body (`OneBodyPerKey`), and
  `SavedMeansStored` when that holds of bodies too long to hash
  (`OneBodyPerBigKey`): the invariant traces each answer, cached or in the
  handler's table, to a push that was stored. These hold under every fault.
- `ProcessedOnce` when nothing fails (`Undisturbed`: no slow request, no crash,
  no lost connection of the store). One request at a time has gone past the
  cached answer of a key and not yet written its own.

### Peers, git, graph, plugins

`ServicesProofs` is about `StatefulServices` and `MarkdownBlocks`; they and
`Formula` come together in `RustServices`, which has no theorems because the
prover cannot read a module that declares a recursive operator, and `Formula`
does. It proves the type invariant and `TwoSidesAgree` of
the four services together, and of each service:

- git: `WorkKept` for any number of machines and commits. The invariant
  `Carries` follows what a sync set out with: it is on the current branch until
  `checkout -B` resets the configured branch to that one, and on the configured
  branch from then to the push. `StepOf` collects what a step of one machine
  keeps, so each action is treated once.
- graph: `CacheFresh` under the hypothesis `OneComputer`: a single thread asks
  for centralities, and it changes nothing. With a clear flag either a change
  has not set it yet, or what the computing thread has loaded, or stored last, is
  the present graph. The flag is cleared before the graph is read, which is what
  makes it hold. It says nothing of results stored earlier: after a computation
  that failed, or one for another algorithm, the flag is clear over them. With
  two computing threads it does not hold: the slower one stores an old result
  under a flag both cleared.
- searches of the graph: `SearchesExact` for every graph the changes can build.
  Searches terminate because graphs are finite, which `GraphAssumption` asks of
  the batches `build` is given: as many rounds as there are nodes reach a set
  closed under edges, for each round that is not closed adds a node
  (`SearchReaches`). Clusters are a fold over the edges, and `ClustersReached`
  says that it leaves a node with those it reaches. For paths the proof follows the
  rounds of dijkstra, whatever the edges weigh (`SettleKeeps`): what is scored is
  reached, and by `PathLeads` scores fall along the walk back until it stands at
  the source, unless an edge weighs nothing. With weights of 1 scores are numbers
  of edges (`ScoreIsHops`). The
  property compares the code with definitions that are also written as searches;
  `NoWalkIsShorter` therefore adds, without any search, that while all edges
  weigh 1 no walk along them is shorter than the path the code answers. With
  other weights the answer need not be the lightest (section 4).
- Markdown: `MarkdownFaithful` for documents of any length and kinds of lines
  that the parser answers (`Panics` is false).
  The document does not change, so the induction is over its lines: `ParserSound`
  says of a parser that has read k lines that each of them that is not blank is in
  a block, in order, that blank lines are in opened blocks only, and that no row
  follows a table at once (`Rested` keeps the last for a table that is already
  closed). `LineKeeps` goes through the branches of one line. That a blank line
  separates is not about one reading but about three, of the document, of the
  last line, and of both with a blank line between: the third is the first with
  two lines more (`OneMoreLine`), and the blank one closes what is open.
- plugins: the two maps of the sandbox name the same plugins, also after loads
  that failed or came under another id; it is the plugins' part of
  `TwoSidesAgree`.
- peers: the invariant `WillShowLinked` says what a node will show once it has
  read every event that waits for it. What it shows now may lag behind, so
  `TwoSidesAgree` is not inductive by itself.

### Folds

Much of the Rust synchronisation is a loop over a sequence: a merge over
operations, a resolution over conflicts, a text merge over characters, after a
stable sort. The provers cannot instantiate a theorem that takes an operator.
`FoldInduction` therefore declares the step of a fold and the claim about it as
CONSTANTS, and proves from the well-foundedness of finite subsets that a claim
kept by every step holds of the fold (`FoldHolds`), and that the places a
stable sort gives are a permutation (`OrderedPlaces`). A fold over a set has no
order, so `SetFoldHolds` asks that every order keeps the claim. A proof takes it with
`INSTANCE FoldInduction WITH Step <- ..., Holds <- ...`, once per fold.

### Rust synchronisation

`RustSyncProofs` proves all that `rust_sync` checks: `SyncPartsTypeOK`,
`CopiesSound`, `EngineAgrees`, `RetryWindow`, `CausesFirst`, `NotAppliedAgain` and
`NothingUndone`. A step of `SyncPartsNext` moves one library, and `PartsStep`
puts the three invariants together.

- Documents and engine. `DocSound` says of one document that no operation it
  has recorded is ahead of its clock and that shown blocks have positions of
  their own. `DocGrows` says what every edit, merge and transformation keeps:
  recorded ids, deleted blocks as they are, and the clock's direction. Each
  operation of a merge is treated once and the fold carries both through the
  batch, also when an operation fails in the middle. `CopiesInv` adds that an
  operation is not ahead of the clock of the device it comes from. That makes
  the id of the next edit new: without it `IdsUnique` is not inductive, because a
  device could be given its own future id. `CausesFirst` follows from
  `DocSound`: the next id is later than the clock, and the clock is not behind
  what is recorded. `EngineInv` adds what is pending, the status and the
  conflicts.
- Text. `RightOfLeft` is not inductive: a merge knows characters by writer
  and counter, so one that arrives may be kept out by another with its key, and
  its right neighbours name an id that is not in the text. `TextSound` says
  that ids occur once, that a character stands right of the one its left id names if
  that one is there (`LeftsBefore`), and that a character of the same key is to its
  left in any case (`Rooted`); `Stamped` that no id is ahead of its writer's
  clock, so a new character is new to every replica. `TextGrows` follows from
  one fact about inserting in a sequence (`Inserts`).
- Keys. The queue is the last part of what was ever accepted, without
  repetition, and at least as long as an eviction leaves it once one took
  place; a key that is not in it was accepted before that part.

### Stores

`RustStoresProofs` is about `RustStores` and proves all that `rust_stores`
checks. A step moves one store (`StepOfEach`),
so the invariant is a conjunction of ten, each proved by itself:

- Objects: ids are drawn once, so an object which is gone stays gone, and a
  row's write number never falls below that of a call which has yet to read it
  back (`UpdateSound`).
- Flashcards: every schedule SM-2 gives is in bounds that SM-2 keeps (`Grown`),
  the one a reviewer still carries to the database like those stored before, so
  it does not matter which of two reviewers stores last.
- Databases: a field's position is below the number of fields ever drawn
  (`FieldSound`), so the next one, counted from the greatest, is new. That a new
  row has the cells of its own call is a property of the step (`RowsComeWhole`).
- Blocks: ids are drawn in order, and in every note that parse_markdown has not
  written over, the places of its blocks differ (`Apart`). Each call is shown
  to keep both and the order of the blocks it does not name (`OrderKept`), the
  list of a caller by what Reindex gives back (`ReindexKeeps`).
- Search index: the triggers keep the postings of the rows, and the last answer
  to a note is the row there is.
- Tantivy: each add in the queue follows the delete of its note (`Paired`), and
  what failed calls left in the queue is about notes of which nothing is
  promised, so the commit of a later call breaks no promise. A rebuild, and one
  that fails after the files are gone, ends the promises of all notes; promises
  made after it are kept, since a writer without files commits nothing. A commit is a fold
  and goes through `FoldInduction`.
- Audit log: pages are cut by rank (`EntriesRanked`), and new entries move an
  old one back while a purge only takes what is behind it, so what a reader has
  not seen stays ahead of its offset.
- Vault: what a reader holds is what the table held, and answers so far fit it.
  `AnswersHold` has the hypothesis that one thread changes passwords: the two
  locks of key and salt let two threads leave the key of one with the salt of
  the other.
- Notes and canvas: the type invariant is inductive by itself.

`StableOrder!Kept` is a filter without recursion, so what it leaves (`FilterPicks`)
and what a stable sort makes (`SortPicks`) are lemmas from `OrderedPick`, and
every filter and sort of the stores is taken through them.

`OrdersHold` speaks of what three loops compute in one call, so its proof
follows the loops and not the steps:

- Sorts. `apply_sort` sorts stably once for each key, the last key first. The
  claim carried through the loop (`NestsBy`) says that after the last k sorts
  rows stand by the first of the last k keys in which they differ (`Decided`),
  and as they were loaded when they differ in none (`Undecided`). One more
  stable sort by the key before keeps it, because rows equal in that key stay as
  they stood. `TablesAssumption` says for this that the sorts of a view are a
  finite list.
- Layers. `Layering` carries three facts through the rounds of the hierarchical
  layout: every node is in one layer or remains (`Layered`), the degree of a
  node counts the arrows into it from what remains (`Counted`), and arrows into
  a layer come from above (`Descending`). When the arrows have no cycle, of
  the nodes that remain one of the least rank has degree 0, so no round takes a
  node together with one before it. A round takes a node at least; after as many
  rounds as there are nodes none remains.
- Distribution. Widths add up to no more than the span of nodes that do not
  overlap, so the gap is not negative and the cursor moves past each node; the
  division rounds towards zero, so the last node is not moved beyond its place.

`FoldTrace` in `FoldInduction` is what the last one needs and `FoldHolds` does
not give: the values a fold goes through, one after another. `FoldAppend`, that
one element more is one step more, follows from it and serves the Markdown parser.

### Only model-checked

- `FormulasFaithful`: it compares the recursion of `Formula`, which the provers
  cannot read, with what was written.
- The liveness properties: the prover handles neither fairness nor ENABLED.
- The four disagreements of section 4, which are violated.

## 6. Not modelled

`components` in `PROJECT.json` gives the reason for each part.

- Realtime rooms, the CRDT hub and the realtime client: a second system beside
  the sync feed, which relays and does not decide what is stored.
- Authentication, sharing, rate limits, the gateways and the business server:
  cryptography, clocks, and requests of one or two statements.
- Offline queue and the events of `SyncBloc`, beyond the retry of a push.
- Cloud storage, IPFS, the encrypted file store and migrations: I/O whose
  states are those of a file system or a remote service.
- Cryptography, document formats, handwriting and OCR: computations without
  state. `Vault` uses encryption as a function of key and text.
- User interface, generated code and FFI.
- Within the modelled libraries: updates that rewrite only names and texts
  (`update_note`, `update_flashcard`, `update_field`, `update_object_type`),
  inline markup, ranking and snippets, the formulas' other functions, the
  values of the centrality measures.
