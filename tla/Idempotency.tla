----------------------------- MODULE Idempotency -----------------------------
(***************************************************************************)
(* Repeated pushes: IdempotencyMiddleware around SyncHandler.Push, with    *)
(* the handler's own table of processed keys.                              *)
(*                                                                         *)
(* The middleware keeps two entries per key in the StateStore: a lock that *)
(* IncrWithTTL creates and an answer.  Each call of the store is one step. *)
(* The store is the memory of the only instance, or a Redis that several   *)
(* instances share; Redis calls carry the request's context and fail once  *)
(* the client has gone, and every error but IncrWithTTL's is ignored.      *)
(*                                                                         *)
(* Time is abstract: an entry may expire once the request that wrote it no *)
(* longer runs, at any moment when requests may be "slow".                 *)
(***************************************************************************)
EXTENDS Integers, SequencesExt

CONSTANTS
    Requests,   \* POST /sync/push requests; a retry is a request of its own
    Keys,       \* values of Idempotency-Key
    Bodies,     \* request bodies
    BigBodies,  \* bodies longer than MaxBodySize, which are not hashed
    Instances,  \* server processes
    Store,      \* "memory" or "redis"
    KeyCap,     \* keys the handler remembers (1000 in the code)
    Faults      \* what may go wrong: "crash", "disconnect", "slow"

NoRequest == "no request"
NoHash == "no hash"         \* hashBody returned ""

ASSUME InputsAssumption ==
    /\ NoRequest \notin Requests
    /\ NoHash \notin Bodies
    /\ BigBodies \subseteq Bodies
ASSUME StoreAssumption ==
    \/ Store = "redis"
    \/ Store = "memory" /\ \A i, j \in Instances : i = j
ASSUME BoundsAssumption ==
    /\ KeyCap \in Nat \ {0}
    /\ Faults \subseteq {"crash", "disconnect", "slow"}

VARIABLES
    lock,     \* "idempotency:lock:"+key: the request that created it
    entry,    \* "idempotency:"+key: the placeholder or the cached answer
    handled,  \* idempotentKeys of each instance, oldest first
    reqs,     \* the requests
    done,     \* history: the pushes stored for each key in its TTL window
    stored    \* history: every <<key, body>> ever stored

vars == <<lock, entry, handled, reqs, done, stored>>

-----------------------------------------------------------------------------
(* A request takes the stages of the middleware and the handler in turn.   *)

Handling == {"check", "push", "record"}                       \* in c.Next()
Locked == {"recheck", "mark", "finish", "unlock"} \cup Handling
Running == {"load", "lock"} \cup Locked
Stages == {"idle", "end"} \cup Running

Success == {"saved", "deduplicated"}                          \* 2xx
Responses == {"none", "lost", "error", "conflict", "mismatch"} \cup Success

Hashes == Bodies \cup {NoHash}

Request == [stage : Stages, key : Keys, body : Bodies, at : Instances,
            gone : BOOLEAN,      \* the client hung up: the context is done
            bypass : BOOLEAN,    \* IncrWithTTL failed: no idempotency
            response : Responses]

Entry == [status : {"none", "in_progress", "completed"}, hash : Hashes,
          response : Responses, by : Requests \cup {NoRequest}]

NoEntry == [status |-> "none", hash |-> NoHash, response |-> "none",
            by |-> NoRequest]

Hash(b) == IF b \in BigBodies THEN NoHash ELSE b

\* A store call of r returns an error.
StoreFails(r) == Store = "redis" /\ reqs[r].gone

\* loadIdempotencyEntry: an error is a miss.
Loaded(r) == IF StoreFails(r) THEN NoEntry ELSE entry[reqs[r].key]

\* The hash of the body is not compared.
AnswerUnhashed(e, r) ==
    IF e.status = "in_progress" THEN "conflict" ELSE e.response

\* The answer to r when entry e was found.
Answer(e, r) ==
    IF e.hash # NoHash /\ Hash(reqs[r].body) # e.hash THEN "mismatch"
    ELSE IF e.status = "in_progress" THEN "conflict"
    ELSE e.response

\* The keys without k, which is there once at most.
Forgotten(keys, k) ==
    LET places == {n \in DOMAIN keys : keys[n] = k}
    IN  IF places = {} THEN keys ELSE RemoveAt(keys, CHOOSE n \in places : TRUE)

\* RecordIdempotentKey: the oldest key goes when the table is full.
Remembered(keys, k) ==
    LET kept == IF Len(keys) >= KeyCap THEN Tail(keys) ELSE keys
    IN  Append(Forgotten(kept, k), k)

-----------------------------------------------------------------------------
(* The steps of a request. *)

Goto(r, stage) == reqs' = [reqs EXCEPT ![r].stage = stage]

Respond(r, response, stage) ==
    reqs' = [reqs EXCEPT ![r].response = response, ![r].stage = stage]

\* Where a request goes when the handler returns.
AfterHandler(r) == IF reqs[r].bypass THEN "end" ELSE "finish"

\* A request reaches an instance; its body is read and hashed.
Arrive(r) ==
    /\ reqs[r].stage = "idle"
    /\ Goto(r, "load")
    /\ UNCHANGED <<lock, entry, handled, done, stored>>

\* The first look at the cached answer.
Load(r) ==
    /\ reqs[r].stage = "load"
    /\ LET e == Loaded(r)
       IN  IF e.status = "none" THEN Goto(r, "lock")
                                ELSE Respond(r, Answer(e, r), "end")
    /\ UNCHANGED <<lock, entry, handled, done, stored>>

\* Get-then-Set instead of an atomic increment: the lock is always obtained.
LockNotAtomic(r) ==
    /\ reqs[r].stage = "lock"
    /\ lock' = [lock EXCEPT ![reqs[r].key] = r]
    /\ Goto(r, "recheck")
    /\ UNCHANGED <<entry, handled, done, stored>>

\* IncrWithTTL: 1 creates the lock; an error skips the middleware.
Lock(r) ==
    LET k == reqs[r].key
    IN  /\ reqs[r].stage = "lock"
        /\ \/ /\ StoreFails(r)
              /\ reqs' = [reqs EXCEPT ![r].bypass = TRUE,
                                      ![r].stage = "check"]
              /\ UNCHANGED lock
           \/ /\ ~StoreFails(r) /\ lock[k] # NoRequest
              /\ Respond(r, "conflict", "end")
              /\ UNCHANGED lock
           \/ /\ ~StoreFails(r) /\ lock[k] = NoRequest
              /\ lock' = [lock EXCEPT ![k] = r]
              /\ Goto(r, "recheck")
        /\ UNCHANGED <<entry, handled, done, stored>>

\* No second look.
RecheckSkipped(r) ==
    /\ reqs[r].stage = "recheck"
    /\ Goto(r, "mark")
    /\ UNCHANGED <<lock, entry, handled, done, stored>>

\* The second look, under the lock, finds an answer stored meanwhile.
Recheck(r) ==
    /\ reqs[r].stage = "recheck"
    /\ LET e == Loaded(r)
       IN  IF e.status = "completed" THEN Respond(r, Answer(e, r), "unlock")
                                     ELSE Goto(r, "mark")
    /\ UNCHANGED <<lock, entry, handled, done, stored>>

\* Store the placeholder.
Mark(r) ==
    /\ reqs[r].stage = "mark"
    /\ IF StoreFails(r) THEN UNCHANGED entry
       ELSE entry' = [entry EXCEPT ![reqs[r].key] =
                        [status |-> "in_progress", hash |-> Hash(reqs[r].body),
                         response |-> "none", by |-> r]]
    /\ Goto(r, "check")
    /\ UNCHANGED <<lock, handled, done, stored>>

\* Handler: IsIdempotentDuplicate on the instance's own table.
Check(r) ==
    LET seen == handled[reqs[r].at]
    IN  /\ reqs[r].stage = "check"
        /\ IF \E n \in DOMAIN seen : seen[n] = reqs[r].key
           THEN Respond(r, "deduplicated", AfterHandler(r))
           ELSE Goto(r, "push")
        /\ UNCHANGED <<lock, entry, handled, done, stored>>

\* The key is recorded whether or not the push committed.
PushRecordsEarly(r) ==
    LET k == reqs[r].key
    IN  /\ reqs[r].stage = "push"
        /\ \/ /\ done' = [done EXCEPT ![k] = @ \cup {r}]
              /\ stored' = stored \cup {<<k, reqs[r].body>>}
              /\ Respond(r, "saved", "record")
           \/ /\ Respond(r, "error", "record")
              /\ UNCHANGED <<done, stored>>
        /\ UNCHANGED <<lock, entry, handled>>

\* Handler: the push commits, or fails and answers 400 or 500.
Push(r) ==
    LET k == reqs[r].key
    IN  /\ reqs[r].stage = "push"
        /\ \/ /\ done' = [done EXCEPT ![k] = @ \cup {r}]
              /\ stored' = stored \cup {<<k, reqs[r].body>>}
              /\ Respond(r, "saved", "record")
           \/ /\ Respond(r, "error", AfterHandler(r))
              /\ UNCHANGED <<done, stored>>
        /\ UNCHANGED <<lock, entry, handled>>

\* Handler: RecordIdempotentKey.
Record(r) ==
    /\ reqs[r].stage = "record"
    /\ handled' = [handled EXCEPT ![reqs[r].at] =
                     Remembered(@, reqs[r].key)]
    /\ Goto(r, AfterHandler(r))
    /\ UNCHANGED <<lock, entry, done, stored>>

\* The middleware caches a 2xx answer, or drops the placeholder.
Finish(r) ==
    /\ reqs[r].stage = "finish"
    /\ IF StoreFails(r) THEN UNCHANGED entry
       ELSE entry' = [entry EXCEPT ![reqs[r].key] =
                        IF reqs[r].response \in Success
                        THEN [status |-> "completed",
                              hash |-> Hash(reqs[r].body),
                              response |-> reqs[r].response, by |-> r]
                        ELSE NoEntry]
    /\ Goto(r, "unlock")
    /\ UNCHANGED <<lock, handled, done, stored>>

\* Del of the lock, whoever created it.
Unlock(r) ==
    /\ reqs[r].stage = "unlock"
    /\ IF StoreFails(r) THEN UNCHANGED lock
       ELSE lock' = [lock EXCEPT ![reqs[r].key] = NoRequest]
    /\ Goto(r, "end")
    /\ UNCHANGED <<entry, handled, done, stored>>

-----------------------------------------------------------------------------
(* The environment. *)

\* The client of a running request hangs up.
Disconnect(r) ==
    /\ "disconnect" \in Faults
    /\ reqs[r].stage \in Running
    /\ ~reqs[r].gone
    /\ reqs' = [reqs EXCEPT ![r].gone = TRUE]
    /\ UNCHANGED <<lock, entry, handled, done, stored>>

\* An instance restarts: its requests and its table are lost, and the store
\* too when it is the memory of the instance.
Crash(i) ==
    /\ "crash" \in Faults
    /\ \E r \in Requests : reqs[r].at = i /\ reqs[r].stage \in Running
    /\ reqs' = [r \in Requests |->
                  IF reqs[r].at = i /\ reqs[r].stage \in Running
                  THEN [reqs[r] EXCEPT !.stage = "end", !.response = "lost"]
                  ELSE reqs[r]]
    /\ handled' = [handled EXCEPT ![i] = <<>>]
    /\ IF Store = "memory"
       THEN /\ lock' = [k \in Keys |-> NoRequest]
            /\ entry' = [k \in Keys |-> NoEntry]
       ELSE UNCHANGED <<lock, entry>>
    /\ UNCHANGED <<done, stored>>

\* The request wrote its entries longer ago than they live.
Outlived(r) == "slow" \in Faults \/ reqs[r].stage \notin Running

ExpireLock(k) ==
    /\ lock[k] # NoRequest
    /\ Outlived(lock[k])
    /\ lock' = [lock EXCEPT ![k] = NoRequest]
    /\ UNCHANGED <<entry, handled, reqs, done, stored>>

\* A placeholder stored without a TTL.
ExpirePlaceholderNever(k) == FALSE /\ UNCHANGED vars

ExpirePlaceholder(k) ==
    /\ entry[k].status = "in_progress"
    /\ Outlived(entry[k].by)
    /\ entry' = [entry EXCEPT ![k] = NoEntry]
    /\ UNCHANGED <<lock, handled, reqs, done, stored>>

\* 24 hours after the answer: a new window opens for the key.  No request
\* takes that long.
ExpireAnswer(k) ==
    /\ entry[k].status = "completed"
    /\ \A r \in Requests : ~(reqs[r].stage \in Running /\ reqs[r].key = k)
    /\ entry' = [entry EXCEPT ![k] = NoEntry]
    /\ done' = [done EXCEPT ![k] = {}]
    /\ UNCHANGED <<lock, handled, reqs, stored>>

-----------------------------------------------------------------------------
Init ==
    /\ lock = [k \in Keys |-> NoRequest]
    /\ entry = [k \in Keys |-> NoEntry]
    /\ handled = [i \in Instances |-> <<>>]
    \* What each request will carry, and the instance it will reach.
    /\ reqs \in [Requests -> [stage : {"idle"}, key : Keys, body : Bodies,
                              at : Instances, gone : {FALSE},
                              bypass : {FALSE}, response : {"none"}]]
    /\ done = [k \in Keys |-> {}]
    /\ stored = {}

Step(r) ==
    \/ Load(r) \/ Lock(r) \/ Recheck(r) \/ Mark(r)
    \/ Check(r) \/ Push(r) \/ Record(r)
    \/ Finish(r) \/ Unlock(r)

Expire(k) == ExpireLock(k) \/ ExpirePlaceholder(k)

Next ==
    \/ \E r \in Requests : Arrive(r) \/ Step(r) \/ Disconnect(r)
    \/ \E i \in Instances : Crash(i)
    \/ \E k \in Keys : Expire(k) \/ ExpireAnswer(k)

Spec == Init /\ [][Next]_vars

\* A handler that runs goes on, and time passes.
Fairness ==
    /\ \A r \in Requests : WF_vars(Step(r))
    /\ \A k \in Keys : WF_vars(ExpireLock(k)) /\ WF_vars(ExpirePlaceholder(k))

FairSpec == Spec /\ Fairness

-----------------------------------------------------------------------------
(* Properties. *)

Holds(r) == reqs[r].stage \in Locked /\ ~reqs[r].bypass

\* While requests end within the life of a lock, no two requests with one key
\* are past IncrWithTTL and not yet past the final Del together: neither a
\* crash nor a lost connection lets one in.
OneHolder ==
    \A r, s \in Requests :
        Holds(r) /\ Holds(s) /\ reqs[r].key = reqs[s].key => r = s

\* Of the requests with one key, one push at most is stored in a TTL window.
ProcessedOnce == \A k \in Keys : Cardinality(done[k]) <= 1

\* A push answered with the stored result, directly or from the cache, was
\* stored with the body the client sent, by this request or by another.
SavedMeansStored ==
    \A r \in Requests :
        reqs[r].response = "saved" => <<reqs[r].key, reqs[r].body>> \in stored

\* A 2xx answer of any kind, "deduplicated" included, means that a push with
\* this key and body was stored, whatever crashed or was lost on the way.
SuccessMeansStored ==
    \A r \in Requests :
        reqs[r].response \in Success
          => <<reqs[r].key, reqs[r].body>> \in stored

\* A cached answer is never replaced, and goes only when no request with its
\* key runs: a failing request does not delete it, a late one does not put its
\* placeholder over it.  Requests must end within the life of a lock.
AnswerKept ==
    [][\A k \in Keys :
          entry[k].status = "completed" /\ entry'[k] # entry[k]
            => /\ entry'[k] = NoEntry
               /\ \A r \in Requests :
                      reqs[r].key = k => reqs'[r].stage \notin Running]_vars

\* No key stays blocked: whatever request was abandoned half-way, the lock
\* and the placeholder that make others fail with 409 go away.
KeyFreed ==
    \A k \in Keys :
        (lock[k] # NoRequest \/ entry[k].status = "in_progress")
          ~> (lock[k] = NoRequest /\ entry[k].status # "in_progress")
=============================================================================
