-------------------------- MODULE IdempotencyProofs --------------------------
(***************************************************************************)
(* What TLAPS proves of Idempotency for any number of requests, keys and   *)
(* instances, when requests end within the life of a lock: the lock works  *)
(* across crashes and lost connections, and so a cached answer stays.      *)
(***************************************************************************)
EXTENDS Idempotency, FiniteSetTheorems, TLAPS

-----------------------------------------------------------------------------
(* The inductive invariant *)

Types ==
    /\ lock \in [Keys -> Requests \cup {NoRequest}]
    /\ entry \in [Keys -> Entry]
    /\ reqs \in [Requests -> Request]

\* A request that skipped the middleware is in the handler or has ended.
BypassEnds == \A r \in Requests : reqs[r].bypass => reqs[r].stage \in Handling \cup {"end"}

\* A request that passed IncrWithTTL owns the lock of its key.
LockOwned == \A r \in Requests : Holds(r) => lock[reqs[r].key] = r

\* A request that will store a placeholder or an answer over a cached answer
\* has lost its store since it failed to see that answer.
WontReplace ==
    \A r \in Requests :
        /\ Holds(r)
        /\ reqs[r].stage \notin {"recheck", "unlock"}
        /\ entry[reqs[r].key].status = "completed"
        => StoreFails(r)

IInv == Types /\ BypassEnds /\ LockOwned /\ WontReplace

\* The initial states satisfy the invariant.
LEMMA InitInv == Init => IInv
<1>. SUFFICES ASSUME Init PROVE IInv
  OBVIOUS
<1>1. \A r \in Requests : reqs[r] \in Request /\ reqs[r].stage = "idle" /\ reqs[r].bypass = FALSE
  BY DEF Init, Request, Stages, Responses
<1>2. DOMAIN reqs = Requests /\ reqs \in [Requests -> Request]
  BY <1>1 DEF Init
<1>3. NoEntry \in Entry
  BY DEF NoEntry, Entry, Hashes, Responses
<1>4. Types
  BY <1>2, <1>3 DEF Init, Types
<1>5. \A r \in Requests : ~Holds(r) /\ ~reqs[r].bypass
  BY <1>1 DEF Holds, Locked, Handling
<1>6. BypassEnds
  BY <1>5 DEF BypassEnds
<1>7. LockOwned
  BY <1>5 DEF LockOwned
<1>8. WontReplace
  BY <1>5 DEF WontReplace
<1>. QED
  BY <1>4, <1>6, <1>7, <1>8 DEF IInv

-----------------------------------------------------------------------------
(* Steps of one request *)

\* What a step of r does to the requests: r moves to another stage, may
\* answer, skip the middleware or lose its client, and nothing else.
Moves(r, stage) ==
    /\ reqs' \in [Requests -> Request]
    /\ \A q \in Requests \ {r} : reqs'[q] = reqs[q]
    /\ reqs'[r].key = reqs[r].key
    /\ reqs'[r].gone = reqs[r].gone
    /\ reqs'[r].stage = stage

\* A change of stage is such a step.
LEMMA GotoMoves ==
    ASSUME Types, NEW r \in Requests, NEW stage \in Stages, Goto(r, stage)
    PROVE  Moves(r, stage) /\ reqs'[r].bypass = reqs[r].bypass
<1>1. reqs[r] \in Request
  BY DEF Types
<1>2. reqs' = [reqs EXCEPT ![r] = [reqs[r] EXCEPT !.stage = stage]]
  BY DEF Goto
<1>3. [reqs[r] EXCEPT !.stage = stage] \in Request
  BY <1>1 DEF Request
<1>. QED
  BY <1>1, <1>2, <1>3 DEF Types, Moves, Request

\* And so is an answer.
LEMMA RespondMoves ==
    ASSUME Types, NEW r \in Requests, NEW stage \in Stages,
           NEW response \in Responses, Respond(r, response, stage)
    PROVE  Moves(r, stage) /\ reqs'[r].bypass = reqs[r].bypass
<1>1. reqs[r] \in Request
  BY DEF Types
<1>2. reqs' = [reqs EXCEPT ![r] = [reqs[r] EXCEPT !.response = response, !.stage = stage]]
  BY DEF Respond
<1>3. [reqs[r] EXCEPT !.response = response, !.stage = stage] \in Request
  BY <1>1 DEF Request
<1>. QED
  BY <1>1, <1>2, <1>3 DEF Types, Moves, Request

\* What r finds in the store is an entry, and answers it.
LEMMA AnswerType ==
    ASSUME Types, NEW r \in Requests
    PROVE  /\ Loaded(r) \in Entry
           /\ Answer(Loaded(r), r) \in Responses
<1>1. NoEntry \in Entry
  BY DEF NoEntry, Entry, Hashes, Responses
<1>2. entry[reqs[r].key] \in Entry
  BY DEF Types, Request
<1>3. Loaded(r) \in Entry
  BY <1>1, <1>2 DEF Loaded
<1>. QED
  BY <1>3 DEF Entry, Answer, Responses

-----------------------------------------------------------------------------
(* One lemma per action: the invariant is preserved, and no cached answer is *)
(* replaced.                                                                *)

\* No cached answer is replaced, or it goes when no request with its key runs.
Kept ==
    \A k \in Keys :
        entry[k].status = "completed" /\ entry'[k] # entry[k]
          => /\ entry'[k] = NoEntry
             /\ \A r \in Requests :
                    reqs[r].key = k => reqs'[r].stage \notin Running

\* A step of r that touches neither the store nor its bypass, and stays on its
\* side of the lock.
LEMMA QuietStep ==
    ASSUME IInv, NEW r \in Requests, NEW stage \in Stages,
           Moves(r, stage), UNCHANGED <<lock, entry>>,
           reqs'[r].bypass = reqs[r].bypass,
           reqs[r].bypass => stage \in Handling \cup {"end"},
           ~reqs[r].bypass /\ stage \in Locked => reqs[r].stage \in Locked,
           reqs[r].stage \in {"recheck", "unlock"} => 
               stage \in {"recheck", "unlock", "end"} \/ Loaded(r).status # "completed"
    PROVE  IInv' /\ Kept
<1>1. Types'
  BY DEF IInv, Types, Moves
<1>2. BypassEnds'
  BY DEF IInv, BypassEnds, Moves
<1>3. \A q \in Requests : Holds(q)' => Holds(q) /\ reqs'[q].key = reqs[q].key
                                       /\ StoreFails(q)' = StoreFails(q)
  BY DEF Holds, Moves, StoreFails
<1>4. LockOwned'
  BY <1>3 DEF IInv, LockOwned
<1>5. ASSUME NEW q \in Requests, Holds(q)',
             reqs'[q].stage \notin {"recheck", "unlock"},
             entry'[reqs'[q].key].status = "completed"
      PROVE  StoreFails(q)'
  <2>. SUFFICES StoreFails(q)
    BY <1>3, <1>5
  <2>0. Holds(q) /\ entry[reqs[q].key].status = "completed"
    BY <1>3, <1>5
  <2>1. CASE reqs[q].stage \notin {"recheck", "unlock"}
    BY <2>0, <2>1 DEF IInv, WontReplace
  <2>2. CASE reqs[q].stage \in {"recheck", "unlock"}
    <3>1. q = r
      BY <1>5, <2>2 DEF Moves
    <3>2. stage \in Locked \ {"recheck", "unlock"}
      BY <1>5, <3>1 DEF Holds, Moves
    <3>3. Loaded(r).status # "completed"
      BY <2>2, <3>1, <3>2 DEF Locked, Handling
    <3>. QED
      BY <2>0, <3>1, <3>3 DEF Loaded
  <2>. QED
    BY <2>1, <2>2
<1>6. WontReplace'
  BY <1>5 DEF WontReplace
<1>7. Kept
  BY DEF Kept
<1>. QED
  BY <1>1, <1>2, <1>4, <1>6, <1>7 DEF IInv

LEMMA ArriveInv ==
    ASSUME IInv, NEW r \in Requests, Arrive(r) PROVE IInv' /\ Kept
<1>1. Moves(r, "load") /\ reqs'[r].bypass = reqs[r].bypass
  BY GotoMoves DEF Arrive, IInv, Stages, Running
<1>2. ~reqs[r].bypass
  BY DEF IInv, BypassEnds, Arrive, Handling
<1>. QED
  BY <1>1, <1>2, QuietStep DEF Arrive, Stages, Running, Locked, Handling

LEMMA LoadInv ==
    ASSUME IInv, NEW r \in Requests, Load(r) PROVE IInv' /\ Kept
<1>1. PICK stage \in {"lock", "end"} :
         Moves(r, stage) /\ reqs'[r].bypass = reqs[r].bypass
  BY GotoMoves, RespondMoves, AnswerType DEF Load, IInv, Stages, Running
<1>2. ~reqs[r].bypass
  BY DEF IInv, BypassEnds, Load, Handling
<1>. QED
  BY <1>1, <1>2, QuietStep DEF Load, Stages, Running, Locked, Handling

LEMMA RecheckInv ==
    ASSUME IInv, NEW r \in Requests, Recheck(r) PROVE IInv' /\ Kept
<1>1. PICK stage \in {"unlock", "mark"} :
         /\ Moves(r, stage) /\ reqs'[r].bypass = reqs[r].bypass
         /\ stage = "mark" => Loaded(r).status # "completed"
  BY GotoMoves, RespondMoves, AnswerType
     DEF Recheck, IInv, Stages, Running, Locked
<1>2. ~reqs[r].bypass
  BY DEF IInv, BypassEnds, Recheck, Handling
<1>. QED
  BY <1>1, <1>2, QuietStep DEF Recheck, Stages, Running, Locked, Handling

LEMMA AfterHandlerStage ==
    ASSUME NEW r \in Requests
    PROVE  /\ AfterHandler(r) \in {"end", "finish"}
           /\ reqs[r].bypass => AfterHandler(r) = "end"
BY DEF AfterHandler

LEMMA CheckInv ==
    ASSUME IInv, NEW r \in Requests, Check(r) PROVE IInv' /\ Kept
<1>1. PICK stage \in {"end", "finish", "push"} :
         /\ Moves(r, stage) /\ reqs'[r].bypass = reqs[r].bypass
         /\ reqs[r].bypass => stage # "finish"
  BY GotoMoves, RespondMoves, AfterHandlerStage
     DEF Check, IInv, Stages, Running, Locked, Handling, Responses, Success
<1>. QED
  BY <1>1, QuietStep DEF Check, Stages, Running, Locked, Handling

LEMMA PushInv ==
    ASSUME IInv, NEW r \in Requests, Push(r) PROVE IInv' /\ Kept
<1>1. PICK stage \in {"end", "finish", "record"} :
         /\ Moves(r, stage) /\ reqs'[r].bypass = reqs[r].bypass
         /\ reqs[r].bypass => stage # "finish"
  BY RespondMoves, AfterHandlerStage
     DEF Push, IInv, Stages, Running, Locked, Handling, Responses, Success
<1>. QED
  BY <1>1, QuietStep DEF Push, Stages, Running, Locked, Handling

LEMMA RecordInv ==
    ASSUME IInv, NEW r \in Requests, Record(r) PROVE IInv' /\ Kept
<1>1. PICK stage \in {"end", "finish"} :
         /\ Moves(r, stage) /\ reqs'[r].bypass = reqs[r].bypass
         /\ reqs[r].bypass => stage # "finish"
  BY GotoMoves, AfterHandlerStage
     DEF Record, IInv, Stages, Running, Locked, Handling
<1>. QED
  BY <1>1, QuietStep DEF Record, Stages, Running, Locked, Handling

\* Only the request that moves may begin to hold a lock.
LEMMA OthersHold ==
    ASSUME NEW r \in Requests, NEW stage \in Stages, Moves(r, stage),
           NEW q \in Requests \ {r}
    PROVE  /\ Holds(q)' = Holds(q)
           /\ StoreFails(q)' = StoreFails(q)
           /\ reqs'[q] = reqs[q]
BY DEF Moves, Holds, StoreFails

LEMMA LockInv ==
    ASSUME IInv, NEW r \in Requests, Lock(r) PROVE IInv' /\ Kept
<1>. USE DEF Stages, Running, Locked, Handling, Responses
<1>k. reqs[r] \in Request /\ reqs[r].key \in Keys /\ ~reqs[r].bypass
  BY DEF IInv, Types, BypassEnds, Request, Lock
<1>1. CASE StoreFails(r) /\ UNCHANGED lock
           /\ reqs' = [reqs EXCEPT ![r].bypass = TRUE, ![r].stage = "check"]
  <2>1. Moves(r, "check") /\ reqs'[r].bypass = TRUE
    <3>1. reqs' = [reqs EXCEPT ![r] = [reqs[r] EXCEPT !.bypass = TRUE, !.stage = "check"]]
      BY <1>1
    <3>2. [reqs[r] EXCEPT !.bypass = TRUE, !.stage = "check"] \in Request
      BY <1>k DEF Request
    <3>. QED
      BY <1>k, <3>1, <3>2 DEF IInv, Types, Moves, Request
  <2>2. ~Holds(r)'
    BY <2>1 DEF Holds
  <2>3. lock' = lock /\ entry' = entry
    BY <1>1 DEF Lock
  <2>4. Types'
    BY <2>1, <2>3 DEF IInv, Types, Moves
  <2>5. BypassEnds'
    BY <2>1 DEF IInv, BypassEnds, Moves
  <2>6. LockOwned'
    BY <2>1, <2>2, <2>3, OthersHold DEF IInv, LockOwned
  <2>7. WontReplace'
    BY <2>1, <2>2, <2>3, OthersHold DEF IInv, WontReplace
  <2>. QED
    BY <2>3, <2>4, <2>5, <2>6, <2>7 DEF IInv, Kept
<1>2. CASE Respond(r, "conflict", "end") /\ UNCHANGED lock
  <2>1. Moves(r, "end") /\ reqs'[r].bypass = reqs[r].bypass
    BY <1>2, RespondMoves DEF IInv
  <2>. QED
    BY <1>2, <1>k, <2>1, QuietStep DEF Lock
<1>3. CASE /\ lock[reqs[r].key] = NoRequest
           /\ lock' = [lock EXCEPT ![reqs[r].key] = r]
           /\ Goto(r, "recheck")
  <2>1. Moves(r, "recheck") /\ reqs'[r].bypass = reqs[r].bypass
    BY <1>3, GotoMoves DEF IInv
  <2>2. entry' = entry
    BY DEF Lock
  <2>3. \A q \in Requests \ {r} : Holds(q) => reqs[q].key # reqs[r].key
    BY <1>3, InputsAssumption DEF IInv, LockOwned
  <2>4. Types'
    BY <1>3, <2>1, <2>2 DEF IInv, Types, Moves
  <2>5. BypassEnds'
    BY <1>k, <2>1 DEF IInv, BypassEnds, Moves
  <2>6. LockOwned'
    <3>1. lock'[reqs'[r].key] = r
      BY <1>3, <1>k, <2>1 DEF Moves, IInv, Types
    <3>2. ASSUME NEW q \in Requests \ {r}, Holds(q)'
          PROVE  lock'[reqs'[q].key] = q
      <4>1. Holds(q) /\ reqs'[q] = reqs[q]
        BY <3>2, <2>1, OthersHold
      <4>. QED
        BY <1>3, <2>3, <4>1 DEF IInv, Types, LockOwned
    <3>. QED
      BY <3>1, <3>2 DEF LockOwned
  <2>7. WontReplace'
    <3>1. reqs'[r].stage = "recheck"
      BY <2>1 DEF Moves
    <3>. QED
      BY <3>1, <2>1, <2>2, OthersHold DEF IInv, WontReplace
  <2>. QED
    BY <2>2, <2>4, <2>5, <2>6, <2>7 DEF IInv, Kept
<1>. QED
  BY <1>1, <1>2, <1>3 DEF Lock

\* The holder writes its key's entry: a placeholder, an answer, or nothing.
LEMMA WriteStep ==
    ASSUME IInv, NEW r \in Requests, NEW stage \in {"check", "unlock"},
           NEW e \in Entry,
           Moves(r, stage), reqs'[r].bypass = reqs[r].bypass,
           Holds(r), reqs[r].stage \in {"mark", "finish"},
           stage = "check" => e.status # "completed",
           UNCHANGED lock,
           entry' = IF StoreFails(r) THEN entry
                    ELSE [entry EXCEPT ![reqs[r].key] = e]
    PROVE  IInv' /\ Kept
<1>. USE DEF Stages, Running, Locked, Handling
<1>1. reqs[r].key \in Keys /\ reqs'[r].key = reqs[r].key /\ ~reqs[r].bypass
  BY DEF IInv, Types, Request, Moves, Holds
<1>2. Types'
  BY <1>1 DEF IInv, Types, Moves
<1>3. BypassEnds'
  BY <1>1 DEF IInv, BypassEnds, Moves
<1>4. LockOwned'
  BY OthersHold, <1>1 DEF IInv, LockOwned
<1>5. \A q \in Requests \ {r} : Holds(q) => reqs[q].key # reqs[r].key
  BY DEF IInv, LockOwned
<1>6. entry[reqs[r].key].status = "completed" => StoreFails(r)
  BY DEF IInv, WontReplace
<1>7. Kept
  BY <1>1, <1>6 DEF Kept, IInv, Types
<1>8. WontReplace'
  <2>1. ASSUME NEW q \in Requests \ {r}, Holds(q)',
               reqs'[q].stage \notin {"recheck", "unlock"},
               entry'[reqs'[q].key].status = "completed"
        PROVE  StoreFails(q)'
    <3>1. Holds(q) /\ reqs'[q] = reqs[q] /\ StoreFails(q)' = StoreFails(q)
      BY <2>1, OthersHold
    <3>2. entry'[reqs[q].key] = entry[reqs[q].key]
      BY <1>1, <1>5, <3>1 DEF IInv, Types
    <3>. QED
      BY <2>1, <3>1, <3>2 DEF IInv, WontReplace
  <2>2. ASSUME reqs'[r].stage # "unlock",
               entry'[reqs[r].key].status = "completed"
        PROVE  StoreFails(r)'
    <3>1. stage = "check"
      BY <2>2 DEF Moves
    <3>2. StoreFails(r)' = StoreFails(r)
      BY DEF StoreFails, Moves
    <3>. QED
      BY <1>1, <2>2, <3>1, <3>2 DEF IInv, Types
  <2>. QED
    BY <1>1, <2>1, <2>2 DEF WontReplace
<1>. QED
  BY <1>2, <1>3, <1>4, <1>7, <1>8 DEF IInv

LEMMA MarkInv ==
    ASSUME IInv, NEW r \in Requests, Mark(r) PROVE IInv' /\ Kept
<1>. DEFINE e == [status |-> "in_progress", hash |-> Hash(reqs[r].body),
                  response |-> "none", by |-> r]
<1>1. reqs[r] \in Request /\ Holds(r)
  BY DEF IInv, Types, BypassEnds, Mark, Holds, Locked, Handling
<1>2. e \in Entry /\ e.status # "completed"
  BY <1>1 DEF Request, Entry, Hash, Hashes, Responses
<1>3. Moves(r, "check") /\ reqs'[r].bypass = reqs[r].bypass
  BY GotoMoves DEF Mark, IInv, Stages, Running, Locked, Handling
<1>4. /\ reqs[r].stage = "mark"
      /\ UNCHANGED lock
      /\ entry' = IF StoreFails(r) THEN entry
                  ELSE [entry EXCEPT ![reqs[r].key] = e]
  BY DEF Mark
<1>. HIDE DEF e
<1>. QED
  BY <1>1, <1>2, <1>3, <1>4, WriteStep

LEMMA FinishInv ==
    ASSUME IInv, NEW r \in Requests, Finish(r) PROVE IInv' /\ Kept
<1>. DEFINE e == IF reqs[r].response \in Success
                 THEN [status |-> "completed", hash |-> Hash(reqs[r].body),
                       response |-> reqs[r].response, by |-> r]
                 ELSE NoEntry
<1>1. reqs[r] \in Request /\ Holds(r)
  BY DEF IInv, Types, BypassEnds, Finish, Holds, Locked, Handling
<1>2. e \in Entry
  BY <1>1 DEF Request, Entry, NoEntry, Hash, Hashes, Responses
<1>3. Moves(r, "unlock") /\ reqs'[r].bypass = reqs[r].bypass
  BY GotoMoves DEF Finish, IInv, Stages, Running, Locked, Handling
<1>4. /\ reqs[r].stage = "finish"
      /\ UNCHANGED lock
      /\ entry' = IF StoreFails(r) THEN entry
                  ELSE [entry EXCEPT ![reqs[r].key] = e]
  BY DEF Finish
<1>. HIDE DEF e
<1>. QED
  BY <1>1, <1>2, <1>3, <1>4, WriteStep

LEMMA UnlockInv ==
    ASSUME IInv, NEW r \in Requests, Unlock(r) PROVE IInv' /\ Kept
<1>. USE DEF Stages, Running, Locked, Handling
<1>1. reqs[r].key \in Keys /\ Holds(r) /\ reqs[r].stage = "unlock"
  BY DEF IInv, Types, Request, BypassEnds, Unlock, Holds
<1>2. Moves(r, "end") /\ reqs'[r].bypass = reqs[r].bypass
  BY GotoMoves DEF Unlock, IInv
<1>3. /\ entry' = entry
      /\ lock' \in {lock, [lock EXCEPT ![reqs[r].key] = NoRequest]}
  BY DEF Unlock
<1>4. ~Holds(r)'
  BY <1>2 DEF Holds, Moves
<1>5. Types'
  BY <1>1, <1>2, <1>3 DEF IInv, Types, Moves
<1>6. BypassEnds'
  BY <1>2 DEF IInv, BypassEnds, Moves
<1>7. LockOwned'
  <2>1. ASSUME NEW q \in Requests \ {r}, Holds(q)'
        PROVE  lock'[reqs'[q].key] = q
    <3>1. Holds(q) /\ reqs'[q] = reqs[q]
      BY <1>2, <2>1, OthersHold
    <3>2. reqs[q].key # reqs[r].key /\ lock[reqs[q].key] = q
      BY <1>1, <3>1 DEF IInv, LockOwned
    <3>3. lock'[reqs[q].key] = lock[reqs[q].key]
      BY <1>1, <1>3, <3>2 DEF IInv, Types, Request
    <3>. QED
      BY <3>1, <3>2, <3>3
  <2>. QED
    BY <1>4, <2>1 DEF LockOwned
<1>8. WontReplace'
  BY <1>2, <1>3, <1>4, OthersHold DEF IInv, WontReplace
<1>. QED
  BY <1>3, <1>5, <1>6, <1>7, <1>8 DEF IInv, Kept

LEMMA DisconnectInv ==
    ASSUME IInv, NEW r \in Requests, Disconnect(r) PROVE IInv' /\ Kept
<1>1. reqs[r] \in Request
  BY DEF IInv, Types
<1>2. reqs' = [reqs EXCEPT ![r] = [reqs[r] EXCEPT !.gone = TRUE]]
  BY DEF Disconnect
<1>3. [reqs[r] EXCEPT !.gone = TRUE] \in Request
  BY <1>1 DEF Request
<1>4. lock' = lock /\ entry' = entry
  BY DEF Disconnect
<1>5. reqs' \in [Requests -> Request]
  BY <1>2, <1>3 DEF IInv, Types
<1>6. \A q \in Requests :
         /\ reqs'[q].key = reqs[q].key /\ reqs'[q].stage = reqs[q].stage
         /\ reqs'[q].bypass = reqs[q].bypass
         /\ reqs[q].gone => reqs'[q].gone
  BY <1>1, <1>2 DEF IInv, Types, Request
<1>7. \A q \in Requests : /\ Holds(q)' = Holds(q)
                          /\ StoreFails(q) => StoreFails(q)'
  BY <1>6 DEF Holds, StoreFails
<1>8. Types'
  BY <1>4, <1>5 DEF IInv, Types
<1>9. BypassEnds'
  BY <1>6 DEF IInv, BypassEnds
<1>10. LockOwned'
  BY <1>4, <1>6, <1>7 DEF IInv, LockOwned
<1>11. WontReplace'
  BY <1>4, <1>6, <1>7 DEF IInv, WontReplace
<1>. QED
  BY <1>4, <1>8, <1>9, <1>10, <1>11 DEF IInv, Kept

LEMMA CrashInv ==
    ASSUME IInv, NEW i \in Instances, Crash(i) PROVE IInv' /\ Kept
<1>. DEFINE Dies(r) == reqs[r].at = i /\ reqs[r].stage \in Running
<1>1. \A r \in Requests : reqs[r] \in Request
  BY DEF IInv, Types
<1>2. ASSUME NEW r \in Requests
      PROVE  [reqs[r] EXCEPT !.stage = "end", !.response = "lost"] \in Request
  BY <1>1 DEF Request, Stages, Responses
<1>3. reqs' \in [Requests -> Request]
  BY <1>1, <1>2 DEF Crash
<1>4. \A r \in Requests :
         IF Dies(r) THEN /\ reqs'[r].stage = "end"
                         /\ reqs'[r].key = reqs[r].key
                    ELSE reqs'[r] = reqs[r]
  BY <1>1 DEF Crash, Request
<1>5. \A r \in Requests :
         Holds(r)' => /\ Holds(r) /\ reqs'[r] = reqs[r]
                      /\ StoreFails(r)' = StoreFails(r) /\ ~Dies(r)
  BY <1>4 DEF Holds, Locked, Handling, StoreFails
<1>6. BypassEnds'
  <2>1. \A r \in Requests : reqs'[r].stage = "end" \/ reqs'[r] = reqs[r]
    BY <1>4
  <2>. QED
    BY <2>1 DEF IInv, BypassEnds
<1>7. CASE UNCHANGED <<lock, entry>>
  <2>1. Types'
    BY <1>3, <1>7 DEF IInv, Types
  <2>2. LockOwned' /\ WontReplace'
    BY <1>5, <1>7 DEF IInv, LockOwned, WontReplace
  <2>. QED
    BY <1>6, <1>7, <2>1, <2>2 DEF IInv, Kept
<1>8. CASE /\ Store = "memory"
           /\ lock' = [k \in Keys |-> NoRequest]
           /\ entry' = [k \in Keys |-> NoEntry]
  <2>1. \A r \in Requests : reqs[r].at = i
    BY <1>1, <1>8, StoreAssumption DEF Request
  <2>2. \A r \in Requests : reqs'[r].stage \notin Running
    BY <1>4, <2>1 DEF Running, Locked, Handling
  <2>3. \A r \in Requests : ~Holds(r)'
    BY <2>2 DEF Holds, Running
  <2>4. NoEntry \in Entry
    BY DEF NoEntry, Entry, Hashes, Responses
  <2>5. Types'
    BY <1>3, <1>8, <2>4 DEF Types
  <2>. QED
    BY <1>6, <1>8, <2>2, <2>3, <2>5 DEF IInv, LockOwned, WontReplace, Kept
<1>. QED
  BY <1>7, <1>8 DEF Crash

\* The lock of a key expires only when its owner runs no more.
LEMMA ExpireLockInv ==
    ASSUME IInv, "slow" \notin Faults, NEW k \in Keys, ExpireLock(k)
    PROVE  IInv' /\ Kept
<1>1. /\ entry' = entry /\ reqs' = reqs
      /\ lock' = [lock EXCEPT ![k] = NoRequest]
  BY DEF ExpireLock
<1>2. reqs[lock[k]].stage \notin Running
  BY DEF ExpireLock, Outlived
<1>3. Types'
  BY <1>1 DEF IInv, Types
<1>4. BypassEnds' /\ WontReplace'
  BY <1>1 DEF IInv, BypassEnds, WontReplace, Holds, StoreFails
<1>5. ASSUME NEW q \in Requests, Holds(q)
      PROVE  lock[reqs[q].key] = q /\ reqs[q].key # k
  BY <1>2, <1>5 DEF IInv, LockOwned, Holds, Running
<1>6. LockOwned'
  <2>1. ASSUME NEW q \in Requests, Holds(q)
        PROVE  lock'[reqs[q].key] = q
    <3>1. reqs[q].key \in Keys
      BY DEF IInv, Types, Request
    <3>. QED
      BY <1>1, <1>5, <2>1, <3>1 DEF IInv, Types
  <2>. QED
    BY <1>1, <2>1 DEF LockOwned, Holds
<1>. QED
  BY <1>1, <1>3, <1>4, <1>6 DEF IInv, Kept

\* An entry that goes is replaced by none.
LEMMA ExpireEntryInv ==
    ASSUME IInv, NEW k \in Keys, ExpirePlaceholder(k) \/ ExpireAnswer(k)
    PROVE  IInv' /\ Kept
<1>1. /\ lock' = lock /\ reqs' = reqs
      /\ entry' = [entry EXCEPT ![k] = NoEntry]
  BY DEF ExpirePlaceholder, ExpireAnswer
<1>2. NoEntry \in Entry /\ NoEntry.status # "completed"
  BY DEF NoEntry, Entry, Hashes, Responses
<1>3. Types'
  BY <1>1, <1>2 DEF IInv, Types
<1>4. BypassEnds' /\ LockOwned'
  BY <1>1 DEF IInv, BypassEnds, LockOwned, Holds
<1>5. WontReplace'
  <2>1. \A q \in Requests :
           entry'[reqs[q].key].status = "completed"
             => entry[reqs[q].key].status = "completed"
    BY <1>1, <1>2 DEF IInv, Types, Request
  <2>. QED
    BY <1>1, <2>1 DEF IInv, WontReplace, Holds, StoreFails
<1>6. Kept
  <2>1. ASSUME NEW j \in Keys, entry[j].status = "completed", entry'[j] # entry[j]
        PROVE  /\ entry'[j] = NoEntry
               /\ \A r \in Requests : reqs[r].key = j => reqs[r].stage \notin Running
    <3>1. j = k
      BY <1>1, <2>1 DEF IInv, Types
    <3>2. ExpireAnswer(k)
      BY <2>1, <3>1 DEF ExpirePlaceholder
    <3>. QED
      BY <1>1, <3>1, <3>2 DEF ExpireAnswer, IInv, Types
  <2>. QED
    BY <1>1, <2>1 DEF Kept
<1>. QED
  BY <1>3, <1>4, <1>5, <1>6 DEF IInv

-----------------------------------------------------------------------------
(* The theorems *)

\* Every step preserves the invariant and the cached answers.
LEMMA NextInv ==
    ASSUME IInv, "slow" \notin Faults, [Next]_vars
    PROVE  IInv' /\ Kept
<1>1. CASE UNCHANGED vars
  BY <1>1 DEF vars, IInv, Types, BypassEnds, LockOwned, WontReplace, Holds,
              StoreFails, Kept
<1>2. ASSUME NEW r \in Requests, Arrive(r) \/ Step(r) \/ Disconnect(r)
      PROVE  IInv' /\ Kept
  BY <1>2, ArriveInv, LoadInv, LockInv, RecheckInv, MarkInv, CheckInv, PushInv,
     RecordInv, FinishInv, UnlockInv, DisconnectInv DEF Step
<1>3. ASSUME NEW i \in Instances, Crash(i) PROVE IInv' /\ Kept
  BY <1>3, CrashInv
<1>4. ASSUME NEW k \in Keys, Expire(k) \/ ExpireAnswer(k) PROVE IInv' /\ Kept
  BY <1>4, ExpireLockInv, ExpireEntryInv DEF Expire
<1>. QED
  BY <1>1, <1>2, <1>3, <1>4 DEF Next

\* The invariant holds in every reachable state.
THEOREM Invariance == ASSUME "slow" \notin Faults PROVE Spec => []IInv
<1>1. IInv /\ [Next]_vars => IInv'
  BY NextInv
<1>. QED
  BY <1>1, InitInv, PTL DEF Spec

\* OneHolder: no two requests with one key are between IncrWithTTL and the Del
\* of the lock together.
THEOREM OneHolderAlways == ASSUME "slow" \notin Faults PROVE Spec => []OneHolder
<1>1. IInv => OneHolder
  BY DEF IInv, LockOwned, OneHolder
<1>. QED
  BY <1>1, Invariance, PTL

\* AnswerKept: a cached answer is never replaced, and goes only when no request
\* with its key runs.
THEOREM AnswersKept == ASSUME "slow" \notin Faults PROVE Spec => AnswerKept
<1>1. IInv /\ [Next]_vars => [Kept]_vars
  BY NextInv
<1>2. [Kept]_vars =>
        [\A k \in Keys :
            entry[k].status = "completed" /\ entry'[k] # entry[k]
              => /\ entry'[k] = NoEntry
                 /\ \A r \in Requests :
                        reqs[r].key = k => reqs'[r].stage \notin Running]_vars
  BY DEF Kept
<1>. QED
  BY <1>1, <1>2, Invariance, PTL DEF Spec, AnswerKept

-----------------------------------------------------------------------------
(* What an answer says was stored.  Nothing here needs requests to end     *)
(* within the life of a lock.                                              *)

\* A retry carries the body of the first attempt.
OneBodyPerKey ==
    \A r, s \in Requests :
        reqs[r].key = reqs[s].key => reqs[r].body = reqs[s].body

\* A body that is too long to hash is the only one of its key.
OneBodyPerBigKey ==
    \A r, s \in Requests :
        reqs[r].key = reqs[s].key /\ reqs[r].body \in BigBodies
          => reqs[r].body = reqs[s].body

TableTypes == handled \in [Instances -> Seq(Keys)]

\* Every body that a request carries with key k is in S.
KeyIn(S, k) == \A r \in Requests : reqs[r].key = k => <<k, reqs[r].body>> \in S

KeyStored(k) == KeyIn(stored, k)

\* Whatever an answer of 2xx may come from stands for a stored push.
EvidenceStored ==
    /\ \A r \in Requests :
           reqs[r].response \in Success \/ reqs[r].stage = "record"
             => KeyStored(reqs[r].key)
    /\ \A k \in Keys : entry[k].response \in Success => KeyStored(k)
    /\ \A i \in Instances : \A n \in DOMAIN handled[i] : KeyStored(handled[i][n])

\* The middleware takes e for the answer to r's body.
Matches(e, r) == e.hash = NoHash \/ Hash(reqs[r].body) = e.hash

\* A "saved", given or cached, stands for a push of the bodies it answers.
SavedStored ==
    \A r \in Requests :
        /\ reqs[r].response = "saved" => <<reqs[r].key, reqs[r].body>> \in stored
        /\ LET e == entry[reqs[r].key]
           IN  e.response = "saved" /\ Matches(e, r)
                 => <<reqs[r].key, reqs[r].body>> \in stored

\* A table of keys holds no more than the key that was remembered.
LEMMA RememberedKeys ==
    ASSUME NEW keys \in Seq(Keys), NEW k \in Keys
    PROVE  /\ Remembered(keys, k) \in Seq(Keys)
           /\ \A n \in DOMAIN Remembered(keys, k) :
                  \/ Remembered(keys, k)[n] = k
                  \/ \E m \in DOMAIN keys : Remembered(keys, k)[n] = keys[m]
<1>. DEFINE kept == IF Len(keys) >= KeyCap THEN Tail(keys) ELSE keys
            places == {n \in DOMAIN kept : kept[n] = k}
            rest == Forgotten(kept, k)
<1>1. /\ kept \in Seq(Keys)
      /\ \A n \in DOMAIN kept : \E m \in DOMAIN keys : kept[n] = keys[m]
  <2>1. CASE Len(keys) >= KeyCap
    <3>1. keys # <<>>
      BY <2>1, BoundsAssumption
    <3>2. /\ Tail(keys) \in Seq(Keys)
          /\ \A n \in DOMAIN Tail(keys) :
                 n + 1 \in DOMAIN keys /\ Tail(keys)[n] = keys[n + 1]
      BY <3>1
    <3>. QED
      BY <2>1, <3>2
  <2>2. CASE ~(Len(keys) >= KeyCap)
    BY <2>2
  <2>. QED
    BY <2>1, <2>2
<1>. HIDE DEF kept
<1>2. /\ rest \in Seq(Keys)
      /\ \A n \in DOMAIN rest : \E m \in DOMAIN kept : rest[n] = kept[m]
  <2>1. CASE places = {}
    <3>1. rest = kept
      BY <2>1 DEF Forgotten
    <3>. QED
      BY <1>1, <3>1
  <2>2. CASE places # {}
    <3>. DEFINE p == CHOOSE n \in places : TRUE
    <3>1. p \in places
      BY <2>2
    <3>2. p \in 1..Len(kept)
      BY <1>1, <3>1
    <3>3. rest = SubSeq(kept, 1, p - 1) \o SubSeq(kept, p + 1, Len(kept))
      BY <2>2 DEF Forgotten, RemoveAt
    <3>. HIDE DEF p
    <3>4. /\ SubSeq(kept, 1, p - 1) \in Seq(Keys)
          /\ SubSeq(kept, p + 1, Len(kept)) \in Seq(Keys)
          /\ Len(SubSeq(kept, 1, p - 1)) = p - 1
          /\ Len(SubSeq(kept, p + 1, Len(kept))) = Len(kept) - p
          /\ \A n \in 1..(p - 1) : SubSeq(kept, 1, p - 1)[n] = kept[n]
          /\ \A n \in 1..(Len(kept) - p) :
                 SubSeq(kept, p + 1, Len(kept))[n] = kept[p + n]
      BY <1>1, <3>2
    <3>. DEFINE a == SubSeq(kept, 1, p - 1)
                b == SubSeq(kept, p + 1, Len(kept))
    <3>. HIDE DEF rest, a, b
    <3>5. rest = a \o b /\ a \in Seq(Keys) /\ b \in Seq(Keys)
      BY <3>3, <3>4 DEF a, b
    <3>6. /\ rest \in Seq(Keys)
          /\ \A n \in 1..Len(rest) :
                 IF n <= Len(a) THEN rest[n] = a[n] ELSE rest[n] = b[n - Len(a)]
          /\ Len(rest) = Len(a) + Len(b)
      BY <3>5
    <3>7. ASSUME NEW n \in 1..Len(rest)
          PROVE  \E m \in 1..Len(kept) : rest[n] = kept[m]
      <4>1. CASE n <= Len(a)
        <5>1. Len(a) = p - 1 /\ n \in 1..(p - 1) /\ n \in 1..Len(kept)
          BY <1>1, <3>2, <3>4, <4>1 DEF a
        <5>2. rest[n] = kept[n]
          BY <3>4, <3>6, <4>1, <5>1 DEF a
        <5>. QED
          BY <5>1, <5>2
      <4>2. CASE ~(n <= Len(a))
        <5>1. /\ Len(a) = p - 1 /\ Len(b) = Len(kept) - p
          BY <3>4 DEF a, b
        <5>2. /\ n - Len(a) \in 1..(Len(kept) - p)
              /\ p + (n - Len(a)) \in 1..Len(kept)
          BY <1>1, <3>2, <3>6, <4>2, <5>1
        <5>3. rest[n] = kept[p + (n - Len(a))]
          BY <3>4, <3>6, <4>2, <5>2 DEF b
        <5>. QED
          BY <5>2, <5>3
      <4>. QED
        BY <4>1, <4>2
    <3>. QED
      BY <1>1, <3>6, <3>7
  <2>. QED
    BY <2>1, <2>2
<1>3. Remembered(keys, k) = Append(rest, k)
  BY DEF Remembered, kept
<1>. HIDE DEF rest
<1>4. /\ Append(rest, k) \in Seq(Keys)
      /\ \A n \in DOMAIN Append(rest, k) :
             \/ Append(rest, k)[n] = k
             \/ n \in DOMAIN rest /\ Append(rest, k)[n] = rest[n]
  BY <1>2
<1>. QED
  BY <1>1, <1>2, <1>3, <1>4

\* What one step may tell a request, cache for a key, or remember of a key.
Told(r) ==
    \/ reqs'[r].response = reqs[r].response
    \/ reqs'[r].response \notin Success
    \/ LET e == entry[reqs[r].key]
       IN  Matches(e, r) /\ reqs'[r].response = e.response
    \/ /\ reqs'[r].response = "deduplicated"
       /\ \E n \in DOMAIN handled[reqs[r].at] :
              handled[reqs[r].at][n] = reqs[r].key
    \/ <<reqs[r].key, reqs[r].body>> \in stored' /\ reqs'[r].response = "saved"
                                                 /\ reqs[r].stage = "push"

Cached(k) ==
    \/ entry'[k] = entry[k]
    \/ entry'[k].response = "none"
    \/ \E r \in Requests :
           /\ reqs[r].key = k
           /\ entry'[k].response = reqs[r].response
           /\ entry'[k].hash = Hash(reqs[r].body)

Tabled(i) ==
    \A n \in DOMAIN handled'[i] :
        \/ \E m \in DOMAIN handled[i] : handled'[i][n] = handled[i][m]
        \/ \E r \in Requests : reqs[r].stage = "record" /\ handled'[i][n] = reqs[r].key

Learns ==
    /\ Types' /\ TableTypes'
    /\ stored \subseteq stored'
    /\ \A r \in Requests :
           /\ reqs'[r].key = reqs[r].key /\ reqs'[r].body = reqs[r].body
           /\ Told(r)
           /\ reqs'[r].stage = "record" =>
                reqs[r].stage = "record" \/ <<reqs[r].key, reqs[r].body>> \in stored'
    /\ \A k \in Keys : Cached(k)
    /\ \A i \in Instances : Tabled(i)

\* A step of r leaves what r carries and the other requests alone.
Turns(r) ==
    /\ reqs' \in [Requests -> Request]
    /\ \A q \in Requests \ {r} : reqs'[q] = reqs[q]
    /\ reqs'[r].key = reqs[r].key /\ reqs'[r].body = reqs[r].body

LEMMA GotoTurns ==
    ASSUME Types, NEW r \in Requests, NEW stage \in Stages, Goto(r, stage)
    PROVE  /\ Turns(r)
           /\ reqs'[r].stage = stage /\ reqs'[r].response = reqs[r].response
<1>1. reqs[r] \in Request
  BY DEF Types
<1>2. reqs' = [reqs EXCEPT ![r] = [reqs[r] EXCEPT !.stage = stage]]
  BY DEF Goto
<1>3. [reqs[r] EXCEPT !.stage = stage] \in Request
  BY <1>1 DEF Request
<1>. QED
  BY <1>1, <1>2, <1>3 DEF Types, Turns, Request

LEMMA RespondTurns ==
    ASSUME Types, NEW r \in Requests, NEW stage \in Stages,
           NEW response \in Responses, Respond(r, response, stage)
    PROVE  /\ Turns(r)
           /\ reqs'[r].stage = stage /\ reqs'[r].response = response
<1>1. reqs[r] \in Request
  BY DEF Types
<1>2. reqs' = [reqs EXCEPT ![r] = [reqs[r] EXCEPT !.response = response, !.stage = stage]]
  BY DEF Respond
<1>3. [reqs[r] EXCEPT !.response = response, !.stage = stage] \in Request
  BY <1>1 DEF Request
<1>. QED
  BY <1>1, <1>2, <1>3 DEF Types, Turns, Request

\* A step of r that only moves or answers r.
LEMMA TurnLearns ==
    ASSUME Types, TableTypes, NEW r \in Requests, Turns(r),
           lock' \in [Keys -> Requests \cup {NoRequest}],
           UNCHANGED <<entry, handled, stored>>,
           Told(r), reqs'[r].stage # "record"
    PROVE  Learns
<1>1. Types' /\ TableTypes'
  BY DEF Types, TableTypes, Turns
<1>2. \A q \in Requests : Told(q)
  BY DEF Turns, Told
<1>. QED
  BY <1>1, <1>2 DEF Learns, Turns, Cached, Tabled

\* The answer to r, if it is of 2xx, is what was cached for a body like r's.
LEMMA AnswerTold ==
    ASSUME Types, NEW r \in Requests,
           reqs'[r].response = Answer(Loaded(r), r)
    PROVE  Told(r)
<1>1. CASE StoreFails(r)
  <2>1. Answer(Loaded(r), r) \notin Success
    BY <1>1 DEF Loaded, Answer, NoEntry, Success
  <2>. QED
    BY <2>1 DEF Told
<1>2. CASE ~StoreFails(r)
  BY <1>2 DEF Told, Loaded, Answer, Matches, Success
<1>. QED
  BY <1>1, <1>2

LEMMA LookLearns ==
    ASSUME Types, TableTypes, NEW r \in Requests,
           Arrive(r) \/ Load(r) \/ Recheck(r)
    PROVE  Learns
<1>1. PICK stage \in {"load", "lock", "end", "unlock", "mark"} :
         \/ Goto(r, stage)
         \/ Respond(r, Answer(Loaded(r), r), stage)
  BY DEF Arrive, Load, Recheck
<1>2. /\ Turns(r) /\ reqs'[r].stage # "record"
      /\ \/ reqs'[r].response = reqs[r].response
         \/ reqs'[r].response = Answer(Loaded(r), r)
  BY <1>1, GotoTurns, RespondTurns, AnswerType DEF Stages, Running, Locked
<1>3. Told(r)
  BY <1>2, AnswerTold DEF Told
<1>. QED
  BY <1>2, <1>3, TurnLearns DEF Arrive, Load, Recheck, Types

LEMMA LockLearns ==
    ASSUME Types, TableTypes, NEW r \in Requests, Lock(r) \/ Unlock(r)
    PROVE  Learns
<1>1. reqs[r] \in Request
  BY DEF Types
<1>2. lock' \in [Keys -> Requests \cup {NoRequest}]
  BY <1>1 DEF Lock, Unlock, Types, Request
<1>3. /\ Turns(r) /\ reqs'[r].stage # "record"
      /\ reqs'[r].response \in {reqs[r].response, "conflict"}
  <2>1. CASE reqs' = [reqs EXCEPT ![r].bypass = TRUE, ![r].stage = "check"]
    <3>1. reqs' = [reqs EXCEPT ![r] = [reqs[r] EXCEPT !.bypass = TRUE, !.stage = "check"]]
      BY <2>1
    <3>2. [reqs[r] EXCEPT !.bypass = TRUE, !.stage = "check"] \in Request
      BY <1>1 DEF Request, Stages, Running, Locked, Handling
    <3>. QED
      BY <1>1, <3>1, <3>2 DEF Types, Turns, Request
  <2>2. CASE Respond(r, "conflict", "end")
    BY <2>2, RespondTurns DEF Stages, Responses
  <2>3. CASE Goto(r, "recheck") \/ Goto(r, "end")
    BY <2>3, GotoTurns DEF Stages, Running, Locked
  <2>. QED
    BY <2>1, <2>2, <2>3 DEF Lock, Unlock
<1>4. Told(r)
  BY <1>3 DEF Told, Success
<1>. QED
  BY <1>2, <1>3, <1>4, TurnLearns DEF Lock, Unlock

LEMMA CheckLearns ==
    ASSUME Types, TableTypes, NEW r \in Requests, Check(r)
    PROVE  Learns
<1>1. AfterHandler(r) \in Stages \ {"record"}
  BY AfterHandlerStage DEF Stages, Running, Locked
<1>2. /\ Turns(r) /\ reqs'[r].stage # "record"
      /\ \/ reqs'[r].response = reqs[r].response
         \/ /\ reqs'[r].response = "deduplicated"
            /\ \E n \in DOMAIN handled[reqs[r].at] :
                   handled[reqs[r].at][n] = reqs[r].key
  BY <1>1, GotoTurns, RespondTurns
     DEF Check, Stages, Running, Locked, Handling, Responses, Success
<1>3. Told(r)
  BY <1>2 DEF Told
<1>. QED
  BY <1>2, <1>3, TurnLearns DEF Check, Types

LEMMA PushLearns ==
    ASSUME Types, TableTypes, NEW r \in Requests, Push(r)
    PROVE  Learns
<1>1. AfterHandler(r) \in Stages \ {"record"}
  BY AfterHandlerStage DEF Stages, Running, Locked
<1>2. UNCHANGED <<lock, entry, handled>> /\ reqs[r].stage = "push"
  BY DEF Push
<1>3. CASE /\ stored' = stored \cup {<<reqs[r].key, reqs[r].body>>}
           /\ Respond(r, "saved", "record")
  <2>1. Turns(r) /\ reqs'[r].response = "saved"
    BY <1>3, RespondTurns DEF Stages, Running, Locked, Handling, Responses, Success
  <2>2. <<reqs[r].key, reqs[r].body>> \in stored'
    BY <1>3
  <2>3. \A q \in Requests : Told(q)
    BY <1>2, <2>1, <2>2 DEF Turns, Told
  <2>4. Types' /\ TableTypes'
    BY <1>2, <2>1 DEF Types, TableTypes, Turns
  <2>. QED
    BY <1>2, <1>3, <2>1, <2>2, <2>3, <2>4 DEF Learns, Turns, Cached, Tabled
<1>4. CASE Respond(r, "error", AfterHandler(r)) /\ UNCHANGED stored
  <2>1. Turns(r) /\ reqs'[r].stage # "record" /\ reqs'[r].response = "error"
    BY <1>1, <1>4, RespondTurns DEF Responses
  <2>2. Told(r)
    BY <2>1 DEF Told, Success
  <2>. QED
    BY <1>2, <1>4, <2>1, <2>2, TurnLearns DEF Types
<1>. QED
  BY <1>3, <1>4 DEF Push

LEMMA RecordLearns ==
    ASSUME Types, TableTypes, NEW r \in Requests, Record(r)
    PROVE  Learns
<1>1. AfterHandler(r) \in Stages \ {"record"}
  BY AfterHandlerStage DEF Stages, Running, Locked
<1>2. /\ Turns(r) /\ reqs'[r].stage # "record"
      /\ reqs'[r].response = reqs[r].response
  BY <1>1, GotoTurns DEF Record
<1>3. /\ reqs[r].key \in Keys /\ reqs[r].at \in Instances
      /\ reqs[r].stage = "record" /\ UNCHANGED <<lock, entry, stored>>
  BY DEF Record, Types, Request
<1>4. /\ handled' = [handled EXCEPT ![reqs[r].at] = Remembered(@, reqs[r].key)]
      /\ handled[reqs[r].at] \in Seq(Keys)
  BY <1>3 DEF Record, TableTypes
<1>5. handled' \in [Instances -> Seq(Keys)]
  BY <1>3, <1>4, RememberedKeys DEF TableTypes
<1>6. ASSUME NEW i \in Instances PROVE Tabled(i)
  <2>1. CASE i = reqs[r].at
    <3>1. handled'[i] = Remembered(handled[i], reqs[r].key)
      BY <1>3, <1>4, <2>1 DEF TableTypes
    <3>. QED
      BY <1>3, <1>4, <2>1, <3>1, RememberedKeys DEF Tabled
  <2>2. CASE i # reqs[r].at
    BY <1>4, <2>2 DEF Tabled, TableTypes
  <2>. QED
    BY <2>1, <2>2
<1>7. Types' /\ TableTypes'
  BY <1>2, <1>3, <1>5 DEF Types, TableTypes, Turns
<1>8. \A q \in Requests : Told(q)
  BY <1>2 DEF Told, Turns
<1>. QED
  BY <1>2, <1>3, <1>6, <1>7, <1>8 DEF Learns, Turns, Cached

\* The placeholder and the cached answer.
LEMMA WriteLearns ==
    ASSUME Types, TableTypes, NEW r \in Requests, Mark(r) \/ Finish(r)
    PROVE  Learns
<1>1. /\ Turns(r) /\ reqs'[r].stage # "record"
      /\ reqs'[r].response = reqs[r].response
  BY GotoTurns DEF Mark, Finish, Stages, Running, Locked, Handling
<1>2. reqs[r] \in Request /\ UNCHANGED <<lock, handled, stored>>
  BY DEF Mark, Finish, Types
<1>3. PICK e \in Entry :
         /\ entry' \in {entry, [entry EXCEPT ![reqs[r].key] = e]}
         /\ \/ e.response = "none"
            \/ e.response = reqs[r].response /\ e.hash = Hash(reqs[r].body)
  <2>. DEFINE p == [status |-> "in_progress", hash |-> Hash(reqs[r].body),
                    response |-> "none", by |-> r]
              a == [status |-> "completed", hash |-> Hash(reqs[r].body),
                    response |-> reqs[r].response, by |-> r]
  <2>1. p \in Entry /\ a \in Entry /\ NoEntry \in Entry
    BY <1>2 DEF Request, Entry, NoEntry, Hash, Hashes, Responses
  <2>2. entry' \in {entry, [entry EXCEPT ![reqs[r].key] = p],
                    [entry EXCEPT ![reqs[r].key] = a],
                    [entry EXCEPT ![reqs[r].key] = NoEntry]}
    BY DEF Mark, Finish
  <2>3. p.response = "none" /\ NoEntry.response = "none"
        /\ a.response = reqs[r].response /\ a.hash = Hash(reqs[r].body)
    BY DEF NoEntry
  <2>. HIDE DEF p, a
  <2>. QED
    BY <2>1, <2>2, <2>3
<1>4. Types' /\ TableTypes'
  BY <1>1, <1>2, <1>3 DEF Types, TableTypes, Turns
<1>5. ASSUME NEW k \in Keys PROVE Cached(k)
  BY <1>2, <1>3 DEF Cached, Types
<1>6. \A q \in Requests : Told(q)
  BY <1>1 DEF Told, Turns
<1>. QED
  BY <1>1, <1>2, <1>4, <1>5, <1>6 DEF Learns, Turns, Tabled

\* Nothing that the environment does tells, caches or remembers anything.
LEMMA EnvironmentLearns ==
    ASSUME Types, TableTypes,
           \/ \E r \in Requests : Disconnect(r)
           \/ \E i \in Instances : Crash(i)
           \/ \E k \in Keys : Expire(k) \/ ExpireAnswer(k)
    PROVE  Learns
<1>1. \A r \in Requests : reqs[r] \in Request
  BY DEF Types
<1>2. stored' = stored
  BY DEF Disconnect, Crash, Expire, ExpireLock, ExpirePlaceholder, ExpireAnswer
<1>3. /\ reqs' \in [Requests -> Request]
      /\ \A r \in Requests :
             /\ reqs'[r].key = reqs[r].key /\ reqs'[r].body = reqs[r].body
             /\ reqs'[r].response \in {reqs[r].response, "lost"}
             /\ reqs'[r].stage \in {reqs[r].stage, "end"}
  <2>1. CASE UNCHANGED reqs
    BY <1>1, <2>1 DEF Types
  <2>2. ASSUME NEW r \in Requests, Disconnect(r)
        PROVE  <1>3!1 /\ <1>3!2
    <3>1. reqs' = [reqs EXCEPT ![r] = [reqs[r] EXCEPT !.gone = TRUE]]
      BY <2>2 DEF Disconnect
    <3>2. [reqs[r] EXCEPT !.gone = TRUE] \in Request
      BY <1>1 DEF Request
    <3>. QED
      BY <1>1, <3>1, <3>2 DEF Types, Request
  <2>3. ASSUME NEW i \in Instances, Crash(i)
        PROVE  <1>3!1 /\ <1>3!2
    <3>1. \A r \in Requests :
             /\ reqs'[r] \in {reqs[r], [reqs[r] EXCEPT !.stage = "end", !.response = "lost"]}
             /\ [reqs[r] EXCEPT !.stage = "end", !.response = "lost"] \in Request
      BY <1>1, <2>3 DEF Crash, Request, Stages, Responses
    <3>2. reqs' \in [Requests -> Request]
      BY <1>1, <2>3, <3>1 DEF Crash
    <3>3. ASSUME NEW r \in Requests
          PROVE  /\ reqs'[r].key = reqs[r].key /\ reqs'[r].body = reqs[r].body
                 /\ reqs'[r].response \in {reqs[r].response, "lost"}
                 /\ reqs'[r].stage \in {reqs[r].stage, "end"}
      BY <1>1, <3>1 DEF Request
    <3>. QED
      BY <3>2, <3>3
  <2>4. CASE \E k \in Keys : Expire(k) \/ ExpireAnswer(k)
    BY <2>1, <2>4 DEF Expire, ExpireLock, ExpirePlaceholder, ExpireAnswer
  <2>. QED
    BY <2>2, <2>3, <2>4
<1>4. \A r \in Requests : Told(r)
  BY <1>3 DEF Told, Success
<1>5. lock' \in [Keys -> Requests \cup {NoRequest}]
  BY DEF Disconnect, Crash, Expire, ExpireLock, ExpirePlaceholder, ExpireAnswer, Types
<1>6. NoEntry \in Entry /\ NoEntry.response = "none"
  BY DEF NoEntry, Entry, Hashes, Responses
<1>7. \/ entry' = entry
      \/ entry' = [k \in Keys |-> NoEntry]
      \/ \E k \in Keys : entry' = [entry EXCEPT ![k] = NoEntry]
  BY DEF Disconnect, Crash, Expire, ExpireLock, ExpirePlaceholder, ExpireAnswer
<1>8. entry' \in [Keys -> Entry] /\ \A k \in Keys : Cached(k)
  BY <1>6, <1>7 DEF Types, Cached
<1>9. \/ handled' = handled
      \/ \E i \in Instances : handled' = [handled EXCEPT ![i] = <<>>]
  BY DEF Disconnect, Crash, Expire, ExpireLock, ExpirePlaceholder, ExpireAnswer
<1>10. TableTypes' /\ \A i \in Instances : Tabled(i)
  <2>1. CASE handled' = handled
    BY <2>1 DEF TableTypes, Tabled
  <2>2. ASSUME NEW i \in Instances, handled' = [handled EXCEPT ![i] = <<>>]
        PROVE  TableTypes' /\ \A j \in Instances : Tabled(j)
    <3>1. <<>> \in Seq(Keys) /\ DOMAIN <<>> = {}
      OBVIOUS
    <3>2. TableTypes'
      BY <2>2, <3>1 DEF TableTypes
    <3>3. \A j \in Instances : handled'[j] = handled[j] \/ handled'[j] = <<>>
      BY <2>2 DEF TableTypes
    <3>. QED
      BY <3>1, <3>2, <3>3 DEF Tabled
  <2>. QED
    BY <1>9, <2>1, <2>2
<1>11. Types'
  BY <1>3, <1>5, <1>8 DEF Types
<1>12. \A r \in Requests :
          /\ reqs'[r].key = reqs[r].key /\ reqs'[r].body = reqs[r].body
          /\ reqs'[r].stage = "record" => reqs[r].stage = "record"
  BY <1>3
<1>. QED
  BY <1>2, <1>4, <1>8, <1>10, <1>11, <1>12 DEF Learns

LEMMA NextLearns ==
    ASSUME Types, TableTypes, [Next]_vars PROVE Learns
<1>1. CASE UNCHANGED vars
  BY <1>1 DEF vars, Learns, Types, TableTypes, Told, Cached, Tabled
<1>2. ASSUME NEW r \in Requests, Arrive(r) \/ Step(r) PROVE Learns
  BY <1>2, LookLearns, LockLearns, CheckLearns, PushLearns, RecordLearns,
     WriteLearns DEF Step
<1>. QED
  BY <1>1, <1>2, EnvironmentLearns DEF Next

-----------------------------------------------------------------------------
(* What is answered was stored *)

\* The evidence stays sound while each key has one body.
LEMMA EvidenceKept ==
    ASSUME Types, TableTypes, OneBodyPerKey, EvidenceStored, Learns
    PROVE  OneBodyPerKey' /\ EvidenceStored'
<1>1. \A r \in Requests : reqs[r] \in Request /\ reqs'[r].key = reqs[r].key
                                              /\ reqs'[r].body = reqs[r].body
  BY DEF Learns, Types
<1>2. OneBodyPerKey'
  BY <1>1 DEF OneBodyPerKey
<1>3. ASSUME NEW k, KeyStored(k) PROVE KeyIn(stored', k)
  BY <1>3 DEF KeyStored, KeyIn, Learns
<1>4. ASSUME NEW r \in Requests, <<reqs[r].key, reqs[r].body>> \in stored'
      PROVE  KeyIn(stored', reqs[r].key)
  BY <1>4 DEF KeyIn, OneBodyPerKey
<1>5. ASSUME NEW r \in Requests,
             reqs'[r].response \in Success \/ reqs'[r].stage = "record"
      PROVE  KeyIn(stored', reqs[r].key)
  <2>. SUFFICES ASSUME <<reqs[r].key, reqs[r].body>> \notin stored'
                PROVE  KeyStored(reqs[r].key)
    BY <1>3, <1>4
  <2>1. CASE reqs'[r].stage = "record"
    BY <2>1 DEF Learns, EvidenceStored
  <2>2. CASE reqs'[r].response \in Success
    <3>1. reqs[r].key \in Keys /\ reqs[r].at \in Instances
      BY <1>1 DEF Request
    <3>2. \/ reqs[r].response \in Success
          \/ entry[reqs[r].key].response \in Success
          \/ \E n \in DOMAIN handled[reqs[r].at] :
                 handled[reqs[r].at][n] = reqs[r].key
      BY <2>2 DEF Learns, Told
    <3>. QED
      BY <3>1, <3>2 DEF EvidenceStored
  <2>. QED
    BY <1>5, <2>1, <2>2
<1>6. ASSUME NEW k \in Keys, entry'[k].response \in Success
      PROVE  KeyIn(stored', k)
  <2>1. \/ entry[k].response \in Success
        \/ \E r \in Requests : reqs[r].key = k /\ reqs[r].response \in Success
    BY <1>6 DEF Learns, Cached, Success
  <2>. QED
    BY <1>3, <2>1 DEF EvidenceStored
<1>7. ASSUME NEW i \in Instances, NEW n \in DOMAIN handled'[i]
      PROVE  KeyIn(stored', handled'[i][n])
  <2>1. KeyStored(handled'[i][n])
    BY DEF Learns, Tabled, EvidenceStored
  <2>. QED
    BY <1>3, <2>1
<1>8. EvidenceStored'
  <2>1. \A k : KeyIn(stored', k) => KeyIn(stored, k)'
    BY <1>1 DEF KeyIn
  <2>. QED
    BY <1>1, <1>5, <1>6, <1>7, <2>1 DEF EvidenceStored, KeyStored, KeyIn
<1>. QED
  BY <1>2, <1>8

\* SuccessMeansStored, whatever crashes, is lost or is slow: an answer of 2xx
\* means that a push with the key and the body was stored, provided a key is
\* used for one body.
THEOREM SuccessStored == Spec /\ OneBodyPerKey => []SuccessMeansStored
<1>. DEFINE SInv == Types /\ TableTypes /\ OneBodyPerKey /\ EvidenceStored
<1>1. Init /\ OneBodyPerKey => SInv
  <2>. SUFFICES ASSUME Init, OneBodyPerKey PROVE Types /\ TableTypes /\ EvidenceStored
    OBVIOUS
  <2>1. Types
    BY InitInv DEF IInv
  <2>2. \A r \in Requests : reqs[r].stage = "idle" /\ reqs[r].response = "none"
    BY DEF Init
  <2>3. EvidenceStored
    BY <2>2 DEF Init, EvidenceStored, Success, NoEntry
  <2>. QED
    BY <2>1, <2>3 DEF Init, TableTypes
<1>2. SInv /\ [Next]_vars => SInv'
  BY NextLearns, EvidenceKept DEF Learns
<1>3. SInv => SuccessMeansStored
  BY DEF SuccessMeansStored, EvidenceStored, KeyStored, KeyIn
<1>. QED
  BY <1>1, <1>2, <1>3, PTL DEF Spec

\* What a body hashed to is that body, or the only one of its key.
LEMMA SavedKept ==
    ASSUME Types, OneBodyPerBigKey, SavedStored, Learns
    PROVE  OneBodyPerBigKey' /\ SavedStored'
<1>1. \A r \in Requests : /\ reqs[r] \in Request
                          /\ reqs'[r].key = reqs[r].key
                          /\ reqs'[r].body = reqs[r].body
  BY DEF Learns, Types
<1>2. OneBodyPerBigKey'
  BY <1>1 DEF OneBodyPerBigKey
<1>3. ASSUME NEW r \in Requests, reqs'[r].response = "saved"
      PROVE  <<reqs[r].key, reqs[r].body>> \in stored'
  BY <1>3 DEF Learns, Told, SavedStored, Success
<1>4. ASSUME NEW r \in Requests,
             entry'[reqs[r].key].response = "saved",
             Matches(entry'[reqs[r].key], r)
      PROVE  <<reqs[r].key, reqs[r].body>> \in stored'
  <2>0. reqs[r].key \in Keys
    BY <1>1 DEF Request
  <2>1. CASE entry'[reqs[r].key] = entry[reqs[r].key]
    BY <1>4, <2>1 DEF Learns, SavedStored
  <2>2. ASSUME NEW s \in Requests, reqs[s].key = reqs[r].key,
               reqs[s].response = "saved",
               entry'[reqs[r].key].hash = Hash(reqs[s].body)
        PROVE  reqs[s].body = reqs[r].body
    <3>1. reqs[r].body \in Bodies /\ reqs[s].body \in Bodies
      BY <1>1 DEF Request
    <3>2. CASE reqs[s].body \in BigBodies
      BY <2>2, <3>2 DEF OneBodyPerBigKey
    <3>3. CASE reqs[s].body \notin BigBodies
      BY <1>4, <2>2, <3>1, <3>3, InputsAssumption DEF Matches, Hash
    <3>. QED
      BY <3>2, <3>3
  <2>3. ASSUME NEW s \in Requests, reqs[s].key = reqs[r].key,
               entry'[reqs[r].key].response = reqs[s].response,
               entry'[reqs[r].key].hash = Hash(reqs[s].body)
        PROVE  <<reqs[r].key, reqs[r].body>> \in stored'
    BY <1>4, <2>2, <2>3 DEF Learns, SavedStored
  <2>. QED
    BY <1>4, <2>0, <2>1, <2>3 DEF Learns, Cached
<1>5. SavedStored'
  BY <1>1, <1>3, <1>4 DEF SavedStored, Matches, Hash
<1>. QED
  BY <1>2, <1>5

\* SavedMeansStored, whatever crashes, is lost or is slow: "saved", answered
\* or replayed from the cache, means that this body was stored.  A key may be
\* used for several bodies if they are short enough to be hashed.
THEOREM SavedIsStored == Spec /\ OneBodyPerBigKey => []SavedMeansStored
<1>. DEFINE SInv == Types /\ TableTypes /\ OneBodyPerBigKey /\ SavedStored
<1>1. Init /\ OneBodyPerBigKey => SInv
  <2>. SUFFICES ASSUME Init, OneBodyPerBigKey PROVE Types /\ TableTypes /\ SavedStored
    OBVIOUS
  <2>1. Types
    BY InitInv DEF IInv
  <2>2. \A r \in Requests : reqs[r].key \in Keys /\ reqs[r].response = "none"
    BY DEF Init
  <2>3. SavedStored
    BY <2>2 DEF Init, SavedStored, NoEntry
  <2>. QED
    BY <2>1, <2>3 DEF Init, TableTypes
<1>2. SInv /\ [Next]_vars => SInv'
  BY NextLearns, SavedKept DEF Learns
<1>3. SInv => SavedMeansStored
  BY DEF SavedMeansStored, SavedStored
<1>. QED
  BY <1>1, <1>2, <1>3, PTL DEF Spec

-----------------------------------------------------------------------------
(* One push per key *)

\* No request outlives its lock, no instance dies and no call of the store
\* fails.
Undisturbed ==
    /\ "slow" \notin Faults /\ "crash" \notin Faults
    /\ Store = "memory" \/ "disconnect" \notin Faults

\* The store never fails a request, so none skips the middleware.
StoreHolds == \A r \in Requests : ~StoreFails(r) /\ ~reqs[r].bypass

\* r has pushed for k and will cache the answer.
Pushed(r, k) ==
    /\ reqs[r].key = k /\ Holds(r)
    /\ reqs[r].stage \in {"record", "finish"}
    /\ reqs[r].response = "saved"

\* The push of a key is known: its answer is cached or on its way.
DoneSeen ==
    \A k \in Keys :
        \/ done[k] = {}
        \/ /\ \E r \in Requests : done[k] = {r}
           /\ \/ entry[k].status = "completed"
              \/ \E r \in Requests : Pushed(r, k)

OnceInv == /\ IInv /\ StoreHolds
           /\ done \in [Keys -> SUBSET Requests]
           /\ DoneSeen

\* Requests stop and go, but the store never fails one.
LEMMA StoreKept ==
    ASSUME Undisturbed, Types, StoreHolds, [Next]_vars
    PROVE  StoreHolds'
<1>1. \A r \in Requests : reqs[r] \in Request
  BY DEF Types
<1>2. CASE UNCHANGED reqs
  BY <1>2 DEF StoreHolds, StoreFails
<1>3. ASSUME NEW r \in Requests, Arrive(r) \/ Step(r)
      PROVE  StoreHolds'
  <2>1. ~StoreFails(r)
    BY DEF StoreHolds
  <2>2. PICK stage \in Stages, response \in Responses :
           Goto(r, stage) \/ Respond(r, response, stage)
    BY <1>3, <2>1, AnswerType, AfterHandlerStage
       DEF Arrive, Step, Load, Lock, Recheck, Mark, Check, Push, Record, Finish,
           Unlock, Stages, Running, Locked, Handling, Responses, Success
  <2>3. Moves(r, stage) /\ reqs'[r].bypass = reqs[r].bypass
    BY <2>2, GotoMoves, RespondMoves
  <2>. QED
    BY <2>3 DEF Moves, StoreHolds, StoreFails
<1>4. ASSUME NEW r \in Requests, Disconnect(r) PROVE StoreHolds'
  <2>1. Store = "memory"
    BY <1>4 DEF Disconnect, Undisturbed
  <2>2. reqs' = [reqs EXCEPT ![r] = [reqs[r] EXCEPT !.gone = TRUE]]
    BY <1>4 DEF Disconnect
  <2>3. \A q \in Requests : reqs'[q].bypass = reqs[q].bypass
    BY <1>1, <2>2 DEF Types, Request
  <2>. QED
    BY <2>1, <2>3 DEF StoreHolds, StoreFails
<1>5. CASE \E i \in Instances : Crash(i)
  BY <1>5 DEF Crash, Undisturbed
<1>. QED
  BY <1>2, <1>3, <1>4, <1>5
     DEF Next, vars, Expire, ExpireLock, ExpirePlaceholder, ExpireAnswer

\* A request that has not pushed, or does not touch the entries, changes
\* nothing that is known of the pushes.
LEMMA OtherStep ==
    ASSUME OnceInv, NEW r \in Requests, NEW stage \in Stages, Moves(r, stage),
           reqs[r].stage \notin {"record", "finish"},
           UNCHANGED <<entry, done>>
    PROVE  DoneSeen'
<1>1. ASSUME NEW q \in Requests, NEW k \in Keys, Pushed(q, k)
      PROVE  Pushed(q, k)'
  <2>1. q # r
    BY <1>1 DEF Pushed
  <2>. QED
    BY <1>1, <2>1 DEF Pushed, Holds, Moves
<1>. QED
  BY <1>1 DEF OnceInv, DoneSeen

\* The holder of a lock that does not wait for a finished push finds none.
LEMMA HolderFirst ==
    ASSUME OnceInv, NEW r \in Requests, reqs[r].stage \in Locked \ {"recheck", "unlock"},
           ~Pushed(r, reqs[r].key)
    PROVE  done[reqs[r].key] = {} /\ Holds(r)
<1>1. Holds(r) /\ ~StoreFails(r)
  BY DEF Holds, OnceInv, StoreHolds
<1>2. reqs[r].key \in Keys
  BY DEF OnceInv, IInv, Types, Request
<1>3. entry[reqs[r].key].status # "completed"
  BY <1>1 DEF OnceInv, IInv, WontReplace
<1>4. \A q \in Requests : Pushed(q, reqs[r].key) => q = r
  BY <1>1 DEF OnceInv, IInv, LockOwned, Pushed
<1>. QED
  BY <1>1, <1>2, <1>3, <1>4 DEF OnceInv, DoneSeen

LEMMA PushOnce ==
    ASSUME OnceInv, NEW r \in Requests, Push(r)
    PROVE  DoneSeen' /\ done' \in [Keys -> SUBSET Requests]
<1>1. /\ reqs[r] \in Request /\ reqs[r].key \in Keys
      /\ reqs[r].stage = "push" /\ entry' = entry
  BY DEF Push, OnceInv, IInv, Types, Request
<1>2. done[reqs[r].key] = {} /\ Holds(r)
  BY <1>1, HolderFirst DEF Pushed, Locked, Handling
<1>3. CASE /\ done' = [done EXCEPT ![reqs[r].key] = @ \cup {r}]
           /\ Respond(r, "saved", "record")
  <2>1. /\ Moves(r, "record") /\ reqs'[r].bypass = reqs[r].bypass
        /\ reqs'[r].response = "saved"
    BY <1>3, RespondMoves, RespondTurns
       DEF OnceInv, IInv, Stages, Running, Locked, Handling, Responses, Success
  <2>2. ASSUME NEW k \in Keys, k = reqs[r].key PROVE Pushed(r, k)'
    <3>1. reqs'[r].key = reqs[r].key /\ reqs'[r].stage = "record"
      BY <2>1 DEF Moves
    <3>2. Holds(r)'
      BY <1>2, <2>1, <3>1 DEF Holds, Locked, Handling
    <3>. QED
      BY <2>1, <2>2, <3>1, <3>2 DEF Pushed
  <2>3. done' \in [Keys -> SUBSET Requests] /\ done'[reqs[r].key] = {r}
    BY <1>1, <1>2, <1>3 DEF OnceInv
  <2>4. ASSUME NEW k \in Keys, k # reqs[r].key
        PROVE  /\ done'[k] = done[k]
               /\ \A q \in Requests : Pushed(q, k) => Pushed(q, k)'
    <3>1. done'[k] = done[k]
      BY <1>3, <2>4 DEF OnceInv
    <3>2. ASSUME NEW q \in Requests, Pushed(q, k) PROVE Pushed(q, k)'
      BY <1>1, <2>1, <2>4, <3>2 DEF Pushed, Holds, Moves
    <3>. QED
      BY <3>1, <3>2
  <2>5. DoneSeen'
    BY <1>1, <2>1, <2>2, <2>3, <2>4 DEF DoneSeen, OnceInv, Moves
  <2>. QED
    BY <2>3, <2>5
<1>4. CASE UNCHANGED done /\ Respond(r, "error", AfterHandler(r))
  <2>1. PICK stage \in Stages : Moves(r, stage)
    BY <1>4, RespondMoves, AfterHandlerStage
       DEF OnceInv, IInv, Stages, Running, Locked, Responses
  <2>. QED
    BY <1>1, <1>4, <2>1, OtherStep DEF OnceInv
<1>. QED
  BY <1>3, <1>4 DEF Push

LEMMA RecordOnce ==
    ASSUME OnceInv, NEW r \in Requests, Record(r) PROVE DoneSeen'
<1>1. /\ reqs[r] \in Request /\ reqs[r].stage = "record"
      /\ UNCHANGED <<entry, done>> /\ AfterHandler(r) = "finish"
  BY DEF Record, OnceInv, IInv, Types, StoreHolds, AfterHandler
<1>2. /\ Moves(r, "finish") /\ reqs'[r].bypass = reqs[r].bypass
      /\ reqs'[r].response = reqs[r].response
  BY <1>1, GotoMoves, GotoTurns
     DEF Record, OnceInv, IInv, Stages, Running, Locked, Handling
<1>3. ASSUME NEW q \in Requests, NEW k \in Keys, Pushed(q, k)
      PROVE  Pushed(q, k)'
  BY <1>1, <1>2, <1>3 DEF Pushed, Holds, Moves, Locked, Handling
<1>. QED
  BY <1>1, <1>3 DEF DoneSeen, OnceInv

\* The holder writes its entry: what it pushed becomes the answer.
LEMMA WriteOnce ==
    ASSUME OnceInv, NEW r \in Requests, Mark(r) \/ Finish(r) PROVE DoneSeen'
<1>1. /\ reqs[r] \in Request /\ reqs[r].key \in Keys /\ done' = done
      /\ reqs[r].stage \in {"mark", "finish"} /\ ~StoreFails(r)
  BY DEF Mark, Finish, OnceInv, IInv, Types, Request, StoreHolds
<1>2. PICK stage \in Stages : Moves(r, stage)
  BY GotoMoves DEF Mark, Finish, OnceInv, IInv, Stages, Running, Locked, Handling
<1>3. \A k \in Keys : k # reqs[r].key => entry'[k] = entry[k]
  BY <1>1 DEF Mark, Finish, OnceInv, IInv, Types
<1>4. ASSUME NEW k \in Keys, k # reqs[r].key, NEW q \in Requests, Pushed(q, k)
      PROVE  Pushed(q, k)'
  BY <1>2, <1>4 DEF Pushed, Holds, Moves
<1>5. done[reqs[r].key] = {} \/ entry'[reqs[r].key].status = "completed"
  <2>1. CASE ~Pushed(r, reqs[r].key)
    BY <1>1, <2>1, HolderFirst DEF Locked, Handling
  <2>2. CASE Pushed(r, reqs[r].key)
    <3>1. Finish(r) /\ reqs[r].response \in Success
      BY <2>2 DEF Pushed, Mark, Success
    <3>. QED
      BY <1>1, <3>1 DEF Finish, OnceInv, IInv, Types
  <2>. QED
    BY <2>1, <2>2
<1>. QED
  BY <1>1, <1>3, <1>4, <1>5 DEF DoneSeen, OnceInv

LEMMA OnceKept ==
    ASSUME Undisturbed, OnceInv, [Next]_vars PROVE OnceInv'
<1>1. IInv'
  BY NextInv DEF Undisturbed, OnceInv
<1>2. StoreHolds'
  BY StoreKept DEF OnceInv, IInv
<1>3. DoneSeen' /\ done' \in [Keys -> SUBSET Requests]
  <2>1. CASE UNCHANGED vars
    BY <2>1 DEF vars, OnceInv, DoneSeen, Pushed, Holds
  <2>2. ASSUME NEW r \in Requests,
               \/ Arrive(r) \/ Load(r) \/ Lock(r) \/ Recheck(r) \/ Check(r)
               \/ Unlock(r)
        PROVE  <1>3
    <3>1. ~StoreFails(r) /\ UNCHANGED <<entry, done>>
      BY <2>2 DEF OnceInv, StoreHolds, Arrive, Load, Lock, Recheck, Check, Unlock
    <3>2. PICK stage \in Stages, response \in Responses :
             Goto(r, stage) \/ Respond(r, response, stage)
      BY <2>2, <3>1, AnswerType, AfterHandlerStage
         DEF Arrive, Load, Lock, Recheck, Check, Unlock, OnceInv, IInv,
             Stages, Running, Locked, Handling, Responses, Success
    <3>3. Moves(r, stage)
      BY <3>2, GotoMoves, RespondMoves DEF OnceInv, IInv
    <3>4. reqs[r].stage \notin {"record", "finish"}
      BY <2>2 DEF Arrive, Load, Lock, Recheck, Check, Unlock
    <3>. QED
      BY <3>1, <3>3, <3>4, OtherStep DEF OnceInv
  <2>3. ASSUME NEW r \in Requests, Mark(r) \/ Push(r) \/ Record(r) \/ Finish(r)
        PROVE  <1>3
    <3>1. CASE Push(r)
      BY <3>1, PushOnce
    <3>2. CASE Mark(r) \/ Record(r) \/ Finish(r)
      BY <3>2, RecordOnce, WriteOnce DEF Mark, Record, Finish, OnceInv
    <3>. QED
      BY <2>3, <3>1, <3>2
  <2>4. ASSUME NEW r \in Requests, Disconnect(r) PROVE <1>3
    <3>1. UNCHANGED <<entry, done>> 
      BY <2>4 DEF Disconnect
    <3>2. \A q \in Requests :
             /\ reqs'[q].key = reqs[q].key /\ reqs'[q].stage = reqs[q].stage
             /\ reqs'[q].bypass = reqs[q].bypass
             /\ reqs'[q].response = reqs[q].response
      <4>1. reqs' = [reqs EXCEPT ![r] = [reqs[r] EXCEPT !.gone = TRUE]]
        BY <2>4 DEF Disconnect
      <4>. QED
        BY <4>1 DEF OnceInv, IInv, Types, Request
    <3>3. \A q \in Requests, k \in Keys : Pushed(q, k) => Pushed(q, k)'
      BY <3>2 DEF Pushed, Holds
    <3>. QED
      BY <3>1, <3>3 DEF OnceInv, DoneSeen
  <2>5. CASE \E i \in Instances : Crash(i)
    BY <2>5 DEF Crash, Undisturbed
  <2>6. ASSUME NEW j \in Keys, Expire(j) \/ ExpireAnswer(j) PROVE <1>3
    <3>1. reqs' = reqs
      BY <2>6 DEF Expire, ExpireLock, ExpirePlaceholder, ExpireAnswer
    <3>2. \A q \in Requests, k \in Keys : Pushed(q, k) => Pushed(q, k)'
      BY <3>1 DEF Pushed, Holds
    <3>3. /\ done' \in [Keys -> SUBSET Requests]
          /\ \A k \in Keys : done'[k] \in {done[k], {}}
          /\ \A k \in Keys : entry[k].status = "completed" /\ done'[k] # {}
                               => entry'[k] = entry[k]
      BY <2>6 DEF Expire, ExpireLock, ExpirePlaceholder, ExpireAnswer, OnceInv,
                  IInv, Types
    <3>. QED
      BY <3>2, <3>3 DEF OnceInv, DoneSeen
  <2>. QED
    BY <2>1, <2>2, <2>3, <2>4, <2>5, <2>6 DEF Next, Step
<1>. QED
  BY <1>1, <1>2, <1>3 DEF OnceInv

\* ProcessedOnce: of the requests with one key, one push at most is stored
\* while its answer is remembered, as long as nothing dies or outlives its
\* lock and the store can be reached.
THEOREM ProcessedOnceAlways == ASSUME Undisturbed PROVE Spec => []ProcessedOnce
<1>1. Init => OnceInv
  <2>. SUFFICES ASSUME Init PROVE StoreHolds /\ DoneSeen /\ done \in [Keys -> SUBSET Requests]
    BY InitInv DEF OnceInv
  <2>1. \A r \in Requests : reqs[r].gone = FALSE /\ reqs[r].bypass = FALSE
    BY DEF Init
  <2>. QED
    BY <2>1 DEF Init, StoreHolds, StoreFails, DoneSeen
<1>2. OnceInv /\ [Next]_vars => OnceInv'
  BY OnceKept
<1>3. OnceInv => ProcessedOnce
  <2>. SUFFICES ASSUME OnceInv, NEW k \in Keys PROVE Cardinality(done[k]) <= 1
    BY DEF ProcessedOnce
  <2>1. done[k] = {} \/ \E r \in Requests : done[k] = {r}
    BY DEF OnceInv, DoneSeen
  <2>2. Cardinality({}) = 0 /\ \A r : Cardinality({r}) = 1
    BY FS_EmptySet, FS_Singleton
  <2>3. Cardinality(done[k]) = 0 \/ Cardinality(done[k]) = 1
    BY <2>1, <2>2
  <2>. QED
    BY <2>3
<1>. QED
  BY <1>1, <1>2, <1>3, PTL DEF Spec
=============================================================================
