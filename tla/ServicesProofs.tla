---------------------------- MODULE ServicesProofs ----------------------------
(***************************************************************************)
(* What TLAPS proves of the services of rust-core that keep state: of      *)
(* GitSync for any number of machines and commits, of KnowledgeGraph for   *)
(* any nodes, builds and number of changing threads when one thread        *)
(* computes, of PluginHost for any plugins, of PeerSync for any peers,     *)
(* connections and queues, and of the Markdown parser for any documents.   *)
(***************************************************************************)
EXTENDS StatefulServices, MarkdownBlocks, FiniteSetTheorems, TLAPS

-----------------------------------------------------------------------------
(* Sync through git: a sync that reports success delivered the work it set
   out with, and only a forced push or a reset of the configured branch drops
   a commit. *)

(* The inductive invariant *)

CommitSets == SUBSET (1..commits)

Repos ==
    [current : Branches, dirty : BOOLEAN, merging : CommitSets,
     heads : [Branches -> CommitSets]]

Syncing == [step : {"branch", "push", "force", "done"}, of : CommitSets]

GitTypes ==
    /\ commits \in Nat
    /\ hosted \in CommitSets
    /\ repos \in [Machines -> Repos]
    /\ syncs \in [Machines -> {NoSync} \cup Syncing]

\* What a sync set out with: on the current branch until the configured one
\* was reset to it, and on the configured branch from then on.
Carries(m) ==
    /\ syncs[m].step = "branch" => syncs[m].of \subseteq HeadOf(m)
    /\ syncs[m].step \in {"push", "force"} =>
          syncs[m].of \subseteq repos[m].heads["configured"]

GitInv == GitTypes /\ \A m \in Machines : Carries(m)

\* The initial states satisfy the invariant.
LEMMA GitInitInv == GitInit => GitInv
<1>. SUFFICES ASSUME GitInit PROVE GitInv
  OBVIOUS
<1>1. "configured" \in Branches
  BY DEF Branches
<1>2. GitTypes
  BY <1>1 DEF GitInit, GitTypes, Repos, CommitSets
<1>3. \A m \in Machines : syncs[m].step = "none"
  BY DEF GitInit, NoSync
<1>. QED
  BY <1>2, <1>3 DEF GitInv, Carries

-----------------------------------------------------------------------------
(* What a step of one machine changes *)

\* The work a machine's repository still reaches.
Reach(r) == (UNION {r.heads[b] : b \in Branches}) \cup r.merging

\* The others keep their repositories and syncs.
OthersStay(m) ==
    \A o \in Machines \ {m} : repos'[o] = repos[o] /\ syncs'[o] = syncs[o]

\* What every step of m keeps: types, the promise of its sync, its work and
\* what is hosted, with the exceptions the code has.
StepOf(m) ==
    /\ GitTypes'
    /\ OthersStay(m)
    /\ Carries(m)'
    /\ syncs[m].step # "done" /\ syncs'[m].step = "done" => syncs[m].of \subseteq hosted'
    /\ hosted \subseteq hosted' \/ (syncs[m].step = "force" /\ syncs'[m].step = "done")
    /\ syncs[m].step # "branch" => Reach(repos[m]) \subseteq Reach(repos'[m])

\* The record of a machine, taken apart once for all the steps.
LEMMA RepoOf ==
    ASSUME GitTypes, NEW m \in Machines
    PROVE  /\ repos[m] \in Repos
           /\ repos[m].current \in Branches /\ repos[m].dirty \in BOOLEAN
           /\ repos[m].merging \in CommitSets
           /\ repos[m].heads \in [Branches -> CommitSets]
           /\ HeadOf(m) \in CommitSets
           /\ "configured" \in Branches
BY DEF GitTypes, Repos, HeadOf, Branches

\* What an update of the dirty flag makes of a repository.
LEMMA Dirtied ==
    ASSUME GitTypes, NEW m \in Machines, NEW d \in BOOLEAN
    PROVE  [repos[m] EXCEPT !.dirty = d] =
              [current |-> repos[m].current, dirty |-> d,
               merging |-> repos[m].merging, heads |-> repos[m].heads]
BY RepoOf DEF GitTypes, Repos

\* So is its sync.
LEMMA SyncOf ==
    ASSUME GitTypes, NEW m \in Machines
    PROVE  \/ syncs[m] = NoSync /\ syncs[m].step = "none"
           \/ /\ syncs[m] \in Syncing /\ syncs[m].of \in CommitSets
              /\ syncs[m].step \in {"branch", "push", "force", "done"}
BY DEF GitTypes, Syncing, NoSync

\* What a conflict makes of them.
LEMMA Opened ==
    ASSUME GitTypes, NEW m \in Machines, NEW theirs
    PROVE  [repos EXCEPT ![m].merging = theirs, ![m].dirty = TRUE] =
           [repos EXCEPT ![m] =
              [current |-> repos[m].current, dirty |-> TRUE,
               merging |-> theirs, heads |-> repos[m].heads]]
<1>. DEFINE merged == [current |-> repos[m].current, dirty |-> repos[m].dirty,
                       merging |-> theirs, heads |-> repos[m].heads]
            new == [current |-> repos[m].current, dirty |-> TRUE,
                    merging |-> theirs, heads |-> repos[m].heads]
<1>1. [repos[m] EXCEPT !.merging = theirs] = merged
  BY RepoOf DEF GitTypes, Repos
<1>2. [repos EXCEPT ![m].merging = theirs] = [repos EXCEPT ![m] = merged]
  BY <1>1
<1>3. [[repos EXCEPT ![m] = merged] EXCEPT ![m].dirty = TRUE] = [repos EXCEPT ![m] = new]
  <2>1. [merged EXCEPT !.dirty = TRUE] = new
    <3>1. ASSUME NEW d
          PROVE  [merged EXCEPT !.dirty = d] =
                 [current |-> repos[m].current, dirty |-> d,
                  merging |-> theirs, heads |-> repos[m].heads]
      OBVIOUS
    <3>. HIDE DEF merged
    <3>. QED
      BY <3>1, Zenon
  <2>2. [repos EXCEPT ![m] = merged][m] = merged
    BY DEF GitTypes
  <2>. HIDE DEF merged, new
  <2>. QED
    BY <2>1, <2>2 DEF GitTypes
<1>. QED
  BY <1>2, <1>3

\* What a switch to another branch makes of the repositories.
LEMMA Switched ==
    ASSUME GitTypes, NEW m \in Machines, NEW b \in Branches, NEW h
    PROVE  [repos EXCEPT ![m].current = b, ![m].heads[b] = h] =
           [repos EXCEPT ![m] =
              [current |-> b, dirty |-> repos[m].dirty, merging |-> repos[m].merging,
               heads |-> [repos[m].heads EXCEPT ![b] = h]]]
<1>. DEFINE moved == [current |-> b, dirty |-> repos[m].dirty,
                      merging |-> repos[m].merging, heads |-> repos[m].heads]
            new == [moved EXCEPT !.heads = [moved.heads EXCEPT ![b] = h]]
<1>1. [repos[m] EXCEPT !.current = b] = moved
  BY RepoOf DEF GitTypes, Repos
<1>2. [repos EXCEPT ![m].current = b] = [repos EXCEPT ![m] = moved]
  BY <1>1
<1>3. [[repos EXCEPT ![m] = moved] EXCEPT ![m].heads[b] = h] =
        [[repos EXCEPT ![m] = moved] EXCEPT ![m] = new]
  BY DEF GitTypes
<1>4. [[repos EXCEPT ![m] = moved] EXCEPT ![m] = new] = [repos EXCEPT ![m] = new]
  BY DEF GitTypes
<1>. QED
  BY <1>2, <1>3, <1>4

\* What a commit makes of them.
LEMMA Committed ==
    ASSUME GitTypes, NEW m \in Machines, NEW h
    PROVE  [repos EXCEPT ![m].dirty = FALSE, ![m].merging = {},
               ![m].heads[repos[m].current] = h] =
           [repos EXCEPT ![m] =
              [current |-> repos[m].current, dirty |-> FALSE, merging |-> {},
               heads |-> [repos[m].heads EXCEPT ![repos[m].current] = h]]]
<1>. DEFINE c == repos[m].current
            clean == [current |-> c, dirty |-> FALSE,
                      merging |-> repos[m].merging, heads |-> repos[m].heads]
            ended == [current |-> c, dirty |-> FALSE,
                      merging |-> {}, heads |-> repos[m].heads]
            new == [ended EXCEPT !.heads = [ended.heads EXCEPT ![c] = h]]
<1>1. [repos EXCEPT ![m].dirty = FALSE] = [repos EXCEPT ![m] = clean]
  BY Dirtied, FALSE \in BOOLEAN
<1>2. [[repos EXCEPT ![m] = clean] EXCEPT ![m].merging = {}] = [repos EXCEPT ![m] = ended]
  <2>1. [clean EXCEPT !.merging = {}] = ended
    <3>1. ASSUME NEW d, NEW g, NEW hs
          PROVE  [[current |-> c, dirty |-> d, merging |-> g, heads |-> hs]
                      EXCEPT !.merging = {}] =
                 [current |-> c, dirty |-> d, merging |-> {}, heads |-> hs]
      OBVIOUS
    <3>. QED
      BY <3>1, Zenon
  <2>2. [repos EXCEPT ![m] = clean][m] = clean
    BY DEF GitTypes
  <2>. HIDE DEF clean, ended
  <2>. QED
    BY <2>1, <2>2 DEF GitTypes
<1>3. [[repos EXCEPT ![m] = ended] EXCEPT ![m].heads[c] = h] = [repos EXCEPT ![m] = new]
  BY DEF GitTypes
<1>. QED
  BY <1>1, <1>2, <1>3

\* The sync of a machine moves on and keeps what it carries.
LEMMA NextStep ==
    ASSUME GitTypes, NEW m \in Machines, syncs[m] \in Syncing, NEW step
    PROVE  [syncs EXCEPT ![m].step = step] =
           [syncs EXCEPT ![m] = [step |-> step, of |-> syncs[m].of]]
<1>1. [syncs[m] EXCEPT !.step = step] = [step |-> step, of |-> syncs[m].of]
  BY DEF Syncing
<1>. QED
  BY <1>1

\* A step that writes only the repository and the sync of m.
LEMMA StepTypes ==
    ASSUME GitTypes, NEW m \in Machines, NEW repo \in Repos, NEW sync \in {NoSync} \cup Syncing,
           repos' = [repos EXCEPT ![m] = repo], syncs' = [syncs EXCEPT ![m] = sync],
           hosted' \in CommitSets, commits' = commits
    PROVE  GitTypes' /\ OthersStay(m) /\ repos'[m] = repo /\ syncs'[m] = sync
<1>1. CommitSets' = CommitSets
  BY DEF CommitSets
<1>2. Repos' = Repos /\ Syncing' = Syncing /\ NoSync' = NoSync
  BY <1>1 DEF Repos, Syncing, NoSync
<1>3. repos' \in [Machines -> Repos] /\ syncs' \in [Machines -> {NoSync} \cup Syncing]
  BY DEF GitTypes
<1>4. GitTypes'
  BY <1>1, <1>2, <1>3 DEF GitTypes
<1>. QED
  BY <1>4 DEF GitTypes, OthersStay

\* Writing back what is there changes nothing.
LEMMA SameRepo ==
    ASSUME GitTypes, NEW m \in Machines
    PROVE  repos = [repos EXCEPT ![m] = repos[m]] /\ syncs = [syncs EXCEPT ![m] = syncs[m]]
BY DEF GitTypes

\* Editing changes no commit.
LEMMA EditStep ==
    ASSUME GitInv, NEW m \in Machines, EditNotes(m)
    PROVE  StepOf(m)
<1>. DEFINE new == [current |-> repos[m].current, dirty |-> TRUE,
                    merging |-> repos[m].merging, heads |-> repos[m].heads]
<1>1. new \in Repos
  BY RepoOf, TRUE \in BOOLEAN DEF Repos, GitInv
<1>2. repos' = [repos EXCEPT ![m] = new]
  BY Dirtied, TRUE \in BOOLEAN DEF EditNotes, GitInv
<1>3. syncs' = [syncs EXCEPT ![m] = syncs[m]] /\ syncs[m] \in {NoSync} \cup Syncing
  BY SameRepo DEF EditNotes, GitInv, GitTypes
<1>4. GitTypes' /\ OthersStay(m) /\ repos'[m] = new /\ syncs'[m] = syncs[m]
  BY <1>1, <1>2, <1>3, StepTypes DEF GitInv, GitTypes, EditNotes
<1>5. Reach(repos'[m]) = Reach(repos[m])
  BY <1>4 DEF Reach
<1>6. Carries(m)'
  BY <1>4 DEF GitInv, Carries, HeadOf
<1>. QED
  BY <1>4, <1>5, <1>6 DEF StepOf, EditNotes

\* A switch leaves every branch its commits.
LEMMA SwitchStep ==
    ASSUME GitInv, NEW m \in Machines, SwitchBranch(m)
    PROVE  StepOf(m)
<1>1. PICK b \in Branches :
          repos' = [repos EXCEPT ![m].current = b,
                      ![m].heads[b] = IF @ = {} THEN HeadOf(m) ELSE @]
  BY DEF SwitchBranch
<1>. DEFINE head == IF repos[m].heads[b] = {} THEN HeadOf(m) ELSE repos[m].heads[b]
            new == [current |-> b, dirty |-> repos[m].dirty,
                    merging |-> repos[m].merging,
                    heads |-> [repos[m].heads EXCEPT ![b] = head]]
<1>2. head \in CommitSets /\ new \in Repos
  BY RepoOf DEF GitInv, Repos
<1>3. repos' = [repos EXCEPT ![m] = new]
  <2>1. repos' = [repos EXCEPT ![m].current = b, ![m].heads[b] = head]
    BY <1>1
  <2>2. ASSUME NEW h
        PROVE  [repos EXCEPT ![m].current = b, ![m].heads[b] = h] =
               [repos EXCEPT ![m] =
                  [current |-> b, dirty |-> repos[m].dirty,
                   merging |-> repos[m].merging,
                   heads |-> [repos[m].heads EXCEPT ![b] = h]]]
    BY Switched DEF GitInv
  <2>. HIDE DEF head
  <2>. QED
    BY <2>1, <2>2
<1>4. /\ syncs[m] = NoSync /\ syncs' = [syncs EXCEPT ![m] = NoSync]
      /\ hosted' = hosted /\ commits' = commits
  BY SameRepo DEF SwitchBranch, GitInv
<1>5. GitTypes' /\ OthersStay(m) /\ repos'[m] = new /\ syncs'[m] = NoSync
  BY <1>2, <1>3, <1>4, StepTypes DEF GitInv, GitTypes
<1>6. \A c \in Branches : repos[m].heads[c] \subseteq new.heads[c]
  BY <1>2, RepoOf DEF GitInv
<1>7. Reach(repos[m]) \subseteq Reach(repos'[m])
  BY <1>5, <1>6 DEF Reach
<1>8. Carries(m)'
  BY <1>5 DEF Carries, NoSync
<1>. QED
  BY <1>4, <1>5, <1>7, <1>8 DEF StepOf, SwitchBranch, NoSync

\* A commit adds to the current branch, and takes up an unfinished merge.
LEMMA CommitStep ==
    ASSUME GitInv, NEW m \in Machines, Commit(m)
    PROVE  StepOf(m)
<1>. DEFINE all == HeadOf(m) \cup repos[m].merging \cup {commits + 1}
            new == [current |-> repos[m].current, dirty |-> FALSE, merging |-> {},
                    heads |-> [repos[m].heads EXCEPT ![repos[m].current] = all]]
            sync == [step |-> "branch", of |-> all]
<1>1. repos' = [repos EXCEPT ![m] = new]
  <2>1. ASSUME NEW h
        PROVE  [repos EXCEPT ![m].dirty = FALSE, ![m].merging = {},
                   ![m].heads[repos[m].current] = h] =
               [repos EXCEPT ![m] =
                  [current |-> repos[m].current, dirty |-> FALSE, merging |-> {},
                   heads |-> [repos[m].heads EXCEPT ![repos[m].current] = h]]]
    BY Committed DEF GitInv
  <2>2. repos' = [repos EXCEPT ![m].dirty = FALSE, ![m].merging = {},
                     ![m].heads[repos[m].current] = all]
    BY DEF Commit
  <2>. HIDE DEF all
  <2>. QED
    BY <2>1, <2>2
<1>2. syncs' = [syncs EXCEPT ![m] = sync] /\ commits' = commits + 1 /\ hosted' = hosted
  BY DEF Commit
<1>3. commits \in Nat /\ CommitSets \subseteq CommitSets' /\ commits + 1 \in 1..commits'
  BY <1>2 DEF GitInv, GitTypes, CommitSets
<1>4. all \in CommitSets'
  BY <1>3, RepoOf DEF GitInv, CommitSets
<1>5. Repos \subseteq Repos' /\ Syncing \subseteq Syncing' /\ NoSync' = NoSync
  BY <1>3 DEF Repos, Syncing, NoSync, CommitSets
<1>6. new \in Repos' /\ sync \in Syncing'
  <2>1. repos[m].heads \in [Branches -> CommitSets']
    BY <1>3, RepoOf DEF GitInv
  <2>2. {} \in CommitSets' /\ FALSE \in BOOLEAN
    BY DEF CommitSets
  <2>. HIDE DEF all
  <2>. QED
    BY <1>4, <2>1, <2>2, RepoOf DEF Repos, Syncing, GitInv
<1>7. GitTypes'
  <2>1. repos' \in [Machines -> Repos']
    BY <1>1, <1>5, <1>6 DEF GitInv, GitTypes
  <2>2. syncs' \in [Machines -> {NoSync} \cup Syncing']
    BY <1>2, <1>5, <1>6 DEF GitInv, GitTypes
  <2>3. commits' \in Nat /\ hosted' \in CommitSets'
    BY <1>2, <1>3 DEF GitInv, GitTypes
  <2>. QED
    BY <1>5, <2>1, <2>2, <2>3 DEF GitTypes
<1>8. OthersStay(m) /\ repos'[m] = new /\ syncs'[m] = sync
  BY <1>1, <1>2 DEF OthersStay, GitInv, GitTypes
<1>9. new.heads[new.current] = all
  BY RepoOf DEF GitInv
<1>10. Carries(m)'
  <2>. HIDE DEF all
  <2>. QED
    BY <1>8, <1>9 DEF Carries, HeadOf
<1>11. Reach(repos[m]) \subseteq Reach(repos'[m])
  <2>1. \A b \in Branches : repos[m].heads[b] \subseteq new.heads[b]
    BY RepoOf DEF GitInv, HeadOf
  <2>2. repos[m].merging \subseteq new.heads[new.current] /\ new.current \in Branches
    BY <1>9, RepoOf DEF GitInv
  <2>. HIDE DEF new
  <2>. QED
    BY <1>8, <2>1, <2>2 DEF Reach
<1>. QED
  <2>1. syncs'[m].step = "branch" /\ hosted \subseteq hosted'
    BY <1>2, <1>8
  <2>. QED
    BY <1>7, <1>8, <1>10, <1>11, <2>1 DEF StepOf

\* checkout -B is the one step that may drop work, and carries the sync's own.
LEMMA EnsureStep ==
    ASSUME GitInv, NEW m \in Machines, EnsureBranch(m)
    PROVE  StepOf(m)
<1>. DEFINE new == [current |-> "configured", dirty |-> repos[m].dirty,
                    merging |-> repos[m].merging,
                    heads |-> [repos[m].heads EXCEPT !["configured"] = HeadOf(m)]]
            sync == [step |-> "push", of |-> syncs[m].of]
<1>1. repos' = [repos EXCEPT ![m] = new]
  <2>1. ASSUME NEW h
        PROVE  [repos EXCEPT ![m].current = "configured", ![m].heads["configured"] = h] =
               [repos EXCEPT ![m] =
                  [current |-> "configured", dirty |-> repos[m].dirty,
                   merging |-> repos[m].merging,
                   heads |-> [repos[m].heads EXCEPT !["configured"] = h]]]
    BY Switched, RepoOf DEF GitInv
  <2>. QED
    BY <2>1 DEF EnsureBranch
<1>2. syncs[m].step = "branch" /\ syncs[m] \in Syncing /\ syncs[m].of \in CommitSets
  BY SyncOf DEF GitInv, EnsureBranch
<1>3. syncs' = [syncs EXCEPT ![m] = sync] /\ commits' = commits /\ hosted' = hosted
  BY <1>2, NextStep DEF EnsureBranch, GitInv
<1>4. new \in Repos /\ sync \in Syncing /\ hosted' \in CommitSets
  BY <1>2, <1>3, RepoOf DEF Repos, Syncing, GitInv, GitTypes
<1>5. GitTypes' /\ OthersStay(m) /\ repos'[m] = new /\ syncs'[m] = sync
  <2>1. sync \in {NoSync} \cup Syncing
    BY <1>4
  <2>. HIDE DEF new, sync
  <2>. QED
    BY <1>1, <1>3, <1>4, <2>1, StepTypes DEF GitInv
<1>6. syncs[m].of \subseteq HeadOf(m)
  BY <1>2 DEF GitInv, Carries
<1>7. Carries(m)'
  BY <1>5, <1>6, RepoOf DEF Carries, GitInv
<1>. QED
  BY <1>2, <1>3, <1>5, <1>7 DEF StepOf

\* Whatever is pushed carries the sync's commits; a push that was not forced
\* leaves nothing of the hosted branch out.
LEMMA DeliverStep ==
    ASSUME GitInv, NEW m \in Machines, Push(m) \/ ForcePush(m)
    PROVE  StepOf(m)
<1>. DEFINE sync == [step |-> "done", of |-> syncs[m].of]
<1>1. syncs[m] \in Syncing /\ syncs[m].step \in {"push", "force"}
  BY SyncOf DEF GitInv, Push, ForcePush
<1>2. syncs' = [syncs EXCEPT ![m] = sync] /\ sync \in Syncing
  BY <1>1, NextStep, SyncOf DEF Push, ForcePush, Delivered, GitInv, Syncing
<1>3. /\ hosted' = repos[m].heads["configured"] /\ hosted' \in CommitSets
      /\ repos' = [repos EXCEPT ![m] = repos[m]] /\ repos' = repos /\ commits' = commits
  BY SameRepo, RepoOf DEF Push, ForcePush, Delivered, GitInv
<1>4. GitTypes' /\ OthersStay(m) /\ syncs'[m] = sync
  <2>1. sync \in {NoSync} \cup Syncing /\ repos[m] \in Repos
    BY <1>2, RepoOf DEF GitInv
  <2>. HIDE DEF sync
  <2>. QED
    BY <1>2, <1>3, <2>1, StepTypes DEF GitInv
<1>5. syncs[m].of \subseteq hosted'
  BY <1>1, <1>3 DEF GitInv, Carries
<1>6. hosted \subseteq hosted' \/ syncs[m].step = "force"
  BY <1>3 DEF Push, ForcePush
<1>7. Carries(m)'
  BY <1>4 DEF Carries
<1>. QED
  BY <1>3, <1>4, <1>5, <1>6, <1>7 DEF StepOf

\* A sync that fails or returns ends; one that found no repository goes on.
LEMMA EndStep ==
    ASSUME GitInv, NEW m \in Machines, PushFails(m) \/ PushNotFound(m) \/ Return(m)
    PROVE  StepOf(m)
<1>1. /\ hosted' = hosted /\ hosted' \in CommitSets
      /\ repos' = [repos EXCEPT ![m] = repos[m]] /\ repos' = repos /\ commits' = commits
  BY SameRepo DEF PushFails, PushNotFound, Return, GitInv, GitTypes
<1>2. repos[m] \in Repos
  BY RepoOf DEF GitInv
<1>3. CASE PushFails(m) \/ Return(m)
  <2>1. syncs' = [syncs EXCEPT ![m] = NoSync] /\ NoSync \in {NoSync} \cup Syncing
    BY <1>3 DEF PushFails, Return
  <2>2. GitTypes' /\ OthersStay(m) /\ syncs'[m] = NoSync
    BY <1>1, <1>2, <2>1, StepTypes DEF GitInv
  <2>3. syncs'[m].step = "none"
    BY <2>2 DEF NoSync
  <2>4. Carries(m)'
    BY <2>3 DEF Carries
  <2>. QED
    BY <1>1, <2>2, <2>3, <2>4 DEF StepOf
<1>4. CASE PushNotFound(m)
  <2>. DEFINE sync == [step |-> "force", of |-> syncs[m].of]
  <2>1. syncs[m] \in Syncing /\ syncs[m].step = "push"
    BY <1>4, SyncOf DEF GitInv, PushNotFound
  <2>2. syncs' = [syncs EXCEPT ![m] = sync] /\ sync \in Syncing
    BY <1>4, <2>1, NextStep, SyncOf DEF PushNotFound, GitInv, Syncing
  <2>3. GitTypes' /\ OthersStay(m) /\ syncs'[m] = sync
    <3>1. sync \in {NoSync} \cup Syncing
      BY <2>2
    <3>. HIDE DEF sync
    <3>. QED
      BY <1>1, <1>2, <2>2, <3>1, StepTypes DEF GitInv
  <2>4. Carries(m)'
    BY <1>1, <2>1, <2>3 DEF GitInv, Carries
  <2>. QED
    BY <1>1, <2>3, <2>4 DEF StepOf
<1>. QED
  BY <1>3, <1>4

\* Pulling adds to the repository, to a branch or to an open merge.
LEMMA PullStep ==
    ASSUME GitInv, NEW m \in Machines, PullMerges(m) \/ PullConflicts(m)
    PROVE  StepOf(m)
<1>1. /\ syncs[m] = NoSync /\ repos[m].merging = {}
      /\ syncs' = [syncs EXCEPT ![m] = NoSync]
      /\ hosted' = hosted /\ hosted' \in CommitSets /\ commits' = commits
  BY SameRepo DEF PullMerges, PullConflicts, GitInv, GitTypes
<1>2. ASSUME NEW new \in Repos, repos' = [repos EXCEPT ![m] = new],
             Reach(repos[m]) \subseteq Reach(new)
      PROVE  StepOf(m)
  <2>1. GitTypes' /\ OthersStay(m) /\ repos'[m] = new /\ syncs'[m] = NoSync
    BY <1>1, <1>2, StepTypes DEF GitInv
  <2>2. syncs'[m].step = "none"
    BY <2>1 DEF NoSync
  <2>3. Carries(m)'
    BY <2>2 DEF Carries
  <2>. QED
    BY <1>1, <1>2, <2>1, <2>2, <2>3 DEF StepOf
<1>3. CASE PullMerges(m)
  <2>. DEFINE c == repos[m].current
              head == repos[m].heads[c] \cup hosted
              new == [current |-> c, dirty |-> repos[m].dirty,
                      merging |-> repos[m].merging,
                      heads |-> [repos[m].heads EXCEPT ![c] = head]]
  <2>1. head \in CommitSets /\ new \in Repos
    BY RepoOf DEF GitInv, GitTypes, Repos, HeadOf, CommitSets
  <2>2. repos' = [repos EXCEPT ![m] = new]
    <3>1. ASSUME NEW h
          PROVE  [repos[m] EXCEPT !.heads[c] = h] =
                 [current |-> c, dirty |-> repos[m].dirty,
                  merging |-> repos[m].merging,
                  heads |-> [repos[m].heads EXCEPT ![c] = h]]
      BY RepoOf DEF GitInv, Repos
    <3>2. [repos[m] EXCEPT !.heads[c] = head] = new
      <4>. HIDE DEF head
      <4>. QED
        BY <3>1
    <3>3. repos' = [repos EXCEPT ![m].heads[c] = head]
      BY <1>3 DEF PullMerges
    <3>. HIDE DEF head, new
    <3>. QED
      BY <3>2, <3>3
  <2>3. \A b \in Branches : repos[m].heads[b] \subseteq new.heads[b]
    BY RepoOf DEF GitInv
  <2>4. Reach(repos[m]) \subseteq Reach(new)
    BY <2>3 DEF Reach
  <2>. HIDE DEF new
  <2>. QED
    BY <1>2, <2>1, <2>2, <2>4
<1>4. CASE PullConflicts(m)
  <2>. DEFINE new == [current |-> repos[m].current, dirty |-> TRUE,
                      merging |-> hosted, heads |-> repos[m].heads]
  <2>1. new \in Repos
    BY RepoOf, TRUE \in BOOLEAN DEF GitInv, GitTypes, Repos
  <2>2. repos' = [repos EXCEPT ![m] = new]
    BY <1>4, Opened DEF PullConflicts, GitInv
  <2>3. Reach(repos[m]) \subseteq Reach(new)
    BY <1>1 DEF Reach
  <2>. HIDE DEF new
  <2>. QED
    BY <1>2, <2>1, <2>2, <2>3
<1>. QED
  BY <1>3, <1>4

-----------------------------------------------------------------------------
(* The theorems *)

\* Every step is one of a machine's.
LEMMA NextStepOf ==
    ASSUME GitInv, GitNext
    PROVE  \E m \in Machines : StepOf(m)
BY EditStep, SwitchStep, CommitStep, EnsureStep, DeliverStep, EndStep, PullStep DEF GitNext

\* So the invariant is kept,
LEMMA GitKeepsInv == GitInv /\ [GitNext]_gitVars => GitInv'
<1>1. ASSUME GitInv, GitNext PROVE GitInv'
  <2>1. PICK m \in Machines : StepOf(m)
    BY <1>1, NextStepOf
  <2>2. \A o \in Machines \ {m} : Carries(o) => Carries(o)'
    BY <2>1 DEF StepOf, OthersStay, Carries, HeadOf
  <2>. QED
    BY <1>1, <2>1, <2>2 DEF GitInv, StepOf
<1>2. ASSUME GitInv, UNCHANGED gitVars PROVE GitInv'
  BY <1>2 DEF gitVars, GitInv, GitTypes, Repos, CommitSets, Syncing, NoSync, Carries, HeadOf
<1>. QED
  BY <1>1, <1>2

\* and holds in every reachable state of any number of machines.
THEOREM GitInvariance == GitSpec => []GitInv
BY GitInitInv, GitKeepsInv, PTL DEF GitSpec

\* Type correctness: no repository reaches a commit that was never made.
THEOREM GitTypeCorrect == GitSpec => []GitTypeOK
<1>1. GitInv => GitTypeOK
  BY RepoOf, SyncOf DEF GitInv, GitTypes, GitTypeOK, CommitSets
<1>. QED
  BY <1>1, GitInvariance, PTL

\* A step of the machines keeps their work, as StepOf says of each of them: a
\* sync that ends well delivered it, and only a forced push takes a commit back.
LEMMA StepKeepsWork ==
    GitInv /\ [GitNext]_gitVars => [SyncDelivers /\ HostedStays /\ WorkStays]_gitVars
<1>1. ASSUME GitInv, GitNext PROVE SyncDelivers
  BY <1>1, NextStepOf DEF StepOf, OthersStay, SyncDelivers
<1>2. ASSUME GitInv, GitNext PROVE HostedStays
  BY <1>2, NextStepOf DEF StepOf, HostedStays
<1>3. ASSUME GitInv, GitNext PROVE WorkStays
  BY <1>3, NextStepOf DEF StepOf, OthersStay, Reach, WorkStays
<1>. QED
  BY <1>1, <1>2, <1>3

\* No commit is lost on its way, whatever the other machines do in between.
THEOREM NoWorkLost == GitSpec => WorkKept
BY StepKeepsWork, GitInvariance, PTL DEF GitSpec, WorkKept

-----------------------------------------------------------------------------
(* The knowledge graph: when one thread computes, the cache is never taken
   for fresh after a change, wherever the change falls in a computation. *)

\* The hypothesis: a single thread asks for centrality, and changes nothing.
OneComputer ==
    /\ \A t, u \in Computers : t = u
    /\ GraphCallers \cap Computers = {}

-----------------------------------------------------------------------------
(* The inductive invariant *)

Stored == [nodes |-> nodes, edges |-> edges]

Computing == {"load nodes", "load edges", "store"}

GraphTypes ==
    /\ \A e \in edges : {e.source, e.target} \subseteq nodes
    /\ dirty \in BOOLEAN
    /\ changes \in 0..MaxChanges
    /\ cache = [a \in Algorithms |-> cache[a]]
    /\ latest \subseteq Algorithms
    /\ threads = [t \in GraphCallers \cup Computers |-> threads[t]]
    /\ \A t \in GraphCallers : threads[t].step \in {"resting", "invalidate"}
    /\ \A t \in Computers :
          /\ threads[t].step \in {"resting"} \cup Computing
          /\ threads[t].step \in Computing => threads[t].algorithm \in Asked /\ latest = {}

\* A change was made and its thread has not set the flag yet.
ChangePending == \E t \in GraphCallers : threads[t].step = "invalidate"

\* What the computing thread holds, or stored when it was last, is still so.
ComputesStored ==
    \A t \in Computers :
        /\ threads[t].step = "load edges" => threads[t].nodes = nodes
        /\ threads[t].step = "store" => threads[t].graph = Stored
        /\ threads[t].step = "resting" => \A a \in latest : cache[a] = Stored

\* Without a computing thread nothing is ever stored.
NothingStored == Computers = {} => latest = {}

GraphInv == GraphTypes /\ NothingStored /\ (dirty = TRUE \/ ChangePending \/ ComputesStored)

\* The initial states satisfy the invariant.
LEMMA GraphInitInv == GraphInit => GraphInv
<1>. SUFFICES ASSUME GraphInit PROVE GraphInv
  OBVIOUS
<1>1. \A t \in GraphCallers \cup Computers : threads[t].step = "resting"
  BY DEF GraphInit, Resting
<1>2. changes \in 0..MaxChanges
  BY GraphAssumption DEF GraphInit
<1>. QED
  BY <1>1, <1>2 DEF GraphInit, GraphInv, GraphTypes, NothingStored, Computing

-----------------------------------------------------------------------------
(* Steps of the threads that change the graph *)

\* A change leaves its thread with the flag still to set, so it keeps the
\* invariant if no edge loses its nodes.
LEMMA ChangeKeeps ==
    ASSUME GraphInv, OneComputer, NEW t \in GraphCallers, Change(t),
           \A e \in edges' : {e.source, e.target} \subseteq nodes'
    PROVE  GraphInv'
<1>1. threads'[t].step = "invalidate"
  BY DEF Change, GraphInv, GraphTypes
<1>2. \A u \in (GraphCallers \cup Computers) \ {t} : threads'[u] = threads[u]
  BY DEF Change, GraphInv, GraphTypes
<1>3. t \notin Computers
  BY DEF OneComputer
<1>4. changes' \in 0..MaxChanges
  BY GraphAssumption DEF Change, GraphInv, GraphTypes
<1>5. threads' = [u \in GraphCallers \cup Computers |-> threads'[u]]
  BY DEF Change, GraphInv, GraphTypes
<1>6. UNCHANGED <<dirty, cache, latest>>
  BY DEF Change
<1>7. GraphTypes'
  BY <1>1, <1>2, <1>3, <1>4, <1>5, <1>6 DEF GraphInv, GraphTypes
<1>. QED
  BY <1>1, <1>6, <1>7 DEF GraphInv, ChangePending, NothingStored

\* Every change leaves edges among nodes.
LEMMA ChangesKeep ==
    ASSUME GraphInv, OneComputer, NEW t \in GraphCallers,
           AddNode(t) \/ RemoveNode(t) \/ AddEdge(t) \/ RemoveEdge(t) \/ BuildGraph(t)
    PROVE  GraphInv'
<1>1. Change(t)
  BY DEF AddNode, RemoveNode, AddEdge, RemoveEdge, BuildGraph
<1>2. \A e \in edges : {e.source, e.target} \subseteq nodes
  BY DEF GraphInv, GraphTypes
<1>3. \A e \in edges' : {e.source, e.target} \subseteq nodes'
  <2>1. CASE AddNode(t) \/ RemoveNode(t)
    BY <1>2, <2>1 DEF AddNode, RemoveNode, Touching
  <2>2. CASE AddEdge(t)
    BY <1>2, <2>2 DEF AddEdge, Edge
  <2>3. CASE RemoveEdge(t)
    BY <1>2, <2>3 DEF RemoveEdge
  <2>4. CASE BuildGraph(t)
    BY <2>4 DEF BuildGraph
  <2>. QED
    BY <2>1, <2>2, <2>3, <2>4
<1>. QED
  BY <1>1, <1>3, ChangeKeeps

\* The flag is set when the thread of a change rests.
LEMMA InvalidateKeeps ==
    ASSUME GraphInv, OneComputer, NEW t \in GraphCallers, InvalidateCentralityCache(t)
    PROVE  GraphInv'
<1>1. threads'[t].step = "resting"
  BY DEF InvalidateCentralityCache, GraphInv, GraphTypes, Resting
<1>2. \A u \in (GraphCallers \cup Computers) \ {t} : threads'[u] = threads[u]
  BY DEF InvalidateCentralityCache, GraphInv, GraphTypes
<1>3. threads' = [u \in GraphCallers \cup Computers |-> threads'[u]]
  BY DEF InvalidateCentralityCache, GraphInv, GraphTypes
<1>4. dirty' = TRUE /\ UNCHANGED <<nodes, edges, cache, latest, changes>>
  BY DEF InvalidateCentralityCache
<1>5. t \notin Computers
  BY DEF OneComputer
<1>6. GraphTypes'
  BY <1>1, <1>2, <1>3, <1>4, <1>5 DEF GraphInv, GraphTypes
<1>. QED
  BY <1>4, <1>6 DEF GraphInv, NothingStored

-----------------------------------------------------------------------------
(* Steps of the thread that computes *)

\* What they all leave alone: the graph and the threads of the changes.
ComputerStep(t) ==
    /\ UNCHANGED <<nodes, edges, changes>>
    /\ threads' = [u \in GraphCallers \cup Computers |-> threads'[u]]
    /\ \A u \in GraphCallers : threads'[u] = threads[u]
    /\ Computers = {t}

\* No step of a computing thread changes the graph.
LEMMA ComputerSteps ==
    ASSUME GraphInv, OneComputer, NEW t \in Computers,
           \/ CacheMiss(t) \/ LoadAllNodes(t) \/ LoadAllEdges(t)
           \/ StoreResult(t) \/ ComputeFails(t)
    PROVE  ComputerStep(t)
<1>1. t \notin GraphCallers /\ Computers = {t}
  BY DEF OneComputer
<1>. QED
  BY <1>1 DEF CacheMiss, LoadAllNodes, LoadAllEdges, StoreResult, ComputeFails, ComputerStep,
              GraphInv, GraphTypes

\* A miss clears the flag before anything of the graph is read.
LEMMA MissKeeps ==
    ASSUME GraphInv, OneComputer, NEW t \in Computers, CacheMiss(t)
    PROVE  GraphInv'
<1>1. ComputerStep(t)
  BY ComputerSteps
<1>2. PICK a \in Asked :
          threads' = [threads EXCEPT ![t] = [step |-> "load nodes", algorithm |-> a]]
  BY DEF CacheMiss
<1>3. threads'[t].step = "load nodes" /\ threads'[t].algorithm = a
  BY <1>2 DEF GraphInv, GraphTypes
<1>4. dirty' = FALSE /\ latest' = {} /\ UNCHANGED cache
  BY DEF CacheMiss
<1>5. GraphTypes'
  BY <1>1, <1>3, <1>4 DEF ComputerStep, GraphInv, GraphTypes, Computing
<1>6. ComputesStored'
  BY <1>1, <1>3 DEF ComputerStep, ComputesStored
<1>. QED
  BY <1>4, <1>5, <1>6 DEF GraphInv, NothingStored

\* A computation that fails leaves the flag clear and nothing of its own stored.
LEMMA FailKeeps ==
    ASSUME GraphInv, OneComputer, NEW t \in Computers, ComputeFails(t)
    PROVE  GraphInv'
<1>1. ComputerStep(t)
  BY ComputerSteps
<1>2. threads'[t].step = "resting"
  BY DEF ComputeFails, GraphInv, GraphTypes, Resting
<1>3. latest = {}
  BY DEF ComputeFails, GraphInv, GraphTypes, Computing
<1>4. UNCHANGED <<dirty, cache, latest>>
  BY DEF ComputeFails
<1>5. GraphTypes'
  BY <1>1, <1>2, <1>4 DEF ComputerStep, GraphInv, GraphTypes, Computing
<1>6. ComputesStored'
  BY <1>1, <1>2, <1>3, <1>4 DEF ComputerStep, ComputesStored
<1>. QED
  BY <1>3, <1>4, <1>5, <1>6 DEF GraphInv, NothingStored

\* Nodes and edges are read under two locks: a change in between leaves its
\* mark in the flag or in its thread.
LEMMA LoadKeeps ==
    ASSUME GraphInv, OneComputer, NEW t \in Computers, LoadAllNodes(t) \/ LoadAllEdges(t)
    PROVE  GraphInv'
<1>1. ComputerStep(t)
  BY ComputerSteps
<1>2. UNCHANGED <<dirty, cache, latest>>
  BY DEF LoadAllNodes, LoadAllEdges
<1>3. threads[t].algorithm \in Asked /\ latest = {}
  BY DEF LoadAllNodes, LoadAllEdges, GraphInv, GraphTypes, Computing
<1>4. CASE LoadAllNodes(t)
  <2>1. /\ threads'[t].step = "load edges" /\ threads'[t].nodes = nodes
        /\ threads'[t].algorithm = threads[t].algorithm
    BY <1>4 DEF LoadAllNodes, GraphInv, GraphTypes
  <2>2. GraphTypes'
    BY <1>1, <1>2, <1>3, <2>1 DEF ComputerStep, GraphInv, GraphTypes, Computing
  <2>3. ComputesStored'
    BY <1>1, <2>1 DEF ComputerStep, ComputesStored
  <2>. QED
    BY <1>1, <1>2, <2>2, <2>3 DEF GraphInv, NothingStored, ComputerStep
<1>5. CASE LoadAllEdges(t)
  <2>. DEFINE known == {e \in edges : {e.source, e.target} \subseteq threads[t].nodes}
  <2>1. /\ threads'[t].step = "store"
        /\ threads'[t].graph = [nodes |-> threads[t].nodes, edges |-> known]
        /\ threads'[t].algorithm = threads[t].algorithm
    BY <1>5 DEF LoadAllEdges, GraphInv, GraphTypes
  <2>2. GraphTypes'
    BY <1>1, <1>2, <1>3, <2>1 DEF ComputerStep, GraphInv, GraphTypes, Computing
  <2>3. ASSUME ComputesStored PROVE ComputesStored'
    <3>1. threads[t].nodes = nodes
      BY <1>5, <2>3 DEF LoadAllEdges, ComputesStored
    <3>2. known = edges
      BY <3>1 DEF GraphInv, GraphTypes
    <3>3. threads'[t].graph = Stored'
      BY <1>1, <2>1, <3>1, <3>2 DEF ComputerStep, Stored
    <3>. QED
      BY <1>1, <2>1, <3>3 DEF ComputerStep, ComputesStored
  <2>4. dirty' = TRUE \/ ChangePending' \/ ComputesStored'
    BY <1>1, <1>2, <2>3 DEF GraphInv, ChangePending, ComputerStep
  <2>. QED
    BY <1>1, <1>2, <2>2, <2>4 DEF GraphInv, NothingStored, ComputerStep
<1>. QED
  BY <1>4, <1>5

\* The result that is stored is the stored graph's, or the flag tells.
LEMMA StoreKeeps ==
    ASSUME GraphInv, OneComputer, NEW t \in Computers, StoreResult(t)
    PROVE  GraphInv'
<1>1. ComputerStep(t)
  BY ComputerSteps
<1>. DEFINE a == threads[t].algorithm
<1>2. a \in Asked /\ threads[t].step = "store" /\ dirty' = dirty /\ latest = {}
  BY DEF StoreResult, GraphInv, GraphTypes, Computing
<1>3. threads'[t].step = "resting"
  BY DEF StoreResult, GraphInv, GraphTypes, Resting
<1>4. IF a \in Algorithms
      THEN cache' = [cache EXCEPT ![a] = threads[t].graph] /\ latest' = {a}
      ELSE UNCHANGED <<cache, latest>>
  BY DEF StoreResult
<1>. HIDE DEF a
<1>5. cache' = [b \in Algorithms |-> cache'[b]] /\ latest' \subseteq Algorithms
  BY <1>4 DEF GraphInv, GraphTypes
<1>6. \A b \in latest' : cache'[b] = threads[t].graph
  BY <1>2, <1>4 DEF GraphInv, GraphTypes
<1>7. GraphTypes'
  BY <1>1, <1>2, <1>3, <1>5 DEF ComputerStep, GraphInv, GraphTypes, Computing
<1>8. ASSUME ComputesStored PROVE ComputesStored'
  <2>1. threads[t].graph = Stored'
    BY <1>1, <1>2, <1>8 DEF ComputesStored, ComputerStep, Stored
  <2>. QED
    BY <1>1, <1>3, <1>6, <2>1 DEF ComputesStored, ComputerStep
<1>9. dirty' = TRUE \/ ChangePending' \/ ComputesStored'
  BY <1>1, <1>2, <1>8 DEF GraphInv, ChangePending, ComputerStep
<1>. QED
  BY <1>1, <1>7, <1>9 DEF GraphInv, NothingStored, ComputerStep

-----------------------------------------------------------------------------
(* The theorems *)

\* Every step keeps the invariant.
LEMMA GraphKeepsInv == OneComputer /\ GraphInv /\ [GraphNext]_graphVars => GraphInv'
<1>1. ASSUME OneComputer, GraphInv, GraphNext PROVE GraphInv'
  BY <1>1, ChangesKeep, InvalidateKeeps, MissKeeps, LoadKeeps, StoreKeeps,
     FailKeeps DEF GraphNext
<1>2. ASSUME GraphInv, UNCHANGED graphVars PROVE GraphInv'
  BY <1>2 DEF graphVars, GraphInv, GraphTypes, NothingStored, ChangePending, ComputesStored, Stored
<1>. QED
  BY <1>1, <1>2

\* The invariant holds in every reachable state.
THEOREM GraphInvariance ==
    ASSUME OneComputer
    PROVE  GraphSpec => []GraphInv
<1>1. GraphInv /\ [GraphNext]_graphVars => GraphInv'
  BY GraphKeepsInv
<1>. QED
  BY <1>1, GraphInitInv, PTL DEF GraphSpec

\* Every edge joins two nodes, whatever is removed, replaced or built anew, and
\* however many threads compute.
THEOREM EdgesAmongNodes == GraphSpec => []GraphTypeOK
<1>1. GraphInit => GraphTypeOK
  BY GraphAssumption DEF GraphInit, GraphTypeOK
<1>2. ASSUME GraphTypeOK, NEW t \in GraphCallers, Change(t),
             \A e \in edges' : {e.source, e.target} \subseteq nodes'
      PROVE  GraphTypeOK'
  BY <1>2, GraphAssumption DEF GraphTypeOK, Change
<1>3. ASSUME GraphTypeOK, NEW t \in GraphCallers,
             AddNode(t) \/ RemoveNode(t) \/ AddEdge(t) \/ RemoveEdge(t) \/ BuildGraph(t)
      PROVE  GraphTypeOK'
  <2>1. CASE AddNode(t)
    BY <1>2, <2>1, <1>3 DEF AddNode, GraphTypeOK
  <2>2. CASE RemoveNode(t)
    BY <1>2, <2>2, <1>3 DEF RemoveNode, Touching, GraphTypeOK
  <2>3. CASE AddEdge(t)
    <3>1. \A i, source, target, kind, weight :
             /\ Edge(i, source, target, kind, weight).source = source
             /\ Edge(i, source, target, kind, weight).target = target
      BY DEF Edge
    <3>. QED
      BY <1>2, <2>3, <1>3, <3>1 DEF AddEdge, GraphTypeOK
  <2>4. CASE RemoveEdge(t)
    BY <1>2, <2>4, <1>3 DEF RemoveEdge, GraphTypeOK
  <2>5. CASE BuildGraph(t)
    BY <1>2, <2>5, <1>3 DEF BuildGraph
  <2>. QED
    BY <1>3, <2>1, <2>2, <2>3, <2>4, <2>5
<1>4. ASSUME GraphTypeOK, NEW t, InvalidateCentralityCache(t) \/ CacheMiss(t)
                                 \/ LoadAllNodes(t) \/ LoadAllEdges(t) \/ ComputeFails(t)
      PROVE  GraphTypeOK'
  BY <1>4 DEF InvalidateCentralityCache, CacheMiss, LoadAllNodes, LoadAllEdges,
              ComputeFails, GraphTypeOK
<1>5. ASSUME GraphTypeOK, NEW t, StoreResult(t) PROVE GraphTypeOK'
  <2>1. DOMAIN cache' = Algorithms
    BY <1>5 DEF StoreResult, GraphTypeOK
  <2>. QED
    BY <1>5, <2>1 DEF StoreResult, GraphTypeOK
<1>6. ASSUME GraphTypeOK, UNCHANGED graphVars PROVE GraphTypeOK'
  BY <1>6 DEF graphVars, GraphTypeOK
<1>7. GraphTypeOK /\ [GraphNext]_graphVars => GraphTypeOK'
  BY <1>3, <1>4, <1>5, <1>6 DEF GraphNext
<1>. QED
  BY <1>1, <1>7, PTL DEF GraphSpec

\* With one computing thread, a clear flag at rest means that what the last
\* computation stored is of the stored graph, however many threads change it and
\* whichever computations fail; when the last one failed nothing is claimed.
THEOREM FreshWhenClear ==
    ASSUME OneComputer
    PROVE  GraphSpec => []CacheFresh
<1>1. GraphInv => CacheFresh
  <2>. SUFFICES ASSUME GraphInv, ~dirty, \A t \in DOMAIN threads : threads[t] = Resting,
                       NEW a \in latest
                PROVE  cache[a] = Stored
    BY DEF CacheFresh, Stored
  <2>1. DOMAIN threads = GraphCallers \cup Computers
    BY DEF GraphInv, GraphTypes
  <2>2. \A t \in GraphCallers \cup Computers : threads[t].step = "resting"
    BY <2>1 DEF Resting
  <2>3. dirty # TRUE /\ ~ChangePending
    BY <2>2 DEF ChangePending
  <2>4. ComputesStored
    BY <2>3 DEF GraphInv
  <2>5. PICK t : t \in Computers
    BY DEF GraphInv, NothingStored
  <2>. QED
    BY <2>2, <2>4, <2>5 DEF ComputesStored
<1>. QED
  BY <1>1, GraphInvariance, PTL

-----------------------------------------------------------------------------
(* Plugins: both maps of the sandbox speak of the same plugins. *)

PluginsInv == PluginsTypeOK /\ EnabledRuns

\* The register of bytes, of ids and bytes.
LazyTypes == DOMAIN lazy \subseteq Plugins /\ \A id \in DOMAIN lazy : lazy[id] \in Modules

\* Loading adds an entry and an instance.
LEMMA InsertKeeps ==
    ASSUME PluginsInv, NEW p \in Plugins, p \notin Loaded, InsertEntry(p), LazyTypes'
    PROVE  PluginsInv'
<1>. DEFINE new == [state |-> "loaded", granted |-> {}]
<1>1. new.state = "loaded" /\ new.granted = {}
  OBVIOUS
<1>2. entries' = InsertRow(entries, p, new) /\ instances' = instances \cup {p}
  BY DEF InsertEntry
<1>. HIDE DEF new
<1>3. /\ DOMAIN entries' = Loaded \cup {p} /\ p \notin Loaded
      /\ \A q \in Loaded \cup {p} : entries'[q] = IF q = p THEN new ELSE entries[q]
  BY <1>2 DEF InsertRow, Loaded
<1>4. PluginsTypeOK'
  BY <1>1, <1>3 DEF PluginsInv, PluginsTypeOK, LazyTypes, Loaded
<1>5. EnabledRuns'
  BY <1>2, <1>3 DEF PluginsInv, EnabledRuns, Executable, Loaded
<1>. QED
  BY <1>1, <1>3, <1>4, <1>5 DEF PluginsInv

\* A loaded plugin's entry is replaced by one of the right type.
LEMMA EntryKeeps ==
    ASSUME PluginsInv, NEW p \in Loaded,
           DOMAIN entries' = Loaded, \A q \in Loaded \ {p} : entries'[q] = entries[q],
           entries'[p].state \in {"loaded", "enabled", "disabled"},
           entries'[p].granted \subseteq Permissions,
           UNCHANGED <<instances, lazy>>
    PROVE  PluginsInv'
<1>1. \A q \in Loaded : q = p \/ entries'[q] = entries[q]
  OBVIOUS
<1>2. PluginsTypeOK'
  BY <1>1 DEF PluginsInv, PluginsTypeOK, Loaded
<1>3. EnabledRuns'
  BY <1>1 DEF PluginsInv, EnabledRuns, Executable, Loaded
<1>. QED
  BY <1>1, <1>2, <1>3 DEF PluginsInv

\* Every step keeps the invariant.
LEMMA PluginStep ==
    ASSUME PluginsInv, [PluginsNext]_pluginVars PROVE PluginsInv'
<1>1. ASSUME NEW p \in Plugins, LoadPlugin(p) PROVE PluginsInv'
  BY <1>1, InsertKeeps DEF LoadPlugin, Loads, LazyTypes, PluginsInv, PluginsTypeOK
<1>2. ASSUME NEW p \in Plugins, UnloadPlugin(p) PROVE PluginsInv'
  <2>1. /\ DOMAIN entries' = Loaded \ {p} /\ instances' = instances \ {p}
        /\ \A q \in Loaded \ {p} : entries'[q] = entries[q]
        /\ UNCHANGED lazy
    BY <1>2 DEF UnloadPlugin, DeleteRow, KeepRows, Loaded
  <2>2. PluginsTypeOK'
    BY <2>1 DEF PluginsInv, PluginsTypeOK, Loaded
  <2>3. EnabledRuns'
    BY <2>1 DEF PluginsInv, EnabledRuns, Executable, Loaded
  <2>. QED
    BY <2>2, <2>3 DEF PluginsInv
<1>3. ASSUME UNCHANGED <<entries, instances>>, LazyTypes' PROVE PluginsInv'
  BY <1>3 DEF PluginsInv, PluginsTypeOK, LazyTypes, EnabledRuns, Executable, Loaded
<1>4. ASSUME NEW id \in Plugins, RegisterLazy(id) \/ LoadLazy(id) PROVE PluginsInv'
  <2>1. CASE RegisterLazy(id)
    <3>1. PICK bytes \in Modules :
             lazy' = InsertRow(lazy, id, bytes) /\ UNCHANGED <<entries, instances>>
      BY <2>1 DEF RegisterLazy
    <3>2. LazyTypes'
      BY <3>1 DEF InsertRow, LazyTypes, PluginsInv, PluginsTypeOK
    <3>. QED
      BY <1>3, <3>1, <3>2
  <2>2. CASE LoadLazy(id)
    <3>1. PICK p \in Plugins :
             /\ lazy' = DeleteRow(lazy, id)
             /\ IF Loads(p, lazy[id]) THEN InsertEntry(p) ELSE UNCHANGED <<entries, instances>>
      BY <2>2 DEF LoadLazy
    <3>2. LazyTypes'
      BY <3>1 DEF DeleteRow, KeepRows, LazyTypes, PluginsInv, PluginsTypeOK
    <3>. QED
      BY <1>3, <3>1, <3>2, InsertKeeps DEF Loads
  <2>. QED
    BY <1>4, <2>1, <2>2
<1>5. ASSUME NEW p \in Plugins, EnablePlugin(p) \/ DisablePlugin(p)
      PROVE  PluginsInv'
  <2>1. PICK state \in {"enabled", "disabled"} : SetState(p, state)
    BY <1>5 DEF EnablePlugin, DisablePlugin
  <2>2. p \in Loaded /\ entries' = [entries EXCEPT ![p].state = state]
    BY <2>1 DEF SetState
  <2>. DEFINE entry == [entries[p] EXCEPT !.state = state]
  <2>3. entries' = [entries EXCEPT ![p] = entry]
    BY <2>2
  <2>4. entry.granted = entries[p].granted /\ entry.state \in {entries[p].state, state}
    OBVIOUS
  <2>. HIDE DEF entry
  <2>5. /\ entries[p].state \in {"loaded", "enabled", "disabled"}
        /\ entries[p].granted \subseteq Permissions
    BY <2>2 DEF PluginsInv, PluginsTypeOK
  <2>6. /\ entry.state \in {"loaded", "enabled", "disabled"}
        /\ entry.granted \subseteq Permissions
    BY <2>4, <2>5
  <2>7. UNCHANGED <<instances, lazy>>
    BY <2>1 DEF SetState
  <2>. QED
    <3>1. /\ DOMAIN entries' = Loaded /\ entries'[p] = entry
          /\ \A q \in Loaded \ {p} : entries'[q] = entries[q]
      BY <2>2, <2>3 DEF Loaded
    <3>. QED
      BY EntryKeeps, <2>2, <3>1, <2>6, <2>7
<1>6. ASSUME NEW p \in Plugins, GrantPermission(p) \/ RevokePermission(p)
      PROVE  PluginsInv'
  <2>1. PICK permission \in Permissions :
           /\ p \in Loaded /\ UNCHANGED <<instances, lazy>>
           /\ \/ entries' = [entries EXCEPT ![p].granted = @ \cup {permission}]
              \/ entries' = [entries EXCEPT ![p].granted = @ \ {permission}]
    BY <1>6 DEF GrantPermission, RevokePermission
  <2>2. PICK granted : /\ granted \subseteq entries[p].granted \cup {permission}
                       /\ entries' = [entries EXCEPT ![p].granted = granted]
    BY <2>1
  <2>. DEFINE entry == [entries[p] EXCEPT !.granted = granted]
  <2>3. entries' = [entries EXCEPT ![p] = entry]
    BY <2>2
  <2>4. /\ entry.state \in {entries[p].state}
        /\ entry.granted \subseteq entries[p].granted \cup {permission}
    BY <2>2
  <2>. HIDE DEF entry
  <2>5. /\ entries[p].state \in {"loaded", "enabled", "disabled"}
        /\ entries[p].granted \subseteq Permissions
    BY <2>1 DEF PluginsInv, PluginsTypeOK
  <2>6. /\ entry.state \in {"loaded", "enabled", "disabled"}
        /\ entry.granted \subseteq Permissions
    BY <2>4, <2>5
  <2>. QED
    <3>1. /\ DOMAIN entries' = Loaded /\ entries'[p] = entry
          /\ \A q \in Loaded \ {p} : entries'[q] = entries[q]
      BY <2>1, <2>3 DEF Loaded
    <3>. QED
      BY EntryKeeps, <2>1, <3>1, <2>6
<1>7. ASSUME UNCHANGED pluginVars PROVE PluginsInv'
  <2>1. UNCHANGED <<entries, instances, lazy>>
    BY <1>7 DEF pluginVars
  <2>2. LazyTypes'
    BY <2>1 DEF LazyTypes, PluginsInv, PluginsTypeOK
  <2>. QED
    BY <1>3, <2>1, <2>2
<1>. QED
  BY <1>1, <1>2, <1>4, <1>5, <1>6, <1>7 DEF PluginsNext

\* The plugins begin within their invariant.
LEMMA PluginInit == PluginsInit => PluginsInv
BY DEF PluginsInit, NoRows, PluginsInv, PluginsTypeOK, EnabledRuns, Loaded

THEOREM PluginsInvariance == PluginsSpec => []PluginsInv
BY PluginInit, PluginStep, PTL DEF PluginsSpec

-----------------------------------------------------------------------------
(* Peers: what a node's waiting events leave it showing is linked. *)

\* What a node may be told to do, and what it may be told of.
CommandsOf(p) ==
    [kind : {"stop"}, nr : Nat] \cup [kind : {"connect"}, nr : Nat, to : Peers \ {p}]
      \cup [kind : {"publish"}, nr : Nat, topic : Peers \cup {Sync}, data : Payloads]

Tidings ==
    [kind : {"connected", "disconnected", "data"}, peer : Peers,
     data : Payloads \cup {"none"}]

PeerTypes ==
    /\ PeersTypeOK
    /\ missed \in [Peers -> SUBSET Peers]
    /\ DOMAIN commands = Peers /\ \A p \in Peers : commands[p] \in Seq(CommandsOf(p))
    /\ events \in [Peers -> Seq(Tidings)]

\* Once a node whose loop runs has read all that waits for it, it shows only
\* peers it has a connection to.
WillShowLinked ==
    \A p \in Peers : looping[p] =>
        \A q \in Peers \ missed[p] : Shows(events[p], view[p], q) => q \in Linked(p)

PeersInv == PeerTypes /\ StopIsLast /\ WillShowLinked

\* A queue that grows by an item.
LEMMA QueueGrows ==
    ASSUME NEW Items, NEW queue \in Seq(Items), NEW item \in Items
    PROVE  Append(queue, item) \in Seq(Items)
OBVIOUS

\* A queue that is not empty: its head and what follows.
LEMMA QueueParts ==
    ASSUME NEW Items, NEW queue \in Seq(Items), queue # <<>>
    PROVE  /\ Head(queue) \in Items /\ Head(queue) = queue[1]
           /\ Tail(queue) \in Seq(Items) /\ Len(queue) \in Nat \ {0}
           /\ DOMAIN queue = 1..Len(queue) /\ DOMAIN Tail(queue) = 1..(Len(queue) - 1)
           /\ Len(Tail(queue)) = Len(queue) - 1 /\ (Len(queue) = 1 => Tail(queue) = <<>>)
           /\ \A i \in 1..(Len(queue) - 1) : Tail(queue)[i] = queue[i + 1]
OBVIOUS

\* An event that is not about a peer leaves what is shown of it.
LEMMA ShowsSame ==
    ASSUME NEW waiting \in Seq(Tidings), NEW e \in Tidings, NEW shown, NEW q,
           e.kind = "data" \/ e.peer # q
    PROVE  Shows(Append(waiting, e), shown, q) = Shows(waiting, shown, q)
<1>. DEFINE longer == Append(waiting, e)
<1>1. /\ DOMAIN waiting = 1..Len(waiting) /\ Len(waiting) \in Nat
      /\ DOMAIN longer = 1..(Len(waiting) + 1)
      /\ \A i \in 1..Len(waiting) : longer[i] = waiting[i]
      /\ longer[Len(waiting) + 1] = e
  OBVIOUS
<1>. HIDE DEF longer
<1>2. About(longer, q) = About(waiting, q)
  BY <1>1 DEF About
<1>3. \A i \in About(waiting, q) : longer[i] = waiting[i]
  BY <1>1 DEF About
<1>4. Shows(longer, shown, q) = Shows(waiting, shown, q)
  BY <1>2, <1>3 DEF Shows
<1>. QED
  BY <1>4 DEF longer

\* After the event of a connection that closed, its peer is not shown.
LEMMA ShowsClosed ==
    ASSUME NEW waiting \in Seq(Tidings), NEW e \in Tidings, NEW shown, NEW q,
           e.kind = "disconnected", e.peer = q
    PROVE  ~Shows(Append(waiting, e), shown, q)
<1>. DEFINE longer == Append(waiting, e)
            last == Len(waiting) + 1
<1>1. /\ last \in 1..last /\ DOMAIN longer = 1..last /\ longer[last] = e
  OBVIOUS
<1>. HIDE DEF longer, last
<1>2. last \in About(longer, q)
  BY <1>1 DEF About
<1>3. \A i \in About(longer, q) : i \in 1..last
  BY <1>1 DEF About
<1>4. \A i \in About(longer, q) : last <= i => longer[i] = e
  BY <1>1, <1>3
<1>5. ~Shows(longer, shown, q)
  BY <1>2, <1>4 DEF Shows
<1>. QED
  BY <1>5 DEF longer

\* Reading an event about one peer leaves what will be shown of another.
LEMMA ShowsTail ==
    ASSUME NEW waiting \in Seq(Tidings), waiting # <<>>, NEW shown, NEW q,
           Head(waiting).peer # q
    PROVE  Shows(Tail(waiting), shown, q) => Shows(waiting, shown, q)
<1>. DEFINE rest == Tail(waiting)
            n == Len(waiting)
<1>1. /\ n \in Nat \ {0} /\ DOMAIN waiting = 1..n /\ DOMAIN rest = 1..(n - 1)
      /\ \A i \in 1..(n - 1) : rest[i] = waiting[i + 1]
      /\ waiting[1].peer # q
  OBVIOUS
<1>. HIDE DEF rest, n
<1>2. \A i \in About(rest, q) : i + 1 \in About(waiting, q) /\ rest[i] = waiting[i + 1]
  BY <1>1 DEF About
<1>3. \A j \in About(waiting, q) : j \in 1..n /\ j # 1
  BY <1>1 DEF About
<1>4. \A j \in About(waiting, q) : j - 1 \in 1..(n - 1) /\ j - 1 + 1 = j
  BY <1>1, <1>3
<1>5. \A j \in About(waiting, q) : j - 1 \in About(rest, q)
  BY <1>1, <1>4 DEF About
<1>6. ASSUME Shows(rest, shown, q) PROVE Shows(waiting, shown, q)
  <2>1. CASE About(rest, q) = {}
    BY <1>5, <1>6, <2>1 DEF Shows
  <2>2. CASE About(rest, q) # {}
    <3>1. PICK i \in About(rest, q) :
             rest[i].kind = "connected" /\ \A j \in About(rest, q) : j <= i
      BY <1>6, <2>2 DEF Shows
    <3>2. i \in 1..(n - 1)
      BY <1>1 DEF About
    <3>3. \A j \in About(waiting, q) : j - 1 <= i
      BY <1>5, <3>1
    <3>4. \A j \in About(waiting, q) : j <= i + 1
      BY <1>1, <1>3, <3>2, <3>3
    <3>5. waiting[i + 1].kind = "connected" /\ i + 1 \in About(waiting, q)
      BY <1>2, <3>1
    <3>. QED
      BY <3>4, <3>5 DEF Shows
  <2>. QED
    BY <2>1, <2>2
<1>. QED
  BY <1>6 DEF rest

\* With no event waiting, a node shows what it showed.
LEMMA ShowsNoMore == ASSUME NEW shown, NEW q PROVE Shows(<<>>, shown, q) = (q \in shown)
BY DEF Shows, About

\* The other end of a pair.
LEMMA OtherEnd ==
    ASSUME NEW p, NEW q, p # q
    PROVE  Other({p, q})[p] = q /\ Other({p, q})[q] = p
BY DEF Other

\* Giving a running node a command keeps what is known of its queue.
LEMMA GiveKeeps ==
    ASSUME PeersInv, NEW p \in Peers, NEW command \in CommandsOf(p), Give(p, command),
           running' \in [Peers -> BOOLEAN],
           \A q \in Peers \ {p} : running'[q] = running[q],
           running'[p] = (command.kind # "stop")
    PROVE  PeersInv'
<1>. DEFINE queue == commands[p]
            longer == Append(queue, command)
            n == Len(queue)
<1>1. queue \in Seq(CommandsOf(p)) /\ running[p]
  BY DEF PeersInv, PeerTypes, Give
<1>2. /\ DOMAIN commands' = Peers /\ commands'[p] = longer
      /\ \A q \in Peers \ {p} : commands'[q] = commands[q]
      /\ given' = given + 1 /\ given < MaxCommands
      /\ UNCHANGED <<looping, events, view, missed, links, received>>
  BY DEF Give, PeersInv, PeerTypes
<1>3. /\ longer \in Seq(CommandsOf(p)) /\ n \in Nat /\ DOMAIN queue = 1..n
      /\ DOMAIN longer = 1..(n + 1) /\ Len(longer) = n + 1 /\ longer[n + 1] = command
      /\ \A i \in 1..n : longer[i] = queue[i]
  BY <1>1
<1>. HIDE DEF longer, n
<1>4. \A i \in DOMAIN queue : queue[i].kind # "stop"
  BY <1>1 DEF PeersInv, StopIsLast
<1>. HIDE DEF queue
<1>5. given' \in 0..MaxCommands
  BY <1>2, PeersAssumption DEF PeersInv, PeerTypes, PeersTypeOK
<1>6. \A q \in Peers : commands'[q] \in Seq(CommandsOf(q))
  BY <1>2, <1>3 DEF PeersInv, PeerTypes
<1>7. PeerTypes'
  <2>1. /\ looping' \in [Peers -> BOOLEAN] /\ view' \in [Peers -> SUBSET Peers]
        /\ links' \in [Pairs -> 0..MaxLinks]
        /\ missed' \in [Peers -> SUBSET Peers]
        /\ events' \in [Peers -> Seq(Tidings)]
    BY <1>2 DEF PeersInv, PeerTypes, PeersTypeOK
  <2>2. PeersTypeOK'
    BY <1>5, <2>1 DEF PeersTypeOK
  <2>. QED
    BY <1>2, <1>6, <2>1, <2>2 DEF PeerTypes
<1>8. looping[p]
  BY <1>1 DEF PeersInv, StopIsLast
<1>9. \A i \in DOMAIN longer : longer[i].kind = "stop" => i = Len(longer) /\ ~running'[p]
  BY <1>3, <1>4
<1>10. StopIsLast'
  BY <1>2, <1>8, <1>9 DEF PeersInv, StopIsLast
<1>11. WillShowLinked'
  BY <1>2 DEF PeersInv, WillShowLinked, Linked
<1>. QED
  BY <1>7, <1>10, <1>11 DEF PeersInv

\* A connection opens: both ends are told.
LEMMA DialKeeps ==
    ASSUME PeersInv, NEW p \in Peers, NEW q \in Peers, p # q, looping[p], Dial(p, q)
    PROVE  /\ links' \in [Pairs -> 0..MaxLinks] /\ events' \in [Peers -> Seq(Tidings)]
           /\ \A r \in Peers : looping[r] =>
                 \A s \in Peers \ missed[r] :
                    Shows(events'[r], view[r], s) => s \in Linked(r)'
<1>1. Other({p, q})[p] = q /\ Other({p, q})[q] = p
  BY OtherEnd
<1>2. \A r \in Peers :
         events'[r] = IF r \in {p, q}
                        THEN IF looping[r]
                               THEN Append(events[r], [kind |-> "connected",
                                      peer |-> Other({p, q})[r], data |-> "none"])
                               ELSE events[r]
                        ELSE events[r]
  BY DEF Dial, Tell
<1>3. events' = [r \in Peers |-> events'[r]]
  BY DEF Dial, Tell
<1>4. {p, q} \in Pairs
  BY DEF Pairs
<1>5. /\ links[{p, q}] \in 0..MaxLinks /\ links[{p, q}] < MaxLinks
      /\ links' = [links EXCEPT ![{p, q}] = links[{p, q}] + 1]
      /\ links \in [Pairs -> 0..MaxLinks]
  BY <1>4 DEF Dial, PeersInv, PeerTypes, PeersTypeOK
<1>6. links[{p, q}] + 1 \in 0..MaxLinks /\ links[{p, q}] + 1 > 0
  BY <1>5, PeersAssumption
<1>7. links' \in [Pairs -> 0..MaxLinks] /\ links'[{p, q}] > 0
  BY <1>4, <1>5, <1>6
<1>8. ASSUME NEW r \in Peers, NEW s \in Linked(r) PROVE s \in Linked(r)'
  <2>1. {r, s} \in Pairs /\ links[{r, s}] > 0
    BY DEF Linked, Pairs
  <2>2. links'[{r, s}] > 0
    BY <1>5, <1>7, <2>1
  <2>. QED
    BY <2>2 DEF Linked
<1>9. q \in Linked(p)' /\ p \in Linked(q)'
  <2>1. {q, p} = {p, q}
    OBVIOUS
  <2>. QED
    BY <1>7, <2>1 DEF Linked
<1>10. ASSUME NEW r \in Peers, NEW about \in Peers, about \in Linked(r)', looping[r],
              events'[r] = Append(events[r],
                 [kind |-> "connected", peer |-> about, data |-> "none"])
       PROVE  /\ events'[r] \in Seq(Tidings)
              /\ \A s \in Peers \ missed[r] :
                    Shows(events'[r], view[r], s) => s \in Linked(r)'
  <2>. DEFINE e == [kind |-> "connected", peer |-> about, data |-> "none"]
  <2>1. e \in Tidings /\ e.peer = about
    BY DEF Tidings
  <2>. HIDE DEF e
  <2>2. events[r] \in Seq(Tidings) /\ events'[r] = Append(events[r], e)
    BY <1>10 DEF PeersInv, PeerTypes, e
  <2>3. events'[r] \in Seq(Tidings)
    BY <2>1, <2>2
  <2>4. \A s \in Peers \ {about} :
           Shows(Append(events[r], e), view[r], s) = Shows(events[r], view[r], s)
    BY <2>1, <2>2, ShowsSame
  <2>5. \A s \in Peers \ missed[r] : Shows(events[r], view[r], s) => s \in Linked(r)'
    BY <1>8, <1>10 DEF PeersInv, WillShowLinked
  <2>. QED
    BY <1>10, <2>2, <2>3, <2>4, <2>5
<1>11. ASSUME NEW r \in Peers, events'[r] = events[r]
       PROVE  /\ events'[r] \in Seq(Tidings)
              /\ looping[r] => \A s \in Peers \ missed[r] :
                    Shows(events'[r], view[r], s) => s \in Linked(r)'
  BY <1>8, <1>11 DEF PeersInv, PeerTypes, WillShowLinked
<1>12. ASSUME NEW r \in Peers
       PROVE  /\ events'[r] \in Seq(Tidings)
              /\ looping[r] => \A s \in Peers \ missed[r] :
                    Shows(events'[r], view[r], s) => s \in Linked(r)'
  <2>1. CASE r \in {p, q} /\ looping[r]
    <3>1. Other({p, q})[r] \in Peers /\ Other({p, q})[r] \in Linked(r)'
      BY <1>1, <1>9, <2>1
    <3>2. events'[r] = Append(events[r],
             [kind |-> "connected", peer |-> Other({p, q})[r], data |-> "none"])
      BY <1>2, <2>1
    <3>. QED
      BY <1>10, <2>1, <3>1, <3>2
  <2>2. CASE ~(r \in {p, q} /\ looping[r])
    BY <1>2, <1>11, <2>2
  <2>. QED
    BY <2>1, <2>2
<1>. QED
  BY <1>3, <1>7, <1>12

\* A connection closes: both ends are told, and no longer show each other.
LEMMA CloseKeeps ==
    ASSUME PeersInv, NEW pair \in Pairs, CloseConnection(pair)
    PROVE  PeersInv'
<1>1. PICK p \in Peers, q \in Peers : p # q /\ pair = {p, q}
  BY DEF Pairs
<1>2. Other(pair)[p] = q /\ Other(pair)[q] = p
  BY <1>1, OtherEnd
<1>3. UNCHANGED <<running, looping, commands, view, missed, received, given>>
  BY DEF CloseConnection
<1>4. /\ events' = [r \in Peers |-> events'[r]]
      /\ \A r \in Peers :
         events'[r] = IF r \in pair /\ looping[r]
                        THEN Append(events[r], [kind |-> "disconnected",
                               peer |-> Other(pair)[r], data |-> "none"])
                        ELSE events[r]
  BY DEF CloseConnection, Tell
<1>5. /\ links[pair] \in 1..MaxLinks /\ links \in [Pairs -> 0..MaxLinks]
      /\ links' = [links EXCEPT ![pair] = links[pair] - 1]
  BY PeersAssumption DEF CloseConnection, PeersInv, PeerTypes, PeersTypeOK
<1>6. links[pair] - 1 \in 0..MaxLinks
  BY <1>5, PeersAssumption
<1>7. /\ links' \in [Pairs -> 0..MaxLinks]
      /\ \A other \in Pairs : other # pair => links'[other] = links[other]
  BY <1>5, <1>6
<1>8. ASSUME NEW r \in Peers, NEW s \in Linked(r), {r, s} # pair PROVE s \in Linked(r)'
  <2>1. {r, s} \in Pairs /\ links[{r, s}] > 0
    BY DEF Linked, Pairs
  <2>2. links'[{r, s}] > 0
    BY <1>7, <1>8, <2>1
  <2>. QED
    BY <2>2 DEF Linked
<1>9. ASSUME NEW r \in Peers, NEW about \in Peers, pair = {r, about},
             events'[r] = Append(events[r],
                [kind |-> "disconnected", peer |-> about, data |-> "none"])
      PROVE  /\ events'[r] \in Seq(Tidings)
             /\ \A s \in Peers : Shows(events'[r], view[r], s) =>
                   Shows(events[r], view[r], s) /\ {r, s} # pair
  <2>. DEFINE e == [kind |-> "disconnected", peer |-> about, data |-> "none"]
  <2>1. e \in Tidings /\ e.peer = about /\ e.kind = "disconnected"
    BY DEF Tidings
  <2>. HIDE DEF e
  <2>2. events[r] \in Seq(Tidings) /\ events'[r] = Append(events[r], e)
    BY <1>9 DEF PeersInv, PeerTypes, e
  <2>3. \A s \in Peers \ {about} :
           Shows(Append(events[r], e), view[r], s) = Shows(events[r], view[r], s)
    BY <2>1, <2>2, ShowsSame
  <2>4. ~Shows(Append(events[r], e), view[r], about)
    BY <2>1, <2>2, ShowsClosed
  <2>5. \A s \in Peers \ {about} : {r, s} # pair
    BY <1>9
  <2>. QED
    BY <2>1, <2>2, <2>3, <2>4, <2>5
<1>10. ASSUME NEW r \in Peers
       PROVE  /\ events'[r] \in Seq(Tidings)
              /\ looping[r] => \A s \in Peers : Shows(events'[r], view[r], s) =>
                    Shows(events[r], view[r], s) /\ (s \in Linked(r) => {r, s} # pair)
  <2>1. CASE r \in pair /\ looping[r]
    <3>1. Other(pair)[r] \in Peers /\ pair = {r, Other(pair)[r]}
      BY <1>1, <1>2, <2>1
    <3>2. events'[r] = Append(events[r],
             [kind |-> "disconnected", peer |-> Other(pair)[r], data |-> "none"])
      BY <1>4, <2>1
    <3>. QED
      BY <1>9, <3>1, <3>2
  <2>2. CASE ~(r \in pair /\ looping[r])
    BY <1>4, <2>2 DEF PeersInv, PeerTypes
  <2>. QED
    BY <2>1, <2>2
<1>11. WillShowLinked'
  <2>. SUFFICES ASSUME NEW r \in Peers, looping[r], NEW s \in Peers \ missed[r],
                       Shows(events'[r], view[r], s)
                PROVE  s \in Linked(r)'
    BY <1>3 DEF WillShowLinked
  <2>1. s \in Linked(r)
    BY <1>10 DEF PeersInv, WillShowLinked
  <2>2. {r, s} # pair
    BY <1>10, <2>1
  <2>. QED
    BY <1>8, <2>1, <2>2
<1>12. PeerTypes'
  <2>1. events' \in [Peers -> Seq(Tidings)]
    BY <1>4, <1>10
  <2>. QED
    BY <1>3, <1>7, <2>1 DEF PeersInv, PeerTypes, PeersTypeOK
<1>13. StopIsLast'
  BY <1>3 DEF PeersInv, StopIsLast
<1>. QED
  BY <1>11, <1>12, <1>13 DEF PeersInv

\* What is published shows nobody as connected.
LEMMA PublishKeeps ==
    ASSUME PeersInv, NEW p \in Peers, NEW topic, NEW data \in Payloads,
           Publish(p, topic, data)
    PROVE  /\ links' = links /\ events' \in [Peers -> Seq(Tidings)]
           /\ \A r \in Peers, s \in Peers :
                 Shows(events'[r], view[r], s) = Shows(events[r], view[r], s)
<1>. DEFINE e == [kind |-> "data", peer |-> p, data |-> data]
<1>1. /\ links' = links /\ events' = [r \in Peers |-> events'[r]]
      /\ \A r \in Peers : events'[r] \in {events[r], Append(events[r], e)}
  BY DEF Publish, Tell
<1>2. e \in Tidings /\ e.kind = "data"
  BY DEF Tidings
<1>. HIDE DEF e
<1>3. \A r \in Peers : events[r] \in Seq(Tidings)
  BY DEF PeersInv, PeerTypes
<1>4. \A r \in Peers, s \in Peers :
         Shows(Append(events[r], e), view[r], s) = Shows(events[r], view[r], s)
  BY <1>2, <1>3, ShowsSame
<1>5. \A r \in Peers : events'[r] \in Seq(Tidings)
  <2>1. \A r \in Peers : Append(events[r], e) \in Seq(Tidings)
    BY <1>2, <1>3, QueueGrows
  <2>. QED
    BY <1>1, <1>3, <2>1
<1>6. \A r \in Peers, s \in Peers :
         Shows(events'[r], view[r], s) = Shows(events[r], view[r], s)
  BY <1>1, <1>4
<1>. QED
  BY <1>1, <1>5, <1>6

\* The loop takes a command, whatever comes of it.
LEMMA TakeKeeps == ASSUME PeersInv, NEW p \in Peers, TakeCommand(p) PROVE PeersInv'
<1>. DEFINE queue == commands[p]
            command == Head(queue)
            rest == Tail(queue)
            n == Len(queue)
<1>1. /\ looping[p] /\ queue \in Seq(CommandsOf(p)) /\ queue # <<>>
      /\ commands' = [commands EXCEPT ![p] = rest]
      /\ looping' = [looping EXCEPT ![p] = command.kind # "stop"]
      /\ UNCHANGED <<running, view, missed, received, given>>
  BY DEF TakeCommand, PeersInv, PeerTypes
<1>2. /\ command \in CommandsOf(p) /\ command = queue[1] /\ rest \in Seq(CommandsOf(p))
      /\ n \in Nat \ {0} /\ DOMAIN queue = 1..n /\ DOMAIN rest = 1..(n - 1)
      /\ Len(rest) = n - 1 /\ (n = 1 => rest = <<>>)
      /\ \A i \in 1..(n - 1) : rest[i] = queue[i + 1]
  BY <1>1, QueueParts
<1>3. /\ command.kind = "connect" => command.to \in Peers \ {p}
      /\ command.kind = "publish" => command.data \in Payloads
  BY <1>2 DEF CommandsOf
<1>4. \/ command.kind = "connect" /\ Dial(p, command.to)
      \/ command.kind = "publish" /\ Publish(p, command.topic, command.data)
      \/ UNCHANGED <<events, links>>
  BY DEF TakeCommand
<1>5. \A i \in 1..n : queue[i].kind = "stop" => i = n /\ ~running[p]
  BY <1>2 DEF PeersInv, StopIsLast
<1>. HIDE DEF queue, command, rest, n
<1>6. /\ links' \in [Pairs -> 0..MaxLinks] /\ events' \in [Peers -> Seq(Tidings)]
      /\ \A r \in Peers : looping[r] =>
            \A s \in Peers \ missed[r] :
               Shows(events'[r], view[r], s) => s \in Linked(r)'
  <2>1. CASE command.kind = "connect" /\ Dial(p, command.to)
    BY <1>1, <1>3, <2>1, DialKeeps
  <2>2. ASSUME links' = links, events' \in [Peers -> Seq(Tidings)],
               \A r \in Peers, s \in Peers :
                  Shows(events'[r], view[r], s) = Shows(events[r], view[r], s)
        PROVE  <1>6
    BY <2>2 DEF PeersInv, PeerTypes, PeersTypeOK, WillShowLinked, Linked
  <2>3. CASE command.kind = "publish" /\ Publish(p, command.topic, command.data)
    BY <1>3, <2>2, <2>3, PublishKeeps
  <2>4. CASE UNCHANGED <<events, links>>
    BY <2>2, <2>4 DEF PeersInv, PeerTypes
  <2>. QED
    BY <1>4, <2>1, <2>3, <2>4
<1>7. /\ DOMAIN commands' = Peers /\ commands'[p] = rest
      /\ \A q \in Peers \ {p} : commands'[q] = commands[q]
      /\ looping' \in [Peers -> BOOLEAN] /\ looping'[p] = (command.kind # "stop")
      /\ \A q \in Peers \ {p} : looping'[q] = looping[q]
  BY <1>1 DEF PeersInv, PeerTypes, PeersTypeOK
<1>8. WillShowLinked'
  <2>1. \A r \in Peers : looping'[r] => looping[r]
    BY <1>1, <1>7
  <2>. QED
    BY <1>1, <1>6, <2>1 DEF WillShowLinked
<1>9. PeerTypes'
  <2>1. \A q \in Peers : commands'[q] \in Seq(CommandsOf(q))
    BY <1>2, <1>7 DEF PeersInv, PeerTypes
  <2>2. PeersTypeOK'
    BY <1>1, <1>6, <1>7 DEF PeersInv, PeerTypes, PeersTypeOK
  <2>. QED
    BY <1>1, <1>6, <1>7, <2>1, <2>2 DEF PeersInv, PeerTypes
<1>10. StopIsLast'
  <2>1. ~looping'[p] => ~running[p] /\ rest = <<>>
    BY <1>2, <1>5, <1>7
  <2>2. \A i \in 1..(n - 1) : rest[i].kind = "stop" => i = n - 1 /\ ~running[p]
    <3>. SUFFICES ASSUME NEW i \in 1..(n - 1), queue[i + 1].kind = "stop"
                  PROVE  i = n - 1 /\ ~running[p]
      BY <1>2
    <3>1. i + 1 \in 1..n
      BY <1>2
    <3>2. i + 1 = n /\ ~running[p]
      BY <1>5, <3>1
    <3>. QED
      BY <1>2, <3>2
  <2>3. \A q \in Peers \ {p} : /\ commands'[q] = commands[q] /\ looping'[q] = looping[q]
                               /\ running'[q] = running[q]
    BY <1>1, <1>7
  <2>4. /\ ~looping'[p] => ~running'[p] /\ commands'[p] = <<>>
        /\ \A i \in DOMAIN commands'[p] :
              commands'[p][i].kind = "stop" => i = Len(commands'[p]) /\ ~running'[p]
    BY <1>1, <1>2, <1>7, <2>1, <2>2
  <2>. QED
    BY <2>3, <2>4 DEF PeersInv, StopIsLast
<1>. QED
  BY <1>8, <1>9, <1>10 DEF PeersInv

\* The owner reads all events in order, or takes one without reading it.
LEMMA ReadKeeps ==
    ASSUME PeersInv, NEW p \in Peers, ProcessEvents(p) \/ PollEvents(p)
    PROVE  PeersInv'
<1>1. UNCHANGED <<running, looping, commands, links, given>>
  BY DEF ProcessEvents, PollEvents
<1>2. StopIsLast'
  BY <1>1 DEF PeersInv, StopIsLast
<1>3. /\ view \in [Peers -> SUBSET Peers] /\ missed \in [Peers -> SUBSET Peers]
      /\ events \in [Peers -> Seq(Tidings)]
  BY DEF PeersInv, PeerTypes, PeersTypeOK
<1>4. ASSUME ProcessEvents(p)
      PROVE  /\ view' \in [Peers -> SUBSET Peers] /\ missed' \in [Peers -> SUBSET Peers]
             /\ events' \in [Peers -> Seq(Tidings)] /\ WillShowLinked'
  <2>. DEFINE shown == {q \in Peers : Shows(events[p], view[p], q)}
  <2>1. /\ view' = [view EXCEPT ![p] = shown] /\ missed' = missed
        /\ events' = [events EXCEPT ![p] = <<>>]
    BY <1>4 DEF ProcessEvents
  <2>2. shown \subseteq Peers /\ \A q \in shown : Shows(events[p], view[p], q)
    OBVIOUS
  <2>. HIDE DEF shown
  <2>3. <<>> \in Seq(Tidings)
    OBVIOUS
  <2>4. /\ view'[p] = shown /\ events'[p] = <<>>
        /\ \A q \in Peers \ {p} : view'[q] = view[q] /\ events'[q] = events[q]
    BY <1>3, <2>1
  <2>5. \A q \in Peers : Shows(events'[p], view'[p], q) => Shows(events[p], view[p], q)
    BY <2>2, <2>4, ShowsNoMore
  <2>6. WillShowLinked'
    BY <1>1, <2>1, <2>4, <2>5 DEF PeersInv, WillShowLinked, Linked
  <2>. QED
    BY <1>3, <2>1, <2>2, <2>3, <2>6
<1>5. ASSUME PollEvents(p)
      PROVE  /\ view' \in [Peers -> SUBSET Peers] /\ missed' \in [Peers -> SUBSET Peers]
             /\ events' \in [Peers -> Seq(Tidings)] /\ WillShowLinked'
  <2>. DEFINE waiting == events[p]
              first == Head(waiting).peer
              rest == Tail(waiting)
  <2>1. /\ waiting \in Seq(Tidings) /\ waiting # <<>>
        /\ events' = [events EXCEPT ![p] = rest]
        /\ missed' = [missed EXCEPT ![p] = @ \cup {first}] /\ view' = view
    BY <1>3, <1>5 DEF PollEvents
  <2>2. first \in Peers /\ rest \in Seq(Tidings)
    <3>1. Head(waiting) \in Tidings /\ rest \in Seq(Tidings)
      BY <2>1, QueueParts
    <3>. QED
      BY <3>1 DEF Tidings
  <2>3. \A q \in Peers \ {first} : Shows(rest, view[p], q) => Shows(waiting, view[p], q)
    BY <2>1, ShowsTail
  <2>. HIDE DEF first, rest
  <2>4. /\ events'[p] = rest /\ missed'[p] = missed[p] \cup {first}
        /\ \A q \in Peers \ {p} : events'[q] = events[q] /\ missed'[q] = missed[q]
    BY <1>3, <2>1
  <2>5. WillShowLinked'
    <3>. SUFFICES ASSUME NEW q \in Peers, looping[q], NEW r \in Peers \ missed'[q],
                         Shows(events'[q], view[q], r)
                  PROVE  r \in Linked(q)
      BY <1>1, <2>1 DEF WillShowLinked, Linked
    <3>1. CASE q = p
      <4>1. r \in Peers \ missed[p] /\ r # first /\ Shows(rest, view[p], r)
        BY <2>4, <3>1
      <4>2. Shows(events[p], view[p], r)
        BY <2>3, <4>1
      <4>. QED
        BY <3>1, <4>1, <4>2 DEF PeersInv, WillShowLinked
    <3>2. CASE q # p
      BY <2>4, <3>2 DEF PeersInv, WillShowLinked
    <3>. QED
      BY <3>1, <3>2
  <2>. QED
    BY <1>3, <2>1, <2>2, <2>5
<1>6. PeerTypes'
  BY <1>1, <1>4, <1>5 DEF PeersInv, PeerTypes, PeersTypeOK
<1>. QED
  BY <1>2, <1>4, <1>5, <1>6 DEF PeersInv

\* The nodes begin within their invariant.
LEMMA PeersInitInv == PeersInit => PeersInv
<1>. SUFFICES ASSUME PeersInit PROVE PeersInv
  OBVIOUS
<1>1. PeerTypes
  BY PeersAssumption DEF PeersInit, PeerTypes, PeersTypeOK
<1>2. StopIsLast
  <2>1. DOMAIN << >> = {}
    OBVIOUS
  <2>2. \A p \in Peers : looping[p] /\ commands[p] = << >>
    BY DEF PeersInit
  <2>3. \A p \in Peers : DOMAIN commands[p] = {}
    BY <2>1, <2>2, Zenon
  <2>. QED
    BY <2>2, <2>3 DEF StopIsLast
<1>3. WillShowLinked
  BY ShowsNoMore DEF PeersInit, WillShowLinked
<1>. QED
  BY <1>1, <1>2, <1>3 DEF PeersInv

\* Every step keeps the invariant.
LEMMA PeersKeepInv == PeersInv /\ [PeersNext]_peerVars => PeersInv'
<1>. SUFFICES ASSUME PeersInv, [PeersNext]_peerVars PROVE PeersInv'
  OBVIOUS
<1>1. running \in [Peers -> BOOLEAN] /\ given \in Nat
  BY PeersAssumption DEF PeersInv, PeerTypes, PeersTypeOK
<1>2. ASSUME NEW p \in Peers, StopNode(p) PROVE PeersInv'
  <2>1. [kind |-> "stop", nr |-> given] \in CommandsOf(p)
    BY <1>1 DEF CommandsOf
  <2>. QED
    BY <1>1, <1>2, <2>1, GiveKeeps DEF StopNode
<1>3. ASSUME NEW p \in Peers, NEW command \in CommandsOf(p), command.kind # "stop",
             Give(p, command), UNCHANGED running
      PROVE  PeersInv'
  <2>1. running[p]
    BY <1>3 DEF Give
  <2>2. running'[p] = (command.kind # "stop")
    BY <1>1, <1>3, <2>1
  <2>. QED
    BY <1>1, <1>3, <2>2, GiveKeeps
<1>4. ASSUME NEW p \in Peers, ConnectPeer(p) PROVE PeersInv'
  <2>1. PICK q \in Peers \ {p} :
           Give(p, [kind |-> "connect", nr |-> given, to |-> q]) /\ UNCHANGED running
    BY <1>4 DEF ConnectPeer
  <2>2. [kind |-> "connect", nr |-> given, to |-> q] \in CommandsOf(p)
    BY <1>1 DEF CommandsOf
  <2>. QED
    BY <1>3, <2>1, <2>2
<1>5. ASSUME NEW p \in Peers, SendData(p) \/ Broadcast(p) PROVE PeersInv'
  <2>1. PICK topic \in Peers \cup {Sync}, data \in Payloads :
           /\ Give(p, [kind |-> "publish", nr |-> given, topic |-> topic, data |-> data])
           /\ UNCHANGED running
    BY <1>5 DEF SendData, Broadcast
  <2>2. [kind |-> "publish", nr |-> given, topic |-> topic, data |-> data] \in CommandsOf(p)
    BY <1>1 DEF CommandsOf
  <2>. QED
    BY <1>3, <2>1, <2>2
<1>6. ASSUME UNCHANGED peerVars PROVE PeersInv'
  <2>1. PeerTypes'
    BY <1>6 DEF peerVars, PeersInv, PeerTypes, PeersTypeOK
  <2>2. StopIsLast' /\ WillShowLinked'
    BY <1>6 DEF peerVars, PeersInv, StopIsLast, WillShowLinked, Linked
  <2>. QED
    BY <2>1, <2>2 DEF PeersInv
<1>. QED
  BY <1>2, <1>4, <1>5, <1>6, TakeKeeps, ReadKeeps, CloseKeeps DEF PeersNext

\* The safety part of PeersSpec.
THEOREM PeersInvariance == PeersInit /\ [][PeersNext]_peerVars => []PeersInv
BY PeersInitInv, PeersKeepInv, PTL

\* Events read to the end leave no peer shown without a connection.
LEMMA ReadToTheEnd == PeersInv => PeersTypeOK /\ StopIsLast /\ ShownIsLinked
<1>1. PeersInv => ShownIsLinked
  BY ShowsNoMore DEF PeersInv, PeerTypes, PeersTypeOK, WillShowLinked, ShownIsLinked
<1>. QED
  BY <1>1 DEF PeersInv, PeerTypes

-----------------------------------------------------------------------------
(* Markdown: no line is lost, a blank line separates, and tables are whole.
   The document stays as it is, so what has to be carried along is what the
   parser holds after each of its lines. *)

(* What a parser holds after the first k lines of doc *)

MarkdownLines == Nat \X LineKinds

MarkdownKinds ==
    {"none", "paragraph", "heading", "quote", "task", "item", "numbered", "table",
     "fence", "audio", "maths", "colons", "maths1", "panic"}

MarkdownBlock == [kind : MarkdownKinds, lines : Seq(MarkdownLines)]

MarkdownParsers == [done : Seq(MarkdownBlock), open : MarkdownKinds, lines : Seq(MarkdownLines)]

IsTableRow(line) == line[2] \in TableLines

\* The lines of a block are of the document, in their order; blank ones are in
\* opened blocks only, and a table has rows.
BlockSound(kind, lines, k, doc) ==
    /\ lines # << >>
    /\ \A j \in DOMAIN lines : lines[j][1] \in 1..k /\ lines[j][2] = doc[lines[j][1]]
    /\ \A j \in DOMAIN lines : lines[j][2] = "blank" => kind \in DOMAIN Closing
    /\ \A j, l \in DOMAIN lines : j < l => lines[j][1] < lines[l][1]
    /\ kind = "table" => \A j \in DOMAIN lines : IsTableRow(lines[j])

LinesBefore(above, below) ==
    \A j \in DOMAIN above : \A l \in DOMAIN below : above[j][1] < below[l][1]

\* A row under a table does not follow at once.
TableEnds(block, below) ==
    block.kind = "table" /\ IsTableRow(below[1]) =>
        below[1][1] > block.lines[Len(block.lines)][1] + 1

DoneSound(done, k, doc) ==
    /\ \A i \in DOMAIN done : BlockSound(done[i].kind, done[i].lines, k, doc)
    /\ \A i, m \in DOMAIN done : i < m => LinesBefore(done[i].lines, done[m].lines)
    /\ \A i \in DOMAIN done : i + 1 \in DOMAIN done => TableEnds(done[i], done[i + 1].lines)

HasLine(p, n) ==
    \/ \E i \in DOMAIN p.done : \E j \in DOMAIN p.done[i].lines : p.done[i].lines[j][1] = n
    \/ \E j \in DOMAIN p.lines : p.lines[j][1] = n

OpenSound(p, k, doc) ==
    /\ BlockSound(p.open, p.lines, k, doc)
    /\ \A i \in DOMAIN p.done : LinesBefore(p.done[i].lines, p.lines)
    /\ Len(p.done) \in DOMAIN p.done => TableEnds(p.done[Len(p.done)], p.lines)

ParserSound(p, k, doc) ==
    /\ p \in MarkdownParsers
    /\ DoneSound(p.done, k, doc)
    /\ p.open = "none" <=> p.lines = << >>
    /\ p.open # "none" => OpenSound(p, k, doc)
    /\ \A n \in 1..k : doc[n] # "blank" => HasLine(p, n)

\* When no block is open, the last table ended at a line that is no row.
Rested(p, k) ==
    p.open = "none" /\ Len(p.done) \in DOMAIN p.done =>
        LET last == p.done[Len(p.done)]
        IN  last.kind = "table" => last.lines[Len(last.lines)][1] < k

ReadStep(p, e, w) == ReadLine(p, e)

Reading(p, k, doc) == ParserSound(p, k, doc) /\ Rested(p, k)

Reads == INSTANCE FoldInduction WITH Step <- ReadStep, Holds <- Reading

\* Reading the lines of a document is a fold.
LEMMA LinesFold ==
    ASSUME NEW kinds
    PROVE  FoldLeft(ReadLine, Begin, Numbered(kinds)) = Reads!Fold(Begin, Numbered(kinds), 0)
BY DEF ReadStep, Reads!Fold, FoldLeft, MapThenFoldSet, Reads!FoldLeft,
       Reads!MapThenFoldSet, Max, Reads!Max

-----------------------------------------------------------------------------
\* What holds of k lines holds of k + 1 when the next one is in no block and blank.
LEMMA SkipKeeps ==
    ASSUME NEW k \in Nat, NEW doc \in Seq(LineKinds), k + 1 \in DOMAIN doc,
           NEW p, ParserSound(p, k, doc), doc[k + 1] = "blank"
    PROVE  ParserSound(p, k + 1, doc)
<1>1. 1..k \subseteq 1..(k + 1) /\ \A n \in 1..(k + 1) : n = k + 1 \/ n \in 1..k
  OBVIOUS
<1>2. ASSUME NEW kind, NEW lines, BlockSound(kind, lines, k, doc)
      PROVE  BlockSound(kind, lines, k + 1, doc)
  BY <1>1, <1>2 DEF BlockSound
<1>3. DoneSound(p.done, k + 1, doc)
  BY <1>2 DEF ParserSound, DoneSound
<1>4. p.open # "none" => OpenSound(p, k + 1, doc)
  BY <1>2 DEF ParserSound, OpenSound
<1>5. \A n \in 1..(k + 1) : doc[n] # "blank" => HasLine(p, n)
  BY <1>1 DEF ParserSound
<1>. QED
  BY <1>3, <1>4, <1>5 DEF ParserSound

\* The open block takes the next line.
LEMMA TakeHolds ==
    ASSUME NEW k \in Nat, NEW doc \in Seq(LineKinds), k + 1 \in DOMAIN doc,
           NEW p, ParserSound(p, k, doc), p.open # "none",
           doc[k + 1] = "blank" => p.open \in DOMAIN Closing,
           p.open = "table" => doc[k + 1] \in TableLines
    PROVE  ParserSound([p EXCEPT !.lines = Append(@, <<k + 1, doc[k + 1]>>)], k + 1, doc)
<1>. DEFINE line == <<k + 1, doc[k + 1]>>
            lines == Append(p.lines, line)
            q == [p EXCEPT !.lines = Append(@, line)]
            n == Len(p.lines)
<1>1. /\ p.done \in Seq(MarkdownBlock) /\ p.open \in MarkdownKinds /\ p.lines \in Seq(MarkdownLines)
      /\ q.done = p.done /\ q.open = p.open /\ q.lines = lines
  BY DEF ParserSound, MarkdownParsers
<1>2. line \in MarkdownLines /\ line[1] = k + 1 /\ line[2] = doc[k + 1]
  <2>1. doc[k + 1] \in LineKinds /\ k + 1 \in Nat
    OBVIOUS
  <2>. QED
    BY <2>1 DEF MarkdownLines
<1>. HIDE DEF line
<1>3. /\ n \in Nat /\ lines \in Seq(MarkdownLines) /\ DOMAIN lines = 1..(n + 1) /\ Len(lines) = n + 1
      /\ DOMAIN p.lines = 1..n /\ n >= 1
      /\ \A j \in 1..n : lines[j] = p.lines[j]
      /\ lines[n + 1] = line /\ lines # << >>
  <2>1. p.lines # << >>
    BY DEF ParserSound
  <2>. QED
    BY <1>1, <1>2, <2>1
<1>4. q \in MarkdownParsers
  BY <1>1, <1>3 DEF ParserSound, MarkdownParsers
<1>. HIDE DEF n, lines, q
<1>5. 1..k \subseteq 1..(k + 1) /\ \A m \in 1..(k + 1) : m = k + 1 \/ m \in 1..k
  OBVIOUS
<1>6. ASSUME NEW kind, NEW list, BlockSound(kind, list, k, doc)
      PROVE  BlockSound(kind, list, k + 1, doc)
  BY <1>5, <1>6 DEF BlockSound
<1>7. DoneSound(q.done, k + 1, doc)
  BY <1>1, <1>6 DEF ParserSound, DoneSound
<1>8. BlockSound(q.open, q.lines, k + 1, doc)
  <2>1. BlockSound(p.open, p.lines, k, doc)
    BY DEF ParserSound, OpenSound
  <2>2. \A j \in DOMAIN lines : j \in 1..n \/ j = n + 1
    BY <1>3
  <2>3. \A j \in DOMAIN lines :
           lines[j][1] \in 1..(k + 1) /\ lines[j][2] = doc[lines[j][1]]
    BY <1>2, <1>3, <1>5, <2>1, <2>2 DEF BlockSound
  <2>4. \A j \in DOMAIN lines : lines[j][2] = "blank" => q.open \in DOMAIN Closing
    BY <1>1, <1>2, <1>3, <2>1, <2>2 DEF BlockSound
  <2>5. ASSUME NEW j \in DOMAIN lines, NEW l \in DOMAIN lines, j < l
        PROVE  lines[j][1] < lines[l][1]
    <3>1. j \in 1..n
      BY <1>3, <2>5
    <3>2. lines[j][1] \in 1..k
      BY <1>3, <2>1, <3>1 DEF BlockSound
    <3>3. CASE l = n + 1
      BY <1>2, <1>3, <3>2, <3>3
    <3>4. CASE l \in 1..n
      BY <1>3, <2>1, <2>5, <3>1, <3>4 DEF BlockSound
    <3>. QED
      BY <2>2, <3>3, <3>4
  <2>6. q.open = "table" => \A j \in DOMAIN lines : IsTableRow(lines[j])
    BY <1>1, <1>2, <1>3, <2>1, <2>2 DEF BlockSound, IsTableRow
  <2>. QED
    BY <1>1, <1>3, <2>3, <2>4, <2>5, <2>6 DEF BlockSound
<1>9. ASSUME NEW i \in DOMAIN q.done PROVE LinesBefore(q.done[i].lines, q.lines)
  <2>1. LinesBefore(p.done[i].lines, p.lines) /\ BlockSound(p.done[i].kind, p.done[i].lines, k, doc)
    BY <1>1 DEF ParserSound, OpenSound, DoneSound
  <2>2. \A j \in DOMAIN p.done[i].lines : p.done[i].lines[j][1] < k + 1
    BY <2>1 DEF BlockSound
  <2>3. \A l \in DOMAIN q.lines : (l \in DOMAIN p.lines /\ q.lines[l] = p.lines[l]) \/ q.lines[l] = line
    BY <1>1, <1>3
  <2>. QED
    BY <1>1, <1>2, <2>1, <2>2, <2>3 DEF LinesBefore
<1>10. Len(q.done) \in DOMAIN q.done => TableEnds(q.done[Len(q.done)], q.lines)
  <2>1. q.lines[1] = p.lines[1]
    BY <1>1, <1>3
  <2>. QED
    BY <1>1, <2>1 DEF ParserSound, OpenSound, TableEnds
<1>11. ASSUME NEW m \in 1..(k + 1), doc[m] # "blank" PROVE HasLine(q, m)
  <2>1. CASE m = k + 1
    BY <1>1, <1>2, <1>3, <2>1 DEF HasLine
  <2>2. CASE m \in 1..k
    <3>1. HasLine(p, m)
      BY <1>11, <2>2 DEF ParserSound
    <3>. QED
      BY <1>1, <1>3, <3>1 DEF HasLine
  <2>. QED
    BY <1>5, <2>1, <2>2
<1>12. q.open = "none" <=> q.lines = << >>
  BY <1>1, <1>3
<1>13. ParserSound(q, k + 1, doc)
  BY <1>4, <1>7, <1>8, <1>9, <1>10, <1>11, <1>12 DEF ParserSound, OpenSound
<1>. QED
  BY <1>13 DEF q, line

\* The open block is finished.
LEMMA FlushKeeps ==
    ASSUME NEW k \in Nat, NEW doc, NEW p, ParserSound(p, k, doc)
    PROVE  /\ ParserSound(Flush(p), k, doc) /\ Flush(p).open = "none"
           /\ p.open # "none" =>
                 /\ Len(Flush(p).done) \in DOMAIN Flush(p).done
                 /\ Flush(p).done[Len(Flush(p).done)].kind = "table" => p.open = "table"
<1>1. CASE p.open = "none"
  BY <1>1 DEF Flush
<1>2. CASE p.open # "none"
  <2>. DEFINE kind == IF p.open = "table" THEN TableBlock(p.lines) ELSE p.open
              block == [kind |-> kind, lines |-> p.lines]
              done == Append(p.done, block)
              q == [done |-> done, open |-> "none", lines |-> << >>]
              n == Len(p.done)
  <2>1. /\ p.done \in Seq(MarkdownBlock) /\ p.open \in MarkdownKinds /\ p.lines \in Seq(MarkdownLines)
        /\ OpenSound(p, k, doc) /\ DoneSound(p.done, k, doc)
    BY <1>2 DEF ParserSound, MarkdownParsers
  <2>2. Flush(p) = q
    BY <1>2 DEF Flush
  <2>3. kind \in MarkdownKinds /\ (kind = "table" => p.open = "table")
        /\ (p.open # "table" => kind = p.open)
    BY <2>1 DEF TableBlock, MarkdownKinds
  <2>. HIDE DEF kind
  <2>4. block \in MarkdownBlock /\ block.kind = kind /\ block.lines = p.lines
    BY <2>1, <2>3 DEF MarkdownBlock
  <2>. HIDE DEF block
  <2>5. /\ n \in Nat /\ done \in Seq(MarkdownBlock) /\ Len(done) = n + 1 /\ DOMAIN done = 1..(n + 1)
        /\ DOMAIN p.done = 1..n /\ done[n + 1] = block
        /\ \A i \in 1..n : done[i] = p.done[i]
    BY <2>1, <2>4
  <2>6. q \in MarkdownParsers /\ q.done = done /\ q.open = "none" /\ q.lines = << >>
    <3>1. << >> \in Seq(MarkdownLines) /\ "none" \in MarkdownKinds
      BY DEF MarkdownKinds
    <3>. HIDE DEF done
    <3>2. q.done = done /\ q.open = "none" /\ q.lines = << >>
      OBVIOUS
    <3>3. q \in MarkdownParsers
      BY <2>5, <3>1 DEF MarkdownParsers
    <3>. QED
      BY <3>2, <3>3
  <2>. HIDE DEF done, n, q
  <2>7. \A i \in DOMAIN done : i \in 1..n \/ i = n + 1
    BY <2>5
  <2>8. BlockSound(block.kind, block.lines, k, doc)
    <3>1. "table" \notin DOMAIN Closing
      BY DEF Closing
    <3>. QED
      BY <2>1, <2>3, <2>4, <3>1 DEF BlockSound, OpenSound
  <2>9. \A i \in DOMAIN done : BlockSound(done[i].kind, done[i].lines, k, doc)
    BY <2>1, <2>5, <2>7, <2>8 DEF DoneSound
  <2>10. ASSUME NEW i \in DOMAIN done, NEW m \in DOMAIN done, i < m
         PROVE  LinesBefore(done[i].lines, done[m].lines)
    <3>1. i \in 1..n
      BY <2>5, <2>10
    <3>2. CASE m = n + 1
      BY <2>1, <2>4, <2>5, <3>1, <3>2 DEF OpenSound
    <3>3. CASE m \in 1..n
      BY <2>1, <2>5, <2>10, <3>1, <3>3 DEF DoneSound
    <3>. QED
      BY <2>7, <3>2, <3>3
  <2>11. ASSUME NEW i \in DOMAIN done, i + 1 \in DOMAIN done
         PROVE  TableEnds(done[i], done[i + 1].lines)
    <3>1. i \in 1..n
      BY <2>5, <2>11
    <3>2. CASE i = n
      BY <2>1, <2>4, <2>5, <3>1, <3>2 DEF OpenSound
    <3>3. CASE i # n
      <4>1. i + 1 \in 1..n
        BY <2>5, <3>1, <3>3
      <4>. QED
        BY <2>1, <2>5, <3>1, <4>1 DEF DoneSound
    <3>. QED
      BY <3>2, <3>3
  <2>12. ASSUME NEW m \in 1..k, doc[m] # "blank" PROVE HasLine(q, m)
    <3>1. HasLine(p, m)
      BY <2>12 DEF ParserSound
    <3>2. CASE \E j \in DOMAIN p.lines : p.lines[j][1] = m
      <4>1. n + 1 \in DOMAIN done /\ done[n + 1].lines = p.lines
        BY <2>4, <2>5
      <4>. QED
        BY <2>6, <3>2, <4>1 DEF HasLine
    <3>3. CASE \E i \in DOMAIN p.done : \E j \in DOMAIN p.done[i].lines : p.done[i].lines[j][1] = m
      <4>1. \A i \in DOMAIN p.done : i \in DOMAIN done /\ done[i] = p.done[i]
        BY <2>5
      <4>. QED
        BY <2>6, <3>3, <4>1 DEF HasLine
    <3>. QED
      BY <3>1, <3>2, <3>3 DEF HasLine
  <2>13. ParserSound(q, k, doc)
    BY <2>6, <2>9, <2>10, <2>11, <2>12 DEF ParserSound, DoneSound
  <2>14. Len(q.done) \in DOMAIN q.done /\ (q.done[Len(q.done)].kind = "table" => p.open = "table")
    BY <2>3, <2>4, <2>5, <2>6
  <2>. QED
    BY <2>2, <2>6, <2>13, <2>14
<1>. QED
  BY <1>1, <1>2

\* Closing anything but a table leaves no table at the end.
LEMMA FlushEndsNoTable ==
    ASSUME NEW k \in Nat, NEW doc, NEW p, ParserSound(p, k, doc),
           p.open \notin {"none", "table"}
    PROVE  Flush(p).done[Len(Flush(p).done)].kind # "table"
<1>. DEFINE block == [kind |-> p.open, lines |-> p.lines]
<1>1. p.done \in Seq(MarkdownBlock)
  BY DEF ParserSound, MarkdownParsers
<1>2. Flush(p).done = Append(p.done, block)
  BY DEF Flush
<1>3. Append(p.done, block)[Len(Append(p.done, block))] = block
  BY <1>1
<1>. QED
  BY <1>2, <1>3

\* A block is opened, with the next line, when none is open.
LEMMA OpenKeeps ==
    ASSUME NEW k \in Nat, NEW doc \in Seq(LineKinds), k + 1 \in DOMAIN doc,
           NEW p, ParserSound(p, k, doc), p.open = "none",
           NEW kind \in MarkdownKinds, kind # "none", doc[k + 1] # "blank",
           kind = "table" => doc[k + 1] \in TableLines,
           doc[k + 1] \in TableLines => Rested(p, k)
    PROVE  ParserSound([p EXCEPT !.open = kind, !.lines = <<<<k + 1, doc[k + 1]>>>>], k + 1, doc)
<1>. DEFINE line == <<k + 1, doc[k + 1]>>
            q == [p EXCEPT !.open = kind, !.lines = <<line>>]
<1>1. /\ p.done \in Seq(MarkdownBlock) /\ p.lines = << >>
      /\ q.done = p.done /\ q.open = kind /\ q.lines = <<line>>
  BY DEF ParserSound, MarkdownParsers
<1>2. line \in MarkdownLines /\ line[1] = k + 1 /\ line[2] = doc[k + 1]
  <2>1. doc[k + 1] \in LineKinds /\ k + 1 \in Nat
    OBVIOUS
  <2>. QED
    BY <2>1 DEF MarkdownLines
<1>. HIDE DEF line
<1>3. <<line>> \in Seq(MarkdownLines) /\ DOMAIN <<line>> = {1} /\ <<line>>[1] = line
      /\ <<line>> # << >>
  BY <1>2
<1>4. q \in MarkdownParsers
  BY <1>1, <1>3 DEF ParserSound, MarkdownParsers
<1>. HIDE DEF q
<1>5. 1..k \subseteq 1..(k + 1) /\ k + 1 \in 1..(k + 1)
      /\ \A m \in 1..(k + 1) : m = k + 1 \/ m \in 1..k
  OBVIOUS
<1>6. ASSUME NEW x, NEW list, BlockSound(x, list, k, doc)
      PROVE  BlockSound(x, list, k + 1, doc)
  BY <1>5, <1>6 DEF BlockSound
<1>7. DoneSound(q.done, k + 1, doc)
  BY <1>1, <1>6 DEF ParserSound, DoneSound
<1>8. BlockSound(q.open, q.lines, k + 1, doc)
  BY <1>1, <1>2, <1>3, <1>5 DEF BlockSound, IsTableRow
<1>9. ASSUME NEW i \in DOMAIN q.done PROVE LinesBefore(q.done[i].lines, q.lines)
  <2>1. BlockSound(p.done[i].kind, p.done[i].lines, k, doc)
    BY <1>1 DEF ParserSound, DoneSound
  <2>2. \A j \in DOMAIN p.done[i].lines : p.done[i].lines[j][1] < k + 1
    BY <2>1 DEF BlockSound
  <2>. QED
    BY <1>1, <1>2, <1>3, <2>2 DEF LinesBefore
<1>10. ASSUME Len(q.done) \in DOMAIN q.done PROVE TableEnds(q.done[Len(q.done)], q.lines)
  <2>1. q.lines[1] = line
    BY <1>1, <1>3
  <2>2. CASE doc[k + 1] \notin TableLines
    BY <1>2, <2>1, <2>2 DEF TableEnds, IsTableRow
  <2>3. CASE doc[k + 1] \in TableLines
    <3>. DEFINE last == p.done[Len(p.done)]
                x == last.lines[Len(last.lines)][1]
    <3>1. last.kind = "table" => x < k
      BY <1>1, <1>10, <2>3 DEF Rested
    <3>2. x \in Nat
      <4>1. BlockSound(last.kind, last.lines, k, doc) /\ last \in MarkdownBlock
        BY <1>1, <1>10 DEF ParserSound, DoneSound
      <4>2. last.lines \in Seq(MarkdownLines) /\ last.lines # << >>
        BY <4>1 DEF MarkdownBlock, BlockSound
      <4>3. Len(last.lines) \in DOMAIN last.lines
        BY <4>2
      <4>. QED
        BY <4>1, <4>3 DEF BlockSound
    <3>. HIDE DEF x
    <3>3. last.kind = "table" => k + 1 > x + 1
      BY <3>1, <3>2
    <3>. QED
      BY <1>1, <1>2, <2>1, <3>3 DEF TableEnds, x
  <2>. QED
    BY <2>2, <2>3
<1>11. ASSUME NEW m \in 1..(k + 1), doc[m] # "blank" PROVE HasLine(q, m)
  <2>1. CASE m = k + 1
    BY <1>1, <1>2, <1>3, <2>1 DEF HasLine
  <2>2. CASE m \in 1..k
    <3>1. HasLine(p, m)
      BY <1>11, <2>2 DEF ParserSound
    <3>. QED
      BY <1>1, <3>1 DEF HasLine
  <2>. QED
    BY <1>5, <2>1, <2>2
<1>12. q.open # "none" /\ q.lines # << >>
  BY <1>1, <1>3
<1>13. ParserSound(q, k + 1, doc)
  BY <1>4, <1>7, <1>8, <1>9, <1>10, <1>11, <1>12 DEF ParserSound, OpenSound
<1>. QED
  BY <1>13 DEF q, line

\* Reading one line.
LEMMA LineKeeps ==
    ASSUME NEW k \in Nat, NEW doc \in Seq(LineKinds), k + 1 \in DOMAIN doc,
           NEW p, Reading(p, k, doc)
    PROVE  Reading(ReadLine(p, <<k + 1, doc[k + 1]>>), k + 1, doc)
<1>. DEFINE kind == doc[k + 1]
            line == <<k + 1, kind>>
            q == ReadLine(p, line)
            taken == [p EXCEPT !.lines = Append(@, line)]
            none == Flush(p)
            Starts(x) == [none EXCEPT !.open = x, !.lines = <<line>>]
<1>. SUFFICES Reading(q, k + 1, doc)
  OBVIOUS
<1>1. line[2] = kind /\ k + 1 \in Nat
  OBVIOUS
<1>2. /\ ParserSound(none, k, doc) /\ none.open = "none" /\ none \in MarkdownParsers
      /\ p.open # "none" /\ none.done[Len(none.done)].kind = "table" => p.open = "table"
      /\ p.open = "none" => none = p
  BY FlushKeeps DEF Reading, ParserSound, Flush
<1>3. "none" \notin DOMAIN Closing /\ "table" \notin DOMAIN Closing /\ "paragraph" \notin DOMAIN Closing
      /\ DOMAIN Closing = {"fence", "audio", "maths"}
  BY DEF Closing
<1>4. ASSUME p.open # "none", kind = "blank" => p.open \in DOMAIN Closing,
             p.open = "table" => kind \in TableLines
      PROVE  Reading(taken, k + 1, doc) /\ taken.open = p.open
  <2>1. ParserSound(taken, k + 1, doc)
    BY <1>4, TakeHolds DEF Reading
  <2>2. taken.open = p.open
    BY DEF Reading, ParserSound, MarkdownParsers
  <2>. HIDE DEF taken
  <2>. QED
    BY <1>4, <2>1, <2>2 DEF Reading, Rested
<1>5. ASSUME p.open \in DOMAIN Closing PROVE Reading(Flush(taken), k + 1, doc)
  <2>1. ParserSound(taken, k + 1, doc) /\ taken.open = p.open
    BY <1>3, <1>4, <1>5 DEF Reading
  <2>. HIDE DEF taken
  <2>2. ParserSound(Flush(taken), k + 1, doc)
    BY <1>1, <2>1, FlushKeeps
  <2>3. Flush(taken).done[Len(Flush(taken).done)].kind # "table"
    <3>1. taken.open \notin {"none", "table"}
      BY <1>3, <1>5, <2>1
    <3>. QED
      BY <1>1, <2>1, <3>1, FlushEndsNoTable
  <2>. QED
    BY <2>2, <2>3 DEF Reading, Rested
<1>6. ASSUME NEW x \in MarkdownKinds, x # "none", kind # "blank",
             x = "table" => kind \in TableLines,
             kind \in TableLines => p.open # "table"
      PROVE  Reading(Starts(x), k + 1, doc) /\ Starts(x).open = x
  <2>1. Starts(x).open = x
    BY <1>2 DEF MarkdownParsers
  <2>2. kind \in TableLines => Rested(none, k)
    <3>1. CASE p.open = "none"
      BY <1>2, <3>1 DEF Reading
    <3>2. CASE p.open # "none"
      BY <1>2, <1>6, <3>2 DEF Rested
    <3>. QED
      BY <3>1, <3>2
  <2>. HIDE DEF none
  <2>3. ParserSound(Starts(x), k + 1, doc)
    BY <1>2, <1>6, <2>2, OpenKeeps
  <2>. HIDE DEF Starts
  <2>. QED
    BY <1>6, <2>1, <2>3 DEF Reading, Rested
<1>7. ASSUME kind = "blank" PROVE Reading(none, k + 1, doc)
  <2>1. ParserSound(none, k + 1, doc)
    BY <1>2, <1>7, SkipKeeps
  <2>2. ASSUME Len(none.done) \in DOMAIN none.done
        PROVE  none.done[Len(none.done)].lines[Len(none.done[Len(none.done)].lines)][1] < k + 1
    <3>. DEFINE last == none.done[Len(none.done)]
    <3>1. BlockSound(last.kind, last.lines, k, doc) /\ last \in MarkdownBlock
      BY <1>2, <2>2 DEF ParserSound, DoneSound, MarkdownParsers
    <3>. HIDE DEF last
    <3>2. last.lines \in Seq(MarkdownLines) /\ last.lines # << >>
      BY <3>1 DEF MarkdownBlock, BlockSound
    <3>3. Len(last.lines) \in DOMAIN last.lines
      BY <3>2
    <3>4. last.lines[Len(last.lines)][1] < k + 1
      BY <3>1, <3>3 DEF BlockSound
    <3>. QED
      BY <3>4 DEF last
  <2>. HIDE DEF none
  <2>. QED
    BY <2>1, <2>2 DEF Reading, Rested
<1>8. CASE p.open \in DOMAIN Closing
  <2>1. q = IF Closes(p.open, kind) THEN Flush(taken) ELSE taken
    BY <1>1, <1>8 DEF ReadLine
  <2>. HIDE DEF q, taken
  <2>. QED
    BY <1>3, <1>4, <1>5, <1>8, <2>1
<1>9. CASE p.open \notin DOMAIN Closing /\ Continues(p.open, kind)
  <2>1. q = taken
    BY <1>1, <1>9 DEF ReadLine
  <2>2. p.open # "none" /\ kind # "blank" /\ (p.open = "table" => kind \in TableLines)
    BY <1>9 DEF Continues, Runs, RunOf, TableLines
  <2>. HIDE DEF q, taken
  <2>. QED
    BY <1>4, <2>1, <2>2
<1>10. CASE p.open \notin DOMAIN Closing /\ ~Continues(p.open, kind)
  <2>1. q = CASE kind \in DOMAIN Closing -> Open(p, kind, line)
              [] kind \in Runs -> Open(p, RunOf(kind), line)
              [] kind \in {"heading", "maths1"} -> Single(p, kind, line)
              [] kind = "blank" -> none
              [] OTHER -> IF p.open = "paragraph" THEN taken ELSE Open(p, "paragraph", line)
    BY <1>1, <1>10 DEF ReadLine
  <2>2. \A x : Open(p, x, line) = Starts(x)
    BY DEF Open
  <2>3. ASSUME kind \in TableLines PROVE p.open # "table"
    BY <1>10, <2>3 DEF Continues, Runs, RunOf, TableLines
  <2>. HIDE DEF q, taken, none, Starts
  <2>4. CASE kind \in DOMAIN Closing
    <3>0. kind \notin Runs /\ kind \notin {"heading", "maths1"} /\ kind # "blank"
      BY <1>3, <2>4 DEF Runs, TableLines
    <3>1. q = Starts(kind)
      BY <2>1, <2>2, <2>4, <3>0
    <3>2. kind \in MarkdownKinds /\ kind # "none" /\ kind # "table" /\ kind # "blank"
      BY <1>3, <2>4 DEF MarkdownKinds
    <3>. QED
      BY <1>6, <2>3, <3>1, <3>2
  <2>5. CASE kind \in Runs
    <3>1. kind \notin DOMAIN Closing /\ kind \notin {"heading", "maths1"} /\ kind # "blank"
      BY <1>3, <2>5 DEF Runs, TableLines
    <3>2. q = Starts(RunOf(kind))
      BY <2>1, <2>2, <2>5, <3>1
    <3>3. RunOf(kind) \in MarkdownKinds /\ RunOf(kind) # "none"
          /\ (RunOf(kind) = "table" => kind \in TableLines)
      BY <2>5 DEF MarkdownKinds, Runs, RunOf, TableLines
    <3>. QED
      BY <1>6, <2>3, <3>1, <3>2, <3>3
  <2>6. CASE kind \in {"heading", "maths1"}
    <3>1. kind \notin DOMAIN Closing /\ kind # "blank" /\ kind \notin Runs
          /\ kind \in MarkdownKinds /\ kind # "none" /\ kind # "table"
      BY <1>3, <2>6 DEF Runs, TableLines, MarkdownKinds
    <3>2. q = Flush(Starts(kind))
      BY <2>1, <2>2, <2>6, <3>1 DEF Single
    <3>3. ParserSound(Starts(kind), k + 1, doc) /\ Starts(kind).open = kind
      BY <1>6, <2>3, <3>1 DEF Reading
    <3>4. ParserSound(Flush(Starts(kind)), k + 1, doc)
      BY <1>1, <3>3, FlushKeeps
    <3>5. Flush(Starts(kind)).done[Len(Flush(Starts(kind)).done)].kind # "table"
      <4>. DEFINE o == Starts(kind)
      <4>1. o.open # "none" /\ o.open # "table" /\ ParserSound(o, k + 1, doc)
        BY <3>1, <3>3
      <4>. HIDE DEF o
      <4>2. k + 1 \in Nat
        BY <1>1
      <4>3. Flush(o).done[Len(Flush(o).done)].kind # "table"
        BY <4>1, <4>2, FlushEndsNoTable
      <4>. QED
        BY <4>3 DEF o
    <3>. QED
      BY <3>2, <3>4, <3>5 DEF Reading, Rested
  <2>7. CASE kind = "blank"
    <3>1. kind \notin DOMAIN Closing /\ kind \notin {"heading", "maths1"} /\ kind \notin Runs
      BY <1>3, <2>7 DEF Runs, TableLines
    <3>. QED
      BY <1>7, <2>1, <2>7, <3>1
  <2>8. CASE ~(kind \in DOMAIN Closing) /\ ~(kind \in Runs) /\ ~(kind \in {"heading", "maths1"})
             /\ ~(kind = "blank")
    <3>1. q = IF p.open = "paragraph" THEN taken ELSE Starts("paragraph")
      BY <2>1, <2>2, <2>8
    <3>2. kind \notin TableLines /\ "paragraph" \in MarkdownKinds
      BY <2>8 DEF Runs, MarkdownKinds
    <3>3. CASE p.open = "paragraph"
      BY <1>4, <2>8, <3>1, <3>3
    <3>4. CASE p.open # "paragraph"
      BY <1>6, <2>8, <3>1, <3>2, <3>4
    <3>. QED
      BY <3>3, <3>4
  <2>. QED
    BY <2>4, <2>5, <2>6, <2>7, <2>8
<1>. QED
  BY <1>8, <1>9, <1>10

\* All lines of a document are read.
LEMMA DocumentRead ==
    ASSUME NEW doc \in Seq(LineKinds)
    PROVE  /\ Reading(FoldLeft(ReadLine, Begin, Numbered(doc)), Len(doc), doc)
           /\ Numbered(doc) \in Seq(MarkdownLines) /\ Len(Numbered(doc)) = Len(doc)
<1>. DEFINE lines == Numbered(doc)
<1>1. lines \in Seq(MarkdownLines) /\ Len(lines) = Len(doc)
      /\ \A i \in DOMAIN doc : lines[i] = <<i, doc[i]>>
  <2>1. DOMAIN doc = 1..Len(doc) /\ Len(doc) \in Nat /\ \A i \in DOMAIN doc : doc[i] \in LineKinds
    OBVIOUS
  <2>2. \A i \in DOMAIN doc : <<i, doc[i]>> \in MarkdownLines
    BY <2>1 DEF MarkdownLines
  <2>. QED
    BY <2>1, <2>2 DEF Numbered
<1>2. Reading(Begin, 0, doc)
  <2>1. Begin \in MarkdownParsers /\ Begin.done = << >> /\ Begin.open = "none" /\ Begin.lines = << >>
    <3>1. << >> \in Seq(MarkdownBlock) /\ << >> \in Seq(MarkdownLines) /\ "none" \in MarkdownKinds
      BY DEF MarkdownKinds
    <3>. QED
      BY <3>1 DEF Begin, MarkdownParsers
  <2>. QED
    BY <2>1 DEF Reading, ParserSound, Rested, DoneSound
<1>. HIDE DEF lines
<1>3. \A k \in 0..(Len(lines)-1) : \A p :
         Reading(p, k, doc) => Reading(ReadStep(p, lines[k+1], 0), k+1, doc)
  <2>. SUFFICES ASSUME NEW k \in 0..(Len(lines)-1), NEW p, Reading(p, k, doc)
                PROVE  Reading(ReadStep(p, lines[k+1], 0), k+1, doc)
    OBVIOUS
  <2>1. k \in Nat /\ k + 1 \in DOMAIN doc /\ lines[k + 1] = <<k + 1, doc[k + 1]>>
    BY <1>1
  <2>. QED
    BY <2>1, LineKeeps DEF ReadStep
<1>4. Reading(Reads!Fold(Begin, lines, 0), Len(lines), doc)
  BY <1>1, <1>2, <1>3, Reads!FoldHolds
<1>. QED
  BY <1>1, <1>4, LinesFold DEF lines

-----------------------------------------------------------------------------
(* A blank line separates *)

\* One line more in the document is one line more to read.
LEMMA OneMoreLine ==
    ASSUME NEW doc \in Seq(LineKinds \cup {"blank"}), NEW kind \in LineKinds \cup {"blank"}
    PROVE  FoldLeft(ReadLine, Begin, Numbered(Append(doc, kind)))
              = ReadLine(FoldLeft(ReadLine, Begin, Numbered(doc)), <<Len(doc) + 1, kind>>)
<1>. DEFINE L == Nat \X (LineKinds \cup {"blank"})
            line == <<Len(doc) + 1, kind>>
            n == Len(doc)
            more == Append(doc, kind)
<1>1. n \in Nat /\ DOMAIN doc = 1..n /\ \A i \in 1..n : doc[i] \in LineKinds \cup {"blank"}
  OBVIOUS
<1>2. more \in Seq(LineKinds \cup {"blank"}) /\ DOMAIN more = 1..(n + 1)
      /\ (\A i \in 1..n : more[i] = doc[i]) /\ more[n + 1] = kind
  OBVIOUS
<1>3. line \in L /\ Numbered(doc) \in Seq(L) /\ Len(Numbered(doc)) = n
  BY <1>1 DEF Numbered
<1>4. Numbered(more) = Append(Numbered(doc), line)
  <2>1. Numbered(more) = [i \in 1..(n + 1) |-> <<i, more[i]>>]
    BY <1>2 DEF Numbered
  <2>2. Append(Numbered(doc), line) = [i \in 1..(n + 1) |-> IF i = n + 1 THEN line ELSE <<i, doc[i]>>]
    BY <1>1, <1>3 DEF Numbered
  <2>3. \A i \in 1..(n + 1) : <<i, more[i]>> = IF i = n + 1 THEN line ELSE <<i, doc[i]>>
    <3>. SUFFICES ASSUME NEW i \in 1..(n + 1)
                  PROVE  <<i, more[i]>> = IF i = n + 1 THEN line ELSE <<i, doc[i]>>
      OBVIOUS
    <3>1. i = n + 1 \/ i \in 1..n
      BY <1>1
    <3>. QED
      BY <1>2, <3>1
  <2>. QED
    BY <2>1, <2>2, <2>3
<1>. HIDE DEF line, L, more
<1>5. Reads!Fold(Begin, Append(Numbered(doc), line), 0)
         = ReadStep(Reads!Fold(Begin, Numbered(doc), 0), line, 0)
  BY <1>3, Reads!FoldAppend
<1>. QED
  BY <1>4, <1>5, LinesFold DEF ReadStep, line, more

\* The block a line makes by itself.
AloneKind(kind) ==
    IF kind \in TableLines THEN "paragraph"
    ELSE IF kind \in Runs THEN RunOf(kind)
    ELSE IF kind \in DOMAIN Closing \cup {"heading", "maths1"} THEN kind ELSE "paragraph"

BlocksOfLine(line) ==
    IF line[2] = "blank" THEN << >>
    ELSE <<[kind |-> AloneKind(line[2]), lines |-> <<line>>]>>

\* It is no table, which takes two lines.
LEMMA AloneKinds ==
    ASSUME NEW kind PROVE AloneKind(kind) \in MarkdownKinds /\ AloneKind(kind) # "table"
<1>1. CASE kind \in TableLines
  BY <1>1 DEF AloneKind, MarkdownKinds
<1>2. CASE kind \notin TableLines /\ kind \in Runs
  BY <1>2 DEF AloneKind, MarkdownKinds, Runs, RunOf
<1>3. CASE kind \notin TableLines /\ kind \notin Runs
  BY <1>3 DEF AloneKind, MarkdownKinds, Closing
<1>. QED
  BY <1>1, <1>2, <1>3

\* A line that is read when no block is open, and none comes after it.
LEMMA LineAlone ==
    ASSUME NEW done \in Seq(MarkdownBlock), NEW n, NEW kind
    PROVE  Flush(ReadLine([done |-> done, open |-> "none", lines |-> << >>], <<n, kind>>)).done
              = done \o BlocksOfLine(<<n, kind>>)
<1>. DEFINE line == <<n, kind>>
            p == [done |-> done, open |-> "none", lines |-> << >>]
            q == ReadLine(p, line)
            o(x) == [done |-> done, open |-> x, lines |-> <<line>>]
<1>1. line[2] = kind
  OBVIOUS
<1>2. "none" \notin DOMAIN Closing /\ ~Continues("none", kind)
      /\ DOMAIN Closing = {"fence", "audio", "maths"}
  BY DEF Closing, Continues, Runs, RunOf, TableLines
<1>3. \A x : Open(p, x, line) = o(x)
  <2>1. Flush(p) = p
    BY DEF Flush
  <2>. SUFFICES ASSUME NEW x PROVE [p EXCEPT !.open = x, !.lines = <<line>>] = o(x)
    BY <2>1 DEF Open
  <2>2. p \in [done : {done}, open : {"none"}, lines : {<< >>}]
    OBVIOUS
  <2>. HIDE DEF line, p
  <2>. DEFINE r == [p EXCEPT !.open = x]
  <2>3. r \in [done : {done}, open : {x}, lines : {<< >>}]
    BY <2>2
  <2>. HIDE DEF r
  <2>4. [r EXCEPT !.lines = <<line>>] = [done |-> done, open |-> x, lines |-> <<line>>]
    BY <2>3
  <2>. QED
    BY <2>4 DEF r
<1>4. ASSUME NEW x, x # "none", x # "table"
      PROVE  Flush(o(x)).done = Append(done, [kind |-> x, lines |-> <<line>>])
  BY <1>4 DEF Flush
<1>5. Flush(o("table")).done = Append(done, [kind |-> "paragraph", lines |-> <<line>>])
  <2>1. Len(<<line>>) < 2
    OBVIOUS
  <2>. QED
    BY <2>1 DEF Flush, TableBlock
<1>6. \A b : Append(done, b) = done \o <<b>>
  OBVIOUS
<1>7. q = CASE kind \in DOMAIN Closing -> o(kind)
            [] kind \in Runs -> o(RunOf(kind))
            [] kind \in {"heading", "maths1"} -> Flush(o(kind))
            [] kind = "blank" -> p
            [] OTHER -> o("paragraph")
  <2>1. p.open = "none" /\ Flush(p) = p
    BY DEF Flush
  <2>. HIDE DEF p, o, line
  <2>. QED
    BY <1>1, <1>2, <1>3, <2>1 DEF ReadLine, Single
<1>. DEFINE B == BlocksOfLine(line)
<1>. SUFFICES Flush(q).done = done \o B
  OBVIOUS
<1>. HIDE DEF o, q
<1>8. CASE kind \in DOMAIN Closing
  <2>1. kind \notin Runs /\ kind \notin {"heading", "maths1", "blank", "none", "table"}
        /\ kind \notin TableLines
    BY <1>2, <1>8 DEF Runs, TableLines
  <2>2. q = o(kind)
    BY <1>7, <1>8, <2>1
  <2>3. B = <<[kind |-> kind, lines |-> <<line>>]>>
    BY <1>1, <1>8, <2>1 DEF BlocksOfLine, AloneKind
  <2>. HIDE DEF B, line
  <2>. QED
    BY <1>4, <1>6, <2>1, <2>2, <2>3
<1>9. CASE kind \in Runs /\ kind \notin TableLines
  <2>1. kind \notin DOMAIN Closing /\ kind \notin {"heading", "maths1", "blank", "none", "table"}
        /\ RunOf(kind) \notin {"none", "table"}
    BY <1>2, <1>9 DEF Runs, RunOf
  <2>2. q = o(RunOf(kind))
    BY <1>7, <1>9, <2>1
  <2>3. B = <<[kind |-> RunOf(kind), lines |-> <<line>>]>>
    BY <1>1, <1>9, <2>1 DEF BlocksOfLine, AloneKind
  <2>. HIDE DEF B, line
  <2>. QED
    BY <1>4, <1>6, <2>1, <2>2, <2>3
<1>10. CASE kind \in TableLines
  <2>1. kind \notin DOMAIN Closing /\ kind \in Runs /\ kind \notin {"heading", "maths1", "blank"}
        /\ RunOf(kind) = "table"
    BY <1>2, <1>10 DEF Runs, RunOf, TableLines
  <2>2. q = o("table")
    BY <1>7, <2>1
  <2>3. B = <<[kind |-> "paragraph", lines |-> <<line>>]>>
    BY <1>1, <1>10, <2>1 DEF BlocksOfLine, AloneKind
  <2>. HIDE DEF B, line
  <2>. QED
    BY <1>5, <1>6, <2>2, <2>3
<1>11. CASE kind \in {"heading", "maths1"}
  <2>1. kind \notin DOMAIN Closing /\ kind \notin Runs
        /\ kind \notin {"blank", "none", "table"} /\ kind \notin TableLines
    BY <1>2, <1>11 DEF Runs, TableLines
  <2>2. q = Flush(o(kind))
    BY <1>7, <1>11, <2>1
  <2>3. Flush(Flush(o(kind))) = Flush(o(kind))
    BY DEF Flush, o
  <2>4. B = <<[kind |-> kind, lines |-> <<line>>]>>
    BY <1>1, <1>11, <2>1 DEF BlocksOfLine, AloneKind
  <2>. HIDE DEF B, line
  <2>. QED
    BY <1>4, <1>6, <2>1, <2>2, <2>3, <2>4
<1>12. CASE kind = "blank"
  <2>1. kind \notin DOMAIN Closing /\ kind \notin Runs /\ kind \notin {"heading", "maths1"}
    BY <1>2, <1>12 DEF Runs, TableLines
  <2>2. q = p
    BY <1>7, <1>12, <2>1
  <2>3. Flush(p).done = done
    BY DEF Flush
  <2>4. B = << >>
    BY <1>1, <1>12 DEF BlocksOfLine
  <2>. QED
    BY <2>2, <2>3, <2>4, done \o << >> = done
<1>13. CASE kind \notin DOMAIN Closing \cup Runs \cup {"heading", "maths1", "blank"}
             /\ kind \notin TableLines
  <2>1. q = o("paragraph")
    BY <1>7, <1>13
  <2>2. B = <<[kind |-> "paragraph", lines |-> <<line>>]>>
    BY <1>1, <1>13 DEF BlocksOfLine, AloneKind
  <2>. HIDE DEF B, line
  <2>. QED
    BY <1>4, <1>6, <2>1, <2>2
<1>. QED
  BY <1>8, <1>9, <1>10, <1>11, <1>12, <1>13 DEF Runs

\* The document <<kind>>, and the one that ends with a blank line and kind.
LEMMA SeparatedRead ==
    ASSUME NEW doc \in Seq(LineKinds), NEW kind \in LineKinds, ~Unclosed(doc)
    PROVE  /\ ParseLines(doc) \in Seq(MarkdownBlock)
           /\ ParseLines(doc \o <<"blank", kind>>)
                 = ParseLines(doc) \o BlocksOfLine(<<Len(doc) + 2, kind>>)
           /\ ParseLines(<<kind>>) = BlocksOfLine(<<1, kind>>)
<1>. DEFINE n == Len(doc)
            K == LineKinds \cup {"blank"}
            p == FoldLeft(ReadLine, Begin, Numbered(doc))
            D == Flush(p).done
            blank == Append(doc, "blank")
<1>1. ParserSound(p, n, doc) /\ n \in Nat
  BY DocumentRead DEF Reading
<1>2. p.open \notin DOMAIN Closing
  BY DEF Unclosed
<1>. HIDE DEF p
<1>3. ReadLine(p, <<n + 1, "blank">>) = Flush(p)
  <2>1. ~Continues(p.open, "blank")
    BY DEF Continues, Runs, TableLines
  <2>2. "blank" \notin DOMAIN Closing /\ "blank" \notin Runs /\ "blank" \notin {"heading", "maths1"}
        /\ <<n + 1, "blank">>[2] = "blank"
    BY DEF Closing, Runs, TableLines
  <2>. HIDE DEF n
  <2>. QED
    BY <1>2, <2>1, <2>2 DEF ReadLine
<1>4. D \in Seq(MarkdownBlock) /\ Flush(p) = [done |-> D, open |-> "none", lines |-> << >>]
  <2>1. ParserSound(Flush(p), n, doc) /\ Flush(p).open = "none"
    BY <1>1, FlushKeeps
  <2>. QED
    BY <2>1 DEF ParserSound, MarkdownParsers
<1>5. doc \in Seq(K) /\ kind \in K /\ "blank" \in K /\ blank \in Seq(K) /\ Len(blank) = n + 1
      /\ << >> \in Seq(K)
  OBVIOUS
<1>6. doc \o <<"blank", kind>> = Append(blank, kind)
  BY <1>5
<1>7. FoldLeft(ReadLine, Begin, Numbered(blank)) = Flush(p)
  BY <1>3, <1>5, OneMoreLine DEF p
<1>. HIDE DEF blank, D
<1>8. FoldLeft(ReadLine, Begin, Numbered(Append(blank, kind))) = ReadLine(Flush(p), <<n + 2, kind>>)
  <2>1. Len(blank) + 1 = n + 2
    BY <1>1, <1>5
  <2>. QED
    BY <1>5, <1>7, <2>1, OneMoreLine
<1>9. ParseLines(doc \o <<"blank", kind>>) = D \o BlocksOfLine(<<n + 2, kind>>)
  BY <1>4, <1>6, <1>8, LineAlone DEF ParseLines
<1>10. ParseLines(<<kind>>) = BlocksOfLine(<<1, kind>>)
  <2>1. FoldLeft(ReadLine, Begin, Numbered(<< >>)) = Begin
    <3>1. Numbered(<< >>) = << >>
      BY DEF Numbered
    <3>2. << >> \in Seq(MarkdownLines) /\ Len(<< >>) = 0
      OBVIOUS
    <3>3. PICK t : Reads!Traces(t, Begin, << >>, 0) /\ t[Len(<< >>)] = Reads!Fold(Begin, << >>, 0)
      BY <3>2, Reads!FoldTrace
    <3>4. Reads!Fold(Begin, << >>, 0) = Begin
      BY <3>2, <3>3 DEF Reads!Traces
    <3>. QED
      BY <3>1, <3>4, LinesFold
  <2>2. <<kind>> = Append(<< >>, kind) /\ Len(<< >>) + 1 = 1
    OBVIOUS
  <2>3. FoldLeft(ReadLine, Begin, Numbered(<<kind>>)) = ReadLine(Begin, <<1, kind>>)
    BY <1>5, <2>1, <2>2, OneMoreLine
  <2>4. << >> \in Seq(MarkdownBlock)
    OBVIOUS
  <2>5. ParseLines(<<kind>>) = << >> \o BlocksOfLine(<<1, kind>>)
    <3>1. ParseLines(<<kind>>) = Flush(ReadLine(Begin, <<1, kind>>)).done
      BY <2>3 DEF ParseLines
    <3>2. Flush(ReadLine(Begin, <<1, kind>>)).done = << >> \o BlocksOfLine(<<1, kind>>)
      <4>. DEFINE nothing == << >>
                  one == 1
      <4>1. Begin = [done |-> nothing, open |-> "none", lines |-> << >>]
        BY DEF Begin
      <4>0. nothing \in Seq(MarkdownBlock)
        OBVIOUS
      <4>. HIDE DEF nothing, one
      <4>2. Flush(ReadLine([done |-> nothing, open |-> "none", lines |-> << >>], <<one, kind>>)).done
               = nothing \o BlocksOfLine(<<one, kind>>)
        BY <4>0, LineAlone
      <4>. QED
        BY <4>1, <4>2 DEF nothing, one
    <3>. QED
      BY <3>1, <3>2
  <2>6. BlocksOfLine(<<1, kind>>) \in Seq({[kind |-> x, lines |-> << <<1, kind>> >>] : x \in MarkdownKinds})
    <3>. DEFINE S == {[kind |-> x, lines |-> << <<1, kind>> >>] : x \in MarkdownKinds}
                b == [kind |-> AloneKind(kind), lines |-> << <<1, kind>> >>]
    <3>1. b \in S
      BY AloneKinds
    <3>2. BlocksOfLine(<<1, kind>>) \in {<< >>, <<b>>}
      BY DEF BlocksOfLine
    <3>. HIDE DEF S, b
    <3>3. << >> \in Seq(S) /\ <<b>> \in Seq(S)
      BY <3>1
    <3>4. BlocksOfLine(<<1, kind>>) \in Seq(S)
      BY <3>2, <3>3
    <3>. QED
      BY <3>4 DEF S
  <2>. QED
    BY <2>5, <2>6
<1>. QED
  BY <1>4, <1>9, <1>10 DEF D, p, ParseLines

\* What stands below a blank line outside any opened block reads as it does on
\* its own.
LEMMA BlankLineSeparates ==
    ASSUME document \in Seq(LineKinds)
    PROVE  BlankSeparates
<1>. SUFFICES ASSUME NEW kind \in LineKinds, ~Unclosed(document)
              PROVE  BlockKinds(document \o <<"blank", kind>>)
                        = BlockKinds(document) \o BlockKinds(<<kind>>)
  BY DEF BlankSeparates
<1>. DEFINE D == ParseLines(document)
            far == BlocksOfLine(<<Len(document) + 2, kind>>)
            near == BlocksOfLine(<<1, kind>>)
            shape(s) == [i \in DOMAIN s |-> <<s[i].kind, Len(s[i].lines), TableRows(s[i])>>]
<1>1. /\ D \in Seq(MarkdownBlock)
      /\ ParseLines(document \o <<"blank", kind>>) = D \o far
      /\ ParseLines(<<kind>>) = near
  BY SeparatedRead
<1>2. BlockKinds(document) = shape(D) /\ BlockKinds(<<kind>>) = shape(near)
      /\ BlockKinds(document \o <<"blank", kind>>) = shape(D \o far)
  BY <1>1 DEF BlockKinds
<1>. HIDE DEF D
<1>3. CASE kind = "blank"
  <2>1. far = << >> /\ near = << >>
    BY <1>3 DEF BlocksOfLine
  <2>2. shape(D) \in Seq({shape(D)[i] : i \in DOMAIN D}) /\ shape(<< >>) = << >> /\ D \o << >> = D
    BY <1>1
  <2>3. shape(D) \o << >> = shape(D)
    BY <2>2
  <2>. QED
    BY <1>2, <2>1, <2>2, <2>3
<1>4. CASE kind # "blank"
  <2>1. PICK x : /\ far = <<[kind |-> x, lines |-> << <<Len(document) + 2, kind>> >>]>>
                 /\ near = <<[kind |-> x, lines |-> << <<1, kind>> >>]>>
                 /\ x # "table"
    BY <1>4, AloneKinds DEF BlocksOfLine
  <2>. HIDE DEF far, near
  <2>2. shape(near) = << <<x, 1, 0>> >>
    <3>1. DOMAIN near = 1..1 /\ near[1].kind = x /\ Len(near[1].lines) = 1
          /\ TableRows(near[1]) = 0
      BY <2>1 DEF TableRows
    <3>2. shape(near) = [i \in 1..1 |-> <<x, 1, 0>>]
      BY <3>1
    <3>3. \A y : [i \in 1..1 |-> y] = <<y>>
      OBVIOUS
    <3>. QED
      BY <3>2, <3>3
  <2>3. DOMAIN (D \o far) = 1..(Len(D) + 1) /\ Len(D) \in Nat /\ DOMAIN D = 1..Len(D)
        /\ (\A i \in 1..Len(D) : (D \o far)[i] = D[i])
        /\ (D \o far)[Len(D) + 1] = [kind |-> x, lines |-> << <<Len(document) + 2, kind>> >>]
    BY <1>1, <2>1
  <2>4. shape(D \o far)
           = [i \in 1..(Len(D) + 1) |-> IF i = Len(D) + 1 THEN <<x, 1, 0>> ELSE <<D[i].kind, Len(D[i].lines), TableRows(D[i])>>]
    <3>1. \A i \in 1..(Len(D) + 1) :
             <<(D \o far)[i].kind, Len((D \o far)[i].lines), TableRows((D \o far)[i])>>
                = IF i = Len(D) + 1 THEN <<x, 1, 0>> ELSE <<D[i].kind, Len(D[i].lines), TableRows(D[i])>>
      <4>. SUFFICES ASSUME NEW i \in 1..(Len(D) + 1)
                    PROVE  <<(D \o far)[i].kind, Len((D \o far)[i].lines), TableRows((D \o far)[i])>>
                              = IF i = Len(D) + 1 THEN <<x, 1, 0>> ELSE <<D[i].kind, Len(D[i].lines), TableRows(D[i])>>
        OBVIOUS
      <4>1. CASE i = Len(D) + 1
        BY <2>1, <2>3, <4>1 DEF TableRows
      <4>2. CASE i # Len(D) + 1
        <5>1. i \in 1..Len(D)
          BY <2>3, <4>2
        <5>. QED
          BY <2>3, <4>2, <5>1
      <4>. QED
        BY <4>1, <4>2
    <3>. QED
      BY <2>3, <3>1
  <2>5. shape(D) \o << <<x, 1, 0>> >>
           = [i \in 1..(Len(D) + 1) |-> IF i = Len(D) + 1 THEN <<x, 1, 0>> ELSE <<D[i].kind, Len(D[i].lines), TableRows(D[i])>>]
    <3>1. shape(D) \in Seq({shape(D)[i] : i \in DOMAIN D}) /\ Len(shape(D)) = Len(D)
      BY <2>3
    <3>2. shape(D) \o << <<x, 1, 0>> >> = Append(shape(D), <<x, 1, 0>>)
      BY <3>1
    <3>3. Append(shape(D), <<x, 1, 0>>)
             = [i \in 1..(Len(D) + 1) |-> IF i = Len(D) + 1 THEN <<x, 1, 0>> ELSE shape(D)[i]]
      BY <2>3, <3>1
    <3>4. \A i \in 1..(Len(D) + 1) : i # Len(D) + 1 => shape(D)[i] = <<D[i].kind, Len(D[i].lines), TableRows(D[i])>>
      BY <2>3
    <3>. QED
      BY <3>2, <3>3, <3>4
  <2>. QED
    BY <1>2, <2>2, <2>4, <2>5
<1>. QED
  BY <1>3, <1>4

-----------------------------------------------------------------------------
\* No line is lost and tables are whole, from what holds of the parser at the end.
LEMMA LinesKept ==
    ASSUME document \in Seq(LineKinds)
    PROVE  NoLineLost /\ TablesWhole
<1>. DEFINE p == FoldLeft(ReadLine, Begin, Numbered(document))
            parsed == ParseLines(document)
            n == Len(document)
<1>1. ParserSound(Flush(p), n, document) /\ Flush(p).open = "none" /\ n \in Nat /\ DOMAIN document = 1..n
  BY DocumentRead, FlushKeeps DEF Reading
<1>2. parsed = Flush(p).done /\ Flush(p).lines = << >>
  BY <1>1 DEF ParseLines, ParserSound
<1>. HIDE DEF p, parsed, n
<1>3. parsed \in Seq(MarkdownBlock) /\ DoneSound(parsed, n, document)
  BY <1>1, <1>2 DEF ParserSound, MarkdownParsers
<1>4. \A m \in DOMAIN document : document[m] # "blank" =>
         \E i \in DOMAIN parsed : \E j \in DOMAIN parsed[i].lines : parsed[i].lines[j][1] = m
  BY <1>1, <1>2 DEF ParserSound, HasLine
<1>5. \A i \in DOMAIN parsed : BlockSound(parsed[i].kind, parsed[i].lines, n, document)
  BY <1>3 DEF DoneSound
<1>6. OfDocument(parsed)
  BY <1>1, <1>5 DEF OfDocument, BlockSound
<1>7. \A i, k \in DOMAIN parsed :
         \A j \in DOMAIN parsed[i].lines, l \in DOMAIN parsed[k].lines :
            i < k \/ (i = k /\ j < l) => parsed[i].lines[j][1] < parsed[k].lines[l][1]
  BY <1>3, <1>5 DEF DoneSound, LinesBefore, BlockSound
<1>8. \A i \in DOMAIN parsed : \A j \in DOMAIN parsed[i].lines :
         parsed[i].lines[j][2] = "blank" => parsed[i].kind \in DOMAIN Closing
  BY <1>5 DEF BlockSound
<1>9. NoLineLost
  BY <1>4, <1>6, <1>7, <1>8 DEF NoLineLost, parsed
<1>10. ASSUME NEW i \in DOMAIN parsed, parsed[i].kind = "table"
       PROVE  /\ \A j \in DOMAIN parsed[i].lines : IsTableRow(parsed[i].lines[j])
              /\ i < Len(parsed) /\ IsTableRow(parsed[i + 1].lines[1]) =>
                    parsed[i + 1].lines[1][1] > parsed[i].lines[Len(parsed[i].lines)][1] + 1
  <2>1. \A j \in DOMAIN parsed[i].lines : IsTableRow(parsed[i].lines[j])
    BY <1>5, <1>10 DEF BlockSound
  <2>2. i < Len(parsed) => i + 1 \in DOMAIN parsed
    BY <1>3
  <2>. QED
    BY <1>3, <1>10, <2>1, <2>2 DEF DoneSound, TableEnds
<1>11. TablesWhole
  BY <1>10 DEF TablesWhole, IsTableRow, parsed
<1>. QED
  BY <1>9, <1>11

\* A document of any length, of any kinds of lines.
THEOREM MarkdownStaysFaithful == MarkdownSpec => []MarkdownFaithful
<1>1. MarkdownInit => document \in Seq(LineKinds)
  BY DEF MarkdownInit
<1>2. document \in Seq(LineKinds) /\ [MarkdownNext]_document => (document \in Seq(LineKinds))'
  BY DEF MarkdownNext
<1>3. document \in Seq(LineKinds) => MarkdownFaithful
  BY LinesKept, BlankLineSeparates DEF MarkdownFaithful
<1>. QED
  BY <1>1, <1>2, <1>3, PTL DEF MarkdownSpec

-----------------------------------------------------------------------------
(* The searches of the graph *)

\* The graph is finite, every edge joins two of its nodes, and none weighs less
\* than nothing.
GraphFinite ==
    /\ IsFiniteSet(nodes) /\ IsFiniteSet(edges)
    /\ \A e \in edges : e.source \in nodes /\ e.target \in nodes /\ e.weight \in Nat

\* The values of a function on a finite set are finitely many.
LEMMA FiniteValues ==
    ASSUME NEW D, IsFiniteSet(D), NEW f, DOMAIN f = D
    PROVE  IsFiniteSet({f[x] : x \in D})
<1>. DEFINE T == {f[x] : x \in D}
            g == [x \in D |-> f[x]]
<1>1. g \in Surjection(D, T)
  BY DEF Surjection
<1>. HIDE DEF g, T
<1>2. IsFiniteSet(T)
  BY <1>1, FS_Surjection
<1>. QED
  BY <1>2 DEF T

\* The rows a build writes are as many as what it is called with.
LEMMA BuildsFinite ==
    ASSUME NEW b \in Builds
    PROVE  IsFiniteSet(BuiltNodes(b)) /\ IsFiniteSet(BuiltEdges(b))
<1>. DEFINE tagged == {x \in b.carried : x[1] \in b.notes}
            known == {x \in b.tags : x[2] \in CarriedTags(b)}
<1>1. /\ IsFiniteSet(b.notes) /\ IsFiniteSet(b.carried) /\ IsFiniteSet(b.folders)
      /\ IsFiniteSet(b.tags) /\ IsFiniteSet(b.refs)
  BY GraphAssumption
<1>2. IsFiniteSet(tagged) /\ IsFiniteSet(known)
  BY <1>1, FS_Subset
<1>. HIDE DEF tagged, known
<1>3. IsFiniteSet({r[2] : r \in b.folders}) /\ IsFiniteSet({r[2] : r \in tagged})
  <2>1. ASSUME NEW D, IsFiniteSet(D) PROVE IsFiniteSet({r[2] : r \in D})
    <3>. DEFINE second == [r \in D |-> r[2]]
    <3>1. IsFiniteSet({second[r] : r \in D})
      <4>. HIDE DEF second
      <4>1. DOMAIN second = D
        BY DEF second
      <4>. QED
        BY <2>1, <4>1, FiniteValues
    <3>2. {second[r] : r \in D} = {r[2] : r \in D}
      OBVIOUS
    <3>. QED
      BY <3>1, <3>2
  <2>. QED
    BY <1>1, <1>2, <2>1
<1>4. /\ IsFiniteSet({Edge(r, r[1], r[2], "Parent", 1) : r \in b.folders})
      /\ IsFiniteSet({Edge(r, r[1], r[2], "Tag", 1) : r \in known})
      /\ IsFiniteSet({Edge(r, r[1], r[2], "Reference", 1) : r \in b.refs})
  <2>1. ASSUME NEW D, IsFiniteSet(D), NEW kind
        PROVE  IsFiniteSet({Edge(r, r[1], r[2], kind, 1) : r \in D})
    <3>. DEFINE row == [r \in D |-> Edge(r, r[1], r[2], kind, 1)]
    <3>1. IsFiniteSet({row[r] : r \in D})
      <4>. HIDE DEF row
      <4>1. DOMAIN row = D
        BY DEF row
      <4>. QED
        BY <2>1, <4>1, FiniteValues
    <3>2. {row[r] : r \in D} = {Edge(r, r[1], r[2], kind, 1) : r \in D}
      OBVIOUS
    <3>. QED
      BY <3>1, <3>2
  <2>. QED
    BY <1>1, <1>2, <2>1
<1>5. IsFiniteSet(b.notes \cup {r[2] : r \in b.folders} \cup {r[2] : r \in tagged})
  BY <1>1, <1>3, FS_Union
<1>6. IsFiniteSet({Edge(r, r[1], r[2], "Parent", 1) : r \in b.folders}
        \cup {Edge(r, r[1], r[2], "Tag", 1) : r \in known}
        \cup {Edge(r, r[1], r[2], "Reference", 1) : r \in b.refs})
  BY <1>4, FS_Union
<1>7. BuiltNodes(b) = b.notes \cup {r[2] : r \in b.folders} \cup {r[2] : r \in tagged}
  BY DEF BuiltNodes, CarriedTags, tagged
<1>8. BuiltEdges(b) = {Edge(r, r[1], r[2], "Parent", 1) : r \in b.folders}
        \cup {Edge(r, r[1], r[2], "Tag", 1) : r \in known}
        \cup {Edge(r, r[1], r[2], "Reference", 1) : r \in b.refs}
  BY DEF BuiltEdges, known
<1>. QED
  BY <1>5, <1>6, <1>7, <1>8

\* No step makes the graph infinite or leaves an edge without its node.
LEMMA GraphStaysFinite == GraphFinite /\ [GraphNext]_graphVars => GraphFinite'
<1>. SUFFICES ASSUME GraphFinite, [GraphNext]_graphVars PROVE GraphFinite'
  OBVIOUS
<1>1. ASSUME UNCHANGED <<nodes, edges>> PROVE GraphFinite'
  BY <1>1 DEF GraphFinite
<1>2. ASSUME NEW t, AddNode(t) PROVE GraphFinite'
  <2>1. PICK n \in Nodes : nodes' = nodes \cup {n} /\ edges' = edges \ Touching(n)
    BY <1>2 DEF AddNode
  <2>2. IsFiniteSet(nodes') /\ IsFiniteSet(edges')
    BY <2>1, FS_AddElement, FS_Difference DEF GraphFinite
  <2>. QED
    BY <2>1, <2>2 DEF GraphFinite
<1>3. ASSUME NEW t, RemoveNode(t) PROVE GraphFinite'
  <2>1. PICK n \in nodes : nodes' = nodes \ {n} /\ edges' = edges \ Touching(n)
    BY <1>3 DEF RemoveNode
  <2>2. IsFiniteSet(nodes') /\ IsFiniteSet(edges')
    BY <2>1, FS_RemoveElement, FS_Difference DEF GraphFinite
  <2>. QED
    BY <2>1, <2>2 DEF GraphFinite, Touching
<1>4. ASSUME NEW t, AddEdge(t) PROVE GraphFinite'
  <2>1. PICK source \in nodes, target \in nodes, weight \in Weights :
          /\ edges' = edges \cup {Edge(<<>>, source, target, "Reference", weight)}
          /\ nodes' = nodes
    BY <1>4 DEF AddEdge
  <2>2. IsFiniteSet(edges') /\ weight \in Nat
    BY <2>1, FS_AddElement, GraphAssumption DEF GraphFinite
  <2>. QED
    BY <2>1, <2>2 DEF GraphFinite, Edge
<1>5. ASSUME NEW t, RemoveEdge(t) PROVE GraphFinite'
  <2>1. PICK e \in edges : edges' = edges \ {e} /\ nodes' = nodes
    BY <1>5 DEF RemoveEdge
  <2>2. IsFiniteSet(edges')
    BY <2>1, FS_RemoveElement DEF GraphFinite
  <2>. QED
    BY <2>1, <2>2 DEF GraphFinite
<1>6. ASSUME NEW t, BuildGraph(t) PROVE GraphFinite'
  <2>1. PICK b \in Builds :
          /\ \A e \in BuiltEdges(b) : {e.source, e.target} \subseteq BuiltNodes(b)
          /\ nodes' = BuiltNodes(b) /\ edges' = BuiltEdges(b)
    BY <1>6 DEF BuildGraph
  <2>2. \A e \in BuiltEdges(b) : e.weight = 1
    BY DEF BuiltEdges, Edge
  <2>. QED
    BY <2>1, <2>2, BuildsFinite DEF GraphFinite
<1>. QED
  BY <1>1, <1>2, <1>3, <1>4, <1>5, <1>6
     DEF GraphNext, graphVars, InvalidateCentralityCache, CacheMiss, LoadAllNodes,
         LoadAllEdges, ComputeFails, StoreResult

\* The graph is finite as long as it is used.
LEMMA GraphIsFinite == GraphInit /\ [][GraphNext]_graphVars => []GraphFinite
<1>1. GraphInit => GraphFinite
  BY FS_EmptySet DEF GraphInit, GraphFinite
<1>. QED
  BY <1>1, GraphStaysFinite, PTL

-----------------------------------------------------------------------------
\* Neighbours are the ends of the edges of a node, both ways.
LEMMA Neighbours ==
    ASSUME GraphFinite
    PROVE  /\ \A n, m : m \in Adjacent(n) <=>
                \E e \in edges : \/ e.source = n /\ e.target = m
                                 \/ e.source = m /\ e.target = n
           /\ \A n, m : m \in Adjacent(n) => n \in Adjacent(m) /\ m \in nodes /\ n \in nodes
BY DEF GraphFinite, Adjacent

\* No edge leaves C.
EdgeClosed(C) == \A m \in C : Adjacent(m) \subseteq C

\* R is what is reachable from n: the least set with n that no edge leaves.
ReachedFrom(n, R) ==
    /\ n \in R /\ R \subseteq nodes /\ EdgeClosed(R)
    /\ \A C \in SUBSET nodes : n \in C /\ EdgeClosed(C) => R \subseteq C

\* There is one least set.
LEMMA ReachedOnce ==
    ASSUME NEW n, NEW R, NEW Q, ReachedFrom(n, R), ReachedFrom(n, Q)
    PROVE  R = Q
BY DEF ReachedFrom

\* The search found, from n, p after k rounds.
Spread(p, i, w) == p \cup UNION {Adjacent(m) : m \in p}

Spreading(p, k, n) ==
    /\ n \in p /\ p \subseteq nodes
    /\ \A C \in SUBSET nodes : n \in C /\ EdgeClosed(C) => p \subseteq C
    /\ EdgeClosed(p) \/ Cardinality(p) >= k + 1

Spreads == INSTANCE FoldInduction WITH Step <- Spread, Holds <- Spreading

\* The search within a depth is a fold.
LEMMA WithinFolds ==
    ASSUME NEW n, NEW depth
    PROVE  Within(n, depth) = Spreads!Fold({n}, [i \in 1..depth |-> i], <<>>)
BY DEF Within, Spread, Spreads!Fold, FoldLeft, MapThenFoldSet, Spreads!FoldLeft,
       Spreads!MapThenFoldSet, Max, Spreads!Max

\* A round finds one more node, unless all that is reachable is found.
LEMMA SpreadFinds ==
    ASSUME GraphFinite, NEW p, NEW k \in Nat, NEW n, Spreading(p, k, n), NEW i, NEW w
    PROVE  Spreading(Spread(p, i, w), k + 1, n)
<1>. DEFINE q == Spread(p, i, w)
<1>1. p \subseteq q /\ q \subseteq nodes
  BY Neighbours DEF Spread, Spreading
<1>2. ASSUME NEW C \in SUBSET nodes, n \in C, EdgeClosed(C) PROVE q \subseteq C
  BY <1>2 DEF Spread, Spreading, EdgeClosed
<1>3. IsFiniteSet(q) /\ IsFiniteSet(p)
  BY <1>1, FS_Subset DEF GraphFinite, Spreading
<1>4. CASE EdgeClosed(p)
  <2>1. q = p
    BY <1>4 DEF Spread, EdgeClosed
  <2>. QED
    BY <1>1, <1>2, <1>4, <2>1 DEF Spreading
<1>5. CASE ~EdgeClosed(p)
  <2>1. p # q
    BY <1>5 DEF Spread, EdgeClosed
  <2>2. Cardinality(p) < Cardinality(q) /\ Cardinality(p) >= k + 1
    BY <1>1, <1>3, <1>5, <2>1, FS_Subset, FS_CardinalityType DEF Spreading
  <2>3. Cardinality(p) \in Nat /\ Cardinality(q) \in Nat
    BY <1>3, FS_CardinalityType
  <2>. QED
    BY <1>1, <1>2, <2>2, <2>3 DEF Spreading
<1>. QED
  BY <1>4, <1>5

\* As many rounds as there are nodes find all that is reachable.
LEMMA SearchReaches ==
    ASSUME GraphFinite, NEW n \in nodes
    PROVE  ReachedFrom(n, Reachable(n))
<1>. DEFINE size == Cardinality(nodes)
            rounds == [i \in 1..size |-> i]
            R == Spreads!Fold({n}, rounds, <<>>)
<1>1. size \in Nat /\ rounds \in Seq(Nat) /\ Len(rounds) = size
  BY FS_CardinalityType DEF GraphFinite
<1>2. Spreading({n}, 0, n)
  <2>1. Cardinality({n}) = 1
    BY FS_Singleton
  <2>. QED
    BY <2>1 DEF Spreading
<1>. HIDE DEF rounds, size
<1>3. \A k \in 0..(Len(rounds)-1) : \A p :
         Spreading(p, k, n) => Spreading(Spread(p, rounds[k+1], <<>>), k+1, n)
  BY <1>1, SpreadFinds
<1>4. Spreading(R, Len(rounds), n)
  BY <1>1, <1>2, <1>3, Spreads!FoldHolds
<1>. HIDE DEF R
<1>5. ~(Cardinality(R) >= size + 1)
  <2>1. R \subseteq nodes /\ IsFiniteSet(nodes)
    BY <1>4 DEF Spreading, GraphFinite
  <2>2. Cardinality(R) <= size /\ Cardinality(R) \in Nat
    BY <2>1, FS_Subset, FS_CardinalityType DEF size
  <2>. QED
    BY <1>1, <2>2
<1>6. Reachable(n) = R
  BY WithinFolds DEF Reachable, R, rounds, size
<1>. QED
  BY <1>1, <1>4, <1>5, <1>6 DEF Spreading, ReachedFrom

-----------------------------------------------------------------------------
(* Clusters: the sets of a union-find *)

Unite(sets, e, w) ==
    LET united == {s \in sets : s \cap {e.source, e.target} # {}}
    IN  (sets \ united) \cup {UNION united}

\* After the edges of T: the nodes are parted in sets, none is empty, the ends of
\* each edge are in one, and each is within what is reachable from its nodes.
Uniting(sets, T, c) ==
    /\ \A s \in sets : s # {} /\ s \subseteq nodes
    /\ \A n \in nodes : \E s \in sets : n \in s
    /\ \A r, s \in sets : \A n \in nodes : n \in r /\ n \in s => r = s
    /\ \A e \in T : \A s \in sets : e.source \in s <=> e.target \in s
    /\ \A s \in sets : \A n \in s : \A C \in SUBSET nodes :
          n \in C /\ EdgeClosed(C) => s \subseteq C

Unites == INSTANCE FoldInduction WITH Step <- Unite, Holds <- Uniting

\* The clusters are a fold over the edges.
LEMMA ClustersFold == Clusters = Unites!SetFold({{n} : n \in nodes}, edges, <<>>)
BY DEF Clusters, Unite, Unites!SetFold, FoldSet, MapThenFoldSet, Unites!MapThenFoldSet

\* An edge unites the sets of its two ends and keeps the rest of the claim.
LEMMA UniteJoins ==
    ASSUME GraphFinite, NEW T \in SUBSET edges, NEW e \in edges, NEW sets,
           Uniting(sets, T, <<>>)
    PROVE  Uniting(Unite(sets, e, <<>>), T \cup {e}, <<>>)
<1>. DEFINE united == {s \in sets : e.source \in s \/ e.target \in s}
            all == UNION united
            new == (sets \ united) \cup {all}
<1>1. Unite(sets, e, <<>>) = new
  <2>1. united = {s \in sets : s \cap {e.source, e.target} # {}}
    OBVIOUS
  <2>. QED
    BY <2>1 DEF Unite
<1>2. e.source \in nodes /\ e.target \in nodes
  BY DEF GraphFinite
<1>3. e.source \in all /\ e.target \in all /\ all \subseteq nodes
  BY <1>2 DEF Uniting
<1>4. \A n \in all : \E s \in united : n \in s
  OBVIOUS
<1>5. \A s \in united : s \subseteq all /\ s \in sets
  OBVIOUS
<1>6. \A s \in sets \ united : \A n \in s : n \notin all
  BY <1>4, <1>5 DEF Uniting
<1>7. \A s \in new : (s \in sets /\ s \notin united) \/ s = all
  OBVIOUS
<1>8. \A n \in nodes : \E s \in new : n \in s
  <2>. SUFFICES ASSUME NEW n \in nodes PROVE \E s \in new : n \in s
    OBVIOUS
  <2>1. PICK s \in sets : n \in s
    BY DEF Uniting
  <2>2. CASE s \in united
    BY <1>5, <2>1, <2>2
  <2>3. CASE s \notin united
    BY <2>1, <2>3
  <2>. QED
    BY <2>2, <2>3
<1>9. \A s \in sets \ united : e.source \notin s /\ e.target \notin s
  OBVIOUS
<1>10. \A f \in T : \A s \in new : f.source \in s <=> f.target \in s
  <2>1. \A f \in T : \A s \in sets : f.source \in s <=> f.target \in s
    BY DEF Uniting
  <2>2. \A f \in T : f.source \in all <=> f.target \in all
    BY <2>1
  <2>. HIDE DEF all, united
  <2>. QED
    BY <2>1, <2>2, <1>7
<1>11. \A n \in all : \A C \in SUBSET nodes : n \in C /\ EdgeClosed(C) => all \subseteq C
  <2>. SUFFICES ASSUME NEW n \in all, NEW C \in SUBSET nodes, n \in C, EdgeClosed(C)
                PROVE  all \subseteq C
    OBVIOUS
  <2>1. \A s \in united : \A m \in s : m \in C => s \subseteq C
    BY <1>5 DEF Uniting
  <2>2. PICK r \in united : n \in r
    BY <1>4
  <2>3. e.source \in C \/ e.target \in C
    BY <2>1, <2>2
  <2>4. e.target \in Adjacent(e.source) /\ e.source \in Adjacent(e.target)
    BY Neighbours
  <2>5. e.source \in C /\ e.target \in C
    BY <2>3, <2>4 DEF EdgeClosed
  <2>6. \A s \in united : e.source \in s \/ e.target \in s
    OBVIOUS
  <2>7. \A s \in united : s \subseteq C
    BY <2>1, <2>5, <2>6
  <2>. QED
    BY <1>4, <2>7
<1>. HIDE DEF all, united
<1>12. \A s \in new : s # {} /\ s \subseteq nodes
  BY <1>3, <1>7 DEF Uniting
<1>13. \A r, s \in new : \A n \in nodes : n \in r /\ n \in s => r = s
  BY <1>6, <1>7 DEF Uniting
<1>14. \A s \in new : e.source \in s <=> e.target \in s
  BY <1>3, <1>7, <1>9
<1>15. \A s \in new : \A n \in s : \A C \in SUBSET nodes :
          n \in C /\ EdgeClosed(C) => s \subseteq C
  BY <1>7, <1>11 DEF Uniting
<1>. HIDE DEF new
<1>. QED
  BY <1>1, <1>8, <1>10, <1>12, <1>13, <1>14, <1>15 DEF Uniting

\* The clusters part the nodes, and each is what is reachable from its nodes.
LEMMA ClustersReached ==
    ASSUME GraphFinite
    PROVE  /\ UNION Clusters = nodes
           /\ \A s \in Clusters : \A n \in s : ReachedFrom(n, s)
<1>. DEFINE base == {{n} : n \in nodes}
            sets == Unites!SetFold(base, edges, <<>>)
<1>1. Uniting(base, {}, <<>>)
  BY DEF Uniting
<1>2. \A T \in SUBSET edges : \A e \in edges \ T : \A p :
         Uniting(p, T, <<>>) => Uniting(Unite(p, e, <<>>), T \cup {e}, <<>>)
  BY UniteJoins
<1>3. Unites!IsFiniteSet(edges)
  BY DEF GraphFinite, IsFiniteSet, Unites!IsFiniteSet
<1>. HIDE DEF base
<1>4. Uniting(sets, edges, <<>>)
  BY <1>1, <1>2, <1>3, Unites!SetFoldHolds
<1>5. sets = Clusters
  BY ClustersFold DEF base
<1>. HIDE DEF sets
<1>6. ASSUME NEW s \in sets, NEW n \in s PROVE ReachedFrom(n, s)
  <2>1. \A m \in s : \A o \in Adjacent(m) : o \in s
    BY <1>4, Neighbours DEF Uniting
  <2>. QED
    BY <1>4, <2>1 DEF Uniting, ReachedFrom, EdgeClosed
<1>7. UNION sets = nodes
  BY <1>4 DEF Uniting
<1>. QED
  BY <1>5, <1>6, <1>7

\* Clusters are what the searches reach.
LEMMA ClustersAgree == GraphFinite => ClustersAreReachable
<1>. SUFFICES ASSUME GraphFinite PROVE ClustersAreReachable
  OBVIOUS
<1>1. ASSUME NEW s \in Clusters, NEW n \in s PROVE s = Reachable(n)
  <2>1. ReachedFrom(n, s) /\ n \in nodes
    BY ClustersReached DEF ReachedFrom
  <2>. QED
    BY <2>1, SearchReaches, ReachedOnce
<1>. QED
  BY <1>1, ClustersReached DEF ClustersAreReachable

-----------------------------------------------------------------------------
(* Related nodes *)

\* Two nodes are neighbours when an edge counts between them.
LEMMA EdgesJoinNeighbours ==
    ASSUME GraphFinite, NEW n, NEW m
    PROVE  /\ Cardinality(EdgesBetween(n, m)) \in Nat
           /\ Cardinality(EdgesBetween(n, m)) > 0 <=> m \in Adjacent(n)
<1>1. IsFiniteSet(EdgesBetween(n, m))
  BY FS_Subset DEF GraphFinite, EdgesBetween
<1>2. EdgesBetween(n, m) # {} <=> m \in Adjacent(n)
  <2>1. \A e \in edges : {e.source, e.target} = {n, m} <=>
           \/ e.source = n /\ e.target = m
           \/ e.source = m /\ e.target = n
    OBVIOUS
  <2>. QED
    BY <2>1, Neighbours DEF EdgesBetween
<1>3. /\ Cardinality(EdgesBetween(n, m)) \in Nat
      /\ Cardinality(EdgesBetween(n, m)) = 0 <=> EdgesBetween(n, m) = {}
  BY <1>1, FS_CardinalityType, FS_EmptySet
<1>. QED
  BY <1>2, <1>3

\* The score for the steps on from one more neighbour.
ScoreOn(score, k, w) ==
    Cardinality(EdgesBetween(w[1], k)) * Cardinality(EdgesBetween(k, w[2])) + score

Scoring(score, T, w) ==
    /\ score \in Nat
    /\ score > 0 <=> \E k \in T : k \in Adjacent(w[1]) /\ w[2] \in Adjacent(k)

Scores == INSTANCE FoldInduction WITH Step <- ScoreOn, Holds <- Scoring

\* A product of counts is positive when both are.
LEMMA ProductPositive ==
    ASSUME NEW a \in Nat, NEW b \in Nat
    PROVE  a * b \in Nat /\ (a * b > 0 <=> a > 0 /\ b > 0)
OBVIOUS

\* The sum over the neighbours counts the steps on from them.
LEMMA ScoreCounts ==
    ASSUME GraphFinite, NEW n, NEW m
    PROVE  LET score == MapThenSumSet(LAMBDA k :
                 Cardinality(EdgesBetween(n, k)) * Cardinality(EdgesBetween(k, m)), Adjacent(n))
           IN  /\ score \in Nat
               /\ score > 0 <=> \E k \in Adjacent(n) : m \in Adjacent(k)
<1>. DEFINE w == <<n, m>>
            score == Scores!SetFold(0, Adjacent(n), w)
<1>1. MapThenSumSet(LAMBDA k :
          Cardinality(EdgesBetween(n, k)) * Cardinality(EdgesBetween(k, m)), Adjacent(n))
        = score
  BY DEF MapThenSumSet, MapThenFoldSet, Scores!SetFold, Scores!MapThenFoldSet, ScoreOn
<1>2. Scores!IsFiniteSet(Adjacent(n))
  <2>1. Adjacent(n) \subseteq nodes
    BY Neighbours
  <2>2. IsFiniteSet(Adjacent(n))
    BY <2>1, FS_Subset DEF GraphFinite
  <2>. QED
    BY <2>2 DEF IsFiniteSet, Scores!IsFiniteSet
<1>3. Scoring(0, {}, w)
  BY DEF Scoring
<1>4. ASSUME NEW T, NEW k, NEW p, Scoring(p, T, w)
      PROVE  Scoring(ScoreOn(p, k, w), T \cup {k}, w)
  <2>. DEFINE a == Cardinality(EdgesBetween(n, k))
              b == Cardinality(EdgesBetween(k, m))
  <2>1. /\ a \in Nat /\ b \in Nat
        /\ a > 0 <=> k \in Adjacent(n)
        /\ b > 0 <=> m \in Adjacent(k)
    BY EdgesJoinNeighbours
  <2>2. ScoreOn(p, k, w) = a * b + p
    BY DEF ScoreOn
  <2>3. p \in Nat /\ (p > 0 <=> \E l \in T : l \in Adjacent(n) /\ m \in Adjacent(l))
    BY <1>4 DEF Scoring
  <2>. HIDE DEF a, b
  <2>4. a * b \in Nat /\ (a * b > 0 <=> a > 0 /\ b > 0)
    BY <2>1, ProductPositive
  <2>5. a * b + p \in Nat /\ (a * b + p > 0 <=> (a > 0 /\ b > 0) \/ p > 0)
    BY <2>3, <2>4
  <2>6. (\E l \in T \cup {k} : l \in Adjacent(n) /\ m \in Adjacent(l)) <=>
           (a > 0 /\ b > 0) \/ p > 0
    BY <2>1, <2>3
  <2>7. w[1] = n /\ w[2] = m
    OBVIOUS
  <2>. HIDE DEF w
  <2>. QED
    BY <2>2, <2>5, <2>6, <2>7 DEF Scoring
<1>5. Scoring(score, Adjacent(n), w)
  <2>. HIDE DEF w
  <2>. QED
    BY <1>2, <1>3, <1>4, Scores!SetFoldHolds
<1>. QED
  BY <1>1, <1>5 DEF Scoring

\* Two rounds of the search find the neighbours and theirs.
TwoRounds(p, k, n) ==
    /\ k = 0 => p = {n}
    /\ k = 1 => p = {n} \cup Adjacent(n)
    /\ k = 2 => p = {n} \cup Adjacent(n) \cup UNION {Adjacent(m) : m \in Adjacent(n)}

Rounds == INSTANCE FoldInduction WITH Step <- Spread, Holds <- TwoRounds

\* What a search of depth two finds.
LEMMA WithinTwo ==
    ASSUME NEW n
    PROVE  Within(n, 2) = {n} \cup Adjacent(n) \cup UNION {Adjacent(m) : m \in Adjacent(n)}
<1>. DEFINE rounds == [i \in 1..2 |-> i]
            R == Rounds!Fold({n}, rounds, <<>>)
<1>1. Within(n, 2) = R
  BY DEF Within, Spread, Rounds!Fold, FoldLeft, MapThenFoldSet, Rounds!FoldLeft,
         Rounds!MapThenFoldSet, Max, Rounds!Max
<1>2. TwoRounds({n}, 0, n)
  BY DEF TwoRounds
<1>3. rounds \in Seq(Nat) /\ Len(rounds) = 2
  OBVIOUS
<1>. HIDE DEF rounds
<1>4. \A k \in 0..(Len(rounds)-1) : \A p :
         TwoRounds(p, k, n) => TwoRounds(Spread(p, rounds[k+1], <<>>), k+1, n)
  <2>. SUFFICES ASSUME NEW k \in 0..1, NEW p, TwoRounds(p, k, n), NEW i
                PROVE  TwoRounds(Spread(p, i, <<>>), k+1, n)
    BY <1>3
  <2>1. CASE k = 0
    BY <2>1 DEF TwoRounds, Spread
  <2>2. CASE k = 1
    BY <2>2 DEF TwoRounds, Spread
  <2>. QED
    BY <2>1, <2>2
<1>5. TwoRounds(R, Len(rounds), n)
  BY <1>2, <1>3, <1>4, Rounds!FoldHolds
<1>. QED
  BY <1>1, <1>3, <1>5 DEF TwoRounds

\* What is related are the neighbours and theirs.
LEMMA RelatedAreNear == GraphFinite => RelatedIsNear
<1>. SUFFICES ASSUME GraphFinite, NEW n \in nodes
              PROVE  /\ RelatedNodes(n) \ {n} = Within(n, 2) \ {n}
                     /\ n \in RelatedNodes(n) <=> n \in Adjacent(n)
  BY DEF RelatedIsNear
<1>1. ASSUME NEW m
      PROVE  RelatedScore(n, m) > 0 <=>
               \/ m \in Adjacent(n)
               \/ m # n /\ \E k \in Adjacent(n) : m \in Adjacent(k)
  <2>. DEFINE score == MapThenSumSet(LAMBDA k :
                Cardinality(EdgesBetween(n, k)) * Cardinality(EdgesBetween(k, m)), Adjacent(n))
              count == Cardinality(EdgesBetween(n, m))
  <2>1. score \in Nat /\ (score > 0 <=> \E k \in Adjacent(n) : m \in Adjacent(k))
    BY ScoreCounts
  <2>2. count \in Nat /\ (count > 0 <=> m \in Adjacent(n))
    BY EdgesJoinNeighbours
  <2>3. RelatedScore(n, m) = 2 * count + IF m = n THEN 0 ELSE score
    BY DEF RelatedScore
  <2>. HIDE DEF score, count
  <2>. QED
    BY <2>1, <2>2, <2>3
<1>2. \A m : m \in Within(n, 2) <=>
         m = n \/ m \in Adjacent(n) \/ \E k \in Adjacent(n) : m \in Adjacent(k)
  BY WithinTwo
<1>3. \A m : m \in RelatedNodes(n) <=> m \in nodes /\ RelatedScore(n, m) > 0
  BY DEF RelatedNodes
<1>4. \A m, k : m \in Adjacent(k) => m \in nodes
  BY Neighbours
<1>5. \A m : m \in RelatedNodes(n) /\ m # n <=> m \in Within(n, 2) /\ m # n
  BY <1>1, <1>2, <1>3, <1>4
<1>6. n \in RelatedNodes(n) <=> n \in Adjacent(n)
  BY <1>1, <1>3
<1>. QED
  BY <1>5, <1>6

-----------------------------------------------------------------------------
(* The least number of edges between two nodes *)

\* One more round of the distances: neighbours of what is found are d away.
Farther(found, d, w) ==
    [m \in DOMAIN found \cup UNION {Adjacent(n) : n \in DOMAIN found} |->
        IF m \in DOMAIN found THEN found[m] ELSE d]

\* After k rounds: distances up to k from the source, each one more than that of
\* a neighbour and none more than one above that of any.
Measuring(found, k, from) ==
    /\ found = [m \in DOMAIN found |-> found[m]]
    /\ from \in DOMAIN found /\ found[from] = 0 /\ DOMAIN found \subseteq nodes
    /\ \A m \in DOMAIN found : found[m] \in 0..k /\ (found[m] = 0 => m = from)
    /\ \A m \in DOMAIN found : \A o \in Adjacent(m) :
          found[m] < k => o \in DOMAIN found
    /\ \A m, o \in DOMAIN found : o \in Adjacent(m) => found[o] <= found[m] + 1
    /\ \A m \in DOMAIN found : m # from =>
          \E o \in Adjacent(m) : o \in DOMAIN found /\ found[m] = found[o] + 1
    /\ \A C \in SUBSET nodes : from \in C /\ EdgeClosed(C) => DOMAIN found \subseteq C
    /\ EdgeClosed(DOMAIN found) \/ Cardinality(DOMAIN found) >= k + 1

Measures == INSTANCE FoldInduction WITH Step <- Farther, Holds <- Measuring

\* The hops are a fold over the rounds.
LEMMA HopsFold ==
    ASSUME NEW from
    PROVE  Hops(from) = Measures!Fold([m \in {from} |-> 0],
                                      [d \in 1..Cardinality(nodes) |-> d], <<>>)
BY DEF Hops, Farther, Measures!Fold, FoldLeft, MapThenFoldSet, Measures!FoldLeft,
       Measures!MapThenFoldSet, Max, Measures!Max

\* A round adds the nodes that are one farther.
LEMMA FartherMeasures ==
    ASSUME GraphFinite, NEW found, NEW k \in Nat, NEW from, Measuring(found, k, from)
    PROVE  Measuring(Farther(found, k + 1, <<>>), k + 1, from)
<1>. DEFINE D == DOMAIN found
            next == UNION {Adjacent(n) : n \in D}
            new == Farther(found, k + 1, <<>>)
<1>1. new = [m \in D \cup next |-> IF m \in D THEN found[m] ELSE k + 1]
  BY DEF Farther
<1>2. /\ from \in D /\ found[from] = 0 /\ D \subseteq nodes
      /\ \A m \in D : found[m] \in 0..k /\ (found[m] = 0 => m = from)
      /\ \A m \in D : \A o \in Adjacent(m) : found[m] < k => o \in D
      /\ \A m, o \in D : o \in Adjacent(m) => found[o] <= found[m] + 1
      /\ \A m \in D : m # from =>
            \E o \in Adjacent(m) : o \in D /\ found[m] = found[o] + 1
      /\ \A C \in SUBSET nodes : from \in C /\ EdgeClosed(C) => D \subseteq C
      /\ EdgeClosed(D) \/ Cardinality(D) >= k + 1
  BY DEF Measuring
<1>3. \A m : m \in next <=> \E n \in D : m \in Adjacent(n)
  OBVIOUS
<1>. HIDE DEF next
<1>4. DOMAIN new = D \cup next /\ new = [m \in DOMAIN new |-> new[m]]
  BY <1>1
<1>5. /\ \A m \in D : new[m] = found[m]
      /\ \A m \in next : m \notin D => new[m] = k + 1
  BY <1>1
<1>. HIDE DEF new, D
<1>6. next \subseteq nodes
  BY <1>3, Neighbours
<1>7. \A m \in next : m \notin D => \E o \in Adjacent(m) : o \in D /\ found[o] = k
  <2>. SUFFICES ASSUME NEW m \in next, m \notin D
                PROVE  \E o \in Adjacent(m) : o \in D /\ found[o] = k
    OBVIOUS
  <2>1. PICK o \in D : m \in Adjacent(o)
    BY <1>3
  <2>2. o \in Adjacent(m) /\ ~(found[o] < k) /\ found[o] \in 0..k
    BY <1>2, <2>1, Neighbours
  <2>. QED
    BY <2>2
<1>8. \A m \in D \cup next : new[m] \in 0..(k+1) /\ (new[m] = 0 => m = from)
  BY <1>2, <1>5
<1>9. \A m \in D \cup next : \A o \in Adjacent(m) : new[m] < k + 1 => o \in D \cup next
  <2>. SUFFICES ASSUME NEW m \in D \cup next, NEW o \in Adjacent(m), new[m] < k + 1
                PROVE  o \in D \cup next
    OBVIOUS
  <2>1. m \in D
    BY <1>5
  <2>. QED
    BY <1>3, <2>1
<1>10. \A m, o \in D \cup next : o \in Adjacent(m) => new[o] <= new[m] + 1
  <2>. SUFFICES ASSUME NEW m \in D \cup next, NEW o \in D \cup next, o \in Adjacent(m)
                PROVE  new[o] <= new[m] + 1
    OBVIOUS
  <2>1. new[o] \in 0..(k+1) /\ new[m] \in 0..(k+1)
    BY <1>8
  <2>2. CASE m \in D /\ o \in D
    BY <1>2, <1>5, <2>2
  <2>3. CASE m \in D /\ o \notin D
    <3>1. ~(found[m] < k) /\ found[m] \in 0..k /\ new[m] = found[m]
      BY <1>2, <1>5, <2>3
    <3>. QED
      BY <2>1, <3>1
  <2>4. CASE m \notin D
    BY <1>5, <2>1, <2>4
  <2>. QED
    BY <2>2, <2>3, <2>4
<1>11. \A m \in D \cup next : m # from =>
          \E o \in Adjacent(m) : o \in D \cup next /\ new[m] = new[o] + 1
  <2>. SUFFICES ASSUME NEW m \in D \cup next, m # from
                PROVE  \E o \in Adjacent(m) : o \in D \cup next /\ new[m] = new[o] + 1
    OBVIOUS
  <2>1. CASE m \in D
    BY <1>2, <1>5, <2>1
  <2>2. CASE m \notin D
    BY <1>5, <1>7, <2>2
  <2>. QED
    BY <2>1, <2>2
<1>12. Spreading(D, k, from)
  BY <1>2 DEF Spreading
<1>13. D \cup next = Spread(D, k + 1, <<>>)
  BY <1>3 DEF Spread
<1>14. Spreading(D \cup next, k + 1, from)
  BY <1>12, <1>13, SpreadFinds
<1>. QED
  BY <1>2, <1>4, <1>5, <1>6, <1>8, <1>9, <1>10, <1>11, <1>14 DEF Measuring, Spreading, new

\* As many rounds as there are nodes measure all that is reachable.
LEMMA HopsMeasure ==
    ASSUME GraphFinite, NEW from \in nodes
    PROVE  /\ Measuring(Hops(from), Cardinality(nodes), from)
           /\ ReachedFrom(from, DOMAIN Hops(from))
<1>. DEFINE size == Cardinality(nodes)
            base == [m \in {from} |-> 0]
            rounds == [d \in 1..size |-> d]
            R == Measures!Fold(base, rounds, <<>>)
<1>1. size \in Nat /\ rounds \in Seq(Nat) /\ Len(rounds) = size
  BY FS_CardinalityType DEF GraphFinite
<1>2. Measuring(base, 0, from)
  <2>1. Cardinality({from}) = 1
    BY FS_Singleton
  <2>2. DOMAIN base = {from} /\ base[from] = 0 /\ base = [m \in DOMAIN base |-> base[m]]
    OBVIOUS
  <2>. HIDE DEF base
  <2>. QED
    BY <2>1, <2>2 DEF Measuring
<1>3. ASSUME NEW k \in 0..(Len(rounds)-1), NEW p, Measuring(p, k, from)
      PROVE  Measuring(Farther(p, rounds[k+1], <<>>), k+1, from)
  <2>1. k \in Nat /\ rounds[k+1] = k + 1
    BY <1>1
  <2>. QED
    BY <1>3, <2>1, FartherMeasures
<1>. HIDE DEF rounds, base
<1>4. Measuring(R, Len(rounds), from)
  <2>. HIDE DEF size
  <2>. QED
    BY <1>1, <1>2, <1>3, Measures!FoldHolds
<1>5. Hops(from) = R
  BY HopsFold DEF R, rounds, base
<1>. HIDE DEF R
<1>6. ~(Cardinality(DOMAIN R) >= size + 1)
  <2>1. DOMAIN R \subseteq nodes /\ IsFiniteSet(nodes)
    BY <1>4 DEF Measuring, GraphFinite
  <2>2. Cardinality(DOMAIN R) <= size /\ Cardinality(DOMAIN R) \in Nat
    BY <2>1, FS_Subset, FS_CardinalityType DEF size
  <2>. QED
    BY <1>1, <2>2
<1>. HIDE DEF size
<1>7. ReachedFrom(from, DOMAIN R)
  BY <1>1, <1>4, <1>6 DEF Measuring, ReachedFrom
<1>. QED
  BY <1>1, <1>4, <1>5, <1>7 DEF size

-----------------------------------------------------------------------------
(* The search of dijkstra, for edges of any weight *)

\* The nodes with a score that are not settled, the one that is settled next,
\* whom it scores, and what a node may be scored with.
Unsettled(p) == DOMAIN p.score \ p.settled
Foremost(p) == CHOOSE m \in Unsettled(p) : \A o \in Unsettled(p) : p.score[m] <= p.score[o]
Onward(p) == Adjacent(Foremost(p)) \ (p.settled \cup {Foremost(p)})
Offers(p, m) ==
    {p.score[Foremost(p)] + e.weight : e \in EdgesBetween(Foremost(p), m)}
      \cup {p.score[o] : o \in {m} \cap Unsettled(p)}

\* Nothing is left to settle, or the goal is among the least.
Done(p, to) ==
    \/ Unsettled(p) = {}
    \/ to \in Unsettled(p) /\ \A o \in Unsettled(p) : p.score[to] <= p.score[o]

\* After k rounds, c the source and the goal: settled nodes have the least scores
\* and have scored their neighbours, and every score but the source's comes from a
\* settled node.
Searching(p, k, c) ==
    /\ p.settled \subseteq DOMAIN p.score /\ DOMAIN p.score \subseteq nodes
    /\ \A m \in DOMAIN p.score : p.score[m] \in Nat
    /\ c[1] \in DOMAIN p.score /\ p.score[c[1]] = 0
    /\ \A C \in SUBSET nodes : c[1] \in C /\ EdgeClosed(C) => DOMAIN p.score \subseteq C
    /\ \A v \in p.settled, u \in Unsettled(p) : p.score[v] <= p.score[u]
    /\ \A v \in p.settled, x \in nodes : \A e \in EdgesBetween(v, x) :
          x \in DOMAIN p.score /\ p.score[x] <= p.score[v] + e.weight
    /\ \A x \in DOMAIN p.score : x # c[1] =>
          \E v \in p.settled : \E e \in EdgesBetween(v, x) :
             p.score[x] = p.score[v] + e.weight
    /\ Done(p, c[2]) \/ Cardinality(p.settled) = k

SettleFor(p, i, w) == Settle(p, w)

Searches == INSTANCE FoldInduction WITH Step <- SettleFor, Holds <- Searching

\* A round in terms of these.
LEMMA SettleIs ==
    ASSUME NEW p, NEW to
    PROVE  Settle(p, to) =
             IF Unsettled(p) = {} \/ Foremost(p) = to THEN p
             ELSE [settled |-> p.settled \cup {Foremost(p)},
                   score |-> [m \in DOMAIN p.score \cup Onward(p) |->
                                IF m \in Onward(p) THEN Min(Offers(p, m)) ELSE p.score[m]]]
BY DEF Settle, Unsettled, Foremost, Onward, Offers

\* The edges between two nodes make them neighbours.
LEMMA Between ==
    ASSUME GraphFinite, NEW n, NEW m
    PROVE  /\ m \in Adjacent(n) <=> \E e \in edges : e \in EdgesBetween(n, m)
           /\ \A e \in EdgesBetween(n, m) : e \in edges /\ e.weight \in Nat
           /\ EdgesBetween(n, m) = EdgesBetween(m, n)
<1>1. \A e \in edges : {e.source, e.target} = {n, m} <=>
         \/ e.source = n /\ e.target = m
         \/ e.source = m /\ e.target = n
  OBVIOUS
<1>. QED
  BY <1>1, Neighbours DEF EdgesBetween, GraphFinite

\* A nonempty set of numbers has its minimum.
LEMMA MinIsLeast ==
    ASSUME NEW T, T \subseteq Nat, T # {}
    PROVE  Min(T) \in T /\ \A y \in T : Min(T) <= y
<1>1. PICK x \in T : \A y \in T : x <= y
  BY Searches!LeastNumber
<1>. QED
  BY <1>1 DEF Min

\* Where nodes are open, one of the least is settled next.
LEMMA ForemostIsLeast ==
    ASSUME NEW p, \A m \in DOMAIN p.score : p.score[m] \in Nat, Unsettled(p) # {}
    PROVE  Foremost(p) \in Unsettled(p) /\ \A o \in Unsettled(p) : p.score[Foremost(p)] <= p.score[o]
<1>. DEFINE T == {p.score[o] : o \in Unsettled(p)}
<1>1. T \subseteq Nat /\ T # {}
  BY DEF Unsettled
<1>2. PICK x \in T : \A y \in T : x <= y
  <2>. HIDE DEF T
  <2>. QED
    BY <1>1, Searches!LeastNumber
<1>3. PICK m \in Unsettled(p) : x = p.score[m]
  OBVIOUS
<1>4. \A o \in Unsettled(p) : p.score[m] <= p.score[o]
  BY <1>2, <1>3
<1>. QED
  BY <1>4 DEF Foremost

\* The best offer to a node comes over an edge from the settled one or is the
\* score it had.
LEMMA OffersAre ==
    ASSUME GraphFinite, NEW p, \A m \in DOMAIN p.score : p.score[m] \in Nat,
           Unsettled(p) # {}, NEW m \in Onward(p)
    PROVE  LET n == Foremost(p)
               best == Min(Offers(p, m))
           IN  /\ best \in Nat /\ best >= p.score[n]
               /\ \A e \in EdgesBetween(n, m) : best <= p.score[n] + e.weight
               /\ m \in Unsettled(p) => best <= p.score[m]
               /\ \/ \E e \in EdgesBetween(n, m) : best = p.score[n] + e.weight
                  \/ m \in Unsettled(p) /\ best = p.score[m]
<1>. DEFINE n == Foremost(p)
<1>1. n \in Unsettled(p) /\ p.score[n] \in Nat /\ \A o \in Unsettled(p) : p.score[n] <= p.score[o]
  BY ForemostIsLeast DEF Unsettled
<1>2. m \in Adjacent(n)
  BY DEF Onward
<1>. HIDE DEF n
<1>3. /\ \E e \in edges : e \in EdgesBetween(n, m)
      /\ \A e \in EdgesBetween(n, m) : e.weight \in Nat
  BY <1>2, Between
<1>4. \A y : y \in Offers(p, m) <=>
         \/ \E e \in EdgesBetween(n, m) : y = p.score[n] + e.weight
         \/ m \in Unsettled(p) /\ y = p.score[m]
  BY DEF Offers, n
<1>5. Offers(p, m) \subseteq Nat /\ Offers(p, m) # {}
  BY <1>1, <1>3, <1>4 DEF Unsettled
<1>6. Min(Offers(p, m)) \in Offers(p, m) /\ \A y \in Offers(p, m) : Min(Offers(p, m)) <= y
  BY <1>5, MinIsLeast
<1>. DEFINE best == Min(Offers(p, m))
<1>7. best \in Nat /\ best >= p.score[n]
  <2>. HIDE DEF best
  <2>1. best \in Offers(p, m)
    BY <1>6 DEF best
  <2>. QED
    BY <1>1, <1>3, <1>4, <2>1 DEF Unsettled
<1>8. \A e \in EdgesBetween(n, m) : best <= p.score[n] + e.weight
  BY <1>4, <1>6
<1>9. m \in Unsettled(p) => best <= p.score[m]
  BY <1>4, <1>6
<1>10. \/ \E e \in EdgesBetween(n, m) : best = p.score[n] + e.weight
       \/ m \in Unsettled(p) /\ best = p.score[m]
  BY <1>4, <1>6
<1>. QED
  BY <1>7, <1>8, <1>9, <1>10 DEF n

\* A round settles one more node or is done.
LEMMA SettleKeeps ==
    ASSUME GraphFinite, NEW p, NEW k \in Nat, NEW from \in nodes, NEW to,
           Searching(p, k, <<from, to>>)
    PROVE  Searching(Settle(p, to), k + 1, <<from, to>>)
<1>. DEFINE c == <<from, to>>
            D == DOMAIN p.score
            S == p.settled
            n == Foremost(p)
            next == Onward(p)
            q == Settle(p, to)
<1>1. c[1] = from /\ c[2] = to
  OBVIOUS
<1>. HIDE DEF c
<1>2. /\ S \subseteq D /\ D \subseteq nodes /\ \A m \in D : p.score[m] \in Nat
      /\ from \in D /\ p.score[from] = 0
      /\ \A C \in SUBSET nodes : from \in C /\ EdgeClosed(C) => D \subseteq C
      /\ \A v \in S, u \in Unsettled(p) : p.score[v] <= p.score[u]
      /\ \A v \in S, x \in nodes : \A e \in EdgesBetween(v, x) :
            x \in D /\ p.score[x] <= p.score[v] + e.weight
      /\ \A x \in D : x # from =>
            \E v \in S : \E e \in EdgesBetween(v, x) : p.score[x] = p.score[v] + e.weight
      /\ Done(p, to) \/ Cardinality(S) = k
  BY <1>1 DEF Searching, c
<1>3. CASE Unsettled(p) = {} \/ n = to
  <2>1. q = p
    BY <1>3, SettleIs
  <2>2. Done(p, to)
    BY <1>2, <1>3, ForemostIsLeast DEF Done
  <2>. HIDE DEF q
  <2>. QED
    BY <1>1, <2>1, <2>2 DEF Searching, c, q
<1>4. CASE Unsettled(p) # {} /\ n # to
  <2>1. /\ q.settled = S \cup {n} /\ DOMAIN q.score = D \cup next
        /\ \A m \in next : q.score[m] = Min(Offers(p, m))
        /\ \A m \in D : m \notin next => q.score[m] = p.score[m]
    BY <1>4, SettleIs
  <2>2. /\ n \in D /\ n \notin S /\ \A o \in D : o \notin S => p.score[n] <= p.score[o]
        /\ n \in Unsettled(p)
    BY <1>2, <1>4, ForemostIsLeast DEF Unsettled
  <2>3. next = Adjacent(n) \ (S \cup {n})
    BY DEF Onward
  <2>4. ASSUME NEW m \in next
        PROVE  /\ q.score[m] \in Nat /\ q.score[m] >= p.score[n]
               /\ \A e \in EdgesBetween(n, m) : q.score[m] <= p.score[n] + e.weight
               /\ m \in D => q.score[m] <= p.score[m]
               /\ \/ \E e \in EdgesBetween(n, m) : q.score[m] = p.score[n] + e.weight
                  \/ m \in D /\ q.score[m] = p.score[m]
    <3>1. m \in D => m \in Unsettled(p)
      BY <2>3 DEF Unsettled
    <3>2. m \in Unsettled(p) => m \in D
      BY DEF Unsettled
    <3>. QED
      BY <1>2, <1>4, <2>1, <2>4, <3>1, <3>2, OffersAre
  <2>. HIDE DEF q, next, n, D, S
  <2>5. Unsettled(p) = D \ S /\ Unsettled(q) = (D \cup next) \ (S \cup {n})
    BY <2>1 DEF Unsettled, D, S
  <2>6. \A v \in S \cup {n} : v \in D /\ q.score[v] = p.score[v] /\ p.score[v] \in Nat
    BY <1>2, <2>1, <2>2, <2>3
  <2>7. \A m \in D : q.score[m] <= p.score[m]
    BY <1>2, <2>1, <2>4
  <2>8. q.settled \subseteq DOMAIN q.score /\ DOMAIN q.score \subseteq nodes
    BY <1>2, <2>1, <2>2, <2>3, Neighbours
  <2>9. \A m \in DOMAIN q.score : q.score[m] \in Nat
    BY <1>2, <2>1, <2>4
  <2>10. from \in DOMAIN q.score /\ q.score[from] = 0
    BY <1>2, <2>1, <2>7, <2>9
  <2>11. \A C \in SUBSET nodes : from \in C /\ EdgeClosed(C) => DOMAIN q.score \subseteq C
    BY <1>2, <2>1, <2>2, <2>3 DEF EdgeClosed
  <2>12. \A v \in q.settled, u \in Unsettled(q) : q.score[v] <= q.score[u]
    <3>. SUFFICES ASSUME NEW v \in S \cup {n}, NEW u \in Unsettled(q) PROVE q.score[v] <= q.score[u]
      BY <2>1
    <3>1. p.score[v] <= p.score[n] /\ q.score[v] = p.score[v]
      BY <1>2, <2>2, <2>6
    <3>2. p.score[n] <= q.score[u]
      <4>1. CASE u \in next
        BY <2>4, <4>1, <1>2, <2>2
      <4>2. CASE u \notin next
        BY <2>1, <2>2, <2>5, <4>2
      <4>. QED
        BY <4>1, <4>2
    <3>3. p.score[v] \in Nat /\ p.score[n] \in Nat /\ q.score[u] \in Nat
      BY <2>1, <2>5, <2>6, <2>9
    <3>. QED
      BY <3>1, <3>2, <3>3
  <2>13. \A v \in q.settled, x \in nodes : \A e \in EdgesBetween(v, x) :
            x \in DOMAIN q.score /\ q.score[x] <= q.score[v] + e.weight
    <3>. SUFFICES ASSUME NEW v \in S \cup {n}, NEW x \in nodes, NEW e \in EdgesBetween(v, x)
                  PROVE  x \in DOMAIN q.score /\ q.score[x] <= q.score[v] + e.weight
      BY <2>1
    <3>1. e.weight \in Nat /\ x \in Adjacent(v)
      BY Between
    <3>2. q.score[v] = p.score[v] /\ p.score[v] \in Nat
      BY <2>6
    <3>3. CASE v \in S
      <4>1. x \in D /\ p.score[x] <= p.score[v] + e.weight
        BY <1>2, <3>3
      <4>2. q.score[x] <= p.score[x] /\ q.score[x] \in Nat /\ p.score[x] \in Nat
        BY <1>2, <2>1, <2>7, <2>9, <4>1
      <4>. QED
        BY <2>1, <3>1, <3>2, <4>1, <4>2
    <3>4. CASE v = n
      <4>1. CASE x \in next
        BY <2>1, <2>4, <3>2, <3>4, <4>1
      <4>2. CASE x \in S \cup {n}
        <5>1. p.score[x] <= p.score[n] /\ q.score[x] = p.score[x] /\ p.score[x] \in Nat /\ x \in D
          BY <1>2, <2>2, <2>6, <4>2
        <5>. QED
          BY <2>1, <3>1, <3>2, <3>4, <5>1
      <4>. QED
        BY <2>3, <3>1, <3>4, <4>1, <4>2
    <3>. QED
      BY <3>3, <3>4
  <2>14. \A x \in DOMAIN q.score : x # from =>
            \E v \in q.settled : \E e \in EdgesBetween(v, x) :
               q.score[x] = q.score[v] + e.weight
    <3>. SUFFICES ASSUME NEW x \in D \cup next, x # from
                  PROVE  \E v \in S \cup {n} : \E e \in EdgesBetween(v, x) :
                            q.score[x] = q.score[v] + e.weight
      BY <2>1
    <3>1. q.score[n] = p.score[n]
      BY <2>6
    <3>2. CASE x \in next /\ \E e \in EdgesBetween(n, x) : q.score[x] = p.score[n] + e.weight
      BY <3>1, <3>2
    <3>3. CASE x \in D /\ q.score[x] = p.score[x]
      <4>1. PICK v \in S : \E e \in EdgesBetween(v, x) : p.score[x] = p.score[v] + e.weight
        BY <1>2, <3>3
      <4>2. q.score[v] = p.score[v]
        BY <2>6
      <4>. QED
        BY <3>3, <4>1, <4>2
    <3>. QED
      BY <2>1, <2>4, <3>2, <3>3
  <2>15. Done(q, to) \/ Cardinality(q.settled) = k + 1
    <3>1. CASE Done(p, to)
      <4>1. to \in D /\ to \notin S /\ \A o \in D : o \notin S => p.score[to] <= p.score[o]
        BY <1>4, <2>5, <3>1 DEF Done
      <4>2. q.score[to] <= p.score[to] /\ p.score[to] <= p.score[n]
        BY <2>2, <2>7, <4>1
      <4>3. to \in Unsettled(q)
        BY <1>4, <2>5, <4>1
      <4>4. ASSUME NEW u \in Unsettled(q) PROVE q.score[to] <= q.score[u]
        <5>1. p.score[n] <= q.score[u]
          <6>1. n \in q.settled /\ q.score[n] = p.score[n]
            BY <2>1, <2>6
          <6>. QED
            BY <2>12, <6>1
        <5>2. /\ q.score[to] \in Nat /\ p.score[to] \in Nat /\ p.score[n] \in Nat
              /\ q.score[u] \in Nat
          BY <1>2, <2>1, <2>2, <2>5, <2>9, <4>1
        <5>. QED
          BY <4>2, <5>1, <5>2
      <4>. QED
        BY <4>3, <4>4 DEF Done
    <3>2. CASE Cardinality(S) = k
      <4>1. IsFiniteSet(S)
        BY <1>2, FS_Subset DEF GraphFinite
      <4>. QED
        BY <2>1, <2>2, <3>2, <4>1, FS_AddElement
    <3>. QED
      BY <1>2, <3>1, <3>2
  <2>. QED
    BY <1>1, <2>8, <2>9, <2>10, <2>11, <2>12, <2>13, <2>14, <2>15 DEF Searching, c, q
<1>. QED
  BY <1>3, <1>4

\* What is returned after as many rounds as there are nodes is of a search that is
\* done.
LEMMA DistancesSearch ==
    ASSUME GraphFinite, NEW from \in nodes, NEW to
    PROVE  \E p : /\ p.score = Distances(from, to)
                  /\ Searching(p, Cardinality(nodes), <<from, to>>) /\ Done(p, to)
<1>. DEFINE size == Cardinality(nodes)
            base == [settled |-> {}, score |-> [m \in {from} |-> 0]]
            rounds == [i \in 1..size |-> i]
            c == <<from, to>>
            p == Searches!Fold(base, rounds, to)
<1>1. size \in Nat /\ rounds \in Seq(Nat) /\ Len(rounds) = size
  BY FS_CardinalityType DEF GraphFinite
<1>2. Searching(base, 0, c)
  <2>1. base.settled = {} /\ DOMAIN base.score = {from} /\ base.score[from] = 0
    OBVIOUS
  <2>2. c[1] = from
    OBVIOUS
  <2>3. Cardinality({}) = 0
    BY FS_EmptySet
  <2>. HIDE DEF base, c
  <2>. QED
    BY <2>1, <2>2, <2>3 DEF Searching
<1>3. ASSUME NEW i \in 0..(Len(rounds)-1), NEW r, Searching(r, i, c)
      PROVE  Searching(SettleFor(r, rounds[i+1], to), i+1, c)
  <2>1. i \in Nat
    BY <1>1
  <2>. QED
    BY <1>3, <2>1, SettleKeeps DEF SettleFor
<1>4. p.score = Distances(from, to)
  BY DEF Distances, SettleFor, Searches!Fold, FoldLeft, MapThenFoldSet, Searches!FoldLeft,
       Searches!MapThenFoldSet, Max, Searches!Max
<1>. HIDE DEF rounds, base, c, p
<1>5. Searching(p, Len(rounds), c)
  <2>. HIDE DEF size
  <2>. QED
    BY <1>1, <1>2, <1>3, Searches!FoldHolds DEF p
<1>6. Done(p, to)
  <2>. SUFFICES ASSUME Cardinality(p.settled) = size PROVE Unsettled(p) = {}
    BY <1>1, <1>5 DEF Searching, Done, c
  <2>1. p.settled \subseteq nodes /\ DOMAIN p.score \subseteq nodes
    BY <1>5 DEF Searching
  <2>2. p.settled = nodes
    BY <2>1, FS_Subset DEF GraphFinite
  <2>. QED
    BY <2>1, <2>2 DEF Unsettled
<1>. QED
  BY <1>1, <1>4, <1>5, <1>6 DEF c

\* The nodes with a score, when the goal has none, are all that is reachable.
LEMMA GoalIsMet ==
    ASSUME GraphFinite, NEW from \in nodes, NEW to, NEW p,
           Searching(p, Cardinality(nodes), <<from, to>>), Done(p, to),
           NEW R, ReachedFrom(from, R)
    PROVE  DOMAIN p.score \subseteq R /\ (to \in R => to \in DOMAIN p.score)
<1>1. /\ p.settled \subseteq DOMAIN p.score /\ DOMAIN p.score \subseteq nodes
      /\ from \in DOMAIN p.score
      /\ \A C \in SUBSET nodes : from \in C /\ EdgeClosed(C) => DOMAIN p.score \subseteq C
      /\ \A v \in p.settled, x \in nodes : \A e \in EdgesBetween(v, x) : x \in DOMAIN p.score
  BY DEF Searching
<1>2. DOMAIN p.score \subseteq R
  BY <1>1 DEF ReachedFrom
<1>3. ASSUME to \in R, to \notin DOMAIN p.score PROVE FALSE
  <2>1. p.settled = DOMAIN p.score
    BY <1>1, <1>3 DEF Done, Unsettled
  <2>2. EdgeClosed(DOMAIN p.score)
    <3>. SUFFICES ASSUME NEW v \in DOMAIN p.score, NEW x \in Adjacent(v)
                  PROVE  x \in DOMAIN p.score
      BY DEF EdgeClosed
    <3>1. x \in nodes /\ \E e \in edges : e \in EdgesBetween(v, x)
      BY Between, Neighbours
    <3>. QED
      BY <1>1, <2>1, <3>1
  <2>3. R \subseteq DOMAIN p.score
    BY <1>1, <2>2 DEF ReachedFrom
  <2>. QED
    BY <1>3, <2>3
<1>. QED
  BY <1>2, <1>3

-----------------------------------------------------------------------------
(* The walk back *)

\* What get_shortest_path does: w the scores and the source.
Met(n, score) == Adjacent(n) \cap DOMAIN score
Closest(n, score) == CHOOSE m \in Met(n, score) : \A o \in Met(n, score) : score[m] <= score[o]

Nearer(path, i, w) ==
    IF path[1] = w[2] THEN path
    ELSE IF Closest(path[1], w[1]) = path[1] THEN <<w[2]>> \o path
    ELSE <<Closest(path[1], w[1])>> \o path

\* The nodes that are no nearer to the source than n.
NotNearer(n, score) == {m \in DOMAIN score : score[n] <= score[m]}

\* A walk of k steps at most from the target, c the scores and the ends: it passes
\* ever nearer nodes, and by one at a time when all edges weigh 1.
Walking(path, k, c) ==
    /\ path \in Seq(nodes) /\ Len(path) >= 1 /\ path[Len(path)] = c[3]
    /\ path[1] \in DOMAIN c[1]
    /\ Cardinality(NotNearer(path[1], c[1])) >= Len(path)
    /\ c[1][path[1]] <= c[1][c[3]]
    /\ (\A e \in edges : e.weight = 1) => Len(path) = c[1][c[3]] - c[1][path[1]] + 1
    /\ \A i \in 1..(Len(path) - 1) : path[i + 1] \in Adjacent(path[i])
    /\ path[1] = c[2] \/ Len(path) = k + 1

Walks == INSTANCE FoldInduction WITH Step <- Nearer, Holds <- Walking

\* The path is a fold that walks back from the target.
LEMMA PathFolds ==
    ASSUME NEW from, NEW to, to \in DOMAIN Distances(from, to)
    PROVE  ShortestPath(from, to) =
             Walks!Fold(<<to>>, [i \in 1..Cardinality(nodes) |-> i],
                        <<Distances(from, to), from>>)
<1>. DEFINE w == <<Distances(from, to), from>>
<1>1. w[1] = Distances(from, to) /\ w[2] = from
  OBVIOUS
<1>. HIDE DEF w
<1>2. ShortestPath(from, to) = Walks!Fold(<<to>>, [i \in 1..Cardinality(nodes) |-> i], w)
  BY <1>1 DEF ShortestPath, Nearer, Met, Closest, Walks!Fold, FoldLeft, MapThenFoldSet,
       Walks!FoldLeft, Walks!MapThenFoldSet, Max, Walks!Max
<1>. QED
  BY <1>2 DEF w

\* When no edge weighs nothing, the closest neighbour is nearer to the source; when
\* all weigh 1 it is nearer by one.
LEMMA ClosestIsNearer ==
    ASSUME GraphFinite, NEW from \in nodes, NEW to, NEW p,
           Searching(p, Cardinality(nodes), <<from, to>>), Done(p, to),
           \A e \in edges : e.weight > 0,
           NEW n \in DOMAIN p.score, n # from, to \in DOMAIN p.score,
           p.score[n] <= p.score[to]
    PROVE  LET m == Closest(n, p.score)
           IN  /\ m \in Adjacent(n) /\ m \in DOMAIN p.score /\ p.score[m] < p.score[n]
               /\ (\A e \in edges : e.weight = 1) => p.score[m] = p.score[n] - 1
<1>. DEFINE m == Closest(n, p.score)
            score == p.score
<1>1. /\ p.settled \subseteq DOMAIN score /\ DOMAIN score \subseteq nodes
      /\ \A x \in DOMAIN score : score[x] \in Nat
      /\ \A v \in p.settled, x \in nodes : \A e \in EdgesBetween(v, x) :
            x \in DOMAIN score /\ score[x] <= score[v] + e.weight
      /\ \A x \in DOMAIN score : x # from =>
            \E v \in p.settled : \E e \in EdgesBetween(v, x) :
               score[x] = score[v] + e.weight
  BY DEF Searching
<1>2. PICK v \in p.settled : \E e \in EdgesBetween(v, n) : score[n] = score[v] + e.weight
  BY <1>1
<1>3. PICK e \in EdgesBetween(v, n) : score[n] = score[v] + e.weight
  BY <1>2
<1>4. e \in edges /\ e.weight \in Nat /\ v \in Adjacent(n)
  BY Between
<1>5. v \in DOMAIN score /\ score[v] \in Nat /\ score[n] \in Nat /\ score[v] < score[n]
  BY <1>1, <1>3, <1>4
<1>6. v \in Met(n, score)
  BY <1>4, <1>5 DEF Met
<1>7. m \in Met(n, score) /\ \A o \in Met(n, score) : score[m] <= score[o]
  <2>. DEFINE T == {score[o] : o \in Met(n, score)}
  <2>1. T \subseteq Nat /\ T # {}
    BY <1>1, <1>6 DEF Met
  <2>2. PICK x \in T : \A y \in T : x <= y
    <3>. HIDE DEF T
    <3>. QED
      BY <2>1, Walks!LeastNumber
  <2>3. PICK o \in Met(n, score) : x = score[o]
    OBVIOUS
  <2>4. \A y \in Met(n, score) : score[o] <= score[y]
    BY <2>2, <2>3
  <2>. QED
    BY <2>4 DEF Closest
<1>. HIDE DEF m, score
<1>8. m \in Adjacent(n) /\ m \in DOMAIN score /\ score[m] <= score[v] /\ score[m] \in Nat
  BY <1>1, <1>6, <1>7 DEF Met
<1>9. score[m] < score[n]
  BY <1>5, <1>8
<1>10. ASSUME \A d \in edges : d.weight = 1 PROVE score[m] = score[n] - 1
  <2>1. e.weight = 1
    BY <1>4, <1>10
  <2>2. score[v] = score[n] - 1
    BY <1>3, <1>5, <2>1
  <2>3. m \in p.settled
    <3>1. CASE m \in Unsettled(p)
      <4>1. to \in Unsettled(p) /\ score[to] <= score[m]
        BY <3>1 DEF Done, score
      <4>2. score[to] \in Nat /\ score[n] <= score[to]
        BY <1>1 DEF score
      <4>. QED
        BY <1>5, <1>8, <1>9, <4>1, <4>2
    <3>. QED
      BY <1>8, <3>1 DEF Unsettled, score
  <2>4. n \in nodes /\ m \in nodes /\ n \in Adjacent(m)
    BY <1>8, Neighbours
  <2>5. PICK d \in edges : d \in EdgesBetween(m, n)
    BY <2>4, Between
  <2>6. score[n] <= score[m] + d.weight /\ d.weight = 1
    BY <1>1, <1>10, <2>3, <2>4, <2>5
  <2>. QED
    BY <1>5, <1>8, <2>2, <2>6
<1>. QED
  BY <1>8, <1>9, <1>10 DEF m, score

\* Whatever the edges weigh, the walk back has a first node.
Beginning(path, k, c) == \E S : path \in Seq(S) /\ path # <<>>

Begins == INSTANCE FoldInduction WITH Step <- Nearer, Holds <- Beginning

\* So a path is found to every node that the search met.
LEMMA PathStarts ==
    ASSUME GraphFinite, NEW from, NEW to, to \in DOMAIN Distances(from, to)
    PROVE  ShortestPath(from, to) # <<>>
<1>. DEFINE rounds == [i \in 1..Cardinality(nodes) |-> i]
            w == <<Distances(from, to), from>>
            path == Begins!Fold(<<to>>, rounds, w)
<1>1. Len(rounds) \in Nat /\ rounds \in Seq(Nat)
  BY FS_CardinalityType DEF GraphFinite
<1>2. ShortestPath(from, to) = path
  <2>1. w[1] = Distances(from, to) /\ w[2] = from
    OBVIOUS
  <2>. HIDE DEF w
  <2>. QED
    BY <2>1 DEF ShortestPath, Nearer, Met, Closest, Begins!Fold, FoldLeft, MapThenFoldSet,
       Begins!FoldLeft, Begins!MapThenFoldSet, Max, Begins!Max
<1>3. Beginning(<<to>>, 0, <<>>)
  <2>1. <<to>> \in Seq({to}) /\ <<to>> # <<>>
    OBVIOUS
  <2>. QED
    BY <2>1 DEF Beginning
<1>4. ASSUME NEW r, NEW k, Beginning(r, k, <<>>), NEW i
      PROVE  Beginning(Nearer(r, i, w), k + 1, <<>>)
  <2>1. PICK S : r \in Seq(S) /\ r # <<>>
    BY <1>4 DEF Beginning
  <2>2. ASSUME NEW m PROVE \E T : <<m>> \o r \in Seq(T) /\ <<m>> \o r # <<>>
    <3>1. <<m>> \in Seq(S \cup {m}) /\ r \in Seq(S \cup {m})
      BY <2>1
    <3>2. <<m>> \o r \in Seq(S \cup {m}) /\ Len(<<m>> \o r) = 1 + Len(r)
      BY <3>1
    <3>3. <<m>> \o r # <<>>
      BY <2>1, <3>2
    <3>. QED
      BY <3>2, <3>3
  <2>. HIDE DEF w
  <2>. QED
    BY <2>1, <2>2 DEF Beginning, Nearer
<1>. HIDE DEF rounds, w, path
<1>5. Beginning(path, Len(rounds), <<>>)
  BY <1>1, <1>3, <1>4, Begins!FoldHolds DEF path
<1>. QED
  BY <1>2, <1>5 DEF Beginning

\* A step of the walk leads to a neighbour that is nearer.
LEMMA NearerWalks ==
    ASSUME GraphFinite, NEW from \in nodes, NEW to, NEW p,
           Searching(p, Cardinality(nodes), <<from, to>>), Done(p, to),
           \A e \in edges : e.weight > 0, to \in DOMAIN p.score,
           NEW k \in Nat, NEW path, Walking(path, k, <<p.score, from, to>>), NEW i
    PROVE  Walking(Nearer(path, i, <<p.score, from>>), k + 1, <<p.score, from, to>>)
<1>. DEFINE score == p.score
            c == <<score, from, to>>
            first == path[1]
            m == Closest(first, score)
            longer == <<m>> \o path
<1>1. c[1] = score /\ c[2] = from /\ c[3] = to
  OBVIOUS
<1>2. /\ path \in Seq(nodes) /\ Len(path) >= 1 /\ path[Len(path)] = to
      /\ first \in DOMAIN score /\ Cardinality(NotNearer(first, score)) >= Len(path)
      /\ score[first] <= score[to]
      /\ (\A e \in edges : e.weight = 1) => Len(path) = score[to] - score[first] + 1
      /\ \A j \in 1..(Len(path) - 1) : path[j + 1] \in Adjacent(path[j])
      /\ first = from \/ Len(path) = k + 1
  BY <1>1 DEF Walking
<1>3. DOMAIN score \subseteq nodes /\ \A x \in DOMAIN score : score[x] \in Nat
  BY DEF Searching
<1>4. CASE first = from
  <2>1. Nearer(path, i, <<score, from>>) = path
    BY <1>4 DEF Nearer
  <2>. HIDE DEF c, first, score
  <2>. QED
    BY <1>1, <1>2, <1>4, <2>1 DEF Walking, c, first, score
<1>5. CASE first # from
  <2>1. /\ m \in Adjacent(first) /\ m \in DOMAIN score /\ score[m] < score[first]
        /\ (\A e \in edges : e.weight = 1) => score[m] = score[first] - 1
    BY <1>2, <1>5, ClosestIsNearer
  <2>2. m # first
    BY <1>2, <1>3, <2>1
  <2>3. Nearer(path, i, <<score, from>>) = longer
    BY <1>5, <2>2 DEF Nearer
  <2>4. m \in nodes /\ first \in Adjacent(m)
    BY <2>1, Neighbours
  <2>5. Cardinality(NotNearer(m, score)) >= Len(path) + 1
    <3>. DEFINE A == NotNearer(first, score)
                B == NotNearer(m, score)
    <3>. HIDE DEF m, first, score
    <3>1. score[m] \in Nat /\ score[first] \in Nat
      BY <1>2, <1>3, <2>1
    <3>2. A \subseteq B /\ m \in B /\ m \notin A
      BY <1>3, <2>1, <3>1 DEF NotNearer
    <3>3. IsFiniteSet(B)
      <4>1. B \subseteq nodes
        BY <1>3 DEF NotNearer
      <4>. QED
        BY <4>1, FS_Subset DEF GraphFinite
    <3>. HIDE DEF A, B
    <3>4. /\ Cardinality(A) <= Cardinality(B) /\ Cardinality(A) # Cardinality(B)
          /\ IsFiniteSet(A)
      BY <3>2, <3>3, FS_Subset
    <3>5. Cardinality(A) \in Nat /\ Cardinality(B) \in Nat /\ Cardinality(A) >= Len(path)
      BY <1>2, <3>3, <3>4, FS_CardinalityType DEF A
    <3>6. Cardinality(B) >= Len(path) + 1
      BY <1>2, <3>4, <3>5
    <3>. QED
      BY <3>6 DEF B
  <2>. HIDE DEF m, first
  <2>6. /\ longer \in Seq(nodes) /\ Len(longer) = Len(path) + 1 /\ longer[1] = m
        /\ \A j \in 1..Len(path) : longer[j + 1] = path[j]
    BY <1>2, <2>4
  <2>. HIDE DEF longer
  <2>7. longer[Len(longer)] = to
    BY <1>2, <2>6
  <2>8. \A j \in 1..(Len(longer) - 1) : longer[j + 1] \in Adjacent(longer[j])
    <3>. SUFFICES ASSUME NEW j \in 1..(Len(longer) - 1)
                  PROVE  longer[j + 1] \in Adjacent(longer[j])
      OBVIOUS
    <3>1. j \in 1..Len(path) /\ longer[j + 1] = path[j]
      BY <1>2, <2>6
    <3>2. CASE j = 1
      BY <2>4, <2>6, <3>1, <3>2 DEF first
    <3>3. CASE j # 1
      <4>1. j - 1 \in 1..(Len(path) - 1) /\ (j - 1) + 1 = j
        BY <1>2, <3>1, <3>3
      <4>2. j - 1 \in 1..Len(path)
        BY <1>2, <4>1
      <4>3. longer[(j - 1) + 1] = path[j - 1]
        BY <2>6, <4>2
      <4>4. path[(j - 1) + 1] \in Adjacent(path[j - 1])
        BY <1>2, <4>1
      <4>. QED
        BY <3>1, <4>1, <4>3, <4>4
    <3>. QED
      BY <3>2, <3>3
  <2>9. score[to] \in Nat /\ score[first] \in Nat /\ score[m] \in Nat
    BY <1>2, <1>3, <2>1
  <2>10. (\A e \in edges : e.weight = 1) => Len(longer) = score[to] - score[m] + 1
    BY <1>2, <2>1, <2>6, <2>9
  <2>11. Len(longer) >= 1 /\ Len(longer) = (k + 1) + 1 /\ score[m] <= score[to]
    BY <1>2, <1>5, <2>1, <2>6, <2>9
  <2>. HIDE DEF c, score
  <2>. QED
    BY <1>1, <2>1, <2>3, <2>5, <2>6, <2>7, <2>8, <2>10, <2>11 DEF Walking, c, score
<1>. QED
  BY <1>4, <1>5

\* The walk ends at the source.
LEMMA PathLeads ==
    ASSUME GraphFinite, NEW from \in nodes, NEW to, to \in DOMAIN Distances(from, to),
           \A e \in edges : e.weight > 0
    PROVE  LET path == ShortestPath(from, to)
           IN  /\ path \in Seq(nodes) /\ Len(path) >= 1
               /\ path[1] = from /\ path[Len(path)] = to
               /\ \A i \in 1..(Len(path) - 1) : path[i + 1] \in Adjacent(path[i])
               /\ (\A e \in edges : e.weight = 1) => Len(path) = Distances(from, to)[to] + 1
<1>. DEFINE score == Distances(from, to)
            size == Cardinality(nodes)
            rounds == [i \in 1..size |-> i]
            w == <<score, from>>
            c == <<score, from, to>>
            path == Walks!Fold(<<to>>, rounds, w)
<1>1. PICK p : p.score = score /\ Searching(p, size, <<from, to>>) /\ Done(p, to)
  BY DistancesSearch
<1>2. size \in Nat /\ rounds \in Seq(Nat) /\ Len(rounds) = size
  BY FS_CardinalityType DEF GraphFinite
<1>3. ShortestPath(from, to) = path
  BY PathFolds
<1>. HIDE DEF score, rounds, path, size
<1>4. /\ to \in DOMAIN score /\ DOMAIN score \subseteq nodes
      /\ \A n \in DOMAIN score : score[n] \in Nat
      /\ from \in DOMAIN score /\ score[from] = 0
  BY <1>1 DEF Searching, score
<1>5. Walking(<<to>>, 0, c)
  <2>1. <<to>> \in Seq(nodes) /\ Len(<<to>>) = 1 /\ <<to>>[1] = to
    BY <1>4
  <2>2. c[1] = score /\ c[3] = to
    OBVIOUS
  <2>3. score[to] \in Nat
    BY <1>4
  <2>4. Cardinality(NotNearer(to, score)) >= 1
    <3>1. to \in NotNearer(to, score) /\ NotNearer(to, score) \subseteq nodes
      BY <1>4, <2>3 DEF NotNearer
    <3>2. IsFiniteSet(NotNearer(to, score))
      BY <3>1, FS_Subset DEF GraphFinite
    <3>3. Cardinality(NotNearer(to, score)) # 0 /\ Cardinality(NotNearer(to, score)) \in Nat
      BY <3>1, <3>2, FS_EmptySet, FS_CardinalityType
    <3>. QED
      BY <3>3
  <2>. HIDE DEF c
  <2>. QED
    BY <1>4, <2>1, <2>2, <2>3, <2>4 DEF Walking
<1>6. ASSUME NEW k \in 0..(Len(rounds)-1), NEW r, Walking(r, k, c)
      PROVE  Walking(Nearer(r, rounds[k+1], w), k+1, c)
  <2>1. k \in Nat
    BY <1>2
  <2>. QED
    BY <1>1, <1>4, <1>6, <2>1, NearerWalks DEF size
<1>7. Walking(path, Len(rounds), c)
  <2>. HIDE DEF c, w
  <2>. QED
    BY <1>2, <1>5, <1>6, Walks!FoldHolds DEF path
<1>8. /\ path \in Seq(nodes) /\ Len(path) >= 1 /\ path[Len(path)] = to
      /\ path[1] \in DOMAIN score /\ Cardinality(NotNearer(path[1], score)) >= Len(path)
      /\ (\A e \in edges : e.weight = 1) => Len(path) = score[to] - score[path[1]] + 1
      /\ \A i \in 1..(Len(path) - 1) : path[i + 1] \in Adjacent(path[i])
      /\ path[1] = from \/ Len(path) = size + 1
  BY <1>2, <1>7 DEF Walking
<1>9. path[1] = from
  <2>1. NotNearer(path[1], score) \subseteq nodes
    BY <1>4 DEF NotNearer
  <2>2. /\ Cardinality(NotNearer(path[1], score)) <= size
        /\ Cardinality(NotNearer(path[1], score)) \in Nat
    BY <2>1, FS_Subset, FS_CardinalityType DEF GraphFinite, size
  <2>. QED
    BY <1>2, <1>8, <2>2
<1>10. (\A e \in edges : e.weight = 1) => Len(path) = score[to] + 1
  BY <1>4, <1>8, <1>9
<1>. QED
  BY <1>3, <1>8, <1>9, <1>10 DEF score

\* When all edges weigh 1, the score of the goal is its number of hops.
LEMMA ScoreIsHops ==
    ASSUME GraphFinite, NEW from \in nodes, NEW to, \A e \in edges : e.weight = 1,
           to \in DOMAIN Hops(from)
    PROVE  to \in DOMAIN Distances(from, to) /\ Distances(from, to)[to] = Hops(from)[to]
<1>. DEFINE score == Distances(from, to)
            hops == Hops(from)
            size == Cardinality(nodes)
<1>1. PICK p : p.score = score /\ Searching(p, size, <<from, to>>) /\ Done(p, to)
  BY DistancesSearch
<1>2. Measuring(hops, size, from) /\ ReachedFrom(from, DOMAIN hops)
  BY HopsMeasure
<1>3. size \in Nat
  BY FS_CardinalityType DEF GraphFinite
<1>4. DOMAIN score \subseteq DOMAIN hops
  BY <1>1, <1>2, GoalIsMet
<1>5. to \in DOMAIN score
  BY <1>1, <1>2, GoalIsMet
<1>. HIDE DEF score, hops
<1>6. /\ from \in DOMAIN hops /\ hops[from] = 0 /\ DOMAIN hops \subseteq nodes
      /\ \A m \in DOMAIN hops : hops[m] \in Nat
      /\ \A m, o \in DOMAIN hops : o \in Adjacent(m) => hops[o] <= hops[m] + 1
      /\ \A m \in DOMAIN hops : m # from =>
            \E o \in Adjacent(m) : o \in DOMAIN hops /\ hops[m] = hops[o] + 1
  BY <1>2, <1>3 DEF Measuring
<1>. HIDE DEF size
<1>7. /\ p.settled \subseteq DOMAIN score
      /\ \A x \in DOMAIN score : score[x] \in Nat
      /\ from \in DOMAIN score /\ score[from] = 0
      /\ \A v \in p.settled, x \in nodes : \A e \in EdgesBetween(v, x) :
            x \in DOMAIN score /\ score[x] <= score[v] + e.weight
      /\ \A x \in DOMAIN score : x # from =>
            \E v \in p.settled : \E e \in EdgesBetween(v, x) :
               score[x] = score[v] + e.weight
  BY <1>1 DEF Searching
<1>8. hops[to] <= score[to]
  <2>. DEFINE T == {score[x] : x \in {y \in DOMAIN score : ~(hops[y] <= score[y])}}
  <2>1. SUFFICES ASSUME ~(hops[to] <= score[to]) PROVE FALSE
    OBVIOUS
  <2>2. T \subseteq Nat /\ T # {}
    BY <1>5, <1>7, <2>1
  <2>3. PICK t \in T : \A u \in T : t <= u
    <3>. HIDE DEF T
    <3>. QED
      BY <2>2, Walks!LeastNumber
  <2>4. PICK x \in DOMAIN score : ~(hops[x] <= score[x]) /\ t = score[x]
    OBVIOUS
  <2>5. x # from
    BY <1>6, <1>7, <2>4
  <2>6. PICK v \in p.settled : \E e \in EdgesBetween(v, x) : score[x] = score[v] + e.weight
    BY <1>7, <2>5
  <2>7. score[x] = score[v] + 1 /\ x \in Adjacent(v)
    BY <2>6, Between
  <2>8. v \in DOMAIN score /\ v \in DOMAIN hops /\ x \in DOMAIN hops
    BY <1>4, <1>7
  <2>9. hops[v] <= score[v]
    <3>1. ~(hops[v] <= score[v]) => score[x] <= score[v]
      BY <2>3, <2>4, <2>8
    <3>2. score[v] \in Nat /\ score[x] \in Nat
      BY <1>7, <2>8
    <3>. QED
      BY <2>7, <3>1, <3>2
  <2>10. hops[x] <= hops[v] + 1
    BY <1>6, <2>7, <2>8
  <2>11. hops[x] \in Nat /\ hops[v] \in Nat /\ score[v] \in Nat /\ score[x] \in Nat
    BY <1>6, <1>7, <2>8
  <2>. QED
    BY <2>4, <2>7, <2>9, <2>10, <2>11
<1>9. score[to] <= hops[to]
  <2>. DEFINE Fine(m) == m \in DOMAIN score /\ score[m] <= hops[m]
              T == {hops[x] : x \in {y \in DOMAIN hops : ~(score[to] <= hops[y]) /\ ~Fine(y)}}
  <2>1. SUFFICES ASSUME ~(score[to] <= hops[to]) PROVE FALSE
    OBVIOUS
  <2>2. to \in DOMAIN hops
    BY <1>4, <1>5
  <2>3. T \subseteq Nat /\ T # {}
    BY <1>6, <2>1, <2>2
  <2>4. PICK t \in T : \A u \in T : t <= u
    <3>. HIDE DEF T
    <3>. QED
      BY <2>3, Walks!LeastNumber
  <2>5. PICK m \in DOMAIN hops : ~(score[to] <= hops[m]) /\ ~Fine(m) /\ t = hops[m]
    OBVIOUS
  <2>6. m # from
    BY <1>6, <1>7, <2>5
  <2>7. PICK o \in Adjacent(m) : o \in DOMAIN hops /\ hops[m] = hops[o] + 1
    BY <1>6, <2>6
  <2>8. hops[m] \in Nat /\ hops[o] \in Nat /\ score[to] \in Nat
    BY <1>5, <1>6, <1>7, <2>7
  <2>9. Fine(o)
    <3>1. ~(score[to] <= hops[o])
      BY <2>5, <2>7, <2>8
    <3>2. ~Fine(o) => hops[m] <= hops[o]
      BY <2>4, <2>5, <2>7, <3>1
    <3>. QED
      BY <2>7, <2>8, <3>2
  <2>10. CASE o \in p.settled
    <3>1. m \in nodes /\ m \in Adjacent(o)
      BY <1>6, Neighbours
    <3>2. PICK e \in edges : e \in EdgesBetween(o, m)
      BY <3>1, Between
    <3>3. m \in DOMAIN score /\ score[m] <= score[o] + 1
      BY <1>7, <2>10, <3>1, <3>2
    <3>4. score[m] \in Nat /\ score[o] \in Nat
      BY <1>7, <2>9, <3>3
    <3>. QED
      BY <2>5, <2>7, <2>8, <2>9, <3>3, <3>4
  <2>11. CASE o \notin p.settled
    <3>1. score[to] <= score[o] /\ score[o] \in Nat
      BY <1>1, <1>7, <2>9, <2>11 DEF Done, Unsettled
    <3>. QED
      BY <2>5, <2>7, <2>8, <2>9, <3>1
  <2>. QED
    BY <2>10, <2>11
<1>10. score[to] \in Nat /\ hops[to] \in Nat
  BY <1>4, <1>5, <1>6, <1>7
<1>. QED
  BY <1>5, <1>8, <1>9, <1>10 DEF score, hops

\* Paths are found within clusters, lead along edges, and none has fewer edges
\* where all weigh 1.
LEMMA PathsAreFound == GraphFinite => PathIsFound
<1>. SUFFICES ASSUME GraphFinite, NEW from \in nodes, NEW to \in nodes
              PROVE  LET path == ShortestPath(from, to)
                         cluster == CHOOSE s \in Clusters : from \in s
                     IN  /\ path = <<>> <=> to \notin cluster
                         /\ (path # <<>> /\ \A e \in edges : e.weight > 0) =>
                            /\ path[1] = from /\ path[Len(path)] = to
                            /\ \A i \in 1..(Len(path) - 1) : path[i + 1] \in Adjacent(path[i])
                         /\ (path # <<>> /\ \A e \in edges : e.weight = 1) =>
                            Len(path) = Hops(from)[to] + 1
  BY DEF PathIsFound
<1>. DEFINE cluster == CHOOSE s \in Clusters : from \in s
            path == ShortestPath(from, to)
<1>1. cluster \in Clusters /\ from \in cluster
  BY ClustersReached
<1>. HIDE DEF cluster
<1>2. ReachedFrom(from, cluster)
  BY <1>1, ClustersReached
<1>3. cluster = DOMAIN Hops(from)
  BY <1>2, HopsMeasure, ReachedOnce
<1>4. to \in cluster <=> to \in DOMAIN Distances(from, to)
  <2>1. PICK p : /\ p.score = Distances(from, to)
                 /\ Searching(p, Cardinality(nodes), <<from, to>>) /\ Done(p, to)
    BY DistancesSearch
  <2>. QED
    BY <1>2, <2>1, GoalIsMet
<1>5. path = <<>> <=> to \notin cluster
  <2>1. CASE to \notin cluster
    BY <1>4, <2>1 DEF ShortestPath
  <2>2. CASE to \in cluster
    <3>1. path # <<>>
      BY <1>4, <2>2, PathStarts
    <3>. QED
      BY <2>2, <3>1
  <2>. QED
    BY <2>1, <2>2
<1>6. ASSUME path # <<>>, \A e \in edges : e.weight > 0
      PROVE  /\ path[1] = from /\ path[Len(path)] = to
             /\ \A i \in 1..(Len(path) - 1) : path[i + 1] \in Adjacent(path[i])
  BY <1>4, <1>5, <1>6, PathLeads
<1>7. ASSUME path # <<>>, \A e \in edges : e.weight = 1
      PROVE  Len(path) = Hops(from)[to] + 1
  <2>1. to \in DOMAIN Distances(from, to) /\ to \in DOMAIN Hops(from)
    BY <1>3, <1>4, <1>5, <1>7
  <2>2. \A e \in edges : e.weight > 0
    BY <1>7
  <2>3. Len(path) = Distances(from, to)[to] + 1
    BY <1>7, <2>1, <2>2, PathLeads
  <2>. QED
    BY <1>7, <2>1, <2>3, ScoreIsHops
<1>. HIDE DEF path
<1>. QED
  BY <1>5, <1>6, <1>7 DEF cluster, path

\* The neighbours of a walk are as near to its start as its steps allow.
LEMMA WalksReach ==
    ASSUME GraphFinite, NEW from \in nodes, NEW walk \in Seq(nodes), Len(walk) >= 1,
           walk[1] = from,
           \A i \in 1..(Len(walk) - 1) : walk[i + 1] \in Adjacent(walk[i])
    PROVE  /\ walk[Len(walk)] \in DOMAIN Hops(from)
           /\ Hops(from)[walk[Len(walk)]] <= Len(walk) - 1
<1>. DEFINE distance == Hops(from)
            n == Len(walk)
            P == {i \in Nat : i + 1 <= n =>
                    walk[i + 1] \in DOMAIN distance /\ distance[walk[i + 1]] <= i}
<1>1. Measuring(distance, Cardinality(nodes), from) /\ EdgeClosed(DOMAIN distance)
  BY HopsMeasure DEF ReachedFrom
<1>. HIDE DEF distance
<1>2. n \in Nat /\ n >= 1 /\ Cardinality(nodes) \in Nat
  BY FS_CardinalityType DEF GraphFinite
<1>3. /\ from \in DOMAIN distance /\ distance[from] = 0
      /\ \A m \in DOMAIN distance : distance[m] \in Nat
      /\ \A m, o \in DOMAIN distance : o \in Adjacent(m) => distance[o] <= distance[m] + 1
      /\ \A m \in DOMAIN distance : \A o \in Adjacent(m) : o \in DOMAIN distance
  BY <1>1, <1>2 DEF Measuring, EdgeClosed
<1>4. 0 \in P
  BY <1>3
<1>5. ASSUME NEW i \in P PROVE i + 1 \in P
  <2>1. CASE i + 1 + 1 <= n
    <3>1. walk[i + 1] \in DOMAIN distance /\ distance[walk[i + 1]] <= i
      BY <1>2, <2>1
    <3>2. i + 1 \in 1..(n - 1) /\ walk[(i + 1) + 1] \in Adjacent(walk[i + 1])
      BY <1>2, <2>1
    <3>3. /\ walk[(i + 1) + 1] \in DOMAIN distance
          /\ distance[walk[(i + 1) + 1]] <= distance[walk[i + 1]] + 1
          /\ distance[walk[(i + 1) + 1]] \in Nat /\ distance[walk[i + 1]] \in Nat
      BY <1>3, <3>1, <3>2
    <3>. QED
      BY <3>1, <3>3
  <2>2. CASE ~(i + 1 + 1 <= n)
    BY <2>2
  <2>. QED
    BY <2>1, <2>2
<1>. HIDE DEF P
<1>6. P \in SUBSET Nat
  BY DEF P
<1>7. P = Nat
  BY <1>4, <1>5, <1>6, Spreads!SetInduction
<1>8. n - 1 \in Nat /\ (n - 1) + 1 = n
  BY <1>2
<1>9. n - 1 \in P
  BY <1>7, <1>8
<1>10. walk[n] \in DOMAIN distance /\ distance[walk[n]] <= n - 1
  BY <1>2, <1>8, <1>9 DEF P
<1>. QED
  BY <1>10 DEF distance

-----------------------------------------------------------------------------
(* The services together *)

\* A step of the services is a step or a stutter of each of them.
LEMMA OneServiceMoves ==
    StatefulInit /\ [][StatefulNext]_statefulVars =>
        /\ PeersInit /\ [][PeersNext]_peerVars
        /\ GitInit /\ [][GitNext]_gitVars
        /\ GraphInit /\ [][GraphNext]_graphVars
        /\ PluginsInit /\ [][PluginsNext]_pluginVars
<1>1. [StatefulNext]_statefulVars =>
        /\ [PeersNext]_peerVars /\ [GitNext]_gitVars
        /\ [GraphNext]_graphVars /\ [PluginsNext]_pluginVars
  BY DEF StatefulNext, statefulVars
<1>. QED
  BY <1>1, PTL DEF StatefulInit

\* ServicesTypeOK: queues, repositories, the graph and the plugins keep their types.
THEOREM ServicesTypeCorrect == StatefulSpec => []ServicesTypeOK
<1>1. PeersInv => PeersTypeOK
  BY DEF PeersInv, PeerTypes
<1>2. PluginsInv => PluginsTypeOK
  BY DEF PluginsInv
<1>3. PeersTypeOK /\ GitTypeOK /\ GraphTypeOK /\ PluginsTypeOK => ServicesTypeOK
  BY DEF ServicesTypeOK
<1>. QED
  BY <1>1, <1>2, <1>3, OneServiceMoves, PeersInvariance, GitTypeCorrect, EdgesAmongNodes,
     PluginsInvariance, PTL
     DEF StatefulSpec, GitSpec, GraphSpec, PluginsSpec

\* TwoSidesAgree: after a stop nothing is left in a node's queue, a node that read
\* its events shows only peers it has a connection to, and every loaded plugin has
\* its instance.
THEOREM SidesAgree == StatefulSpec => []TwoSidesAgree
<1>1. PluginsInv => EnabledRuns
  BY DEF PluginsInv
<1>2. PeersInv /\ PluginsInv => TwoSidesAgree
  BY <1>1, ReadToTheEnd DEF TwoSidesAgree
<1>. QED
  BY <1>2, OneServiceMoves, PeersInvariance, PluginsInvariance, PTL
     DEF StatefulSpec, PluginsSpec

\* SearchesExact: whatever nodes and edges the graph has, clusters are what the
\* searches reach, a path is found within them, leads along edges unless some edge
\* weighs nothing and has the fewest edges when all weigh 1, and what is related
\* is near.
THEOREM SearchesAreExact == StatefulSpec => []SearchesExact
<1>1. GraphFinite => SearchesExact
  BY ClustersAgree, PathsAreFound, RelatedAreNear DEF SearchesExact
<1>. QED
  BY <1>1, OneServiceMoves, GraphIsFinite, PTL DEF StatefulSpec

\* Every walk along edges, of any length, from one node to another, in a graph as
\* build_graph makes it.
WalksBound ==
    (\A e \in edges : e.weight = 1) =>
    \A walk \in Seq(nodes) :
       (/\ Len(walk) >= 1
        /\ \A i \in 1..(Len(walk) - 1) : walk[i + 1] \in Adjacent(walk[i]))
       => /\ ShortestPath(walk[1], walk[Len(walk)]) # <<>>
          /\ Len(ShortestPath(walk[1], walk[Len(walk)])) <= Len(walk)

\* While every edge weighs 1, no walk along edges between two nodes is shorter than
\* the path that is found, and where there is a walk a path is found.
THEOREM NoWalkIsShorter == StatefulSpec => []WalksBound
<1>1. ASSUME GraphFinite, \A e \in edges : e.weight = 1,
             NEW walk \in Seq(nodes), Len(walk) >= 1,
             \A i \in 1..(Len(walk) - 1) : walk[i + 1] \in Adjacent(walk[i])
      PROVE  /\ ShortestPath(walk[1], walk[Len(walk)]) # <<>>
             /\ Len(ShortestPath(walk[1], walk[Len(walk)])) <= Len(walk)
  <2>. DEFINE from == walk[1]
              to == walk[Len(walk)]
              path == ShortestPath(from, to)
  <2>1. from \in nodes /\ Len(walk) \in Nat
    BY <1>1
  <2>2. to \in DOMAIN Hops(from) /\ Hops(from)[to] <= Len(walk) - 1
    BY <1>1, <2>1, WalksReach
  <2>. HIDE DEF from, to
  <2>3. to \in DOMAIN Distances(from, to) /\ Distances(from, to)[to] = Hops(from)[to]
    BY <1>1, <2>1, <2>2, ScoreIsHops
  <2>4. \A e \in edges : e.weight > 0
    BY <1>1
  <2>5. path \in Seq(nodes) /\ Len(path) >= 1 /\ Len(path) = Hops(from)[to] + 1
    BY <1>1, <2>1, <2>3, <2>4, PathLeads
  <2>6. Hops(from)[to] \in Int
    <3>1. Measuring(Hops(from), Cardinality(nodes), from)
      BY <1>1, <2>1, HopsMeasure
    <3>. QED
      BY <2>2, <3>1 DEF Measuring
  <2>. HIDE DEF path
  <2>7. path # <<>> /\ Len(path) <= Len(walk)
    BY <2>1, <2>2, <2>5, <2>6
  <2>. QED
    BY <2>7 DEF path, from, to
<1>2. GraphFinite => WalksBound
  BY <1>1 DEF WalksBound
<1>. QED
  BY <1>2, OneServiceMoves, GraphIsFinite, PTL DEF StatefulSpec
=============================================================================
