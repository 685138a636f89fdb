------------------------------ MODULE GitSync ------------------------------
(***************************************************************************)
(* Synchronising notes through GitHub, as the workflow extension does it   *)
(* with git commands: commit, switch to the configured branch, push, and   *)
(* pull.  git and the hosted repository are external.  A branch is the set *)
(* of commits it reaches, so a push is a fast-forward when it leaves       *)
(* nothing of the remote branch out.                                       *)
(***************************************************************************)
EXTENDS Naturals, FiniteSets

CONSTANTS
    Machines,
    MaxCommits   \* bound: commits made on all machines

ASSUME GitAssumption == MaxCommits \in Nat

VARIABLES
    hosted,    \* the commits of the configured branch on GitHub
    repos,     \* each machine's repository
    syncs,     \* where each machine is in sync_to_github
    commits    \* how many commits there are

gitVars == <<hosted, repos, syncs, commits>>

Branches == {"configured", "topic"}

NoSync == [step |-> "none"]

GitInit ==
    /\ hosted = {}
    /\ repos = [m \in Machines |->
          [current |-> "configured", dirty |-> FALSE, merging |-> {},
           heads |-> [b \in Branches |-> {}]]]
    /\ syncs = [m \in Machines |-> NoSync]
    /\ commits = 0

HeadOf(m) == repos[m].heads[repos[m].current]

(* The user, in the editor and with checkout and branch of GitManager. *)

EditNotes(m) ==
    /\ ~repos[m].dirty
    /\ repos' = [repos EXCEPT ![m].dirty = TRUE]
    /\ UNCHANGED <<hosted, syncs, commits>>

\* checkout -b and checkout, which refuses to leave an unfinished merge.
SwitchBranch(m) ==
    \E b \in Branches \ {repos[m].current} :
        /\ syncs[m] = NoSync
        /\ repos[m].merging = {}
        /\ repos' = [repos EXCEPT ![m].current = b,
              ![m].heads[b] = IF @ = {} THEN HeadOf(m) ELSE @]
        /\ UNCHANGED <<hosted, syncs, commits>>

(* sync_to_github. *)

\* Variant: two commits get one name.
CommitAgain(m) ==
    /\ syncs[m] = NoSync
    /\ repos[m].dirty
    /\ commits < MaxCommits
    /\ LET all == HeadOf(m) \cup repos[m].merging \cup {commits + 1}
       IN  /\ repos' = [repos EXCEPT ![m].dirty = FALSE, ![m].merging = {},
                          ![m].heads[repos[m].current] = all]
           /\ syncs' = [syncs EXCEPT ![m] = [step |-> "branch", of |-> all]]
    /\ UNCHANGED <<hosted, commits>>

\* Without changes git commit fails, and the sync ends with its error.
Commit(m) ==
    /\ syncs[m] = NoSync
    /\ repos[m].dirty
    /\ commits < MaxCommits
    /\ LET all == HeadOf(m) \cup repos[m].merging \cup {commits + 1}
       IN  /\ repos' = [repos EXCEPT ![m].dirty = FALSE, ![m].merging = {},
                          ![m].heads[repos[m].current] = all]
           /\ syncs' = [syncs EXCEPT ![m] = [step |-> "branch", of |-> all]]
    /\ commits' = commits + 1
    /\ UNCHANGED hosted

\* Variant: checkout in place of checkout -B.
EnsureBranchSwitches(m) ==
    /\ syncs[m].step = "branch"
    /\ repos' = [repos EXCEPT ![m].current = "configured"]
    /\ syncs' = [syncs EXCEPT ![m].step = "push"]
    /\ UNCHANGED <<hosted, commits>>

\* checkout -B moves the configured branch to the current commit.
EnsureBranch(m) ==
    /\ syncs[m].step = "branch"
    /\ repos' = [repos EXCEPT ![m].current = "configured",
                              ![m].heads["configured"] = HeadOf(m)]
    /\ syncs' = [syncs EXCEPT ![m].step = "push"]
    /\ UNCHANGED <<hosted, commits>>

Delivered(m) ==
    /\ hosted' = repos[m].heads["configured"]
    /\ syncs' = [syncs EXCEPT ![m].step = "done"]

\* Variant: every push is forced.
PushForced(m) ==
    /\ syncs[m].step = "push"
    /\ Delivered(m)
    /\ UNCHANGED <<repos, commits>>

\* The branch of the repository only ever moves forward in a push.
Push(m) ==
    /\ syncs[m].step = "push"
    /\ hosted \subseteq repos[m].heads["configured"]
    /\ Delivered(m)
    /\ UNCHANGED <<repos, commits>>

\* Offline, rejected, or the program ends: the sync is over, nothing is kept.
PushFails(m) ==
    /\ syncs[m].step \in {"branch", "push", "force"}
    /\ syncs' = [syncs EXCEPT ![m] = NoSync]
    /\ UNCHANGED <<hosted, repos, commits>>

\* The push is forced when git's error text says "not found" or "does not match",
\* whatever it is about and whatever the hosted branch holds.
PushNotFound(m) ==
    /\ syncs[m].step = "push"
    /\ syncs' = [syncs EXCEPT ![m].step = "force"]
    /\ UNCHANGED <<hosted, repos, commits>>

ForcePush(m) ==
    /\ syncs[m].step = "force"
    /\ Delivered(m)
    /\ UNCHANGED <<repos, commits>>

Return(m) ==
    /\ syncs[m].step = "done"
    /\ syncs' = [syncs EXCEPT ![m] = NoSync]
    /\ UNCHANGED <<hosted, repos, commits>>

(* pull_from_github merges into whatever branch is current. *)

\* Variant: the branch is reset to the one of the remote repository.
PullResets(m) ==
    /\ syncs[m] = NoSync
    /\ repos[m].merging = {}
    /\ ~(hosted \subseteq HeadOf(m))
    /\ repos' = [repos EXCEPT ![m].heads[repos[m].current] = hosted]
    /\ UNCHANGED <<hosted, syncs, commits>>

PullMerges(m) ==
    /\ syncs[m] = NoSync
    /\ repos[m].merging = {}
    /\ ~(hosted \subseteq HeadOf(m))
    /\ repos' = [repos EXCEPT ![m].heads[repos[m].current] = @ \cup hosted]
    /\ UNCHANGED <<hosted, syncs, commits>>

\* Diverged histories with conflicts: the merge stays open in the work tree.
PullConflicts(m) ==
    /\ syncs[m] = NoSync
    /\ repos[m].merging = {}
    /\ ~repos[m].dirty
    /\ ~(hosted \subseteq HeadOf(m)) /\ ~(HeadOf(m) \subseteq hosted)
    /\ repos' = [repos EXCEPT ![m].merging = hosted, ![m].dirty = TRUE]
    /\ UNCHANGED <<hosted, syncs, commits>>

GitNext ==
    \E m \in Machines :
        \/ EditNotes(m) \/ SwitchBranch(m)
        \/ Commit(m) \/ EnsureBranch(m) \/ Push(m) \/ PushFails(m)
        \/ PushNotFound(m) \/ ForcePush(m) \/ Return(m)
        \/ PullMerges(m) \/ PullConflicts(m)

GitSpec == GitInit /\ [][GitNext]_gitVars

-----------------------------------------------------------------------------
\* Repositories, syncs and the hosted branch have their types.
GitTypeOK ==
    /\ hosted \subseteq 1..commits
    /\ \A m \in Machines :
          /\ repos[m].current \in Branches /\ repos[m].dirty \in BOOLEAN
          /\ repos[m].merging \subseteq 1..commits
          /\ \A b \in Branches : repos[m].heads[b] \subseteq 1..commits
          /\ syncs[m].step \in {"none", "branch", "push", "force", "done"}

\* A sync that reports success has brought everything the machine was working
\* on to GitHub, on whichever branch it was made and whoever pushed in between.
SyncDelivers ==
    \A m \in Machines :
       syncs[m].step # "done" /\ syncs'[m].step = "done"
         => syncs[m].of \subseteq hosted'

\* What is on GitHub stays there unless a push was forced: no interleaving of
\* syncs, pulls and branch switches makes an ordinary push drop a commit.
HostedStays ==
    hosted \subseteq hosted' \/ \E m \in Machines :
       syncs[m].step = "force" /\ syncs'[m].step = "done"

\* A machine's work never leaves the repository by committing, pulling or
\* failing: only resetting the configured branch to another one can drop it.
WorkStays ==
    \A m \in Machines :
       LET reach(r) == (UNION {r.heads[b] : b \in Branches}) \cup r.merging
       IN  syncs[m].step # "branch" => reach(repos[m]) \subseteq reach(repos'[m])

\* No commit is lost on its way: a sync that answers Ok has delivered the work of
\* its machine, ordinary pushes take nothing off GitHub, and a machine keeps its
\* work until a sync resets the configured branch.
WorkKept == [][SyncDelivers /\ HostedStays /\ WorkStays]_gitVars
=============================================================================
