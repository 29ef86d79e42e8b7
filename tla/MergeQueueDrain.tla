-------------------------- MODULE MergeQueueDrain --------------------------
(***************************************************************************)
(* The drain of the durable merge queue: sessions claim lanes, apply their *)
(* patches to the canonical repositories, run the post-apply gates, commit *)
(* and mark the lanes integrated (phases/implementation.py over the worker *)
(* of execution/merge_queue.py), and recover the lanes a crashed drain     *)
(* left in flight.                                                         *)
(*                                                                         *)
(* A step is what happens between two points where another session, a      *)
(* crash or a fault can come in between: one store call or one git command *)
(* on one repository.  The store calls are the actions of MergeQueueStore. *)
(***************************************************************************)
EXTENDS MergeQueueStore, Sequences, SequencesExt

CONSTANTS
  TaskOf,       \* the one task a lane covers
  ReposOf,      \* the repositories a lane targets
  PatchOf,      \* the patch a lane applies
  NoSession,    \* nobody holds the advisory lock
  Residue,      \* an untracked file a commit hook left behind
  CrashPoints,  \* labels at which a drain process may crash
  MaxCrashes,   \* bound: crashes
  MaxFaults,    \* bound: database errors and git resets that fail
  LongSteps     \* whether a lease may run out while its holder is at work

ASSUME DrainAssumption ==
  /\ TaskOf \in [Lanes -> Tasks]
  /\ ReposOf \in [Lanes -> (SUBSET Repos) \ {{}}]
  /\ PatchOf \in [Lanes -> Patches]
  /\ NoSession \notin Sessions /\ Residue \notin Lanes
  /\ MaxCrashes \in Nat /\ MaxFaults \in Nat /\ LongSteps \in BOOLEAN

(* A commit is the history that ends in it: the lane each commit was made   *)
(* for, and what the commit took from the worktree.                         *)
History == Seq(Lanes \X SUBSET (Lanes \cup {Residue}))

ASSUME CommitsAssumption == Commits = History

VARIABLES
  lock,        \* session that holds the feature advisory lock
  head,        \* HEAD of each repository: the commits below it, oldest first
  worktree,    \* uncommitted changes: lanes whose patch is applied, Residue
  drive,       \* what each session is doing
  crashes, faults

git == <<head, worktree>>
vars == <<storeVars, lock, git, drive, crashes, faults>>

Idle == [pc |-> "idle", lane |-> NoLane, version |-> 0, todo |-> {},
         repo |-> NoLane, made |-> NoCommit, rows |-> [r \in Repos |-> "none"],
         cause |-> "none"]

At(w, label) == drive[w].pc = label
Lane(w) == drive[w].lane
Goto(w, label) == drive' = [drive EXCEPT ![w].pc = label]
GoIdle(w) == drive' = [drive EXCEPT ![w] = Idle]

(* finally: release_feature_lock.                                           *)
Release(w) == lock' = IF lock = w THEN NoSession ELSE lock

(* Mutant: untracked files do not count.                                    *)
CleanOfTracked(r) == worktree[r] \subseteq {Residue}

Clean(r) == worktree[r] = {}

DrainInit ==
  /\ StoreInit
  /\ lock = NoSession
  /\ head = [r \in Repos |-> <<>>]
  /\ worktree = [r \in Repos |-> {}]
  /\ drive = [w \in Sessions |-> Idle]
  /\ crashes = 0 /\ faults = 0

(* git reset --hard to the recorded pre-apply heads of the lane's targets   *)
(* in R, then git clean of the patch's own paths.                           *)
ResetTo(i, R) ==
  LET S == {r \in R : pre_apply_head[i][r] # NoCommit}
  IN /\ head' = [r \in Repos |-> IF r \in S THEN pre_apply_head[i][r] ELSE head[r]]
     /\ worktree' = [r \in Repos |-> IF r \in S THEN worktree[r] \cap {Residue}
                                                ELSE worktree[r]]

(* _rollback_all of session w over the targets in R, one by one: a reset    *)
(* that fails leaves its repository as it is, and nobody is told.           *)
Undo(w, R) ==
  \/ ResetTo(Lane(w), R) /\ UNCHANGED faults
  \/ /\ faults < MaxFaults /\ faults' = faults + 1
     /\ \E S \in (SUBSET R) \ {R} : ResetTo(Lane(w), S)

(* The fenced store calls of session w, with the token it holds.            *)
Move(w, to, C) == Transition(w, Lane(w), drive[w].version, to, C)
Advance(w, r, to, c) == AdvanceRepoTarget(w, Lane(w), drive[w].version, r, to, c)
Fenced(w) == ~Fence(w, Lane(w), drive[w].version)
MoveRefused(w, to) == Fenced(w) \/ <<status[Lane(w)], to>> \notin LeaseTransitions
AdvanceRefused(w, r, to) ==
  Fenced(w) \/ <<target[Lane(w)][r], to>> \notin RepoTargetTransitions

(* A refused or failing call raises out of the worker method: the lock is   *)
(* released, nothing is rolled back, and the drain goes to its next lane.   *)
Raise(w) ==
  /\ Release(w) /\ GoIdle(w)
  /\ UNCHANGED <<storeVars, git, crashes, faults>>

----------------------------------------------------------------------------
(* The enqueue splice: one single-task lane per task, all in one outer      *)
(* transaction, so that drains see either none of them or all.              *)
Splice(i) ==
  /\ \A j \in Lanes : j < i <=> j \in Present
  /\ Enqueue(i, {TaskOf[i]}, ReposOf[i], PatchOf[i], NoLane)
  /\ UNCHANGED <<lock, git, drive, crashes, faults>>

Spliced == Present = Lanes

DrainClaim(w) ==
  /\ At(w, "idle") /\ Spliced
  /\ \E i \in Lanes :
       /\ Claim(w, i)
       /\ drive' = [drive EXCEPT ![w] = [Idle EXCEPT !.pc = "claimed", !.lane = i,
                                                     !.version = lease_version'[i]]]
  /\ UNCHANGED <<lock, git, crashes, faults>>

(* Only when claim finds nothing; recover_expired waits for the feature     *)
(* lock but holds it for its own transaction only.                          *)
DrainRecover(w) ==
  /\ At(w, "idle") /\ Spliced
  /\ ~\E i \in Lanes : Claimable(i)
  /\ lock = NoSession
  /\ \E i \in Lanes :
       /\ RecoverExpired(w, i)
       /\ drive' = IF status'[i] = "poisoned" THEN drive
                   ELSE [drive EXCEPT ![w] =
                     [Idle EXCEPT !.pc = "recovering", !.lane = i, !.cause = "recovery",
                                  !.version = lease_version'[i], !.rows = target[i],
                                  !.todo = RepoTargets(i)]]
  /\ UNCHANGED <<lock, git, crashes, faults>>

----------------------------------------------------------------------------
(* apply_candidate.                                                         *)

(* Apply inputs that do not match the repo targets: fails without the lock. *)
InputsMismatch(w) ==
  /\ At(w, "claimed")
  /\ drive' = [drive EXCEPT ![w].pc = "failing", ![w].cause = "inputs"]
  /\ UNCHANGED <<storeVars, lock, git, crashes, faults>>

LockForApply(w) ==
  /\ At(w, "claimed") /\ lock = NoSession
  /\ lock' = w
  /\ Goto(w, "baseline")
  /\ UNCHANGED <<storeVars, git, crashes, faults>>

BaselineDirty(w) ==
  /\ At(w, "baseline")
  /\ \E r \in RepoTargets(Lane(w)) : ~Clean(r)
  /\ drive' = [drive EXCEPT ![w].pc = "failing", ![w].cause = "baseline"]
  /\ UNCHANGED <<storeVars, lock, git, crashes, faults>>

(* Mutants of StartApply: the baseline is not looked at; one clean          *)
(* repository is enough.                                                    *)
StartApplyAnyhow(w) ==
  /\ At(w, "baseline") /\ Move(w, "applying", {})
  /\ drive' = [drive EXCEPT ![w].pc = "apply", ![w].todo = RepoTargets(Lane(w))]
  /\ UNCHANGED <<lock, git, crashes, faults>>

StartApply(w) ==
  /\ At(w, "baseline")
  /\ \A r \in RepoTargets(Lane(w)) : Clean(r)
  /\ \/ /\ Move(w, "applying", {})
        /\ drive' = [drive EXCEPT ![w].pc = "apply", ![w].todo = RepoTargets(Lane(w))]
        /\ UNCHANGED <<lock, git, crashes, faults>>
     \/ MoveRefused(w, "applying") /\ Raise(w)

(* No lane names an expected_head that HEAD would be compared with.         *)
RecordPreApply(w) ==
  /\ At(w, "apply")
  /\ \E r \in drive[w].todo :
       \/ /\ Advance(w, r, "pre_apply_recorded", head[r])
          /\ drive' = [drive EXCEPT ![w].pc = "patch", ![w].repo = r]
          /\ UNCHANGED <<lock, git, crashes, faults>>
       \/ AdvanceRefused(w, r, "pre_apply_recorded") /\ Raise(w)

ApplyPatch(w) ==
  /\ At(w, "patch")
  /\ worktree' = [worktree EXCEPT ![drive[w].repo] = @ \cup {Lane(w)}]
  /\ Goto(w, "patched")
  /\ UNCHANGED <<storeVars, lock, head, crashes, faults>>

(* Base not an ancestor, paths outside the contracts before or after the    *)
(* apply, or a conflict: the patch may be partly in the worktree by then.   *)
PatchRefused(w) ==
  /\ At(w, "patch")
  /\ drive' = [drive EXCEPT ![w].pc = "rollback", ![w].cause = "conflict"]
  /\ worktree' \in {worktree, [worktree EXCEPT ![drive[w].repo] = @ \cup {Lane(w)}]}
  /\ UNCHANGED <<storeVars, lock, head, crashes, faults>>

RecordApplied(w) ==
  /\ At(w, "patched")
  /\ LET r == drive[w].repo IN
       \/ /\ Advance(w, r, "applied", head[r])
          /\ drive' = [drive EXCEPT ![w].todo = @ \ {r},
                         ![w].pc = IF drive[w].todo = {r} THEN "applied" ELSE "apply"]
          /\ UNCHANGED <<lock, git, crashes, faults>>
       \/ AdvanceRefused(w, r, "applied") /\ Raise(w)

(* The lane is verifying, and the feature lock is given up.                 *)
FinishApply(w) ==
  /\ At(w, "applied")
  /\ \/ /\ Move(w, "verifying", {})
        /\ Release(w) /\ Goto(w, "reload_gates")
        /\ UNCHANGED <<git, crashes, faults>>
     \/ MoveRefused(w, "verifying") /\ Raise(w)

(* Over the repos whose pre-apply head this call has read.                  *)
RollbackAll(w) ==
  /\ At(w, "rollback")
  /\ Undo(w, RepoTargets(Lane(w)))
  /\ Goto(w, "failing")
  /\ UNCHANGED <<storeVars, lock, crashes>>

(* _fail: every repo target that is not settled, then the lane; a refused   *)
(* call ends it silently.                                                   *)
Unsettled(i) == {r \in RepoTargets(i) : target[i][r] \notin {"failed", "poisoned", "clean"}}

FailTarget(w) ==
  /\ At(w, "failing")
  /\ \E r \in Unsettled(Lane(w)) :
       \/ /\ Advance(w, r, "failed", NoCommit)
          /\ UNCHANGED <<lock, git, drive, crashes, faults>>
       \/ AdvanceRefused(w, r, "failed") /\ Raise(w)

FailLane(w) ==
  /\ At(w, "failing")
  /\ Unsettled(Lane(w)) = {}
  /\ \/ /\ Move(w, "failed", {})
        /\ Release(w) /\ GoIdle(w)
        /\ UNCHANGED <<git, crashes, faults>>
     \/ MoveRefused(w, "failed") /\ Raise(w)

----------------------------------------------------------------------------
(* Between two worker methods the drain reads the row again and takes the   *)
(* lease token from what it finds there.                                    *)
Reload(w, from, to) ==
  /\ At(w, from)
  /\ drive' = [drive EXCEPT ![w].pc = to, ![w].version = lease_version[Lane(w)]]
  /\ UNCHANGED <<storeVars, lock, git, crashes, faults>>

(* run_required_gates, without the feature lock.                            *)
GatesApprove(w) ==
  /\ At(w, "gates")
  /\ \/ /\ Move(w, "committing", {})
        /\ Goto(w, "reload_commit")
        /\ UNCHANGED <<lock, git, crashes, faults>>
     \/ MoveRefused(w, "committing") /\ Raise(w)

GatesReject(w) ==
  /\ At(w, "gates")
  /\ drive' = [drive EXCEPT ![w].pc = "gate_reset", ![w].cause = "gates"]
  /\ UNCHANGED <<storeVars, lock, git, crashes, faults>>

(* Mutant: a gate failure does not reset.                                   *)
NoResetAfterGates(w) ==
  /\ At(w, "gate_reset") /\ Goto(w, "failing")
  /\ UNCHANGED <<storeVars, lock, git, crashes, faults>>

ResetAfterGates(w) ==
  /\ At(w, "gate_reset")
  /\ Undo(w, RepoTargets(Lane(w)))
  /\ Goto(w, "failing")
  /\ UNCHANGED <<storeVars, lock, crashes>>

----------------------------------------------------------------------------
(* commit_and_prove_clean.  Neither the lease nor the status is looked at   *)
(* between taking the lock and the git commit.                              *)
LockForCommit(w) ==
  /\ At(w, "commit_lock") /\ lock = NoSession
  /\ lock' = w
  /\ drive' = [drive EXCEPT ![w].pc = "commit", ![w].todo = RepoTargets(Lane(w))]
  /\ UNCHANGED <<storeVars, git, crashes, faults>>

(* Stages and commits whatever has changed in the repository.  A hook may   *)
(* leave a file behind.                                                     *)
GitCommit(w) ==
  /\ At(w, "commit")
  /\ \E r \in drive[w].todo :
       /\ ~Clean(r)
       /\ head' = [head EXCEPT ![r] = Append(@, <<Lane(w), worktree[r]>>)]
       /\ worktree' \in {[worktree EXCEPT ![r] = {}], [worktree EXCEPT ![r] = {Residue}]}
       /\ drive' = [drive EXCEPT ![w].pc = "made", ![w].repo = r, ![w].todo = @ \ {r}]
  /\ UNCHANGED <<storeVars, lock, crashes, faults>>

(* What the commit made is learnt from HEAD, by a git command of its own.   *)
ReadCommit(w) ==
  /\ At(w, "made")
  /\ drive' = [drive EXCEPT ![w].pc = "committed", ![w].made = head[drive[w].repo]]
  /\ UNCHANGED <<storeVars, lock, git, crashes, faults>>

(* A hook rejects the commit, and may leave a file behind too; or there is  *)
(* nothing to commit.                                                       *)
CommitRejected(w) ==
  /\ At(w, "commit")
  /\ \E r \in drive[w].todo :
       worktree' \in {worktree, [worktree EXCEPT ![r] = @ \cup {Residue}]}
  /\ drive' = [drive EXCEPT ![w].pc = "hook_reset", ![w].cause = "commit_hygiene"]
  /\ UNCHANGED <<storeVars, lock, head, crashes, faults>>

(* Only the repos without a commit of this call are reset.                  *)
ResetUncommitted(w) ==
  /\ At(w, "hook_reset")
  /\ Undo(w, drive[w].todo)
  /\ Goto(w, "failing")
  /\ UNCHANGED <<storeVars, lock, crashes>>

RecordCommitted(w) ==
  /\ At(w, "committed")
  /\ LET r == drive[w].repo IN
       \/ /\ Advance(w, r, "committed", drive[w].made)
          /\ Goto(w, "prove_clean")
          /\ UNCHANGED <<lock, git, crashes, faults>>
       \/ AdvanceRefused(w, r, "committed") /\ Raise(w)

DirtyAfterCommit(w) ==
  /\ At(w, "prove_clean") /\ ~Clean(drive[w].repo)
  /\ drive' = [drive EXCEPT ![w].pc = "failing", ![w].cause = "dirty"]
  /\ UNCHANGED <<storeVars, lock, git, crashes, faults>>

(* Mutant: the first repository ends the phase.                             *)
ProveFirstClean(w) ==
  /\ At(w, "prove_clean") /\ Clean(drive[w].repo)
  /\ Advance(w, drive[w].repo, "clean", NoCommit)
  /\ Goto(w, "reload_integrate") /\ Release(w)
  /\ UNCHANGED <<git, crashes, faults>>

(* After the last repo the commit proof is recorded and the lock released.  *)
ProveClean(w) ==
  /\ At(w, "prove_clean") /\ Clean(drive[w].repo)
  /\ LET last == drive[w].todo = {} IN
       \/ /\ Advance(w, drive[w].repo, "clean", NoCommit)
          /\ Goto(w, IF last THEN "reload_integrate" ELSE "commit")
          /\ lock' = IF last THEN NoSession ELSE lock
          /\ UNCHANGED <<git, crashes, faults>>
       \/ AdvanceRefused(w, drive[w].repo, "clean") /\ Raise(w)

MarkIntegrated(w) ==
  /\ At(w, "integrate")
  /\ \/ /\ Move(w, "integrated", {target_commit[Lane(w)][r] : r \in RepoTargets(Lane(w))})
        /\ GoIdle(w)
        /\ UNCHANGED <<lock, git, crashes, faults>>
     \/ MoveRefused(w, "integrated") /\ Raise(w)

----------------------------------------------------------------------------
(* _recover_one_crashed_merge_queue_lane: resets each repo target of the    *)
(* recovered row, without the feature lock and whatever HEAD is by now,     *)
(* except one the row says is committed; what stays dirty, or cannot be     *)
(* reset, is irreconcilable.                                                *)
RecoverRepo(w) ==
  /\ At(w, "recovering")
  /\ \E r \in drive[w].todo :
       /\ IF drive[w].rows[r] \in {"committed", "clean"}
          THEN UNCHANGED git ELSE ResetTo(Lane(w), {r})
       /\ drive' = [drive EXCEPT ![w].todo = @ \ {r},
                      ![w].cause = IF worktree'[r] = {} THEN @ ELSE "irreconcilable"]
  /\ UNCHANGED <<storeVars, lock, crashes, faults>>

RecoverResetFails(w) ==
  /\ At(w, "recovering") /\ faults < MaxFaults
  /\ \E r \in drive[w].todo :
       /\ drive[w].rows[r] \notin {"committed", "clean"}
       /\ pre_apply_head[Lane(w)][r] # NoCommit
       /\ drive' = [drive EXCEPT ![w].todo = @ \ {r}, ![w].cause = "irreconcilable"]
  /\ faults' = faults + 1
  /\ UNCHANGED <<storeVars, lock, git, crashes>>

RecoverFinish(w) ==
  /\ At(w, "recovering") /\ drive[w].todo = {}
  /\ LET to == IF drive[w].cause = "irreconcilable" THEN "poisoned" ELSE "failed" IN
       \/ /\ Move(w, to, {})
          /\ GoIdle(w)
          /\ UNCHANGED <<lock, git, crashes, faults>>
       \/ MoveRefused(w, to) /\ Raise(w)

----------------------------------------------------------------------------
(* A database error raised by the store call a session is about to make.    *)
(* Recovery swallows one; everything else lets it out of the worker method. *)
StoreCallPoints == {"baseline", "apply", "patched", "applied", "gates", "committed",
                    "prove_clean", "integrate", "failing"}

DatabaseFault(w) ==
  /\ drive[w].pc \in StoreCallPoints \/ (At(w, "recovering") /\ drive[w].todo = {})
  /\ faults < MaxFaults
  /\ faults' = faults + 1
  /\ Release(w) /\ GoIdle(w)
  /\ UNCHANGED <<storeVars, git, crashes>>

(* The process dies and a resume starts the drain again: its locals and its *)
(* session lock are gone, rows and repositories stay.                       *)
Crash(w) ==
  /\ drive[w].pc \in CrashPoints /\ crashes < MaxCrashes
  /\ crashes' = crashes + 1
  /\ Release(w) /\ GoIdle(w)
  /\ UNCHANGED <<storeVars, git, faults>>

(* The drain never renews a lease, and a gate or hook may outlast it.       *)
LeaseRunsOut(i) ==
  /\ LongSteps \/ \A w \in Sessions : Lane(w) # i
  /\ LeaseExpires(i)
  /\ UNCHANGED <<lock, git, drive, crashes, faults>>

Apply(w) ==
  \/ InputsMismatch(w) \/ LockForApply(w) \/ BaselineDirty(w) \/ StartApply(w)
  \/ RecordPreApply(w) \/ ApplyPatch(w) \/ PatchRefused(w) \/ RecordApplied(w)
  \/ FinishApply(w) \/ RollbackAll(w)

Verify(w) ==
  \/ Reload(w, "reload_gates", "gates")
  \/ GatesApprove(w) \/ GatesReject(w) \/ ResetAfterGates(w)

Commit(w) ==
  \/ Reload(w, "reload_commit", "commit_lock")
  \/ LockForCommit(w) \/ GitCommit(w) \/ CommitRejected(w) \/ ResetUncommitted(w)
  \/ ReadCommit(w) \/ RecordCommitted(w) \/ DirtyAfterCommit(w) \/ ProveClean(w)
  \/ Reload(w, "reload_integrate", "integrate") \/ MarkIntegrated(w)

DrainStep(w) ==
  \/ DrainClaim(w) \/ DrainRecover(w)
  \/ Apply(w) \/ Verify(w) \/ Commit(w)
  \/ FailTarget(w) \/ FailLane(w)
  \/ RecoverRepo(w) \/ RecoverResetFails(w) \/ RecoverFinish(w)

DrainNext ==
  \/ \E i \in Lanes : Splice(i) \/ LeaseRunsOut(i)
  \/ \E w \in Sessions : DrainStep(w) \/ DatabaseFault(w) \/ Crash(w)

DrainSpec == DrainInit /\ [][DrainNext]_vars

(* Each drain loop keeps running (a resume restarts it after a crash), the  *)
(* splice completes, and a lease nobody renews runs out.                    *)
Fairness ==
  /\ \A w \in Sessions : WF_vars(DrainStep(w))
  /\ \A i \in Lanes : WF_vars(Splice(i)) /\ WF_vars(LeaseRunsOut(i))

FairDrainSpec == DrainSpec /\ Fairness

----------------------------------------------------------------------------
Labels == StoreCallPoints \cup {"idle", "claimed", "patch", "rollback", "reload_gates",
            "gate_reset", "reload_commit", "commit_lock", "commit", "made", "hook_reset",
            "reload_integrate", "recovering"}

(* The commits an integrated lane reports are ancestors of (or are) HEAD.   *)
IntegratedCommitsSurvive ==
  \A i \in Lanes : status[i] \in CandidateStatuses =>
    \A r \in RepoTargets(i) : IsPrefix(target_commit[i][r], head[r])

(* A commit made for a lane holds that lane's patch and nothing else, even  *)
(* though the commit stages whatever has changed in the repository.         *)
CommitCarriesOwnPatch ==
  \A r \in Repos : \A k \in DOMAIN head[r] : head[r][k][2] = {head[r][k][1]}

(* A patch sits uncommitted in a worktree only while its lane is in flight, *)
(* or after recovery has given the lane up: as long as git can reset, no    *)
(* failure path reports a lane failed, or integrated, and leaves its patch  *)
(* behind for the next lane.                                                *)
NoPatchOutlivesItsLane ==
  \A r \in Repos : \A i \in worktree[r] \cap Lanes :
    status[i] \in {"applying", "verifying", "committing", "poisoned"}

(* The lane row and its repo ledger agree: an integrated lane has every     *)
(* repo target clean with a commit recorded.                                *)
CandidateTargetsClean ==
  \A i \in Lanes : status[i] \in CandidateStatuses =>
    \A r \in RepoTargets(i) : target[i][r] = "clean" /\ target_commit[i][r] # NoCommit

(* Once a lane's canonical work has begun only recovery may take it over:   *)
(* however leases run out under work and are claimed again, two sessions    *)
(* never both drive one lane through apply, gates and commit.               *)
OneDriverPerLane ==
  \A i \in Lanes :
    Cardinality({w \in Sessions :
      Lane(w) = i /\ drive[w].pc \notin {"claimed", "baseline", "failing", "recovering"}}) <= 1

(* No lane is stranded: each reaches a terminal status or integrated.       *)
EveryLaneSettles ==
  \A i \in Lanes : <>[](status[i] \in {"integrated", "failed", "poisoned"})
============================================================================
