-------------------------- MODULE HygieneRecovery --------------------------
(***************************************************************************)
(* One DAG group from entry to entry of _implement_dag                     *)
(* (workflows/develop/phases/implementation.py): the re-drive of its lanes *)
(* and checkpoint, the plan per task, the dispatch, the enqueue, the drain *)
(* and the live checkpoint, with the recovery of lanes a commit hook       *)
(* rejected; and the orchestrator's auto-continue around it                *)
(* (interfaces/slack/orchestrator.py).                                     *)
(*                                                                         *)
(* Every entry derives what it does from durable state, so a run may stop  *)
(* or crash at any await.  What MergeQueueStore, MergeQueueDrain,          *)
(* GroupCheckpoint and TaskDispatch show in detail is one step here: a     *)
(* dispatch, a batch of enqueues, the drain of a lane, a checkpoint.       *)
(***************************************************************************)
EXTENDS Naturals, FiniteSets

CONSTANTS
  Tasks,        \* the tasks of the group
  MaxReruns,    \* _COMMIT_HYGIENE_RERUN_MAX
  ProgressCap,  \* _AUTO_CONTINUE_NO_PROGRESS_CAP
  NoTask,
  MaxLanes,     \* bound: rows of merge_queue_items
  MaxSilent,    \* bound: lanes failed by a hook that prints nothing
  MaxFaults     \* bound: crashes, checkpoints that raise, counters not written

ASSUME RecoveryAssumption ==
  /\ IsFiniteSet(Tasks) /\ NoTask \notin Tasks
  /\ MaxReruns \in Nat /\ ProgressCap \in Nat
  /\ MaxLanes \in Nat /\ MaxSilent \in Nat /\ MaxFaults \in Nat

(* Ids of merge_queue_items, in the order of their insertion.               *)
Lanes == 1 .. MaxLanes

VARIABLES
  lane,     \* the group's rows of merge_queue_items
  marker,   \* dag-task marker: status of the last result, and its patch
  pending,  \* tasks with a dag-task-pending-merge marker
  blocks,   \* dag-commit-hygiene-rerun-block counter per task
  sealed,   \* the dag-group checkpoint is projected and its lanes are done
  run,      \* the pass through the group: its place and its local variables
  loop,     \* the orchestrator's last_token and no_progress
  faults

durable == <<lane, marker, pending, blocks, sealed>>
vars == <<durable, run, loop, faults>>

(* A patch is named by what its dispatch is keyed by: the failed lane its   *)
(* prompt speaks of (0: none) and the HEAD it starts from.                  *)
NoPatch == [source |-> 0, base |-> 0]
NoLane  == [status |-> "none", task |-> NoTask, patch |-> NoPatch, source |-> 0, cause |-> "none"]
NoToken == [kind |-> "none", lanes |-> {}]

(* The causes tell a hook that left its output, one that printed nothing,   *)
(* and every other failure class.                                           *)
Hygiene == {"hook_output", "hook_silent"}

Idle == [pc |-> "halted", source |-> [t \in Tasks |-> 0], counted |-> [t \in Tasks |-> 0],
         todo |-> {}, resumed |-> {}, result |-> [t \in Tasks |-> "none"], left |-> {},
         enqueued |-> {}, failed |-> {}, recoverable |-> FALSE, token |-> NoToken]

At(step) == run.pc = step
Goto(step) == run' = [run EXCEPT !.pc = step]

RecoveryInit ==
  /\ lane = [i \in Lanes |-> NoLane]
  /\ marker = [t \in Tasks |-> [status |-> "none", patch |-> NoPatch]]
  /\ pending = {}
  /\ blocks = [t \in Tasks |-> 0]
  /\ sealed = FALSE
  /\ run = [Idle EXCEPT !.pc = "enter"]
  /\ loop = [token |-> NoToken, no_progress |-> 0]
  /\ faults = 0

----------------------------------------------------------------------------
(* What a pass reads of the lanes.                                          *)
LanesOf(t)   == {i \in Lanes : lane[i].task = t}
Queued       == {i \in Lanes : lane[i].status = "queued"}
Candidates   == {i \in Lanes : lane[i].status \in {"integrated", "done"}}
Covering(t)  == Candidates \cap LanesOf(t)
Integrated(t) == \E i \in LanesOf(t) : lane[i].status = "integrated"

(* HEAD of the canonical repository, as far as the group moves it.          *)
Head == Cardinality(Candidates)

HookFailed(t) == {i \in LanesOf(t) : lane[i].status = "failed" /\ lane[i].cause \in Hygiene}

(* _commit_hygiene_recovery_lanes_for_group.                                *)
RecoveryLane(t) == CHOOSE i \in HookFailed(t) : \A j \in HookFailed(t) : j <= i

(* Retry lanes the hook rejected again although their source's output was   *)
(* there to be read.                                                        *)
Refailed(t) ==
  {i \in HookFailed(t) : lane[i].source # 0 /\ lane[lane[i].source].cause = "hook_output"}

(* Mutant: the refailures of a retry's own retry are forgotten.             *)
RefailuresOfFirst(t) ==
  Cardinality({i \in Refailed(t) : lane[lane[i].source].source = 0})

(* _commit_hygiene_retry_refailure_counts_for_group.                        *)
Refailures(t) == Cardinality(Refailed(t))

Spent(t, refailures) == refailures + blocks[t]

(* GroupMergeCoordinator.coverage; see GroupCheckpoint.                     *)
Superseded[i \in Lanes] ==
  \E j \in Lanes : /\ lane[j].source = i
                   /\ j \in Candidates \/ (lane[j].status = "failed" /\ Superseded[j])

Blocking(E) == {i \in Lanes : lane[i].task \in E /\ lane[i].status = "failed" /\ ~Superseded[i]}
CoveredOnce(E) == \A t \in E : Cardinality(Covering(t)) = 1

Approved(E) ==
  /\ E # {} /\ CoveredOnce(E)
  /\ \A i \in Candidates : lane[i].task \in E
  /\ Blocking(E) = {}

----------------------------------------------------------------------------
(* The dispatches of this pass that came to such an end.                    *)
Ended(how) == {t \in run.todo : run.result[t] = how}

(* Mutant: a result that is not completed is left out, not refused.         *)
BatchOfCompleted == run.resumed \cup Ended("completed")

(* What the pass hands to the merge queue: every result that waits for it,  *)
(* or only those beside a blocked task                                      *)
(* (_integrate_nonblocked_successes_before_block).                          *)
Batch == run.resumed \cup Ended("completed") \cup Ended("partial")

(* How a pass ends: it returns to the orchestrator with its outcome.        *)
Return(recoverable, token) ==
  run' = [Idle EXCEPT !.pc = "returned", !.recoverable = recoverable, !.token = token]

Block == Return(FALSE, NoToken)

(* checkpoint_group for tasks E.                                            *)
Seal(E) ==
  /\ Approved(E)
  /\ lane' = [i \in Lanes |-> IF i \in Candidates THEN [lane[i] EXCEPT !.status = "done"]
                                                  ELSE lane[i]]
  /\ sealed' = TRUE

(* The drain of the oldest queued lane: into a commit, or into a failure.   *)
(* The code puts no limit on the rejections by a hook that prints nothing.  *)
DrainedAs(i, status, cause) ==
  /\ i \in Queued /\ \A j \in Queued : i <= j
  /\ cause = "hook_silent" => Cardinality({j \in Lanes : lane[j].cause = cause}) < MaxSilent
  /\ lane' = [lane EXCEPT ![i] = [@ EXCEPT !.status = status, !.cause = cause]]
  /\ run' = [run EXCEPT !.failed = IF status = "failed" THEN @ \cup {i} ELSE @]

DrainLane(i) ==
  /\ At("redrive") \/ At("drain")
  /\ \/ DrainedAs(i, "integrated", "none")
     \/ \E cause \in Hygiene \cup {"other"} : DrainedAs(i, "failed", cause)
  /\ UNCHANGED <<marker, pending, blocks, sealed, loop, faults>>

----------------------------------------------------------------------------
(* The entry, and _resume_recover_durable_merge_queue_group.                *)
Completed(t) == marker[t].status = "completed"

Enter ==
  /\ At("enter")
  /\ Goto(IF sealed THEN "done"
          ELSE IF pending # {} /\ \A t \in Tasks : Completed(t) THEN "redrive" ELSE "plan")
  /\ UNCHANGED <<durable, loop, faults>>

(* All lanes drained: the checkpoint of the whole group, or the plan.       *)
Redriven ==
  /\ At("redrive") /\ Queued = {}
  /\ \/ run.failed = {} /\ Seal(Tasks) /\ Goto("sweep")
     \/ /\ run.failed # {} \/ ~Approved(Tasks)
        /\ run' = [Idle EXCEPT !.pc = "plan"]
        /\ UNCHANGED <<lane, sealed>>
  /\ UNCHANGED <<marker, pending, blocks, loop, faults>>

(* The checkpoint raises instead: live, the pass is blocked; in a re-drive  *)
(* it goes on to the plan.                                                  *)
CheckpointRaises ==
  /\ Queued = {} /\ run.failed = {} /\ faults < MaxFaults
  /\ \/ At("redrive") /\ run' = [Idle EXCEPT !.pc = "plan"]
     \/ At("drain") /\ (\A t \in Tasks : run.result[t] # "blocked") /\ Block
  /\ faults' = faults + 1
  /\ UNCHANGED <<durable, loop>>

(* The pending markers go when the checkpoint is there: of the whole group  *)
(* after a re-drive (nothing was enqueued), else of the pass's own batch.   *)
Sweep ==
  /\ At("sweep")
  /\ pending' = IF run.enqueued = {} THEN {} ELSE pending \ Batch
  /\ Goto("done")
  /\ UNCHANGED <<lane, marker, blocks, sealed, loop, faults>>

----------------------------------------------------------------------------
(* The plan per task, with _commit_hygiene_recovery_plan.                   *)

(* Mutant: an integrated lane does not keep its task from a rerun.          *)
DecideAlways(t) ==
  IF HookFailed(t) # {}
  THEN IF Spent(t, Refailures(t)) < MaxReruns THEN "rerun" ELSE "escalate"
  ELSE IF t \in pending THEN IF Integrated(t) THEN "landed" ELSE "stuck"
  ELSE IF Completed(t) THEN "resume" ELSE "dispatch"

Decide(t) ==
  IF HookFailed(t) # {} /\ ~Integrated(t)
  THEN IF Spent(t, Refailures(t)) < MaxReruns THEN "rerun" ELSE "escalate"
  ELSE IF t \in pending THEN IF Integrated(t) THEN "landed" ELSE "stuck"
  ELSE IF Completed(t) THEN "resume" ELSE "dispatch"

Deciding(how) == {t \in Tasks : Decide(t) \in how}

(* A task that cannot go on blocks the whole group, before anything runs;   *)
(* a group with nothing to run or enqueue goes to _verify_and_fix_group.    *)
Plan ==
  /\ At("plan")
  /\ \/ Deciding({"escalate", "stuck"}) # {} /\ Block
     \/ Deciding({"landed"}) = Tasks /\ Goto("verify")
     \/ /\ Deciding({"escalate", "stuck"}) = {} /\ Deciding({"landed"}) # Tasks
        /\ run' = [Idle EXCEPT
             !.pc = "dispatch",
             !.todo = Deciding({"rerun", "dispatch"}),
             !.resumed = Deciding({"resume"}),
             !.source = [t \in Tasks |-> IF Decide(t) = "rerun" THEN RecoveryLane(t) ELSE 0],
             !.counted = [t \in Tasks |-> Refailures(t)]]
  /\ UNCHANGED <<durable, loop, faults>>

----------------------------------------------------------------------------
(* The dispatches run in parallel.  One whose journal row succeeded already *)
(* (same source, same HEAD) is replayed.                                    *)
TaskReturns(t, how) ==
  LET patch == [source |-> run.source[t], base |-> Head] IN
  /\ At("dispatch") /\ t \in run.todo /\ run.result[t] = "none"
  /\ marker[t] = [status |-> "completed", patch |-> patch] => how = "completed"
  /\ marker' = IF how = "blocked" THEN marker
               ELSE [marker EXCEPT ![t] = [status |-> how, patch |-> patch]]
  /\ run' = [run EXCEPT !.result[t] = how]
  /\ UNCHANGED <<lane, pending, blocks, sealed, loop, faults>>

Gathered ==
  /\ At("dispatch") /\ Ended("none") = {}
  /\ run' = [run EXCEPT !.pc = "count",
                        !.left = {t \in Ended("blocked") : run.source[t] # 0}]
  /\ UNCHANGED <<durable, loop, faults>>

(* A counter that cannot be read counts as none before, and one that cannot *)
(* be written is left as it was; the pass goes on either way.               *)
CountBlock(t) ==
  /\ At("count") /\ t \in run.left
  /\ \/ blocks' = [blocks EXCEPT ![t] = @ + 1] /\ UNCHANGED faults
     \/ /\ faults < MaxFaults /\ faults' = faults + 1
        /\ blocks' \in {blocks, [blocks EXCEPT ![t] = 1]}
  /\ run' = [run EXCEPT !.left = @ \ {t}]
  /\ UNCHANGED <<lane, marker, pending, sealed, loop>>

----------------------------------------------------------------------------
(* _enqueue_durable_merge_queue_for_results, in one transaction.            *)
Request(t) == [task |-> t, patch |-> marker[t].patch, source |-> run.source[t]]
RequestOf(i) == [task |-> lane[i].task, patch |-> lane[i].patch, source |-> lane[i].source]

Existing(t) == {i \in Lanes : lane[i].status # "none" /\ RequestOf(i) = Request(t)}

Replaced(i) == \E j \in Lanes : lane[j].source = i

(* A first lane needs a task without lanes, a retry an unreplaced source.   *)
Acceptable(t) ==
  /\ marker[t].status = "completed"
  /\ Existing(t) = {} =>
       IF run.source[t] = 0 THEN LanesOf(t) = {} ELSE ~Replaced(run.source[t])

(* New rows get the next ids, in any order of the batch.                    *)
Inserted(New, row) ==
  /\ \A t, u \in New : row[t] = row[u] => t = u
  /\ \A t \in New : lane[row[t]].status = "none"
  /\ \A i, j \in Lanes :
       (lane[i].status = "none" /\ i < j /\ \E t \in New : row[t] = j) => \E t \in New : row[t] = i
  /\ lane' = [i \in Lanes |->
                IF \E t \in New : row[t] = i
                THEN LET t == CHOOSE u \in New : row[u] = i
                     IN [status |-> "queued", task |-> t, patch |-> marker[t].patch,
                         source |-> run.source[t], cause |-> "none"]
                ELSE lane[i]]

Enqueue ==
  /\ At("count") /\ run.left = {} /\ Batch # {}
  /\ \A t \in Batch : Acceptable(t)
  /\ LET New == {t \in Batch : Existing(t) = {}} IN
       \E row \in [New -> Lanes] :
         /\ Inserted(New, row)
         /\ run' = [run EXCEPT !.pc = "mark", !.left = Batch,
                               !.enqueued = (UNION {Existing(t) : t \in Batch})
                                              \cup {row[t] : t \in New}]
  /\ UNCHANGED <<marker, pending, blocks, sealed, loop, faults>>

(* One request that is refused rolls the batch back.                        *)
EnqueueRefused ==
  /\ At("count") /\ run.left = {}
  /\ \E t \in Batch : ~Acceptable(t)
  /\ Block
  /\ UNCHANGED <<durable, loop, faults>>

NothingToEnqueue ==
  /\ At("count") /\ run.left = {} /\ Batch = {}
  /\ Block
  /\ UNCHANGED <<durable, loop, faults>>

Mark(t) ==
  /\ At("mark") /\ t \in run.left
  /\ pending' = pending \cup {t}
  /\ run' = [run EXCEPT !.left = @ \ {t}, !.pc = IF run.left = {t} THEN "drain" ELSE @]
  /\ UNCHANGED <<lane, marker, blocks, sealed, loop, faults>>

----------------------------------------------------------------------------
(* The end of the drain (DrainLane), and the live checkpoint.               *)

(* Mutant: one lane the hook rejected is enough.                            *)
DrainRecoverableSome ==
  \E i \in run.failed :
    lane[i].cause \in Hygiene /\ Spent(lane[i].task, run.counted[lane[i].task]) < MaxReruns

(* _drain_failure_is_commit_hygiene_rerun, over the counts the pass read    *)
(* when it planned.                                                         *)
DrainRecoverable ==
  \A i \in run.failed :
    lane[i].cause \in Hygiene /\ Spent(lane[i].task, run.counted[lane[i].task]) < MaxReruns

Newest(S) == {i \in S : \A j \in S : j <= i}

Drained ==
  /\ At("drain") /\ Queued = {}
  /\ CASE Ended("blocked") # {} -> Block /\ UNCHANGED <<lane, sealed>>
       [] Ended("blocked") = {} /\ run.failed # {} ->
            /\ IF DrainRecoverable
               THEN Return(TRUE, [kind |-> "rerun", lanes |-> Newest(run.enqueued)])
               ELSE Block
            /\ UNCHANGED <<lane, sealed>>
       [] Ended("blocked") = {} /\ run.failed = {} /\ Approved(Batch) ->
            Seal(Batch) /\ Goto("sweep")
       [] OTHER ->
            /\ IF CoveredOnce(Batch)
               THEN Return(TRUE, [kind |-> "redrive", lanes |-> Blocking(Batch)])
               ELSE Block
            /\ UNCHANGED <<lane, sealed>>
  /\ UNCHANGED <<marker, pending, blocks, loop, faults>>

----------------------------------------------------------------------------
(* _consume_quiesce_or_auto_continue.                                       *)
Returned ==
  LET stale == run.token = loop.token
      count == IF stale THEN loop.no_progress + 1 ELSE 0
  IN
  /\ At("returned")
  /\ IF run.recoverable /\ count < ProgressCap
     THEN /\ loop' = [token |-> run.token, no_progress |-> count]
          /\ run' = [Idle EXCEPT !.pc = "enter"]
     ELSE run' = Idle /\ UNCHANGED loop
  /\ UNCHANGED <<durable, faults>>

(* The operator resumes a halted feature.                                   *)
OperatorResumes ==
  /\ At("halted")
  /\ run' = [Idle EXCEPT !.pc = "enter"]
  /\ loop' = [token |-> NoToken, no_progress |-> 0]
  /\ UNCHANGED <<durable, faults>>

Resting == {"halted", "done", "verify"}

Crash ==
  /\ run.pc \notin Resting /\ faults < MaxFaults
  /\ run' = Idle
  /\ faults' = faults + 1
  /\ UNCHANGED <<durable, loop>>

Step ==
  \/ Enter \/ Redriven \/ Sweep \/ Plan \/ Gathered
  \/ \E i \in Lanes : DrainLane(i)
  \/ \E t \in Tasks : CountBlock(t) \/ Mark(t)
  \/ \E t \in Tasks, how \in {"completed", "partial", "blocked"} : TaskReturns(t, how)
  \/ Enqueue \/ EnqueueRefused \/ NothingToEnqueue \/ Drained \/ Returned

RecoveryNext == Step \/ OperatorResumes \/ CheckpointRaises \/ Crash

RecoverySpec == RecoveryInit /\ [][RecoveryNext]_vars

(* A pass runs on, and a halted feature is resumed by its operator.         *)
FairRecoverySpec == RecoverySpec /\ WF_vars(Step) /\ WF_vars(OperatorResumes)

----------------------------------------------------------------------------
(* The group is sealed only when every task of it has a lane in a commit,   *)
(* although a pass hands the checkpoint just the tasks it queued itself and *)
(* the others were integrated, rerun or left blocked by passes before it.   *)
SealCoversGroup ==
  sealed => \A t \in Tasks : \E i \in LanesOf(t) : lane[i].status = "done"

(* Retries of a rejected lane whose hook said what was wrong.               *)
Reruns(t) == {i \in LanesOf(t) : /\ lane[i].source # 0 /\ lane[i].cause # "other"
                                 /\ lane[lane[i].source].cause = "hook_output"}

(* _COMMIT_HYGIENE_RERUN_MAX bounds the reruns of a task that reach the     *)
(* queue after a rejection with output, and the blocked ones that were      *)
(* counted, together, over all passes and resumes: each of them derives the *)
(* counts again from lanes and markers.  A retry that a crash left queued   *)
(* is not among the lanes a plan reads, so crashes may grant one rerun      *)
(* more, and never another.                                                 *)
RerunsAreBounded ==
  \A t \in Tasks :
    Cardinality(Reruns(t)) + blocks[t] <= MaxReruns + IF faults = 0 THEN 0 ELSE 1

(* As long as nothing went wrong besides, a drain failure that a pass calls *)
(* recoverable is one that the next entry reruns: it finds no task stuck,   *)
(* and one to escalate only where a rejection in this very drain took the   *)
(* last of the task's reruns.  The verdict goes by the counts from before   *)
(* the drain, so there it differs from the escalate decision.               *)
RecoverableIsRedispatched ==
  [][(/\ faults = 0 /\ At("drain") /\ At("returned")'
      /\ run'.recoverable /\ run'.token.kind = "rerun") =>
       \A t \in Tasks :
         /\ Decide(t) # "stuck"
         /\ Decide(t) = "escalate" =>
              Spent(t, Refailures(t)) = MaxReruns /\ run.failed \cap Refailed(t) # {}]_vars

(* While hooks reject without output only finitely often (MaxSilent), the   *)
(* auto-continue does not go round for ever: the run comes to rest again    *)
(* and again, sealed, handed to verification, or halted for its operator.   *)
(* Without that limit it may: such a rejection is not counted, and each of  *)
(* its reruns is progress to the orchestrator.                              *)
RunStops == []<>(run.pc \in Resting)

(* Once every task has a lane in a commit, the group is sealed or goes to   *)
(* verification, whatever rejected lanes lie behind and whichever step of   *)
(* the pass that integrated the last one was lost in a crash.               *)
LandedGroupSeals == (\A t \in Tasks : Covering(t) # {}) ~> (sealed \/ At("verify"))
=============================================================================
