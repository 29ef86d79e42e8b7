# Verification of the iriai-build execution control plane

TLA+ models of the parts of this repository that keep state other actors depend
on: the dispatch of an implementation task to an agent in a sandbox, the durable
merge queue through which its patch reaches the canonical repositories, the group
checkpoint a DAG run resumes from, the passes through a group that recover lanes a
commit hook rejected, the lanes of the bugfix queue, the runner that watches over
agent turns and the pool of job files through which agents are invoked. The modules are model-checked with TLC on
small instances; their safety properties are also proved with TLAPS, for every
instance or under a hypothesis the theorem states.

Paths are relative to the repository; `…/` stands for `src/iriai_build_v2/`.

## The system and its parts

A *feature* is implemented by a DAG of task groups. `implementation.py` dispatches
the tasks of a group to agents in sandboxes, captures each result as a patch, and
enqueues one *lane* per task on the durable merge queue. A *drain* claims lanes and
drives each to `integrated`: apply the patch to the canonical repositories, run
the post-apply gates, commit, prove the worktree clean. When all tasks of the
group are integrated the *group coordinator* writes the `dag-group:*` artifact and
turns the lanes `done`. Everything is in Postgres tables and git worktrees; any
number of processes (a live run, a resume, an operator's second run) can be at
work on the same feature.

| Component | State it keeps | Operations | Talks to | What is hard |
|---|---|---|---|---|
| Merge queue store `…/execution_control/merge_queue_store.py`, `schema.sql` | lanes, task coverage, repo targets, leases | enqueue, claim, heartbeat, recover_expired, transition, advance_repo_target, complete_checkpoint | called by worker, drain, coordinator | lease takeover, retry chains, recovery limit |
| Worker and drain `…/workflows/develop/execution/merge_queue.py`, `phases/implementation.py` | a lease token and locals; canonical worktrees | apply_candidate, run_required_gates, commit_and_prove_clean, mark_integrated, recovery | store, git, gates | crash or fault between two calls, lease overrun, resets beside a sibling drain |
| Group coordinator and projector `merge_queue.py`, `merge_queue_wiring.py`, `store.py` | evidence nodes, the projection, stamps on lanes | coverage, checkpoint_group, project | store, journal | four transactions, partial then full checkpoints, resume re-rendering the body |
| Git service `git_service.py` | HEAD, index, worktree | apply, reset --hard, clean, stage, commit | worker | hooks that change files |
| Orchestration `implementation.py` | per-run lists of results, task markers | resume plan, retry loop, revalidation, enqueue splice, drain, checkpoint | all of the above | what a resume repeats and what it skips |
| Recovery of rejected lanes `implementation.py`, `…/interfaces/slack/orchestrator.py` | rerun-block markers; a progress token | plan per task, rerun with feedback, retry lane, auto-continue | queue, coordinator, dispatch | a budget without a row of its own, an automatic loop, crashes in any pass |
| Execution control store, journal `store.py` | typed rows, projections, idempotency digests | record, supersede, project | everyone | keyed rows replaced in place |
| Failure router `failure_router.py` | retry budgets, routes | decide, mark_route_started, mark_route_finished | store | budget read and reserved at different times |
| Dispatcher `dispatcher.py`, `runtime_client.py` | attempts, their evidence and outcome, in the journal | dispatch, replay, salvage, late completion | runtimes, sandbox, store | a crash after any write, a result after its timeout, two workers on one row |
| Sandbox runner `sandbox.py` | sandbox leases, directories | allocate, bind, capture, release, recover | file system, store | row and directory disagree, evidence cleared away |
| Regroup overlay `regroup_overlay*.py` | overlays of the DAG | stage, activate, rollback | store, journal | work outside the rolled-back transaction |
| Claude pool `runtimes/claude_pool*.py` | job files in four directories | submit, claim, finish, fail over | clients, runners | files renamed between two looks |
| Workflow runner and limiter `_runner.py`, `agent_concurrency.py` | active invocations, slots | resolve with watchdog and retries, acquire | runtimes, event log | a turn that ignores its cancellation, a call cancelled at any await |
| Gates, contracts, workspace authority, scheduler sizing | none of their own | verdicts over paths and metrics | worker, dispatcher | data, not control |
| Bugfix queue `…/workflows/bugfix_v2/phases/queue.py` | reports, clusters, lanes, respawn intents, strategy decisions, the promotion queue; tables of tasks in memory | poll loop, lane task, promotion, respawn, recovery | git, agents, Slack | recovery beside live tasks, a restart between the writes of two awaits or two repositories |
| Planning, older bugfix workflow | conversation state | phases | agents | sequences of agent calls |
| Supervisor, governance, counterfactual replay | reports | read, classify, render | read-only | none that changes the system |
| Interfaces, services, storage, dashboards | artifacts | read, write, render | users | input and output |

What makes these correct:

- *Store.* A task is on at most one live lane, through any chain of failures and
  retries; a lease version has one holder; no phase is skipped; a terminal lane
  stays terminal.
- *Drain.* A commit holds its lane's patch and only that; an integrated commit
  stays in the branch; a failed lane leaves nothing behind; every lane settles.
- *Checkpoint.* A done lane is published; the published body is backed by
  integrated lanes, one per task; all lanes of a body settle together; a covered
  group is sealed in the end.
- *Dispatch.* A finished attempt keeps its outcome; a patch is queued only with an
  approved verdict or as a late answer; completed work is queued in the end, however
  often the worker crashes; partial work is run again; retained evidence stays.
- *Recovery.* A group is sealed only with every task in a commit; reruns of a task
  that reach the queue or are counted are bounded over all passes and resumes; the automatic loop comes to rest
  while hooks reject silently only finitely often; what a pass calls recoverable the
  next entry reruns, unless that pass's own drain took the last rerun; a group whose
  tasks have landed is sealed.
- *Runner.* No slot is lost or given back twice; turns nobody told to stop stay
  within the cap; every call ends, whatever its turns do.
- *Bugfix queue.* A resolved report's fix is whole on main, and pushed whole if it
  changes every repository; a lane that may be half on main is replaced only after it
  was reported or by a strategist's decision; no respawn, verified or half-landed lane
  is left lying.
- *Claude pool.* A prompt is never under way on two profiles; a turn asks no
  profile twice and queues nothing on a profile marked unavailable; a call that
  ends with an answer or an error ends as its jobs did; every call returns.

`PROJECT.json` lists the hazards line by line and the property that watches each.

## Modules

| Module | Models | Extends |
|---|---|---|
| `MergeQueueStore` | the tables and one action per store method | |
| `MergeQueueStoreProofs` | theorems about `StoreSpec` | `MergeQueueStore` |
| `MergeQueueDrain` | sessions that drive lanes over git repositories | `MergeQueueStore` |
| `MergeQueueDrainProofs` | theorems about `DrainSpec`, and that it implements `StoreSpec` | `MergeQueueDrain`, `MergeQueueStoreProofs` |
| `GroupCheckpoint` | checkpoint calls of live runs and resumes | `MergeQueueStore` |
| `GroupCheckpointProofs` | theorems about `CheckpointSpec`, and that it implements `StoreSpec` and `GroupSeal` | `GroupCheckpoint`, `MergeQueueStoreProofs` |
| `GroupSeal` | what the coordinator promises a reader of `dag-group:*` | |
| `ClaudePool` | calls of a client, job files, profile runners | |
| `ClaudePoolProofs` | theorems about `PoolSpec` | `ClaudePool` |
| `DispatchStore` | the attempts of one task, its projection and its sandbox leases: one action per journal method | |
| `TaskDispatch` | workers that take one task from a resume to the merge queue | `DispatchStore` |
| `TaskDispatchProofs` | theorems about `JournalSpec` and `Spec`, and that the second implements the first | `TaskDispatch` |
| `HygieneRecovery` | passes through one DAG group with the recovery of lanes a hook rejected, and the orchestrator's loop around them | |
| `HygieneRecoveryProofs` | theorems about `RecoverySpec`: types, sealing, the rerun budget, what a rerun finds | `HygieneRecovery` |
| `AgentLimiter` | the queue of agent slots | |
| `AgentRunner` | calls of `resolve` with watchdog, retries and cancellation | `AgentLimiter` |
| `AgentRunnerProofs` | theorems about `RunnerSpec` | `AgentRunner` |
| `BugLanes` | the bugfix queue: poll loop, lane tasks, promotion, recovery | |
| `BugLanesProofs` | theorems about `LanesSpec` | `BugLanes` |
| `MCMergeQueueDrain`, `MCGroupCheckpoint`, `MCClaudePool`, `MCTaskDispatch`, `MCHygieneRecovery`, `MCAgentRunner`, `MCBugLanes` | instances for TLC | the above |

**MergeQueueStore.** One variable per column or child table; a lane is a row id.
A store method is one database transaction with row locks, hence one action. The
fenced methods take any session and any version, since the store knows nothing of
its callers: what it guarantees, it guarantees against every caller. `grants`
records the leases handed out (history only). Priorities are equal in production,
so `claim` takes the oldest lane. Idempotent repeats of `enqueue` write nothing
and are stuttering steps. Contract digests, evidence row ids and the payload's
history lists are left out. A retry must differ from its source in `head_commit`, which
is empty in a first request and `retry-<hash of the patch evidence>` in a retry
(implementation.py:5827): that is `HeadOf`, given by the patch.

**MergeQueueDrain.** A step is one store call or one git command on one
repository, so another session, a crash, a database error or the lease deadline
can come between any two. A session is a record with a program counter; its store
steps are the store module's actions with the token the session holds. A
repository is its branch (a sequence of `<<lane, patches>>`) and the set of lanes
whose patch is in the worktree, with `Residue` for a file a hook leaves behind.
`Raise` is a worker method that raises: the lock is released and the drain goes
on to the next lane without rolling back. The gates' verdict, a patch that does
not apply and a hook's rejection are free choices. A `git reset` may fail: then
`_rollback_all` leaves that repository as it is and tells nobody (`Undo`,
merge_queue.py:496), and recovery leaves the target irreconcilable
(`RecoverResetFails`, implementation.py:6973); both are counted with the faults. What a
commit made is read from HEAD by a second git command (`ReadCommit`), after a sibling's
unlocked reset perhaps. The splice sets no `expected_head` (implementation.py:5863), so
the stale_projection failure of merge_queue.py:325 is out of reach and left out. The
one-time restage of an auto-fixing hook happens inside the commit step.

**GroupCheckpoint.** Lanes are enqueued, driven and retried by the store's actions
while checkpoint calls run. A call probes the coverage, takes the feature lock,
computes coverage again, and makes four transactions: gate evidence, body
evidence, projection, lanes done. A body is its tasks, its rendered results (a
resume may render what it rehydrates differently from the live run) and its
commits. `Superseded` is the chain walk of `coverage()`, a recursive function. `Tasks`
are the tasks of the group whose results go through the queue: a resume refuses while
one of them has no completed result (implementation.py:7870), so it passes either all of
them or makes no call. No store method moves a lane to `checkpointing`, so that status,
which the gate payload leaves out (wiring 623), does not occur.

**GroupSeal** has two variables: the tasks published and the tasks whose lanes are
done. Publication grows; then all published tasks settle in one step.
`GroupCheckpoint` implements it under the mapping given at `Seal`.

**ClaudePool** stands alone: client and runners share nothing but a directory
tree. A job is one JSON file, renamed `queued → running → done` or `failed`, and
every file operation the other side can see is a step: the client's four looks
of a poll one after the other, the runner's claim, stamp, result and rename. The
client's calls run on one event loop, so what a call does between two awaits is
one step; `_select_profile` holds `_affinity_lock` while it probes profiles whose
`probe_after` has passed and, when all are marked, every one as a last resort. A
probe that raises marks its profile; one answered without `ok` does so only if its error
classifies.
`call` holds the locals of one `invoke`: its step, the turn (an answer that does
not validate is asked for again) and the profiles attempted in it. A crash loses
the runner's tasks and leaves what it had claimed in `running/`. `Age` and
`ProbeDue` are the passing of time. Load scores and weights only order the
profiles, so any available one may be chosen. Left out: sticky sessions and their
affinity file, health and authorisation, and cancellation by the watchdog (which
ends a call as `Capped` does).

**DispatchStore.** The journal row of an attempt is its `dispatcher_state` and the
fields its replays look at: whether raw output is recorded, the status of the valid
structured result, the typed failure and the outcome. A row is named by its retry
index, which is what makes its idempotency key new; a row has one sandbox, so its
patch is named by it too. `latest` is `get_latest_terminal_dispatch_outcome`,
`marker` the `dag-task:*` projection with the note that a patch waits for the merge
queue. `JournalSpec` lets anyone call any method at any time: it is the abstract
specification of the journal, and `TaskDispatch` implements it.

**TaskDispatch.** A worker is a process that runs the task; its record holds what is
in memory and dies with it. A step is one durable write or one look at durable
state, in the order of the code: the sandbox sweep before a resume (`RecoverLease`
once for every lease in use or out of step with its directory, then `Recovered`),
the resume check (`ResumeQueued` hands a waiting
patch on, `ResumeCounted` takes the task for done, `ResumeDispatch` plans attempts),
the start of a row with what a stored one calls for (`ReturnStored`,
`RecoverAnswer`, `FinishStored`, `SalvageRow`, `DeferRow`), allocation
(`LookupLease`, `ReadManifest`, `Clone`, `PersistLease`), binding, prompt, request,
turn, answer, capture, verdict, retained lease, structured result, failure, finish,
and the retry decision with its budgets. `Replies` are the endings of a turn; the
contract verdict, a failing capture or clone and a failing prompt are free choices.
`StoreRaises` is a store write that raises: refused on a finished row, or a fault.
A job outlives a timed-out turn and may leave its answer later (`JobAnswers`). Two
workers on one task are two processes that resume the same group. Left out: the
cancellation token, rehydration of an incomplete prompt context, drift of the
canonical HEAD, a prompt too large for the model, a request digest that changes
under the same key, and the release dispositions other than retain, which nothing
in the workflow calls. The auto-continue of the orchestrator enters a group again
without the sweep, but only after every result of the group is completed, so it
dispatches nothing under the keys of these rows. The verdict's evidence row and its projection
are one step.

**HygieneRecovery.** One group of tasks from entry to entry of `_implement_dag`. The
durable state is the group's lanes (status, task, patch, the lane a retry replaces,
the cause of a failure), the `dag-task` and `dag-task-pending-merge` markers, the
`dag-commit-hygiene-rerun-block` counters and whether the checkpoint is there. `run`
holds the locals of a pass and dies with it; `loop` those of the orchestrator. A
pass goes `Enter` → `redrive` (drain and checkpoint again, when every result is
completed) or `Plan` → `TaskReturns` → `Gathered`, `CountBlock` → `Enqueue`, all
lanes in one transaction or `EnqueueRefused` → `Mark` → `DrainLane`, `Drained` →
`Sweep`, and ends in a seal, in `Block`, or in a `Return` that
the orchestrator may follow with another entry (`Returned`). The pending markers go with the checkpoint (`Sweep`): all of the group
after a re-drive, else those of the pass's batch. Everything the other
modules show in detail is one step here: a dispatch (`TaskDispatch`), a drained lane
(`MergeQueueDrain`), a checkpoint (`GroupCheckpoint`). A patch is named by what its
dispatch key depends on: the failed lane the feedback speaks of and the canonical
HEAD, so a rerun with the same key is a replay of the same result. The cause of a
failed lane tells a hook whose output names a violation, a hook that prints nothing
(its refailures are never counted, `_hook_detail_is_actionable`) and any other
failure. The write of a rerun-block counter may fail, and a read that fails counts as
none (`CountBlock`). A pass that blocks on `verify` has handed the group to
`_verify_and_fix_group`. Left out: write-set widening, operator guidance,
`verify_failed` and its root-cause loop, poisoned lanes, completed results without
the note that a patch waits.

**AgentLimiter and AgentRunner.** The calls run on one event loop, so a step goes
from one await to the next; the limiter's `_lock` is never held across an await and
never makes anyone wait. `call` is a call's place in `resolve` and its attempt, and
an invocation is `<<call, attempt>>`. Its `turn` is the task under the watchdog: it
may answer, raise, fall silent, show live work, and, once told to cancel, unwind or
ignore that and run on. `stopped` are the turns told to cancel, `recorded` is
`_active_invocations`. `LogRaises` is a write of the event log that raises, and
`CancelOutside`, `CancelInSlot` and `CancelTurn` are the caller's cancellation at
each kind of await. `Watched` are the calls whose role has a liveness timeout.
Human interaction, the choice of the runtime and the message-callback fallback for
runtimes without `bind_invocation` (all three have it) are left out;
`AutonomousInteraction` takes its slots like an unwatched call.

**BugLanes.** One event loop runs the poll loop (`Scheduler`), a task per admitted
lane and the one `Promotion`. What a coroutine writes between two awaits that take
long (an agent's turn, git, a Slack post) is one step; a crash comes between two
steps, not inside such a group of row writes. A lane is `<<bug, number>>`; its row's
status is told apart by `promotion_status` where recovery does so, and `own` are the
rows that hold the nonce of their running task. `frame` holds the locals of each
coroutine (the lane, the intent's new lane and keys, the row as the caller read it),
and dies with the process. A respawn is three steps: `Respawn` up to the worktree
(an applied intent is not replayed), `Swap` of the rows when git is done, `Settle`
of the intent. `Retry` counts a failure and asks a strategist unless the round has
its decision (`Decide`, `Reuse`), which `Apply` turns into a block or a respawn.
`pass` is the stage of the poll loop and the work it listed there: finished tasks,
the four recoveries, blocked reports, admission, promotion. `main` and `pushed` are
the lanes on the bugflow worktree and in the source repository, per repository, and
`Changes` says for which repositories the lanes of a bug have commits. A promotion goes
`Replay` → `PickCommits`, repository by repository → `Applied` → `PlanPush`, which looks
at every repository of the worktree before one is pushed → `Push`, in any order →
`Finish`; or the plan refuses because a repository is at its source's head already, and
`TakenForPushed` finalizes the lane. A failed pick or push raises (`PromotionFails`). In
recovery (`FinalizeApplied`) the replay leaves out what is at its head and pushes the
rest; a failure there ends the process, as `Crash` does. Its lookups of remote heads do
not fail in the model; in the code one that fails alone makes the plan refuse a
repository that is pushed, and takes the rest for pushed too (queue.py:6298-6313).
`RespawnPromoting` has no branch for a lane whose commits are on main already
(queue.py:753): the question compares commit ids, and a cherry-pick makes new ones.
`Settled` and `InOrder` say which of two steps is the longer one: an agent's turn
outlasts the rest of a respawn that writes the same bug's rows, and worktrees of a
bug are ready in the order of their lanes. Left out: intake, triage and planning,
clusters of several reports, proof capture and observation lanes, the stall
detector, minimize mode and Slack failures.

## Runs

| Run | Instance | Shows |
|---|---|---|
| `DrainPair` | 3 lanes, 2 drains, 1 repository | nothing fails but gates, patches and hooks: commits survive, carry one patch, nothing is left behind |
| `DrainCrash` | 2 lanes, 2 repositories, 1 crash anywhere, 1 database error or failing git reset | integrated means every repository clean and committed, every lane settles |
| `DrainOverrun` | 2 lanes, 2 drains, leases that run out under work | once a lane is started only recovery takes it over; a lease version has one holder, no phase's proof is skipped and a terminal lane stays so while late holders and recovery race. Tokens no production caller presents, and heartbeats, are covered by the theorems on `StoreSpec` |
| `CheckpointCalls` | 2 lanes, 2 tasks, 2 callers (the whole group, or its first task), 1 crash, 2 renderings | done lanes are published, the body is backed by integrated lanes, no task has two live lanes, a covered group is sealed, the coordinator implements `GroupSeal` |
| `PoolFailover` | 2 calls (one with an output type), 2 profiles, 2 turns, 1 runner crash | passed jobs are settled, a turn visits profiles once, no job on a marked profile, ends match the job files |
| `PoolReturns` | 2 calls, 1 profile, 2 turns, 1 runner crash | every call returns; one profile is the default configuration, and the one in which a lost job has nowhere to go |
| `DispatchResume` | 1 worker, 1 retry, 1 rerun, every ending of a turn, 1 crash or failing write | one worker through everything that may happen to it: what is queued is approved or late, completed work is queued and its marker stays, partial work is rerun, retained evidence stays, and a marker is only counted without queueing for a late answer |
| `DispatchPair` | 2 workers on 1 row, every ending of a turn, 1 crash | attempts end once, progress is monotone and leases are not reopened when two processes dispatch the same row |
| `RecoveryLoop` | 2 tasks, 2 reruns, cap 2, 7 lanes, 1 silent rejection, 1 crash, raising checkpoint or failing counter | a sealed group has every task in a commit, reruns stay in budget, a recoverable end leads to a rerun or to a task whose last rerun that drain took, the loop comes to rest while silent rejections are finitely many, a landed group is sealed or verified; retries of retries up to the budget |
| `BugQueue` | 2 bugs over the same files, one changing both of 2 repositories and one the first only, 2 attempts, 4 lanes per bug, any 2 incidents among refused commits, failing verdicts, replays, picks, pushes, git calls and turns, and restarts | a resolved report is whole on main and, if its lanes change both repositories, pushed whole; a half-landed lane is replaced only after it was reported or by a strategist's decision; nothing is left stranded |
| `RunnerStalls` | 3 calls (1 watched), 1 slot, 2 retries, 1 failing log write | slots add up, turns not told to stop stay within the cap, the table of invocations is right, every call ends |

One more run states what a document says and the code does not do; TLC shows the
shortest behaviour.

- `DrainLostCommit`: a drain crashes after recording a pre-apply head; a sibling
  lane is integrated; recovery of the first resets the branch to that head and
  the sibling's commit is gone although its lane stays `integrated`.

Bounds: `MaxVersion`, `MaxRecoveries`, `MaxCrashes`, `MaxFaults` and the number of
lanes. A lane is claimed once and recovered at most `MaxRecoveries` times before
it is poisoned, so `MaxVersion = 4` cuts off only repeated claims of a lane that
was leased and never started. One crash suffices for what a crash can disturb:
recovery fails or poisons the lane and never drives it on. `MaxTurns` is 2 where
the code asks three times: a second turn starts as a third would. Two profiles
give one failover and its end, and two calls one waiter for the lock and one
that marks profiles meanwhile. One worker
with two rows shows a retry and a rerun; two workers with two rows are beyond 16
million states, so `DispatchPair` has one row, where their writes meet. `Headroom`,
the two retry limits and `MaxCrashes` are its bounds. One slot makes every second
call wait; three calls let one stall, one wait and one be cancelled meanwhile.
Two lanes and two tasks let a retry replace a first lane or a second task's lane
compete; longer retry chains are what `RecoveryLoop` is about, and the theorems on
`StoreSpec` hold for any.
`MaxLanes` of `RecoveryLoop` is every lane the group can use (`EnoughLanes`); had it
been too small, a pass would be stuck before its enqueue and `RunStops` violated.
`MaxSilent` bounds the rejections of a hook that prints nothing: the code has no
bound for them, so `RunStops` is a statement about the behaviours in which there are
finitely many, and false of the code without that (see "Met in the recovery"). With `MaxReruns = 2` (the code's value is 4) a rerun can
succeed, fail and be charged, or exhaust the budget; the theorem holds for any.
In `BugQueue` an incident is whatever makes a lane start again, so `MaxIncidents = 2`
gives a failure of the handling of a failure; `MaxLanes = 4` is one lane more than two
incidents can use, and a respawn that found no number would be `Stranded`. Two incidents
are too few for a strategist's decision to replace a lane that has landed (see "Met in
the bugfix queue"); `HalfLandedIsBlockedFirst` makes no claim of that case, and together
with `ResolvedIsLanded` was also checked outside the runs, with six attempts: one bug with
three and with four incidents (1,886,892 states), and two bugs of different files in one
repository with three incidents, no crash, and a second bug that has no failures
(1,640,024 states), where the case occurs.
`SYMMETRY` is used over workers (`DispatchPair`), sessions (`DrainOverrun`) and
profiles (`PoolFailover`), in runs without liveness properties only.

`CHECK_DEADLOCK FALSE`: lanes are finite, and when all are settled the system
rightly has nothing to do; likewise when all calls
of the pool or the runner have returned, or the task's attempts are spent; the bugfix
queue rests when every report is resolved or blocked.

Fairness. `FairDrainSpec`: each drain loop keeps running (a resume starts it again
after a crash), the splice completes, and a lease nobody renews runs out.
`FairCheckpointSpec`: a call that runs makes its next step, and a blocked group is
resumed again and again; calls for part of a group come one per live run, so they
cannot keep the resume out for ever (strong fairness of `Resume`).
`ReadyGroupSeals` names the one exception: a crash behind the projector can leave a
body whose rendered results the resume's differ from, and the projection refuses it
(`IdempotencyConflict`) ever after (`RenderedOtherwise`).
`FairLanesSpec`: the event loop runs the poll loop, the promotion and every lane's
task; nothing is assumed of verdicts, git or restarts.
`FairRecoverySpec`: a pass goes on, the orchestrator follows its outcome, and a halted
feature is resumed by its operator again and again; nothing is assumed of hooks,
agents or crashes.
`FairPoolSpec`: the event loop runs every call, its lock is first come first served
(hence strong fairness of `Select`, disabled while another call holds the lock), a
claimed job is ended unless its runner dies, and time passes. That a runner claims
anything, or the absolute cap strikes, is not assumed: a dead pool must not hang
its callers.
`FairSpec` (dispatch): a started task runs on and a blocked group is resumed by its
operator, whose resume sweeps the sandboxes first; no crash, fault or late answer is forced. `FairRunnerSpec`: the event loop
runs every call; a watched turn ends or falls silent, and a poll finds a turn that
falls silent again and again without life (strong fairness of `Stall`, since shows
of life disable it); a turn without a watchdog ends by its runtime's limits. That a
cancelled turn ends is not assumed.

## Proofs

`MergeQueueStoreProofs` proves, for any numbers of lanes, tasks, repositories,
sessions, versions and recoveries, from the four assumptions of the module (lane
ids are naturals and not `NoLane`; the null values are not members; the bounds
are naturals):

| Theorem | Statement |
|---|---|
| `StoreTyping` | `StoreSpec => []TypeOK` |
| `StoreTerminalIsFinal` | `StoreSpec => TerminalIsFinal` |
| `StoreInvariant` | `StoreSpec => []StoreInv` |
| `StoreOneLiveLanePerTask` | `StoreSpec => []OneLiveLanePerTask` |
| `StoreVersionGrantedOnce` | `StoreSpec => []VersionGrantedOnce` |
| `StoreCandidateIsProven` | `StoreSpec => []CandidateIsProven` |

`OneLiveLanePerTask` is not inductive: from a state where a *failed* lane was
replaced twice, both replacements may go live. `StoreInv` adds `RetryOfFailed` (the
source of a retry is failed and covers the same tasks) and `OverlapReplaced` (of
two uncancelled lanes with a common task one was replaced). Cancelling a
replacement is the delicate step, `SettlingKeepsRetries`: whatever overlaps the
source overlaps the replacement too, and the replacement has none of its own.
`CandidateIsProven` needs `ProofsFollowStatus` (a lane in a phase carries the proofs
of the phases behind it); `VersionGrantedOnce` needs `GrantsAreOld` (no grant is
ahead of the row's version). `TerminalIsFinal` follows from `StatusStep`, which
lists the moves a step can make. The proofs are one step per store method.

`MergeQueueDrainProofs` proves of `DrainSpec`, for any numbers of lanes, sessions,
repositories, crashes, faults and recoveries, from the assumptions of the store and
`CommitsAssumption` (a commit is the history that ends in it):

| Theorem | Statement |
|---|---|
| `DrainInvariant` | `DrainSpec => []DrainInv` |
| `DrainImplementsStore` | `DrainSpec => StoreSpec` |
| `DrainKeepsVersions`, `DrainKeepsProofs`, `DrainKeepsTerminal` | hence `VersionGrantedOnce`, `CandidateIsProven`, `TerminalIsFinal` |
| `DrainCandidateTargetsClean` | `DrainSpec => []CandidateTargetsClean` |
| `DrainOneDriverPerLane` | `DrainSpec => []OneDriverPerLane`: no two sessions drive one lane through apply, gates and commit; claimed, baseline, failing and recovering sessions are not counted |
| `FairWeatherKeepsCommits` | `FairWeather => (DrainSpec => []IntegratedCommitsSurvive)` |
| `FairWeatherOwnPatches` | `FairWeather => (DrainSpec => []CommitCarriesOwnPatch)` |
| `FairWeatherLeavesNoPatch` | `FairWeather /\ SingleRepo => (DrainSpec => []NoPatchOutlivesItsLane)` |

`DrainInv` is the store's invariant with what the sessions know: `HoldersInv` (what a
session's place implies about the row, the version and the proofs of its lane),
`ApartInv` (no two sessions both work on a lane, nor both wait with the same version of
its lease) and `LedgerInv` (a repo target that is committed or clean has its commit
recorded). A store step of a session is the store's action with its token, which gives
the implementation.

The three statements about git are false when recovery may reset a branch beneath a
sibling's commit (`DrainLostCommit` shows it), so they have a hypothesis on the
constants: `FairWeather` says that nothing crashes, no store call fails and every lease
outlasts the work under it, as in `DrainPair`. Under it `RowsInv` says that a lane in
flight is driven by exactly one session, whose place tells its status and targets and
whether it has the lock; `TreesInv`, what the worktree of each repository holds at each
of these places; `CommitsInv`, that every recorded commit is in the history of HEAD and
carries its own lane's patch; `PatchInv`, with `SingleRepo`, that a patch is in a
worktree only while its lane is in flight. `SingleRepo` is how
production makes lanes (implementation.py:5863 and the comment at 6952). Without it the
last theorem is false even in fair weather, see "Not modelled".

`GroupCheckpointProofs` proves of `CheckpointSpec`, for any numbers of callers, of
parts of the group they ask for, of lanes and of crashes, from the assumptions of the
store and that `NoBody` is no body:

| Theorem | Statement |
|---|---|
| `CheckpointInvariant` | `CheckpointSpec => []CheckpointInv` |
| `DoneStaysPublished` | `CheckpointSpec => []DoneIsPublished` |
| `PublishedStaysBacked` | `CheckpointSpec => []PublishedIsBacked` |
| `CheckpointImplementsStore`, `CheckpointKeepsStore` | `CheckpointSpec => StoreSpec`, hence `[]OneLiveLanePerTask` |
| `CheckpointImplementsSeal` | `CheckpointSpec => ImplementsGroupSeal` |

The argument is about what a call computed in one transaction and uses in a later one:
`SealingInv` says that, from the coverage it read to the stamps it writes, its lanes
are still the integrated ones, one per task of its body (`Covered`, `Backs`), which
holds since it has the lock (`LockInv`) and nothing but a checkpoint takes a lane out
of `integrated` (`LanesInv`). `ProjectionInv` is the same of the body once published.
The refinement maps what is projected to what is published and the tasks of done lanes
to what is settled; the projection and the stamps are its two steps.

`TaskDispatchProofs` proves of `JournalSpec`, for any rows and any callers:
`JournalTyped` (`[]JournalTypeOK`), `JournalEndsOnce` (`AttemptEndsOnce`),
`JournalMovesOn` (`ProgressIsMonotone`), `JournalKeepsLeases` (`LeaseNeverReopens`)
and `JournalBacksMarker` (`[]MarkerIsBacked`). Each is one step per journal method;
`MarkerIsBacked`
also needs `OutcomeIsLast` (a live row has no outcome yet), so that the row a
projection speaks for is never written again.

Of the dispatcher it proves, for any number of workers, retries, reruns, replies and
crashes:

| Theorem | Statement |
|---|---|
| `DispatchInvariant` | `Spec => []DispatchInv` |
| `DispatchTyped` | `Spec => []DispatchTypeOK` |
| `QueuedIsApproved` | `Spec => []EnqueuedPatchIsApproved` |
| `OnlyLateIsCounted` | `Spec => []CountedMarkerIsLate` |
| `DispatchImplementsJournal` | `Spec => JournalSpec` |
| `DispatchKeepsJournal` | `Spec =>` the four properties of the journal |
| `SoloKeepsEvidence` | `Solo => (Spec => EvidenceIsKept)` |
| `SoloKeepsMarker` | `Solo => (Spec => CompletedMarkerIsStable)` |

`DispatchInv` is `DispatchTypeOK`, `LocalInv` (what a worker knows at each step) and
`PatchInv`: a patch in the marker, in an outcome or in the queue is accepted, that is
approved or recovered, and a row with a structured result is accepted itself. The
patch of a failure may be the unvalidated one of its own row: only the late recovery
turns it into a result, and makes the row recovered. The step of each
action shows three things at once: the invariant, and that the journal moved by one
method or not at all, which is the implementation.

The last two need `Solo`, at most one worker: with two, one may clear the directory away
while the other's sweep retains the lease, or project another result. `DispatchResume`
has one worker, and what it does after a crash is what the theorems are about. `SoloInv`
says that where the worker is about to clear a directory the lease retains nothing
(`ClearsInv`); that a success, in the journal and in memory, ended as completed
(`RowSucceeds`, `WorkerSucceeds`), so no success is revalidated; and that with a
completed marker the worker only hands on what is projected, a resume planning the
latest row, which succeeded, and nothing else (`MarkerStands`).

`HygieneRecoveryProofs` proves, for any finite group, any budget and cap, any number of lanes, silent rejections and crashes:

| Theorem | Statement |
|---|---|
| `RecoveryTyped` | `RecoverySpec => []RecoveryTypeOK` |
| `SealedIsCovered` | `RecoverySpec => []SealCoversGroup` |
| `BudgetInvariant` | `RecoverySpec => []BudgetInv` |
| `RerunsStayBounded` | `RecoverySpec => []RerunsAreBounded` |
| `RecoverableEndsInRerun` | `RecoverySpec => RecoverableIsRedispatched` |

`SealCoversGroup` follows from two facts about a pass (`RecoveryInv`): from its plan to
its checkpoint every task is in its hands or in a commit already (`InHand`), and what
it dispatched has a result before anything is queued (`AllEnded`). A pass with a
blocked result does not checkpoint, so the tasks it queued and the lanes that stand
are the group; and no step takes a lane out of a commit (`LanesStand`).

`RerunsAreBounded` has no counter to be read off: the budget is derived again from
lanes and markers by every entry. `BudgetInv` therefore says what the lanes of a task
look like: a retry replaces a lane of its task that a hook rejected (`RowsInv`), and
of two lanes of a task one was replaced (`OneHead`), so they are one chain with one
head. A planned rerun starts from a rejected lane of a task in no commit
(`SourcesInv`), is within the budget until it is charged or queued (`WithinBudget`),
and only blocked reruns are charged (`LeftInv`). Rerun lanes that no plan counts are
those still queued; by `OneHead` a task has one at most, and as long as nothing
crashed none waits when a plan is made (`NothingWaits`): that is the one rerun more.
`SealedInv` keeps a sealed group from being planned again.

`RecoverableIsRedispatched` speaks of what the entry after a recoverable return decides.
That no task is stuck comes from `RedispatchInv`, which follows a pass from its plan on
while nothing has gone wrong: `MarkedInv` says that a task with
a lane has its pending marker, or is about to get it; `OpenInv`, that each pending task of
a pass past its plan has a lane that is integrated or that a hook rejected (`Safe`), or one
that is queued or failed in this pass for another cause (`Open`), which no recoverable end
leaves behind. That it escalates only where this drain took the last rerun comes from
`CountedInv` (a task whose refailures are no longer those the pass counted has a refailed
lane among those this pass saw fail) and from the budget: without faults, refailures and
counted blocks never exceed `MaxReruns` (`RefailuresAreBounded`).

`AgentRunnerProofs` proves, for any finite number of calls and any number of slots,
retries and failing writes:

| Theorem | Statement |
|---|---|
| `RunnerInvariant` | `RunnerSpec => []RunnerInv` |
| `RunnerTyped` | `RunnerSpec => []RunnerTypeOK` |
| `SlotsAreKept` | `RunnerSpec => []SlotsAddUp` |
| `AgentsStayWithinCap` | `RunnerSpec => []AgentsWithinCap` |
| `InvocationsStayTracked` | `RunnerSpec => []InvocationsAreTracked` |

The cap follows from the slots: `Attended` says that a running turn nobody told to
stop is the present attempt of a call that waits for it, so these turns belong to
different holders of slots (`CapHolds` counts them by a surjection), and `SlotsAddUp`
bounds the holders. `Attended` needs `Unbegun` (a turn of an attempt to come has not
begun), and `Tracked` says what is recorded at each step of a call.

`ClaudePoolProofs` proves of `PoolSpec`, for any finite number of profiles and any
calls, turns and crashes:

| Theorem | Statement |
|---|---|
| `PoolInvariant` | `PoolSpec => []PoolInv` |
| `PassedStaySettled` | `PoolSpec => []PassedJobsAreSettled` |
| `TurnsVisitOnce` | `PoolSpec => []TurnVisitsProfilesOnce` |
| `EndsMatch` | `PoolSpec => []EndMatchesJobs` |
| `QueuedIsUnmarked` | `PoolSpec => NoJobOnMarkedProfile` |

`PoolInv` is the types, what a job file may be (`JobInv`: an answer is written before
the file is moved, and only a runner's task moves it), and per call: `SubmittedInv`
(jobs behind the present one are settled and their profiles noted as attempted),
`VisitsInv` (the jobs of a turn are on different profiles) and `LastInv` (what the call
concludes at each step from its last look at the directories is still so). The action
property follows in one step from who holds the selection lock.

`BugLanesProofs` proves of `LanesSpec`, for any reports, repositories, lanes, attempts
and incidents:

| Theorem | Statement |
|---|---|
| `LandedInvariant` | `LanesSpec => []LandedInv` |
| `ResolvedStaysLanded` | `LanesSpec => []ResolvedIsLanded` |

A row's `applied-main` is what recovery trusts, and rows are written over by coroutines
that read them long before. So `LandedInv` says of every row, and of every copy of one a
coroutine holds (`RowsInv`, `FramesInv`), that if it says so its lane is on main in every
repository it changes; `FrameInv`, that a lane being picked is on main where it is done and
pushed nowhere, so that a bug that changes every repository finds no repository at its head
and the plan of its push is not refused; `GitInv`, that only what is on main is pushed;
`QuietInv`, that recovery pushes only while no promotion is tracked; the rest of it keeps the domains of rows, lists and locals.

Only model-checked: liveness (fairness and `ENABLED` are beyond the prover) and
`HalfLandedIsBlockedFirst`, whose inductive invariant has to follow intents, decisions and
rows through overlapping respawns; `BugQueue` and the larger instances named under "Bounds"
show it. Where a theorem states the types of a module no run checks them
too.

## Not modelled

See the table above and `PROJECT.json`. Also: the heartbeat is an action of the
store, but no drain sends one; `cancel` has a transition and no caller; the auto-fix
restage and the failure routing of the drain change no queue state. These further
differences between document and code were met while modelling and follow from the
modules' text: the resets after a gate failure and in recovery run without the
feature lock (`ResetAfterGates`, `RecoverRepo`; document 08:288); a lane that is
dirty after its commit fails with an empty `result_commit` (`DirtyAfterCommit`;
08:211); its other repositories keep their applied patch (same action; docstring
implementation.py:6650); `dag-group:*` appears one transaction before its lanes
are done (`Project`, `Complete`; 08:492); evidence nodes are overwritten even when
the projection then refuses (`RecordBody`, `Project`; comment store.py:4703). Met in the pool: a job that
moves between two looks of one poll (claimed after the look at `running/`, ended
before the look at `done/`) is reported as "disappeared before completion" although
its answer lands in `done/` (`PollQueued`, end `lost`); and a claimed job whose
runner dies stays in `running/` for ever, with no one to queue it again
(`CrashRunner`), which its caller sees as a timeout that does not fail over.

Met in the drain and the checkpoint, and visible in the modules: a drain whose lane
was recovered by another reads the row again and goes on with the other's lease
version (`Reload`; 08:359); a database error after `apply_patch` leaves the patch in
the worktree until recovery, and lanes claimed meanwhile fail on their baseline
(`Raise`); a lane of several repositories that is dirty after the commit in one leaves
its patch in the later ones although nothing crashed, and as `failed` is terminal no
recovery proves them clean (`DirtyAfterCommit`; 08:474): `NoPatchOutlivesItsLane` holds
only with one repository per lane, which is all that enqueue makes today; after a partial and a full checkpoint the lanes carry two stamps and
every later call reports a contradiction (`AlreadyDone`; docstring
merge_queue.py:1138).

Met in the dispatch: a crash between the recorded request and the raw output leaves
a row that every replay defers (`DeferRow`; the document says so); a cancelled
response followed by a crash makes each replay raise (`SalvageRow`); a crash during
the clone leaves a partial directory that costs the next attempt a binding failure
(`ReadManifest`); a crash between capture and retain lets the salvage remove the
captured directory (`LookupLease`), and with two workers a retained one can go the
same way; a salvage never captures a patch, since its lease is no longer
`allocated`; the second of two workers on one row finds it in `attempt_started` and
runs it too, the lease having the same owner in both, so both invoke the runtime
(`StartRow`; document 05:433 makes the idempotency key a fence that only the winner
passes); the loser of a race records the failure of the row under the winner;
a resume in a second process retains the lease the first one's turn is working
under (`RecoverLease` asks for the feature only), so that turn's capture fails;
and the marker of a late answer, which carries no note, is counted as done on any
approved verdict of the task and then nothing is queued (`ResumeCounted`;
implementation.py:3424).

Met in the recovery:

- A hook that fails without saying anything ("commit hook failed (exit N)") leaves
  refailures that are never counted, and each rerun's lane is a new progress token: the
  auto-continue loop has no bound, although implementation.py:9635-9641 and
  orchestrator.py:55-59 call it bounded. `RunStops` does not contradict this: `MaxSilent`
  cuts the behaviours in which such rejections go on for ever, and its comment says so.
- When a retry lane fails for another cause, the recovery still picks the older,
  replaced lane: the retry is an idempotent hit on the failed lane or the whole batch
  is refused, at every resume (comment implementation.py:6117).
- `_drain_failure_is_commit_hygiene_rerun` uses the counts the pass read before its
  drain, so at the last unit of the budget it calls a failure recoverable that the
  next entry escalates and blocks (the docstring, 9889-9897, says that it never diverges
  from the escalate decision). `RecoverableIsRedispatched` allows exactly that case.
- After a recovery the live checkpoint expects the tasks of its pass only: with a
  sibling integrated earlier its coverage is not approved although nothing is missing
  or twofold, and one more pass seals the group (comment 22444).
- When the re-drive's checkpoint fails while every task is integrated, the plan finds
  nothing to do and control falls to `_verify_and_fix_group` (`Plan`, `verify`;
  comment 21055).
- A crash between the enqueue and a pending marker leaves a lane of a sibling that
  failed for another cause unmarked; the next pass queues the task again as an
  idempotent hit on that lane, and a recoverable end may then lead to an entry that
  blocks on it. Hence `faults = 0` in `RecoverableIsRedispatched`.
- A retry left queued by a crash is not among the lanes a plan reads (only failed
  ones, 6069): when another task is not complete yet the task is rerun beside its
  waiting retry, and that rerun is charged beyond the budget or its lane refused with
  the whole batch.
- The fall-through behind the retry loop (22078, "Unreachable but satisfies type
  checker") is reached: a rerun or replay plans a single attempt, and a retryable
  failure continues past it.

Met in the bugfix queue:

- A promotion interrupted before its row was finalized is blocked with the words "I
  paused this lane instead of respawning it" (queue.py:6194); the block's kind is
  `infrastructure`, which `_recover_retryable_blocked_reports` respawns in the same
  pass (`Unblock`).
- An active lane whose cluster's strategy is `applied` is in neither list of the
  recovery (585-591): after a restart nobody executes it (`Work("stale")`).
- The promotion's own retry is not among the lane tasks the strategy recovery looks at
  (564-570): the poll loop may apply the decision of the round before while the
  strategist of this round is still asked, and may undo a block that handed the lane to
  a human (`ResumeStrategy`).
- Recovery resumes the pending intent of a respawn whose own task is still at work on it
  (`Resume`; it asks for the intent only, 518-526), and a report may then have two live
  lanes; its fix can land twice.
- A decision may replace a lane that has landed whole, without a report of it: hence the
  exemption in `HalfLandedIsBlockedFirst`. With three incidents on two bugs: a
  respawn `1 → 2` has rewritten its rows and still waits for Slack; a strategy pass takes
  the `decided` cluster for abandoned, since lane 2 has no task yet, and respawns `2 → 3`;
  the next pass resumes `1 → 2`, so that 2 and 3 are both live. Lane 2 fails and asks its
  strategist, which makes the cluster `pending`; lane 3 is verified and promoted, which
  makes it the cluster's lane; and the next strategy pass respawns it under the decision
  of an older round (612-690, no look at the lane's status).
- The first push of a lane that leaves a repository of the worktree alone is refused:
  `_push_clones_to_source_root` plans all repositories before it pushes one and takes one
  at its remote's head for a failure (implementation.py:16133-16180), since a live push
  names no `optional_noop_repos` (queue.py:2864). The caller takes that very refusal for
  the replay of a complete push (6319-6334; the comment there speaks of a crash after the
  push), so the lane becomes `pushed` and its report is resolved as "Promoted and pushed"
  with nothing pushed, until a later push of the worktree carries it along
  (`TakenForPushed`). Hence `ResolvedIsLanded` asks for the push only of lanes that change
  every repository.

Met in the runner: turns that ignore their cancellation run on beyond `max_active`
and share the session with the retry (`stopped`); the entry of a retry whose
`agent_start` cannot be logged, or that is cancelled there, stays in
`_active_invocations` (`Forget`); an answer that arrives during the bounded join is
thrown away (`Join`); a call with `liveness_timeout` 0 holds its slot as long as its
runtime likes.

## Plan

1. Done: store, drain, checkpoint, Claude pool, dispatch of a task with its sandbox
   and journal, recovery of a group, runner and limiter, bugfix queue; the theorems
   above.
2. `FailureRouter`: decide, reserve, finish and replay of routes over retry budgets
   and typed failures; its budgets are in memory, so a restart between a route that
   was started and its finish is the case to model. Abstract specification: a budget
   that is never overspent.
3. `RegroupOverlay`: activation and rollback.
4. Composition of `TaskDispatch` with `MergeQueueStore.Enqueue`, with the lanes of
   several tasks: `HygieneRecovery` has both as single steps.
5. `ClaudePool`, extended: sticky sessions with their affinity file and its handoff,
   profile health; abstract specification of a job (submitted once, answered at most
   once).
6. Proofs: `HalfLandedIsBlockedFirst`. Its invariant has to say that a respawn in its
   worktree under no decision is of a lane that is not on main or was blocked as
   interrupted, through every list of a pass and every pending intent.
