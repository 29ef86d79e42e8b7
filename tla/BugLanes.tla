------------------------------ MODULE BugLanes ------------------------------
(***************************************************************************)
(* The lanes of bugfix-v2 (workflows/bugfix_v2/phases/queue.py): the poll  *)
(* loop of BugflowQueuePhase, the task of each lane, the one promotion,    *)
(* and the recovery of all three after a restart.                          *)
(*                                                                         *)
(* One asyncio process runs everything.  What a coroutine writes between   *)
(* two awaits that take time (an agent's turn, git, a Slack post) is one   *)
(* step; the process may crash between any two, and starts again.          *)
(***************************************************************************)
EXTENDS Naturals, Sequences, FiniteSets

CONSTANTS
  Bugs,         \* the reports, each a cluster of its own
  Repositories, \* how many repositories the main worktree has
  Changes,      \* the repositories a bug's lanes have commits for
  Scope,        \* lock_scope of a bug's lanes
  MaxAttempts,  \* _MAX_REPORT_ATTEMPTS
  Promotion,    \* the promotion task
  Scheduler,    \* the poll loop
  MaxLanes,     \* bound: lanes per bug
  MaxIncidents  \* bound: verdicts, commits and replays that fail, calls that
                \* raise, and restarts

ASSUME BugLanesAssumption ==
  /\ IsFiniteSet(Bugs) /\ Repositories \in Nat \ {0}
  /\ MaxAttempts \in Nat \ {0} /\ MaxLanes \in Nat \ {0}
  /\ MaxIncidents \in Nat

Repos   == 1 .. Repositories

ASSUME ChangesAssumption == Changes \in [Bugs -> (SUBSET Repos) \ {{}}]

LaneIds == Bugs \X (1 .. MaxLanes)

(* The promotion and the poll loop are no lanes.                            *)
ASSUME ProcsAssumption ==
  Promotion # Scheduler /\ {Promotion, Scheduler} \cap LaneIds = {}

NoLane  == <<>>
Rounds  == 1 .. MaxIncidents + 1
Tasks   == LaneIds \cup {Promotion}
Procs   == Tasks \cup {Scheduler}

VARIABLES
  lane,     \* the rows: status, told apart by promotion_status
  own,      \* lanes whose row holds the nonce of their running task
  report,   \* status, lane_id, attempts_used, terminal_reason_kind
  cluster,  \* lane_id and the strategy checkpoint
  intent,   \* respawn intents, by the lane they replace
  decision, \* strategy decisions per bug and round
  queue,    \* promoting_lane_id
  main,     \* lanes applied to the main worktree, per repository
  pushed,   \* lanes pushed to the source repository
  frame,    \* where each coroutine is, with its local variables
  pass,     \* the stage of the poll loop and what is left of it
  spent     \* incidents so far

durable == <<lane, own, report, cluster, intent, decision, queue, main, pushed>>
vars == <<durable, frame, pass, spent>>

Bug(l) == l[1]

NoIntent == [status |-> "none", new |-> 0, key |-> 0, bundle |-> 0]
Off      == [at |-> "off", lane |-> NoLane, new |-> 0, key |-> 0, bundle |-> 0,
             row |-> "none", strategy |-> FALSE, done |-> {}]

Promoting == {"promoting", "applying-main", "applied-main"}
Live      == Promoting \cup {"planned", "active", "verified"}

Untracked(p) == frame[p].at = "off"
Ended        == {"done", "raised", "exhausted"}
Respawning   == {"tree", "settle"}

Recovery == {"intents", "strategy", "stale", "promoting"}

Stages == <<"reap", "intents", "strategy", "stale", "promoting", "unblock", "admit", "promote">>

LanesInit ==
  /\ lane = [l \in LaneIds |-> IF l[2] = 1 THEN "planned" ELSE "none"]
  /\ own = {}
  /\ report = [b \in Bugs |-> [status |-> "queued", lane |-> 1, used |-> 0, kind |-> "none"]]
  /\ cluster = [b \in Bugs |-> [check |-> "applied", key |-> 1, round |-> 1, bundle |-> 1, lane |-> 1]]
  /\ intent = [l \in LaneIds |-> NoIntent]
  /\ decision = [b \in Bugs |-> [k \in Rounds |-> IF k = 1 THEN "retry" ELSE "none"]]
  /\ queue = NoLane
  /\ main = [r \in Repos |-> {}] /\ pushed = [r \in Repos |-> {}]
  /\ frame = [p \in Procs |-> Off]
  /\ pass = [at |-> 1, todo |-> {}, found |-> FALSE]
  /\ spent = 0

Incident == spent < MaxIncidents /\ spent' = spent + 1

----------------------------------------------------------------------------
(* How a coroutine ends.  A promotion that returns refreshes its queue; one *)
(* that raises leaves promoting_lane_id behind.                             *)
Return(p) ==
  /\ frame' = [frame EXCEPT ![p] = IF p = Scheduler THEN Off ELSE [Off EXCEPT !.at = "done"]]
  /\ queue' = IF p = Promotion THEN NoLane ELSE queue

Raise(p, how) ==
  /\ Incident
  /\ frame' = [frame EXCEPT ![p] = IF p = Scheduler THEN Off ELSE [Off EXCEPT !.at = how]]
  /\ UNCHANGED <<durable, pass>>

(* The lane a respawn of l writes: the one its intent names, or a new id.   *)
Allocated(b) == {n \in 1 .. MaxLanes : \/ lane[<<b, n>>] # "none"
                                       \/ \E l \in LaneIds : Bug(l) = b /\ intent[l].new = n}
NewLane(l) == IF intent[l].new # 0 THEN intent[l].new ELSE Cardinality(Allocated(Bug(l))) + 1

(* _strategy_checkpoint_kind: a status its fields do not support is not     *)
(* saved.                                                                   *)
Checked(c, status) == IF c.key # 0 /\ c.round # 0 THEN [c EXCEPT !.check = status]
                                                  ELSE [c EXCEPT !.check = "none"]

(* _respawn_lane_from_latest_main up to the worktree: an applied intent is  *)
(* not replayed, its lane only gets the cluster and the report back.  The   *)
(* cluster comes as the caller has it.                                      *)
Respawn(p, l, k, bundle, strategy, c) ==
  LET b == Bug(l)  n == NewLane(l) IN
  IF intent[l].status = "applied"
  THEN /\ cluster' = [cluster EXCEPT ![b] =
            LET to == [c EXCEPT !.lane = n] IN IF strategy THEN Checked(to, "applied") ELSE to]
       /\ report' = [report EXCEPT ![b].lane = IF @ = l[2] THEN n ELSE @]
       /\ Return(p)
       /\ UNCHANGED intent
  ELSE /\ n <= MaxLanes
       /\ cluster' = [cluster EXCEPT ![b] = c]
       /\ intent' = [intent EXCEPT ![l] = [status |-> "pending", new |-> n, key |-> k, bundle |-> bundle]]
       /\ frame' = [frame EXCEPT ![p] = [Off EXCEPT !.at = "tree", !.lane = l, !.new = n, !.key = k,
                                                     !.bundle = bundle, !.strategy = strategy]]
       /\ UNCHANGED <<report, queue>>

(* A bug's worktrees are ready in the order of their lanes: two respawns    *)
(* that make the same one may end in either order, and no later one before. *)
InOrder(p) ==
  \A q \in Procs : (frame[q].at = "tree" /\ Bug(frame[q].lane) = Bug(frame[p].lane))
                   => frame[q].new >= frame[p].new

(* The worktree is there: the rows are written over whatever they hold.     *)
Swap(p) ==
  LET f == frame[p]  b == Bug(f.lane)  new == <<b, f.new>>  c == cluster[b] IN
  /\ f.at = "tree" /\ InOrder(p)
  /\ lane' = [lane EXCEPT ![f.lane] = "superseded", ![new] = "planned"]
  /\ own' = own \ {new}
  /\ cluster' = [cluster EXCEPT ![b] =
       IF f.key = 0
       THEN [check |-> "none", key |-> 0, round |-> 0, bundle |-> 0, lane |-> f.new]
       ELSE [check |-> IF c.check = "none" THEN "decided" ELSE c.check, key |-> f.key,
             round |-> IF c.round = 0 THEN 1 ELSE c.round, bundle |-> f.bundle, lane |-> f.new]]
  /\ report' = [report EXCEPT ![b].lane = f.new, ![b].status = "queued", ![b].kind = "none"]
  /\ frame' = [frame EXCEPT ![p].at = "settle"]
  /\ UNCHANGED <<intent, decision, queue, main, pushed, pass, spent>>

Settle(p) ==
  LET f == frame[p]  b == Bug(f.lane) IN
  /\ f.at = "settle"
  /\ intent' = [intent EXCEPT ![f.lane] = [status |-> "applied", new |-> f.new,
                                           key |-> f.key, bundle |-> f.bundle]]
  /\ cluster' = [cluster EXCEPT ![b] = IF f.strategy THEN Checked(@, "applied") ELSE @]
  /\ Return(p)
  /\ UNCHANGED <<lane, own, report, decision, main, pushed, pass, spent>>

(* git fails.  The respawn of a failed lane only logs it; anywhere else in  *)
(* the poll loop it ends the phase, as a crash does.                        *)
TreeFails(p) ==
  /\ frame[p].at = "tree" /\ (p = Scheduler => Stages[pass.at] = "reap")
  /\ Raise(p, "raised")

----------------------------------------------------------------------------
(* _mark_lane_reports_blocked, with the cluster beside it.                  *)
Block(l, row, kind) ==
  /\ lane' = [lane EXCEPT ![l] = row]
  /\ report' = [report EXCEPT ![Bug(l)].status = "blocked", ![Bug(l)].kind = kind]

(* _retry_or_block_bug_lane: the failure is counted, and a strategist is    *)
(* asked unless the round has its decision already.  row is the lane's      *)
(* status as the caller holds it.                                           *)
Retry(p, l, row) ==
  LET b == Bug(l)  used == report[b].used + 1  c == cluster[b]  round == c.round + 1 IN
  /\ Incident
  /\ IF used < MaxAttempts
     THEN /\ lane' = [lane EXCEPT ![l] = row]
          /\ own' = own \ {l}
          /\ report' = [report EXCEPT ![b].used = used]
          /\ cluster' = [cluster EXCEPT ![b].bundle = round, ![b].check = "pending"]
          /\ frame' = [frame EXCEPT ![p] =
               [Off EXCEPT !.at = IF decision[b][round] = "none" THEN "decide" ELSE "reuse",
                           !.lane = l, !.key = round, !.bundle = round, !.row = row]]
          /\ UNCHANGED queue
     ELSE /\ lane' = [lane EXCEPT ![l] = "blocked"]
          /\ report' = [report EXCEPT ![b].used = MaxAttempts, ![b].status = "blocked",
                                      ![b].kind = "counted"]
          /\ cluster' = [cluster EXCEPT ![b].lane = l[2]]
          /\ Return(p)
          /\ UNCHANGED own
  /\ UNCHANGED <<intent, decision, main, pushed, pass>>

(* _apply_cluster_strategy.  The lane's row is saved as the caller holds it *)
(* (a lane's task brings its own nonce back with it), then the lane is      *)
(* blocked or respawned.                                                    *)
Apply(p, l, row, mode, key, bundle, c) ==
  LET at == [c EXCEPT !.key = key, !.round = bundle, !.bundle = bundle] IN
  IF mode = "human"
  THEN /\ Block(l, "blocked", "human")
       /\ cluster' = [cluster EXCEPT ![Bug(l)] = Checked([at EXCEPT !.lane = l[2]], "applied")]
       /\ own' = IF p \in LaneIds THEN own \cup {p} ELSE own
       /\ Return(p)
       /\ UNCHANGED intent
  ELSE /\ lane' = [lane EXCEPT ![l] = row]
       /\ own' = IF p \in LaneIds THEN own \cup {p} ELSE own
       /\ Respawn(p, l, key, bundle, TRUE, at)

(* The decision is stored, "decided" is saved over the key and round of the *)
(* last one, and the decision is applied.                                   *)
Decided(p, mode) ==
  LET f == frame[p]  b == Bug(f.lane) IN
  /\ Apply(p, f.lane, f.row, mode, f.key, f.bundle, Checked(cluster[b], "decided"))
  /\ UNCHANGED <<main, pushed, pass, spent>>

Decide(p) ==
  /\ frame[p].at = "decide"
  /\ \E mode \in {"retry", "human"} :
       /\ decision' = [decision EXCEPT ![Bug(frame[p].lane)][frame[p].key] = mode]
       /\ Decided(p, mode)

Reuse(p) ==
  /\ frame[p].at = "reuse"
  /\ Decided(p, decision[Bug(frame[p].lane)][frame[p].key])
  /\ UNCHANGED decision

DecideFails(p) == p # Scheduler /\ frame[p].at = "decide" /\ Raise(p, "raised")

----------------------------------------------------------------------------
(* _execute_lane.  An agent's turn takes longer than the rest of a respawn  *)
(* that still writes the agent's lane.                                      *)
Settled(l) == \A p \in Procs : frame[p].at \in Respawning => Bug(frame[p].lane) # Bug(l)

Fix(l) ==
  /\ frame[l].at = "fix" /\ Settled(l)
  /\ lane' = [lane EXCEPT ![l] = "active"]
  /\ own' = own \cup {l}
  /\ report' = [report EXCEPT ![Bug(l)].status = "active"]
  /\ cluster' = [cluster EXCEPT ![Bug(l)].lane = l[2]]
  /\ frame' = [frame EXCEPT ![l].at = "verify"]
  /\ UNCHANGED <<intent, decision, queue, main, pushed, pass, spent>>

(* A commit hook refuses the fix: the lane is blocked, and retried.         *)
CommitFails(l) == frame[l].at = "fix" /\ Settled(l) /\ Retry(l, l, "blocked")

Verify(l) ==
  /\ frame[l].at = "verify" /\ Settled(l)
  /\ lane' = [lane EXCEPT ![l] = "verified"]
  /\ report' = [report EXCEPT ![Bug(l)].status = "active"]
  /\ cluster' = [cluster EXCEPT ![Bug(l)].lane = l[2]]
  /\ Return(l)
  /\ UNCHANGED <<own, intent, decision, main, pushed, pass, spent>>

VerifyFails(l) == frame[l].at = "verify" /\ Settled(l) /\ Retry(l, l, "active")

TurnFails(l) == \E how \in {"raised", "exhausted"} :
                  frame[l].at \in {"fix", "verify"} /\ Settled(l) /\ Raise(l, how)

LaneTask(l) ==
  \/ Fix(l) \/ CommitFails(l) \/ Verify(l) \/ VerifyFails(l) \/ TurnFails(l)
  \/ Decide(l) \/ Reuse(l) \/ DecideFails(l) \/ Swap(l) \/ Settle(l) \/ TreeFails(l)

----------------------------------------------------------------------------
(* _promote_lane: a replay in a worktree of its own is verified, then the   *)
(* commits are picked onto main, repository by repository, and pushed.      *)
Promoted == frame[Promotion].lane

Replay ==
  /\ frame[Promotion].at = "check"
  /\ lane' = [lane EXCEPT ![Promoted] = "applying-main"]
  /\ frame' = [frame EXCEPT ![Promotion].at = "apply"]
  /\ UNCHANGED <<own, report, cluster, intent, decision, queue, main, pushed, pass, spent>>

(* Nothing to promote, or the replay conflicts: no strategist is asked.     *)
ReplayFails ==
  /\ frame[Promotion].at = "check" /\ Incident
  /\ Respawn(Promotion, Promoted, 0, 0, FALSE, cluster[Bug(Promoted)])
  /\ UNCHANGED <<lane, own, decision, main, pushed, pass>>

VerdictFails == frame[Promotion].at = "check" /\ Retry(Promotion, Promoted, "promoting")

(* The repositories are done one after the other.  A pick that is there     *)
(* already is empty, and git refuses it (PromotionFails).                   *)
PickCommits(r) ==
  LET done == frame[Promotion].done IN
  /\ frame[Promotion].at = "apply"
  /\ r \in Changes[Bug(Promoted)] \ done /\ Changes[Bug(Promoted)] \cap (1 .. r - 1) \subseteq done
  /\ Promoted \notin main[r]
  /\ main' = [main EXCEPT ![r] = @ \cup {Promoted}]
  /\ frame' = [frame EXCEPT ![Promotion].done = done \cup {r}]
  /\ UNCHANGED <<lane, own, report, cluster, intent, decision, queue, pushed, pass, spent>>

Applied ==
  /\ frame[Promotion].at = "apply" /\ frame[Promotion].done = Changes[Bug(Promoted)]
  /\ lane' = [lane EXCEPT ![Promoted] = "applied-main"]
  /\ frame' = [frame EXCEPT ![Promotion].at = "plan"]
  /\ UNCHANGED <<own, report, cluster, intent, decision, queue, main, pushed, pass, spent>>

(* _push_clones_to_source_root plans the push of every repository before it *)
(* pushes one: it refuses, unless told of it, a repository whose source is  *)
(* at the local head already.                                               *)
AtHead(r) == pushed[r] = main[r]

PlanPush ==
  /\ frame[Promotion].at = "plan" /\ \A r \in Repos : ~AtHead(r)
  /\ frame' = [frame EXCEPT ![Promotion].at = "push"]
  /\ UNCHANGED <<durable, pass, spent>>

(* A repository whose push fails is left out and the others are still       *)
(* pushed before the failure is raised (PromotionFails; in recovery it ends *)
(* the process, Crash).                                                     *)
Push(p, r) ==
  /\ frame[p].at = "push" /\ ~AtHead(r)
  /\ pushed' = [pushed EXCEPT ![r] = main[r]]
  /\ UNCHANGED <<lane, own, report, cluster, intent, decision, queue, main, frame, pass, spent>>

(* _finalize_promoted_lane.                                                 *)
Finalize(l) ==
  /\ lane' = [lane EXCEPT ![l] = "promoted"]
  /\ report' = [report EXCEPT ![Bug(l)].status = "resolved", ![Bug(l)].kind = "none"]
  /\ cluster' = [cluster EXCEPT ![Bug(l)].lane = l[2]]

Finish(p) ==
  /\ frame[p].at = "push" /\ \A r \in Repos : AtHead(r)
  /\ Finalize(frame[p].lane)
  /\ Return(p)
  /\ UNCHANGED <<own, intent, decision, main, pushed, pass, spent>>

(* The refusal is taken for the replay of a push that was complete          *)
(* (_is_applied_main_source_push_resume_complete), although nothing was     *)
(* pushed.                                                                  *)
TakenForPushed ==
  /\ frame[Promotion].at = "plan" /\ \E r \in Repos : AtHead(r)
  /\ Finalize(Promoted)
  /\ Return(Promotion)
  /\ UNCHANGED <<own, intent, decision, main, pushed, pass, spent>>

PromotionFails == frame[Promotion].at \in {"check", "apply", "plan", "push"} /\ Raise(Promotion, "raised")

PromotionTask ==
  \/ Replay \/ ReplayFails \/ VerdictFails \/ Applied \/ PlanPush \/ TakenForPushed
  \/ Finish(Promotion) \/ PromotionFails
  \/ \E r \in Repos : PickCommits(r) \/ Push(Promotion, r)
  \/ Decide(Promotion) \/ Reuse(Promotion) \/ DecideFails(Promotion)
  \/ Swap(Promotion) \/ Settle(Promotion) \/ TreeFails(Promotion)

----------------------------------------------------------------------------
(* The poll loop.  Each stage lists its work and goes through the list.     *)
Stage(name) == Stages[pass.at] = name /\ Untracked(Scheduler)

Take(x) == pass' = [pass EXCEPT !.todo = @ \ {x}]

(* Mutant: a superseded lane is taken for one whose respawn is complete.    *)
ResumableLive == {l \in LaneIds : intent[l].status = "pending" /\ lane[l] \in Live}

Resumable == {l \in LaneIds : intent[l].status = "pending"}

Respawnable(b) == /\ report[b].status = "blocked" /\ report[b].kind = "infrastructure"
                  /\ report[b].used < MaxAttempts

Work(name) ==
  CASE name = "reap"      -> {p \in Tasks : frame[p].at \in Ended}
    [] name = "intents"   -> Resumable
    [] name = "strategy"  -> {[bug |-> b, lane |-> <<b, cluster[b].lane>>, key |-> cluster[b].key,
                               bundle |-> cluster[b].bundle] : b \in
                              {x \in Bugs : /\ cluster[x].check \in {"pending", "decided"}
                                            /\ Untracked(<<x, cluster[x].lane>>)}}
    [] name = "stale"     -> {l \in LaneIds : /\ lane[l] = "active" /\ Untracked(l)
                                              /\ cluster[Bug(l)].check = "none"}
    [] name = "promoting" -> {l \in LaneIds : lane[l] \in Promoting /\ Untracked(Promotion)}
    [] name = "unblock"   -> {l \in LaneIds : /\ Respawnable(Bug(l)) /\ report[Bug(l)].lane = l[2]
                                              /\ lane[l] \in {"blocked", "interrupted-main"}
                                              /\ \A m \in LaneIds : Bug(m) = Bug(l) => lane[m] \notin Live}
    [] name = "admit"     -> {l \in LaneIds : lane[l] = "planned" /\ Untracked(l)}
    [] name = "promote"   -> {l \in LaneIds : lane[l] = "verified" /\ Untracked(Promotion) /\ queue = NoLane}

(* Finished tasks leave the tables; a failure is handled if the lane's row  *)
(* still has the task's nonce.  A promotion saves its queue without one, so *)
(* its failure is left to recovery.                                         *)
Reap(p) ==
  /\ Stage("reap") /\ p \in pass.todo /\ Take(p)
  /\ frame' = [frame EXCEPT ![p] = Off,
                            ![Scheduler] = IF p \in own /\ frame[p].at # "done"
                                           THEN [Off EXCEPT !.at = frame[p].at, !.lane = p] ELSE Off]
  /\ own' = own \ {p}
  /\ UNCHANGED <<lane, report, cluster, intent, decision, queue, main, pushed, spent>>

(* _handle_lane_task_failure: respawned, or blocked if the agent could not  *)
(* give its answer a structure.                                             *)
HandleFailure ==
  LET l == frame[Scheduler].lane IN
  /\ frame[Scheduler].at = "raised"
  /\ Respawn(Scheduler, l, 0, 0, FALSE, [cluster[Bug(l)] EXCEPT !.lane = l[2]])
  /\ UNCHANGED <<lane, own, decision, main, pushed, pass, spent>>

BlockExhausted ==
  LET l == frame[Scheduler].lane IN
  /\ frame[Scheduler].at = "exhausted"
  /\ Block(l, "blocked", "structured")
  /\ cluster' = [cluster EXCEPT ![Bug(l)].lane = l[2]]
  /\ Return(Scheduler)
  /\ UNCHANGED <<own, intent, decision, main, pushed, pass, spent>>

(* _recover_stale_execution_state: pending intents first.                   *)
Resume(l) ==
  /\ Stage("intents") /\ l \in pass.todo /\ Take(l)
  /\ Respawn(Scheduler, l, intent[l].key, intent[l].bundle, FALSE, cluster[Bug(l)])
  /\ UNCHANGED <<lane, own, decision, main, pushed, spent>>

(* Then strategies left pending or decided: the decision under the          *)
(* cluster's key is applied, whichever round it is of.                      *)
ResumeStrategy(s) ==
  /\ Stage("strategy") /\ s \in pass.todo /\ Take(s)
  /\ IF s.key # 0
     THEN Apply(Scheduler, s.lane, lane[s.lane], decision[s.bug][s.key], s.key, s.bundle, cluster[s.bug])
     ELSE /\ frame' = [frame EXCEPT ![Scheduler] =
               [Off EXCEPT !.at = IF decision[s.bug][s.bundle] = "none" THEN "decide" ELSE "reuse",
                           !.lane = s.lane, !.key = s.bundle, !.bundle = s.bundle, !.row = lane[s.lane]]]
          /\ UNCHANGED <<lane, own, report, cluster, intent, queue>>
  /\ UNCHANGED <<decision, main, pushed, spent>>

(* Then lanes nobody executes.                                              *)
RespawnStale(l) ==
  /\ Stage("stale") /\ l \in pass.todo /\ Take(l)
  /\ IF lane[l] = "active"
     THEN Respawn(Scheduler, l, 0, 0, FALSE, cluster[Bug(l)])
     ELSE UNCHANGED <<report, cluster, intent, queue, frame>>
  /\ UNCHANGED <<lane, own, decision, main, pushed, spent>>

(* Mutant: what the promotion applied is taken for pushed.                  *)
FinalizeUnpushed(l) ==
  /\ Stage("promoting") /\ l \in pass.todo /\ lane[l] = "applied-main" /\ Take(l)
  /\ Finalize(l)
  /\ UNCHANGED <<own, intent, decision, queue, main, pushed, frame, spent>>

(* Then promotions nobody runs: what is on main is pushed, what may be half *)
(* on main is blocked, and the rest is respawned.  The replay of a push     *)
(* looks up first which repositories are at their heads, and passes them.   *)
FinalizeApplied(l) ==
  /\ Stage("promoting") /\ l \in pass.todo /\ lane[l] = "applied-main" /\ Take(l)
  /\ frame' = [frame EXCEPT ![Scheduler] = [Off EXCEPT !.at = "push", !.lane = l]]
  /\ UNCHANGED <<durable, spent>>

BlockInterrupted(l) ==
  /\ Stage("promoting") /\ l \in pass.todo /\ lane[l] = "applying-main" /\ Take(l)
  /\ Block(l, "interrupted-main", "infrastructure")
  /\ cluster' = [cluster EXCEPT ![Bug(l)].lane = l[2]]
  /\ UNCHANGED <<own, intent, decision, queue, main, pushed, frame, spent>>

(* Mutant: recovery forgets that promotion_status tells how far it came.    *)
RespawnHalfLanded(l) ==
  /\ Stage("promoting") /\ l \in pass.todo /\ lane[l] \in Promoting /\ Take(l)
  /\ Respawn(Scheduler, l, 0, 0, FALSE, cluster[Bug(l)])
  /\ UNCHANGED <<lane, own, decision, main, pushed, spent>>

(* The code asks first whether the lane's own commits are on main; picks    *)
(* are new commits, so they never are.                                      *)
RespawnPromoting(l) ==
  /\ Stage("promoting") /\ l \in pass.todo /\ lane[l] = "promoting" /\ Take(l)
  /\ Respawn(Scheduler, l, 0, 0, FALSE, cluster[Bug(l)])
  /\ UNCHANGED <<lane, own, decision, main, pushed, spent>>

(* _recover_retryable_blocked_reports.                                      *)
Unblock(l) ==
  /\ Stage("unblock") /\ l \in pass.todo /\ Take(l)
  /\ Respawn(Scheduler, l, 0, 0, FALSE, cluster[Bug(l)])
  /\ UNCHANGED <<lane, own, decision, main, pushed, spent>>

(* _admit_planned_lanes: no lane under way has a path in common.            *)
Overlapping(l) == \E m \in LaneIds : lane[m] = "active" /\ Scope[Bug(m)] \cap Scope[Bug(l)] # {}

Admit(l) ==
  /\ Stage("admit") /\ l \in pass.todo /\ Take(l)
  /\ IF Overlapping(l)
     THEN UNCHANGED <<lane, own, report, cluster, frame>>
     ELSE /\ lane' = [lane EXCEPT ![l] = "active"]
          /\ own' = own \cup {l}
          /\ report' = [report EXCEPT ![Bug(l)].status = "active"]
          /\ cluster' = [cluster EXCEPT ![Bug(l)].lane = l[2]]
          /\ frame' = [frame EXCEPT ![l] = [Off EXCEPT !.at = "fix"]]
  /\ UNCHANGED <<intent, decision, queue, main, pushed, spent>>

StartPromotion(l) ==
  /\ Stage("promote") /\ l \in pass.todo
  /\ Untracked(Promotion) /\ queue = NoLane
  /\ pass' = [pass EXCEPT !.todo = {}]
  /\ lane' = [lane EXCEPT ![l] = "promoting"]
  /\ report' = [report EXCEPT ![Bug(l)].status = "active"]
  /\ queue' = l
  /\ frame' = [frame EXCEPT ![Promotion] = [Off EXCEPT !.at = "check", !.lane = l]]
  /\ UNCHANGED <<own, cluster, intent, decision, main, pushed, spent>>

(* The loop goes on to the next stage that finds work, and sleeps when a    *)
(* whole pass finds none.  Recovery ends with a fresh promotion queue if it *)
(* did anything or the queue names a lane that is not being promoted.       *)
Idle(i) == Work(Stages[i]) = {}
Ahead(i) == (pass.at < i /\ \A j \in pass.at + 1 .. i - 1 : Idle(j))
Behind(i) == /\ \A j \in pass.at + 1 .. Len(Stages) : Idle(j)
             /\ \A j \in 1 .. i - 1 : Idle(j)

LastOfRecovery == 5

NextStage(i) ==
  /\ Untracked(Scheduler) /\ pass.todo = {} /\ ~Idle(i)
  /\ Ahead(i) \/ Behind(i)
  /\ LET leaves == pass.at <= LastOfRecovery /\ ~(pass.at < i /\ i <= LastOfRecovery) IN
     /\ pass' = [at |-> i, todo |-> Work(Stages[i]),
                 found |-> Stages[i] \in Recovery]
     /\ queue' = IF leaves /\ pass.found THEN NoLane ELSE queue
  /\ UNCHANGED <<lane, own, report, cluster, intent, decision, main, pushed, frame, spent>>

(* Recovery that found nothing.                                             *)
RefreshQueue ==
  /\ Untracked(Scheduler) /\ pass.todo = {}
  /\ queue # NoLane /\ lane[queue] \notin Promoting
  /\ queue' = NoLane
  /\ UNCHANGED <<lane, own, report, cluster, intent, decision, main, pushed, frame, pass, spent>>

PollLoop ==
  \/ \E p \in Tasks : Reap(p)
  \/ HandleFailure \/ BlockExhausted
  \/ \E l \in LaneIds : \/ Resume(l) \/ RespawnStale(l)
                         \/ FinalizeApplied(l) \/ BlockInterrupted(l) \/ RespawnPromoting(l)
                         \/ Unblock(l) \/ Admit(l) \/ StartPromotion(l)
  \/ \E s \in pass.todo : ResumeStrategy(s)
  \/ Decide(Scheduler) \/ Reuse(Scheduler) \/ Swap(Scheduler) \/ Settle(Scheduler)
  \/ TreeFails(Scheduler)
  \/ (\E r \in Repos : Push(Scheduler, r)) \/ Finish(Scheduler)
  \/ \E i \in 1 .. Len(Stages) : NextStage(i)
  \/ RefreshQueue

(* The process dies and is started again; rows stay, tasks do not.          *)
Crash ==
  /\ Incident
  /\ frame' = [p \in Procs |-> Off]
  /\ own' = {}
  /\ pass' = [at |-> 1, todo |-> {}, found |-> FALSE]
  /\ UNCHANGED <<lane, report, cluster, intent, decision, queue, main, pushed>>

LanesNext == (\E l \in LaneIds : LaneTask(l)) \/ PromotionTask \/ PollLoop \/ Crash

LanesSpec == LanesInit /\ [][LanesNext]_vars

FairLanesSpec ==
  /\ LanesSpec
  /\ WF_vars(PollLoop) /\ WF_vars(PromotionTask)
  /\ \A l \in LaneIds : WF_vars(LaneTask(l))

----------------------------------------------------------------------------
(* A report is resolved only when some lane of its bug is whole on main     *)
(* and, if the lane changes every repository, in all the source             *)
(* repositories, whatever crashed or failed between picking its commits,    *)
(* pushing them and saving the rows (_promote_lane,                         *)
(* _finalize_promoted_lane).  Of a lane that leaves a repository alone      *)
(* nothing more holds: the repository it left alone makes the plan refuse   *)
(* its push, and the refusal is taken for a push that is complete.          *)
ResolvedIsLanded ==
  \A b \in Bugs : report[b].status = "resolved"
    => \E n \in 1 .. MaxLanes : \A r \in Changes[b] :
         <<b, n>> \in main[r] /\ (Changes[b] = Repos => <<b, n>> \in pushed[r])

(* A lane some of whose commits are on main is replaced only after it was   *)
(* blocked as interrupted and reported so, or by a respawn that carries out *)
(* a strategist's decision: no failure handler and no stage of the recovery *)
(* replays it of its own accord (_block_interrupted_main_promotion).  A     *)
(* decision meant for another lane of the bug may replace one that has      *)
(* landed whole.                                                            *)
HalfLandedIsBlockedFirst ==
  [][\A l \in LaneIds :
       (lane[l] # "superseded" /\ lane'[l] = "superseded" /\ \E r \in Repos : l \in main[r])
       => \/ lane[l] = "interrupted-main"
          \/ \E p \in Procs : frame[p].at = "tree" /\ frame[p].lane = l /\ frame[p].key # 0]_vars

(* No respawn stays half done, no verified lane waits for ever and none     *)
(* stays half on main or unpushed, in spite of crashes, failed git calls    *)
(* and a promotion queue that names a lane nobody promotes                  *)
(* (_recover_stale_execution_state).  A lane that is active under a         *)
(* strategy that was applied, or promoting and not yet picked, may stay so. *)
Stranded(l) == \/ intent[l].status = "pending"
               \/ lane[l] \in {"verified", "applying-main", "applied-main"}

NothingStranded == []<>(\A l \in LaneIds : ~Stranded(l))

=============================================================================
