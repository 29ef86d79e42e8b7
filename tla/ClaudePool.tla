----------------------------- MODULE ClaudePool -----------------------------
(***************************************************************************)
(* The Claude pool (runtimes/claude_pool.py): calls of one client process  *)
(* submit jobs to per-profile runner processes through a directory tree.   *)
(* A job is one JSON file that is renamed from queued/ to running/ and on  *)
(* to done/ or failed/; there is no other synchronisation between client   *)
(* and runner, so every file operation the other side can see is a step.   *)
(*                                                                         *)
(* Inside the client only awaits let another call in: a selection that     *)
(* probes no profile, and the submission that follows it, are one step.    *)
(* Weights and load scores only order the available profiles, so a         *)
(* selection takes any of them; calls keep no session, so none is sticky.  *)
(***************************************************************************)
EXTENDS Naturals, FiniteSets

CONSTANTS
  Profiles,    \* names in profiles.json, each with one runner process
  Calls,       \* invoke() calls
  Typed,       \* calls with an output type, which is asked for again
  NoProfile, NoCall,
  MaxTurns,    \* answers asked for before the output type is given up (3)
  MaxCrashes   \* bound: crashes of runners

ASSUME PoolAssumption ==
  /\ IsFiniteSet(Profiles) /\ Profiles # {}
  /\ NoProfile \notin Profiles /\ NoCall \notin Calls /\ Typed \subseteq Calls
  /\ MaxTurns \in Nat \ {0} /\ MaxCrashes \in Nat

VARIABLES
  job,      \* per job: its directory, profile, verdict in result.json, whether
            \* its newest time stamp is stale, and where its runner task is;
            \* the heartbeat of a task that runs keeps the stamp fresh
  call,     \* per call: its step, turn, jobs submitted in the turn, the profile
            \* invoke selected, and the profiles attempted in the turn
  record,   \* profile_state.json: "clear", "marked" unavailable, probe "due"
  picking,  \* who holds _affinity_lock, and how far its selection is
  crashes

vars == <<job, call, record, picking, crashes>>

(* A call submits one job per attempt of a turn.                            *)
Jobs == Calls \X (1 .. MaxTurns) \X (1 .. Cardinality(Profiles))
Job(c) == <<c, call[c].turn, call[c].tries>>
JobsOf(c) == {j \in Jobs : j[1] = c}

Directories == {"none", "queued", "running", "done", "failed"}
Answers  == {"valid", "invalid"}           \* ok: true
Failures == {"limited", "other"}           \* ok: false, classified or not
Live     == {"queued", "running"}

Selecting == {"select_first", "select_again", "select_next"}
Polling   == {"done?", "failed?", "running?", "queued?"}
Ended     == {"answered", "rejected", "errored", "exhausted", "timed_out", "lost"}

Free == [by |-> NoCall, phase |-> "idle", left |-> {}, probing |-> NoProfile]

PoolInit ==
  /\ job = [j \in Jobs |-> [dir |-> "none", profile |-> NoProfile, verdict |-> "none",
                            stale |-> FALSE, task |-> "none"]]
  /\ call = [c \in Calls |-> [pc |-> "select_first", turn |-> 1, tries |-> 0,
                              first |-> NoProfile, attempted |-> {}]]
  /\ record = [p \in Profiles |-> "clear"]
  /\ picking = Free
  /\ crashes = 0

At(c, label) == call[c].pc = label
Goto(c, label) == call' = [call EXCEPT ![c].pc = label]
Dir(c) == job[Job(c)].dir

----------------------------------------------------------------------------
(* _submit_and_wait, up to the queued file.                                 *)
Submit(c, state, p) ==
  LET submitted == [state EXCEPT !.pc = "done?", !.tries = @ + 1,
                                 !.attempted = @ \cup {p}]
  IN /\ call' = [call EXCEPT ![c] = submitted]
     /\ job' = [job EXCEPT ![<<c, submitted.turn, submitted.tries>>] =
                  [dir |-> "queued", profile |-> p, verdict |-> "none",
                   stale |-> FALSE, task |-> "none"]]

(* Mutant: a turn starts on the profile of the first one, whatever became   *)
(* of it.                                                                   *)
StartTurnAnyhow(c) == Submit(c, [call[c] EXCEPT !.turn = @ + 1, !.tries = 0, !.attempted = {}],
                             call[c].first)

(* _submit_and_wait_with_failover, called again with the profile invoke     *)
(* selected for the first turn.                                             *)
StartTurn(c) ==
  LET next == [call[c] EXCEPT !.turn = @ + 1, !.tries = 0, !.attempted = {}]
  IN \/ /\ record[next.first] = "marked"
        /\ call' = [call EXCEPT ![c] = [next EXCEPT !.pc = "select_again"]]
        /\ UNCHANGED job
     \/ record[next.first] # "marked" /\ Submit(c, next, next.first)

----------------------------------------------------------------------------
(* _select_profile under _affinity_lock: probe the profiles that are due,   *)
(* then choose.                                                             *)
Picks(c, phase) == picking.by = c /\ picking.phase = phase /\ picking.probing = NoProfile

Due == {p \in Profiles : record[p] = "due"}

Acquire(c) ==
  /\ call[c].pc \in Selecting
  /\ picking.by = NoCall
  /\ Due # {} \/ \A p \in Profiles : record[p] = "marked"
  /\ picking' = [by |-> c, phase |-> "refresh", left |-> Due, probing |-> NoProfile]
  /\ UNCHANGED <<job, call, record, crashes>>

(* _refresh_due_profile_state reads the record again before each probe.     *)
StartProbe(c, p) ==
  /\ Picks(c, "refresh") \/ Picks(c, "last_resort")
  /\ p \in picking.left
  /\ picking' = [picking EXCEPT !.left = @ \ {p},
                   !.probing = IF picking.phase = "refresh" /\ record[p] # "due"
                               THEN NoProfile ELSE p]
  /\ UNCHANGED <<job, call, record, crashes>>

(* Mutant: a profile that was attempted is attempted again.                 *)
ChosenAgain(c, p) ==
  /\ picking' = Free
  /\ IF At(c, "select_next") /\ call[c].tries = Cardinality(Profiles)
     THEN Goto(c, "exhausted") /\ UNCHANGED job
     ELSE Submit(c, IF At(c, "select_first") THEN [call[c] EXCEPT !.first = p] ELSE call[c], p)

(* The lock is released and the call goes on without an await.              *)
Chosen(c, p) ==
  /\ picking' = Free
  /\ IF At(c, "select_next")
          /\ (p \in call[c].attempted \/ call[c].tries = Cardinality(Profiles))
     THEN Goto(c, "exhausted") /\ UNCHANGED job
     ELSE Submit(c, IF At(c, "select_first") THEN [call[c] EXCEPT !.first = p] ELSE call[c], p)

(* _probe_profile_available: an availability job that its runner answers,   *)
(* or any error or timeout.  An answer that is not ok and says nothing that *)
(* classifies leaves the record as it is, and a profile that was due        *)
(* available.  A last resort that succeeds is chosen at once.               *)
EndProbe(c) ==
  LET p == picking.probing IN
  /\ picking.by = c /\ p # NoProfile
  /\ \/ /\ record' \in {record, [record EXCEPT ![p] = "marked"]}
        /\ picking' = [picking EXCEPT !.probing = NoProfile]
        /\ UNCHANGED <<job, call>>
     \/ /\ record' = [record EXCEPT ![p] = "clear"]
        /\ IF picking.phase = "last_resort" THEN Chosen(c, p)
           ELSE picking' = [picking EXCEPT !.probing = NoProfile] /\ UNCHANGED <<job, call>>
  /\ UNCHANGED crashes

Choose(c, p) ==
  /\ \/ call[c].pc \in Selecting /\ picking.by = NoCall /\ Due = {}
     \/ Picks(c, "refresh") /\ picking.left = {}
  /\ record[p] # "marked"
  /\ Chosen(c, p)
  /\ UNCHANGED <<record, crashes>>

(* Every profile is marked: probe them all before giving up.                *)
LastResort(c) ==
  /\ Picks(c, "refresh") /\ picking.left = {}
  /\ \A p \in Profiles : record[p] = "marked"
  /\ picking' = [picking EXCEPT !.phase = "last_resort", !.left = Profiles]
  /\ UNCHANGED <<job, call, record, crashes>>

NoneAvailable(c) ==
  /\ Picks(c, "last_resort") /\ picking.left = {}
  /\ picking' = Free
  /\ Goto(c, "exhausted")
  /\ UNCHANGED <<job, record, crashes>>

----------------------------------------------------------------------------
(* The polling loop of _submit_and_wait: done, failed, running and queued   *)
(* are looked for one after the other, and the manifest found is then read. *)
LastTurn(c) == call[c].turn = MaxTurns

PollDone(c) ==
  LET verdict == job[Job(c)].verdict IN
  /\ At(c, "done?")
  /\ \/ Dir(c) # "done" /\ Goto(c, "failed?") /\ UNCHANGED job
     \/ Dir(c) = "done" /\ verdict = "valid" /\ Goto(c, "answered") /\ UNCHANGED job
     \/ Dir(c) = "done" /\ verdict \notin Answers /\ Goto(c, "errored") /\ UNCHANGED job
     \/ /\ Dir(c) = "done" /\ verdict = "invalid"
        /\ \/ LastTurn(c) /\ Goto(c, "rejected") /\ UNCHANGED job
           \/ ~LastTurn(c) /\ StartTurn(c)
  /\ UNCHANGED <<record, picking, crashes>>

(* Only an error that classifies marks the profile and fails over.          *)
PollFailed(c) ==
  LET limited == job[Job(c)].verdict = "limited" IN
  /\ At(c, "failed?")
  /\ \/ Dir(c) # "failed" /\ Goto(c, "running?") /\ UNCHANGED record
     \/ Dir(c) = "failed" /\ ~limited /\ Goto(c, "errored") /\ UNCHANGED record
     \/ /\ Dir(c) = "failed" /\ limited
        /\ record' = [record EXCEPT ![job[Job(c)].profile] = "marked"]
        /\ Goto(c, "select_next")
  /\ UNCHANGED <<job, picking, crashes>>

(* _raise_if_job_not_progressing.  The absolute cap may have passed at any  *)
(* poll.  No timeout is a RuntimeError, so none fails over.                 *)
Capped(c) ==
  /\ At(c, "running?")
  /\ Goto(c, "timed_out")
  /\ UNCHANGED <<job, record, picking, crashes>>

(* Mutant: a timeout fails over like a limited profile does.                *)
PollRunningFailover(c) ==
  /\ At(c, "running?")
  /\ \/ Dir(c) = "running" /\ Goto(c, IF job[Job(c)].stale THEN "select_next" ELSE "done?")
     \/ Dir(c) # "running" /\ Goto(c, "queued?")
     \/ Dir(c) \in {"done", "failed"} /\ Goto(c, "done?")
  /\ UNCHANGED <<job, record, picking, crashes>>

(* Mutant: a job that was claimed is waited for.                            *)
PollRunningPatiently(c) ==
  /\ At(c, "running?")
  /\ \/ Dir(c) = "running" /\ Goto(c, "done?")
     \/ Dir(c) # "running" /\ Goto(c, "queued?")
     \/ Dir(c) \in {"done", "failed"} /\ Goto(c, "done?")
  /\ UNCHANGED <<job, record, picking, crashes>>

(* A file that is seen and moves before it is read counts as progress.      *)
PollRunning(c) ==
  /\ At(c, "running?")
  /\ \/ Dir(c) = "running" /\ Goto(c, IF job[Job(c)].stale THEN "timed_out" ELSE "done?")
     \/ Dir(c) # "running" /\ Goto(c, "queued?")
     \/ Dir(c) \in {"done", "failed"} /\ Goto(c, "done?")
  /\ UNCHANGED <<job, record, picking, crashes>>

PollQueued(c) ==
  /\ At(c, "queued?")
  /\ \/ Dir(c) = "queued" /\ Goto(c, IF job[Job(c)].stale THEN "timed_out" ELSE "done?")
     \/ Dir(c) # "queued" /\ \E next \in {"lost", "done?"} : Goto(c, next)
  /\ UNCHANGED <<job, record, picking, crashes>>

----------------------------------------------------------------------------
(* ClaudePoolRunner of the job's profile.  _claim renames the file, then    *)
(* stamps it; the task keeps a heartbeat, writes the result, and renames.   *)
Claim(j) ==
  /\ job[j].task = "none" /\ job[j].dir = "queued"
  /\ job' = [job EXCEPT ![j].dir = "running", ![j].task = "claimed"]
  /\ UNCHANGED <<call, record, picking, crashes>>

Stamp(j) ==
  /\ job[j].task = "claimed"
  /\ job' = [job EXCEPT ![j].task = "working", ![j].stale = FALSE]
  /\ UNCHANGED <<call, record, picking, crashes>>

WriteResult(j, verdict) ==
  /\ job[j].task = "working"
  /\ verdict = "invalid" => j[1] \in Typed
  /\ job' = [job EXCEPT ![j].verdict = verdict, ![j].task = "written", ![j].stale = FALSE]
  /\ UNCHANGED <<call, record, picking, crashes>>

Finish(j) ==
  /\ job[j].task = "written"
  /\ job' = [job EXCEPT ![j].dir = IF job[j].verdict \in Answers THEN "done" ELSE "failed",
                        ![j].task = "none", ![j].stale = FALSE]
  /\ UNCHANGED <<call, record, picking, crashes>>

(* The tasks of a runner die with it.  It is started again, now or later   *)
(* or never, and looks at queued/ only: what it had claimed stays in        *)
(* running/ for ever.                                                       *)
CrashRunner(p) ==
  /\ crashes < MaxCrashes
  /\ \E j \in Jobs : job[j].profile = p /\ job[j].task # "none"
  /\ crashes' = crashes + 1
  /\ job' = [j \in Jobs |-> IF job[j].profile = p THEN [job[j] EXCEPT !.task = "none"] ELSE job[j]]
  /\ UNCHANGED <<call, record, picking>>

(* Time: a stamp nobody renews grows older than the stale timeout, a mark   *)
(* reaches its probe_after.                                                 *)
Age(j) ==
  /\ job[j].dir \in Live /\ job[j].task = "none" /\ ~job[j].stale
  /\ job' = [job EXCEPT ![j].stale = TRUE]
  /\ UNCHANGED <<call, record, picking, crashes>>

ProbeDue(p) ==
  /\ record[p] = "marked"
  /\ record' = [record EXCEPT ![p] = "due"]
  /\ UNCHANGED <<job, call, picking, crashes>>

Select(c) ==
  Acquire(c) \/ EndProbe(c) \/ LastResort(c) \/ NoneAvailable(c)
    \/ \E p \in Profiles : StartProbe(c, p) \/ Choose(c, p)
Poll(c) == PollDone(c) \/ PollFailed(c) \/ PollRunning(c) \/ PollQueued(c)
(* Mutant: the file is renamed before its result is written.                *)
ServeRenamingFirst(j) ==
  \/ Stamp(j)
  \/ /\ job[j].task = "working"
     /\ \E dir \in {"done", "failed"} :
          job' = [job EXCEPT ![j].dir = dir, ![j].task = "written", ![j].stale = FALSE]
     /\ UNCHANGED <<call, record, picking, crashes>>
  \/ /\ job[j].task = "written"
     /\ \E verdict \in IF job[j].dir = "done" THEN Answers ELSE Failures :
          job' = [job EXCEPT ![j].verdict = verdict, ![j].task = "none"]
     /\ UNCHANGED <<call, record, picking, crashes>>

Serve(j) == Stamp(j) \/ Finish(j)
              \/ \E verdict \in Answers \cup Failures : WriteResult(j, verdict)

PoolNext ==
  \/ \E c \in Calls : Select(c) \/ Poll(c) \/ Capped(c)
  \/ \E j \in Jobs : Claim(j) \/ Serve(j) \/ Age(j)
  \/ \E p \in Profiles : CrashRunner(p) \/ ProbeDue(p)

PoolSpec == PoolInit /\ [][PoolNext]_vars

(* The event loop runs every call, the lock is first come first served, a   *)
(* runner that has claimed a job ends it unless it dies (the CLI ends), and *)
(* time passes.  Neither a claim nor the cap is counted on.                 *)
FairPoolSpec ==
  /\ PoolSpec
  /\ \A c \in Calls : SF_vars(Select(c)) /\ WF_vars(Poll(c))
  /\ WF_vars(\E j \in Jobs : Serve(j)) /\ WF_vars(\E j \in Jobs : Age(j))

----------------------------------------------------------------------------
(* find_late_completed_claude_pool_job: the jobs of a call whose answer a   *)
(* later look at done/ can still take.                                      *)
LateCompletions(c) ==
  {j \in JobsOf(c) : job[j].dir = "done" /\ job[j].verdict = "valid"}

(* A call has submitted its next job only when the one before is settled:   *)
(* failed with an error that classifies, or done with an answer that does   *)
(* not validate.  So no prompt is under way on two profiles at a time, and  *)
(* no late answer has a rival.                                              *)
PassedJobsAreSettled ==
  \A c \in Calls : \A j \in JobsOf(c) \ {Job(c)} :
    \/ job[j].dir = "none"
    \/ job[j].dir = "failed" /\ job[j].verdict = "limited"
    \/ job[j].dir = "done" /\ job[j].verdict = "invalid"

(* However marks expire and probes succeed meanwhile, the jobs of one turn  *)
(* go to different profiles: a limited account is not asked the same thing  *)
(* twice.                                                                   *)
TurnVisitsProfilesOnce ==
  \A i, j \in Jobs :
    /\ i # j /\ i[1] = j[1] /\ i[2] = j[2]
    /\ job[i].dir # "none" /\ job[j].dir # "none"
    => job[i].profile # job[j].profile

(* A call that ends with an answer or an error ends with what its runner    *)
(* wrote: the answer is the one in done/, and behind an error there is no   *)
(* answer that a late look would find.  A timeout, and a job reported as    *)
(* disappeared because it moved between two looks, promise nothing.         *)
EndMatchesJobs ==
  \A c \in Calls :
    /\ At(c, "answered") => LateCompletions(c) = {Job(c)}
    /\ call[c].pc \in {"rejected", "errored", "exhausted"} =>
         /\ LateCompletions(c) = {}
         /\ \A j \in JobsOf(c) : job[j].dir \notin Live

(* No job is queued on a profile while it is marked unavailable, although   *)
(* later turns start from a profile chosen long before.                     *)
NoJobOnMarkedProfile ==
  [][\A j \in Jobs : job[j].dir = "none" /\ job'[j].dir = "queued" =>
       record'[job'[j].profile] # "marked"]_vars

(* Whatever runners die with whatever jobs, every call returns.             *)
EveryCallReturns == \A c \in Calls : <>(call[c].pc \in Ended)
=============================================================================
