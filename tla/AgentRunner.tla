----------------------------- MODULE AgentRunner -----------------------------
(***************************************************************************)
(* TrackedWorkflowRunner.resolve (workflows/_runner.py) for calls that go  *)
(* to an agent: the slot of the limiter, the liveness watchdog with its    *)
(* bounded join, the retries after a stall and the table of active         *)
(* invocations.  The calls run on one event loop: a step goes from one     *)
(* await to the next, and at every await the caller may cancel the call or *)
(* the event log may raise.                                                *)
(*                                                                         *)
(* An invocation is <<call, attempt>>.  Its turn is the runtime's `ask',   *)
(* a task of its own under the watchdog: it may answer, raise, fall silent *)
(* or ignore its cancellation.                                             *)
(***************************************************************************)
EXTENDS AgentLimiter, FiniteSets

CONSTANTS
  Watched,     \* calls whose role has not set liveness_timeout to 0
  MaxRetries,  \* RESOLVE_MAX_RETRIES
  MaxFaults    \* bound: writes of the event log that raise

ASSUME RunnerAssumption ==
  /\ IsFiniteSet(Calls) /\ Watched \subseteq Calls
  /\ MaxRetries \in Nat /\ MaxFaults \in Nat

VARIABLES
  call,      \* per call: its place in resolve and its attempt
  turn,      \* per invocation: none, running, answered, raised or unwound
  stopped,   \* invocations whose turn was told to cancel
  silent,    \* calls whose turn has been idle for the liveness timeout
  recorded,  \* _active_invocations
  faults

runnerVars == <<limiterVars, call, turn, stopped, silent, recorded, faults>>

Attempts    == 0 .. MaxRetries
Invocations == Calls \X Attempts

(* The steps of a call that holds a slot, and those it ends in.             *)
InSlot == {"starting", "announcing", "watching", "direct", "joining", "stalling",
           "reporting", "unwinding"}
Ended  == {"returned", "raised", "cancelled"}
Steps  == {"idle", "waiting", "backoff"} \cup InSlot \cup Ended

At(c, step)   == call[c].pc = step
Goto(c, step) == call' = [call EXCEPT ![c] = [@ EXCEPT !.pc = step]]
Inv(c)        == <<c, call[c].attempt>>

RunnerInit ==
  /\ LimiterInit
  /\ call = [c \in Calls |-> [pc |-> "idle", attempt |-> 0]]
  /\ turn = [i \in Invocations |-> "none"]
  /\ stopped = {} /\ silent = {} /\ recorded = {}
  /\ faults = 0

----------------------------------------------------------------------------
(* Into the slot.                                                           *)

Queue(c) ==
  /\ At(c, "idle") \/ At(c, "backoff")
  /\ JoinQueue(c)
  /\ Goto(c, "waiting")
  /\ UNCHANGED <<turn, stopped, silent, recorded, faults>>

Admit(c) ==
  /\ At(c, "waiting")
  /\ Grant(c)
  /\ Goto(c, "starting")
  /\ UNCHANGED <<turn, stopped, silent, recorded, faults>>

Launch(c) ==
  /\ turn' = [turn EXCEPT ![Inv(c)] = "running"]
  /\ Goto(c, IF c \in Watched THEN "watching" ELSE "direct")

(* agent_invocation_start is logged and the invocation recorded; a retry    *)
(* logs agent_start before its turn begins.                                 *)
Start(c) ==
  /\ At(c, "starting")
  /\ recorded' = recorded \cup {Inv(c)}
  /\ IF call[c].attempt = 0 THEN Launch(c) ELSE Goto(c, "announcing") /\ UNCHANGED turn
  /\ UNCHANGED <<limiterVars, stopped, silent, faults>>

Announce(c) ==
  /\ At(c, "announcing")
  /\ Launch(c)
  /\ UNCHANGED <<limiterVars, stopped, silent, recorded, faults>>

----------------------------------------------------------------------------
(* The turn.  Only one that was told to cancel may unwind, and it need not. *)

TurnEnds(i) ==
  /\ turn[i] = "running"
  /\ \E how \in {"answered", "raised", "unwound"} :
       /\ how = "unwound" => i \in stopped
       /\ turn' = [turn EXCEPT ![i] = how]
  /\ UNCHANGED <<limiterVars, call, stopped, silent, recorded, faults>>

GoesQuiet(c) ==
  /\ At(c, "watching") /\ turn[Inv(c)] = "running" /\ c \notin silent
  /\ silent' = silent \cup {c}
  /\ UNCHANGED <<limiterVars, call, turn, stopped, recorded, faults>>

(* Activity of the agent, or live work the runtime reports of it, which     *)
(* the watchdog takes for activity (invocation_has_live_work).              *)
ShowsLife(c) ==
  /\ At(c, "watching") /\ turn[Inv(c)] = "running" /\ c \in silent
  /\ silent' = silent \ {c}
  /\ UNCHANGED <<limiterVars, call, turn, stopped, recorded, faults>>

----------------------------------------------------------------------------
(* Out of the slot: the invocation is finished and the permit goes back.    *)

Leave(c, pc) ==
  /\ Release
  /\ Goto(c, pc)
  /\ recorded' = recorded \ {Inv(c)}
  /\ silent' = silent \ {c}

(* The turn is done when the watchdog, or the call itself, looks at it.     *)
TakeAnswer(c) ==
  /\ At(c, "watching") \/ At(c, "direct")
  /\ turn[Inv(c)] = "answered"
  /\ Goto(c, "reporting")
  /\ UNCHANGED <<limiterVars, turn, stopped, silent, recorded, faults>>

TakeError(c) ==
  /\ At(c, "watching") \/ At(c, "direct")
  /\ turn[Inv(c)] \in {"raised", "unwound"}
  /\ Leave(c, IF turn[Inv(c)] = "raised" THEN "raised" ELSE "cancelled")
  /\ UNCHANGED <<turn, stopped, faults>>

(* agent_done is logged.                                                    *)
Report(c) ==
  /\ At(c, "reporting")
  /\ Leave(c, "returned")
  /\ UNCHANGED <<turn, stopped, faults>>

(* cancel() does nothing to a task that is done.                            *)
TellToStop(c) ==
  stopped' = IF turn[Inv(c)] = "running" THEN stopped \cup {Inv(c)} ELSE stopped

(* Mutant: the watchdog gives up on a stalled turn without cancelling it.   *)
StallUncancelled(c) ==
  /\ At(c, "watching") /\ turn[Inv(c)] = "running" /\ c \in silent
  /\ Goto(c, "joining")
  /\ UNCHANGED <<limiterVars, turn, stopped, silent, recorded, faults>>

(* The watchdog finds the turn silent and without live work.                *)
Stall(c) ==
  /\ At(c, "watching") /\ turn[Inv(c)] = "running" /\ c \in silent
  /\ TellToStop(c)
  /\ Goto(c, "joining")
  /\ UNCHANGED <<limiterVars, turn, silent, recorded, faults>>

(* Mutant: the join waits for the turn as long as it takes.                 *)
JoinUnbounded(c) ==
  /\ At(c, "joining")
  /\ turn[Inv(c)] # "running"
  /\ Goto(c, "stalling")
  /\ UNCHANGED <<limiterVars, turn, stopped, silent, recorded, faults>>

(* The bounded join ends, with the turn or without.                         *)
Join(c) ==
  /\ At(c, "joining")
  /\ Goto(c, "stalling")
  /\ UNCHANGED <<limiterVars, turn, stopped, silent, recorded, faults>>

(* agent_stalled is logged: the next attempt, or the end of the retries.    *)
EndAttempt(c) ==
  LET k == call[c].attempt IN
  /\ At(c, "stalling")
  /\ Release
  /\ call' = [call EXCEPT ![c] = IF k < MaxRetries THEN [pc |-> "backoff", attempt |-> k + 1]
                                                  ELSE [pc |-> "raised", attempt |-> k]]
  /\ recorded' = recorded \ {Inv(c)}
  /\ silent' = silent \ {c}
  /\ UNCHANGED <<turn, stopped, faults>>

----------------------------------------------------------------------------
(* A write of the event log raises.  The invocation is finished by a        *)
(* `finally' that starts with the turn.                                     *)
Forget(c) ==
  recorded' = IF call[c].pc \in {"starting", "announcing"} THEN recorded
                                                           ELSE recorded \ {Inv(c)}

LogRaises(c) ==
  /\ call[c].pc \in {"starting", "announcing", "reporting", "stalling"}
  /\ faults < MaxFaults
  /\ faults' = faults + 1
  /\ Release
  /\ Goto(c, "raised")
  /\ Forget(c)
  /\ silent' = silent \ {c}
  /\ UNCHANGED <<turn, stopped>>

(* The caller cancels the call.                                             *)
CancelOutside(c) ==
  /\ \/ At(c, "waiting") /\ GiveUp(c)
     \/ At(c, "backoff") /\ UNCHANGED limiterVars
  /\ Goto(c, "cancelled")
  /\ UNCHANGED <<turn, stopped, silent, recorded, faults>>

(* Mutant: a slot is only given back by a call that had its turn.           *)
CancelHoldingSlot(c) ==
  /\ call[c].pc \in {"starting", "announcing", "reporting", "stalling"}
  /\ IF call[c].pc \in {"starting", "announcing"} THEN UNCHANGED limiterVars ELSE Release
  /\ Goto(c, "cancelled")
  /\ Forget(c)
  /\ silent' = silent \ {c}
  /\ UNCHANGED <<turn, stopped, faults>>

CancelInSlot(c) ==
  /\ call[c].pc \in {"starting", "announcing", "reporting", "stalling"}
  /\ Release
  /\ Goto(c, "cancelled")
  /\ Forget(c)
  /\ silent' = silent \ {c}
  /\ UNCHANGED <<turn, stopped, faults>>

(* Under the watchdog the turn is cancelled in its place and joined for a   *)
(* bounded time; without one the cancellation goes into the turn itself.    *)
CancelTurn(c) ==
  /\ call[c].pc \in {"watching", "joining", "direct"}
  /\ TellToStop(c)
  /\ Goto(c, IF At(c, "direct") THEN "direct" ELSE "unwinding")
  /\ UNCHANGED <<limiterVars, turn, silent, recorded, faults>>

(* Mutant: the invocation of a cancelled call stays in the table.           *)
UnwindRecorded(c) ==
  /\ At(c, "unwinding")
  /\ Release
  /\ Goto(c, "cancelled")
  /\ silent' = silent \ {c}
  /\ UNCHANGED <<turn, stopped, recorded, faults>>

Unwind(c) ==
  /\ At(c, "unwinding")
  /\ Leave(c, "cancelled")
  /\ UNCHANGED <<turn, stopped, faults>>

Resolve(c) ==
  \/ Queue(c) \/ Admit(c) \/ Start(c) \/ Announce(c)
  \/ TakeAnswer(c) \/ TakeError(c) \/ Report(c)
  \/ Join(c) \/ EndAttempt(c) \/ Unwind(c)

Cancel(c) == CancelOutside(c) \/ CancelInSlot(c) \/ CancelTurn(c)

Next ==
  \/ \E c \in Calls : \/ Resolve(c) \/ Stall(c) \/ GoesQuiet(c) \/ ShowsLife(c)
                      \/ LogRaises(c) \/ Cancel(c)
  \/ \E i \in Invocations : TurnEnds(i)

RunnerSpec == RunnerInit /\ [][Next]_runnerVars

(* The event loop runs every call.  A watched turn ends or falls silent,    *)
(* and a poll finds one that falls silent again and again without life; a   *)
(* turn without a watchdog ends by its runtime's own limits.  Nothing makes *)
(* a cancelled turn end.                                                    *)
Progress(c) ==
  \/ GoesQuiet(c)
  \/ Inv(c) \notin stopped /\ TurnEnds(Inv(c))
  \/ c \notin Watched /\ TurnEnds(Inv(c))

FairRunnerSpec ==
  /\ RunnerSpec
  /\ \A c \in Calls :
       WF_runnerVars(Resolve(c)) /\ WF_runnerVars(Progress(c)) /\ SF_runnerVars(Stall(c))

----------------------------------------------------------------------------
(* Type invariant.                                                          *)
RunnerTypeOK ==
  /\ permits \in Nat /\ active \in Nat /\ waiting \in Nat
  /\ waiters \in Seq(Calls)
  /\ call \in [Calls -> [pc : Steps, attempt : Attempts]]
  /\ turn \in [Invocations -> {"none", "running", "answered", "raised", "unwound"}]
  /\ stopped \subseteq Invocations /\ recorded \subseteq Invocations
  /\ silent \subseteq Calls
  /\ faults \in 0 .. MaxFaults

Holders == {c \in Calls : call[c].pc \in InSlot}

(* Every permit is free or held by a call in its slot, and the counters     *)
(* tell the same: a call may stall, fail or be cancelled at any await       *)
(* without a slot lost or given back twice (AgentConcurrencyLimiter).       *)
SlotsAddUp ==
  /\ permits + Cardinality(Holders) = MaxActive
  /\ active = Cardinality(Holders)
  /\ waiting = Len(waiters)

(* "caps active agent runtime invocations": of the turns under way, those   *)
(* not told to stop are never more than the limiter allows.  A turn that    *)
(* ignores its cancellation is beyond the cap (_resolve_with_watchdog).     *)
AgentsWithinCap ==
  Cardinality({i \in Invocations : turn[i] = "running" /\ i \notin stopped}) <= MaxActive

(* The table of active invocations has the turn a call waits for, so that   *)
(* its activity and live work are seen, and nothing else but invocations    *)
(* whose retry failed before its turn began (_record_invocation_started).   *)
InvocationsAreTracked ==
  /\ \A c \in Calls : call[c].pc \in {"watching", "direct", "joining"} => Inv(c) \in recorded
  /\ \A i \in recorded : \/ i = Inv(i[1]) /\ call[i[1]].pc \in InSlot
                         \/ turn[i] = "none" /\ i[2] > 0

(* Every call comes to an end, whatever its turns do: a stalled turn that   *)
(* ignores its cancellation neither holds its call nor its slot             *)
(* (_WATCHDOG_ABANDON_JOIN_SECONDS).                                        *)
EveryResolveEnds == \A c \in Calls : <>(call[c].pc \in Ended)

=============================================================================
