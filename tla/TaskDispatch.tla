---------------------------- MODULE TaskDispatch ----------------------------
(***************************************************************************)
(* One implementation task, from a resume of its group to the durable      *)
(* merge queue: the per-task resume check and the retry loop of            *)
(* workflows/develop/phases/implementation.py, RuntimeDispatcher.dispatch, *)
(* the sandbox runner and the agent's job, over the journal of             *)
(* DispatchStore.                                                          *)
(*                                                                         *)
(* A worker is a workflow process running the task.  Every await that      *)
(* writes something durable is a step, and a crash may come between any    *)
(* two of them; what the worker holds in memory is then lost.              *)
(***************************************************************************)
EXTENDS DispatchStore, FiniteSets

CONSTANTS
  Workers,
  MaxRetries,   \* TASK_MAX_RETRIES
  InfraRetries, \* TASK_INFRA_MAX_RETRIES
  Headroom,     \* _PARTIAL_RESUME_RERUN_HEADROOM
  Replies,      \* how a runtime turn may end
  MaxCrashes    \* bound: crashes of workers

ASSUME RetriesAssumption ==
  /\ MaxRetries \in Nat /\ InfraRetries \in Nat /\ Headroom \in Nat /\ MaxCrashes \in Nat
  /\ MaxRetries <= InfraRetries
  /\ Rows = 0 .. (InfraRetries + Headroom)

VARIABLES
  worker,    \* per worker: its place in the code and its local variables
  dir,       \* sandbox directory per row: absent, partial or ready
  job,       \* the agent's job per row: none, running, or the late answer it left
  verdict,   \* the task's projected contract verdict: none, approved, rejected
  approved,  \* rows whose patch has an approved contract verdict
  rejected,  \* row of the newest rejected verdict
  queued,    \* patches handed to the durable merge queue
  counted,   \* history: a resume counted the task done without queueing a patch
  recovered, \* history: rows recovered from a late answer
  crashes

sandboxVars == <<dir, job>>
verdictVars == <<verdict, approved, rejected>>
historyVars == <<queued, counted, recovered>>
dispatchVars == <<journalVars, worker, sandboxVars, verdictVars, historyVars, crashes>>

(* completed, partial and invalid turns return a result; the others do not. *)
AllReplies == {"completed", "partial", "invalid", "timeout",
               "provider_error", "not_started", "cancelled"}
ASSUME RepliesAssumption == Replies \subseteq AllReplies

Returned(reply) == reply \in {"completed", "partial", "invalid"}

(* The terminal reason of a reply, and the state its response is filed in.  *)
ReasonOf(reply) == IF Returned(reply) THEN "completed"
                   ELSE IF reply = "not_started" THEN "provider_error" ELSE reply
StateOf(reply) == CASE Returned(reply)       -> "runtime_returned"
                    [] reply = "cancelled"   -> "cancelling"
                    [] reply = "not_started" -> "evidence_recording"
                    [] OTHER                 -> "patch_capturing"

(* What a worker knows: the attempt it is at and the last it may try, its   *)
(* copy of the lease, whether it salvages an interrupted attempt, the       *)
(* reply, how it means to end the attempt, and the result of it.            *)
NoLease == [status |-> "none", version |-> 0, fresh |-> FALSE]
NoEnd   == [status |-> "none", reason |-> "none", patch |-> NoRow, evidence |-> NoRow]

NoResult == [status |-> "none", patches |-> {}]

Idle == [pc |-> "idle", at |-> 0, last |-> 0, held |-> NoLease, salvage |-> FALSE,
         reply |-> "none", end |-> NoEnd, hint |-> FALSE, result |-> NoResult]

At(w, step) == worker[w].pc = step
Row(w)      == worker[w].at
Goto(w, step) == worker' = [worker EXCEPT ![w].pc = step]
Leave(w)      == worker' = [worker EXCEPT ![w] = Idle]

DispatchInit ==
  /\ JournalInit
  /\ worker = [w \in Workers |-> Idle]
  /\ dir = [r \in Rows |-> "absent"]
  /\ job = [r \in Rows |-> "none"]
  /\ verdict = "none" /\ approved = {} /\ rejected = NoRow
  /\ queued = {} /\ counted = FALSE /\ recovered = {}
  /\ crashes = 0

----------------------------------------------------------------------------
(* SandboxRunner.recover, before the workflow is resumed: a lease in use is *)
(* retained, one without its manifest fails, and a manifest without a row   *)
(* gets one.  Whose turn the lease serves is not asked.                     *)
Unrecovered(r) == \/ lease[r] = "running"
                  \/ lease[r] = "allocated" /\ dir[r] # "ready"
                  \/ lease[r] = "none" /\ dir[r] = "ready"

RecoverLease(w, r) ==
  /\ At(w, "idle") /\ Unrecovered(r)
  /\ \/ lease[r] = "none" /\ AllocateLease(r)
     \/ lease[r] # "none"
          /\ UpdateLease(r, version[r], IF dir[r] = "ready" THEN "retained" ELSE "failed")
  /\ UNCHANGED <<worker, sandboxVars, verdictVars, historyVars, crashes>>

Recovered(w) ==
  /\ At(w, "idle") /\ \A r \in Rows : ~Unrecovered(r)
  /\ Goto(w, "resume")
  /\ UNCHANGED <<journalVars, sandboxVars, verdictVars, historyVars, crashes>>

----------------------------------------------------------------------------
(* The per-task resume check and the plan of attempts.                      *)

(* A completed marker that waits for the durable merge queue.               *)
MarkerPending == marker.status = "completed" /\ marker.noted

(* A completed marker without the note: done, if the task's projected       *)
(* contract verdict is an approval.                                         *)
MarkerCounts == /\ marker.status = "completed" /\ ~marker.noted
                /\ verdict = "approved"

Attempts == 0 .. InfraRetries
SucceededLast == latest # NoRow /\ state[latest] = "succeeded"

(* Mutants: a partial success is replayed like a complete one; a complete   *)
(* one is looked for from the first attempt on.                             *)
PlanReplaying == IF SucceededLast THEN {latest} ELSE Attempts
PlanFromStart == IF SucceededLast /\ marker.status # "completed"
                 THEN (latest + 1) .. (InfraRetries + Headroom) ELSE Attempts

(* _resume_dispatch_plan_for_succeeded_terminal over                        *)
(* get_latest_terminal_dispatch_outcome; empty when the reruns are spent.   *)
Plan == IF ~SucceededLast THEN Attempts
        ELSE IF marker.status = "completed" THEN {latest}
        ELSE (latest + 1) .. (InfraRetries + Headroom)

(* The result a dispatch hands to the group: a status and patch ids.        *)
Deliver(w, status, patches) ==
  worker' = [worker EXCEPT ![w] = [Idle EXCEPT !.pc = "enqueue", !.at = Row(w),
                                               !.result = [status |-> status, patches |-> patches]]]

ResumeQueued(w) ==
  /\ At(w, "resume") /\ MarkerPending
  /\ Deliver(w, "completed", {marker.patch})
  /\ UNCHANGED <<journalVars, sandboxVars, verdictVars, historyVars, crashes>>

ResumeCounted(w) ==
  /\ At(w, "resume") /\ ~MarkerPending /\ MarkerCounts
  /\ counted' = TRUE
  /\ UNCHANGED <<journalVars, worker, sandboxVars, verdictVars, queued, recovered, crashes>>

ResumeDispatch(w) ==
  /\ At(w, "resume") /\ ~MarkerPending /\ ~MarkerCounts /\ Plan # {}
  /\ worker' = [worker EXCEPT ![w] =
                 [Idle EXCEPT !.pc = "start",
                              !.at = CHOOSE k \in Plan : \A j \in Plan : k <= j,
                              !.last = CHOOSE k \in Plan : \A j \in Plan : k >= j]]
  /\ UNCHANGED <<journalVars, sandboxVars, verdictVars, historyVars, crashes>>

(* The next turn of the retry loop, or the end of it.                       *)
NextAttempt(w) ==
  worker' = [worker EXCEPT ![w] =
              IF @.at < @.last
              THEN [Idle EXCEPT !.pc = "start", !.at = Row(w) + 1, !.last = worker[w].last]
              ELSE Idle]

(* An exception out of dispatch: the next attempt, up to TASK_MAX_RETRIES.  *)
Escape(w) == IF Row(w) < MaxRetries THEN NextAttempt(w) ELSE Leave(w)

----------------------------------------------------------------------------
(* RuntimeDispatcher.dispatch: what a stored row calls for.                 *)
EndAs(w, step, status, reason, patch, evidence) ==
  worker' = [worker EXCEPT ![w] = [@ EXCEPT !.pc = step,
                                            !.end = [status |-> status, reason |-> reason,
                                                     patch |-> patch, evidence |-> evidence]]]

Answered(r) == LateRecoverable(r) /\ job[r] \in Deliverables

Finishable(r) == /\ state[r] = "evidence_recording"
                 /\ structured[r] # "none" \/ failure[r] # Nothing

(* Only a row that never crossed its first durable boundary may be run.     *)
Fresh(r) == state[r] = "attempt_started"

StartRow(w) ==
  LET r == Row(w) IN
  /\ At(w, "start")
  /\ \/ StartAttempt(r)
     \/ Fresh(r) /\ UNCHANGED journalVars
  /\ Goto(w, "lookup")
  /\ UNCHANGED <<sandboxVars, verdictVars, historyVars, crashes>>

(* A terminal row is returned as it is, unless a timed-out one turns out to *)
(* have an answer.                                                          *)
ReturnStored(w) ==
  LET r == Row(w) IN
  /\ At(w, "start")
  /\ state[r] \in Terminal /\ ~Answered(r)
  /\ EndAs(w, "decide", state[r], outcome[r].reason, outcome[r].patch, NoRow)
  /\ UNCHANGED <<journalVars, sandboxVars, verdictVars, historyVars, crashes>>

RecoverAnswer(w) ==
  LET r == Row(w) IN
  /\ At(w, "start") /\ Answered(r)
  /\ RecoverLate(r, job[r])
  /\ recovered' = recovered \cup {r}
  /\ EndAs(w, "decide", "succeeded", "completed", failure[r].patch, NoRow)
  /\ UNCHANGED <<sandboxVars, verdictVars, queued, counted, crashes>>

(* A row that stopped between its evidence and its outcome gets the         *)
(* outcome; patch ids are not part of the payload it is rebuilt from.       *)
FinishStored(w) ==
  LET r  == Row(w)
      to == IF structured[r] # "none" THEN "succeeded" ELSE "failed"
      reason == IF to = "succeeded" THEN "completed" ELSE failure[r].reason
  IN
  /\ At(w, "start") /\ Finishable(r)
  /\ FinishAttempt(r, to, reason, NoRow)
  /\ EndAs(w, "decide", to, reason, NoRow, NoRow)
  /\ UNCHANGED <<sandboxVars, verdictVars, historyVars, crashes>>

Interrupted(r) == state[r] \in Live /\ ~Fresh(r) /\ ~Finishable(r)

(* An interrupted row whose raw output is recorded is salvaged; there is no *)
(* transition from 'cancelled' to 'incomplete', and that check raises.      *)
SalvageRow(w) ==
  LET r == Row(w) IN
  /\ At(w, "start") /\ Interrupted(r) /\ raw[r]
  /\ IF state[r] = "cancelling" THEN Escape(w)
     ELSE worker' = [worker EXCEPT ![w] = [@ EXCEPT !.pc = "lookup", !.salvage = TRUE]]
  /\ UNCHANGED <<journalVars, sandboxVars, verdictVars, historyVars, crashes>>

(* Without raw output the replay is deferred: nothing is written and the    *)
(* outcome carries no failure id, so it is not retried either.              *)
DeferRow(w) ==
  /\ At(w, "start") /\ Interrupted(Row(w)) /\ ~raw[Row(w)]
  /\ Leave(w)
  /\ UNCHANGED <<journalVars, sandboxVars, verdictVars, historyVars, crashes>>

----------------------------------------------------------------------------
(* _bind_task_sandbox: SandboxRunner.allocate, then bind_runtime.           *)

(* A binding error ends the attempt; while salvaging it only means that no  *)
(* patch is salvaged.  hint: the message says the sandbox is spent, which   *)
(* moves the retry loop on (_is_terminal_sandbox_attempt_blocker).          *)
BindFailed(w, reason, hint) ==
  LET end == IF worker[w].salvage
             THEN [NoEnd EXCEPT !.status = "incomplete", !.reason = "process_failed"]
             ELSE [NoEnd EXCEPT !.status = "failed", !.reason = reason]
  IN worker' = [worker EXCEPT ![w] = [@ EXCEPT !.pc = "fail", !.hint = hint, !.end = end]]

Hold(w, step, status, v, fresh) ==
  worker' = [worker EXCEPT ![w] =
              [@ EXCEPT !.pc = step,
                        !.held = [status |-> status, version |-> v, fresh |-> fresh]]]

(* Mutant: retained evidence is cleared away like a captured sandbox.       *)
ReusableRetained == {"captured", "failed", "retained"}

(* A terminal lease whose directory the next allocation replaces, and one   *)
(* whose directory it refuses to touch.                                     *)
Reusable == {"captured", "failed"}

Spent    == {"retained", "poisoned"}

(* _existing_lease_for_key.                                                 *)
LookupLease(w) ==
  LET r == Row(w) IN
  /\ At(w, "lookup")
  /\ \/ /\ lease[r] = "none"
        /\ Goto(w, "manifest")
        /\ UNCHANGED <<journalVars, dir>>
     \/ /\ lease[r] \in Reusable
        /\ dir' = [dir EXCEPT ![r] = "absent"]
        /\ Goto(w, "manifest")
        /\ UNCHANGED journalVars
     \/ /\ lease[r] \in Spent
        /\ BindFailed(w, "binding_failed", lease[r] = "retained")
        /\ UNCHANGED <<journalVars, dir>>
     \/ /\ lease[r] = "running"
        /\ UpdateLease(r, version[r], "retained")
        /\ BindFailed(w, "binding_failed", FALSE)
        /\ UNCHANGED dir
     \/ /\ lease[r] = "allocated"
        /\ Hold(w, "bind", "allocated", version[r], FALSE)
        /\ UNCHANGED <<journalVars, dir>>
  /\ UNCHANGED <<job, verdictVars, historyVars, crashes>>

(* allocate, from the manifest on.  The manifest's status follows the       *)
(* lease row's, and says allocated before there is one.                     *)
ReadManifest(w) ==
  LET r == Row(w)
      status == IF lease[r] = "none" THEN "allocated" ELSE lease[r]
  IN
  /\ At(w, "manifest")
  /\ \/ /\ dir[r] = "ready" /\ status \in ActiveLease
        /\ Hold(w, "persist", status, 0, FALSE)
        /\ UNCHANGED dir
     \/ /\ dir[r] = "ready" /\ status \in Spent
        /\ BindFailed(w, "binding_failed", status = "retained")
        /\ UNCHANGED dir
     \/ /\ dir[r] = "partial"
        /\ dir' = [dir EXCEPT ![r] = "absent"]
        /\ BindFailed(w, "binding_failed", FALSE)
     \/ /\ \/ dir[r] = "absent"
           \/ dir[r] = "ready" /\ status \in Reusable
        /\ dir' = [dir EXCEPT ![r] = "partial"]
        /\ Goto(w, "clone")
  /\ UNCHANGED <<journalVars, job, verdictVars, historyVars, crashes>>

(* git clone, then the manifest; a failed clone removes the directory.      *)
Clone(w) ==
  LET r == Row(w) IN
  /\ At(w, "clone")
  /\ \/ /\ dir[r] = "partial"
        /\ dir' = [dir EXCEPT ![r] = "ready"]
        /\ Hold(w, "persist", "allocated", 0, TRUE)
     \/ /\ dir' = [dir EXCEPT ![r] = IF @ = "partial" THEN "absent" ELSE @]
        /\ BindFailed(w, "binding_failed", FALSE)
  /\ UNCHANGED <<journalVars, job, verdictVars, historyVars, crashes>>

(* _persist_allocated_lease; a fresh directory goes again when the store    *)
(* refuses or fails.                                                        *)
PersistLease(w) ==
  LET r == Row(w) IN
  /\ At(w, "persist")
  /\ \/ /\ AllocateLease(r)
        /\ Hold(w, "bind", worker[w].held.status, version[r], FALSE)
        /\ UNCHANGED dir
     \/ /\ dir' = [dir EXCEPT ![r] = IF worker[w].held.fresh THEN "absent" ELSE @]
        /\ BindFailed(w, "allocation_failed", LeaseConflict(r))
        /\ UNCHANGED journalVars
  /\ UNCHANGED <<job, verdictVars, historyVars, crashes>>

(* Mutant: bind_runtime does not look at the status of the lease it holds,  *)
(* and writes the row whatever its version.                                 *)
BindRuntimeBlind(w) ==
  LET r == Row(w) IN
  /\ At(w, "bind")
  /\ lease' = [lease EXCEPT ![r] = "running"]
  /\ version' = [version EXCEPT ![r] = @ + 1]
  /\ Hold(w, "context", "running", version[r] + 1, FALSE)
  /\ UNCHANGED <<attemptVars, sandboxVars, verdictVars, historyVars, crashes>>

(* bind_runtime.  A salvage never gets this far: the lease was bound before *)
(* there was raw output, so the row is no longer 'allocated'.               *)
BindRuntime(w) ==
  LET r == Row(w)  h == worker[w].held IN
  /\ At(w, "bind")
  /\ \/ /\ h.status = "allocated"
        /\ UpdateLease(r, h.version, "running")
        /\ Hold(w, "context", "running", h.version + 1, FALSE)
     \/ /\ h.status # "allocated" \/ ~MayUpdate(r, h.version, "running")
        /\ BindFailed(w, "binding_failed", h.status = "allocated" /\ lease[r] \in TerminalLease)
        /\ UNCHANGED journalVars
  /\ UNCHANGED <<sandboxVars, verdictVars, historyVars, crashes>>

----------------------------------------------------------------------------
(* One turn of the runtime, from the prompt to the recorded answer.         *)

(* record_prompt_context, or the failure of building the prompt.            *)
PreparePrompt(w) ==
  LET r == Row(w) IN
  /\ At(w, "context")
  /\ \/ /\ RecordProgress(r, "context_prepared")
        /\ Goto(w, "request")
     \/ /\ EndAs(w, "fail", "failed", "context_materialization_failed", NoRow, NoRow)
        /\ UNCHANGED journalVars
  /\ UNCHANGED <<sandboxVars, verdictVars, historyVars, crashes>>

RecordRequest(w) ==
  /\ At(w, "request")
  /\ RecordProgress(Row(w), "runtime_invoking")
  /\ Goto(w, "invoke")
  /\ UNCHANGED <<sandboxVars, verdictVars, historyVars, crashes>>

Invoke(w) ==
  LET r == Row(w) IN
  /\ At(w, "invoke")
  /\ job' = [job EXCEPT ![r] = "running"]
  /\ Goto(w, "wait")
  /\ UNCHANGED <<journalVars, dir, verdictVars, historyVars, crashes>>

(* The response; the process outlives a turn that ends in a timeout.        *)
Receive(w, reply) ==
  LET r == Row(w) IN
  /\ At(w, "wait")
  /\ job' = [job EXCEPT ![r] = IF reply = "timeout" THEN @ ELSE "none"]
  /\ worker' = [worker EXCEPT ![w] = [@ EXCEPT !.pc = "raw", !.reply = reply]]
  /\ UNCHANGED <<journalVars, dir, verdictVars, historyVars, crashes>>

RecordAnswer(w) ==
  /\ At(w, "raw")
  /\ RecordRaw(Row(w))
  /\ Goto(w, "response")
  /\ UNCHANGED <<sandboxVars, verdictVars, historyVars, crashes>>

(* record_runtime_invocation with the response, and the branch on it.       *)
RecordResponse(w) ==
  LET r == Row(w)  reply == worker[w].reply IN
  /\ At(w, "response")
  /\ RecordProgress(r, StateOf(reply))
  /\ CASE reply = "cancelled"   -> EndAs(w, "fail", "cancelled", "cancelled", NoRow, NoRow)
       [] reply = "not_started" -> EndAs(w, "fail", "failed", "provider_error", NoRow, NoRow)
       [] OTHER                 -> Goto(w, "capture")
  /\ UNCHANGED <<sandboxVars, verdictVars, historyVars, crashes>>

----------------------------------------------------------------------------
(* The sandbox port's capture_patch: SandboxRunner.capture_patch, the       *)
(* contract validation of a returned turn, and release(..., "retain").      *)

CaptureFailed(w, reason) == EndAs(w, "fail", "incomplete", reason, NoRow, NoRow)

(* SandboxRunner.capture_patch; a failure inside it marks the lease, and    *)
(* one outside (the manifest, the lease update) does not.                   *)
Capture(w) ==
  LET r == Row(w)  v == worker[w].held.version IN
  /\ At(w, "capture")
  /\ \/ /\ dir[r] = "ready"
        /\ UpdateLease(r, v, "captured")
        /\ worker' = [worker EXCEPT ![w] =
             [@ EXCEPT !.held.version = v + 1,
                       !.pc = IF Returned(worker[w].reply) THEN "validate" ELSE "retain"]]
     \/ /\ dir[r] = "ready"
        /\ \E to \in {"failed", "poisoned"} : UpdateLease(r, v, to)
        /\ \E reason \in CaptureReasons \ {"rejected_capture"} : CaptureFailed(w, reason)
     \/ /\ dir[r] # "ready" \/ ~MayUpdate(r, v, "captured")
        /\ CaptureFailed(w, "failed_capture")
        /\ UNCHANGED journalVars
  /\ UNCHANGED <<sandboxVars, verdictVars, historyVars, crashes>>

(* _validate_sandbox_capture_against_contract: the verdict is recorded,     *)
(* then a rejection raises.                                                 *)
Validate(w) ==
  LET r == Row(w) IN
  /\ At(w, "validate")
  /\ \/ /\ verdict' = "approved" /\ approved' = approved \cup {r}
        /\ Goto(w, "retain")
        /\ UNCHANGED rejected
     \/ /\ verdict' = "rejected" /\ rejected' = r
        /\ EndAs(w, "retain", "incomplete", "rejected_capture", NoRow, NoRow)
        /\ UNCHANGED approved
  /\ UNCHANGED <<journalVars, sandboxVars, historyVars, crashes>>

(* Mutant: a rejection is forgotten once the sandbox is retained.           *)
AfterCaptureForgiving(w) ==
  LET r == Row(w)  reply == worker[w].reply IN
  IF Returned(reply) THEN Goto(w, "structured") ELSE EndAs(w, "fail", "failed", ReasonOf(reply), NoRow, r)

(* What follows a capture, its lease retained or not.                       *)
AfterCapture(w) ==
  LET r == Row(w)  reply == worker[w].reply IN
  IF worker[w].end # NoEnd THEN Goto(w, "fail")
  ELSE IF Returned(reply) THEN Goto(w, "structured")
  ELSE EndAs(w, "fail", "failed", ReasonOf(reply), NoRow, r)

(* release(lease, "retain"): best effort after a rejection, else its        *)
(* failure is a failed capture.                                             *)
Retain(w) ==
  LET r == Row(w)  v == worker[w].held.version IN
  /\ At(w, "retain")
  /\ \/ /\ UpdateLease(r, v, "retained")
        /\ AfterCapture(w)
     \/ /\ IF worker[w].end # NoEnd THEN Goto(w, "fail") ELSE CaptureFailed(w, "failed_capture")
        /\ UNCHANGED journalVars
  /\ UNCHANGED <<sandboxVars, verdictVars, historyVars, crashes>>

----------------------------------------------------------------------------
(* The end of the attempt.                                                  *)

StructuredOutput(w) ==
  LET r == Row(w)  reply == worker[w].reply IN
  /\ At(w, "structured")
  /\ RecordStructured(r, reply)
  /\ IF reply = "invalid"
     THEN EndAs(w, "fail", "failed", "structured_output_invalid", NoRow, NoRow)
     ELSE EndAs(w, "finish", "succeeded", "completed", r, NoRow)
  /\ UNCHANGED <<sandboxVars, verdictVars, historyVars, crashes>>

RuntimeFailure(w) ==
  LET e == worker[w].end IN
  /\ At(w, "fail")
  /\ RecordFailure(Row(w), e.reason, e.evidence)
  /\ Goto(w, "finish")
  /\ UNCHANGED <<sandboxVars, verdictVars, historyVars, crashes>>

(* finish_dispatch_attempt, which hands back the outcome of a row already   *)
(* finished the same way; a success of this very turn has its result in     *)
(* memory.                                                                  *)
Finish(w) ==
  LET r == Row(w)  e == worker[w].end IN
  /\ At(w, "finish")
  /\ \/ FinishAttempt(r, e.status, e.reason, e.patch)
     \/ state[r] = e.status /\ outcome[r].reason = e.reason /\ UNCHANGED journalVars
  /\ IF e.status = "succeeded" THEN Deliver(w, structured'[r], {r}) ELSE Goto(w, "decide")
  /\ UNCHANGED <<sandboxVars, verdictVars, historyVars, crashes>>

(* A store write that raises, on a finished row or on any error.            *)
Writing == {"start", "context", "request", "raw", "response", "structured", "fail", "finish"}

StoreRaises(w) ==
  /\ worker[w].pc \in Writing
  /\ \/ /\ state[Row(w)] \in Terminal /\ ~At(w, "start")
        /\ UNCHANGED crashes
     \/ /\ crashes < MaxCrashes
        /\ crashes' = crashes + 1
  /\ Escape(w)
  /\ UNCHANGED <<journalVars, sandboxVars, verdictVars, historyVars>>

----------------------------------------------------------------------------
(* What the group makes of the outcome.                                     *)

RetryReasons == {"provider_error", "process_failed", "timeout",
                 "context_materialization_failed", "structured_output_invalid"}

(* _should_retry_implementation_dispatch_result; a failed or incomplete     *)
(* outcome carries no patch id here.                                        *)
Retryable(w) ==
  LET r == Row(w)  e == worker[w].end IN
  \/ e.status = "failed" /\ e.reason \in RetryReasons /\ r < MaxRetries
  \/ e.status = "incomplete" /\ e.reason = "process_failed" /\ r < MaxRetries
  \/ e.reason = "denied_capture" /\ r < InfraRetries
  \/ e.reason = "timeout" /\ r < InfraRetries /\ failure[r].patch = NoRow
  \/ /\ e.reason = "allocation_failed"
     /\ r < MaxRetries \/ (r < InfraRetries /\ lease[r] = "none")

(* The stored result of a success found by a replay: the marker.            *)
DeliverStored(w) ==
  /\ At(w, "decide") /\ worker[w].end.status = "succeeded"
  /\ Deliver(w, marker.status, {marker.patch, worker[w].end.patch} \ {NoRow})
  /\ UNCHANGED <<journalVars, sandboxVars, verdictVars, historyVars, crashes>>

(* The message of a spent sandbox moves the loop on whatever the reason.    *)
Retry(w) ==
  /\ At(w, "decide") /\ worker[w].end.status # "succeeded"
  /\ IF worker[w].hint THEN Row(w) < MaxRetries ELSE Retryable(w)
  /\ NextAttempt(w)
  /\ UNCHANGED <<journalVars, sandboxVars, verdictVars, historyVars, crashes>>

(* The task is reported blocked; the group ends and may be resumed.         *)
Blocked(w) ==
  /\ At(w, "decide") /\ worker[w].end.status # "succeeded"
  /\ ~(IF worker[w].hint THEN Row(w) < MaxRetries ELSE Retryable(w))
  /\ Leave(w)
  /\ UNCHANGED <<journalVars, sandboxVars, verdictVars, historyVars, crashes>>

(* _recover_pre_promotion_contract_revalidation: a rejected capture may     *)
(* satisfy the contract as it stands now.  The patch is the one of the      *)
(* newest rejected verdict of the task.                                     *)
Revalidate(w) ==
  /\ At(w, "decide") /\ worker[w].end.reason = "rejected_capture" /\ rejected # NoRow
  /\ verdict' = "approved" /\ approved' = approved \cup {rejected}
  /\ worker' = [worker EXCEPT ![w] = [@ EXCEPT !.pc = "project", !.end.patch = rejected]]
  /\ UNCHANGED <<journalVars, sandboxVars, rejected, historyVars, crashes>>

ProjectResult(w) ==
  LET patch == worker[w].end.patch IN
  /\ At(w, "project")
  /\ ProjectRevalidated(Row(w), patch)
  /\ Deliver(w, "completed", {patch})
  /\ UNCHANGED <<sandboxVars, verdictVars, historyVars, crashes>>

(* After the gather: a completed result with patch ids goes to the durable  *)
(* merge queue (MergeQueueStore), any other blocks the group.               *)
Enqueue(w) ==
  LET result == worker[w].result IN
  /\ At(w, "enqueue")
  /\ queued' = IF result.status = "completed" THEN queued \cup result.patches ELSE queued
  /\ Leave(w)
  /\ UNCHANGED <<journalVars, sandboxVars, verdictVars, counted, recovered, crashes>>

----------------------------------------------------------------------------
(* A process dies; the agent's job is a process of its own.                 *)
Crash(w) ==
  /\ ~At(w, "idle") /\ crashes < MaxCrashes
  /\ crashes' = crashes + 1
  /\ Leave(w)
  /\ UNCHANGED <<journalVars, sandboxVars, verdictVars, historyVars>>

(* A job nobody waits for leaves a result in its sandbox.                   *)
JobAnswers(r) ==
  /\ job[r] = "running"
  /\ \A w \in Workers : ~(At(w, "wait") /\ Row(w) = r)
  /\ \E answer \in Deliverables : job' = [job EXCEPT ![r] = answer]
  /\ UNCHANGED <<journalVars, worker, dir, verdictVars, historyVars, crashes>>

Resume(w) == (\E r \in Rows : RecoverLease(w, r)) \/ Recovered(w)
               \/ ResumeQueued(w) \/ ResumeCounted(w) \/ ResumeDispatch(w)

Attempt(w) ==
  \/ StartRow(w) \/ ReturnStored(w) \/ RecoverAnswer(w)
  \/ FinishStored(w) \/ SalvageRow(w) \/ DeferRow(w)
  \/ LookupLease(w) \/ ReadManifest(w) \/ Clone(w) \/ PersistLease(w) \/ BindRuntime(w)
  \/ PreparePrompt(w) \/ RecordRequest(w) \/ Invoke(w)
  \/ \E reply \in Replies : Receive(w, reply)
  \/ RecordAnswer(w) \/ RecordResponse(w)
  \/ Capture(w) \/ Validate(w) \/ Retain(w)
  \/ StructuredOutput(w) \/ RuntimeFailure(w) \/ Finish(w)
  \/ DeliverStored(w) \/ Retry(w) \/ Blocked(w) \/ Revalidate(w) \/ ProjectResult(w)
  \/ Enqueue(w)

Next ==
  \/ \E w \in Workers : Resume(w) \/ Attempt(w) \/ StoreRaises(w) \/ Crash(w)
  \/ \E r \in Rows : JobAnswers(r)

Spec == DispatchInit /\ [][Next]_dispatchVars

(* A started group runs on and a blocked one is resumed by its operator;    *)
(* nothing forces a crash, a failing store or an answer of a lost job.      *)
FairSpec ==
  /\ Spec
  /\ \A w \in Workers : WF_dispatchVars(Resume(w)) /\ WF_dispatchVars(Attempt(w))

----------------------------------------------------------------------------
(* What a worker's local variables may hold.                                *)
Steps == {"idle", "resume", "start", "lookup", "manifest", "clone", "persist", "bind", "context",
          "request", "invoke", "wait", "raw", "response", "capture", "validate", "retain",
          "structured", "fail", "finish", "decide", "project", "enqueue"}

Locals ==
  [pc : Steps, at : Rows, last : Rows, salvage : BOOLEAN, hint : BOOLEAN,
   held : [status : LeaseStatuses, version : Nat, fresh : BOOLEAN],
   reply : AllReplies \cup {"none"},
   end : [status : Terminal \cup {"none"}, reason : Reasons \cup {"none"},
          patch : Rows \cup {NoRow}, evidence : Rows \cup {NoRow}],
   result : [status : Deliverables \cup {"none"}, patches : SUBSET Rows]]

(* Type invariant: the journal, the workers' variables and the sandboxes    *)
(* keep their domains, and no attempt is numbered past the last retry.      *)
DispatchTypeOK ==
  /\ JournalTypeOK
  /\ worker \in [Workers -> Locals]
  /\ dir \in [Rows -> {"absent", "partial", "ready"}]
  /\ job \in [Rows -> {"none", "running"} \cup Deliverables]
  /\ verdict \in {"none", "approved", "rejected"}
  /\ approved \subseteq Rows /\ rejected \in Rows \cup {NoRow}
  /\ queued \subseteq Rows /\ counted \in BOOLEAN /\ recovered \subseteq Rows
  /\ crashes \in 0 .. MaxCrashes

(* The durable merge queue is only given patches with an approved contract  *)
(* verdict, or the patch of a timed-out turn whose answer came late, which  *)
(* no validation has seen: through every crash, replay, salvage and         *)
(* revalidation of the attempts (_validate_sandbox_capture_against_contract,*)
(* _recover_pre_promotion_contract_revalidation).                           *)
EnqueuedPatchIsApproved == queued \subseteq approved \cup recovered

(* The sandbox of a retained lease is evidence: no later attempt, replay or *)
(* failed allocation removes its directory (SandboxRunner.allocate).        *)
EvidenceIsKept ==
  [][\A r \in Rows : lease[r] = "retained" /\ dir[r] = "ready" => dir'[r] = "ready"]_dispatchVars

(* Once the task has a completed marker, no rerun, late answer or           *)
(* revalidation replaces it: the result the group resumes on is the one     *)
(* first projected.                                                         *)
CompletedMarkerIsStable ==
  [][marker.status = "completed" => marker' = marker]_dispatchVars

(* A turn that ended completed and projected its result gets its patch into *)
(* the durable merge queue, however often the worker crashes on the way;    *)
(* answers recovered late are left out (CountedMarkerIsLate).               *)
CompletedWorkIsQueued ==
  \A r \in Rows :
    (state[r] = "succeeded" /\ structured[r] = "completed" /\ r \notin recovered)
      ~> (r \in queued)

(* A partial success does not hold the task up: the resumes go on to a new  *)
(* attempt while there is rerun headroom                                    *)
(* (_resume_dispatch_plan_for_succeeded_terminal).                          *)
PartialIsRerun ==
  \A r \in {k \in Rows : k + 1 \in Rows} :
    (latest = r /\ state[r] = "succeeded" /\ structured[r] = "partial") ~> (state[r + 1] # "none")

(* A resume counts a completed marker as done without asking whether its    *)
(* patch was queued only if an answer was recovered late: the result of a   *)
(* turn that was waited for cannot slip past the merge queue, whatever the  *)
(* order of projections, crashes and retries                                *)
(* (_completed_task_marker_has_current_lineage).                            *)
CountedMarkerIsLate == counted => recovered # {}

=============================================================================
