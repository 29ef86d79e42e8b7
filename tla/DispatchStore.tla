--------------------------- MODULE DispatchStore ---------------------------
(***************************************************************************)
(* The journal of one task's dispatch attempts: the rows of                *)
(* execution_journal_rows with entry_type 'dispatch_attempt', the evidence *)
(* their payloads point at, the dag-task:<id> projection and the sandbox   *)
(* lease rows (execution_control/store.py).  One action per store method;  *)
(* each method is one transaction.  The methods take no account of who     *)
(* calls them, so any caller may call any of them at any time.             *)
(*                                                                         *)
(* A row is known by its retry index: the idempotency key hashes it with   *)
(* inputs that are fixed here (contract, base commits, prompt).  A row has *)
(* one sandbox, hence one patch, so a patch is named by its row.           *)
(***************************************************************************)
EXTENDS Naturals

CONSTANTS
  Rows,   \* retry indices of the task
  NoRow

ASSUME RowsAssumption == Rows \subseteq Nat /\ NoRow \notin Rows

VARIABLES
  state,       \* dispatcher_state; status is "started" in every live state
  raw,         \* raw_output_evidence_ids is not empty
  structured,  \* status reported by the valid structured result, or "none"
  failure,     \* runtime_failure_id: its terminal reason and patch
  outcome,     \* payload.dispatch_outcome: its terminal reason and patch
  latest,      \* the terminal row with the greatest updated_at
  marker,      \* the dag-task projection: row, status, patch, pending-queue note
  lease,       \* sandbox_leases.status, "none" before the insert
  version      \* sandbox_leases.lease_version

attemptVars == <<state, raw, structured, failure, outcome, latest, marker>>
leaseVars   == <<lease, version>>
journalVars == <<attemptVars, leaseVars>>

(* "cancelling" is dispatcher_state 'cancelled' with status 'started'.      *)
Live == {"attempt_started", "context_prepared", "runtime_invoking", "runtime_returned",
         "cancelling", "patch_capturing", "evidence_recording"}
Terminal == {"succeeded", "failed", "incomplete", "cancelled"}
States == {"none"} \cup Live \cup Terminal

(* DISPATCHER_STATE_ORDER.                                                  *)
Rank == [s \in States |->
           CASE s = "none"               -> 0
             [] s = "attempt_started"    -> 10
             [] s = "context_prepared"   -> 20
             [] s = "runtime_invoking"   -> 30
             [] s = "runtime_returned"   -> 40
             [] s = "cancelling"         -> 45
             [] s = "patch_capturing"    -> 50
             [] s = "evidence_recording" -> 60
             [] OTHER                    -> 100]

(* Why a runtime turn ended.  The three *_capture reasons are the one       *)
(* terminal reason patch_capture_failed, told apart by the failure's        *)
(* message: contract rejection, a permission marker, anything else.  So are *)
(* allocation_failed and binding_failed, both sandbox_binding_failed.       *)
Reasons == {"completed", "timeout", "provider_error", "process_failed",
            "context_materialization_failed", "structured_output_invalid",
            "rejected_capture", "denied_capture", "failed_capture",
            "allocation_failed", "binding_failed", "cancelled"}
CaptureReasons == {"rejected_capture", "denied_capture", "failed_capture"}

Deliverables == {"completed", "partial"}

Ended(reason, patch) == [reason |-> reason, patch |-> patch]
Nothing == Ended("none", NoRow)

Projection(row, status, patch, noted) ==
  [row |-> row, status |-> status, patch |-> patch, noted |-> noted]
NoMarker == Projection(NoRow, "none", NoRow, FALSE)

ActiveLease   == {"allocated", "running"}
TerminalLease == {"captured", "retained", "failed", "poisoned"}
LeaseStatuses == {"none"} \cup ActiveLease \cup TerminalLease

Mutable(r) == state[r] \in Live

JournalInit ==
  /\ state = [r \in Rows |-> "none"]
  /\ raw = [r \in Rows |-> FALSE]
  /\ structured = [r \in Rows |-> "none"]
  /\ failure = [r \in Rows |-> Nothing]
  /\ outcome = [r \in Rows |-> Nothing]
  /\ latest = NoRow
  /\ marker = NoMarker
  /\ lease = [r \in Rows |-> "none"]
  /\ version = [r \in Rows |-> 0]

----------------------------------------------------------------------------
(* Mutant: the rank comparison of the UPDATE is dropped.                    *)
AdvanceAlways(r, to) == state' = [state EXCEPT ![r] = to]

(* _update_dispatch_attempt_row: a row further along is left as it is.      *)
Advance(r, to) ==
  state' = [state EXCEPT ![r] = IF Rank[@] > Rank[to] THEN @ ELSE to]

(* start_dispatch_attempt, when the key is new.                             *)
StartAttempt(r) ==
  /\ state[r] = "none"
  /\ state' = [state EXCEPT ![r] = "attempt_started"]
  /\ UNCHANGED <<raw, structured, failure, outcome, latest, marker, leaseVars>>

(* record_prompt_context, and record_runtime_invocation for the request     *)
(* and for the response.                                                    *)
RecordProgress(r, to) ==
  /\ Mutable(r)
  /\ Advance(r, to)
  /\ UNCHANGED <<raw, structured, failure, outcome, latest, marker, leaseVars>>

(* record_raw_output.                                                       *)
RecordRaw(r) ==
  /\ Mutable(r)
  /\ raw' = [raw EXCEPT ![r] = TRUE]
  /\ UNCHANGED <<state, structured, failure, outcome, latest, marker, leaseVars>>

(* record_structured_output: only a valid result gets an evidence id.       *)
RecordStructured(r, result) ==
  /\ Mutable(r)
  /\ Advance(r, "evidence_recording")
  /\ structured' = IF result \in Deliverables
                   THEN [structured EXCEPT ![r] = result]
                   ELSE structured
  /\ UNCHANGED <<raw, failure, outcome, latest, marker, leaseVars>>

(* record_runtime_failure.                                                  *)
RecordFailure(r, reason, patch) ==
  /\ Mutable(r)
  /\ Advance(r, "evidence_recording")
  /\ failure' = [failure EXCEPT ![r] = Ended(reason, patch)]
  /\ UNCHANGED <<raw, structured, outcome, latest, marker, leaseVars>>

(* Mutant: the result is projected without the note.                        *)
ProjectUnnoted(r, to) ==
  IF to = "succeeded" THEN Projection(r, structured[r], r, FALSE) ELSE marker

(* _project_task_result_from_attempt_in_txn: a success is projected in the  *)
(* transaction that records it.  The normalized result carries its patch id *)
(* and the pending-queue note.                                              *)
Project(r, to) ==
  IF to = "succeeded" THEN Projection(r, structured[r], r, TRUE) ELSE marker

(* Mutant: a finished attempt may be finished again with another outcome.   *)
FinishAttemptAgain(r, to, reason, patch) ==
  /\ state[r] # "none"
  /\ to = "succeeded" => structured[r] # "none"
  /\ to = "failed" => failure[r] # Nothing
  /\ state' = [state EXCEPT ![r] = to]
  /\ outcome' = [outcome EXCEPT ![r] = Ended(reason, patch)]
  /\ latest' = r
  /\ marker' = Project(r, to)
  /\ UNCHANGED <<raw, structured, failure, leaseVars>>

(* finish_dispatch_attempt on a row still started, with the checks of       *)
(* _validate_dispatch_outcome.                                              *)
FinishAttempt(r, to, reason, patch) ==
  /\ Mutable(r)
  /\ to = "succeeded" => structured[r] # "none" /\ state[r] = "evidence_recording"
  /\ to = "failed" => failure[r] # Nothing
  /\ state' = [state EXCEPT ![r] = to]
  /\ outcome' = [outcome EXCEPT ![r] = Ended(reason, patch)]
  /\ latest' = r
  /\ marker' = Project(r, to)
  /\ UNCHANGED <<raw, structured, failure, leaseVars>>

(* The row recover_late_runtime_completion accepts: failed on a timeout,    *)
(* with patch evidence captured at the time.                                *)
LateRecoverable(r) ==
  /\ state[r] = "failed"
  /\ outcome[r].reason = "timeout"
  /\ failure[r].patch # NoRow

(* recover_late_runtime_completion.  The result projected is the agent's    *)
(* own payload: no normalizer has added a patch id or the note to it.       *)
RecoverLate(r, result) ==
  /\ LateRecoverable(r)
  /\ state' = [state EXCEPT ![r] = "succeeded"]
  /\ raw' = [raw EXCEPT ![r] = TRUE]
  /\ structured' = [structured EXCEPT ![r] = result]
  /\ outcome' = [outcome EXCEPT ![r] = Ended("completed", failure[r].patch)]
  /\ failure' = [failure EXCEPT ![r] = Nothing]
  /\ latest' = r
  /\ marker' = Projection(r, result, NoRow, FALSE)
  /\ UNCHANGED leaseVars

(* artifacts.put of dag-task:<id> by the pre-promotion revalidation: patch  *)
(* is the rejected capture that now satisfies the contract.                 *)
ProjectRevalidated(r, patch) ==
  /\ outcome[r].reason = "rejected_capture"
  /\ marker' = Projection(r, "completed", patch, TRUE)
  /\ UNCHANGED <<state, raw, structured, failure, outcome, latest, leaseVars>>

----------------------------------------------------------------------------
(* allocate_sandbox_lease: a live row is handed back as it is, and a        *)
(* terminal one is an idempotency conflict (LeaseConflict).                 *)
AllocateLease(r) ==
  /\ lease[r] \notin TerminalLease
  /\ lease' = [lease EXCEPT ![r] = IF @ = "none" THEN "allocated" ELSE @]
  /\ UNCHANGED <<version, attemptVars>>

LeaseConflict(r) == lease[r] \in TerminalLease

(* The checks of update_sandbox_lease.                                      *)
MayUpdate(r, v, to) ==
  /\ version[r] = v
  /\ lease[r] \in TerminalLease => to \in TerminalLease

(* update_sandbox_lease by a caller whose copy of the row has version v.    *)
UpdateLease(r, v, to) ==
  /\ lease[r] # "none"
  /\ MayUpdate(r, v, to)
  /\ lease' = [lease EXCEPT ![r] = to]
  /\ version' = [version EXCEPT ![r] = @ + 1]
  /\ UNCHANGED attemptVars

----------------------------------------------------------------------------
(* The methods, called by anyone.                                           *)
JournalStep(r) ==
  \/ StartAttempt(r)
  \/ \E to \in Live \ {"attempt_started"} : RecordProgress(r, to)
  \/ RecordRaw(r)
  \/ \E result \in Deliverables \cup {"invalid"} : RecordStructured(r, result)
  \/ \E reason \in Reasons, patch \in {NoRow, r} : RecordFailure(r, reason, patch)
  \/ \E to \in Terminal, reason \in Reasons, patch \in {NoRow, r} :
       FinishAttempt(r, to, reason, patch)
  \/ \E result \in Deliverables : RecoverLate(r, result)
  \/ \E patch \in Rows : ProjectRevalidated(r, patch)
  \/ AllocateLease(r)
  \/ \E to \in LeaseStatuses \ {"none"} : UpdateLease(r, version[r], to)

JournalSpec == JournalInit /\ [][\E r \in Rows : JournalStep(r)]_journalVars

----------------------------------------------------------------------------
(* The columns keep their domains.                                          *)
JournalTypeOK ==
  /\ state \in [Rows -> States]
  /\ raw \in [Rows -> BOOLEAN]
  /\ structured \in [Rows -> {"none"} \cup Deliverables]
  /\ failure \in [Rows -> [reason : Reasons \cup {"none"}, patch : Rows \cup {NoRow}]]
  /\ outcome \in [Rows -> [reason : Reasons \cup {"none"}, patch : Rows \cup {NoRow}]]
  /\ latest \in Rows \cup {NoRow}
  /\ marker \in [row : Rows \cup {NoRow}, status : {"none"} \cup Deliverables,
                 patch : Rows \cup {NoRow}, noted : BOOLEAN]
  /\ lease \in [Rows -> LeaseStatuses]
  /\ version \in [Rows -> Nat]

(* A finished attempt keeps its outcome, whoever replays it; the one        *)
(* exception is the late answer of a timed-out attempt                      *)
(* (_ensure_mutable, recover_late_runtime_completion).                      *)
AttemptEndsOnce ==
  [][\A r \in Rows : state[r] \in Terminal =>
       \/ state'[r] = state[r] /\ outcome'[r] = outcome[r]
       \/ /\ state[r] = "failed" /\ outcome[r].reason = "timeout"
          /\ state'[r] = "succeeded"]_journalVars

(* A live attempt only moves on in DISPATCHER_STATE_ORDER, and what it has  *)
(* recorded stays: a late or repeated write never takes a row back.         *)
ProgressIsMonotone ==
  [][\A r \in Rows : state[r] \notin Terminal =>
       /\ Rank[state[r]] <= Rank[state'[r]]
       /\ raw[r] => raw'[r]
       /\ structured[r] # "none" => structured'[r] # "none"]_journalVars

(* A sandbox lease that ended never becomes active again, and no two        *)
(* writes of a lease's status carry the same version                        *)
(* (update_sandbox_lease).                                                  *)
LeaseNeverReopens ==
  [][\A r \in Rows :
       /\ lease[r] \in TerminalLease => lease'[r] \in TerminalLease
       /\ lease[r] # "none" /\ lease'[r] # lease[r] => version'[r] > version[r]]_journalVars

(* The projection the group reads speaks for an attempt that succeeded with *)
(* the status it shows, or for a rejected capture that was revalidated.     *)
MarkerIsBacked ==
  marker # NoMarker =>
    \/ state[marker.row] = "succeeded" /\ structured[marker.row] = marker.status
    \/ outcome[marker.row].reason = "rejected_capture" /\ marker.status = "completed"

=============================================================================
