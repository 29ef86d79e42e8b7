------------------------- MODULE TaskDispatchProofs -------------------------
(***************************************************************************)
(* Proofs about the dispatch of tasks.  First, what the methods of         *)
(* DispatchStore guarantee whoever calls them, for any set of rows: they   *)
(* need no strengthening but the type invariant and the shape of the       *)
(* outcomes of successful rows, which makes MarkerIsBacked inductive.      *)
(*                                                                         *)
(* Then TaskDispatch, for any number of workers, retries, replies and      *)
(* crashes: its type invariant, that every step is a step of the journal,  *)
(* so that what was shown of JournalSpec holds of the dispatcher too, and  *)
(* that only approved or recovered patches are queued.                     *)
(*                                                                         *)
(* The inductive invariant says, of every worker, what it holds at each    *)
(* place of the code: a rejection is remembered across the release of the  *)
(* sandbox, and a success is only recorded for a patch with a verdict.     *)
(*                                                                         *)
(* Last, what holds when one process at a time resumes the group: retained *)
(* evidence stays, and the first completed marker is never replaced.       *)
(***************************************************************************)
EXTENDS TaskDispatch, TLAPS

(* Ranks are comparable, and no state ranks above a terminal one.           *)
LEMMA RankInOrder ==
  /\ \A s \in States : Rank[s] \in Nat
  /\ \A s \in States, t \in Terminal : Rank[s] <= Rank[t]
  BY DEF Rank, States, Live, Terminal

(* The type invariant: no method writes a value outside its column.         *)
LEMMA JournalStepTypeOK ==
  ASSUME JournalTypeOK, NEW r \in Rows, JournalStep(r)
  PROVE  JournalTypeOK'
<1> USE RowsAssumption DEF JournalTypeOK, attemptVars, leaseVars
<1>1. CASE StartAttempt(r)
  BY <1>1 DEF StartAttempt, States, Live
<1>2. ASSUME NEW to \in Live \ {"attempt_started"}, RecordProgress(r, to) PROVE JournalTypeOK'
  BY <1>2 DEF RecordProgress, Advance, States
<1>3. CASE RecordRaw(r)
  BY <1>3 DEF RecordRaw
<1>4. ASSUME NEW result \in Deliverables \cup {"invalid"}, RecordStructured(r, result)
      PROVE  JournalTypeOK'
  BY <1>4 DEF RecordStructured, Advance, States, Live, Deliverables
<1>5. ASSUME NEW reason \in Reasons, NEW patch \in {NoRow, r}, RecordFailure(r, reason, patch)
      PROVE  JournalTypeOK'
  BY <1>5 DEF RecordFailure, Advance, States, Live, Ended
<1>6. ASSUME NEW to \in Terminal, NEW reason \in Reasons, NEW patch \in {NoRow, r},
             FinishAttempt(r, to, reason, patch)
      PROVE  JournalTypeOK'
  BY <1>6 DEF FinishAttempt, Project, Projection, States, Ended
<1>7. ASSUME NEW result \in Deliverables, RecoverLate(r, result) PROVE JournalTypeOK'
  BY <1>7 DEF RecoverLate, Projection, States, Terminal, Ended, Nothing, Reasons
<1>8. ASSUME NEW patch \in Rows, ProjectRevalidated(r, patch) PROVE JournalTypeOK'
  BY <1>8 DEF ProjectRevalidated, Projection, Deliverables
<1>9. CASE AllocateLease(r)
  BY <1>9 DEF AllocateLease, LeaseStatuses, ActiveLease
<1>10. ASSUME NEW to \in LeaseStatuses \ {"none"}, UpdateLease(r, version[r], to)
       PROVE  JournalTypeOK'
  BY <1>10 DEF UpdateLease
<1> QED BY <1>1, <1>2, <1>3, <1>4, <1>5, <1>6, <1>7, <1>8, <1>9, <1>10 DEF JournalStep

(* The columns of the journal and of the leases keep their domains.         *)
THEOREM JournalTyped == JournalSpec => []JournalTypeOK
<1>1. JournalInit => JournalTypeOK
  BY RowsAssumption DEF JournalInit, JournalTypeOK, Nothing, Ended, NoMarker, Projection,
     States, LeaseStatuses
<1>2. JournalTypeOK /\ [\E r \in Rows : JournalStep(r)]_journalVars => JournalTypeOK'
  BY JournalStepTypeOK DEF JournalTypeOK, journalVars, attemptVars, leaseVars
<1> QED BY <1>1, <1>2, PTL DEF JournalSpec

(* A finished attempt keeps its outcome, whoever replays it: every method   *)
(* that writes the state or the outcome asks for a live row, but for the    *)
(* recovery of a timed-out attempt's late answer.                           *)
LEMMA StepEndsOnce ==
  ASSUME JournalTypeOK, NEW r \in Rows, JournalStep(r), NEW q \in Rows, state[q] \in Terminal
  PROVE  \/ state'[q] = state[q] /\ outcome'[q] = outcome[q]
         \/ /\ state[q] = "failed" /\ outcome[q].reason = "timeout"
            /\ state'[q] = "succeeded"
<1> USE DEF JournalTypeOK, Mutable, Live, Terminal, attemptVars, leaseVars
<1>1. CASE state[r] \notin Terminal
  <2>1. q # r
    BY <1>1
  <2> QED
    BY <2>1 DEF JournalStep, StartAttempt, RecordProgress, RecordRaw, RecordStructured, RecordFailure,
       FinishAttempt, RecoverLate, ProjectRevalidated, AllocateLease, UpdateLease, Advance
<1>2. CASE state[r] \in Terminal
  <2>1. \/ \E result \in Deliverables : RecoverLate(r, result)
        \/ UNCHANGED <<state, outcome>>
    BY <1>2 DEF JournalStep, StartAttempt, RecordProgress, RecordRaw, RecordStructured, RecordFailure,
       FinishAttempt, ProjectRevalidated, AllocateLease, UpdateLease
  <2> QED BY <2>1 DEF RecoverLate, LateRecoverable
<1> QED BY <1>1, <1>2

THEOREM JournalEndsOnce == JournalSpec => AttemptEndsOnce
<1>1. JournalTypeOK /\ [\E r \in Rows : JournalStep(r)]_journalVars =>
        [\A r \in Rows : state[r] \in Terminal =>
           \/ state'[r] = state[r] /\ outcome'[r] = outcome[r]
           \/ /\ state[r] = "failed" /\ outcome[r].reason = "timeout"
              /\ state'[r] = "succeeded"]_journalVars
  BY StepEndsOnce
<1> QED BY <1>1, JournalTyped, PTL DEF JournalSpec, AttemptEndsOnce

(* A live attempt only moves on, and what it has recorded stays: a writer   *)
(* that is late finds the row further along and leaves its state alone.     *)
LEMMA AdvanceMovesOn ==
  ASSUME JournalTypeOK, NEW r \in Rows, NEW to \in States, Advance(r, to), NEW q \in Rows
  PROVE  Rank[state[q]] <= Rank[state'[q]]
  BY RankInOrder DEF JournalTypeOK, Advance

LEMMA StepIsMonotone ==
  ASSUME JournalTypeOK, NEW r \in Rows, JournalStep(r), NEW q \in Rows, state[q] \notin Terminal
  PROVE  /\ Rank[state[q]] <= Rank[state'[q]]
         /\ raw[q] => raw'[q]
         /\ structured[q] # "none" => structured'[q] # "none"
<1>0. Live \subseteq States /\ Terminal \subseteq States
  BY DEF States
<1>1. Rank[state[q]] <= Rank[state'[q]]
  <2>1. CASE UNCHANGED state
    BY <2>1, RankInOrder DEF JournalTypeOK
  <2>2. CASE \E to \in States : Advance(r, to)
    BY <2>2, AdvanceMovesOn
  <2>3. CASE \E to \in Terminal : state' = [state EXCEPT ![r] = to]
    BY <2>3, RankInOrder DEF JournalTypeOK
  <2>4. CASE StartAttempt(r)
    <3>1. Rank["none"] <= Rank["attempt_started"]
      BY DEF Rank, States, Live, Terminal
    <3> QED BY <2>4, <3>1, RankInOrder DEF StartAttempt, JournalTypeOK
  <2>5. "evidence_recording" \in States /\ "succeeded" \in Terminal
    BY DEF States, Live, Terminal
  <2> QED
    BY <1>0, <2>1, <2>2, <2>3, <2>4, <2>5 DEF JournalStep, RecordProgress, RecordRaw, RecordStructured,
       RecordFailure, FinishAttempt, RecoverLate, ProjectRevalidated, AllocateLease, UpdateLease,
       attemptVars
<1>2. raw[q] => raw'[q]
  BY DEF JournalTypeOK, JournalStep, StartAttempt, RecordProgress, RecordRaw, RecordStructured,
     RecordFailure, FinishAttempt, RecoverLate, ProjectRevalidated, AllocateLease, UpdateLease,
     attemptVars
<1>3. structured[q] # "none" => structured'[q] # "none"
  BY DEF JournalTypeOK, JournalStep, StartAttempt, RecordProgress, RecordRaw, RecordStructured,
     RecordFailure, FinishAttempt, RecoverLate, ProjectRevalidated, AllocateLease, UpdateLease,
     attemptVars, Deliverables
<1> QED BY <1>1, <1>2, <1>3

THEOREM JournalMovesOn == JournalSpec => ProgressIsMonotone
<1>1. JournalTypeOK /\ [\E r \in Rows : JournalStep(r)]_journalVars =>
        [\A r \in Rows : state[r] \notin Terminal =>
           /\ Rank[state[r]] <= Rank[state'[r]]
           /\ raw[r] => raw'[r]
           /\ structured[r] # "none" => structured'[r] # "none"]_journalVars
  BY StepIsMonotone
<1> QED BY <1>1, JournalTyped, PTL DEF JournalSpec, ProgressIsMonotone

(* A lease that ended never becomes active again, and every write of its    *)
(* status has a version of its own: the compare-and-set of                  *)
(* update_sandbox_lease and the conflict of allocate_sandbox_lease suffice. *)
LEMMA StepKeepsLease ==
  ASSUME JournalTypeOK, NEW r \in Rows, JournalStep(r), NEW q \in Rows
  PROVE  /\ lease[q] \in TerminalLease => lease'[q] \in TerminalLease
         /\ lease[q] # "none" /\ lease'[q] # lease[q] => version'[q] > version[q]
<1>1. CASE UNCHANGED leaseVars
  BY <1>1 DEF leaseVars
<1>2. CASE AllocateLease(r)
  BY <1>2 DEF AllocateLease, JournalTypeOK
<1>3. CASE \E to \in LeaseStatuses \ {"none"} : UpdateLease(r, version[r], to)
  BY <1>3 DEF UpdateLease, MayUpdate, JournalTypeOK
<1> QED
  BY <1>1, <1>2, <1>3 DEF JournalStep, StartAttempt, RecordProgress, RecordRaw, RecordStructured,
     RecordFailure, FinishAttempt, RecoverLate, ProjectRevalidated

THEOREM JournalKeepsLeases == JournalSpec => LeaseNeverReopens
<1>1. JournalTypeOK /\ [\E r \in Rows : JournalStep(r)]_journalVars =>
        [\A r \in Rows :
           /\ lease[r] \in TerminalLease => lease'[r] \in TerminalLease
           /\ lease[r] # "none" /\ lease'[r] # lease[r] => version'[r] > version[r]]_journalVars
  BY StepKeepsLease
<1> QED BY <1>1, JournalTyped, PTL DEF JournalSpec, LeaseNeverReopens

(* The strengthening that makes MarkerIsBacked inductive: a live row has no *)
(* outcome yet, so the row a projection speaks for is never written again.  *)
OutcomeIsLast == \A r \in Rows : state[r] \notin Terminal => outcome[r] = Nothing
MarkerHasRow  == marker # NoMarker => marker.row \in Rows
MarkerInv == JournalTypeOK /\ OutcomeIsLast /\ MarkerHasRow /\ MarkerIsBacked

LEMMA StepKeepsOutcomeLast ==
  ASSUME MarkerInv, NEW r \in Rows, JournalStep(r)
  PROVE  OutcomeIsLast' /\ MarkerHasRow'
<1> USE DEF MarkerInv, JournalTypeOK, OutcomeIsLast, MarkerHasRow, Mutable, attemptVars, leaseVars
<1>1. ASSUME NEW to \in Terminal, NEW reason \in Reasons, NEW patch \in {NoRow, r},
             FinishAttempt(r, to, reason, patch)
      PROVE  OutcomeIsLast' /\ MarkerHasRow'
  BY <1>1 DEF FinishAttempt, Project, Projection
<1>2. ASSUME NEW result \in Deliverables, RecoverLate(r, result)
      PROVE  OutcomeIsLast' /\ MarkerHasRow'
  BY <1>2 DEF RecoverLate, Projection, Terminal
<1>3. ASSUME NEW patch \in Rows, ProjectRevalidated(r, patch) PROVE OutcomeIsLast' /\ MarkerHasRow'
  BY <1>3 DEF ProjectRevalidated, Projection
<1>4. CASE UNCHANGED <<outcome, marker>> /\ (\A q \in Rows : state[q] \in Terminal => state'[q] = state[q])
  BY <1>4
<1>5. \/ \E to \in Terminal, reason \in Reasons, patch \in {NoRow, r} : FinishAttempt(r, to, reason, patch)
      \/ \E result \in Deliverables : RecoverLate(r, result)
      \/ \E patch \in Rows : ProjectRevalidated(r, patch)
      \/ UNCHANGED <<outcome, marker>> /\ (\A q \in Rows : state[q] \in Terminal => state'[q] = state[q])
  BY DEF JournalStep, StartAttempt, RecordProgress, RecordRaw, RecordStructured, RecordFailure,
     AllocateLease, UpdateLease, Advance, Live, Terminal
<1> QED BY <1>1, <1>2, <1>3, <1>4, <1>5

LEMMA StepKeepsMarkerBacked ==
  ASSUME MarkerInv, NEW r \in Rows, JournalStep(r)
  PROVE  MarkerIsBacked'
<1> USE DEF MarkerInv, JournalTypeOK, OutcomeIsLast, MarkerHasRow, Mutable, attemptVars, leaseVars
<1>1. ASSUME NEW to \in Terminal, NEW reason \in Reasons, NEW patch \in {NoRow, r},
             FinishAttempt(r, to, reason, patch)
      PROVE  MarkerIsBacked'
  <2>1. CASE to = "succeeded"
    BY <1>1, <2>1 DEF FinishAttempt, Project, Projection, MarkerIsBacked
  <2>2. CASE to # "succeeded"
    <3>1. marker' = marker /\ outcome[r] = Nothing /\ state[r] # "succeeded"
      BY <1>1, <2>2 DEF FinishAttempt, Project, Live, Terminal
    <3>2. marker # NoMarker => marker.row # r
      BY <3>1 DEF MarkerIsBacked, Nothing, Ended
    <3> QED BY <1>1, <3>1, <3>2 DEF FinishAttempt, MarkerIsBacked
  <2> QED BY <2>1, <2>2
<1>2. ASSUME NEW result \in Deliverables, RecoverLate(r, result) PROVE MarkerIsBacked'
  BY <1>2 DEF RecoverLate, Projection, MarkerIsBacked
<1>3. ASSUME NEW patch \in Rows, ProjectRevalidated(r, patch) PROVE MarkerIsBacked'
  BY <1>3 DEF ProjectRevalidated, Projection, MarkerIsBacked
<1>4. CASE /\ UNCHANGED <<outcome, marker>>
           /\ \A q \in Rows : state[q] \in Terminal =>
                state'[q] = state[q] /\ structured'[q] = structured[q]
  BY <1>4 DEF MarkerIsBacked, Terminal
<1>5. \/ \E to \in Terminal, reason \in Reasons, patch \in {NoRow, r} : FinishAttempt(r, to, reason, patch)
      \/ \E result \in Deliverables : RecoverLate(r, result)
      \/ \E patch \in Rows : ProjectRevalidated(r, patch)
      \/ /\ UNCHANGED <<outcome, marker>>
         /\ \A q \in Rows : state[q] \in Terminal =>
              state'[q] = state[q] /\ structured'[q] = structured[q]
  BY DEF JournalStep, StartAttempt, RecordProgress, RecordRaw, RecordStructured, RecordFailure,
     AllocateLease, UpdateLease, Advance, Live, Terminal
<1> QED BY <1>1, <1>2, <1>3, <1>4, <1>5

(* The projection the group reads is always backed by the attempt it names. *)
THEOREM JournalBacksMarker == JournalSpec => []MarkerIsBacked
<1>1. JournalInit => MarkerInv
  <2>1. JournalInit => JournalTypeOK
    BY RowsAssumption DEF JournalInit, JournalTypeOK, Nothing, Ended, NoMarker, Projection,
       States, LeaseStatuses
  <2> QED BY <2>1 DEF JournalInit, MarkerInv, OutcomeIsLast, MarkerHasRow, MarkerIsBacked
<1>2. MarkerInv /\ [\E r \in Rows : JournalStep(r)]_journalVars => MarkerInv'
  <2>1. ASSUME MarkerInv, NEW r \in Rows, JournalStep(r) PROVE MarkerInv'
    BY <2>1, JournalStepTypeOK, StepKeepsOutcomeLast, StepKeepsMarkerBacked DEF MarkerInv
  <2>2. MarkerInv /\ UNCHANGED journalVars => MarkerInv'
    BY DEF MarkerInv, JournalTypeOK, OutcomeIsLast, MarkerHasRow, MarkerIsBacked, journalVars,
       attemptVars, leaseVars
  <2> QED BY <2>1, <2>2
<1>3. MarkerInv => MarkerIsBacked
  BY DEF MarkerInv
<1> QED BY <1>1, <1>2, <1>3, PTL DEF JournalSpec

------------------------------------------------------------------------------
(* The dispatcher.                                                          *)

Accepted == approved \cup recovered

(* What a worker holds at each step.                                        *)
LocalInv(w) ==
  LET k == worker[w] IN
  /\ k.pc # "decide" /\ k.end.status # "none" => k.end.reason \in Reasons
  /\ k.pc \in {"fail", "finish", "decide"} => k.end.status # "none"
  /\ k.end # NoEnd => k.end.status # "none"
  /\ k.end.evidence \in {NoRow, k.at}
  /\ k.pc \notin {"decide", "project"} => k.end.patch \in {NoRow, k.at}
  /\ k.end.patch \in Accepted \cup {NoRow}
  /\ k.pc = "project" => k.end.patch # NoRow
  /\ k.pc \in {"raw", "response", "capture", "validate", "retain", "structured"}
       => k.reply # "none"
  /\ k.pc \in {"validate", "structured"} => Returned(k.reply)
  /\ k.pc = "retain" /\ Returned(k.reply) /\ k.end = NoEnd => k.at \in approved
  /\ k.pc = "structured" => k.at \in approved
  /\ k.pc \notin {"finish", "decide", "project"} => k.end.status # "succeeded"
  /\ k.pc = "finish" /\ k.end.status = "succeeded" => k.at \in Accepted
  /\ k.result.patches \subseteq Accepted

(* What the journal holds: patches are of the row itself or accepted.       *)
PatchInv ==
  /\ \A r \in Rows : /\ failure[r].patch \in {NoRow, r}
                     /\ failure[r] # Nothing => failure[r].reason \in Reasons
                     /\ structured[r] # "none" => r \in Accepted
                     /\ outcome[r].patch \in Accepted \cup {NoRow}
  /\ marker.patch \in Accepted \cup {NoRow}
  /\ marker.noted => marker.patch # NoRow
  /\ queued \subseteq Accepted

DispatchInv == DispatchTypeOK /\ PatchInv /\ \A w \in Workers : LocalInv(w)

(* A step of one worker.                                                    *)
Own(w) == /\ worker' = [worker EXCEPT ![w] = worker'[w]]
          /\ worker'[w] \in Locals
          /\ LocalInv(w)'

(* The variables of the module besides the journal and the workers.         *)
RestTypeOK ==
  /\ dir \in [Rows -> {"absent", "partial", "ready"}]
  /\ job \in [Rows -> {"none", "running"} \cup Deliverables]
  /\ verdict \in {"none", "approved", "rejected"}
  /\ approved \subseteq Rows /\ rejected \in Rows \cup {NoRow}
  /\ queued \subseteq Rows /\ counted \in BOOLEAN /\ recovered \subseteq Rows
  /\ crashes \in 0 .. MaxCrashes

Grows == approved \subseteq approved' /\ recovered \subseteq recovered'

Journal == [\E r \in Rows : JournalStep(r)]_journalVars

Good(w) == Own(w) /\ RestTypeOK' /\ Grows /\ PatchInv' /\ Journal

(* A step that is good for its worker keeps the invariant: the other        *)
(* workers hold what they held.                                             *)
LEMMA GoodIsEnough ==
  ASSUME DispatchInv, NEW w \in Workers, Good(w)
  PROVE  DispatchInv'
<1>1. JournalTypeOK'
  BY JournalStepTypeOK DEF Good, Journal, DispatchInv, DispatchTypeOK, JournalTypeOK,
     journalVars, attemptVars, leaseVars
<1>2. worker' \in [Workers -> Locals]
  BY DEF Good, Own, DispatchInv, DispatchTypeOK
<1>3. ASSUME NEW v \in Workers PROVE LocalInv(v)'
  <2>1. CASE v = w
    BY <2>1 DEF Good, Own
  <2>2. CASE v # w
    <3>1. worker'[v] = worker[v]
      BY <2>2 DEF Good, Own, DispatchInv, DispatchTypeOK
    <3>2. LocalInv(v) /\ Accepted \subseteq Accepted' /\ approved \subseteq approved'
      BY DEF Good, Grows, DispatchInv, Accepted
    <3> QED BY <3>1, <3>2 DEF LocalInv
  <2> QED BY <2>1, <2>2
<1> QED BY <1>1, <1>2, <1>3 DEF Good, RestTypeOK, DispatchInv, DispatchTypeOK

(* The attempts a resume plans for are rows, and Escape and NextAttempt do  *)
(* not go past the last of them.                                            *)
LEMMA PlanBounds ==
  ASSUME JournalTypeOK, Plan # {}
  PROVE  /\ (CHOOSE k \in Plan : \A j \in Plan : k <= j) \in Rows
         /\ (CHOOSE k \in Plan : \A j \in Plan : k >= j) \in Rows
<1>0. InfraRetries \in Nat /\ Headroom \in Nat /\ Rows = 0 .. (InfraRetries + Headroom)
  BY RetriesAssumption
<1>1. \E lo, hi \in Nat : Plan = lo .. hi /\ hi \in Rows
  <2>1. CASE ~SucceededLast
    <3>1. Plan = 0 .. InfraRetries /\ InfraRetries \in Rows /\ 0 \in Nat
      BY <1>0, <2>1 DEF Plan, Attempts
    <3> QED BY <1>0, <3>1
  <2>2. CASE SucceededLast
    <3>1. latest \in Rows /\ latest \in Nat /\ {latest} = latest .. latest
      BY <1>0, <2>2 DEF SucceededLast, JournalTypeOK
    <3>2. CASE marker.status = "completed"
      <4>1. Plan = latest .. latest
        BY <2>2, <3>1, <3>2 DEF Plan
      <4> QED BY <3>1, <4>1
    <3>3. CASE marker.status # "completed"
      <4>1. Plan = (latest + 1) .. (InfraRetries + Headroom)
        BY <2>2, <3>3 DEF Plan
      <4>2. latest + 1 \in Nat /\ InfraRetries + Headroom \in Nat /\ InfraRetries + Headroom \in Rows
        BY <1>0, <3>1
      <4> QED BY <4>1, <4>2
    <3> QED BY <3>2, <3>3
  <2> QED BY <2>1, <2>2
<1>2. PICK lo \in Nat, hi \in Nat : Plan = lo .. hi /\ hi \in Rows
  BY <1>1
<1>3. lo \in Plan /\ hi \in Plan /\ Plan \subseteq Rows
  BY <1>2, RetriesAssumption
<1>4. \E k \in Plan : \A j \in Plan : k <= j
  BY <1>2, <1>3
<1>5. \E k \in Plan : \A j \in Plan : k >= j
  BY <1>2, <1>3
<1> QED BY <1>3, <1>4, <1>5

LEMMA IdleIsLocal ==
  /\ Idle \in Locals
  /\ \A r, l \in Rows : [Idle EXCEPT !.pc = "start", !.at = r, !.last = l] \in Locals
<1>0. "idle" \in Steps /\ "start" \in Steps
  BY DEF Steps
<1>1. 0 \in Rows
  BY RetriesAssumption
<1>2. /\ NoLease \in [status : LeaseStatuses, version : Nat, fresh : BOOLEAN]
      /\ NoEnd \in [status : Terminal \cup {"none"}, reason : Reasons \cup {"none"},
                   patch : Rows \cup {NoRow}, evidence : Rows \cup {NoRow}]
      /\ NoResult \in [status : Deliverables \cup {"none"}, patches : SUBSET Rows]
  BY DEF NoLease, NoEnd, NoResult, LeaseStatuses
<1>3. ASSUME NEW r \in Rows, NEW l \in Rows, NEW step \in Steps
      PROVE  [pc |-> step, at |-> r, last |-> l, held |-> NoLease, salvage |-> FALSE,
              reply |-> "none", end |-> NoEnd, hint |-> FALSE, result |-> NoResult] \in Locals
  BY <1>2 DEF Locals
<1>4. Idle \in Locals
  BY <1>0, <1>1, <1>3 DEF Idle
<1>5. ASSUME NEW k \in Locals, NEW r \in Rows, NEW l \in Rows
      PROVE  [k EXCEPT !.pc = "start", !.at = r, !.last = l] \in Locals
  BY <1>0 DEF Locals
<1> QED BY <1>4, <1>5

LEMMA LeavesWell ==
  ASSUME DispatchInv, NEW w \in Workers, Leave(w)
  PROVE  Own(w)
  BY IdleIsLocal DEF Own, LocalInv, Leave, Idle, NoEnd, NoResult, Accepted, DispatchInv,
     DispatchTypeOK

LEMMA NextAttemptsWell ==
  ASSUME DispatchInv, NEW w \in Workers, NextAttempt(w)
  PROVE  Own(w)
<1>1. worker[w] \in Locals
  BY DEF DispatchInv, DispatchTypeOK
<1>2. CASE worker[w].at < worker[w].last
  <2>1. worker[w].at + 1 \in Rows /\ worker[w].last \in Rows
    BY <1>1, <1>2, RetriesAssumption DEF Locals
  <2>2. worker' = [worker EXCEPT ![w] =
                     [Idle EXCEPT !.pc = "start", !.at = worker[w].at + 1, !.last = worker[w].last]]
    BY <1>2 DEF NextAttempt, Row
  <2> QED
    BY <2>1, <2>2, IdleIsLocal DEF Own, LocalInv, Idle, NoEnd, NoResult, Accepted, DispatchInv,
       DispatchTypeOK
<1>3. CASE ~(worker[w].at < worker[w].last)
  <2>1. Leave(w)
    BY <1>3 DEF NextAttempt, Leave
  <2> QED BY <2>1, LeavesWell
<1> QED BY <1>2, <1>3

LEMMA EscapesWell ==
  ASSUME DispatchInv, NEW w \in Workers, Escape(w)
  PROVE  Own(w)
  BY LeavesWell, NextAttemptsWell DEF Escape

(* A step that only moves its worker.                                       *)
LEMMA OnlyMoves ==
  ASSUME DispatchInv, NEW w \in Workers, Own(w),
         UNCHANGED <<journalVars, sandboxVars, verdictVars, historyVars, crashes>>
  PROVE  Good(w)
  BY DEF Good, Journal, PatchInv, Grows, RestTypeOK, DispatchInv, DispatchTypeOK, Accepted,
     journalVars, attemptVars, leaseVars, sandboxVars, verdictVars, historyVars

(* ... or its worker and directories.                                       *)
LEMMA OnlyMovesDirectories ==
  ASSUME DispatchInv, NEW w \in Workers, Own(w),
         dir' \in [Rows -> {"absent", "partial", "ready"}],
         UNCHANGED <<journalVars, job, verdictVars, historyVars, crashes>>
  PROVE  Good(w)
  BY DEF Good, Journal, PatchInv, Grows, RestTypeOK, DispatchInv, DispatchTypeOK, Accepted,
     journalVars, attemptVars, leaseVars, verdictVars, historyVars

(* ... or its worker and the lease of its row.                              *)
LEMMA OnlyLeases ==
  ASSUME DispatchInv, NEW w \in Workers, Own(w),
         dir' \in [Rows -> {"absent", "partial", "ready"}],
         NEW v, NEW to \in LeaseStatuses \ {"none"},
         UpdateLease(Row(w), v, to) \/ AllocateLease(Row(w)),
         UNCHANGED <<job, verdictVars, historyVars, crashes>>
  PROVE  Good(w)
<1>1. Row(w) \in Rows
  BY DEF DispatchInv, DispatchTypeOK, Locals, Row
<1>2. Journal
  BY <1>1 DEF Journal, JournalStep, UpdateLease, MayUpdate
<1>3. UNCHANGED attemptVars
  BY DEF UpdateLease, AllocateLease
<1> QED
  BY <1>2, <1>3 DEF Good, PatchInv, Grows, RestTypeOK, DispatchInv, DispatchTypeOK, Accepted,
     attemptVars, verdictVars, historyVars

(* What the update of a worker by one of the helpers needs to keep what the *)
(* worker holds at its step.                                                *)
LEMMA SetsWell ==
  ASSUME DispatchInv, NEW w \in Workers, NEW k \in Locals, worker' = [worker EXCEPT ![w] = k]
  PROVE  /\ worker' = [worker EXCEPT ![w] = worker'[w]]
         /\ worker'[w] = k /\ worker'[w] \in Locals
  BY DEF DispatchInv, DispatchTypeOK

LEMMA GoesWell ==
  ASSUME DispatchInv, NEW w \in Workers, NEW step \in Steps \ {"project"}, Goto(w, step), Grows,
         worker[w].pc \notin {"decide", "project"},
         worker[w].pc = "finish" => step = "decide",
         step \in {"fail", "finish", "decide"} => worker[w].end.status # "none",
         step \in {"raw", "response", "capture", "validate", "retain", "structured"}
           => worker[w].reply # "none",
         step \in {"validate", "structured"} => Returned(worker[w].reply),
         step \in {"retain", "structured"} => worker[w].at \in approved',
         step = "finish" /\ worker[w].end.status = "succeeded" => worker[w].at \in Accepted
  PROVE  Own(w)
<1>1. worker[w] \in Locals /\ LocalInv(w)
  BY DEF DispatchInv, DispatchTypeOK
<1> DEFINE k == [worker[w] EXCEPT !.pc = step]
<1>2. k \in Locals /\ worker' = [worker EXCEPT ![w] = k]
  BY <1>1 DEF Goto, Locals
<1>3. /\ k.pc = step /\ k.at = worker[w].at /\ k.end = worker[w].end
      /\ k.reply = worker[w].reply /\ k.result = worker[w].result
  BY <1>1 DEF Locals
<1> HIDE DEF k
<1>4. worker'[w] = k /\ Accepted \subseteq Accepted' /\ approved \subseteq approved'
  BY <1>2, SetsWell DEF Grows, Accepted
<1>5. LocalInv(w)'
  BY <1>1, <1>3, <1>4 DEF LocalInv
<1> QED BY <1>2, <1>5, SetsWell DEF Own

LEMMA EndsWell ==
  ASSUME DispatchInv, NEW w \in Workers,
         NEW step \in {"retain", "fail", "finish", "decide"}, NEW status \in Terminal,
         NEW reason \in Reasons \cup {"none"},
         NEW patch \in Rows \cup {NoRow}, NEW evidence \in {NoRow, worker[w].at},
         EndAs(w, step, status, reason, patch, evidence), Grows,
         step # "decide" => reason \in Reasons /\ patch \in {NoRow, worker[w].at},
         patch \in Accepted' \cup {NoRow},
         step = "retain" => worker[w].reply # "none",
         step \in {"retain", "fail"} => status # "succeeded",
         step = "finish" /\ status = "succeeded" => worker[w].at \in Accepted'
  PROVE  Own(w)
<1>1. worker[w] \in Locals /\ LocalInv(w)
  BY DEF DispatchInv, DispatchTypeOK
<1> DEFINE e == [status |-> status, reason |-> reason, patch |-> patch, evidence |-> evidence]
           k == [worker[w] EXCEPT !.pc = step, !.end = e]
<1>2. e \in [status : Terminal \cup {"none"}, reason : Reasons \cup {"none"},
             patch : Rows \cup {NoRow}, evidence : Rows \cup {NoRow}]
  BY <1>1 DEF Locals
<1>3. e.status = status /\ e.reason = reason /\ e.patch = patch /\ e.evidence = evidence
  OBVIOUS
<1>4. worker' = [worker EXCEPT ![w] = k] /\ step \in Steps
  BY DEF EndAs, Steps
<1> HIDE DEF e
<1>5. k \in Locals
  BY <1>1, <1>2, <1>4 DEF Locals
<1>6. /\ k.pc = step /\ k.at = worker[w].at /\ k.end = e
      /\ k.reply = worker[w].reply /\ k.result = worker[w].result
  BY <1>1 DEF Locals
<1> HIDE DEF k
<1>7. worker'[w] = k /\ Accepted \subseteq Accepted'
  BY <1>4, <1>5, SetsWell DEF Grows, Accepted
<1>8. e # NoEnd /\ status # "none"
  BY <1>3 DEF NoEnd, Terminal
<1>9. LocalInv(w)'
  BY <1>1, <1>3, <1>6, <1>7, <1>8 DEF LocalInv
<1> QED BY <1>4, <1>5, <1>9, SetsWell DEF Own

LEMMA BindFailsWell ==
  ASSUME DispatchInv, NEW w \in Workers, NEW reason \in Reasons, NEW hint \in BOOLEAN,
         BindFailed(w, reason, hint), Grows
  PROVE  Own(w)
<1>1. worker[w] \in Locals /\ LocalInv(w)
  BY DEF DispatchInv, DispatchTypeOK
<1> DEFINE e == IF worker[w].salvage
                THEN [NoEnd EXCEPT !.status = "incomplete", !.reason = "process_failed"]
                ELSE [NoEnd EXCEPT !.status = "failed", !.reason = reason]
           k == [worker[w] EXCEPT !.pc = "fail", !.hint = hint, !.end = e]
<1>2. /\ e \in [status : Terminal \cup {"none"}, reason : Reasons \cup {"none"},
                patch : Rows \cup {NoRow}, evidence : Rows \cup {NoRow}]
      /\ e.status \in Terminal /\ e.status # "succeeded" /\ e.reason \in Reasons
      /\ e.patch = NoRow /\ e.evidence = NoRow
  BY DEF NoEnd, Terminal, Reasons
<1>3. worker' = [worker EXCEPT ![w] = k] /\ "fail" \in Steps
  BY DEF BindFailed, Steps
<1> HIDE DEF e
<1>4. k \in Locals
  BY <1>1, <1>2, <1>3 DEF Locals
<1>5. /\ k.pc = "fail" /\ k.at = worker[w].at /\ k.end = e
      /\ k.reply = worker[w].reply /\ k.result = worker[w].result
  BY <1>1 DEF Locals
<1> HIDE DEF k
<1>6. worker'[w] = k /\ Accepted \subseteq Accepted' /\ "none" \notin Terminal
  BY <1>3, <1>4, SetsWell DEF Grows, Accepted, Terminal
<1>7. LocalInv(w)'
  BY <1>1, <1>2, <1>5, <1>6 DEF LocalInv
<1> QED BY <1>3, <1>4, <1>7, SetsWell DEF Own

LEMMA HoldsWell ==
  ASSUME DispatchInv, NEW w \in Workers, NEW step \in {"persist", "bind", "context"},
         NEW status \in LeaseStatuses, NEW v \in Nat, NEW fresh \in BOOLEAN,
         Hold(w, step, status, v, fresh), Grows, worker[w].pc \notin {"finish", "decide", "project"}
  PROVE  Own(w)
<1>1. worker[w] \in Locals /\ LocalInv(w)
  BY DEF DispatchInv, DispatchTypeOK
<1> DEFINE h == [status |-> status, version |-> v, fresh |-> fresh]
           k == [worker[w] EXCEPT !.pc = step, !.held = h]
<1>2. h \in [status : LeaseStatuses, version : Nat, fresh : BOOLEAN]
  OBVIOUS
<1>3. worker' = [worker EXCEPT ![w] = k] /\ step \in Steps
  BY DEF Hold, Steps
<1> HIDE DEF h
<1>4. k \in Locals
  BY <1>1, <1>2, <1>3 DEF Locals
<1>5. /\ k.pc = step /\ k.at = worker[w].at /\ k.end = worker[w].end
      /\ k.reply = worker[w].reply /\ k.result = worker[w].result
  BY <1>1 DEF Locals
<1> HIDE DEF k
<1>6. worker'[w] = k /\ Accepted \subseteq Accepted'
  BY <1>3, <1>4, SetsWell DEF Grows, Accepted
<1>7. LocalInv(w)'
  BY <1>1, <1>5, <1>6 DEF LocalInv
<1> QED BY <1>3, <1>4, <1>7, SetsWell DEF Own

LEMMA DeliversWell ==
  ASSUME DispatchInv, NEW w \in Workers, NEW status \in Deliverables \cup {"none"},
         NEW patches \in SUBSET Rows, Deliver(w, status, patches), patches \subseteq Accepted'
  PROVE  Own(w)
<1>1. worker[w].at \in Rows
  BY DEF DispatchInv, DispatchTypeOK, Locals
<1> DEFINE res == [status |-> status, patches |-> patches]
           k == [Idle EXCEPT !.pc = "enqueue", !.at = worker[w].at, !.result = res]
<1>2. res \in [status : Deliverables \cup {"none"}, patches : SUBSET Rows] /\ res.patches = patches
  OBVIOUS
<1>3. worker' = [worker EXCEPT ![w] = k] /\ "enqueue" \in Steps
  BY DEF Deliver, Row, Steps
<1> HIDE DEF res
<1>4. Idle \in Locals /\ Idle.end = NoEnd /\ Idle.reply = "none"
  BY IdleIsLocal DEF Idle
<1>5. k \in Locals
  BY <1>1, <1>2, <1>3, <1>4 DEF Locals
<1>6. /\ k.pc = "enqueue" /\ k.at = worker[w].at /\ k.end = Idle.end /\ k.result = res
  BY <1>4 DEF Locals
<1> HIDE DEF k
<1>7. worker'[w] = k
  BY <1>3, <1>5, SetsWell
<1>8. NoEnd.status = "none" /\ NoEnd.evidence = NoRow /\ NoEnd.patch = NoRow
  BY DEF NoEnd
<1>9. LocalInv(w)'
  BY <1>2, <1>4, <1>6, <1>7, <1>8 DEF LocalInv
<1> QED BY <1>3, <1>5, <1>9, SetsWell DEF Own

----------------------------------------------------------------------------
(* A resume sweeps the leases, then starts from the projection and verdict. *)
LEMMA ResumesWell ==
  ASSUME DispatchInv, NEW w \in Workers, Resume(w)
  PROVE  Good(w)
<1>1. CASE ResumeQueued(w)
  <2>1. marker.patch \in Rows /\ marker.patch \in Accepted
    BY <1>1 DEF ResumeQueued, MarkerPending, DispatchInv, DispatchTypeOK, JournalTypeOK, PatchInv
  <2>2. "completed" \in Deliverables \cup {"none"} /\ Accepted' = Accepted
    BY <1>1 DEF ResumeQueued, Deliverables, Accepted, verdictVars, historyVars
  <2>3. {marker.patch} \in SUBSET Rows /\ {marker.patch} \subseteq Accepted'
    BY <2>1, <2>2
  <2>4. Own(w)
    BY <1>1, <2>2, <2>3, DeliversWell DEF ResumeQueued
  <2> QED BY <1>1, <2>4, OnlyMoves DEF ResumeQueued
<1>2. CASE ResumeCounted(w)
  <2>1. Own(w)
    BY <1>2 DEF ResumeCounted, Own, DispatchInv, DispatchTypeOK, LocalInv, Accepted, verdictVars
  <2> QED
    BY <1>2, <2>1 DEF ResumeCounted, Good, Journal, PatchInv, Grows, RestTypeOK, DispatchInv,
       DispatchTypeOK, Accepted, journalVars, attemptVars, leaseVars, sandboxVars, verdictVars
<1>3. CASE ResumeDispatch(w)
  <2> DEFINE lo == CHOOSE k \in Plan : \A j \in Plan : k <= j
             hi == CHOOSE k \in Plan : \A j \in Plan : k >= j
             k  == [Idle EXCEPT !.pc = "start", !.at = lo, !.last = hi]
  <2>1. lo \in Rows /\ hi \in Rows
    BY <1>3, PlanBounds DEF ResumeDispatch, DispatchInv, DispatchTypeOK
  <2>2. worker' = [worker EXCEPT ![w] = k]
    BY <1>3 DEF ResumeDispatch
  <2> HIDE DEF lo, hi
  <2>3. k \in Locals
    BY <2>1, IdleIsLocal
  <2>4. k.pc = "start" /\ k.end = NoEnd /\ k.result = NoResult
    BY DEF Idle
  <2> HIDE DEF k
  <2>5. worker'[w] = k
    BY <2>2, <2>3, SetsWell
  <2>6. LocalInv(w)'
    BY <2>4, <2>5 DEF LocalInv, NoEnd, NoResult
  <2>7. Own(w)
    BY <2>2, <2>3, <2>6, SetsWell DEF Own
  <2> QED BY <1>3, <2>7, OnlyMoves DEF ResumeDispatch
<1>4. CASE \E r \in Rows : RecoverLease(w, r)
  <2>1. PICK r \in Rows : RecoverLease(w, r)
    BY <1>4
  <2>2. Own(w)
    BY <2>1 DEF RecoverLease, Own, DispatchInv, DispatchTypeOK, LocalInv, Accepted, verdictVars,
                historyVars, AllocateLease, UpdateLease, attemptVars
  <2>3. Journal
    BY <2>1 DEF RecoverLease, Journal, JournalStep, UpdateLease, MayUpdate, LeaseStatuses,
                ActiveLease, TerminalLease
  <2>4. UNCHANGED <<attemptVars, sandboxVars, verdictVars, historyVars, crashes>>
    BY <2>1 DEF RecoverLease, UpdateLease, AllocateLease
  <2> QED
    BY <2>2, <2>3, <2>4 DEF Good, PatchInv, Grows, RestTypeOK, DispatchInv, DispatchTypeOK, Accepted,
       attemptVars, sandboxVars, verdictVars, historyVars
<1>5. CASE Recovered(w)
  <2>1. Goto(w, "resume") /\ "resume" \in Steps \ {"project"} /\ worker[w].pc = "idle" /\ Grows
    BY <1>5 DEF Recovered, Steps, At, Grows, verdictVars, historyVars
  <2>2. Own(w)
    BY <2>1, GoesWell
  <2> QED BY <1>5, <2>2, OnlyMoves DEF Recovered
<1> QED BY <1>1, <1>2, <1>3, <1>4, <1>5 DEF Resume

(* The end of an attempt leaves the patches of the journal accepted.        *)
LEMMA FinishKeepsPatches ==
  ASSUME DispatchInv, NEW r \in Rows, NEW to \in Terminal, NEW reason,
         NEW patch \in Accepted \cup {NoRow}, FinishAttempt(r, to, reason, patch),
         to = "succeeded" => r \in Accepted, UNCHANGED <<approved, recovered, queued>>
  PROVE  PatchInv'
<1> USE DEF DispatchInv, DispatchTypeOK, JournalTypeOK, PatchInv, FinishAttempt
<1>1. Accepted' = Accepted
  BY DEF Accepted
<1>2. \A q \in Rows : outcome'[q].patch \in Accepted \cup {NoRow}
  BY DEF Ended
<1>3. marker'.patch \in Accepted \cup {NoRow} /\ (marker'.noted => marker'.patch # NoRow)
  BY RowsAssumption DEF Project, Projection
<1> QED BY <1>1, <1>2, <1>3

(* What a stored row calls for.                                             *)
LEMMA ReplaysWell ==
  ASSUME DispatchInv, NEW w \in Workers,
         \/ StartRow(w) \/ ReturnStored(w) \/ RecoverAnswer(w)
         \/ FinishStored(w) \/ SalvageRow(w) \/ DeferRow(w)
  PROVE  Good(w)
<1>1. worker[w] \in Locals /\ LocalInv(w) /\ Row(w) = worker[w].at /\ Row(w) \in Rows
  BY DEF DispatchInv, DispatchTypeOK, Locals, Row
<1>2. CASE StartRow(w)
  <2>1. Journal
    BY <1>1, <1>2 DEF StartRow, Journal, JournalStep
  <2>2. Grows /\ UNCHANGED <<raw, structured, failure, outcome, marker>>
    BY <1>2 DEF StartRow, Grows, verdictVars, historyVars, StartAttempt, journalVars, attemptVars
  <2>3. Own(w)
    BY <1>2, <2>2, GoesWell DEF StartRow, At, Steps
  <2> QED
    BY <1>2, <2>1, <2>2, <2>3 DEF StartRow, Good, PatchInv, RestTypeOK, DispatchInv,
       DispatchTypeOK, Accepted, sandboxVars, verdictVars, historyVars
<1>3. CASE ReturnStored(w)
  <2> DEFINE o == outcome[Row(w)]
  <2>1. /\ state[Row(w)] \in Terminal /\ o.reason \in Reasons \cup {"none"}
        /\ o.patch \in Rows \cup {NoRow} /\ o.patch \in Accepted \cup {NoRow}
    BY <1>1, <1>3 DEF ReturnStored, DispatchInv, DispatchTypeOK, JournalTypeOK, PatchInv
  <2>2. /\ EndAs(w, "decide", state[Row(w)], o.reason, o.patch, NoRow)
        /\ Accepted' = Accepted /\ Grows
    BY <1>3 DEF ReturnStored, Accepted, Grows, verdictVars, historyVars
  <2> HIDE DEF o
  <2>3. Own(w)
    BY <1>1, <2>1, <2>2, EndsWell
  <2> QED BY <1>3, <2>3, OnlyMoves DEF ReturnStored
<1>4. CASE RecoverAnswer(w)
  <2>1. job[Row(w)] \in Deliverables /\ RecoverLate(Row(w), job[Row(w)])
    BY <1>4 DEF RecoverAnswer, Answered
  <2>2. Journal
    BY <1>1, <2>1 DEF Journal, JournalStep
  <2>3. Grows /\ approved' = approved /\ recovered' = recovered \cup {Row(w)} /\ queued' = queued
    BY <1>4 DEF RecoverAnswer, Grows, verdictVars
  <2>4. failure[Row(w)].patch = Row(w)
    BY <1>1, <2>1 DEF RecoverLate, LateRecoverable, DispatchInv, PatchInv
  <2>5. Own(w)
    BY <1>1, <1>4, <2>3, <2>4, EndsWell DEF RecoverAnswer, Terminal, Reasons, Accepted
  <2>6. PatchInv'
    BY <1>1, <2>1, <2>3, <2>4 DEF RecoverLate, PatchInv, DispatchInv, DispatchTypeOK, JournalTypeOK,
       Accepted, Ended, Nothing, Projection
  <2> QED
    BY <1>1, <1>4, <2>2, <2>3, <2>5, <2>6 DEF RecoverAnswer, Good, RestTypeOK, DispatchInv,
       DispatchTypeOK, sandboxVars, verdictVars
<1>5. CASE FinishStored(w)
  <2> DEFINE to == IF structured[Row(w)] # "none" THEN "succeeded" ELSE "failed"
             reason == IF to = "succeeded" THEN "completed" ELSE failure[Row(w)].reason
  <2>1. /\ to \in Terminal /\ reason \in Reasons
        /\ to = "succeeded" => Row(w) \in Accepted
    BY <1>1, <1>5 DEF FinishStored, Finishable, Terminal, Reasons, DispatchInv, PatchInv
  <2>2. FinishAttempt(Row(w), to, reason, NoRow) /\ EndAs(w, "decide", to, reason, NoRow, NoRow)
    BY <1>5 DEF FinishStored
  <2> HIDE DEF to, reason
  <2>3. Journal
    BY <1>1, <2>1, <2>2 DEF Journal, JournalStep
  <2>4. Grows /\ UNCHANGED <<approved, recovered, queued>>
    BY <1>5 DEF FinishStored, Grows, verdictVars, historyVars
  <2>5. Own(w)
    BY <1>1, <2>1, <2>2, <2>4, EndsWell
  <2>6. PatchInv'
    BY <1>1, <2>1, <2>2, <2>4, FinishKeepsPatches
  <2> QED
    BY <1>5, <2>3, <2>4, <2>5, <2>6 DEF FinishStored, Good, RestTypeOK, DispatchInv,
       DispatchTypeOK, sandboxVars, verdictVars, historyVars
<1>6. CASE SalvageRow(w)
  <2>1. CASE state[Row(w)] = "cancelling"
    BY <1>6, <2>1, EscapesWell, OnlyMoves DEF SalvageRow
  <2>2. CASE state[Row(w)] # "cancelling"
    <3> DEFINE k == [worker[w] EXCEPT !.pc = "lookup", !.salvage = TRUE]
    <3>1. worker' = [worker EXCEPT ![w] = k]
      BY <1>6, <2>2 DEF SalvageRow
    <3>2. k \in Locals
      BY <1>1 DEF Locals, Steps
    <3>3. /\ k.pc = "lookup" /\ k.at = worker[w].at /\ k.end = worker[w].end
          /\ k.reply = worker[w].reply /\ k.result = worker[w].result
      BY <1>1 DEF Locals
    <3> HIDE DEF k
    <3>4. worker'[w] = k /\ Accepted' = Accepted /\ worker[w].pc = "start"
      BY <1>6, <3>1, <3>2, SetsWell DEF SalvageRow, At, Accepted, verdictVars, historyVars
    <3>5. LocalInv(w)'
      BY <1>1, <3>3, <3>4 DEF LocalInv
    <3>6. Own(w)
      BY <3>1, <3>2, <3>5, SetsWell DEF Own
    <3> QED BY <1>6, <3>6, OnlyMoves DEF SalvageRow
  <2> QED BY <2>1, <2>2
<1>7. CASE DeferRow(w)
  BY <1>7, LeavesWell, OnlyMoves DEF DeferRow
<1> QED BY <1>2, <1>3, <1>4, <1>5, <1>6, <1>7

(* The sandbox of an attempt: only its directory and its lease change.      *)
LEMMA BindsWell ==
  ASSUME DispatchInv, NEW w \in Workers,
         \/ LookupLease(w) \/ ReadManifest(w) \/ Clone(w) \/ PersistLease(w) \/ BindRuntime(w)
  PROVE  Good(w)
<1>1. /\ worker[w] \in Locals /\ Row(w) \in Rows
      /\ worker[w].held.status \in LeaseStatuses /\ worker[w].held.version \in Nat
      /\ lease[Row(w)] \in LeaseStatuses /\ version[Row(w)] \in Nat
      /\ dir \in [Rows -> {"absent", "partial", "ready"}]
  BY DEF DispatchInv, DispatchTypeOK, JournalTypeOK, Locals, Row
<1>2. /\ {"binding_failed", "allocation_failed"} \subseteq Reasons
      /\ {"allocated", "running", "retained"} \subseteq LeaseStatuses \ {"none"}
      /\ {"lookup", "manifest", "clone"} \subseteq Steps \ {"project"}
  BY DEF Reasons, LeaseStatuses, ActiveLease, TerminalLease, Steps
<1>3. Grows
  BY DEF LookupLease, ReadManifest, Clone, PersistLease, BindRuntime, Grows, verdictVars, historyVars
<1>4. worker[w].pc \in {"lookup", "manifest", "clone", "persist", "bind"}
  BY DEF LookupLease, ReadManifest, Clone, PersistLease, BindRuntime, At
<1>5. ASSUME NEW step \in {"manifest", "clone"}, Goto(w, step) PROVE Own(w)
  BY <1>2, <1>3, <1>4, <1>5, GoesWell
<1>6. ASSUME NEW reason \in {"binding_failed", "allocation_failed"}, NEW hint \in BOOLEAN,
             BindFailed(w, reason, hint)
      PROVE  Own(w)
  BY <1>2, <1>3, <1>6, BindFailsWell
<1>7. ASSUME NEW step \in {"persist", "bind", "context"}, NEW status \in LeaseStatuses,
             NEW v \in Nat, NEW fresh \in BOOLEAN, Hold(w, step, status, v, fresh)
      PROVE  Own(w)
  BY <1>3, <1>4, <1>7, HoldsWell
<1>8. CASE LookupLease(w)
  <2>1. \/ Goto(w, "manifest")
        \/ \E hint \in BOOLEAN : BindFailed(w, "binding_failed", hint)
        \/ Hold(w, "bind", "allocated", version[Row(w)], FALSE)
    BY <1>8 DEF LookupLease
  <2>2. Own(w)
    BY <1>1, <1>2, <1>5, <1>6, <1>7, <2>1
  <2>3. dir' \in [Rows -> {"absent", "partial", "ready"}] /\ UNCHANGED <<job, verdictVars, historyVars, crashes>>
    BY <1>1, <1>8 DEF LookupLease
  <2>4. CASE UNCHANGED journalVars
    BY <2>2, <2>3, <2>4, OnlyMovesDirectories
  <2>5. CASE UpdateLease(Row(w), version[Row(w)], "retained")
    BY <1>2, <2>2, <2>3, <2>5, OnlyLeases
  <2> QED BY <1>8, <2>4, <2>5 DEF LookupLease
<1>9. CASE ReadManifest(w)
  <2> DEFINE status == IF lease[Row(w)] = "none" THEN "allocated" ELSE lease[Row(w)]
  <2>1. status \in LeaseStatuses
    BY <1>1, <1>2
  <2>2. \/ Goto(w, "clone")
        \/ \E hint \in BOOLEAN : BindFailed(w, "binding_failed", hint)
        \/ Hold(w, "persist", status, 0, FALSE)
    BY <1>9 DEF ReadManifest
  <2> HIDE DEF status
  <2>3. Own(w)
    BY <1>5, <1>6, <1>7, <2>1, <2>2
  <2>4. dir' \in [Rows -> {"absent", "partial", "ready"}]
    BY <1>1, <1>9 DEF ReadManifest
  <2> QED BY <1>9, <2>3, <2>4, OnlyMovesDirectories DEF ReadManifest
<1>10. CASE Clone(w)
  <2>1. \/ Hold(w, "persist", "allocated", 0, TRUE)
        \/ BindFailed(w, "binding_failed", FALSE)
    BY <1>10 DEF Clone
  <2>2. Own(w)
    BY <1>2, <1>6, <1>7, <2>1
  <2>3. dir' \in [Rows -> {"absent", "partial", "ready"}]
    BY <1>1, <1>10 DEF Clone
  <2> QED BY <1>10, <2>2, <2>3, OnlyMovesDirectories DEF Clone
<1>11. CASE PersistLease(w)
  <2>1. dir' \in [Rows -> {"absent", "partial", "ready"}] /\ UNCHANGED <<job, verdictVars, historyVars, crashes>>
    BY <1>1, <1>11 DEF PersistLease
  <2>2. CASE AllocateLease(Row(w)) /\ Hold(w, "bind", worker[w].held.status, version[Row(w)], FALSE)
    <3>1. Own(w)
      BY <1>1, <1>7, <2>2
    <3> QED BY <1>2, <2>1, <2>2, <3>1, OnlyLeases
  <2>3. CASE BindFailed(w, "allocation_failed", LeaseConflict(Row(w))) /\ UNCHANGED journalVars
    <3>1. LeaseConflict(Row(w)) \in BOOLEAN
      BY DEF LeaseConflict
    <3>2. Own(w)
      BY <1>6, <2>3, <3>1
    <3> QED BY <2>1, <2>3, <3>2, OnlyMovesDirectories
  <2> QED BY <1>11, <2>2, <2>3 DEF PersistLease
<1>12. CASE BindRuntime(w)
  <2> DEFINE h == worker[w].held
  <2>1. dir' \in [Rows -> {"absent", "partial", "ready"}] /\ UNCHANGED <<job, verdictVars, historyVars, crashes>>
    BY <1>1, <1>12 DEF BindRuntime, sandboxVars
  <2>2. CASE UpdateLease(Row(w), h.version, "running") /\ Hold(w, "context", "running", h.version + 1, FALSE)
    <3>1. h.version + 1 \in Nat
      BY <1>1
    <3>2. Own(w)
      BY <1>2, <1>7, <2>2, <3>1
    <3> QED BY <1>2, <2>1, <2>2, <3>2, OnlyLeases
  <2>3. CASE /\ \E hint \in BOOLEAN : BindFailed(w, "binding_failed", hint)
             /\ UNCHANGED journalVars
    <3>1. Own(w)
      BY <1>6, <2>3
    <3> QED BY <2>1, <2>3, <3>1, OnlyMovesDirectories
  <2> QED BY <1>12, <2>2, <2>3 DEF BindRuntime
<1> QED BY <1>8, <1>9, <1>10, <1>11, <1>12

(* A step that moves its worker and writes the journal.                     *)
LEMMA OnlyWrites ==
  ASSUME DispatchInv, NEW w \in Workers, Own(w), NEW r \in Rows, JournalStep(r), PatchInv',
         UNCHANGED <<sandboxVars, verdictVars, historyVars, crashes>>
  PROVE  Good(w)
  BY DEF Good, Journal, Grows, RestTypeOK, DispatchInv, DispatchTypeOK, sandboxVars, verdictVars,
     historyVars

LEMMA ProgressIsGood ==
  ASSUME DispatchInv, NEW w \in Workers, Own(w), NEW r \in Rows,
         RecordRaw(r) \/ (\E to \in Live \ {"attempt_started"} : RecordProgress(r, to)),
         UNCHANGED <<sandboxVars, verdictVars, historyVars, crashes>>
  PROVE  Good(w)
<1>1. JournalStep(r)
  BY DEF JournalStep
<1>2. UNCHANGED <<structured, failure, outcome, marker>>
  BY DEF RecordRaw, RecordProgress
<1>3. PatchInv'
  BY <1>2 DEF PatchInv, DispatchInv, Accepted, verdictVars, historyVars
<1> QED BY <1>1, <1>3, OnlyWrites

(* One turn of the runtime, up to the recorded answer.                      *)
LEMMA TurnsWell ==
  ASSUME DispatchInv, NEW w \in Workers,
         \/ PreparePrompt(w) \/ RecordRequest(w) \/ Invoke(w)
         \/ \E reply \in Replies : Receive(w, reply)
         \/ RecordAnswer(w) \/ RecordResponse(w)
  PROVE  Good(w)
<1>1. worker[w] \in Locals /\ LocalInv(w) /\ Row(w) = worker[w].at /\ Row(w) \in Rows
  BY DEF DispatchInv, DispatchTypeOK, Locals, Row
<1>2. /\ {"request", "invoke", "wait", "raw", "response", "capture"} \subseteq Steps \ {"project"}
      /\ {"context_prepared", "runtime_invoking", "runtime_returned", "cancelling",
          "evidence_recording", "patch_capturing"} \subseteq Live \ {"attempt_started"}
      /\ {"context_materialization_failed", "cancelled", "provider_error"} \subseteq Reasons
      /\ {"cancelled", "failed"} \subseteq Terminal
  BY DEF Steps, Live, Reasons, Terminal
<1>3. Grows
  BY DEF PreparePrompt, RecordRequest, Invoke, Receive, RecordAnswer, RecordResponse, Grows,
     verdictVars, historyVars
<1>4. ASSUME NEW status \in {"cancelled", "failed"},
             NEW reason \in {"context_materialization_failed", "cancelled", "provider_error"},
             EndAs(w, "fail", status, reason, NoRow, NoRow)
      PROVE  Own(w)
  BY <1>2, <1>3, <1>4, EndsWell
<1>5. CASE PreparePrompt(w)
  <2>1. \/ Goto(w, "request") /\ RecordProgress(Row(w), "context_prepared")
        \/ EndAs(w, "fail", "failed", "context_materialization_failed", NoRow, NoRow) /\ UNCHANGED journalVars
    BY <1>5 DEF PreparePrompt
  <2>2. Own(w)
    BY <1>2, <1>3, <1>4, <1>5, <2>1, GoesWell DEF PreparePrompt, At
  <2> QED BY <1>1, <1>2, <1>5, <2>1, <2>2, OnlyMoves, ProgressIsGood DEF PreparePrompt
<1>6. CASE RecordRequest(w)
  <2>1. Own(w)
    BY <1>2, <1>3, <1>6, GoesWell DEF RecordRequest, At
  <2> QED BY <1>1, <1>2, <1>6, <2>1, ProgressIsGood DEF RecordRequest
<1>7. CASE Invoke(w)
  <2>1. Own(w)
    BY <1>2, <1>3, <1>7, GoesWell DEF Invoke, At
  <2>2. job' \in [Rows -> {"none", "running"} \cup Deliverables]
    BY <1>1, <1>7 DEF Invoke, DispatchInv, DispatchTypeOK
  <2> QED
    BY <1>3, <1>7, <2>1, <2>2 DEF Invoke, Good, Journal, PatchInv, RestTypeOK, DispatchInv,
       DispatchTypeOK, Accepted, journalVars, attemptVars, leaseVars, verdictVars, historyVars
<1>8. ASSUME NEW reply \in Replies, Receive(w, reply) PROVE Good(w)
  <2> DEFINE k == [worker[w] EXCEPT !.pc = "raw", !.reply = reply]
  <2>1. worker' = [worker EXCEPT ![w] = k] /\ worker[w].pc = "wait"
    BY <1>8 DEF Receive, At
  <2>2. k \in Locals /\ reply # "none"
    BY <1>1, RepliesAssumption DEF Locals, Steps, AllReplies
  <2>3. /\ k.pc = "raw" /\ k.at = worker[w].at /\ k.end = worker[w].end
        /\ k.reply = reply /\ k.result = worker[w].result
    BY <1>1 DEF Locals
  <2> HIDE DEF k
  <2>4. worker'[w] = k /\ Accepted' = Accepted
    BY <1>8, <2>1, <2>2, SetsWell DEF Receive, Accepted, verdictVars, historyVars
  <2>5. LocalInv(w)'
    BY <1>1, <2>1, <2>2, <2>3, <2>4 DEF LocalInv
  <2>6. Own(w)
    BY <2>1, <2>2, <2>5, SetsWell DEF Own
  <2>7. job' \in [Rows -> {"none", "running"} \cup Deliverables]
    BY <1>1, <1>8 DEF Receive, DispatchInv, DispatchTypeOK
  <2> QED
    BY <1>3, <1>8, <2>6, <2>7 DEF Receive, Good, Journal, PatchInv, RestTypeOK, DispatchInv,
       DispatchTypeOK, Accepted, journalVars, attemptVars, leaseVars, verdictVars, historyVars
<1>9. CASE RecordAnswer(w)
  <2>1. Own(w)
    BY <1>1, <1>2, <1>3, <1>9, GoesWell DEF RecordAnswer, At, LocalInv
  <2> QED BY <1>1, <1>9, <2>1, ProgressIsGood DEF RecordAnswer
<1>10. CASE RecordResponse(w)
  <2> DEFINE reply == worker[w].reply
  <2>1. RecordProgress(Row(w), StateOf(reply)) /\ worker[w].pc = "response" /\ reply # "none"
    BY <1>1, <1>10 DEF RecordResponse, At, LocalInv
  <2>2. StateOf(reply) \in Live \ {"attempt_started"}
    BY <1>2 DEF StateOf
  <2>3. \/ EndAs(w, "fail", "cancelled", "cancelled", NoRow, NoRow)
        \/ EndAs(w, "fail", "failed", "provider_error", NoRow, NoRow)
        \/ Goto(w, "capture")
    BY <1>10 DEF RecordResponse
  <2>4. Own(w)
    BY <1>2, <1>3, <1>4, <2>1, <2>3, GoesWell
  <2> QED BY <1>1, <1>10, <2>1, <2>2, <2>4, ProgressIsGood DEF RecordResponse
<1> QED BY <1>5, <1>6, <1>7, <1>8, <1>9, <1>10

(* The capture of the patch, its validation and the release of the sandbox. *)
LEMMA CapturesWell ==
  ASSUME DispatchInv, NEW w \in Workers, Capture(w) \/ Validate(w) \/ Retain(w)
  PROVE  Good(w)
<1>1. /\ worker[w] \in Locals /\ LocalInv(w) /\ Row(w) = worker[w].at /\ Row(w) \in Rows
      /\ worker[w].held.version \in Nat
  BY DEF DispatchInv, DispatchTypeOK, Locals, Row
<1>2. /\ {"validate", "retain", "fail", "structured"} \subseteq Steps \ {"project"}
      /\ {"captured", "failed", "poisoned", "retained"} \subseteq LeaseStatuses \ {"none"}
      /\ CaptureReasons \subseteq Reasons /\ "failed_capture" \in CaptureReasons
      /\ "rejected_capture" \in CaptureReasons
      /\ {"incomplete", "failed"} \subseteq Terminal
  BY DEF Steps, LeaseStatuses, TerminalLease, CaptureReasons, Reasons, Terminal
<1>3. Grows
  BY DEF Capture, Validate, Retain, Grows, verdictVars, historyVars
<1>4. worker[w].reply # "none" /\ worker[w].pc \in {"capture", "validate", "retain"}
  BY <1>1 DEF Capture, Validate, Retain, At, LocalInv
<1>5. ASSUME NEW reason \in CaptureReasons, NEW step \in {"fail", "retain"},
             EndAs(w, step, "incomplete", reason, NoRow, NoRow)
      PROVE  Own(w)
  BY <1>2, <1>3, <1>4, <1>5, EndsWell
<1>6. CASE Capture(w)
  <2>1. /\ dir' \in [Rows -> {"absent", "partial", "ready"}]
        /\ UNCHANGED <<job, verdictVars, historyVars, crashes>>
    BY <1>6 DEF Capture, sandboxVars, DispatchInv, DispatchTypeOK
  <2>2. CASE \E reason \in CaptureReasons : CaptureFailed(w, reason)
    <3>1. Own(w)
      BY <1>5, <2>2 DEF CaptureFailed
    <3>2. CASE UNCHANGED journalVars
      BY <2>1, <3>1, <3>2, OnlyMovesDirectories
    <3>3. ASSUME NEW to \in {"captured", "failed", "poisoned"},
                 UpdateLease(Row(w), worker[w].held.version, to)
          PROVE  Good(w)
      BY <1>2, <2>1, <3>1, <3>3, OnlyLeases
    <3> QED BY <1>6, <3>2, <3>3 DEF Capture
  <2>3. CASE /\ UpdateLease(Row(w), worker[w].held.version, "captured")
             /\ worker' = [worker EXCEPT ![w] =
                  [@ EXCEPT !.held.version = worker[w].held.version + 1,
                            !.pc = IF Returned(worker[w].reply) THEN "validate" ELSE "retain"]]
    <3> DEFINE v == worker[w].held.version + 1
               step == IF Returned(worker[w].reply) THEN "validate" ELSE "retain"
               k == [worker[w] EXCEPT !.held.version = v, !.pc = step]
    <3>1. v \in Nat /\ step \in Steps /\ (step = "validate" <=> Returned(worker[w].reply))
          /\ step \in {"validate", "retain"}
      BY <1>1, <1>2
    <3>2. worker' = [worker EXCEPT ![w] = k]
      BY <2>3
    <3> HIDE DEF v, step
    <3>3. k \in Locals
      BY <1>1, <3>1 DEF Locals
    <3>4. /\ k.pc = step /\ k.at = worker[w].at /\ k.end = worker[w].end
          /\ k.reply = worker[w].reply /\ k.result = worker[w].result
      BY <1>1, <3>1 DEF Locals
    <3> HIDE DEF k
    <3>5. worker'[w] = k /\ Accepted' = Accepted
      BY <2>1, <3>2, <3>3, SetsWell DEF Accepted, verdictVars, historyVars
    <3>6. LocalInv(w)'
      BY <1>1, <1>4, <3>1, <3>4, <3>5 DEF LocalInv
    <3>7. Own(w)
      BY <3>2, <3>3, <3>6, SetsWell DEF Own
    <3> QED BY <1>2, <2>1, <2>3, <3>7, OnlyLeases
  <2> QED BY <1>2, <1>6, <2>2, <2>3 DEF Capture
<1>7. CASE Validate(w)
  <2>1. Own(w)
    <3>1. CASE Goto(w, "retain") /\ approved' = approved \cup {Row(w)}
      BY <1>1, <1>2, <1>3, <1>4, <1>7, <3>1, GoesWell DEF Validate, At
    <3>2. CASE EndAs(w, "retain", "incomplete", "rejected_capture", NoRow, NoRow)
      BY <1>2, <1>5, <3>2
    <3> QED BY <1>7, <3>1, <3>2 DEF Validate
  <2> QED
    BY <1>1, <1>3, <1>7, <2>1 DEF Validate, Good, Journal, PatchInv, RestTypeOK, DispatchInv,
       DispatchTypeOK, Accepted, journalVars, attemptVars, leaseVars, sandboxVars, historyVars
<1>8. CASE Retain(w)
  <2>1. /\ dir' \in [Rows -> {"absent", "partial", "ready"}]
        /\ UNCHANGED <<job, verdictVars, historyVars, crashes>>
    BY <1>8 DEF Retain, sandboxVars, DispatchInv, DispatchTypeOK
  <2>2. worker[w].pc = "retain" /\ worker[w].reply \in AllReplies
    BY <1>1, <1>4, <1>8 DEF Retain, At, Locals
  <2>3. Own(w)
    <3>1. CASE Goto(w, "fail") /\ worker[w].end # NoEnd
      <4>1. worker[w].end.status # "none"
        BY <1>1, <3>1 DEF LocalInv
      <4> QED BY <1>2, <1>3, <2>2, <3>1, <4>1, GoesWell
    <3>2. CASE Goto(w, "structured") /\ worker[w].end = NoEnd /\ Returned(worker[w].reply)
      <4>1. worker[w].at \in approved'
        BY <1>1, <2>1, <2>2, <3>2 DEF LocalInv, verdictVars
      <4> QED BY <1>2, <1>3, <1>4, <2>2, <3>2, <4>1, GoesWell
    <3>3. CASE EndAs(w, "fail", "failed", ReasonOf(worker[w].reply), NoRow, Row(w))
      <4>1. ReasonOf(worker[w].reply) \in Reasons
        BY <2>2 DEF ReasonOf, AllReplies, Reasons, Returned
      <4> QED BY <1>1, <1>2, <1>3, <3>3, <4>1, EndsWell
    <3>4. CASE CaptureFailed(w, "failed_capture")
      BY <1>2, <1>5, <3>4 DEF CaptureFailed
    <3> QED BY <1>8, <3>1, <3>2, <3>3, <3>4 DEF Retain, AfterCapture
  <2>4. CASE UNCHANGED journalVars
    BY <2>1, <2>3, <2>4, OnlyMovesDirectories
  <2>5. CASE UpdateLease(Row(w), worker[w].held.version, "retained")
    BY <1>2, <2>1, <2>3, <2>5, OnlyLeases
  <2> QED BY <1>8, <2>4, <2>5 DEF Retain
<1> QED BY <1>6, <1>7, <1>8

(* The end of the attempt, or an exception on the way.                      *)
LEMMA AttemptsEndWell ==
  ASSUME DispatchInv, NEW w \in Workers,
         \/ StructuredOutput(w) \/ RuntimeFailure(w) \/ Finish(w) \/ StoreRaises(w)
  PROVE  Good(w)
<1>1. /\ worker[w] \in Locals /\ LocalInv(w) /\ Row(w) = worker[w].at /\ Row(w) \in Rows
      /\ worker[w].end.status \in Terminal \cup {"none"}
      /\ worker[w].reply \in AllReplies \cup {"none"}
  BY DEF DispatchInv, DispatchTypeOK, Locals, Row
<1>2. /\ {"fail", "finish", "decide"} \subseteq Steps \ {"project"}
      /\ {"failed", "succeeded"} \subseteq Terminal
      /\ {"structured_output_invalid", "completed"} \subseteq Reasons
  BY DEF Steps, Terminal, Reasons
<1>3. Grows /\ UNCHANGED <<approved, recovered, queued>>
  BY DEF StructuredOutput, RuntimeFailure, Finish, StoreRaises, Grows, verdictVars, historyVars
<1>4. CASE StructuredOutput(w)
  <2>1. /\ RecordStructured(Row(w), worker[w].reply) /\ Returned(worker[w].reply)
        /\ Row(w) \in approved
    BY <1>1, <1>4 DEF StructuredOutput, At, LocalInv
  <2>2. JournalStep(Row(w))
    BY <2>1 DEF JournalStep, Returned, Deliverables
  <2>3. PatchInv'
    BY <1>1, <1>3, <2>1 DEF RecordStructured, PatchInv, DispatchInv, DispatchTypeOK, JournalTypeOK,
       Accepted
  <2>4. Own(w)
    <3>1. CASE EndAs(w, "fail", "failed", "structured_output_invalid", NoRow, NoRow)
      BY <1>2, <1>3, <3>1, EndsWell
    <3>2. CASE EndAs(w, "finish", "succeeded", "completed", Row(w), NoRow)
      <4>1. worker[w].at \in Accepted' /\ worker[w].at \in Rows
        BY <1>1, <1>3, <2>1 DEF Accepted
      <4> QED BY <1>1, <1>2, <1>3, <3>2, <4>1, EndsWell
    <3> QED BY <1>4, <3>1, <3>2 DEF StructuredOutput
  <2> QED BY <1>1, <1>4, <2>2, <2>3, <2>4, OnlyWrites DEF StructuredOutput
<1>5. CASE RuntimeFailure(w)
  <2> DEFINE e == worker[w].end
  <2>1. /\ RecordFailure(Row(w), e.reason, e.evidence) /\ e.reason \in Reasons
        /\ e.evidence \in {NoRow, Row(w)} /\ worker[w].pc = "fail" /\ e.status # "none"
    BY <1>1, <1>5 DEF RuntimeFailure, At, LocalInv
  <2>2. e.status # "succeeded"
    BY <1>1, <2>1 DEF LocalInv
  <2>3. JournalStep(Row(w))
    BY <2>1 DEF JournalStep
  <2>4. PatchInv'
    BY <1>1, <1>3, <2>1 DEF RecordFailure, PatchInv, DispatchInv, DispatchTypeOK, JournalTypeOK,
       Accepted, Ended
  <2>5. Own(w)
    BY <1>2, <1>3, <1>5, <2>1, <2>2, GoesWell DEF RuntimeFailure
  <2> QED BY <1>1, <1>5, <2>3, <2>4, <2>5, OnlyWrites DEF RuntimeFailure
<1>6. CASE Finish(w)
  <2> DEFINE e == worker[w].end
  <2>1. /\ worker[w].pc = "finish" /\ e.status \in Terminal /\ e.reason \in Reasons
        /\ e.patch \in {NoRow, Row(w)} /\ e.patch \in Accepted \cup {NoRow}
        /\ e.status = "succeeded" => Row(w) \in Accepted
    BY <1>1, <1>6 DEF Finish, At, LocalInv
  <2>2. Own(w)
    <3>1. CASE Deliver(w, structured'[Row(w)], {Row(w)}) /\ e.status = "succeeded"
      <4>1. structured' = structured
        BY <1>6 DEF Finish, FinishAttempt, journalVars, attemptVars
      <4>2. structured'[Row(w)] \in Deliverables \cup {"none"}
        BY <1>1, <4>1 DEF DispatchInv, DispatchTypeOK, JournalTypeOK
      <4>3. {Row(w)} \in SUBSET Rows /\ {Row(w)} \subseteq Accepted'
        BY <1>1, <1>3, <2>1, <3>1 DEF Accepted
      <4> QED BY <3>1, <4>2, <4>3, DeliversWell
    <3>2. CASE Goto(w, "decide")
      BY <1>2, <1>3, <2>1, <3>2, GoesWell DEF Terminal
    <3> QED BY <1>6, <3>1, <3>2 DEF Finish
  <2>3. CASE FinishAttempt(Row(w), e.status, e.reason, e.patch)
    <3>1. JournalStep(Row(w))
      BY <2>1, <2>3 DEF JournalStep
    <3>2. PatchInv'
      BY <1>1, <1>3, <2>1, <2>3, FinishKeepsPatches
    <3> QED BY <1>1, <1>6, <2>2, <3>1, <3>2, OnlyWrites DEF Finish
  <2>4. CASE UNCHANGED journalVars
    BY <1>6, <2>2, <2>4, OnlyMoves DEF Finish
  <2> QED BY <1>6, <2>3, <2>4 DEF Finish
<1>7. CASE StoreRaises(w)
  <2>1. Own(w)
    BY <1>7, EscapesWell DEF StoreRaises
  <2>2. crashes' \in 0 .. MaxCrashes
    BY <1>7, RetriesAssumption DEF StoreRaises, DispatchInv, DispatchTypeOK
  <2> QED
    BY <1>3, <1>7, <2>1, <2>2 DEF StoreRaises, Good, Journal, PatchInv, RestTypeOK, DispatchInv,
       DispatchTypeOK, Accepted, journalVars, attemptVars, leaseVars, sandboxVars, verdictVars, historyVars
<1> QED BY <1>4, <1>5, <1>6, <1>7

(* What the group makes of an outcome.                                      *)
LEMMA DecidesWell ==
  ASSUME DispatchInv, NEW w \in Workers,
         \/ DeliverStored(w) \/ Retry(w) \/ Blocked(w) \/ Revalidate(w) \/ ProjectResult(w)
         \/ Enqueue(w) \/ Crash(w)
  PROVE  Good(w)
<1>1. /\ worker[w] \in Locals /\ LocalInv(w) /\ Row(w) = worker[w].at /\ Row(w) \in Rows
      /\ worker[w].end.patch \in Rows \cup {NoRow} /\ worker[w].end.patch \in Accepted \cup {NoRow}
      /\ worker[w].result.patches \in SUBSET Rows
  BY DEF DispatchInv, DispatchTypeOK, Locals, Row, LocalInv
<1>2. CASE DeliverStored(w)
  <2> DEFINE P == {marker.patch, worker[w].end.patch} \ {NoRow}
  <2>1. marker.patch \in Rows \cup {NoRow} /\ marker.patch \in Accepted \cup {NoRow}
        /\ marker.status \in Deliverables \cup {"none"}
    BY DEF DispatchInv, DispatchTypeOK, JournalTypeOK, PatchInv
  <2>2. Accepted' = Accepted
    BY <1>2 DEF DeliverStored, Accepted, verdictVars, historyVars
  <2>3. P \in SUBSET Rows /\ P \subseteq Accepted'
    BY <1>1, <2>1, <2>2
  <2>4. Own(w)
    BY <1>2, <2>1, <2>3, DeliversWell DEF DeliverStored
  <2> QED BY <1>2, <2>4, OnlyMoves DEF DeliverStored
<1>3. CASE Retry(w)
  BY <1>3, NextAttemptsWell, OnlyMoves DEF Retry
<1>4. CASE Blocked(w)
  BY <1>4, LeavesWell, OnlyMoves DEF Blocked
<1>5. CASE Revalidate(w)
  <2> DEFINE e == [worker[w].end EXCEPT !.patch = rejected]
             k == [worker[w] EXCEPT !.pc = "project", !.end = e]
  <2>1. /\ worker[w].pc = "decide" /\ worker[w].end.reason = "rejected_capture"
        /\ worker[w].end.status # "none" /\ rejected \in Rows
        /\ approved' = approved \cup {rejected}
    BY <1>1, <1>5 DEF Revalidate, At, LocalInv, DispatchInv, DispatchTypeOK
  <2>2. worker' = [worker EXCEPT ![w] = k]
    <3>1. [worker[w] EXCEPT !.pc = "project", !.end.patch = rejected] = k
      BY <1>1 DEF Locals
    <3> QED BY <1>5, <3>1 DEF Revalidate
  <2>3. /\ e \in [status : Terminal \cup {"none"}, reason : Reasons \cup {"none"},
                  patch : Rows \cup {NoRow}, evidence : Rows \cup {NoRow}]
        /\ e.status = worker[w].end.status /\ e.reason = "rejected_capture"
        /\ e.patch = rejected /\ e.evidence = worker[w].end.evidence
    BY <1>1, <2>1 DEF Locals
  <2> HIDE DEF e
  <2>4. k \in Locals
    BY <1>1, <2>3 DEF Locals, Steps
  <2>5. /\ k.pc = "project" /\ k.at = worker[w].at /\ k.end = e
        /\ k.reply = worker[w].reply /\ k.result = worker[w].result
    BY <1>1 DEF Locals
  <2> HIDE DEF k
  <2>6. worker'[w] = k /\ Accepted \subseteq Accepted' /\ rejected \in Accepted' /\ Grows
    BY <1>5, <2>1, <2>2, <2>4, SetsWell DEF Revalidate, Accepted, Grows, historyVars
  <2>7. rejected # NoRow /\ "rejected_capture" \in Reasons
    BY <2>1, RowsAssumption DEF Reasons
  <2>8. LocalInv(w)'
    BY <1>1, <2>1, <2>3, <2>5, <2>6, <2>7 DEF LocalInv
  <2>9. Own(w)
    BY <2>2, <2>4, <2>8, SetsWell DEF Own
  <2> QED
    BY <1>5, <2>1, <2>6, <2>9 DEF Revalidate, Good, Journal, PatchInv, RestTypeOK, DispatchInv,
       DispatchTypeOK, Accepted, journalVars, attemptVars, leaseVars, sandboxVars, historyVars
<1>6. CASE ProjectResult(w)
  <2> DEFINE patch == worker[w].end.patch
  <2>1. patch \in Rows /\ patch \in Accepted
    BY <1>1, <1>6 DEF ProjectResult, At, LocalInv
  <2>2. ProjectRevalidated(Row(w), patch) /\ Deliver(w, "completed", {patch})
    BY <1>6 DEF ProjectResult
  <2> HIDE DEF patch
  <2>3. JournalStep(Row(w))
    BY <2>1, <2>2 DEF JournalStep
  <2>4. Accepted' = Accepted /\ queued' = queued
    BY <1>6 DEF ProjectResult, Accepted, verdictVars, historyVars
  <2>5. PatchInv'
    BY <2>1, <2>2, <2>4, RowsAssumption DEF ProjectRevalidated, Projection, PatchInv, DispatchInv
  <2>6. {patch} \in SUBSET Rows /\ {patch} \subseteq Accepted' /\ "completed" \in Deliverables \cup {"none"}
    BY <2>1, <2>4 DEF Deliverables
  <2>7. Own(w)
    BY <2>2, <2>6, DeliversWell
  <2> QED BY <1>1, <1>6, <2>3, <2>5, <2>7, OnlyWrites DEF ProjectResult
<1>7. CASE Enqueue(w)
  <2>1. Own(w)
    BY <1>7, LeavesWell DEF Enqueue
  <2>2. Grows /\ UNCHANGED <<approved, recovered, journalVars>> /\ queued' \subseteq Rows
        /\ queued' \subseteq queued \cup worker[w].result.patches
    BY <1>1, <1>7 DEF Enqueue, Grows, verdictVars, DispatchInv, DispatchTypeOK
  <2>3. worker[w].result.patches \subseteq Accepted
    BY <1>1 DEF LocalInv
  <2> QED
    BY <1>7, <2>1, <2>2, <2>3 DEF Enqueue, Good, Journal, PatchInv, RestTypeOK, DispatchInv,
       DispatchTypeOK, Accepted, journalVars, attemptVars, leaseVars, sandboxVars, verdictVars
<1>8. CASE Crash(w)
  <2>1. Own(w)
    BY <1>8, LeavesWell DEF Crash
  <2>2. crashes' \in 0 .. MaxCrashes
    BY <1>8, RetriesAssumption DEF Crash, DispatchInv, DispatchTypeOK
  <2> QED
    BY <1>8, <2>1, <2>2 DEF Crash, Good, Journal, PatchInv, Grows, RestTypeOK, DispatchInv,
       DispatchTypeOK, Accepted, journalVars, attemptVars, leaseVars, sandboxVars, verdictVars,
       historyVars
<1> QED BY <1>2, <1>3, <1>4, <1>5, <1>6, <1>7, <1>8

----------------------------------------------------------------------------
LEMMA WorkersGood ==
  ASSUME DispatchInv, NEW w \in Workers, Resume(w) \/ Attempt(w) \/ StoreRaises(w) \/ Crash(w)
  PROVE  Good(w)
  BY ResumesWell, ReplaysWell, BindsWell, TurnsWell, CapturesWell, AttemptsEndWell, DecidesWell
     DEF Attempt

LEMMA StepKeepsInv ==
  ASSUME DispatchInv, [Next]_dispatchVars
  PROVE  DispatchInv' /\ Journal
<1>1. ASSUME NEW w \in Workers, Resume(w) \/ Attempt(w) \/ StoreRaises(w) \/ Crash(w)
      PROVE  DispatchInv' /\ Journal
  BY <1>1, WorkersGood, GoodIsEnough DEF Good
<1>2. ASSUME NEW r \in Rows, JobAnswers(r) PROVE DispatchInv' /\ Journal
  <2>1. job' \in [Rows -> {"none", "running"} \cup Deliverables]
    BY <1>2 DEF JobAnswers, DispatchInv, DispatchTypeOK
  <2> QED
    BY <1>2, <2>1 DEF JobAnswers, Journal, DispatchInv, DispatchTypeOK, JournalTypeOK, PatchInv,
       LocalInv, Accepted, journalVars, attemptVars, leaseVars, verdictVars, historyVars
<1>3. CASE UNCHANGED dispatchVars
  BY <1>3 DEF dispatchVars, Journal, DispatchInv, DispatchTypeOK, JournalTypeOK, PatchInv, LocalInv,
     Accepted, journalVars, attemptVars, leaseVars, sandboxVars, verdictVars, historyVars
<1> QED BY <1>1, <1>2, <1>3 DEF Next

LEMMA InitIsGood == DispatchInit => DispatchInv
<1> SUFFICES ASSUME DispatchInit PROVE DispatchInv
  OBVIOUS
<1>1. JournalTypeOK
  BY RowsAssumption DEF DispatchInit, JournalInit, JournalTypeOK, Nothing, Ended, NoMarker, Projection,
     States, LeaseStatuses
<1>2. worker \in [Workers -> Locals]
  BY IdleIsLocal DEF DispatchInit
<1>3. \A w \in Workers : LocalInv(w)
  BY DEF DispatchInit, LocalInv, Idle, NoEnd, NoResult, Accepted
<1>4. PatchInv
  BY DEF DispatchInit, JournalInit, PatchInv, Accepted, Nothing, Ended, NoMarker, Projection
<1>5. counted \in BOOLEAN
  BY DEF DispatchInit
<1>6. crashes \in 0 .. MaxCrashes
  BY RetriesAssumption DEF DispatchInit
<1>7. /\ dir \in [Rows -> {"absent", "partial", "ready"}]
      /\ job \in [Rows -> {"none", "running"} \cup Deliverables]
      /\ verdict \in {"none", "approved", "rejected"}
      /\ approved \subseteq Rows /\ rejected \in Rows \cup {NoRow}
      /\ queued \subseteq Rows /\ recovered \subseteq Rows
  BY DEF DispatchInit
<1> QED BY <1>1, <1>2, <1>3, <1>4, <1>5, <1>6, <1>7 DEF DispatchInv, DispatchTypeOK

(* Type correctness and the inductive invariant, for any number of workers, *)
(* retries, replies and crashes.                                            *)
THEOREM DispatchInvariant == Spec => []DispatchInv
  BY InitIsGood, StepKeepsInv, PTL DEF Spec

(* The journal, the workers' variables and the sandboxes keep their domains. *)
THEOREM DispatchTyped == Spec => []DispatchTypeOK
<1>1. DispatchInv => DispatchTypeOK
  BY DEF DispatchInv
<1> QED BY <1>1, DispatchInvariant, PTL

(* Every patch given to the durable merge queue has an approved contract    *)
(* verdict or is the recovered patch of a timed-out turn.                   *)
THEOREM QueuedIsApproved == Spec => []EnqueuedPatchIsApproved
<1>1. DispatchInv => EnqueuedPatchIsApproved
  BY DEF DispatchInv, PatchInv, EnqueuedPatchIsApproved, Accepted
<1> QED BY <1>1, DispatchInvariant, PTL

(* The dispatcher implements the journal: each step of a worker is a step   *)
(* of one store method on one row, or leaves the journal alone.             *)
THEOREM DispatchImplementsJournal == Spec => JournalSpec
<1>1. DispatchInit => JournalInit
  BY DEF DispatchInit
<1>2. DispatchInv /\ [Next]_dispatchVars => [\E r \in Rows : JournalStep(r)]_journalVars
  BY StepKeepsInv DEF Journal
<1> QED BY <1>1, <1>2, DispatchInvariant, PTL DEF Spec, JournalSpec

(* So what the journal guarantees whoever calls it holds of the dispatcher: *)
(* attempts end once, progress is monotone, leases are not reopened and the *)
(* projection is backed.                                                    *)
THEOREM DispatchKeepsJournal ==
  Spec => AttemptEndsOnce /\ ProgressIsMonotone /\ LeaseNeverReopens /\ []MarkerIsBacked
  BY DispatchImplementsJournal, JournalEndsOnce, JournalMovesOn, JournalKeepsLeases,
     JournalBacksMarker, PTL

----------------------------------------------------------------------------
(* A marker without the note is the projection of a late answer, and only   *)
(* such a marker is counted as done.                                        *)
LateInv ==
  /\ marker # NoMarker /\ ~marker.noted => recovered # {}
  /\ counted => recovered # {}

LEMMA LateSteps == LateInv /\ [Next]_dispatchVars => LateInv'
<1> SUFFICES ASSUME LateInv, [Next]_dispatchVars PROVE LateInv'
  OBVIOUS
<1> DEFINE Same == UNCHANGED <<marker, counted, recovered>>
<1>1. Same => LateInv'
  BY DEF LateInv, NoMarker, Projection
<1>2. ASSUME NEW w \in Workers, Resume(w) PROVE LateInv'
  <2>1. CASE ResumeQueued(w) \/ ResumeDispatch(w)
    BY <1>1, <2>1 DEF ResumeQueued, ResumeDispatch, journalVars, attemptVars, historyVars
  <2>2. CASE ResumeCounted(w)
    BY <2>2 DEF ResumeCounted, MarkerCounts, LateInv, NoMarker, Projection, journalVars, attemptVars
  <2>3. CASE Recovered(w) \/ \E r \in Rows : RecoverLease(w, r)
    BY <1>1, <2>3 DEF Recovered, RecoverLease, AllocateLease, UpdateLease, journalVars,
                      attemptVars, historyVars
  <2>4. QED BY <1>2, <2>1, <2>2, <2>3 DEF Resume
<1>3. ASSUME NEW w \in Workers, Attempt(w) PROVE LateInv'
  <2>1. CASE RecoverAnswer(w)
    <3>1. recovered' # {}
      BY <2>1 DEF RecoverAnswer
    <3>2. QED BY <3>1 DEF LateInv
  <2>2. CASE FinishStored(w) \/ Finish(w) \/ ProjectResult(w)
    <3>1. UNCHANGED <<counted, recovered>>
      BY <2>2 DEF FinishStored, Finish, ProjectResult, historyVars
    <3>2. marker' = marker \/ marker'.noted
      BY <2>2 DEF FinishStored, Finish, ProjectResult, FinishAttempt, ProjectRevalidated, Project,
                  Projection, journalVars, attemptVars
    <3>3. QED BY <3>1, <3>2 DEF LateInv, NoMarker, Projection
  <2>3. CASE StartRow(w) \/ ReturnStored(w) \/ SalvageRow(w) \/ DeferRow(w)
    BY <1>1, <2>3 DEF StartRow, StartAttempt, ReturnStored, SalvageRow, DeferRow,
                      journalVars, attemptVars, historyVars
  <2>4. CASE LookupLease(w) \/ ReadManifest(w) \/ Clone(w) \/ PersistLease(w) \/ BindRuntime(w)
    BY <1>1, <2>4 DEF LookupLease, ReadManifest, Clone, PersistLease, BindRuntime, UpdateLease,
                      AllocateLease, journalVars, attemptVars, historyVars
  <2>5. CASE PreparePrompt(w) \/ RecordRequest(w) \/ Invoke(w) \/ RecordAnswer(w) \/ RecordResponse(w)
    BY <1>1, <2>5 DEF PreparePrompt, RecordRequest, Invoke, RecordAnswer, RecordResponse,
                      RecordProgress, RecordRaw, journalVars, attemptVars, historyVars
  <2>6. CASE \E reply \in Replies : Receive(w, reply)
    BY <1>1, <2>6 DEF Receive, journalVars, attemptVars, historyVars
  <2>7. CASE Capture(w) \/ Validate(w) \/ Retain(w)
    BY <1>1, <2>7 DEF Capture, Validate, Retain, UpdateLease, journalVars, attemptVars, historyVars
  <2>8. CASE StructuredOutput(w) \/ RuntimeFailure(w)
    BY <1>1, <2>8 DEF StructuredOutput, RuntimeFailure, RecordStructured, RecordFailure,
                      historyVars
  <2>9. CASE DeliverStored(w) \/ Retry(w) \/ Blocked(w) \/ Revalidate(w) \/ Enqueue(w)
    BY <1>1, <2>9 DEF DeliverStored, Retry, Blocked, Revalidate, Enqueue,
                      journalVars, attemptVars, historyVars
  <2>10. QED BY <1>3, <2>1, <2>2, <2>3, <2>4, <2>5, <2>6, <2>7, <2>8, <2>9 DEF Attempt
<1>4. ASSUME NEW w \in Workers, StoreRaises(w) \/ Crash(w) PROVE LateInv'
  BY <1>1, <1>4 DEF StoreRaises, Crash, journalVars, attemptVars, historyVars
<1>5. ASSUME NEW r \in Rows, JobAnswers(r) PROVE LateInv'
  BY <1>1, <1>5 DEF JobAnswers, journalVars, attemptVars, historyVars
<1>6. CASE UNCHANGED dispatchVars
  BY <1>1, <1>6 DEF dispatchVars, journalVars, attemptVars, historyVars
<1>7. QED BY <1>2, <1>3, <1>4, <1>5, <1>6 DEF Next

(* Whatever the number of workers, retries and crashes, a resume only skips *)
(* the merge queue for an answer recovered late.                            *)
THEOREM OnlyLateIsCounted == Spec => []CountedMarkerIsLate
<1>1. DispatchInit => LateInv
  BY DEF DispatchInit, JournalInit, LateInv
<1>2. LateInv => CountedMarkerIsLate
  BY DEF LateInv, CountedMarkerIsLate
<1> QED BY <1>1, <1>2, LateSteps, PTL DEF Spec

----------------------------------------------------------------------------
(* What holds when the group is resumed by one process at a time.           *)
Solo == \A v, w \in Workers : v = w

(* Where a worker is about to clear the directory of its row away, ...      *)
Clearing == {"manifest", "clone", "persist"}

(* ... the lease of the row retains nothing.                                *)
ClearsInv(w) == worker[w].pc \in Clearing => lease[Row(w)] \in {"none"} \cup Reusable

(* A success has ended as completed, in the journal and in memory.          *)
RowSucceeds(r)    == state[r] = "succeeded" => outcome[r].reason = "completed"
WorkerSucceeds(w) == worker[w].end.status = "succeeded" => worker[w].end.reason = "completed"

(* Where a worker only hands on what is projected already.                  *)
HandsOn(w) ==
  LET k == worker[w] IN
  \/ k.pc \in {"idle", "resume", "enqueue"}
  \/ k.pc = "start" /\ k.at = latest /\ k.last = latest
  \/ k.pc = "decide" /\ k.end.status = "succeeded"

(* With a completed marker a resume replays the row that was projected, and *)
(* nobody is about to project another.                                      *)
MarkerStands ==
  marker.status = "completed" =>
    /\ marker.noted \/ SucceededLast
    /\ \A w \in Workers : HandsOn(w) /\ (worker[w].pc = "start" => SucceededLast)

(* The inductive invariant.                                                 *)
SoloInv ==
  /\ \A r \in Rows : RowSucceeds(r)
  /\ \A w \in Workers : ClearsInv(w) /\ WorkerSucceeds(w)
  /\ MarkerStands

(* The ways a worker moves: what they leave it with.                        *)
LEMMA GoesTo ==
  ASSUME DispatchInv, NEW w \in Workers, NEW step, Goto(w, step)
  PROVE  worker'[w].pc = step /\ worker'[w].at = worker[w].at /\ worker'[w].end = worker[w].end
  BY DEF DispatchInv, DispatchTypeOK, Locals, Goto

LEMMA HoldsTo ==
  ASSUME DispatchInv, NEW w \in Workers, NEW step, NEW status, NEW v, NEW fresh,
         Hold(w, step, status, v, fresh)
  PROVE  worker'[w].pc = step /\ worker'[w].at = worker[w].at /\ worker'[w].end = worker[w].end
  BY DEF DispatchInv, DispatchTypeOK, Locals, Hold

LEMMA EndsTo ==
  ASSUME DispatchInv, NEW w \in Workers, NEW step, NEW status, NEW reason, NEW patch, NEW evidence,
         EndAs(w, step, status, reason, patch, evidence)
  PROVE  /\ worker'[w].pc = step
         /\ worker'[w].end.status = status /\ worker'[w].end.reason = reason
  BY DEF DispatchInv, DispatchTypeOK, Locals, EndAs

LEMMA BindFailsTo ==
  ASSUME DispatchInv, NEW w \in Workers, NEW reason, NEW hint, BindFailed(w, reason, hint)
  PROVE  worker'[w].pc = "fail" /\ worker'[w].end.status \in {"incomplete", "failed"}
<1>1. worker[w] \in Locals /\ worker \in [Workers -> Locals]
  BY DEF DispatchInv, DispatchTypeOK
<1>2. PICK end \in {[NoEnd EXCEPT !.status = "incomplete", !.reason = "process_failed"],
                    [NoEnd EXCEPT !.status = "failed", !.reason = reason]} :
        worker' = [worker EXCEPT ![w] = [@ EXCEPT !.pc = "fail", !.hint = hint, !.end = end]]
  BY DEF BindFailed
<1>3. end.status \in {"incomplete", "failed"}
  BY DEF NoEnd
<1> QED BY <1>1, <1>2, <1>3 DEF Locals

LEMMA DeliversTo ==
  ASSUME DispatchInv, NEW w \in Workers, NEW status, NEW patches, Deliver(w, status, patches)
  PROVE  worker'[w].pc = "enqueue" /\ worker'[w].end.status = "none"
  BY DEF DispatchInv, DispatchTypeOK, Deliver, Idle, NoEnd

LEMMA LeavesTo ==
  ASSUME DispatchInv, NEW w \in Workers, Leave(w)
  PROVE  worker'[w].pc = "idle" /\ worker'[w].end.status = "none"
  BY DEF DispatchInv, DispatchTypeOK, Leave, Idle, NoEnd

LEMMA NextAttemptsTo ==
  ASSUME DispatchInv, NEW w \in Workers, NextAttempt(w)
  PROVE  /\ \/ worker'[w].pc = "idle"
            \/ worker'[w].pc = "start" /\ worker[w].at < worker[w].last
         /\ worker'[w].end.status = "none"
  BY DEF DispatchInv, DispatchTypeOK, NextAttempt, Idle, NoEnd

LEMMA EscapesTo ==
  ASSUME DispatchInv, NEW w \in Workers, Escape(w)
  PROVE  /\ \/ worker'[w].pc = "idle"
            \/ worker'[w].pc = "start" /\ worker[w].at < worker[w].last
         /\ worker'[w].end.status = "none"
  BY LeavesTo, NextAttemptsTo DEF Escape

(* The directory of a retained lease stays, and a directory is only cleared *)
(* away while the lease says so.                                            *)
Stays(w) == /\ ClearsInv(w)'
            /\ \A r \in Rows : lease[r] = "retained" /\ dir[r] = "ready" => dir'[r] = "ready"

(* Most steps leave the directories alone and do not come near clearing.    *)
LEMMA StaysAway ==
  ASSUME NEW w \in Workers, UNCHANGED dir, worker'[w].pc \notin Clearing
  PROVE  Stays(w)
  BY DEF Stays, ClearsInv

LEMMA BindStays ==
  ASSUME DispatchInv, NEW w \in Workers, ClearsInv(w),
         LookupLease(w) \/ ReadManifest(w) \/ Clone(w) \/ PersistLease(w) \/ BindRuntime(w)
  PROVE  Stays(w)
<1> DEFINE r == Row(w)
<1>1. r \in Rows /\ dir \in [Rows -> {"absent", "partial", "ready"}] /\ lease[r] \in LeaseStatuses
  BY DEF DispatchInv, DispatchTypeOK, JournalTypeOK, Locals, Row
<1>2. "fail" \notin Clearing /\ "bind" \notin Clearing /\ "context" \notin Clearing
  BY DEF Clearing
<1>3. CASE LookupLease(w)
  <2>1. CASE lease[r] = "none" /\ Goto(w, "manifest") /\ UNCHANGED <<journalVars, dir>>
    BY <2>1, GoesTo DEF Stays, ClearsInv, Row, journalVars, leaseVars
  <2>2. CASE lease[r] \in Reusable /\ dir' = [dir EXCEPT ![r] = "absent"]
             /\ Goto(w, "manifest") /\ UNCHANGED journalVars
    BY <1>1, <2>2, GoesTo DEF Stays, ClearsInv, Row, Reusable, journalVars, leaseVars
  <2>3. CASE UNCHANGED dir /\ worker'[w].pc \notin Clearing
    BY <2>3, StaysAway
  <2> QED
    BY <1>2, <1>3, <2>1, <2>2, <2>3, BindFailsTo, HoldsTo DEF LookupLease
<1>4. CASE ReadManifest(w)
  <2>1. lease[r] \in {"none"} \cup Reusable /\ UNCHANGED lease /\ lease[r] # "retained"
    BY <1>4 DEF ReadManifest, At, ClearsInv, Clearing, Reusable, journalVars, leaseVars
  <2>2. CASE UNCHANGED dir /\ (\E status : Hold(w, "persist", status, 0, FALSE))
    BY <2>1, <2>2, HoldsTo DEF Stays, ClearsInv, Row
  <2>3. CASE \E reason, hint : BindFailed(w, reason, hint) /\ dir' = [dir EXCEPT ![r] = "absent"]
    BY <1>1, <1>2, <2>1, <2>3, BindFailsTo DEF Stays, ClearsInv
  <2>4. CASE dir' = [dir EXCEPT ![r] = "partial"] /\ Goto(w, "clone")
    BY <1>1, <2>1, <2>4, GoesTo DEF Stays, ClearsInv, Row
  <2>5. CASE UNCHANGED dir /\ worker'[w].pc \notin Clearing
    BY <2>5, StaysAway
  <2> QED BY <1>2, <1>4, <2>2, <2>3, <2>4, <2>5, BindFailsTo DEF ReadManifest
<1>5. CASE Clone(w)
  <2>1. lease[r] \in {"none"} \cup Reusable /\ UNCHANGED lease /\ lease[r] # "retained"
    BY <1>5 DEF Clone, At, ClearsInv, Clearing, Reusable, journalVars, leaseVars
  <2>2. CASE dir' = [dir EXCEPT ![r] = "ready"] /\ Hold(w, "persist", "allocated", 0, TRUE)
    BY <1>1, <2>1, <2>2, HoldsTo DEF Stays, ClearsInv, Row
  <2>3. CASE /\ dir' = [dir EXCEPT ![r] = IF @ = "partial" THEN "absent" ELSE @]
             /\ BindFailed(w, "binding_failed", FALSE)
    BY <1>1, <1>2, <2>1, <2>3, BindFailsTo DEF Stays, ClearsInv
  <2> QED BY <1>5, <2>2, <2>3 DEF Clone
<1>6. CASE PersistLease(w)
  <2>1. lease[r] # "retained"
    BY <1>6 DEF PersistLease, At, ClearsInv, Clearing, Reusable
  <2>2. CASE UNCHANGED dir /\ worker'[w].pc \notin Clearing
    BY <2>2, StaysAway
  <2>3. CASE /\ dir' = [dir EXCEPT ![r] = IF worker[w].held.fresh THEN "absent" ELSE @]
             /\ BindFailed(w, "allocation_failed", LeaseConflict(r))
    BY <1>1, <1>2, <2>1, <2>3, BindFailsTo DEF Stays, ClearsInv
  <2> QED BY <1>2, <1>6, <2>2, <2>3, HoldsTo DEF PersistLease
<1>7. CASE BindRuntime(w)
  BY <1>2, <1>7, StaysAway, BindFailsTo, HoldsTo DEF BindRuntime, sandboxVars
<1> QED BY <1>3, <1>4, <1>5, <1>6, <1>7

(* What a step leaves of the attempts: their outcomes, while a state can    *)
(* only have moved on among the live ones.                                  *)
NoneEnds == \/ UNCHANGED <<state, outcome>>
            \/ /\ UNCHANGED outcome
               /\ \E r \in Rows : StartAttempt(r) \/ \E to \in Live : Advance(r, to)

LEMMA NoneEndsSucceed ==
  ASSUME DispatchInv, \A r \in Rows : RowSucceeds(r), NoneEnds
  PROVE  \A r \in Rows : RowSucceeds(r)'
<1>1. ASSUME NEW q \in Rows, state'[q] = "succeeded" PROVE state[q] = "succeeded"
  <2>1. "succeeded" \notin Live /\ "attempt_started" # "succeeded"
    BY DEF Live
  <2> QED
    BY <1>1, <2>1 DEF NoneEnds, StartAttempt, Advance, DispatchInv, DispatchTypeOK, JournalTypeOK
<1> QED BY <1>1 DEF NoneEnds, RowSucceeds

(* A step of a worker that is far from its sandbox's directory.             *)
Far(w) == /\ UNCHANGED dir
          /\ worker'[w].pc \notin Clearing
          /\ WorkerSucceeds(w)'
          /\ \A r \in Rows : RowSucceeds(r)'

LEMMA ResumeIsFar ==
  ASSUME DispatchInv, NEW w \in Workers, \A r \in Rows : RowSucceeds(r), WorkerSucceeds(w), Resume(w)
  PROVE  Far(w)
<1> USE DEF journalVars, attemptVars, sandboxVars
<1>1. NoneEnds /\ UNCHANGED dir
  BY DEF Resume, RecoverLease, Recovered, ResumeQueued, ResumeCounted, ResumeDispatch, AllocateLease,
     UpdateLease, NoneEnds
<1>2. worker'[w].pc \notin Clearing /\ WorkerSucceeds(w)'
  <2>1. CASE UNCHANGED worker /\ worker[w].pc \notin Clearing
    BY <2>1 DEF WorkerSucceeds
  <2>2. CASE Recovered(w)
    BY <2>2, GoesTo DEF Recovered, WorkerSucceeds, Clearing
  <2>3. CASE ResumeQueued(w)
    BY <2>3, DeliversTo DEF ResumeQueued, WorkerSucceeds, Clearing
  <2>4. CASE ResumeDispatch(w)
    BY <2>4 DEF ResumeDispatch, WorkerSucceeds, Clearing, Idle, NoEnd, DispatchInv, DispatchTypeOK
  <2> QED BY <2>1, <2>2, <2>3, <2>4 DEF Resume, RecoverLease, ResumeCounted, At, Clearing
<1> QED BY <1>1, <1>2, NoneEndsSucceed DEF Far

LEMMA ReplayIsFar ==
  ASSUME DispatchInv, NEW w \in Workers, \A r \in Rows : RowSucceeds(r), WorkerSucceeds(w),
         StartRow(w) \/ ReturnStored(w) \/ RecoverAnswer(w) \/ FinishStored(w) \/ SalvageRow(w)
           \/ DeferRow(w)
  PROVE  Far(w)
<1> DEFINE r == Row(w)
<1> USE DEF journalVars, attemptVars, sandboxVars, Clearing, WorkerSucceeds
<1>1. r \in Rows /\ worker[w] \in Locals /\ worker \in [Workers -> Locals]
  BY DEF DispatchInv, DispatchTypeOK, Locals, Row
<1>2. state \in [Rows -> States] /\ outcome \in [Rows -> [reason : Reasons \cup {"none"},
                                                         patch : Rows \cup {NoRow}]]
  BY DEF DispatchInv, DispatchTypeOK, JournalTypeOK
<1>3. CASE StartRow(w)
  <2>1. NoneEnds
    BY <1>1, <1>3 DEF StartRow, NoneEnds, StartAttempt
  <2> QED BY <1>3, <2>1, GoesTo, NoneEndsSucceed DEF StartRow, Far
<1>4. CASE ReturnStored(w)
  <2>1. NoneEnds
    BY <1>4 DEF ReturnStored, NoneEnds
  <2>2. RowSucceeds(r)
    BY <1>1
  <2> QED BY <1>4, <2>1, <2>2, EndsTo, NoneEndsSucceed DEF ReturnStored, Far, RowSucceeds
<1>5. CASE RecoverAnswer(w)
  <2>1. \A q \in Rows : RowSucceeds(q)'
    BY <1>1, <1>2, <1>5 DEF RecoverAnswer, RecoverLate, RowSucceeds, Ended
  <2> QED BY <1>5, <2>1, EndsTo DEF RecoverAnswer, Far
<1>6. CASE FinishStored(w)
  <2>1. PICK to, reason : /\ FinishAttempt(r, to, reason, NoRow)
                          /\ EndAs(w, "decide", to, reason, NoRow, NoRow)
                          /\ to = "succeeded" => reason = "completed"
    BY <1>6 DEF FinishStored
  <2>2. \A q \in Rows : RowSucceeds(q)'
    BY <1>1, <1>2, <2>1 DEF FinishAttempt, RowSucceeds, Ended
  <2> QED BY <1>6, <2>1, <2>2, EndsTo DEF FinishStored, Far
<1>7. CASE SalvageRow(w)
  <2>1. NoneEnds /\ UNCHANGED dir
    BY <1>7 DEF SalvageRow, NoneEnds
  <2>2. CASE Escape(w)
    BY <2>1, <2>2, EscapesTo, NoneEndsSucceed DEF Far
  <2>3. CASE worker' = [worker EXCEPT ![w] = [@ EXCEPT !.pc = "lookup", !.salvage = TRUE]]
    <3>1. worker'[w].pc = "lookup" /\ worker'[w].end = worker[w].end
      BY <1>1, <2>3 DEF Locals
    <3> QED BY <2>1, <3>1, NoneEndsSucceed DEF Far
  <2> QED BY <1>7, <2>2, <2>3 DEF SalvageRow
<1>8. CASE DeferRow(w)
  <2>1. NoneEnds
    BY <1>8 DEF DeferRow, NoneEnds
  <2> QED BY <1>8, <2>1, LeavesTo, NoneEndsSucceed DEF DeferRow, Far
<1> QED BY <1>3, <1>4, <1>5, <1>6, <1>7, <1>8

LEMMA TurnIsFar ==
  ASSUME DispatchInv, NEW w \in Workers, \A r \in Rows : RowSucceeds(r), WorkerSucceeds(w),
         \/ PreparePrompt(w) \/ RecordRequest(w) \/ Invoke(w)
         \/ \E reply \in Replies : Receive(w, reply)
         \/ RecordAnswer(w) \/ RecordResponse(w)
  PROVE  Far(w)
<1> DEFINE r == Row(w)
<1> USE DEF journalVars, attemptVars, sandboxVars, Clearing, WorkerSucceeds
<1>1. r \in Rows /\ worker[w] \in Locals /\ worker \in [Workers -> Locals]
  BY DEF DispatchInv, DispatchTypeOK, Locals, Row
<1>2. /\ {"context_prepared", "runtime_invoking"} \subseteq Live
      /\ \A reply : StateOf(reply) \in Live
  BY DEF Live, StateOf
<1>3. CASE PreparePrompt(w)
  <2>1. NoneEnds
    BY <1>1, <1>2, <1>3 DEF PreparePrompt, RecordProgress, NoneEnds
  <2> QED BY <1>3, <2>1, GoesTo, EndsTo, NoneEndsSucceed DEF PreparePrompt, Far
<1>4. CASE RecordRequest(w)
  <2>1. NoneEnds
    BY <1>1, <1>2, <1>4 DEF RecordRequest, RecordProgress, NoneEnds
  <2> QED BY <1>4, <2>1, GoesTo, NoneEndsSucceed DEF RecordRequest, Far
<1>5. CASE Invoke(w)
  <2>1. NoneEnds
    BY <1>5 DEF Invoke, NoneEnds
  <2> QED BY <1>5, <2>1, GoesTo, NoneEndsSucceed DEF Invoke, Far
<1>6. ASSUME NEW reply \in Replies, Receive(w, reply) PROVE Far(w)
  <2>1. NoneEnds
    BY <1>6 DEF Receive, NoneEnds
  <2>2. worker'[w].pc = "raw" /\ worker'[w].end = worker[w].end
    BY <1>1, <1>6 DEF Receive, Locals
  <2> QED BY <1>6, <2>1, <2>2, NoneEndsSucceed DEF Receive, Far
<1>7. CASE RecordAnswer(w)
  <2>1. NoneEnds
    BY <1>7 DEF RecordAnswer, RecordRaw, NoneEnds
  <2> QED BY <1>7, <2>1, GoesTo, NoneEndsSucceed DEF RecordAnswer, Far
<1>8. CASE RecordResponse(w)
  <2>1. NoneEnds
    BY <1>1, <1>2, <1>8 DEF RecordResponse, RecordProgress, NoneEnds
  <2>2. \/ \E status \in {"cancelled", "failed"} : \E reason : EndAs(w, "fail", status, reason, NoRow, NoRow)
        \/ Goto(w, "capture")
    BY <1>8 DEF RecordResponse
  <2> QED BY <1>8, <2>1, <2>2, GoesTo, EndsTo, NoneEndsSucceed DEF RecordResponse, Far
<1> QED BY <1>3, <1>4, <1>5, <1>6, <1>7, <1>8

LEMMA CaptureIsFar ==
  ASSUME DispatchInv, NEW w \in Workers, \A r \in Rows : RowSucceeds(r), WorkerSucceeds(w),
         Capture(w) \/ Validate(w) \/ Retain(w)
  PROVE  Far(w)
<1> DEFINE r == Row(w)
<1> USE DEF journalVars, attemptVars, sandboxVars, Clearing, WorkerSucceeds
<1>1. r \in Rows /\ worker[w] \in Locals /\ worker \in [Workers -> Locals]
  BY DEF DispatchInv, DispatchTypeOK, Locals, Row
<1>2. NoneEnds /\ UNCHANGED dir
  BY DEF Capture, Validate, Retain, UpdateLease, NoneEnds
<1>3. \A reason : CaptureFailed(w, reason) =>
        worker'[w].pc \notin Clearing /\ worker'[w].end.status = "incomplete"
  BY EndsTo DEF CaptureFailed
<1>4. CASE Capture(w)
  <2>1. CASE worker' = [worker EXCEPT ![w] =
               [@ EXCEPT !.held.version = worker[w].held.version + 1,
                         !.pc = IF Returned(worker[w].reply) THEN "validate" ELSE "retain"]]
    <3>1. worker'[w].pc \in {"validate", "retain"} /\ worker'[w].end = worker[w].end
      BY <1>1, <2>1 DEF Locals
    <3> QED BY <1>2, <3>1, NoneEndsSucceed DEF Far
  <2>2. CASE \E reason : CaptureFailed(w, reason)
    BY <1>2, <1>3, <2>2, NoneEndsSucceed DEF Far
  <2> QED BY <1>4, <2>1, <2>2 DEF Capture
<1>5. CASE Validate(w)
  BY <1>2, <1>5, GoesTo, EndsTo, NoneEndsSucceed DEF Validate, Far
<1>6. CASE Retain(w)
  <2>1. \/ Goto(w, "fail") \/ Goto(w, "structured")
        \/ \E reason : CaptureFailed(w, reason)
        \/ \E reason, evidence : EndAs(w, "fail", "failed", reason, NoRow, evidence)
    BY <1>6 DEF Retain, AfterCapture
  <2> QED BY <1>2, <1>3, <2>1, GoesTo, EndsTo, NoneEndsSucceed DEF Far
<1> QED BY <1>4, <1>5, <1>6

LEMMA EndIsFar ==
  ASSUME DispatchInv, NEW w \in Workers, \A r \in Rows : RowSucceeds(r), WorkerSucceeds(w),
         \/ StructuredOutput(w) \/ RuntimeFailure(w) \/ Finish(w)
         \/ StoreRaises(w) \/ Crash(w)
  PROVE  Far(w)
<1> DEFINE r == Row(w)
<1> USE DEF journalVars, attemptVars, sandboxVars, Clearing, WorkerSucceeds
<1>1. r \in Rows /\ worker[w] \in Locals /\ worker \in [Workers -> Locals]
  BY DEF DispatchInv, DispatchTypeOK, Locals, Row
<1>2. state \in [Rows -> States] /\ outcome \in [Rows -> [reason : Reasons \cup {"none"},
                                                         patch : Rows \cup {NoRow}]]
  BY DEF DispatchInv, DispatchTypeOK, JournalTypeOK
<1>3. "evidence_recording" \in Live
  BY DEF Live
<1>4. CASE StructuredOutput(w)
  <2>1. NoneEnds
    BY <1>1, <1>3, <1>4 DEF StructuredOutput, RecordStructured, NoneEnds
  <2> QED BY <1>4, <2>1, EndsTo, NoneEndsSucceed DEF StructuredOutput, Far
<1>5. CASE RuntimeFailure(w)
  <2>1. NoneEnds
    BY <1>1, <1>3, <1>5 DEF RuntimeFailure, RecordFailure, NoneEnds
  <2> QED BY <1>5, <2>1, GoesTo, NoneEndsSucceed DEF RuntimeFailure, Far
<1>6. CASE Finish(w)
  <2>1. \A q \in Rows : RowSucceeds(q)'
    BY <1>1, <1>2, <1>6 DEF Finish, FinishAttempt, RowSucceeds, Ended
  <2>2. Goto(w, "decide") \/ \E status, patches : Deliver(w, status, patches)
    BY <1>6 DEF Finish
  <2> QED BY <1>6, <2>1, <2>2, GoesTo, DeliversTo DEF Finish, Far
<1>7. CASE StoreRaises(w) \/ Crash(w)
  <2>1. NoneEnds
    BY <1>7 DEF StoreRaises, Crash, NoneEnds
  <2> QED BY <1>7, <2>1, EscapesTo, LeavesTo, NoneEndsSucceed DEF StoreRaises, Crash, Far
<1> QED BY <1>4, <1>5, <1>6, <1>7

LEMMA DecideIsFar ==
  ASSUME DispatchInv, NEW w \in Workers, \A r \in Rows : RowSucceeds(r), WorkerSucceeds(w),
         \/ DeliverStored(w) \/ Retry(w) \/ Blocked(w) \/ Revalidate(w) \/ ProjectResult(w)
         \/ Enqueue(w)
  PROVE  Far(w)
<1> USE DEF journalVars, attemptVars, sandboxVars, Clearing, WorkerSucceeds
<1>1. worker[w] \in Locals /\ worker \in [Workers -> Locals]
  BY DEF DispatchInv, DispatchTypeOK, Locals
<1>2. NoneEnds /\ UNCHANGED dir
  BY DEF DeliverStored, Retry, Blocked, Revalidate, ProjectResult, Enqueue, ProjectRevalidated, NoneEnds
<1>3. CASE Revalidate(w)
  <2>1. /\ worker'[w].pc = "project" /\ worker'[w].end.status = worker[w].end.status
        /\ worker'[w].end.reason = worker[w].end.reason
    BY <1>1, <1>3 DEF Revalidate, Locals
  <2> QED BY <1>2, <2>1, NoneEndsSucceed DEF Far
<1>4. CASE DeliverStored(w) \/ ProjectResult(w)
  <2>1. \E status, patches : Deliver(w, status, patches)
    BY <1>4 DEF DeliverStored, ProjectResult
  <2> QED BY <1>2, <2>1, DeliversTo, NoneEndsSucceed DEF Far
<1>5. CASE Retry(w) \/ Blocked(w) \/ Enqueue(w)
  BY <1>2, <1>5, NextAttemptsTo, LeavesTo, NoneEndsSucceed DEF Retry, Blocked, Enqueue, Far
<1> QED BY <1>3, <1>4, <1>5

(* The binding of the sandbox ends nothing.                                 *)
LEMMA BindEndsNothing ==
  ASSUME DispatchInv, NEW w \in Workers, \A r \in Rows : RowSucceeds(r), WorkerSucceeds(w),
         LookupLease(w) \/ ReadManifest(w) \/ Clone(w) \/ PersistLease(w) \/ BindRuntime(w)
  PROVE  WorkerSucceeds(w)' /\ \A r \in Rows : RowSucceeds(r)'
<1>1. NoneEnds
  BY DEF LookupLease, ReadManifest, Clone, PersistLease, BindRuntime, AllocateLease, UpdateLease, NoneEnds,
     journalVars, attemptVars
<1>2. \/ \E reason, hint : BindFailed(w, reason, hint)
      \/ \E step : Goto(w, step)
      \/ \E step, status, v, fresh : Hold(w, step, status, v, fresh)
  BY DEF LookupLease, ReadManifest, Clone, PersistLease, BindRuntime
<1> QED BY <1>1, <1>2, BindFailsTo, GoesTo, HoldsTo, NoneEndsSucceed DEF WorkerSucceeds

(* What a step leaves of the projection when there is a completed one.      *)
Kept(w) == /\ UNCHANGED <<marker, latest, state>>
           /\ HandsOn(w)'
           /\ worker'[w].pc = "start" => SucceededLast

LEMMA CompletedIsKept ==
  ASSUME DispatchInv, NEW w \in Workers, MarkerStands, WorkerSucceeds(w),
         marker.status = "completed",
         Resume(w) \/ Attempt(w) \/ StoreRaises(w) \/ Crash(w)
  PROVE  Kept(w)
<1> USE DEF journalVars, attemptVars
<1>1. worker[w] \in Locals /\ worker \in [Workers -> Locals] /\ latest \in Rows \cup {NoRow}
  BY DEF DispatchInv, DispatchTypeOK, JournalTypeOK, Locals
<1>2. /\ marker.noted \/ SucceededLast
      /\ HandsOn(w)
      /\ worker[w].pc = "start" => SucceededLast
  BY DEF MarkerStands
<1>3. CASE worker[w].pc = "idle"
  <2>1. Recovered(w) \/ \E r \in Rows : RecoverLease(w, r)
    BY <1>3 DEF Resume, Attempt, StoreRaises, Crash, Recovered, ResumeQueued, ResumeCounted,
       ResumeDispatch, StartRow, ReturnStored, RecoverAnswer, FinishStored, SalvageRow, DeferRow,
       LookupLease, ReadManifest, Clone, PersistLease, BindRuntime, PreparePrompt, RecordRequest,
       Invoke, Receive, RecordAnswer, RecordResponse, Capture, Validate, Retain, StructuredOutput,
       RuntimeFailure, Finish, DeliverStored, Retry, Blocked, Revalidate, ProjectResult, Enqueue,
       At, Writing
  <2>2. CASE Recovered(w)
    BY <2>2, GoesTo DEF Recovered, Kept, HandsOn
  <2>3. CASE \E r \in Rows : RecoverLease(w, r)
    BY <1>3, <2>3 DEF RecoverLease, AllocateLease, UpdateLease, Kept, HandsOn
  <2> QED BY <2>1, <2>2, <2>3
<1>4. CASE worker[w].pc = "resume"
  <2>1. ResumeQueued(w) \/ ResumeCounted(w) \/ ResumeDispatch(w) \/ Crash(w)
    BY <1>4 DEF Resume, Attempt, StoreRaises, Recovered, RecoverLease,
       StartRow, ReturnStored, RecoverAnswer, FinishStored, SalvageRow, DeferRow,
       LookupLease, ReadManifest, Clone, PersistLease, BindRuntime, PreparePrompt, RecordRequest,
       Invoke, Receive, RecordAnswer, RecordResponse, Capture, Validate, Retain, StructuredOutput,
       RuntimeFailure, Finish, DeliverStored, Retry, Blocked, Revalidate, ProjectResult, Enqueue,
       At, Writing
  <2>2. CASE ResumeQueued(w)
    BY <2>2, DeliversTo DEF ResumeQueued, Kept, HandsOn
  <2>3. CASE ResumeCounted(w)
    BY <1>4, <2>3 DEF ResumeCounted, Kept, HandsOn
  <2>4. CASE ResumeDispatch(w)
    <3>1. SucceededLast /\ Plan = {latest}
      BY <1>2, <2>4 DEF ResumeDispatch, MarkerPending, Plan
    <3>2. latest \in Nat
      BY <1>1, <3>1, RowsAssumption DEF SucceededLast
    <3>3. /\ (CHOOSE k \in Plan : \A j \in Plan : k <= j) = latest
          /\ (CHOOSE k \in Plan : \A j \in Plan : k >= j) = latest
      BY <3>1, <3>2
    <3>4. worker' = [worker EXCEPT ![w] = [Idle EXCEPT !.pc = "start", !.at = latest, !.last = latest]]
      BY <2>4, <3>3 DEF ResumeDispatch
    <3>5. worker'[w].pc = "start" /\ worker'[w].at = latest /\ worker'[w].last = latest
      BY <1>1, <3>4 DEF Idle
    <3> QED BY <2>4, <3>1, <3>5 DEF ResumeDispatch, Kept, HandsOn
  <2>5. CASE Crash(w)
    BY <2>5, LeavesTo DEF Crash, Kept, HandsOn
  <2> QED BY <2>1, <2>2, <2>3, <2>4, <2>5
<1>5. CASE worker[w].pc = "start"
  <2>1. SucceededLast /\ worker[w].at = latest /\ worker[w].last = latest
    BY <1>2, <1>5 DEF HandsOn
  <2>2. state[Row(w)] = "succeeded" /\ ~(worker[w].at < worker[w].last)
    BY <1>1, <2>1, RowsAssumption DEF SucceededLast, Row
  <2>3. ReturnStored(w) \/ StoreRaises(w) \/ Crash(w)
    BY <1>5, <2>2 DEF Resume, Attempt, Recovered, RecoverLease, ResumeQueued, ResumeCounted,
       ResumeDispatch, StartRow, StartAttempt, Fresh, RecoverAnswer, Answered, LateRecoverable,
       FinishStored, Finishable, SalvageRow, DeferRow, Interrupted, Live,
       LookupLease, ReadManifest, Clone, PersistLease, BindRuntime, PreparePrompt, RecordRequest,
       Invoke, Receive, RecordAnswer, RecordResponse, Capture, Validate, Retain, StructuredOutput,
       RuntimeFailure, Finish, DeliverStored, Retry, Blocked, Revalidate, ProjectResult, Enqueue,
       At
  <2>4. CASE ReturnStored(w)
    BY <2>2, <2>4, EndsTo DEF ReturnStored, Kept, HandsOn
  <2>5. CASE StoreRaises(w)
    BY <2>2, <2>5, EscapesTo DEF StoreRaises, Kept, HandsOn
  <2>6. CASE Crash(w)
    BY <2>6, LeavesTo DEF Crash, Kept, HandsOn
  <2> QED BY <2>3, <2>4, <2>5, <2>6
<1>6. CASE worker[w].pc = "decide"
  <2>1. worker[w].end.status = "succeeded" /\ worker[w].end.reason = "completed"
    BY <1>2, <1>6 DEF HandsOn, WorkerSucceeds
  <2>2. DeliverStored(w) \/ Crash(w)
    BY <1>6, <2>1 DEF Resume, Attempt, StoreRaises, Recovered, RecoverLease, ResumeQueued,
       ResumeCounted, ResumeDispatch, StartRow, ReturnStored, RecoverAnswer, FinishStored,
       SalvageRow, DeferRow,
       LookupLease, ReadManifest, Clone, PersistLease, BindRuntime, PreparePrompt, RecordRequest,
       Invoke, Receive, RecordAnswer, RecordResponse, Capture, Validate, Retain, StructuredOutput,
       RuntimeFailure, Finish, Retry, Blocked, Revalidate, ProjectResult, Enqueue, At, Writing
  <2>3. CASE DeliverStored(w)
    BY <2>3, DeliversTo DEF DeliverStored, Kept, HandsOn
  <2>4. CASE Crash(w)
    BY <2>4, LeavesTo DEF Crash, Kept, HandsOn
  <2> QED BY <2>2, <2>3, <2>4
<1>7. CASE worker[w].pc = "enqueue"
  <2>1. Enqueue(w) \/ Crash(w)
    BY <1>7 DEF Resume, Attempt, StoreRaises, Recovered, RecoverLease, ResumeQueued,
       ResumeCounted, ResumeDispatch, StartRow, ReturnStored, RecoverAnswer, FinishStored,
       SalvageRow, DeferRow,
       LookupLease, ReadManifest, Clone, PersistLease, BindRuntime, PreparePrompt, RecordRequest,
       Invoke, Receive, RecordAnswer, RecordResponse, Capture, Validate, Retain, StructuredOutput,
       RuntimeFailure, Finish, DeliverStored, Retry, Blocked, Revalidate, ProjectResult, At, Writing
  <2> QED BY <2>1, LeavesTo DEF Enqueue, Crash, Kept, HandsOn
<1> QED BY <1>2, <1>3, <1>4, <1>5, <1>6, <1>7 DEF HandsOn

(* A step that completes the marker leaves its worker handing the result on. *)
LEMMA CompletingHandsOn ==
  ASSUME DispatchInv, NEW w \in Workers, marker.status # "completed",
         Resume(w) \/ Attempt(w) \/ StoreRaises(w) \/ Crash(w)
  PROVE  marker'.status = "completed" =>
           /\ marker'.noted \/ SucceededLast'
           /\ HandsOn(w)' /\ worker'[w].pc # "start"
<1> USE DEF journalVars, attemptVars
<1>1. Row(w) \in Rows /\ Row(w) # NoRow
  BY RowsAssumption DEF DispatchInv, DispatchTypeOK, Locals, Row
<1>2. state \in [Rows -> States]
  BY DEF DispatchInv, DispatchTypeOK, JournalTypeOK
<1>3. CASE UNCHANGED marker
  BY <1>3
<1>4. CASE RecoverAnswer(w)
  <2>1. SucceededLast'
    BY <1>1, <1>2, <1>4 DEF RecoverAnswer, RecoverLate, SucceededLast
  <2> QED BY <1>4, <2>1, EndsTo DEF RecoverAnswer, HandsOn
<1>5. CASE FinishStored(w)
  <2>1. PICK to, reason : /\ FinishAttempt(Row(w), to, reason, NoRow)
                          /\ EndAs(w, "decide", to, reason, NoRow, NoRow)
    BY <1>5 DEF FinishStored
  <2>2. CASE to = "succeeded"
    BY <2>1, <2>2, EndsTo DEF FinishAttempt, Project, Projection, HandsOn
  <2>3. CASE to # "succeeded"
    BY <1>3, <2>1, <2>3 DEF FinishAttempt, Project
  <2> QED BY <2>2, <2>3
<1>6. CASE Finish(w)
  <2> DEFINE e == worker[w].end
  <2>1. CASE FinishAttempt(Row(w), e.status, e.reason, e.patch) /\ e.status = "succeeded"
    <3>1. \E status, patches : Deliver(w, status, patches)
      BY <1>6, <2>1 DEF Finish
    <3> QED BY <2>1, <3>1, DeliversTo DEF FinishAttempt, Project, Projection, HandsOn
  <2> QED BY <1>3, <1>6, <2>1 DEF Finish, FinishAttempt, Project
<1>7. CASE ProjectResult(w)
  <2>1. marker'.noted /\ \E status, patches : Deliver(w, status, patches)
    BY <1>7 DEF ProjectResult, ProjectRevalidated, Projection
  <2> QED BY <2>1, DeliversTo DEF HandsOn
<1>8. UNCHANGED marker \/ RecoverAnswer(w) \/ FinishStored(w) \/ Finish(w) \/ ProjectResult(w)
  BY DEF Resume, Attempt, StoreRaises, Crash, Recovered, RecoverLease, ResumeQueued, ResumeCounted,
     ResumeDispatch, StartRow, ReturnStored, SalvageRow, DeferRow,
     LookupLease, ReadManifest, Clone, PersistLease, BindRuntime, PreparePrompt, RecordRequest,
     Invoke, Receive, RecordAnswer, RecordResponse, Capture, Validate, Retain, StructuredOutput,
     RuntimeFailure, DeliverStored, Retry, Blocked, Revalidate, Enqueue,
     StartAttempt, RecordProgress, RecordRaw, RecordStructured, RecordFailure, AllocateLease, UpdateLease
<1> QED BY <1>3, <1>4, <1>5, <1>6, <1>7, <1>8

(* A step of the one worker.                                                *)
LEMMA SoloSteps ==
  ASSUME Solo, DispatchInv, SoloInv, [Next]_dispatchVars
  PROVE  /\ SoloInv'
         /\ \A r \in Rows : lease[r] = "retained" /\ dir[r] = "ready" => dir'[r] = "ready"
         /\ marker.status = "completed" => marker' = marker
<1>1. ASSUME NEW w \in Workers, Resume(w) \/ Attempt(w) \/ StoreRaises(w) \/ Crash(w)
      PROVE  /\ SoloInv'
             /\ \A r \in Rows : lease[r] = "retained" /\ dir[r] = "ready" => dir'[r] = "ready"
             /\ marker.status = "completed" => marker' = marker
  <2>1. /\ \A r \in Rows : RowSucceeds(r)
        /\ ClearsInv(w) /\ WorkerSucceeds(w) /\ MarkerStands /\ \A v \in Workers : v = w
    BY DEF SoloInv, Solo
  <2>2. /\ Stays(w) /\ WorkerSucceeds(w)'
        /\ \A r \in Rows : RowSucceeds(r)'
    <3>1. CASE LookupLease(w) \/ ReadManifest(w) \/ Clone(w) \/ PersistLease(w) \/ BindRuntime(w)
      BY <2>1, <3>1, BindStays, BindEndsNothing
    <3>2. CASE Far(w)
      BY <3>2, StaysAway DEF Far
    <3> QED
      BY <1>1, <2>1, <3>1, <3>2, ResumeIsFar, ReplayIsFar, TurnIsFar, CaptureIsFar, EndIsFar, DecideIsFar
         DEF Attempt
  <2>3. MarkerStands' /\ (marker.status = "completed" => marker' = marker)
    <3>1. CASE marker.status = "completed"
      <4>1. Kept(w)
        BY <1>1, <2>1, <3>1, CompletedIsKept
      <4>2. SucceededLast' <=> SucceededLast
        BY <4>1 DEF Kept, SucceededLast
      <4>3. (marker.noted \/ SucceededLast) /\ marker' = marker
        BY <2>1, <3>1, <4>1 DEF MarkerStands, Kept
      <4>4. HandsOn(w)' /\ (worker'[w].pc = "start" => SucceededLast')
        BY <4>1, <4>2 DEF Kept
      <4> QED BY <2>1, <4>2, <4>3, <4>4 DEF MarkerStands
    <3>2. CASE marker.status # "completed"
      BY <1>1, <2>1, <3>2, CompletingHandsOn DEF MarkerStands
    <3> QED BY <3>1, <3>2
  <2> QED BY <2>1, <2>2, <2>3 DEF SoloInv, Stays
<1>2. ASSUME NEW r \in Rows, JobAnswers(r)
      PROVE  UNCHANGED <<journalVars, worker, dir>>
  BY <1>2 DEF JobAnswers
<1>3. CASE UNCHANGED <<journalVars, worker, dir>>
  BY <1>3 DEF SoloInv, RowSucceeds, ClearsInv, WorkerSucceeds, MarkerStands, HandsOn, SucceededLast, Row,
     journalVars, attemptVars, leaseVars
<1> QED BY <1>1, <1>2, <1>3 DEF Next, dispatchVars, sandboxVars

LEMMA SoloStarts == DispatchInit => SoloInv
  BY DEF DispatchInit, JournalInit, SoloInv, RowSucceeds, ClearsInv, WorkerSucceeds, MarkerStands, NoMarker,
     Projection, Idle, NoEnd, Clearing

(* When one process at a time resumes the group, no attempt, replay or      *)
(* failed allocation removes the directory of a retained sandbox.           *)
THEOREM SoloKeepsEvidence == Solo => (Spec => EvidenceIsKept)
<1>1. Solo /\ DispatchInv /\ SoloInv /\ [Next]_dispatchVars =>
        /\ SoloInv'
        /\ [\A r \in Rows : lease[r] = "retained" /\ dir[r] = "ready" => dir'[r] = "ready"]_dispatchVars
  BY SoloSteps
<1>2. CASE Solo
  BY <1>1, <1>2, SoloStarts, DispatchInvariant, PTL DEF Spec, EvidenceIsKept
<1> QED BY <1>2

(* And the first completed marker is never replaced: not by a rerun, a late *)
(* answer or a revalidation.                                                *)
THEOREM SoloKeepsMarker == Solo => (Spec => CompletedMarkerIsStable)
<1>1. Solo /\ DispatchInv /\ SoloInv /\ [Next]_dispatchVars =>
        SoloInv' /\ [marker.status = "completed" => marker' = marker]_dispatchVars
  BY SoloSteps
<1>2. CASE Solo
  BY <1>1, <1>2, SoloStarts, DispatchInvariant, PTL DEF Spec, CompletedMarkerIsStable
<1> QED BY <1>2

=============================================================================
