----------------------- MODULE HygieneRecoveryProofs -----------------------
(***************************************************************************)
(* Proofs about HygieneRecovery for any finite group, any number of lanes, *)
(* reruns, crashes and auto-continues.  First: every value keeps its type, *)
(* a lane in a commit stays there, and a group is sealed only when each of *)
(* its tasks is in a commit.  Then: the reruns of a task stay within their *)
(* budget, although no counter is kept of them and a pass counts lanes and *)
(* markers again.  Last: as long as nothing went wrong besides, the next   *)
(* entry reruns what a drain failure called recoverable left, but for a    *)
(* task whose last rerun this very drain took; it finds no task stuck.     *)
(***************************************************************************)
EXTENDS HygieneRecovery, FiniteSetTheorems, WellFoundedInduction, TLAPS

LaneIds  == Lanes \cup {0}
Patches  == [source : LaneIds, base : Nat]
Rows     == [status : {"none", "queued", "integrated", "failed", "done"},
             task : Tasks \cup {NoTask}, patch : Patches, source : LaneIds,
             cause : Hygiene \cup {"other", "none"}]
Tokens   == [kind : {"none", "rerun", "redrive"}, lanes : SUBSET Lanes]
Places   == {"enter", "redrive", "plan", "dispatch", "count", "mark", "drain", "sweep",
             "returned", "halted", "done", "verify"}
Passes   == [pc : Places, source : [Tasks -> LaneIds], counted : [Tasks -> Nat],
             todo : SUBSET Tasks, resumed : SUBSET Tasks,
             result : [Tasks -> {"none", "completed", "partial", "blocked"}],
             left : SUBSET Tasks, enqueued : SUBSET Lanes, failed : SUBSET Lanes,
             recoverable : BOOLEAN, token : Tokens]

RecoveryTypeOK ==
  /\ lane \in [Lanes -> Rows]
  /\ marker \in [Tasks -> [status : {"none", "completed", "partial"}, patch : Patches]]
  /\ pending \subseteq Tasks
  /\ blocks \in [Tasks -> Nat]
  /\ sealed \in BOOLEAN
  /\ run \in Passes
  /\ loop \in [token : Tokens, no_progress : Nat]
  /\ faults \in Nat

(* From its plan to its checkpoint a pass has every task in hand, or the    *)
(* task is in a commit already.                                             *)
InHand ==
  run.pc \in {"dispatch", "count", "mark", "drain"} =>
    \A t \in Tasks : t \in run.todo \cup run.resumed \/ Covering(t) # {}

(* What was dispatched has a result before anything is queued.              *)
AllEnded ==
  run.pc \in {"count", "mark", "drain"} => \A t \in run.todo : run.result[t] # "none"

RecoveryInv == RecoveryTypeOK /\ InHand /\ AllEnded /\ SealCoversGroup

(* A lane in a commit stays there, and a done lane is not touched again.    *)
Standing ==
  \A i \in Lanes :
    /\ lane[i].status = "done" => lane'[i] = lane[i]
    /\ i \in Candidates => i \in Candidates' /\ lane'[i].task = lane[i].task

----------------------------------------------------------------------------
(* Of finitely many lanes one is the newest.                                *)
LEMMA NewestExists ==
  ASSUME NEW S \in SUBSET Lanes, S # {}
  PROVE  \E i \in S : \A j \in S : j <= i
<1> DEFINE T == {MaxLanes - i : i \in S}
<1>1. T \subseteq Nat /\ T # {}
  BY RecoveryAssumption DEF Lanes
<1>2. PICK m \in T : \A k \in T : ~ (<<k, m>> \in OpToRel(<, Nat))
  BY <1>1, NatLessThanWellFounded, WFMin
<1>3. PICK i \in S : m = MaxLanes - i
  OBVIOUS
<1>4. ASSUME NEW j \in S PROVE j <= i
  <2>1. MaxLanes - j \in T
    OBVIOUS
  <2>2. ~ (MaxLanes - j < m)
    BY <1>1, <1>2, <2>1 DEF OpToRel
  <2>3. QED BY <2>2, <1>3, RecoveryAssumption DEF Lanes
<1>5. QED BY <1>4

(* The lane a rerun starts from is a lane of its task that the hook failed. *)
LEMMA RecoveryLaneIsFailed ==
  ASSUME NEW t \in Tasks, HookFailed(t) # {}
  PROVE  RecoveryLane(t) \in HookFailed(t)
<1>1. HookFailed(t) \in SUBSET Lanes
  BY DEF HookFailed, LanesOf
<1>2. \E i \in HookFailed(t) : \A j \in HookFailed(t) : j <= i
  BY <1>1, NewestExists
<1>3. QED BY <1>2 DEF RecoveryLane

(* What a pass counts are natural numbers.                                  *)
LEMMA CountsAreNaturals ==
  /\ Head \in Nat
  /\ \A t \in Tasks : Refailures(t) \in Nat
<1>1. IsFiniteSet(Lanes)
  BY RecoveryAssumption, FS_Interval DEF Lanes
<1>2. \A S \in SUBSET Lanes : Cardinality(S) \in Nat
  BY <1>1, FS_Subset, FS_CardinalityType
<1>3. Candidates \in SUBSET Lanes
  BY DEF Candidates
<1>4. ASSUME NEW t \in Tasks PROVE Refailed(t) \in SUBSET Lanes
  BY DEF Refailed, HookFailed, LanesOf
<1>5. QED BY <1>2, <1>3, <1>4 DEF Head, Refailures

----------------------------------------------------------------------------
(* Types, one step per action.                                              *)
LEMMA IdleTyped ==
  ASSUME NEW pc \in Places
  PROVE  [Idle EXCEPT !.pc = pc] \in Passes /\ Idle \in Passes
BY DEF Idle, Passes, Places, LaneIds, Tokens, NoToken

(* A pass that returns leaves typed rows.                                   *)
LEMMA ReturnTyped ==
  ASSUME NEW recoverable \in BOOLEAN, NEW token \in Tokens, Return(recoverable, token)
  PROVE  run' \in Passes
BY DEF Return, Idle, Passes, Places, LaneIds, Tokens, NoToken

(* A row that gets a drained status and a cause keeps its domain.           *)
LEMMA RowTyped ==
  ASSUME NEW row \in Rows, NEW status \in {"integrated", "failed"},
         NEW cause \in Hygiene \cup {"other", "none"}
  PROVE  [row EXCEPT !.status = status, !.cause = cause] \in Rows
<1> DEFINE Statuses == {"none", "queued", "integrated", "failed", "done"}
<1> DEFINE Causes == Hygiene \cup {"other", "none"}
<1>1. status \in Statuses /\ cause \in Causes
  OBVIOUS
<1>2. Rows = [status : Statuses, task : Tasks \cup {NoTask}, patch : Patches,
              source : LaneIds, cause : Causes]
  BY DEF Rows
<1> HIDE DEF Statuses, Causes
<1>3. QED BY <1>1, <1>2

(* No step leaves the domains.                                              *)
LEMMA RecoveryTypingStep ==
  ASSUME RecoveryTypeOK, [RecoveryNext]_vars
  PROVE  RecoveryTypeOK'
<1> USE DEF RecoveryTypeOK
<1>0. NoToken \in Tokens
  BY DEF NoToken, Tokens
<1>1. CASE Enter
  <2>1. run' \in Passes
    BY <1>1 DEF Enter, Goto, Passes, Places
  <2>2. QED BY <2>1, <1>1 DEF Enter, durable
<1>2. ASSUME NEW E, Seal(E) PROVE lane' \in [Lanes -> Rows] /\ sealed' \in BOOLEAN
  BY <1>2 DEF Seal, Rows, Candidates
<1>3. CASE Redriven
  <2>1. run' \in Passes
    <3>1. CASE Goto("sweep")
      BY <3>1 DEF Goto, Passes, Places
    <3>2. CASE run' = [Idle EXCEPT !.pc = "plan"]
      BY <3>2, IdleTyped DEF Places
    <3>3. QED BY <1>3, <3>1, <3>2 DEF Redriven
  <2>2. lane' \in [Lanes -> Rows] /\ sealed' \in BOOLEAN
    BY <1>3, <1>2 DEF Redriven
  <2>3. QED BY <2>1, <2>2, <1>3 DEF Redriven
<1>4. CASE Sweep
  <2>1. run' \in Passes
    BY <1>4 DEF Sweep, Goto, Passes, Places
  <2>2. QED BY <2>1, <1>4 DEF Sweep
<1>5. CASE Plan
  <2>1. run' \in Passes
    <3>1. CASE Block
      BY <3>1, <1>0, ReturnTyped DEF Block
    <3>2. CASE Goto("verify")
      BY <3>2 DEF Goto, Passes, Places
    <3>3. CASE run' = [Idle EXCEPT
             !.pc = "dispatch",
             !.todo = Deciding({"rerun", "dispatch"}),
             !.resumed = Deciding({"resume"}),
             !.source = [t \in Tasks |-> IF Decide(t) = "rerun" THEN RecoveryLane(t) ELSE 0],
             !.counted = [t \in Tasks |-> Refailures(t)]]
      <4>1. [t \in Tasks |-> IF Decide(t) = "rerun" THEN RecoveryLane(t) ELSE 0]
              \in [Tasks -> LaneIds]
        <5>1. ASSUME NEW t \in Tasks, Decide(t) = "rerun" PROVE RecoveryLane(t) \in Lanes
          <6>1. HookFailed(t) # {}
            BY <5>1 DEF Decide
          <6>2. QED BY <6>1, RecoveryLaneIsFailed DEF HookFailed, LanesOf
        <5>2. QED BY <5>1 DEF LaneIds
      <4>2. [t \in Tasks |-> Refailures(t)] \in [Tasks -> Nat]
        BY CountsAreNaturals
      <4>3. Deciding({"rerun", "dispatch"}) \subseteq Tasks /\ Deciding({"resume"}) \subseteq Tasks
        BY DEF Deciding
      <4>4. [Idle EXCEPT !.pc = "dispatch"] \in Passes
        BY IdleTyped DEF Places
      <4>5. ASSUME NEW pass \in Passes, NEW todo \in SUBSET Tasks, NEW resumed \in SUBSET Tasks,
                   NEW source \in [Tasks -> LaneIds], NEW counted \in [Tasks -> Nat]
            PROVE  [pass EXCEPT !.todo = todo, !.resumed = resumed, !.source = source,
                                !.counted = counted] \in Passes
        BY DEF Passes
      <4>6. QED BY <3>3, <4>1, <4>2, <4>3, <4>4, <4>5
    <3>4. QED BY <1>5, <3>1, <3>2, <3>3 DEF Plan
  <2>2. QED BY <2>1, <1>5 DEF Plan, durable
<1>6. CASE Gathered
  <2>1. run' \in Passes
    BY <1>6 DEF Gathered, Ended, Passes, Places
  <2>2. QED BY <2>1, <1>6 DEF Gathered, durable
<1>7. ASSUME NEW i \in Lanes, DrainLane(i) PROVE RecoveryTypeOK'
  <2>1. ASSUME NEW status \in {"integrated", "failed"},
               NEW cause \in Hygiene \cup {"other", "none"}, DrainedAs(i, status, cause)
        PROVE  lane' \in [Lanes -> Rows] /\ run' \in Passes
    <3>1. lane' = [lane EXCEPT ![i] = [@ EXCEPT !.status = status, !.cause = cause]]
      BY <2>1 DEF DrainedAs
    <3>2. [lane[i] EXCEPT !.status = status, !.cause = cause] \in Rows
      BY RowTyped
    <3>3. lane' \in [Lanes -> Rows]
      BY <3>1, <3>2
    <3>4. run' \in Passes
      BY <2>1 DEF DrainedAs, Passes
    <3>5. QED BY <3>3, <3>4
  <2>2. lane' \in [Lanes -> Rows] /\ run' \in Passes
    BY <1>7, <2>1 DEF DrainLane
  <2>3. QED BY <2>2, <1>7 DEF DrainLane
<1>8. ASSUME NEW t \in Tasks, CountBlock(t) PROVE RecoveryTypeOK'
  <2>1. run' \in Passes
    BY <1>8 DEF CountBlock, Passes
  <2>2. blocks' \in [Tasks -> Nat]
    BY <1>8 DEF CountBlock
  <2>3. QED BY <2>1, <2>2, <1>8 DEF CountBlock
<1>9. ASSUME NEW t \in Tasks, Mark(t) PROVE RecoveryTypeOK'
  <2>1. run' \in Passes
    BY <1>9 DEF Mark, Passes, Places
  <2>2. QED BY <2>1, <1>9 DEF Mark
<1>10. ASSUME NEW t \in Tasks, NEW how \in {"completed", "partial", "blocked"}, TaskReturns(t, how)
       PROVE  RecoveryTypeOK'
  <2>1. run' \in Passes
    BY <1>10 DEF TaskReturns, Passes
  <2>2. marker' \in [Tasks -> [status : {"none", "completed", "partial"}, patch : Patches]]
    <3>1. [source |-> run.source[t], base |-> Head] \in Patches
      BY CountsAreNaturals DEF Patches, Passes
    <3>2. QED BY <3>1, <1>10 DEF TaskReturns
  <2>3. QED BY <2>1, <2>2, <1>10 DEF TaskReturns
<1>11. CASE Enqueue
  <2>1. Batch \subseteq Tasks
    BY DEF Batch, Ended, Passes
  <2> DEFINE New == {t \in Batch : Existing(t) = {}}
  <2>2. PICK row \in [New -> Lanes] :
          /\ Inserted(New, row)
          /\ run' = [run EXCEPT !.pc = "mark", !.left = Batch,
                       !.enqueued = (UNION {Existing(t) : t \in Batch}) \cup {row[t] : t \in New}]
    BY <1>11 DEF Enqueue
  <2>3. run' \in Passes
    <3> HIDE DEF New
    <3>1. {row[t] : t \in New} \subseteq Lanes
      OBVIOUS
    <3>2. \A t \in Batch : Existing(t) \subseteq Lanes
      BY DEF Existing
    <3>3. ASSUME NEW S \in SUBSET Lanes
          PROVE  [run EXCEPT !.pc = "mark", !.left = Batch, !.enqueued = S] \in Passes
      BY <2>1 DEF Passes, Places
    <3> DEFINE enqueued == (UNION {Existing(t) : t \in Batch}) \cup {row[t] : t \in New}
    <3>4. enqueued \in SUBSET Lanes
      <4>1. ASSUME NEW i \in enqueued PROVE i \in Lanes
        <5>1. CASE \E t \in Batch : i \in Existing(t)
          BY <5>1, <3>2
        <5>2. CASE i \in {row[t] : t \in New}
          BY <5>2, <3>1
        <5>3. QED BY <5>1, <5>2
      <4>2. QED BY <4>1
    <3>5. run' = [run EXCEPT !.pc = "mark", !.left = Batch, !.enqueued = enqueued]
      BY <2>2
    <3> HIDE DEF enqueued
    <3>6. QED BY <3>3, <3>4, <3>5
  <2>4. lane' \in [Lanes -> Rows]
    <3> DEFINE Row(i) == LET t == CHOOSE u \in New : row[u] = i
                         IN [status |-> "queued", task |-> t, patch |-> marker[t].patch,
                             source |-> run.source[t], cause |-> "none"]
    <3>1. ASSUME NEW i \in Lanes, \E t \in New : row[t] = i PROVE Row(i) \in Rows
      <4>1. PICK t \in New : t = CHOOSE u \in New : row[u] = i
        BY <3>1
      <4>2. t \in Tasks
        BY <2>1
      <4>3. [status |-> "queued", task |-> t, patch |-> marker[t].patch,
             source |-> run.source[t], cause |-> "none"] \in Rows
        BY <4>2 DEF Rows, Passes
      <4>4. QED BY <4>1, <4>3
    <3>2. lane' = [i \in Lanes |-> IF \E t \in New : row[t] = i THEN Row(i) ELSE lane[i]]
      BY <2>2 DEF Inserted
    <3> HIDE DEF New, Row
    <3>3. QED BY <3>1, <3>2
  <2>5. QED BY <2>3, <2>4, <1>11 DEF Enqueue
<1>12. CASE EnqueueRefused \/ NothingToEnqueue
  <2>1. run' \in Passes
    BY <1>12, <1>0, ReturnTyped DEF EnqueueRefused, NothingToEnqueue, Block
  <2>2. QED BY <2>1, <1>12 DEF EnqueueRefused, NothingToEnqueue, durable
<1>13. CASE Drained
  <2>1. CASE Block /\ UNCHANGED <<lane, sealed>>
    <3>1. run' \in Passes
      BY <2>1, <1>0, ReturnTyped DEF Block
    <3>2. QED BY <2>1, <3>1, <1>13 DEF Drained
  <2>2. ASSUME NEW token \in Tokens, Return(TRUE, token), UNCHANGED <<lane, sealed>>
        PROVE  RecoveryTypeOK'
    <3>1. run' \in Passes
      BY <2>2, ReturnTyped
    <3>2. QED BY <2>2, <3>1, <1>13 DEF Drained
  <2>3. CASE Seal(Batch) /\ Goto("sweep")
    <3>1. run' \in Passes
      BY <2>3 DEF Goto, Passes, Places
    <3>2. lane' \in [Lanes -> Rows] /\ sealed' \in BOOLEAN
      BY <2>3, <1>2
    <3>3. QED BY <3>1, <3>2, <1>13 DEF Drained
  <2>4. [kind |-> "rerun", lanes |-> Newest(run.enqueued)] \in Tokens
    BY DEF Tokens, Newest, Passes
  <2>5. [kind |-> "redrive", lanes |-> Blocking(Batch)] \in Tokens
    BY DEF Tokens, Blocking
  <2>6. QED BY <1>13, <2>1, <2>2, <2>3, <2>4, <2>5 DEF Drained
<1>14. CASE Returned
  <2>1. run' \in Passes
    BY <1>14, IdleTyped DEF Returned, Places
  <2>2. loop' \in [token : Tokens, no_progress : Nat]
    BY <1>14 DEF Returned, Passes
  <2>3. QED BY <2>1, <2>2, <1>14 DEF Returned, durable
<1>15. CASE OperatorResumes
  <2>1. run' \in Passes
    BY <1>15, IdleTyped DEF OperatorResumes, Places
  <2>2. loop' \in [token : Tokens, no_progress : Nat]
    BY <1>15, <1>0 DEF OperatorResumes
  <2>3. QED BY <2>1, <2>2, <1>15 DEF OperatorResumes, durable
<1>16. CASE CheckpointRaises
  <2>1. run' \in Passes
    BY <1>16, <1>0, IdleTyped, ReturnTyped DEF CheckpointRaises, Block, Places
  <2>2. QED BY <2>1, <1>16 DEF CheckpointRaises, durable
<1>17. CASE Crash
  <2>1. run' \in Passes
    BY <1>17, IdleTyped DEF Crash, Places
  <2>2. QED BY <2>1, <1>17 DEF Crash, durable
<1>18. CASE UNCHANGED vars
  BY <1>18 DEF vars, durable
<1>19. QED
  BY <1>1, <1>3, <1>4, <1>5, <1>6, <1>7, <1>8, <1>9, <1>10, <1>11, <1>12, <1>13, <1>14, <1>15,
     <1>16, <1>17, <1>18 DEF RecoveryNext, Step

(* Every variable keeps its type, in every behaviour.                       *)
THEOREM RecoveryTyped == RecoverySpec => []RecoveryTypeOK
<1>1. RecoveryInit => RecoveryTypeOK
  <2>1. NoLane \in Rows /\ NoPatch \in Patches /\ NoToken \in Tokens
    BY DEF NoLane, NoPatch, NoToken, Rows, Patches, LaneIds, Tokens
  <2>2. [Idle EXCEPT !.pc = "enter"] \in Passes
    BY IdleTyped DEF Places
  <2>3. ASSUME RecoveryInit PROVE RecoveryTypeOK
    <3>1. lane \in [Lanes -> Rows]
      BY <2>1, <2>3 DEF RecoveryInit
    <3>2. marker \in [Tasks -> [status : {"none", "completed", "partial"}, patch : Patches]]
      BY <2>1, <2>3 DEF RecoveryInit
    <3>3. blocks \in [Tasks -> Nat] /\ loop \in [token : Tokens, no_progress : Nat]
      BY <2>1, <2>3 DEF RecoveryInit
    <3>4. QED BY <2>2, <2>3, <3>1, <3>2, <3>3 DEF RecoveryInit, RecoveryTypeOK
  <2>4. QED BY <2>3
<1>2. RecoveryTypeOK /\ [RecoveryNext]_vars => RecoveryTypeOK'
  BY RecoveryTypingStep
<1>3. QED BY <1>1, <1>2, PTL DEF RecoverySpec

----------------------------------------------------------------------------
(* No step takes a lane out of a commit.                                    *)
LEMMA LanesStand ==
  ASSUME RecoveryTypeOK, [RecoveryNext]_vars
  PROVE  Standing
<1>1. lane \in [Lanes -> Rows]
  BY DEF RecoveryTypeOK
<1>2. CASE UNCHANGED lane
  BY <1>2 DEF Standing, Candidates
<1>3. ASSUME NEW E, Seal(E) PROVE Standing
  <2>1. ASSUME NEW i \in Lanes, i \in Candidates
        PROVE  lane'[i] = [lane[i] EXCEPT !.status = "done"]
    BY <2>1, <1>3 DEF Seal
  <2>2. ASSUME NEW i \in Lanes, lane[i].status = "done" PROVE lane'[i] = lane[i]
    <3>1. i \in Candidates
      BY <2>2 DEF Candidates
    <3>2. [lane[i] EXCEPT !.status = "done"] = lane[i]
      BY <1>1, <2>2 DEF Rows
    <3>3. QED BY <2>1, <3>1, <3>2
  <2>3. ASSUME NEW i \in Lanes, i \in Candidates
        PROVE  lane'[i].status = "done" /\ lane'[i].task = lane[i].task
    BY <1>1, <2>1, <2>3 DEF Rows
  <2>4. QED BY <2>2, <2>3 DEF Standing, Candidates
<1>4. ASSUME NEW i \in Lanes, NEW status \in {"integrated", "failed"}, NEW cause,
             DrainedAs(i, status, cause)
      PROVE  Standing
  <2>1. lane[i].status = "queued" /\ \A j \in Lanes \ {i} : lane'[j] = lane[j]
    BY <1>1, <1>4 DEF DrainedAs, Queued
  <2>2. QED BY <2>1 DEF Standing, Candidates
<1>5. CASE Enqueue
  <2>1. \A i \in Lanes : lane[i].status # "none" => lane'[i] = lane[i]
    BY <1>5 DEF Enqueue, Inserted
  <2>2. QED BY <2>1 DEF Standing, Candidates
<1>6. CASE RecoveryNext
  BY <1>2, <1>3, <1>4, <1>5, <1>6
  DEF RecoveryNext, Step, Enter, Redriven, Sweep, Plan, Gathered, DrainLane, CountBlock, Mark,
      TaskReturns, EnqueueRefused, NothingToEnqueue, Drained, Returned, OperatorResumes,
      CheckpointRaises, Crash, durable
<1>7. CASE UNCHANGED vars
  BY <1>2, <1>7 DEF vars, durable
<1>8. QED BY <1>6, <1>7

(* A covered task stays covered by the steps that undo no lane.             *)
LEMMA CoveringStands ==
  ASSUME Standing, NEW t \in Tasks, Covering(t) # {}
  PROVE  Covering(t)' # {}
<1>1. PICK i \in Lanes : i \in Candidates /\ lane[i].task = t
  BY DEF Covering, LanesOf
<1>2. i \in Candidates' /\ lane'[i].task = t
  BY <1>1 DEF Standing
<1>3. QED BY <1>2 DEF Covering, LanesOf

(* A checkpoint of tasks that leave nothing out covers the group.           *)
LEMMA SealingCovers ==
  ASSUME RecoveryTypeOK, NEW E \in SUBSET Tasks, Seal(E),
         \A t \in Tasks : t \in E \/ Covering(t) # {}
  PROVE  SealCoversGroup'
<1>1. ASSUME NEW t \in Tasks PROVE Covering(t) # {}
  <2>1. CASE t \in E
    <3>1. Cardinality(Covering(t)) = 1
      BY <2>1 DEF Seal, Approved, CoveredOnce
    <3>2. Cardinality({}) = 0
      BY FS_EmptySet
    <3>3. QED BY <3>1, <3>2
  <2>2. QED BY <2>1
<1>2. ASSUME NEW t \in Tasks, NEW i \in Covering(t)
      PROVE  lane'[i].status = "done" /\ lane'[i].task = t
  <2>1. i \in Lanes /\ i \in Candidates /\ lane[i].task = t
    BY DEF Covering, Candidates, LanesOf
  <2>2. lane'[i] = [lane[i] EXCEPT !.status = "done"]
    BY <2>1 DEF Seal
  <2>3. QED BY <2>1, <2>2 DEF RecoveryTypeOK, Rows
<1>3. QED BY <1>1, <1>2 DEF SealCoversGroup, LanesOf, Covering, Candidates

----------------------------------------------------------------------------
(* A step that keeps a pass's tasks in hand leaves it as it was.            *)
LEMMA PassGoesOn ==
  ASSUME InHand, AllEnded, Standing,
         run'.todo = run.todo, run'.resumed = run.resumed, run'.result = run.result,
         run'.pc \in {"dispatch", "count", "mark", "drain"} =>
           run.pc \in {"dispatch", "count", "mark", "drain"},
         run'.pc \in {"count", "mark", "drain"} => run.pc \in {"count", "mark", "drain"}
  PROVE  InHand' /\ AllEnded'
<1>1. InHand'
  BY CoveringStands DEF InHand
<1>2. AllEnded'
  BY DEF AllEnded
<1>3. QED BY <1>1, <1>2

(* Elsewhere nothing is in hand.                                            *)
LEMMA PassIsOver ==
  ASSUME run'.pc \notin {"dispatch", "count", "mark", "drain"}
  PROVE  InHand' /\ AllEnded'
BY DEF InHand, AllEnded

(* A pass has every task in hand or ended, whatever step it takes.          *)
LEMMA PassStep ==
  ASSUME RecoveryInv, [RecoveryNext]_vars, Standing
  PROVE  InHand' /\ AllEnded'
<1> USE DEF RecoveryInv
<1>0. run \in Passes
  BY DEF RecoveryTypeOK
<1>1. ASSUME NEW recoverable, NEW token, Return(recoverable, token) PROVE InHand' /\ AllEnded'
  <2>1. run'.pc = "returned"
    BY <1>1 DEF Return, Idle
  <2>2. QED BY <2>1, PassIsOver
<1>2. ASSUME NEW pc, run' = [Idle EXCEPT !.pc = pc] \/ Goto(pc),
             pc \notin {"dispatch", "count", "mark", "drain"}
      PROVE  InHand' /\ AllEnded'
  <2>1. run'.pc = pc
    BY <1>0, <1>2 DEF Goto, Idle, Passes
  <2>2. QED BY <1>2, <2>1, PassIsOver
<1>3. CASE Enter
  BY <1>2, <1>3 DEF Enter
<1>4. CASE Redriven
  BY <1>2, <1>4 DEF Redriven
<1>5. CASE Sweep
  BY <1>2, <1>5 DEF Sweep
<1>6. CASE Plan
  <2>1. CASE Block \/ Goto("verify")
    <3>1. CASE Block
      BY <1>1, <3>1 DEF Block
    <3>2. CASE Goto("verify")
      BY <1>2, <3>2
    <3>3. QED BY <2>1, <3>1, <3>2
  <2>2. CASE Deciding({"escalate", "stuck"}) = {} /\ ~Block /\ ~Goto("verify")
    <3>1. run'.pc = "dispatch" /\ run'.todo = Deciding({"rerun", "dispatch"})
            /\ run'.resumed = Deciding({"resume"})
      BY <1>6, <2>2 DEF Plan, Idle
    <3>2. \A t \in Tasks : Decide(t) \in {"rerun", "escalate", "landed", "stuck", "resume", "dispatch"}
      BY DEF Decide
    <3>3. ASSUME NEW t \in Tasks, Decide(t) = "landed" PROVE Covering(t) # {}
      <4>1. Integrated(t)
        BY <3>3 DEF Decide
      <4>2. QED BY <4>1 DEF Integrated, Covering, Candidates, LanesOf
    <3>4. \A t \in Tasks : t \in run'.todo \cup run'.resumed \/ Covering(t) # {}
      BY <2>2, <3>1, <3>2, <3>3 DEF Deciding
    <3>5. InHand'
      BY <3>4, CoveringStands DEF InHand
    <3>6. QED BY <3>1, <3>5 DEF AllEnded
  <2>3. QED BY <1>6, <2>1, <2>2 DEF Plan
<1>7. CASE Gathered
  <2>1. run'.todo = run.todo /\ run'.resumed = run.resumed /\ run'.result = run.result
          /\ run.pc = "dispatch"
    BY <1>0, <1>7 DEF Gathered, At, Passes
  <2>2. \A t \in run.todo : run.result[t] # "none"
    BY <1>7 DEF Gathered, Ended
  <2>3. InHand'
    BY <2>1, CoveringStands DEF InHand
  <2>4. QED BY <2>1, <2>2, <2>3 DEF AllEnded
<1>8. ASSUME NEW i \in Lanes, DrainLane(i) PROVE InHand' /\ AllEnded'
  <2>1. run' = [run EXCEPT !.failed = run'.failed]
    BY <1>0, <1>8 DEF DrainLane, DrainedAs, Passes
  <2>2. QED BY <1>0, <2>1, PassGoesOn DEF Passes
<1>9. ASSUME NEW t \in Tasks, CountBlock(t) PROVE InHand' /\ AllEnded'
  BY <1>0, <1>9, PassGoesOn DEF CountBlock, Passes
<1>10. ASSUME NEW t \in Tasks, Mark(t) PROVE InHand' /\ AllEnded'
  BY <1>0, <1>10, PassGoesOn DEF Mark, At, Passes
<1>11. ASSUME NEW t \in Tasks, NEW how, TaskReturns(t, how) PROVE InHand' /\ AllEnded'
  <2>1. run.pc = "dispatch" /\ run'.pc = "dispatch"
          /\ run'.todo = run.todo /\ run'.resumed = run.resumed
    BY <1>0, <1>11 DEF TaskReturns, At, Passes
  <2>2. InHand'
    BY <2>1, CoveringStands DEF InHand
  <2>3. QED BY <2>1, <2>2 DEF AllEnded
<1>12. CASE Enqueue
  <2>1. run.pc = "count" /\ run' = [run EXCEPT !.pc = "mark", !.left = Batch,
                                               !.enqueued = run'.enqueued]
    BY <1>0, <1>12 DEF Enqueue, At, Passes
  <2>2. QED BY <1>0, <2>1, PassGoesOn DEF Passes
<1>13. CASE EnqueueRefused \/ NothingToEnqueue
  BY <1>1, <1>13 DEF EnqueueRefused, NothingToEnqueue, Block
<1>14. CASE Drained
  <2>1. CASE Goto("sweep")
    BY <1>2, <2>1
  <2>2. CASE Block
    BY <1>1, <2>2 DEF Block
  <2>3. ASSUME NEW token, Return(TRUE, token) PROVE InHand' /\ AllEnded'
    BY <1>1, <2>3
  <2>4. QED BY <1>14, <2>1, <2>2, <2>3 DEF Drained
<1>15. CASE Returned
  <2>1. run'.pc \in {"enter", "halted"}
    BY <1>15 DEF Returned, Idle
  <2>2. QED BY <2>1, PassIsOver
<1>16. CASE OperatorResumes
  BY <1>2, <1>16 DEF OperatorResumes
<1>17. CASE CheckpointRaises
  BY <1>1, <1>2, <1>17 DEF CheckpointRaises, Block
<1>18. CASE Crash
  <2>1. run'.pc = "halted"
    BY <1>18 DEF Crash, Idle
  <2>2. QED BY <2>1, PassIsOver
<1>19. CASE UNCHANGED vars
  BY <1>19, PassGoesOn DEF vars
<1>20. QED
  BY <1>3, <1>4, <1>5, <1>6, <1>7, <1>8, <1>9, <1>10, <1>11, <1>12, <1>13, <1>14, <1>15, <1>16,
     <1>17, <1>18, <1>19 DEF RecoveryNext, Step

(* A sealed group stays covered by done lanes.                              *)
LEMMA SealedStep ==
  ASSUME RecoveryInv, [RecoveryNext]_vars, Standing
  PROVE  SealCoversGroup'
<1> USE DEF RecoveryInv
<1>1. CASE UNCHANGED sealed
  <2>1. ASSUME sealed, NEW t \in Tasks PROVE \E i \in Lanes : lane'[i].task = t /\ lane'[i].status = "done"
    <3>1. PICK i \in Lanes : lane[i].task = t /\ lane[i].status = "done"
      BY <2>1 DEF SealCoversGroup, LanesOf
    <3>2. QED BY <3>1 DEF Standing
  <2>2. QED BY <1>1, <2>1 DEF SealCoversGroup, LanesOf
<1>2. CASE Redriven
  <2>1. CASE Seal(Tasks)
    BY <2>1, SealingCovers
  <2>2. QED BY <1>1, <1>2, <2>1 DEF Redriven
<1>3. CASE Drained
  <2>1. CASE Seal(Batch) /\ Ended("blocked") = {}
    <3>1. Batch \subseteq Tasks
      BY DEF Batch, Ended, RecoveryTypeOK, Passes
    <3>2. ASSUME NEW t \in run.todo PROVE t \in Batch
      <4>1. run.result[t] # "none" /\ run.result[t] # "blocked"
        BY <1>3, <2>1 DEF Drained, At, AllEnded, Ended
      <4>2. run.result[t] \in {"none", "completed", "partial", "blocked"}
        BY DEF RecoveryTypeOK, Passes
      <4>3. QED BY <4>1, <4>2 DEF Batch, Ended
    <3>3. \A t \in Tasks : t \in Batch \/ Covering(t) # {}
      BY <1>3, <3>2 DEF Drained, At, InHand, Batch
    <3>4. QED BY <2>1, <3>1, <3>3, SealingCovers
  <2>2. QED BY <1>1, <1>3, <2>1 DEF Drained
<1>4. CASE UNCHANGED vars
  BY <1>1, <1>4 DEF vars, durable
<1>5. QED
  BY <1>1, <1>2, <1>3, <1>4
  DEF RecoveryNext, Step, Enter, Sweep, Plan, Gathered, DrainLane, CountBlock, Mark, TaskReturns,
      Enqueue, EnqueueRefused, NothingToEnqueue, Returned, OperatorResumes, CheckpointRaises,
      Crash, durable

(* The invariant: types, what a pass has in hand, and the sealed group.     *)
THEOREM RecoveryInvariant == RecoverySpec => []RecoveryInv
<1>1. RecoveryInit => InHand /\ AllEnded /\ SealCoversGroup
  BY DEF RecoveryInit, Idle, InHand, AllEnded, SealCoversGroup
<1>2. RecoveryInv /\ [RecoveryNext]_vars /\ RecoveryTypeOK' => RecoveryInv'
  BY LanesStand, PassStep, SealedStep DEF RecoveryInv
<1>3. QED BY <1>1, <1>2, RecoveryTyped, PTL DEF RecoverySpec, RecoveryInv

(* A sealed group has a done lane for each of its tasks, in every run.      *)
THEOREM SealedIsCovered == RecoverySpec => []SealCoversGroup
BY RecoveryInvariant, PTL DEF RecoveryInv

------------------------------------------------------------------------------
(* The budget of reruns.                                                    *)

(* A row in use has a task, a cause once it has failed, and replaces a lane *)
(* of its task that the hook rejected.                                      *)
RowsInv ==
  \A i \in Lanes :
    /\ lane[i].status = "none" => lane[i].source = 0 /\ lane[i].task = NoTask
    /\ lane[i].status # "none" => lane[i].task \in Tasks
    /\ lane[i].status = "failed" <=> lane[i].cause # "none"
    /\ lane[i].source # 0 => lane[i].source \in HookFailed(lane[i].task)

(* Of two lanes of a task one was replaced: the lanes of a task are a chain *)
(* with one head.                                                           *)
OneHead ==
  \A i, j \in Lanes :
    i # j /\ lane[i].task = lane[j].task /\ lane[i].status # "none" => Replaced(i) \/ Replaced(j)

(* A rerun that is planned starts from a rejected lane, and its task is in  *)
(* no commit.                                                               *)
SourcesInv ==
  run.pc \in {"dispatch", "count"} =>
    \A t \in Tasks : run.source[t] # 0 =>
      run.source[t] \in HookFailed(t) /\ ~Integrated(t) /\ t \notin run.resumed

Charged(t) == run.pc = "count" /\ run.result[t] = "blocked" /\ t \notin run.left

(* Until it is charged or queued, a planned rerun is within the budget.     *)
WithinBudget ==
  run.pc \in {"dispatch", "count"} =>
    \A t \in Tasks : run.source[t] # 0 /\ ~Charged(t) => Refailures(t) + blocks[t] < MaxReruns

LeftInv ==
  run.pc = "count" => \A t \in run.left : run.result[t] = "blocked" /\ run.source[t] # 0

(* As long as nothing crashed, no lane waits but behind an enqueue.         *)
NothingWaits == faults = 0 /\ run.pc \notin {"mark", "drain"} => Queued = {}

SealedInv ==
  /\ \A i \in Lanes : lane[i].status = "done" => sealed
  /\ run.pc \in {"redrive", "plan", "dispatch", "count", "mark", "drain"} => ~sealed

LanesInv == RowsInv /\ OneHead
PlanInv  == SourcesInv /\ WithinBudget /\ LeftInv /\ NothingWaits /\ SealedInv
BudgetInv == RecoveryTypeOK /\ LanesInv /\ PlanInv /\ RerunsAreBounded

----------------------------------------------------------------------------
(* Numbers of lanes.                                                        *)
LEMMA LanesCount ==
  /\ \A S \in SUBSET Lanes : IsFiniteSet(S) /\ Cardinality(S) \in Nat
  /\ \A S \in SUBSET Lanes : \A T \in SUBSET S : Cardinality(T) <= Cardinality(S)
  /\ \A S \in SUBSET Lanes, i \in Lanes : Cardinality(S \cup {i}) <= Cardinality(S) + 1
<1>1. IsFiniteSet(Lanes)
  BY RecoveryAssumption, FS_Interval DEF Lanes
<1>2. ASSUME NEW S \in SUBSET Lanes PROVE IsFiniteSet(S) /\ Cardinality(S) \in Nat
  BY <1>1, FS_Subset, FS_CardinalityType
<1>3. ASSUME NEW S \in SUBSET Lanes, NEW T \in SUBSET S PROVE Cardinality(T) <= Cardinality(S)
  BY <1>2, FS_Subset
<1>4. ASSUME NEW S \in SUBSET Lanes, NEW i \in Lanes
      PROVE  Cardinality(S \cup {i}) <= Cardinality(S) + 1
  <2>1. Cardinality(S \cup {i}) = IF i \in S THEN Cardinality(S) ELSE Cardinality(S) + 1
    BY <1>2, FS_AddElement
  <2>2. QED BY <1>2, <2>1
<1>5. QED BY <1>2, <1>3, <1>4

(* A replaced lane was rejected by the hook.                                *)
LEMMA ReplacedIsRejected ==
  ASSUME RecoveryTypeOK, RowsInv, NEW i \in Lanes, Replaced(i)
  PROVE  i \in HookFailed(lane[i].task) /\ lane[i].status = "failed"
<1>1. PICK j \in Lanes : lane[j].source = i
  BY DEF Replaced
<1>2. i # 0
  BY RecoveryAssumption DEF Lanes
<1>3. i \in HookFailed(lane[j].task)
  BY <1>1, <1>2 DEF RowsInv
<1>4. QED BY <1>3 DEF HookFailed, LanesOf

(* At most one rerun of a task is not yet a refailure; none is, when no     *)
(* lane of the task waits or is in a commit.                                *)
LEMMA OneRerunOpen ==
  ASSUME RecoveryTypeOK, LanesInv, NEW t \in Tasks
  PROVE  /\ Refailed(t) \in SUBSET Lanes /\ Reruns(t) \in SUBSET Lanes
         /\ Cardinality(Reruns(t)) <= Refailures(t) + 1
         /\ (\A i \in LanesOf(t) : lane[i].status = "failed") =>
              Cardinality(Reruns(t)) <= Refailures(t)
<1>1. Refailed(t) \in SUBSET Lanes /\ Reruns(t) \in SUBSET Lanes
  BY DEF Refailed, Reruns, HookFailed, LanesOf
<1>2. Refailures(t) = Cardinality(Refailed(t))
  BY DEF Refailures
<1>3. ASSUME NEW i \in Reruns(t), lane[i].status = "failed" PROVE i \in Refailed(t)
  <2>1. lane[i].cause \in Hygiene
    BY <1>3 DEF RecoveryTypeOK, Rows, LanesInv, RowsInv, Reruns, LanesOf
  <2>2. QED BY <1>3, <2>1 DEF Reruns, Refailed, HookFailed
<1>4. ASSUME NEW i \in Reruns(t), NEW j \in Reruns(t), i \notin Refailed(t), j \notin Refailed(t)
      PROVE  i = j
  <2>1. ~Replaced(i) /\ ~Replaced(j)
    BY <1>1, <1>3, <1>4, ReplacedIsRejected DEF LanesInv
  <2>2. lane[i].task = t /\ lane[j].task = t /\ lane[i].status # "none"
    BY DEF Reruns, LanesOf, LanesInv, RowsInv
  <2>3. QED BY <1>1, <2>1, <2>2 DEF LanesInv, OneHead
<1>5. CASE Reruns(t) \subseteq Refailed(t)
  BY <1>1, <1>2, <1>5, LanesCount
<1>6. CASE ~(Reruns(t) \subseteq Refailed(t))
  <2>1. PICK i \in Reruns(t) : i \notin Refailed(t)
    BY <1>6
  <2>2. Reruns(t) \in SUBSET (Refailed(t) \cup {i})
    BY <1>4, <2>1
  <2>3. Refailed(t) \cup {i} \in SUBSET Lanes
    BY <1>1
  <2>4. Cardinality(Reruns(t)) <= Cardinality(Refailed(t) \cup {i})
    BY <2>2, <2>3, LanesCount
  <2>5. Cardinality(Refailed(t) \cup {i}) <= Cardinality(Refailed(t)) + 1
    BY <1>1, LanesCount
  <2>6. Cardinality(Reruns(t)) \in Nat /\ Cardinality(Refailed(t)) \in Nat
          /\ Cardinality(Refailed(t) \cup {i}) \in Nat
    BY <1>1, <2>3, LanesCount
  <2>7. Cardinality(Reruns(t)) <= Refailures(t) + 1
    BY <1>2, <2>4, <2>5, <2>6
  <2>8. ~ \A j \in LanesOf(t) : lane[j].status = "failed"
    BY <1>3, <2>1 DEF Reruns
  <2>9. QED BY <1>1, <2>7, <2>8
<1>7. QED BY <1>5, <1>6

----------------------------------------------------------------------------
(* A step that enqueues nothing: tasks and sources stay, and so does a row  *)
(* that has failed.                                                         *)
Settling ==
  \A i \in Lanes :
    /\ lane'[i].task = lane[i].task /\ lane'[i].source = lane[i].source
    /\ lane'[i].status = "none" <=> lane[i].status = "none"
    /\ lane'[i].status = "failed" <=> lane'[i].cause # "none"
    /\ lane[i].status = "failed" => lane'[i] = lane[i]

(* Settling lanes keeps the ledger consistent and raises no rerun count.    *)
LEMMA SettlingKeepsLanes ==
  ASSUME RecoveryTypeOK, LanesInv, Settling
  PROVE  /\ LanesInv'
         /\ \A t \in Tasks : Reruns(t)' \in SUBSET Reruns(t)
<1>1. ASSUME NEW t, NEW i \in HookFailed(t) PROVE i \in HookFailed(t)'
  BY DEF Settling, HookFailed, LanesOf
<1>2. RowsInv'
  BY <1>1 DEF LanesInv, RowsInv, Settling
<1>3. OneHead'
  BY DEF LanesInv, OneHead, Replaced, Settling
<1>4. ASSUME NEW t \in Tasks, NEW i \in Reruns(t)' PROVE i \in Reruns(t)
  <2>1. i \in Lanes /\ lane[i].task = t /\ lane[i].source # 0
    BY DEF Reruns, LanesOf, Settling
  <2>2. lane[i].cause # "other"
    <3>1. CASE lane[i].status = "failed"
      BY <2>1, <3>1 DEF Reruns, Settling
    <3>2. CASE lane[i].status # "failed"
      BY <2>1, <3>2 DEF LanesInv, RowsInv
    <3>3. QED BY <3>1, <3>2
  <2>3. lane'[lane[i].source] = lane[lane[i].source]
    BY <2>1 DEF LanesInv, RowsInv, HookFailed, LanesOf, Settling
  <2>4. lane'[lane'[i].source].cause = "hook_output" /\ lane'[i].source = lane[i].source
    BY <2>1 DEF Reruns, Settling
  <2>5. QED BY <2>1, <2>2, <2>3, <2>4 DEF Reruns, LanesOf
<1>5. QED BY <1>2, <1>3, <1>4 DEF LanesInv

(* The drain of a pass settles lanes.                                       *)
LEMMA DrainSettles ==
  ASSUME RecoveryTypeOK, LanesInv, NEW i \in Lanes, NEW status, NEW cause,
         DrainedAs(i, status, cause),
         \/ status = "integrated" /\ cause = "none"
         \/ status = "failed" /\ cause \in Hygiene \cup {"other"}
  PROVE  Settling
<1>1. lane[i].status = "queued"
  BY DEF DrainedAs, Queued
<1>2. lane' = [lane EXCEPT ![i] = [@ EXCEPT !.status = status, !.cause = cause]]
  BY DEF DrainedAs
<1>3. lane'[i].task = lane[i].task /\ lane'[i].source = lane[i].source
        /\ lane'[i].status = status /\ lane'[i].cause = cause
  BY <1>2 DEF RecoveryTypeOK, Rows
<1>4. \A j \in Lanes \ {i} : lane'[j] = lane[j]
  BY <1>2 DEF RecoveryTypeOK
<1>5. QED BY <1>1, <1>3, <1>4 DEF Settling, LanesInv, RowsInv, Hygiene

(* So does the seal of a group.                                             *)
LEMMA SealSettles ==
  ASSUME RecoveryTypeOK, LanesInv, NEW E, Seal(E)
  PROVE  Settling
<1>1. ASSUME NEW i \in Lanes, i \in Candidates
      PROVE  /\ lane'[i].task = lane[i].task /\ lane'[i].source = lane[i].source
             /\ lane'[i].cause = lane[i].cause /\ lane'[i].status = "done"
  <2>1. lane'[i] = [lane[i] EXCEPT !.status = "done"]
    BY <1>1 DEF Seal
  <2>2. QED BY <2>1 DEF RecoveryTypeOK, Rows
<1>2. ASSUME NEW i \in Lanes, i \notin Candidates PROVE lane'[i] = lane[i]
  BY <1>2 DEF Seal
<1>3. QED BY <1>1, <1>2 DEF Settling, Candidates, LanesInv, RowsInv

(* And a step that leaves the lanes alone.                                  *)
LEMMA UnchangedSettles ==
  ASSUME LanesInv, UNCHANGED lane
  PROVE  Settling
BY DEF Settling, LanesInv, RowsInv

----------------------------------------------------------------------------
(* The lanes of a task whose head the hook rejected have all been rejected. *)
LEMMA RejectedHead ==
  ASSUME RecoveryTypeOK, LanesInv, NEW t \in Tasks, NEW s \in HookFailed(t), ~Replaced(s),
         NEW i \in LanesOf(t)
  PROVE  i \in HookFailed(t) /\ (i # s => Replaced(i))
<1>1. s \in Lanes /\ i \in Lanes /\ lane[s].task = t /\ lane[i].task = t /\ lane[s].status = "failed"
  BY DEF HookFailed, LanesOf
<1>2. ASSUME i # s PROVE Replaced(i)
  BY <1>1, <1>2 DEF LanesInv, OneHead
<1>3. QED BY <1>1, <1>2, ReplacedIsRejected DEF LanesInv

(* An enqueue keeps the ledger consistent and the reruns bounded.           *)
LEMMA EnqueueKeepsLanes ==
  ASSUME RecoveryTypeOK, LanesInv, PlanInv, RerunsAreBounded, Enqueue
  PROVE  LanesInv' /\ RerunsAreBounded'
<1> DEFINE New == {t \in Batch : Existing(t) = {}}
<1>1. PICK row \in [New -> Lanes] : Inserted(New, row)
  BY DEF Enqueue
<1>2. run.pc = "count"
  BY DEF Enqueue, At
<1>3. New \subseteq Tasks
  BY DEF Batch, Ended, RecoveryTypeOK, Passes
<1>4. ASSUME NEW t \in New
      PROVE  /\ run.source[t] = 0 => LanesOf(t) = {}
             /\ run.source[t] # 0 => run.source[t] \in HookFailed(t) /\ ~Replaced(run.source[t])
  <2>1. Acceptable(t) /\ Existing(t) = {}
    BY DEF Enqueue
  <2>2. QED BY <1>2, <1>3, <2>1 DEF Acceptable, PlanInv, SourcesInv
<1> HIDE DEF New
<1>5. ASSUME NEW t \in New
      PROVE  /\ row[t] \in Lanes /\ lane[row[t]].status = "none"
             /\ lane'[row[t]].status = "queued" /\ lane'[row[t]].task = t
             /\ lane'[row[t]].source = run.source[t] /\ lane'[row[t]].cause = "none"
  <2>1. row[t] \in Lanes /\ lane[row[t]].status = "none"
    BY <1>1 DEF Inserted
  <2>2. t = CHOOSE u \in New : row[u] = row[t]
    BY <1>1 DEF Inserted
  <2>3. lane'[row[t]] = [status |-> "queued", task |-> t, patch |-> marker[t].patch,
                         source |-> run.source[t], cause |-> "none"]
    BY <1>1, <2>1, <2>2 DEF Inserted
  <2>4. QED BY <2>1, <2>3
<1>6. ASSUME NEW i \in Lanes, \A t \in New : row[t] # i PROVE lane'[i] = lane[i]
  BY <1>1, <1>6 DEF Inserted
<1>7. ASSUME NEW i \in Lanes, lane[i].status # "none" PROVE lane'[i] = lane[i]
  BY <1>5, <1>6, <1>7
<1>8. ASSUME NEW t, NEW i \in HookFailed(t) PROVE i \in HookFailed(t)'
  BY <1>7 DEF HookFailed, LanesOf
<1>9. ASSUME NEW i \in Lanes, Replaced(i) PROVE Replaced(i)'
  BY <1>7, <1>9, RecoveryAssumption DEF Replaced, LanesInv, RowsInv, Lanes
<1>10. RowsInv'
  <2>1. ASSUME NEW t \in New, run.source[t] # 0 PROVE run.source[t] \in HookFailed(t)'
    BY <1>4, <1>8, <2>1
  <2>2. ASSUME NEW i \in Lanes
        PROVE /\ lane'[i].status = "none" => lane'[i].source = 0 /\ lane'[i].task = NoTask
              /\ lane'[i].status # "none" => lane'[i].task \in Tasks
              /\ lane'[i].status = "failed" <=> lane'[i].cause # "none"
              /\ lane'[i].source # 0 => lane'[i].source \in HookFailed(lane[i].task)'
    <3>1. CASE \E t \in New : row[t] = i
      BY <1>3, <1>5, <2>1, <3>1
    <3>2. CASE \A t \in New : row[t] # i
      BY <1>6, <1>8, <3>2 DEF LanesInv, RowsInv
    <3>3. QED BY <3>1, <3>2
  <2>3. QED BY <2>2 DEF RowsInv
<1>11. ASSUME NEW t \in New, NEW j \in Lanes, lane[j].status # "none", lane[j].task = t
       PROVE  Replaced(j)'
  <2>1. j \in LanesOf(t)
    BY <1>11 DEF LanesOf
  <2>2. run.source[t] # 0
    BY <1>4, <2>1
  <2>3. CASE j = run.source[t]
    BY <1>5, <2>3 DEF Replaced
  <2>4. CASE j # run.source[t]
    <3>1. Replaced(j)
      BY <1>3, <1>4, <2>1, <2>2, <2>4, RejectedHead
    <3>2. QED BY <1>9, <3>1
  <2>5. QED BY <2>3, <2>4
<1>12. OneHead'
  <2>1. ASSUME NEW i \in Lanes, NEW j \in Lanes, i # j, lane'[i].task = lane'[j].task,
               lane'[i].status # "none"
        PROVE  Replaced(i)' \/ Replaced(j)'
    <3>0. lane'[j].status # "none"
      BY <1>10, <2>1, RecoveryAssumption DEF RowsInv
    <3>1. CASE \E t \in New : row[t] = i
      <4>1. PICK t \in New : row[t] = i
        BY <3>1
      <4>2. lane'[j].task = t /\ row[t] # j
        BY <1>5, <2>1, <4>1
      <4>3. \A u \in New : row[u] # j
        BY <1>5, <4>2
      <4>4. lane[j].task = t /\ lane[j].status # "none"
        BY <1>6, <3>0, <4>2, <4>3
      <4>5. QED BY <1>11, <4>4
    <3>2. CASE \E t \in New : row[t] = j
      <4>1. PICK t \in New : row[t] = j
        BY <3>2
      <4>2. lane'[i].task = t /\ row[t] # i
        BY <1>5, <2>1, <4>1
      <4>3. \A u \in New : row[u] # i
        BY <1>5, <4>2
      <4>4. lane[i].task = t /\ lane[i].status # "none"
        BY <1>6, <2>1, <4>2, <4>3
      <4>5. QED BY <1>11, <4>4
    <3>3. CASE \A t \in New : row[t] # i /\ row[t] # j
      BY <1>6, <1>9, <2>1, <3>3 DEF LanesInv, OneHead
    <3>4. QED BY <3>1, <3>2, <3>3
  <2>2. QED BY <2>1 DEF OneHead
<1>13. ASSUME NEW t \in Tasks, NEW i \in Reruns(t)', \A u \in New : row[u] # i
       PROVE  i \in Reruns(t)
  <2>1. i \in Lanes /\ lane'[i] = lane[i] /\ lane[i].source # 0
    BY <1>6, <1>13 DEF Reruns, LanesOf
  <2>2. lane[i].source \in Lanes /\ lane[lane[i].source].status = "failed"
    BY <2>1 DEF LanesInv, RowsInv, HookFailed, LanesOf
  <2>3. lane'[lane[i].source] = lane[lane[i].source]
    BY <1>7, <2>2
  <2>4. QED BY <2>1, <2>3 DEF Reruns, LanesOf
<1>14. ASSUME NEW t \in Tasks
       PROVE  Cardinality(Reruns(t)') + blocks[t]
                <= MaxReruns + IF faults = 0 THEN 0 ELSE 1
  <2>0. /\ Reruns(t) \in SUBSET Lanes /\ Reruns(t)' \in SUBSET Lanes
        /\ Cardinality(Reruns(t)) \in Nat /\ Cardinality(Reruns(t)') \in Nat
        /\ blocks[t] \in Nat /\ MaxReruns \in Nat /\ Refailures(t) \in Nat
    BY LanesCount, CountsAreNaturals, RecoveryAssumption DEF Reruns, LanesOf, RecoveryTypeOK
  <2>1. CASE Reruns(t)' \subseteq Reruns(t)
    <3>1. Cardinality(Reruns(t)') <= Cardinality(Reruns(t))
      BY <2>0, <2>1, LanesCount
    <3>2. QED BY <2>0, <3>1 DEF RerunsAreBounded
  <2>2. CASE ~(Reruns(t)' \subseteq Reruns(t))
    <3>1. PICK i \in Reruns(t)' : i \notin Reruns(t)
      BY <2>2
    <3>2. PICK u \in New : row[u] = i
      BY <1>13, <3>1
    <3>3. u = t /\ run.source[t] # 0
      BY <1>5, <3>1, <3>2 DEF Reruns, LanesOf
    <3>4. Reruns(t)' \subseteq Reruns(t) \cup {i}
      <4>1. ASSUME NEW j \in Reruns(t)', j \notin Reruns(t) PROVE j = i
        <5>1. PICK v \in New : row[v] = j
          BY <1>13, <4>1
        <5>2. v = t
          BY <1>5, <4>1, <5>1 DEF Reruns, LanesOf
        <5>3. QED BY <3>2, <3>3, <5>1, <5>2
      <4>2. QED BY <4>1
    <3>5. \A j \in LanesOf(t) : lane[j].status = "failed"
      BY <1>4, <3>2, <3>3, RejectedHead DEF HookFailed
    <3>6. Cardinality(Reruns(t)) <= Refailures(t)
      BY <3>5, OneRerunOpen
    <3>7. Refailures(t) + blocks[t] < MaxReruns
      <4>1. ~Charged(t)
        <5>1. t \in Batch /\ t \notin run.resumed
          BY <1>2, <3>2, <3>3 DEF New, PlanInv, SourcesInv
        <5>2. QED BY <5>1 DEF Batch, Ended, Charged
      <4>2. QED BY <1>2, <3>3, <4>1 DEF PlanInv, WithinBudget
    <3>8. Cardinality(Reruns(t)') <= Cardinality(Reruns(t)) + 1
      <4>1. i \in Lanes /\ Reruns(t) \cup {i} \in SUBSET Lanes
        BY <2>0, <3>1
      <4>2. Cardinality(Reruns(t) \cup {i}) <= Cardinality(Reruns(t)) + 1
              /\ Cardinality(Reruns(t) \cup {i}) \in Nat
        BY <2>0, <4>1, LanesCount
      <4>3. Cardinality(Reruns(t)') <= Cardinality(Reruns(t) \cup {i})
        BY <3>4, <4>1, LanesCount
      <4>4. QED BY <2>0, <4>2, <4>3
    <3>9. QED BY <2>0, <3>6, <3>7, <3>8
  <2>3. QED BY <2>1, <2>2
<1>15. RerunsAreBounded'
  BY <1>14 DEF RerunsAreBounded, Enqueue
<1>16. QED BY <1>10, <1>12, <1>15 DEF LanesInv

----------------------------------------------------------------------------
(* The step of the lanes and of the bound.                                  *)
LEMMA SettlingKeepsBound ==
  ASSUME RecoveryTypeOK, LanesInv, RerunsAreBounded, Settling, UNCHANGED blocks,
         faults' = 0 => faults = 0
  PROVE  LanesInv' /\ RerunsAreBounded'
<1>1. LanesInv' /\ \A t \in Tasks : Reruns(t)' \in SUBSET Reruns(t)
  BY SettlingKeepsLanes
<1>2. ASSUME NEW t \in Tasks
      PROVE  Cardinality(Reruns(t)') + blocks'[t]
               <= MaxReruns + IF faults' = 0 THEN 0 ELSE 1
  <2>1. Reruns(t) \in SUBSET Lanes
    BY DEF Reruns, LanesOf
  <2>2. Cardinality(Reruns(t)') <= Cardinality(Reruns(t))
    BY <1>1, <2>1, LanesCount
  <2>3. Cardinality(Reruns(t)) \in Nat /\ Cardinality(Reruns(t)') \in Nat
    BY <1>1, <2>1, LanesCount
  <2>4. Cardinality(Reruns(t)) + blocks[t] <= MaxReruns + IF faults = 0 THEN 0 ELSE 1
    BY DEF RerunsAreBounded
  <2>5. blocks[t] \in Nat /\ MaxReruns \in Nat
    BY RecoveryAssumption DEF RecoveryTypeOK
  <2>6. QED BY <2>2, <2>3, <2>4, <2>5
<1>3. RerunsAreBounded'
  BY <1>2 DEF RerunsAreBounded
<1>4. QED BY <1>1, <1>3

(* A charge is within the budget: the counts of the plan leave room for it, *)
(* but for one rerun that a crash left waiting where they do not see it.    *)
LEMMA ChargeKeepsBound ==
  ASSUME RecoveryTypeOK, LanesInv, PlanInv, RerunsAreBounded, NEW t \in Tasks, CountBlock(t)
  PROVE  RerunsAreBounded'
<1>1. /\ run.pc = "count" /\ t \in run.left /\ UNCHANGED lane
      /\ faults' = 0 => faults = 0
      /\ \A u \in Tasks : blocks'[u] \in Nat
      /\ \A u \in Tasks : blocks'[u] <= (IF u = t THEN blocks[u] + 1 ELSE blocks[u])
  <2>1. blocks \in [Tasks -> Nat] /\ faults \in Nat
    BY DEF RecoveryTypeOK
  <2>2. \/ blocks' = [blocks EXCEPT ![t] = @ + 1] /\ faults' = faults
        \/ blocks' \in {blocks, [blocks EXCEPT ![t] = 1]} /\ faults' = faults + 1
    BY DEF CountBlock
  <2>3. QED BY <2>1, <2>2 DEF CountBlock, At
<1>2. run.source[t] # 0 /\ ~Charged(t)
  BY <1>1 DEF PlanInv, LeftInv, Charged
<1>3. Refailures(t) + blocks[t] < MaxReruns
  BY <1>1, <1>2 DEF PlanInv, WithinBudget
<1>4. Cardinality(Reruns(t)) <= Refailures(t) + IF faults = 0 THEN 0 ELSE 1
  <2>1. CASE faults = 0
    <3>1. ASSUME NEW i \in LanesOf(t) PROVE lane[i].status = "failed"
      <4>1. i \in Lanes /\ lane[i].task = t
        BY DEF LanesOf
      <4>2. lane[i].status # "queued"
        BY <1>1, <2>1, <4>1 DEF PlanInv, NothingWaits, Queued
      <4>3. lane[i].status # "integrated"
        BY <1>1, <1>2 DEF PlanInv, SourcesInv, Integrated
      <4>4. lane[i].status # "done"
        BY <1>1, <4>1 DEF PlanInv, SealedInv
      <4>5. lane[i].status # "none"
        BY <4>1, RecoveryAssumption DEF LanesInv, RowsInv
      <4>6. lane[i].status \in {"none", "queued", "integrated", "failed", "done"}
        BY <4>1 DEF RecoveryTypeOK, Rows
      <4>7. QED BY <4>2, <4>3, <4>4, <4>5, <4>6
    <3>2. Cardinality(Reruns(t)) <= Refailures(t)
      BY <3>1, OneRerunOpen
    <3>3. Cardinality(Reruns(t)) \in Nat /\ Refailures(t) \in Nat
      BY OneRerunOpen, LanesCount, CountsAreNaturals
    <3>4. QED BY <2>1, <3>2, <3>3
  <2>2. CASE faults # 0
    BY <2>2, OneRerunOpen
  <2>3. QED BY <2>1, <2>2
<1>5. ASSUME NEW u \in Tasks
      PROVE  Cardinality(Reruns(u)) + blocks'[u] <= MaxReruns + IF faults' = 0 THEN 0 ELSE 1
  <2>1. /\ Cardinality(Reruns(u)) \in Nat /\ Refailures(t) \in Nat
        /\ blocks[u] \in Nat /\ blocks'[u] \in Nat /\ MaxReruns \in Nat
    BY <1>1, OneRerunOpen, LanesCount, CountsAreNaturals, RecoveryAssumption DEF RecoveryTypeOK
  <2>2. CASE u = t
    BY <1>1, <1>3, <1>4, <2>1, <2>2
  <2>3. CASE u # t
    <3>1. blocks'[u] <= blocks[u]
      BY <1>1, <2>3
    <3>2. Cardinality(Reruns(u)) + blocks[u] <= MaxReruns + IF faults = 0 THEN 0 ELSE 1
      BY DEF RerunsAreBounded
    <3>3. QED BY <1>1, <2>1, <3>1, <3>2
  <2>4. QED BY <2>2, <2>3
<1>6. \A u \in Tasks : Reruns(u)' = Reruns(u)
  BY <1>1 DEF Reruns, LanesOf
<1>7. QED BY <1>1, <1>5, <1>6 DEF RerunsAreBounded

(* The charged reruns stay within the budget.                               *)
LEMMA BoundStep ==
  ASSUME RecoveryTypeOK, LanesInv, PlanInv, RerunsAreBounded, [RecoveryNext]_vars
  PROVE  LanesInv' /\ RerunsAreBounded'
<1>1. ASSUME Settling, UNCHANGED blocks, faults' \in {faults, faults + 1}
      PROVE  LanesInv' /\ RerunsAreBounded'
  <2>1. faults' = 0 => faults = 0
    BY <1>1 DEF RecoveryTypeOK
  <2>2. QED BY <1>1, <2>1, SettlingKeepsBound
<1>2. ASSUME UNCHANGED lane, UNCHANGED blocks, faults' \in {faults, faults + 1}
      PROVE  LanesInv' /\ RerunsAreBounded'
  BY <1>1, <1>2, UnchangedSettles
<1>3. ASSUME NEW E, Seal(E), UNCHANGED <<blocks, faults>> PROVE LanesInv' /\ RerunsAreBounded'
  BY <1>1, <1>3, SealSettles
<1>4. ASSUME NEW i \in Lanes, DrainLane(i) PROVE LanesInv' /\ RerunsAreBounded'
  <2>1. ASSUME NEW status, NEW cause, DrainedAs(i, status, cause),
               \/ status = "integrated" /\ cause = "none"
               \/ status = "failed" /\ cause \in Hygiene \cup {"other"}
        PROVE  Settling
    BY <2>1, DrainSettles
  <2>2. Settling
    BY <1>4, <2>1 DEF DrainLane
  <2>3. QED BY <1>1, <1>4, <2>2 DEF DrainLane
<1>5. ASSUME NEW t \in Tasks, CountBlock(t) PROVE LanesInv' /\ RerunsAreBounded'
  <2>1. LanesInv'
    BY <1>5, UnchangedSettles, SettlingKeepsLanes DEF CountBlock
  <2>2. QED BY <1>5, <2>1, ChargeKeepsBound
<1>6. CASE Enqueue
  BY <1>6, EnqueueKeepsLanes
<1>7. CASE Redriven \/ Drained
  BY <1>2, <1>3, <1>7 DEF Redriven, Drained
<1>8. CASE Enter \/ Sweep \/ Plan \/ Gathered \/ EnqueueRefused \/ NothingToEnqueue \/ Returned
  BY <1>2, <1>8
  DEF Enter, Sweep, Plan, Gathered, EnqueueRefused, NothingToEnqueue, Returned, durable
<1>9. ASSUME NEW t \in Tasks, NEW how, Mark(t) \/ TaskReturns(t, how)
      PROVE  LanesInv' /\ RerunsAreBounded'
  BY <1>2, <1>9 DEF Mark, TaskReturns
<1>10. CASE OperatorResumes \/ CheckpointRaises \/ Crash
  BY <1>2, <1>10 DEF OperatorResumes, CheckpointRaises, Crash, durable
<1>11. CASE UNCHANGED vars
  BY <1>2, <1>11 DEF vars, durable
<1>12. QED
  BY <1>4, <1>5, <1>6, <1>7, <1>8, <1>9, <1>10, <1>11 DEF RecoveryNext, Step

----------------------------------------------------------------------------
(* What a pass has planned.                                                 *)
LEMMA NoPlanNow ==
  ASSUME run'.pc \notin {"dispatch", "count"}
  PROVE  SourcesInv' /\ WithinBudget' /\ LeftInv'
BY DEF SourcesInv, WithinBudget, LeftInv

(* The plan step leaves a valid plan, or none.                              *)
LEMMA PlanMakes ==
  ASSUME RecoveryTypeOK, Plan
  PROVE  SourcesInv' /\ WithinBudget' /\ LeftInv'
<1>1. CASE Block
  <2>1. run'.pc = "returned"
    BY <1>1 DEF Block, Return, Idle
  <2>2. QED BY <2>1, NoPlanNow
<1>2. CASE Goto("verify")
  <2>1. run'.pc = "verify"
    BY <1>2 DEF Goto, RecoveryTypeOK, Passes
  <2>2. QED BY <2>1, NoPlanNow
<1>3. CASE ~Block /\ ~Goto("verify")
  <2>1. run' = [Idle EXCEPT
             !.pc = "dispatch",
             !.todo = Deciding({"rerun", "dispatch"}),
             !.resumed = Deciding({"resume"}),
             !.source = [t \in Tasks |-> IF Decide(t) = "rerun" THEN RecoveryLane(t) ELSE 0],
             !.counted = [t \in Tasks |-> Refailures(t)]]
    BY <1>3 DEF Plan
  <2>2. run'.pc = "dispatch" /\ run'.resumed = Deciding({"resume"})
          /\ run'.source = [t \in Tasks |-> IF Decide(t) = "rerun" THEN RecoveryLane(t) ELSE 0]
    BY <2>1 DEF Idle
  <2>3. UNCHANGED <<lane, blocks>>
    BY DEF Plan, durable
  <2>4. ASSUME NEW t \in Tasks, run'.source[t] # 0
        PROVE  /\ run'.source[t] \in HookFailed(t) /\ ~Integrated(t) /\ t \notin run'.resumed
               /\ Refailures(t) + blocks[t] < MaxReruns
    <3>1. Decide(t) = "rerun" /\ run'.source[t] = RecoveryLane(t)
      BY <2>2, <2>4
    <3>2. HookFailed(t) # {} /\ ~Integrated(t) /\ Spent(t, Refailures(t)) < MaxReruns
      BY <3>1 DEF Decide
    <3>3. QED BY <2>2, <3>1, <3>2, RecoveryLaneIsFailed DEF Deciding, Spent
  <2>5. \A t \in Tasks : HookFailed(t)' = HookFailed(t) /\ Integrated(t)' = Integrated(t)
                           /\ Refailures(t)' = Refailures(t)
    BY <2>3 DEF HookFailed, Integrated, Refailures, Refailed, LanesOf
  <2>6. SourcesInv'
    BY <2>4, <2>5 DEF SourcesInv
  <2>7. WithinBudget'
    BY <2>3, <2>4, <2>5 DEF WithinBudget
  <2>8. QED BY <2>2, <2>6, <2>7 DEF LeftInv
<1>4. QED BY <1>1, <1>2, <1>3

(* A plan stays valid while the rows it was made from stand.                *)
LEMMA PlanKeeps ==
  ASSUME PlanInv, UNCHANGED <<lane, blocks>>,
         run'.pc \in {"dispatch", "count"} => run.pc \in {"dispatch", "count"},
         run'.source = run.source, run'.resumed = run.resumed,
         \A t \in Tasks : Charged(t) => Charged(t)'
  PROVE  SourcesInv' /\ WithinBudget'
<1>1. \A t \in Tasks : HookFailed(t)' = HookFailed(t) /\ Integrated(t)' = Integrated(t)
                         /\ Refailures(t)' = Refailures(t)
  BY DEF HookFailed, Integrated, Refailures, Refailed, LanesOf
<1>2. SourcesInv'
  BY <1>1 DEF PlanInv, SourcesInv
<1>3. WithinBudget'
  BY <1>1 DEF PlanInv, WithinBudget
<1>4. QED BY <1>2, <1>3

(* No step of a pass spoils the plan.                                       *)
LEMMA PlanStep ==
  ASSUME RecoveryTypeOK, PlanInv, [RecoveryNext]_vars
  PROVE  SourcesInv' /\ WithinBudget' /\ LeftInv'
<1> DEFINE Goal == SourcesInv' /\ WithinBudget' /\ LeftInv'
<1>0. run \in Passes
  BY DEF RecoveryTypeOK
<1>1. ASSUME NEW recoverable, NEW token, Return(recoverable, token) PROVE Goal
  <2>1. run'.pc = "returned"
    BY <1>1 DEF Return, Idle
  <2>2. QED BY <2>1, NoPlanNow
<1>2. ASSUME NEW pc, run' = [Idle EXCEPT !.pc = pc] \/ Goto(pc), pc \notin {"dispatch", "count"}
      PROVE  Goal
  <2>1. run'.pc = pc
    BY <1>0, <1>2 DEF Goto, Idle, Passes
  <2>2. QED BY <1>2, <2>1, NoPlanNow
<1>3. CASE Plan
  BY <1>3, PlanMakes
<1>4. CASE Enter \/ Redriven \/ Sweep
  BY <1>2, <1>4 DEF Enter, Redriven, Sweep
<1>5. CASE Gathered
  <2>1. /\ run.pc = "dispatch" /\ run'.pc = "count" /\ UNCHANGED <<lane, blocks>>
        /\ run'.source = run.source /\ run'.resumed = run.resumed /\ run'.result = run.result
        /\ run'.left = {t \in Ended("blocked") : run.source[t] # 0}
    BY <1>0, <1>5 DEF Gathered, At, durable, Passes
  <2>2. SourcesInv' /\ WithinBudget'
    BY <2>1, PlanKeeps DEF Charged
  <2>3. LeftInv'
    BY <2>1 DEF LeftInv, Ended
  <2>4. QED BY <2>2, <2>3
<1>6. ASSUME NEW i \in Lanes, DrainLane(i) PROVE Goal
  <2>1. run'.pc = run.pc /\ run.pc \in {"redrive", "drain"}
    BY <1>0, <1>6 DEF DrainLane, DrainedAs, At, Passes
  <2>2. QED BY <2>1, NoPlanNow
<1>7. ASSUME NEW t \in Tasks, CountBlock(t) PROVE Goal
  <2>1. /\ run.pc = "count" /\ run'.pc = "count" /\ t \in run.left /\ UNCHANGED lane
        /\ run'.source = run.source /\ run'.resumed = run.resumed /\ run'.result = run.result
        /\ run'.left = run.left \ {t} /\ \A u \in Tasks \ {t} : blocks'[u] = blocks[u]
    BY <1>0, <1>7 DEF CountBlock, At, Passes, RecoveryTypeOK
  <2>2. \A u \in Tasks : HookFailed(u)' = HookFailed(u) /\ Integrated(u)' = Integrated(u)
                           /\ Refailures(u)' = Refailures(u)
    BY <2>1 DEF HookFailed, Integrated, Refailures, Refailed, LanesOf
  <2>3. SourcesInv'
    BY <2>1, <2>2 DEF PlanInv, SourcesInv
  <2>4. LeftInv'
    BY <2>1 DEF PlanInv, LeftInv
  <2>5. ASSUME NEW u \in Tasks, run.source[u] # 0, ~Charged(u)'
        PROVE  Refailures(u) + blocks'[u] < MaxReruns
    <3>1. run.result[t] = "blocked"
      BY <2>1 DEF PlanInv, LeftInv
    <3>2. u # t /\ ~Charged(u)
      BY <2>1, <2>5, <3>1 DEF Charged
    <3>3. blocks'[u] = blocks[u]
      BY <2>1, <3>2
    <3>4. QED BY <2>1, <2>5, <3>2, <3>3 DEF PlanInv, WithinBudget
  <2>6. WithinBudget'
    BY <2>1, <2>2, <2>5 DEF WithinBudget
  <2>7. QED BY <2>3, <2>4, <2>6
<1>8. ASSUME NEW t \in Tasks, Mark(t) PROVE Goal
  <2>1. run'.pc \in {"mark", "drain"}
    BY <1>0, <1>8 DEF Mark, At, Passes
  <2>2. QED BY <2>1, NoPlanNow
<1>9. ASSUME NEW t \in Tasks, NEW how, TaskReturns(t, how) PROVE Goal
  <2>1. /\ run.pc = "dispatch" /\ run'.pc = "dispatch" /\ UNCHANGED <<lane, blocks>>
        /\ run'.source = run.source /\ run'.resumed = run.resumed
    BY <1>0, <1>9 DEF TaskReturns, At, Passes
  <2>2. SourcesInv' /\ WithinBudget'
    BY <2>1, PlanKeeps DEF Charged
  <2>3. QED BY <2>1, <2>2 DEF LeftInv
<1>10. CASE Enqueue
  <2>1. run'.pc = "mark"
    BY <1>0, <1>10 DEF Enqueue, Passes
  <2>2. QED BY <2>1, NoPlanNow
<1>11. CASE EnqueueRefused \/ NothingToEnqueue
  BY <1>1, <1>11 DEF EnqueueRefused, NothingToEnqueue, Block
<1>12. CASE Drained
  <2>1. CASE Goto("sweep")
    BY <1>2, <2>1
  <2>2. CASE Block
    BY <1>1, <2>2 DEF Block
  <2>3. ASSUME NEW token, Return(TRUE, token) PROVE Goal
    BY <1>1, <2>3
  <2>4. QED BY <1>12, <2>1, <2>2, <2>3 DEF Drained
<1>13. CASE Returned
  <2>1. run'.pc \in {"enter", "halted"}
    BY <1>13 DEF Returned, Idle
  <2>2. QED BY <2>1, NoPlanNow
<1>14. CASE OperatorResumes
  BY <1>2, <1>14 DEF OperatorResumes
<1>15. CASE CheckpointRaises
  BY <1>1, <1>2, <1>15 DEF CheckpointRaises, Block
<1>16. CASE Crash
  <2>1. run'.pc = "halted"
    BY <1>16 DEF Crash, Idle
  <2>2. QED BY <2>1, NoPlanNow
<1>17. CASE UNCHANGED vars
  <2>1. SourcesInv' /\ WithinBudget'
    BY <1>17, PlanKeeps DEF vars, durable, Charged
  <2>2. QED BY <1>17, <2>1 DEF PlanInv, LeftInv, vars
<1>18. QED
  BY <1>3, <1>4, <1>5, <1>6, <1>7, <1>8, <1>9, <1>10, <1>11, <1>12, <1>13, <1>14, <1>15, <1>16,
     <1>17 DEF RecoveryNext, Step

----------------------------------------------------------------------------
(* Queued lanes, and the seal.                                              *)
LEMMA SealedInvStep ==
  ASSUME RecoveryTypeOK, LanesInv, PlanInv, [RecoveryNext]_vars
  PROVE  SealedInv'
<1> DEFINE Unsealed == {"redrive", "plan", "dispatch", "count", "mark", "drain"}
<1>0. run \in Passes
  BY DEF RecoveryTypeOK
<1>1. ASSUME UNCHANGED <<lane, sealed>>, run'.pc \in Unsealed => run.pc \in Unsealed \/ ~sealed
      PROVE  SealedInv'
  BY <1>1 DEF PlanInv, SealedInv
<1>2. ASSUME NEW E, Seal(E), Goto("sweep") PROVE SealedInv'
  <2>1. run'.pc = "sweep" /\ sealed'
    BY <1>0, <1>2 DEF Goto, Seal, Passes
  <2>2. QED BY <2>1 DEF SealedInv
<1>3. ASSUME NEW recoverable, NEW token, Return(recoverable, token), UNCHANGED <<lane, sealed>>
      PROVE  SealedInv'
  <2>1. run'.pc = "returned"
    BY <1>3 DEF Return, Idle
  <2>2. QED BY <1>1, <1>3, <2>1
<1>4. CASE Enter
  <2>1. run'.pc \in Unsealed => ~sealed
    BY <1>0, <1>4 DEF Enter, Goto, Passes
  <2>2. QED BY <1>1, <1>4, <2>1 DEF Enter, durable
<1>5. CASE Redriven
  <2>1. CASE run' = [Idle EXCEPT !.pc = "plan"] /\ UNCHANGED <<lane, sealed>>
    BY <1>1, <1>5, <2>1 DEF Redriven, At
  <2>2. QED BY <1>2, <1>5, <2>1 DEF Redriven
<1>6. CASE Sweep
  <2>1. run'.pc = "done"
    BY <1>0, <1>6 DEF Sweep, Goto, Passes
  <2>2. QED BY <1>1, <1>6, <2>1 DEF Sweep
<1>7. CASE Plan
  BY <1>1, <1>7 DEF Plan, At, durable
<1>8. CASE Gathered
  BY <1>1, <1>8 DEF Gathered, At, durable
<1>9. ASSUME NEW i \in Lanes, DrainLane(i) PROVE SealedInv'
  <2>1. \A j \in Lanes : lane'[j].status = "done" => lane[j].status = "done"
    <3>1. PICK status \in {"integrated", "failed"}, cause \in Hygiene \cup {"other", "none"} :
            DrainedAs(i, status, cause)
      BY <1>9 DEF DrainLane
    <3>2. lane \in [Lanes -> Rows]
      BY DEF RecoveryTypeOK, Rows
    <3>3. lane' = [lane EXCEPT ![i] = [lane[i] EXCEPT !.status = status, !.cause = cause]]
      BY <3>1 DEF DrainedAs
    <3>4. lane'[i].status = status
      BY <3>2, <3>3 DEF Rows
    <3>5. QED BY <3>2, <3>3, <3>4
  <2>2. run'.pc = run.pc /\ sealed' = sealed
    BY <1>0, <1>9 DEF DrainLane, DrainedAs, Passes
  <2>3. QED BY <2>1, <2>2 DEF PlanInv, SealedInv
<1>10. ASSUME NEW t \in Tasks, NEW how, CountBlock(t) \/ Mark(t) \/ TaskReturns(t, how)
       PROVE  SealedInv'
  BY <1>1, <1>10 DEF CountBlock, Mark, TaskReturns, At
<1>11. CASE Enqueue
  <2>1. \A j \in Lanes : lane'[j].status = "done" => lane[j].status = "done"
    BY <1>11 DEF Enqueue, Inserted
  <2>2. run.pc \in Unsealed /\ sealed' = sealed
    BY <1>11 DEF Enqueue, At
  <2>3. QED BY <2>1, <2>2 DEF PlanInv, SealedInv
<1>12. CASE EnqueueRefused \/ NothingToEnqueue
  BY <1>3, <1>12 DEF EnqueueRefused, NothingToEnqueue, Block, durable
<1>13. CASE Drained
  BY <1>2, <1>3, <1>13 DEF Drained, Block
<1>14. CASE Returned \/ OperatorResumes \/ Crash
  <2>1. run'.pc \in {"enter", "halted"} /\ UNCHANGED <<lane, sealed>>
    BY <1>14 DEF Returned, OperatorResumes, Crash, Idle, durable
  <2>2. QED BY <1>1, <2>1
<1>15. CASE CheckpointRaises
  <2>1. UNCHANGED <<lane, sealed>>
    BY <1>15 DEF CheckpointRaises, durable
  <2>2. CASE Block
    BY <1>3, <2>1, <2>2 DEF Block
  <2>3. CASE At("redrive")
    BY <1>1, <2>1, <2>3 DEF At
  <2>4. QED BY <1>15, <2>2, <2>3 DEF CheckpointRaises
<1>16. CASE UNCHANGED vars
  BY <1>1, <1>16 DEF vars, durable
<1>17. QED
  BY <1>4, <1>5, <1>6, <1>7, <1>8, <1>9, <1>10, <1>11, <1>12, <1>13, <1>14, <1>15, <1>16
  DEF RecoveryNext, Step

(* Without a fault, no lane waits in the queue outside mark and drain.      *)
LEMMA NothingWaitsStep ==
  ASSUME RecoveryTypeOK, PlanInv, [RecoveryNext]_vars
  PROVE  NothingWaits'
<1> DEFINE Filling == {"mark", "drain"}
<1>0. run \in Passes /\ faults \in Nat
  BY DEF RecoveryTypeOK
<1>1. ASSUME UNCHANGED <<lane, faults>>,
             run'.pc \notin Filling => run.pc \notin Filling \/ Queued = {}
      PROVE  NothingWaits'
  BY <1>1 DEF PlanInv, NothingWaits, Queued
<1>2. ASSUME NEW E, Seal(E), Queued = {} PROVE NothingWaits'
  <2>1. \A i \in Lanes : lane'[i].status = "queued" => lane[i].status = "queued"
    BY <1>2 DEF Seal, RecoveryTypeOK, Rows
  <2>2. QED BY <1>2, <2>1 DEF NothingWaits, Queued
<1>3. CASE Enter \/ Plan \/ Gathered \/ Sweep \/ EnqueueRefused \/ NothingToEnqueue \/ Returned
             \/ OperatorResumes
  <2>1. UNCHANGED <<lane, faults>> /\ run.pc \notin Filling
    BY <1>3 DEF Enter, Plan, Gathered, Sweep, EnqueueRefused, NothingToEnqueue, Returned,
                OperatorResumes, At, durable
  <2>2. QED BY <1>1, <2>1
<1>4. CASE Redriven \/ Drained
  BY <1>1, <1>2, <1>4 DEF Redriven, Drained
<1>5. ASSUME NEW i \in Lanes, DrainLane(i) PROVE NothingWaits'
  <2>1. i \in Queued /\ run'.pc = run.pc /\ faults' = faults
    BY <1>0, <1>5 DEF DrainLane, DrainedAs, Passes
  <2>2. QED BY <2>1 DEF PlanInv, NothingWaits
<1>6. ASSUME NEW t \in Tasks, NEW how, CountBlock(t) \/ TaskReturns(t, how) PROVE NothingWaits'
  <2>1. CASE faults' = faults
    BY <1>1, <1>6, <2>1 DEF CountBlock, TaskReturns, At
  <2>2. CASE faults' # faults
    <3>1. faults' # 0
      BY <1>0, <1>6, <2>2 DEF CountBlock, TaskReturns
    <3>2. QED BY <3>1 DEF NothingWaits
  <2>3. QED BY <2>1, <2>2
<1>7. ASSUME NEW t \in Tasks, Mark(t) PROVE NothingWaits'
  <2>1. run'.pc \in Filling
    BY <1>0, <1>7 DEF Mark, At, Passes
  <2>2. QED BY <2>1 DEF NothingWaits
<1>8. CASE Enqueue
  <2>1. run'.pc \in Filling
    BY <1>0, <1>8 DEF Enqueue, Passes
  <2>2. QED BY <2>1 DEF NothingWaits
<1>9. CASE CheckpointRaises \/ Crash
  <2>1. faults' # 0
    BY <1>0, <1>9 DEF CheckpointRaises, Crash
  <2>2. QED BY <2>1 DEF NothingWaits
<1>10. CASE UNCHANGED vars
  BY <1>1, <1>10 DEF vars, durable
<1>11. QED
  BY <1>3, <1>4, <1>5, <1>6, <1>7, <1>8, <1>9, <1>10 DEF RecoveryNext, Step

(* The invariant of the budget, and the bound of the reruns: for every      *)
(* group and budget, with any number of crashes and resumes.                *)
THEOREM BudgetInvariant == RecoverySpec => []BudgetInv
<1>1. RecoveryInit => LanesInv /\ PlanInv /\ RerunsAreBounded
  <2> SUFFICES ASSUME RecoveryInit PROVE LanesInv /\ PlanInv /\ RerunsAreBounded
    OBVIOUS
  <2>1. \A i \in Lanes : lane[i] = NoLane
    BY DEF RecoveryInit
  <2>2. LanesInv
    BY <2>1, RecoveryAssumption DEF LanesInv, RowsInv, OneHead, NoLane
  <2>3. run.pc = "enter" /\ Queued = {} /\ \A i \in Lanes : lane[i].status # "done"
    BY <2>1 DEF RecoveryInit, Idle, Queued, NoLane
  <2>4. PlanInv
    BY <2>3 DEF PlanInv, SourcesInv, WithinBudget, LeftInv, NothingWaits, SealedInv
  <2>5. \A t \in Tasks : Reruns(t) = {} /\ blocks[t] = 0
    BY <2>1, RecoveryAssumption DEF RecoveryInit, Reruns, LanesOf, NoLane
  <2>6. faults = 0 /\ Cardinality({}) = 0 /\ MaxReruns \in Nat
    BY FS_EmptySet, RecoveryAssumption DEF RecoveryInit
  <2>7. RerunsAreBounded
    BY <2>5, <2>6 DEF RerunsAreBounded
  <2>8. QED BY <2>2, <2>4, <2>7
<1>2. BudgetInv /\ [RecoveryNext]_vars => BudgetInv'
  <2> SUFFICES ASSUME BudgetInv, [RecoveryNext]_vars PROVE BudgetInv'
    OBVIOUS
  <2>1. RecoveryTypeOK'
    BY RecoveryTypingStep DEF BudgetInv
  <2>2. LanesInv' /\ RerunsAreBounded'
    BY BoundStep DEF BudgetInv
  <2>3. SourcesInv' /\ WithinBudget' /\ LeftInv'
    BY PlanStep DEF BudgetInv
  <2>4. NothingWaits' /\ SealedInv'
    BY NothingWaitsStep, SealedInvStep DEF BudgetInv
  <2>5. QED BY <2>1, <2>2, <2>3, <2>4 DEF BudgetInv, PlanInv
<1>3. QED BY <1>1, <1>2, RecoveryTyped, PTL DEF RecoverySpec, BudgetInv

(* A task is rerun at most _COMMIT_HYGIENE_RERUN_MAX times as long as       *)
(* nothing crashes, and at most once more whatever crashes.                 *)
THEOREM RerunsStayBounded == RecoverySpec => []RerunsAreBounded
BY BudgetInvariant, PTL DEF BudgetInv

------------------------------------------------------------------------------
(* What becomes of the tasks in the merge queue as long as nothing crashed. *)

(* A task that the next entry need not block on.                            *)
Safe(t) == Integrated(t) \/ HookFailed(t) # {}

(* A task whose lane is still to come to that, or failed in this pass for   *)
(* another cause.                                                           *)
Open(t) ==
  \E i \in LanesOf(t) : i \in Queued \/ (i \in run.failed /\ lane[i].cause \notin Hygiene)

(* Whoever has a lane has its pending marker, or is about to get it.        *)
MarkedInv ==
  faults = 0 /\ run.pc # "done" =>
    \A i \in Lanes : lane[i].status # "none" =>
      lane[i].task \in pending \/ (run.pc = "mark" /\ lane[i].task \in run.left)

(* A pass that got past its plan has no pending task that is stuck.         *)
OpenInv ==
  faults = 0 =>
    /\ run.pc \in {"dispatch", "count"} => \A t \in pending : Safe(t)
    /\ run.pc \in {"mark", "drain"} => \A t \in pending : Safe(t) \/ Open(t)
    /\ run.pc = "mark" => \A t \in run.left : Safe(t) \/ Open(t)

(* The inductive invariant.                                                 *)
RedispatchInv == MarkedInv /\ OpenInv

(* A safe task stays safe while lanes are only queued or drained.           *)
LEMMA SafetyLasts ==
  ASSUME NEW t \in Tasks, \A i \in Lanes : lane'[i] = lane[i] \/ lane[i].status \in {"none", "queued"},
         Safe(t)
  PROVE  Safe(t)'
<1>1. CASE Integrated(t)
  BY <1>1 DEF Safe, Integrated, LanesOf
<1>2. CASE HookFailed(t) # {}
  <2>1. PICK i \in HookFailed(t) : TRUE
    BY <1>2
  <2>2. i \in Lanes /\ lane'[i] = lane[i]
    BY <2>1 DEF HookFailed, LanesOf
  <2>3. i \in HookFailed(t)'
    BY <2>1, <2>2 DEF HookFailed, LanesOf
  <2>4. QED BY <2>3 DEF Safe
<1>3. QED BY <1>1, <1>2 DEF Safe

(* A step out of the way of the queue.                                      *)
LEMMA QuietKeeps ==
  ASSUME RedispatchInv, UNCHANGED <<lane, pending, faults>>,
         run.pc \notin {"mark", "done"}, run'.pc \notin {"dispatch", "count", "mark", "drain"}
  PROVE  RedispatchInv'
<1>1. MarkedInv'
  BY DEF RedispatchInv, MarkedInv
<1>2. OpenInv'
  BY DEF OpenInv
<1>3. QED BY <1>1, <1>2 DEF RedispatchInv

(* A step between the plan and the enqueue.                                 *)
LEMMA DispatchKeeps ==
  ASSUME RedispatchInv, UNCHANGED <<lane, pending, faults>>,
         run.pc \in {"dispatch", "count"}, run'.pc \in {"dispatch", "count"}
  PROVE  RedispatchInv'
<1>1. MarkedInv'
  BY DEF RedispatchInv, MarkedInv
<1>2. \A t : Safe(t)' = Safe(t)
  BY DEF Safe, Integrated, HookFailed, LanesOf
<1>3. OpenInv'
  BY <1>2 DEF RedispatchInv, OpenInv
<1>4. QED BY <1>1, <1>3 DEF RedispatchInv

(* A checkpoint ends the pass.                                              *)
LEMMA SealKeeps ==
  ASSUME RecoveryTypeOK, RedispatchInv, NEW E, Seal(E), Goto("sweep"), UNCHANGED <<pending, faults>>,
         run.pc \notin {"mark", "done"}
  PROVE  RedispatchInv'
<1>1. run'.pc = "sweep"
  BY DEF Goto, RecoveryTypeOK, Passes
<1>2. \A i \in Lanes : lane'[i].task = lane[i].task /\ (lane'[i].status # "none" => lane[i].status # "none")
  BY DEF Seal, RecoveryTypeOK, Rows, Candidates
<1>3. QED BY <1>1, <1>2 DEF RedispatchInv, MarkedInv, OpenInv

(* The plan stops at a stuck task.                                          *)
LEMMA PlanRedispatches ==
  ASSUME RecoveryTypeOK, RedispatchInv, Plan PROVE RedispatchInv'
<1>1. UNCHANGED <<lane, pending, faults>> /\ run.pc = "plan"
  BY DEF Plan, durable, At
<1>2. CASE Block \/ Goto("verify")
  <2>1. run'.pc \in {"returned", "verify"}
    BY <1>2 DEF Block, Return, Goto, Idle, RecoveryTypeOK, Passes
  <2>2. QED BY <1>1, <2>1, QuietKeeps
<1>3. CASE ~(Block \/ Goto("verify"))
  <2>1. Deciding({"escalate", "stuck"}) = {} /\ run'.pc = "dispatch"
    BY <1>3 DEF Plan, Idle
  <2>2. \A t \in pending : Safe(t)
    <3>1. SUFFICES ASSUME NEW t \in pending PROVE Safe(t)
      OBVIOUS
    <3>2. t \in Tasks /\ Decide(t) # "stuck"
      BY <2>1 DEF Deciding, RecoveryTypeOK
    <3>3. QED BY <3>1, <3>2 DEF Decide, Safe
  <2>3. \A t : Safe(t)' = Safe(t)
    BY <1>1 DEF Safe, Integrated, HookFailed, LanesOf
  <2>4. OpenInv'
    BY <1>1, <2>1, <2>2, <2>3 DEF OpenInv
  <2>5. MarkedInv'
    BY <1>1, <2>1 DEF RedispatchInv, MarkedInv
  <2>6. QED BY <2>4, <2>5 DEF RedispatchInv
<1>4. QED BY <1>2, <1>3

(* What a batch queues is open, and what it finds queued before is safe.    *)
LEMMA EnqueueRedispatches ==
  ASSUME RecoveryTypeOK, RecoveryTypeOK', LanesInv, RedispatchInv, Enqueue PROVE RedispatchInv'
<1>1. UNCHANGED <<pending, faults>> /\ run.pc = "count"
  BY DEF Enqueue, At
<1>2. PICK row \in [{t \in Batch : Existing(t) = {}} -> Lanes] :
        /\ Inserted({t \in Batch : Existing(t) = {}}, row)
        /\ run' = [run EXCEPT !.pc = "mark", !.left = Batch,
                              !.enqueued = (UNION {Existing(t) : t \in Batch})
                                             \cup {row[t] : t \in {t \in Batch : Existing(t) = {}}}]
  BY DEF Enqueue
<1> DEFINE New == {t \in Batch : Existing(t) = {}}
<1>3. run'.pc = "mark" /\ run'.left = Batch /\ run'.failed = run.failed
  BY <1>2 DEF RecoveryTypeOK, Passes
<1>4. Batch \subseteq Tasks
  BY DEF Batch, Ended, RecoveryTypeOK, Passes
<1>5. ASSUME NEW i \in Lanes, lane'[i] # lane[i]
      PROVE  /\ lane[i].status = "none" /\ lane'[i].status = "queued" /\ lane'[i].task \in Batch
  <2>1. PICK t \in New : row[t] = i
    BY <1>2, <1>5 DEF Inserted
  <2>2. PICK u : u = CHOOSE v \in New : row[v] = i
    OBVIOUS
  <2>3. u \in New /\ row[u] = i
    BY <2>1, <2>2
  <2>4. lane'[i] = [status |-> "queued", task |-> u, patch |-> marker[u].patch,
                    source |-> run.source[u], cause |-> "none"]
    BY <1>2, <2>1, <2>2 DEF Inserted
  <2>5. lane[row[u]].status = "none"
    BY <1>2, <2>3 DEF Inserted
  <2>6. QED BY <2>3, <2>4, <2>5
<1>6. MarkedInv'
  <2>1. SUFFICES ASSUME faults = 0, NEW i \in Lanes, lane'[i].status # "none"
                 PROVE  lane'[i].task \in pending \/ lane'[i].task \in Batch
    BY <1>1, <1>3 DEF MarkedInv
  <2>2. QED BY <1>1, <1>5, <2>1 DEF RedispatchInv, MarkedInv
<1>7. ASSUME NEW t \in pending, faults = 0 PROVE Safe(t)'
  <2>1. t \in Tasks /\ Safe(t)
    BY <1>1, <1>7 DEF RedispatchInv, OpenInv, RecoveryTypeOK
  <2>2. QED BY <1>5, <2>1, SafetyLasts
<1>8. ASSUME NEW t \in Batch, faults = 0 PROVE Safe(t)' \/ Open(t)'
  <2>1. CASE t \in New
    <3>1. PICK i \in Lanes : i = row[t]
      BY <1>2, <2>1
    <3>2. lane'[i].status = "queued" /\ lane'[i].task = t
      <4>1. PICK u : u = CHOOSE v \in New : row[v] = i
        OBVIOUS
      <4>2. u \in New /\ row[u] = i
        BY <2>1, <3>1, <4>1
      <4>3. u = t
        BY <1>2, <2>1, <3>1, <4>2 DEF Inserted
      <4>4. QED BY <1>2, <2>1, <3>1, <4>1, <4>3 DEF Inserted
    <3>3. QED BY <3>2 DEF Open, LanesOf, Queued
  <2>2. CASE t \notin New
    <3>1. PICK i \in Lanes : lane[i].status # "none" /\ lane[i].task = t
      BY <2>2 DEF Existing, RequestOf, Request
    <3>2. t \in pending
      BY <1>1, <1>8, <3>1 DEF RedispatchInv, MarkedInv
    <3>3. QED BY <1>7, <1>8, <3>2
  <2>3. QED BY <2>1, <2>2
<1>9. OpenInv'
  BY <1>1, <1>3, <1>7, <1>8 DEF OpenInv
<1>10. QED BY <1>6, <1>9 DEF RedispatchInv

(* A marker says what the lanes said before.                                *)
LEMMA MarkRedispatches ==
  ASSUME RecoveryTypeOK, RedispatchInv, NEW t \in Tasks, Mark(t) PROVE RedispatchInv'
<1>1. /\ UNCHANGED <<lane, faults>> /\ pending' = pending \cup {t} /\ run.pc = "mark" /\ t \in run.left
      /\ run'.left = run.left \ {t} /\ run'.failed = run.failed
      /\ run'.pc = IF run.left = {t} THEN "drain" ELSE "mark"
  BY DEF Mark, At, RecoveryTypeOK, Passes
<1>2. MarkedInv'
  BY <1>1 DEF RedispatchInv, MarkedInv
<1>3. \A u : Safe(u)' = Safe(u) /\ Open(u)' = Open(u)
  BY <1>1 DEF Safe, Integrated, HookFailed, LanesOf, Open, Queued
<1>4. OpenInv'
  BY <1>1, <1>3 DEF RedispatchInv, OpenInv
<1>5. QED BY <1>2, <1>4 DEF RedispatchInv

(* A drained lane makes its task safe, or is one that failed in this pass   *)
(* for another cause.                                                       *)
LEMMA DrainRedispatches ==
  ASSUME RecoveryTypeOK, RedispatchInv, LanesInv, NothingWaits, NEW i \in Lanes, DrainLane(i)
  PROVE  RedispatchInv'
<1>1. UNCHANGED <<pending, faults>> /\ run.pc \in {"redrive", "drain"} /\ i \in Queued
  BY DEF DrainLane, DrainedAs, At
<1>2. PICK status, cause :
        /\ status = "integrated" \/ (status = "failed" /\ cause \in Hygiene \cup {"other"})
        /\ DrainedAs(i, status, cause)
  BY DEF DrainLane
<1>3. /\ lane'[i].status = status /\ lane'[i].task = lane[i].task /\ lane'[i].cause = cause
      /\ \A j \in Lanes \ {i} : lane'[j] = lane[j]
      /\ run'.pc = run.pc /\ run'.failed = IF status = "failed" THEN run.failed \cup {i} ELSE run.failed
  BY <1>2 DEF DrainedAs, RecoveryTypeOK, Rows, Passes
<1>4. lane[i].status = "queued"
  BY <1>1 DEF Queued
<1>5. MarkedInv'
  BY <1>1, <1>3, <1>4 DEF RedispatchInv, MarkedInv
<1>6. ASSUME NEW t \in Tasks, Safe(t) \/ Open(t) PROVE Safe(t)' \/ Open(t)'
  <2>1. CASE Safe(t)
    BY <1>3, <1>4, <2>1, SafetyLasts
  <2>2. CASE Open(t)
    <3>1. PICK j \in LanesOf(t) : j \in Queued \/ (j \in run.failed /\ lane[j].cause \notin Hygiene)
      BY <2>2 DEF Open
    <3>2. CASE j # i
      <4>1. j \in LanesOf(t)' /\ (j \in Queued => j \in Queued') /\ lane'[j] = lane[j]
            /\ run.failed \subseteq run'.failed
        BY <1>3, <3>1, <3>2 DEF LanesOf, Queued
      <4>2. QED BY <3>1, <4>1 DEF Open
    <3>3. CASE j = i
      <4>1. i \in LanesOf(t)'
        BY <1>3, <3>1, <3>3 DEF LanesOf
      <4>2. CASE status = "integrated"
        BY <1>3, <4>1, <4>2 DEF Safe, Integrated
      <4>3. CASE status = "failed" /\ cause \in Hygiene
        <5>1. i \in HookFailed(t)'
          BY <1>3, <4>1, <4>3 DEF HookFailed
        <5>2. QED BY <5>1 DEF Safe
      <4>4. CASE status = "failed" /\ cause = "other"
        <5>1. lane'[i].cause \notin Hygiene /\ i \in run'.failed
          BY <1>3, <4>4 DEF Hygiene
        <5>2. QED BY <4>1, <5>1 DEF Open
      <4>5. QED BY <1>2, <4>2, <4>3, <4>4
    <3>4. QED BY <3>2, <3>3
  <2>3. QED BY <1>6, <2>1, <2>2
<1>7. OpenInv'
  BY <1>1, <1>3, <1>6 DEF RedispatchInv, OpenInv, RecoveryTypeOK
<1>8. QED BY <1>5, <1>7 DEF RedispatchInv

(* The end of the drain is the end of the pass.                             *)
LEMMA DrainedRedispatches ==
  ASSUME RecoveryTypeOK, RedispatchInv, Drained PROVE RedispatchInv'
<1>1. UNCHANGED <<pending, faults>> /\ run.pc = "drain"
  BY DEF Drained, At
<1>2. CASE \E E : Seal(E) /\ Goto("sweep")
  BY <1>1, <1>2, SealKeeps
<1>3. CASE UNCHANGED lane /\ \E recoverable, token : Return(recoverable, token)
  <2>1. run'.pc = "returned"
    BY <1>3 DEF Return, Idle
  <2>2. QED BY <1>1, <1>3, <2>1, QuietKeeps
<1>4. QED BY <1>2, <1>3 DEF Drained, Block

(* Every step keeps the invariant.                                          *)
LEMMA RedispatchStep ==
  ASSUME RecoveryTypeOK, RecoveryTypeOK', LanesInv, NothingWaits, RedispatchInv, [RecoveryNext]_vars
  PROVE  RedispatchInv'
<1>1. CASE UNCHANGED vars
  <2>1. \A t : Safe(t)' = Safe(t) /\ Open(t)' = Open(t)
    BY <1>1 DEF vars, durable, Safe, Integrated, HookFailed, LanesOf, Open, Queued
  <2>2. QED BY <1>1, <2>1 DEF vars, durable, RedispatchInv, MarkedInv, OpenInv
<1>2. CASE CheckpointRaises \/ Crash
  <2>1. faults' # 0
    BY <1>2 DEF CheckpointRaises, Crash, RecoveryTypeOK
  <2>2. QED BY <2>1 DEF RedispatchInv, MarkedInv, OpenInv
<1>3. CASE Enter \/ Returned \/ OperatorResumes \/ EnqueueRefused \/ NothingToEnqueue
  <2>1. /\ UNCHANGED <<lane, pending, faults>> /\ run.pc \in {"enter", "returned", "halted", "count"}
        /\ run'.pc \in {"done", "redrive", "plan", "enter", "halted", "returned"}
    <3>1. CASE Enter
      BY <3>1 DEF Enter, Goto, At, durable, RecoveryTypeOK, Passes
    <3>2. CASE Returned
      BY <3>2 DEF Returned, Idle, At, durable
    <3>3. CASE OperatorResumes
      BY <3>3 DEF OperatorResumes, Idle, At, durable
    <3>4. CASE EnqueueRefused \/ NothingToEnqueue
      BY <3>4 DEF EnqueueRefused, NothingToEnqueue, Block, Return, Idle, At, durable
    <3>5. QED BY <1>3, <3>1, <3>2, <3>3, <3>4
  <2>2. QED BY <2>1, QuietKeeps
<1>4. CASE Redriven
  <2>1. CASE Seal(Tasks) /\ Goto("sweep")
    BY <1>4, <2>1, SealKeeps DEF Redriven, At
  <2>2. CASE run' = [Idle EXCEPT !.pc = "plan"] /\ UNCHANGED lane
    <3>1. run'.pc = "plan" /\ run.pc = "redrive" /\ UNCHANGED <<pending, faults>>
      BY <1>4, <2>2 DEF Redriven, Idle, At
    <3>2. QED BY <2>2, <3>1, QuietKeeps
  <2>3. QED BY <1>4, <2>1, <2>2 DEF Redriven
<1>5. CASE Sweep
  <2>1. run'.pc = "done"
    BY <1>5 DEF Sweep, Goto, RecoveryTypeOK, Passes
  <2>2. QED BY <2>1 DEF RedispatchInv, MarkedInv, OpenInv
<1>6. CASE Gathered \/ \E t \in Tasks : \/ CountBlock(t)
                                        \/ \E how \in {"completed", "partial", "blocked"} : TaskReturns(t, how)
  <2>1. /\ UNCHANGED <<lane, pending>> /\ faults' \in {faults, faults + 1} /\ faults \in Nat
        /\ run.pc \in {"dispatch", "count"} /\ run'.pc \in {"dispatch", "count"}
    BY <1>6 DEF Gathered, CountBlock, TaskReturns, At, durable, RecoveryTypeOK, Passes
  <2>2. CASE faults' = faults
    BY <2>1, <2>2, DispatchKeeps
  <2>3. CASE faults' # faults
    <3>1. faults' # 0
      BY <2>1, <2>3
    <3>2. QED BY <3>1 DEF RedispatchInv, MarkedInv, OpenInv
  <2>4. QED BY <2>2, <2>3
<1>7. QED
  BY <1>1, <1>2, <1>3, <1>4, <1>5, <1>6, PlanRedispatches, EnqueueRedispatches, MarkRedispatches,
     DrainRedispatches, DrainedRedispatches DEF RecoveryNext, Step

(* The invariant, as long as nothing crashed.                               *)
LEMMA RedispatchInvariant == RecoverySpec => []RedispatchInv
<1>1. RecoveryInit => RedispatchInv
  BY DEF RecoveryInit, RedispatchInv, MarkedInv, OpenInv, NoLane, Idle
<1>2. BudgetInv /\ BudgetInv' /\ RedispatchInv /\ [RecoveryNext]_vars => RedispatchInv'
  BY RedispatchStep DEF BudgetInv, PlanInv
<1>3. QED BY <1>1, <1>2, BudgetInvariant, PTL DEF RecoverySpec

----------------------------------------------------------------------------
(* What a pass counted when it planned, against what is there now.          *)

(* Until its drain rejects a lane, a pass's counts are right, and it has    *)
(* nothing in hand that it would not have escalated.                        *)
CountedInv ==
  run.pc \in {"dispatch", "count", "mark", "drain"} => \A t \in Tasks :
    /\ run.result[t] # "none" => t \in run.todo
    /\ run.failed \cap Refailed(t) = {} => run.counted[t] = Refailures(t)
    /\ (/\ run.failed \cap HookFailed(t) = {} /\ run.result[t] # "blocked"
        /\ HookFailed(t) # {} /\ ~Integrated(t)) =>
         Spent(t, Refailures(t)) < MaxReruns

(* The plan counts, and leaves no task to escalate.                         *)
LEMMA PlanCounts ==
  ASSUME RecoveryTypeOK, Plan PROVE CountedInv'
<1>1. UNCHANGED <<lane, blocks>>
  BY DEF Plan, durable
<1>2. CASE Block \/ Goto("verify")
  <2>1. run'.pc \in {"returned", "verify"}
    BY <1>2 DEF Block, Return, Goto, Idle, RecoveryTypeOK, Passes
  <2>2. QED BY <2>1 DEF CountedInv
<1>3. CASE ~(Block \/ Goto("verify"))
  <2>1. /\ Deciding({"escalate", "stuck"}) = {} /\ run'.result = [t \in Tasks |-> "none"]
        /\ run'.counted = [t \in Tasks |-> Refailures(t)]
    BY <1>3 DEF Plan, Idle
  <2>2. ASSUME NEW t \in Tasks, HookFailed(t) # {}, ~Integrated(t)
        PROVE  Spent(t, Refailures(t)) < MaxReruns
    BY <2>1, <2>2 DEF Deciding, Decide
  <2>3. \A t \in Tasks : HookFailed(t)' = HookFailed(t) /\ Integrated(t)' = Integrated(t)
                           /\ Refailures(t)' = Refailures(t)
    BY <1>1 DEF HookFailed, Integrated, Refailures, Refailed, LanesOf
  <2>4. QED BY <1>1, <2>1, <2>2, <2>3 DEF CountedInv, Spent
<1>4. QED BY <1>2, <1>3

(* A step that leaves the rejected lanes, the commits and the counters of   *)
(* every task alone that it does not find blocked.                          *)
LEMMA CountsKeep ==
  ASSUME CountedInv, run'.pc \in {"dispatch", "count", "mark", "drain"},
         run.pc \in {"dispatch", "count", "mark", "drain"},
         run'.failed = run.failed, run'.counted = run.counted, run'.todo = run.todo,
         \A t \in Tasks : /\ HookFailed(t)' = HookFailed(t) /\ Refailed(t)' = Refailed(t)
                          /\ Integrated(t)' = Integrated(t)
                          /\ run'.result[t] # "none" => t \in run.todo
                          /\ run'.result[t] # "blocked" => run.result[t] # "blocked"
                                                           /\ blocks'[t] = blocks[t]
  PROVE  CountedInv'
BY DEF CountedInv, Refailures, Spent

(* The rejected lanes of a task stay while lanes are queued or drained.     *)
LEMMA RejectedStay ==
  ASSUME RecoveryTypeOK, LanesInv, NEW i \in Lanes, lane'[i] = lane[i], NEW t \in Tasks,
         \A j \in Lanes : lane[j].status = "failed" => lane'[j] = lane[j]
  PROVE  /\ i \in HookFailed(t)' <=> i \in HookFailed(t)
         /\ i \in Refailed(t)' <=> i \in Refailed(t)
<1>1. i \in HookFailed(t)' <=> i \in HookFailed(t)
  BY DEF HookFailed, LanesOf
<1>2. lane[i].source # 0 => lane'[lane[i].source] = lane[lane[i].source]
  BY DEF LanesInv, RowsInv, HookFailed, LanesOf
<1>3. QED BY <1>1, <1>2 DEF Refailed

(* Queued lanes are none the counts know of.                                *)
LEMMA EnqueueCounts ==
  ASSUME RecoveryTypeOK, LanesInv, CountedInv, Enqueue PROVE CountedInv'
<1>1. run.pc = "count" /\ UNCHANGED blocks
  BY DEF Enqueue, At
<1>2. PICK row : Inserted({t \in Batch : Existing(t) = {}}, row)
  BY DEF Enqueue
<1>3. /\ run'.pc = "mark" /\ run'.failed = run.failed /\ run'.counted = run.counted
      /\ run'.todo = run.todo /\ run'.result = run.result
  BY DEF Enqueue, RecoveryTypeOK, Passes
<1>4. ASSUME NEW i \in Lanes, lane'[i] # lane[i]
      PROVE  lane[i].status = "none" /\ lane'[i].status = "queued"
  <2>1. PICK t \in {t \in Batch : Existing(t) = {}} : row[t] = i
    BY <1>2, <1>4 DEF Inserted
  <2>2. lane[i].status = "none"
    BY <1>2, <2>1 DEF Inserted
  <2>3. lane'[i].status = "queued"
    BY <1>2, <2>1 DEF Inserted
  <2>4. QED BY <2>2, <2>3
<1>5. ASSUME NEW t \in Tasks
      PROVE  /\ HookFailed(t)' = HookFailed(t) /\ Refailed(t)' = Refailed(t)
             /\ Integrated(t)' = Integrated(t)
  <2>1. ASSUME NEW i \in Lanes
        PROVE  /\ i \in HookFailed(t)' <=> i \in HookFailed(t)
               /\ i \in Refailed(t)' <=> i \in Refailed(t)
               /\ (i \in LanesOf(t)' /\ lane'[i].status = "integrated") <=>
                    (i \in LanesOf(t) /\ lane[i].status = "integrated")
    <3>1. CASE lane'[i] = lane[i]
      <4>1. \A j \in Lanes : lane[j].status = "failed" => lane'[j] = lane[j]
        BY <1>4
      <4>2. QED BY <3>1, <4>1, RejectedStay DEF LanesOf
    <3>2. CASE lane'[i] # lane[i]
      BY <1>4, <3>2 DEF HookFailed, Refailed
    <3>3. QED BY <3>1, <3>2
  <2>2. HookFailed(t) \subseteq Lanes /\ HookFailed(t)' \subseteq Lanes
          /\ Refailed(t) \subseteq Lanes /\ Refailed(t)' \subseteq Lanes
    BY DEF HookFailed, Refailed, LanesOf
  <2>3. Integrated(t)' = Integrated(t)
    BY <2>1 DEF Integrated, LanesOf
  <2>4. QED BY <2>1, <2>2, <2>3
<1>6. \A t \in Tasks : run.result[t] # "none" => t \in run.todo
  BY <1>1 DEF CountedInv
<1>7. QED BY <1>1, <1>3, <1>5, <1>6, CountsKeep

(* A drained lane changes the counts only where it is rejected.             *)
LEMMA DrainCounts ==
  ASSUME RecoveryTypeOK, LanesInv, CountedInv, NEW i \in Lanes, DrainLane(i) PROVE CountedInv'
<1>1. PICK status, cause :
        /\ status = "integrated" \/ (status = "failed" /\ cause \in Hygiene \cup {"other"})
        /\ DrainedAs(i, status, cause)
  BY DEF DrainLane
<1>2. /\ lane[i].status = "queued" /\ lane'[i].status = status /\ lane'[i].task = lane[i].task
      /\ lane'[i].cause = cause /\ \A j \in Lanes \ {i} : lane'[j] = lane[j]
      /\ run'.failed = IF status = "failed" THEN run.failed \cup {i} ELSE run.failed
  BY <1>1 DEF DrainedAs, Queued, RecoveryTypeOK, Rows, Passes
<1>3. /\ run'.pc = run.pc /\ run'.counted = run.counted /\ run'.todo = run.todo
      /\ run'.result = run.result /\ UNCHANGED blocks
  BY <1>1 DEF DrainLane, DrainedAs, RecoveryTypeOK, Passes
<1>4. ASSUME NEW t \in Tasks
      PROVE  /\ \A j \in Lanes \ {i} : /\ j \in HookFailed(t)' <=> j \in HookFailed(t)
                                       /\ j \in Refailed(t)' <=> j \in Refailed(t)
             /\ i \notin HookFailed(t) /\ i \notin Refailed(t)
             /\ HookFailed(t)' \subseteq Lanes /\ HookFailed(t) \subseteq Lanes
             /\ Refailed(t)' \subseteq HookFailed(t)' /\ Refailed(t) \subseteq HookFailed(t)
  <2>1. \A j \in Lanes : lane[j].status = "failed" => lane'[j] = lane[j]
    BY <1>2
  <2>2. ASSUME NEW j \in Lanes \ {i}
        PROVE  /\ j \in HookFailed(t)' <=> j \in HookFailed(t)
               /\ j \in Refailed(t)' <=> j \in Refailed(t)
    BY <1>2, <2>1, RejectedStay
  <2>3. /\ HookFailed(t)' \subseteq Lanes /\ HookFailed(t) \subseteq Lanes
        /\ Refailed(t)' \subseteq HookFailed(t)' /\ Refailed(t) \subseteq HookFailed(t)
    BY DEF HookFailed, Refailed, LanesOf
  <2>4. i \notin HookFailed(t)
    BY <1>2 DEF HookFailed
  <2>5. QED BY <2>2, <2>3, <2>4
<1>5. ASSUME NEW t \in Tasks, i \in HookFailed(t)' PROVE i \in run'.failed
  <2>1. lane'[i].status = "failed"
    BY <1>5 DEF HookFailed
  <2>2. status = "failed"
    BY <1>2, <2>1
  <2>3. run'.failed = run.failed \cup {i}
    BY <1>2, <2>2
  <2>4. QED BY <2>3
<1>6. ASSUME NEW t \in Tasks, Integrated(t) PROVE Integrated(t)'
  BY <1>2, <1>6 DEF Integrated, LanesOf
<1>7. run.failed \subseteq run'.failed
  <2>1. CASE status = "failed" BY <1>2, <2>1
  <2>2. CASE status # "failed" BY <1>2, <2>2
  <2>3. QED BY <2>1, <2>2
<1>8. ASSUME NEW t \in Tasks, run'.failed \cap Refailed(t)' = {}
      PROVE  Refailed(t)' = Refailed(t) /\ run.failed \cap Refailed(t) = {}
  <2>1. i \notin Refailed(t)'
    BY <1>4, <1>5, <1>8
  <2>2. \A j : j \in Refailed(t)' <=> j \in Refailed(t)
    <3>1. ASSUME NEW j, j \in Refailed(t)' \/ j \in Refailed(t)
          PROVE  j \in Lanes \ {i}
      BY <1>4, <2>1, <3>1
    <3>2. QED BY <1>4, <3>1
  <2>3. Refailed(t)' = Refailed(t)
    BY <2>2
  <2>4. run.failed \subseteq run'.failed
    BY <1>7
  <2>5. QED BY <1>8, <2>3, <2>4
<1>9. ASSUME NEW t \in Tasks, run'.failed \cap HookFailed(t)' = {}
      PROVE  /\ HookFailed(t)' = HookFailed(t) /\ run.failed \cap HookFailed(t) = {}
             /\ Refailed(t)' = Refailed(t)
  <2>1. run'.failed \cap Refailed(t)' = {}
    BY <1>4, <1>9
  <2>2. i \notin HookFailed(t)'
    BY <1>5, <1>9
  <2>3. \A j : j \in HookFailed(t)' <=> j \in HookFailed(t)
    <3>1. ASSUME NEW j, j \in HookFailed(t)' \/ j \in HookFailed(t)
          PROVE  j \in Lanes \ {i}
      BY <1>4, <2>2, <3>1
    <3>2. QED BY <1>4, <3>1
  <2>4. HookFailed(t)' = HookFailed(t)
    BY <2>3
  <2>5. run.failed \subseteq run'.failed
    BY <1>7
  <2>6. QED BY <1>8, <1>9, <2>1, <2>4, <2>5
<1>10. SUFFICES ASSUME run.pc \in {"dispatch", "count", "mark", "drain"}, NEW t \in Tasks
               PROVE /\ run'.result[t] # "none" => t \in run'.todo
                     /\ run'.failed \cap Refailed(t)' = {} => run'.counted[t] = Refailures(t)'
                     /\ (/\ run'.failed \cap HookFailed(t)' = {} /\ run'.result[t] # "blocked"
                         /\ HookFailed(t)' # {} /\ ~Integrated(t)') =>
                          Spent(t, Refailures(t))' < MaxReruns
  BY <1>3 DEF CountedInv
<1>11. run'.result[t] # "none" => t \in run'.todo
  BY <1>3, <1>10 DEF CountedInv
<1>12. ASSUME run'.failed \cap Refailed(t)' = {} PROVE run'.counted[t] = Refailures(t)'
  BY <1>3, <1>8, <1>10, <1>12 DEF CountedInv, Refailures
<1>13. ASSUME run'.failed \cap HookFailed(t)' = {}, run'.result[t] # "blocked",
              HookFailed(t)' # {}, ~Integrated(t)'
       PROVE  Spent(t, Refailures(t))' < MaxReruns
  <2>1. /\ HookFailed(t) # {} /\ run.failed \cap HookFailed(t) = {} /\ Refailed(t)' = Refailed(t)
        /\ ~Integrated(t)
    BY <1>6, <1>9, <1>13
  <2>2. Spent(t, Refailures(t)) < MaxReruns
    BY <1>3, <1>10, <1>13, <2>1 DEF CountedInv
  <2>3. Spent(t, Refailures(t))' = Spent(t, Refailures(t))
    BY <1>3, <2>1 DEF Spent, Refailures
  <2>4. QED BY <2>2, <2>3
<1>14. QED BY <1>11, <1>12, <1>13

(* Every step keeps the counts.                                             *)
LEMMA CountedStep ==
  ASSUME RecoveryTypeOK, LanesInv, PlanInv, CountedInv, [RecoveryNext]_vars PROVE CountedInv'
<1> DEFINE Busy == {"dispatch", "count", "mark", "drain"}
<1>0. run \in Passes
  BY DEF RecoveryTypeOK
<1>1. ASSUME run'.pc \notin Busy PROVE CountedInv'
  BY <1>1 DEF CountedInv
<1>2. ASSUME UNCHANGED lane, run'.pc \in Busy, run.pc \in Busy, run'.failed = run.failed,
             run'.counted = run.counted, run'.todo = run.todo,
             \A t \in Tasks : /\ run'.result[t] # "none" => t \in run.todo
                              /\ run'.result[t] # "blocked" =>
                                   run.result[t] # "blocked" /\ blocks'[t] = blocks[t]
      PROVE  CountedInv'
  <2>1. \A t \in Tasks : /\ HookFailed(t)' = HookFailed(t) /\ Refailed(t)' = Refailed(t)
                         /\ Integrated(t)' = Integrated(t)
    BY <1>2 DEF HookFailed, Refailed, Integrated, LanesOf
  <2>2. QED BY <1>2, <2>1, CountsKeep
<1>3. CASE Gathered
  <2>1. /\ run.pc = "dispatch" /\ run'.pc = "count" /\ UNCHANGED <<lane, blocks>>
        /\ run'.failed = run.failed /\ run'.counted = run.counted /\ run'.todo = run.todo
        /\ run'.result = run.result
    BY <1>0, <1>3 DEF Gathered, At, durable, Passes
  <2>2. QED BY <1>2, <2>1 DEF CountedInv
<1>4. ASSUME NEW t \in Tasks, CountBlock(t) PROVE CountedInv'
  <2>1. /\ run.pc = "count" /\ run'.pc = "count" /\ UNCHANGED lane /\ run.result[t] = "blocked"
        /\ run'.failed = run.failed /\ run'.counted = run.counted /\ run'.todo = run.todo
        /\ run'.result = run.result /\ \A u \in Tasks \ {t} : blocks'[u] = blocks[u]
    BY <1>0, <1>4 DEF CountBlock, At, Passes, RecoveryTypeOK, PlanInv, LeftInv
  <2>2. QED BY <1>2, <2>1 DEF CountedInv
<1>5. ASSUME NEW t \in Tasks, Mark(t) PROVE CountedInv'
  <2>1. /\ run.pc = "mark" /\ run'.pc \in {"mark", "drain"} /\ UNCHANGED <<lane, blocks>>
        /\ run'.failed = run.failed /\ run'.counted = run.counted /\ run'.todo = run.todo
        /\ run'.result = run.result
    BY <1>0, <1>5 DEF Mark, At, Passes
  <2>2. QED BY <1>2, <2>1 DEF CountedInv
<1>6. ASSUME NEW t \in Tasks, NEW how, TaskReturns(t, how) PROVE CountedInv'
  <2>1. /\ run.pc = "dispatch" /\ run'.pc = "dispatch" /\ UNCHANGED <<lane, blocks>>
        /\ run'.failed = run.failed /\ run'.counted = run.counted /\ run'.todo = run.todo
        /\ t \in run.todo /\ run.result[t] = "none"
        /\ \A u \in Tasks \ {t} : run'.result[u] = run.result[u]
    BY <1>0, <1>6 DEF TaskReturns, At, Passes
  <2>2. ASSUME NEW u \in Tasks
        PROVE  /\ run'.result[u] # "none" => u \in run.todo
               /\ run'.result[u] # "blocked" => run.result[u] # "blocked" /\ blocks'[u] = blocks[u]
    BY <2>1 DEF CountedInv
  <2>3. QED BY <1>2, <2>1, <2>2
<1>7. CASE UNCHANGED vars
  <2>1. UNCHANGED <<run, lane, blocks>>
    BY <1>7 DEF vars, durable
  <2>2. CASE run.pc \in Busy
    BY <1>2, <2>1, <2>2 DEF CountedInv
  <2>3. CASE run.pc \notin Busy
    BY <1>1, <2>1, <2>3
  <2>4. QED BY <2>2, <2>3
<1>8. CASE Enter \/ Redriven \/ Sweep \/ EnqueueRefused \/ NothingToEnqueue \/ Drained \/ Returned
             \/ OperatorResumes \/ CheckpointRaises \/ Crash
  <2>1. CASE Enter \/ Redriven \/ Sweep
    BY <1>0, <1>1, <2>1 DEF Enter, Redriven, Sweep, Goto, Idle, Passes
  <2>2. CASE EnqueueRefused \/ NothingToEnqueue \/ CheckpointRaises
    BY <1>1, <2>2 DEF EnqueueRefused, NothingToEnqueue, CheckpointRaises, Block, Return, Idle
  <2>3. CASE Drained
    <3>1. \/ \E recoverable, token : Return(recoverable, token)
          \/ Goto("sweep")
      BY <2>3 DEF Drained, Block
    <3>2. QED BY <1>0, <1>1, <3>1 DEF Return, Goto, Idle, Passes
  <2>4. CASE Returned \/ OperatorResumes \/ Crash
    BY <1>1, <2>4 DEF Returned, OperatorResumes, Crash, Idle
  <2>5. QED BY <1>8, <2>1, <2>2, <2>3, <2>4
<1>9. QED
  BY <1>3, <1>4, <1>5, <1>6, <1>7, <1>8, PlanCounts, EnqueueCounts, DrainCounts
  DEF RecoveryNext, Step

(* The counts of a pass, over crashes and resumes.                          *)
LEMMA CountedInvariant == RecoverySpec => []CountedInv
<1>1. RecoveryInit => CountedInv
  BY DEF RecoveryInit, CountedInv, Idle
<1>2. BudgetInv /\ CountedInv /\ [RecoveryNext]_vars => CountedInv'
  BY CountedStep DEF BudgetInv
<1>3. QED BY <1>1, <1>2, BudgetInvariant, PTL DEF RecoverySpec

(* As long as nothing crashed, the refailures of a task are within its      *)
(* budget too.                                                              *)
LEMMA RefailuresAreBounded ==
  ASSUME BudgetInv, faults = 0, NEW t \in Tasks
  PROVE  Refailures(t) + blocks[t] <= MaxReruns
<1>1. Refailed(t) \subseteq Reruns(t) /\ Reruns(t) \in SUBSET Lanes
  BY DEF Refailed, Reruns, HookFailed, LanesOf, Hygiene
<1>2. Cardinality(Refailed(t)) <= Cardinality(Reruns(t))
        /\ Cardinality(Refailed(t)) \in Nat /\ Cardinality(Reruns(t)) \in Nat
  BY <1>1, LanesCount
<1>3. Cardinality(Reruns(t)) + blocks[t] <= MaxReruns
  BY RecoveryAssumption DEF BudgetInv, RerunsAreBounded
<1>4. blocks[t] \in Nat /\ MaxReruns \in Nat
  BY RecoveryAssumption DEF BudgetInv, RecoveryTypeOK
<1>5. QED BY <1>2, <1>3, <1>4 DEF Refailures

(* A recoverable drain failure is rerun by the next entry, but for a task   *)
(* whose last rerun this drain took: for every group and budget, as long as *)
(* nothing went wrong.                                                     *)
THEOREM RecoverableEndsInRerun == RecoverySpec => RecoverableIsRedispatched
<1> DEFINE Verdict ==
  /\ faults = 0 /\ At("drain") /\ At("returned")'
  /\ run'.recoverable /\ run'.token.kind = "rerun"
<1> DEFINE Found(t) ==
  /\ Decide(t) # "stuck"
  /\ Decide(t) = "escalate" =>
       Spent(t, Refailures(t)) = MaxReruns /\ run.failed \cap Refailed(t) # {}
<1>1. ASSUME BudgetInv, RedispatchInv, CountedInv, RecoveryNext, Verdict, NEW t \in Tasks
      PROVE  Found(t)
  <2>1. run \in Passes /\ faults \in Nat
    BY <1>1 DEF BudgetInv, RecoveryTypeOK
  <2>2. run'.pc = "returned" /\ run.pc = "drain"
    BY <1>1 DEF At
  <2>3. ~ \E i \in Lanes : DrainLane(i)
    BY <2>1, <2>2 DEF DrainLane, DrainedAs, Passes
  <2>4. ~CheckpointRaises
    BY <1>1, <2>1, <2>2 DEF CheckpointRaises, Block, Return, Idle
  <2>5. ~Crash
    BY <2>2 DEF Crash, Idle
  <2>6. Drained
    BY <1>1, <2>2, <2>3, <2>4, <2>5
    DEF RecoveryNext, Step, Enter, Redriven, Sweep, Plan, Gathered, CountBlock, Mark, TaskReturns,
        Enqueue, EnqueueRefused, NothingToEnqueue, Returned, OperatorResumes, At
  <2>7. Queued = {} /\ Ended("blocked") = {} /\ DrainRecoverable
    <3>1. ASSUME Goto("sweep") PROVE FALSE
      BY <2>1, <2>2, <3>1 DEF Goto, Passes
    <3>2. ASSUME Block PROVE FALSE
      BY <1>1, <3>2 DEF Block, Return, Idle
    <3>3. ASSUME Return(TRUE, [kind |-> "redrive", lanes |-> Blocking(Batch)]) PROVE FALSE
      <4>1. run'.token = [kind |-> "redrive", lanes |-> Blocking(Batch)]
        BY <3>3 DEF Return, Idle
      <4>2. QED BY <1>1, <4>1
    <3>4. QED BY <2>6, <3>1, <3>2, <3>3 DEF Drained
  <2>8. Decide(t) # "stuck"
    <3>1. ~Open(t)
      BY <2>7 DEF DrainRecoverable, Open
    <3>2. t \in pending => Safe(t)
      BY <1>1, <2>2, <3>1 DEF RedispatchInv, OpenInv
    <3>3. QED BY <3>2 DEF Decide, Safe
  <2>9. ASSUME Decide(t) = "escalate"
        PROVE  Spent(t, Refailures(t)) = MaxReruns /\ run.failed \cap Refailed(t) # {}
    <3>1. HookFailed(t) # {} /\ ~Integrated(t) /\ ~(Spent(t, Refailures(t)) < MaxReruns)
      BY <2>9 DEF Decide
    <3>2. Spent(t, Refailures(t)) = MaxReruns
      <4>1. Refailures(t) \in Nat /\ blocks[t] \in Nat /\ MaxReruns \in Nat
        BY <1>1, CountsAreNaturals, RecoveryAssumption DEF BudgetInv, RecoveryTypeOK
      <4>2. Refailures(t) + blocks[t] <= MaxReruns
        BY <1>1, RefailuresAreBounded
      <4>3. QED BY <3>1, <4>1, <4>2 DEF Spent
    <3>3. run.result[t] # "blocked"
      <4>1. run.result[t] = "blocked" => t \in run.todo
        BY <1>1, <2>2 DEF CountedInv
      <4>2. QED BY <2>7, <4>1 DEF Ended
    <3>4. run.failed \cap HookFailed(t) # {}
      BY <1>1, <2>2, <3>1, <3>3 DEF CountedInv
    <3>5. ASSUME run.failed \cap Refailed(t) = {} PROVE FALSE
      <4>1. run.counted[t] = Refailures(t)
        BY <1>1, <2>2, <3>5 DEF CountedInv
      <4>2. PICK i \in run.failed \cap HookFailed(t) : TRUE
        BY <3>4
      <4>3. lane[i].task = t
        BY <4>2 DEF HookFailed, LanesOf
      <4>4. QED BY <2>7, <3>1, <4>1, <4>2, <4>3 DEF DrainRecoverable
    <3>6. QED BY <3>2, <3>5
  <2>10. QED BY <2>8, <2>9
<1>2. BudgetInv /\ RedispatchInv /\ CountedInv /\ [RecoveryNext]_vars
        => [Verdict => \A t \in Tasks : Found(t)]_vars
  BY <1>1
<1>3. QED
  BY <1>2, BudgetInvariant, RedispatchInvariant, CountedInvariant, PTL
  DEF RecoverySpec, RecoverableIsRedispatched
============================================================================
