----------------------- MODULE GroupCheckpointProofs -----------------------
(***************************************************************************)
(* The checkpoint of a group, for any number of lanes, tasks, callers,     *)
(* renderings and crashes: its lanes are those of the store, done lanes    *)
(* are published, the published body is backed, and the calls implement    *)
(* GroupSeal.                                                              *)
(***************************************************************************)
EXTENDS GroupCheckpoint, MergeQueueStoreProofs, FiniteSetTheorems

USE DEF identity, lease, ledger, evidence, storeVars

Labels == {"idle", "probe", "lock", "cover", "gate", "body", "project", "complete"}
Calls  == [pc : Labels, expected : SUBSET Tasks, results : Results \cup {NoBody},
           covered : SUBSET Lanes, body : Bodies \cup {NoBody}]

CallTypeOK ==
  /\ call \in [Sessions -> Calls]
  /\ \A w \in Sessions : ~At(w, "idle") => call[w].results \in Results

(* Every lane was enqueued for some task, and no drain hands one over to    *)
(* the checkpointing status.                                                *)
LanesInv ==
  /\ IsFiniteSet(Present)
  /\ \A i \in Present : covers[i] # {}
  /\ \A i \in Lanes : status[i] # "checkpointing"

(* A call computes and writes under the lock.                               *)
Sealing  == {"gate", "body", "project", "complete"}
LockInv  == \A w \in Sessions : call[w].pc \in {"cover"} \cup Sealing => lock = w

DoneLanes == {i \in Lanes : status[i] = "done"}

(* Lanes S are integrated and back a body.                                  *)
Backs(S, body) ==
  /\ S \subseteq Candidates
  /\ body.tasks = UNION {covers[i] : i \in S}
  /\ body.commits = UNION {result_commit[i] : i \in S}

(* What a call has computed stays true while it writes it: the lanes it     *)
(* covers back its body, all done ones are among them, and the journal has  *)
(* what the steps behind it wrote.                                          *)
Covered(w) ==
  /\ call[w].expected # {} /\ call[w].expected = call[w].body.tasks
  /\ call[w].body \in Bodies
  /\ Backs(call[w].covered, call[w].body) /\ DoneLanes \subseteq call[w].covered

SealingAt(w) ==
  /\ call[w].pc \in Sealing => Covered(w)
  /\ call[w].pc \in {"body", "project", "complete"} => gate_node = call[w].covered
  /\ call[w].pc \in {"project", "complete"} => body_node = call[w].body
  /\ call[w].pc = "complete" => projection = call[w].body

SealingInv == \A w \in Sessions : SealingAt(w)

ProjectionInv ==
  /\ projection \in Bodies \cup {NoBody}
  /\ projection # NoBody => \E S \in SUBSET Lanes : Backs(S, projection)

CheckpointInv ==
  /\ StoreInv /\ CallTypeOK /\ LanesInv
  /\ LockInv /\ SealingInv /\ ProjectionInv /\ DoneIsPublished

----------------------------------------------------------------------------
(* Candidates that share a task are one lane.                               *)
LEMMA CandidatesAlone ==
  ASSUME StoreInv, NEW i \in Candidates, NEW j \in Candidates, covers[i] \cap covers[j] # {}
  PROVE  i = j
  BY OneLiveLane DEF OneLiveLanePerTask, Candidates, CandidateStatuses

(* So a candidate is the only one that covers its tasks.                    *)
LEMMA CoveringAlone ==
  ASSUME StoreInv, NEW i \in Candidates, NEW t \in covers[i]
  PROVE  Covering(t) = {i}
  BY CandidatesAlone DEF Covering

(* The task of a body that is covered once is covered by a lane.            *)
LEMMA CoveringOne ==
  ASSUME LanesInv, NEW t, Cardinality(Covering(t)) = 1
  PROVE  \E i \in Candidates : t \in covers[i]
<1>1. Covering(t) \subseteq Present
  BY DEF Covering, Candidates, CandidateStatuses, Present
<1>2. IsFiniteSet(Covering(t))
  BY <1>1, FS_Subset DEF LanesInv
<1>3. PICK i : Covering(t) = {i}
  BY <1>2, FS_Singleton
<1>. QED BY <1>3 DEF Covering

(* What lanes back is what PublishedIsBacked asks of the projection.        *)
LEMMA Backed == StoreInv /\ LanesInv /\ ProjectionInv => PublishedIsBacked
<1>. SUFFICES ASSUME StoreInv, LanesInv, ProjectionInv, projection # NoBody
              PROVE  /\ \A t \in projection.tasks : Cardinality(Covering(t)) = 1
                     /\ projection.commits =
                          UNION {result_commit[i] : i \in UNION {Covering(t) : t \in projection.tasks}}
  BY DEF PublishedIsBacked
<1>1. PICK S \in SUBSET Lanes : Backs(S, projection)
  BY DEF ProjectionInv
<1>2. \A i \in S : i \in Candidates /\ covers[i] # {}
  BY <1>1 DEF Backs, LanesInv, Candidates, CandidateStatuses, Present
<1>3. \A t \in projection.tasks : \E i \in S : Covering(t) = {i} /\ t \in covers[i]
  BY <1>1, <1>2, CoveringAlone DEF Backs
<1>4. UNION {Covering(t) : t \in projection.tasks} = S
  <2>1. ASSUME NEW i \in S
        PROVE  i \in UNION {Covering(t) : t \in projection.tasks}
    <3>1. PICK t \in covers[i] : TRUE
      BY <1>2
    <3>2. t \in projection.tasks /\ i \in Covering(t)
      BY <1>1, <1>2, <3>1 DEF Backs, Covering
    <3>. QED BY <3>2
  <2>. QED BY <2>1, <1>3
<1>5. \A t \in projection.tasks : Cardinality(Covering(t)) = 1
  BY <1>3, FS_Singleton
<1>. QED BY <1>1, <1>4, <1>5 DEF Backs

----------------------------------------------------------------------------
(* What every step does to the lanes: candidates stay, as they are.         *)
LanesMove == \A i \in Candidates :
  i \in Candidates' /\ covers'[i] = covers[i] /\ result_commit'[i] = result_commit[i]

(* What lanes back, they back after such a step.                            *)
LEMMA BacksStays ==
  ASSUME LanesMove, NEW S, NEW b, Backs(S, b)
  PROVE  Backs(S, b)'
  BY DEF LanesMove, Backs

(* The steps of the queue are steps of the store that complete nothing.     *)
LEMMA QueueStep ==
  ASSUME StoreInv, LanesInv,
         NEW i \in Lanes, LaneEnqueued(i) \/ \E w \in Sessions : LaneDriven(w, i)
  PROVE  StoreNext /\ LanesMove /\ LanesInv' /\ DoneLanes' = DoneLanes
<1>. USE CheckpointAssumption, BoundsAssumption
<1>t. /\ status \in [Lanes -> Statuses] /\ covers \in [Lanes -> SUBSET Tasks]
      /\ result_commit \in [Lanes -> SUBSET Commits] /\ lease_version \in [Lanes -> 0 .. MaxVersion]
  BY DEF StoreInv, TypeOK
<1>1. CASE LaneEnqueued(i)
  <2>1. PICK t \in Tasks, src \in Lanes \cup {NoLane} : Enqueue(i, {t}, {}, PatchOf[i], src)
    BY <1>1 DEF LaneEnqueued
  <2>2. StoreNext
    <3>1. {t} \in SUBSET Tasks /\ {} \in SUBSET Repos /\ PatchOf[i] \in Patches
      OBVIOUS
    <3>. QED BY <2>1, <3>1 DEF StoreNext
  <2>3. status[i] = "none"
    BY <2>1, LanesAssumption DEF Enqueue, Present
  <2>4. /\ status' = [status EXCEPT ![i] = "queued"] /\ covers' = [covers EXCEPT ![i] = {t}]
        /\ result_commit' = result_commit
    BY <2>1 DEF Enqueue
  <2>5. LanesMove /\ DoneLanes' = DoneLanes
    <3>1. \A j \in Candidates : j # i /\ j \in Lanes
      BY <2>3 DEF Candidates, CandidateStatuses
    <3>2. Candidates' = Candidates /\ DoneLanes' = DoneLanes
      BY <1>t, <2>3, <2>4 DEF Candidates, CandidateStatuses, DoneLanes
    <3>. QED BY <1>t, <2>4, <3>1, <3>2 DEF LanesMove
  <2>6. Present' = Present \cup {i}
    BY <1>t, <2>4 DEF Present
  <2>7. IsFiniteSet(Present')
    BY <2>6, FS_AddElement DEF LanesInv
  <2>8. (\A j \in Present : covers[j] # {})' /\ (\A j \in Lanes : status[j] # "checkpointing")'
    BY <1>t, <2>4, <2>6 DEF LanesInv, Present
  <2>. QED BY <2>2, <2>5, <2>7, <2>8 DEF LanesInv
<1>2. ASSUME NEW w \in Sessions, LaneDriven(w, i)
      PROVE  StoreNext /\ LanesMove /\ LanesInv' /\ DoneLanes' = DoneLanes
  <2>. DEFINE Quiet == /\ covers' = covers /\ result_commit' = result_commit
                       /\ status[i] \in {"queued", "leased"} /\ status' = [status EXCEPT ![i] = "leased"]
  <2>. DEFINE Moved(to, C) ==
         /\ covers' = covers /\ result_commit' = [result_commit EXCEPT ![i] = @ \cup C]
         /\ <<status[i], to>> \in LeaseTransitions /\ status' = [status EXCEPT ![i] = to]
  <2>. DEFINE Goal == LanesMove /\ LanesInv' /\ DoneLanes' = DoneLanes
  <2>1. CASE Claim(w, i)
    <3>1. StoreNext
      BY <2>1 DEF StoreNext
    <3>2. Quiet
      BY <2>1 DEF Claim, Claimable
    <3>3. Present' = Present
      BY <3>2, <1>t DEF Present
    <3>4. Candidates' = Candidates /\ DoneLanes' = DoneLanes
      BY <1>t, <3>2 DEF Candidates, CandidateStatuses, DoneLanes
    <3>5. LanesInv'
      BY <1>t, <3>2, <3>3 DEF LanesInv
    <3>. QED BY <3>1, <3>2, <3>4, <3>5 DEF LanesMove
  <2>2. ASSUME NEW to \in Statuses \ {"cancelled"},
               Transition(w, i, 1, to, IF to = "integrated" THEN {CommitOf[i]} ELSE {})
        PROVE  StoreNext /\ Goal
    <3>. DEFINE C == IF to = "integrated" THEN {CommitOf[i]} ELSE {}
    <3>1. C \in SUBSET Commits
      OBVIOUS
    <3>2. 1 \in 1 .. MaxVersion
      BY <1>t, <2>2 DEF Transition, Fence
    <3>3. StoreNext
      BY <2>2, <3>1, <3>2 DEF StoreNext
    <3>4. Moved(to, C)
      BY <2>2 DEF Transition
    <3>5. status[i] \notin {"none", "integrated", "done"} /\ to \notin {"none", "done", "checkpointing"}
      BY <3>4, <1>t DEF LeaseTransitions
    <3>6. status[i] # "checkpointing"
      BY DEF LanesInv
    <3>7. Present' = Present
      BY <3>4, <3>5, <1>t DEF Present
    <3>8. LanesMove /\ DoneLanes' = DoneLanes
      <4>1. \A j \in Candidates : j # i /\ j \in Lanes
        BY <3>5, <3>6 DEF Candidates, CandidateStatuses
      <4>2. Candidates \subseteq Candidates' /\ DoneLanes' = DoneLanes
        BY <1>t, <3>4, <3>5, <4>1 DEF Candidates, CandidateStatuses, DoneLanes
      <4>. QED BY <1>t, <3>4, <4>1, <4>2 DEF LanesMove
    <3>9. LanesInv'
      BY <1>t, <3>4, <3>5, <3>7 DEF LanesInv
    <3>. QED BY <3>3, <3>8, <3>9
  <2>. QED BY <1>2, <2>1, <2>2 DEF LaneDriven
<1>. QED BY <1>1, <1>2

(* They leave the calls alone and keep what these rely on.                  *)
LEMMA QueueKeeps ==
  ASSUME CheckpointInv, UNCHANGED <<lock, call, journal>>,
         NEW i \in Lanes, LaneEnqueued(i) \/ \E w \in Sessions : LaneDriven(w, i)
  PROVE  CheckpointInv'
<1>. USE DEF CheckpointInv, journal
<1>1. LanesMove /\ LanesInv' /\ DoneLanes' = DoneLanes /\ StoreInv'
  BY QueueStep, StoreStep
<1>2. CallTypeOK' /\ LockInv'
  BY DEF CallTypeOK, LockInv, At
<1>3. ASSUME NEW w \in Sessions, SealingAt(w)
      PROVE  SealingAt(w)'
  <2>1. Covered(w) => Covered(w)'
    BY <1>1, BacksStays DEF Covered
  <2>. QED BY <1>3, <2>1 DEF SealingAt
<1>4. ProjectionInv'
  BY <1>1, BacksStays DEF ProjectionInv
<1>5. DoneIsPublished'
  <2>1. ASSUME NEW k \in Lanes, status'[k] = "done"
        PROVE  status[k] = "done" /\ covers'[k] = covers[k] /\ result_commit'[k] = result_commit[k]
    <3>1. k \in DoneLanes
      BY <1>1, <2>1 DEF DoneLanes
    <3>2. status[k] = "done" /\ k \in Candidates
      BY <3>1 DEF DoneLanes, Candidates, CandidateStatuses
    <3>. QED BY <1>1, <3>2 DEF LanesMove
  <2>. QED BY <2>1 DEF DoneIsPublished
<1>. QED BY <1>1, <1>2, <1>3, <1>4, <1>5 DEF SealingInv

----------------------------------------------------------------------------
(* A step of call w that leaves the lanes alone: only the holder of the     *)
(* lock writes the journal, and nobody loses the lock but w.                *)
LEMMA CallMoves ==
  ASSUME CheckpointInv, NEW w \in Sessions, NEW c \in Calls, UNCHANGED storeVars,
         call' = [call EXCEPT ![w] = c], c.pc # "idle" => c.results \in Results,
         c.pc \in {"cover"} \cup Sealing => lock' = w,
         \A v \in Sessions \ {w} : lock = v => lock' = v,
         lock = w \/ UNCHANGED journal,
         SealingAt(w)', ProjectionInv', DoneIsPublished'
  PROVE  CheckpointInv'
<1>. USE DEF CheckpointInv
<1>1. StoreInv'
  BY StoreStep
<1>2. LanesInv'
  BY DEF LanesInv, Present
<1>3. \A v \in Sessions \ {w} : call'[v] = call[v]
  BY DEF CallTypeOK
<1>4. call'[w] = c
  BY DEF CallTypeOK
<1>5. CallTypeOK'
  BY <1>3, <1>4 DEF CallTypeOK, At
<1>6. LockInv'
  BY <1>3, <1>4 DEF LockInv
<1>7. ASSUME NEW v \in Sessions \ {w}
      PROVE  SealingAt(v)'
  <2>1. call'[v] = call[v]
    BY <1>3
  <2>2. CASE call[v].pc \notin Sealing
    BY <2>1, <2>2 DEF SealingAt, Sealing
  <2>3. CASE call[v].pc \in Sealing
    <3>1. lock # w
      BY <2>3 DEF LockInv
    <3>2. UNCHANGED journal /\ SealingAt(v)
      BY <3>1 DEF SealingInv
    <3>3. Covered(v)'
      BY <2>1, <2>3, <3>2 DEF SealingAt, Covered, Backs, DoneLanes, Candidates
    <3>. QED BY <2>1, <3>2, <3>3 DEF SealingAt, journal
  <2>. QED BY <2>2, <2>3
<1>. QED BY <1>1, <1>2, <1>5, <1>6, <1>7 DEF SealingInv

(* The step of a call that writes nothing.                                  *)
LEMMA CallReads ==
  ASSUME CheckpointInv, NEW w \in Sessions, NEW c \in Calls, UNCHANGED <<storeVars, journal>>,
         call' = [call EXCEPT ![w] = c], c.pc # "idle" => c.results \in Results,
         c.pc \notin Sealing, c.pc = "cover" => lock' = w,
         \A v \in Sessions \ {w} : lock = v => lock' = v
  PROVE  CheckpointInv'
<1>. USE DEF CheckpointInv
<1>1. call'[w] = c
  BY DEF CallTypeOK
<1>2. SealingAt(w)'
  BY <1>1 DEF SealingAt, Sealing
<1>3. ProjectionInv' /\ DoneIsPublished'
  BY DEF ProjectionInv, DoneIsPublished, Backs, Candidates, journal
<1>. QED BY <1>2, <1>3, CallMoves

(* A call that returns, or dies.                                            *)
LEMMA CallReturns ==
  ASSUME CheckpointInv, NEW w \in Sessions, NEW how, Return(w, how), UNCHANGED <<storeVars, journal>>
  PROVE  CheckpointInv'
<1>1. NoCall \in Calls /\ NoCall.pc = "idle"
  BY DEF NoCall, Calls, Labels
<1>2. call' = [call EXCEPT ![w] = NoCall] /\ \A v \in Sessions \ {w} : lock = v => lock' = v
  BY DEF Return
<1>. QED BY <1>1, <1>2, CallReads DEF Sealing

(* A call at its next label, with what it had.                              *)
LEMMA Relabelled ==
  ASSUME CallTypeOK, NEW w \in Sessions, ~At(w, "idle"), NEW label \in Labels
  PROVE  LET c == [call[w] EXCEPT !.pc = label] IN
           /\ c \in Calls /\ c.results \in Results /\ c.pc = label
           /\ c.covered = call[w].covered /\ c.body = call[w].body /\ c.expected = call[w].expected
<1>1. call[w] \in Calls
  BY DEF CallTypeOK
<1>. QED BY <1>1 DEF CallTypeOK, Calls

----------------------------------------------------------------------------
(* The steps of a call, up to the coverage under the lock.                  *)
LEMMA BeginKeeps ==
  ASSUME CheckpointInv, NEW w \in Sessions, NEW E \in SUBSET Tasks, NEW results \in Results,
         Begin(w, E, results)
  PROVE  CheckpointInv'
<1>. DEFINE c == [NoCall EXCEPT !.pc = "probe", !.expected = E, !.results = results]
<1>1. c \in Calls /\ c.pc = "probe" /\ c.results = results
  BY DEF NoCall, Calls, Labels
<1>2. call' = [call EXCEPT ![w] = c] /\ lock' = lock /\ UNCHANGED <<storeVars, journal>>
  BY DEF Begin
<1>. HIDE DEF c
<1>. QED BY <1>1, <1>2, CallReads DEF Sealing

(* The lock-free probe, and taking the lock.                                *)
LEMMA LockKeeps ==
  ASSUME CheckpointInv, NEW w \in Sessions, Probe(w) \/ AcquireLock(w)
  PROVE  CheckpointInv'
<1>. USE DEF CheckpointInv
<1>1. CASE Probe(w) /\ Goto(w, "lock") /\ UNCHANGED <<lock, verdict>>
  <2>1. ~At(w, "idle")
    BY <1>1 DEF Probe, At
  <2>. QED BY <1>1, <2>1, Relabelled, CallReads DEF Probe, Goto, Labels, Sealing
<1>2. CASE Probe(w) /\ Return(w, "not_approved")
  BY <1>2, CallReturns DEF Probe
<1>3. CASE AcquireLock(w)
  <2>1. ~At(w, "idle") /\ lock = NoSession /\ lock' = w /\ UNCHANGED <<storeVars, journal>>
    BY <1>3 DEF AcquireLock, At
  <2>2. \A v \in Sessions \ {w} : lock = v => lock' = v
    BY <2>1, CheckpointAssumption
  <2>3. call' = [call EXCEPT ![w] = [call[w] EXCEPT !.pc = "cover"]]
    BY <1>3 DEF AcquireLock, Goto
  <2>4. "cover" \in Labels /\ "cover" \notin Sealing
    BY DEF Labels, Sealing
  <2>. QED BY <2>1, <2>2, <2>3, <2>4, Relabelled, CallReads
<1>. QED BY <1>1, <1>2, <1>3 DEF Probe

(* Approved coverage has one candidate for each task and no other: the body *)
(* that is made from it is backed by all candidates.                        *)
LEMMA RecomputeKeeps ==
  ASSUME CheckpointInv, NEW w \in Sessions, Recompute(w)
  PROVE  CheckpointInv'
<1>. USE DEF CheckpointInv
<1>. DEFINE E == call[w].expected
<1>. DEFINE b == Body(E, call[w].results)
<1>. DEFINE c == [call[w] EXCEPT !.pc = "gate", !.covered = Candidates, !.body = b]
<1>1. UNCHANGED <<storeVars, journal>> /\ At(w, "cover")
  BY DEF Recompute
<1>2. ASSUME NEW how, Return(w, how)
      PROVE  CheckpointInv'
  BY <1>1, <1>2, CallReturns
<1>3. ASSUME Approved(E), call' = [call EXCEPT ![w] = c], lock' = lock
      PROVE  CheckpointInv'
  <2>1. call[w] \in Calls /\ call[w].results \in Results
    BY <1>1 DEF CallTypeOK, At
  <2>2. GroupCommits \in SUBSET Commits
    BY DEF GroupCommits, StoreInv, TypeOK, Candidates
  <2>3. b \in Bodies /\ b.tasks = E /\ b.commits = GroupCommits
    BY <2>1, <2>2 DEF Body, Bodies, Calls
  <2>4. /\ c \in Calls /\ c.pc = "gate" /\ c.results = call[w].results
        /\ c.covered = Candidates /\ c.body = b /\ c.expected = E
    <3>1. Candidates \in SUBSET Lanes
      BY DEF Candidates
    <3>. HIDE DEF b
    <3>. QED BY <2>1, <2>3, <3>1 DEF Calls, Labels
  <2>. HIDE DEF b, c
  <2>5. E = UNION {covers[i] : i \in Candidates}
    <3>1. \A i \in Candidates : covers[i] \subseteq E
      BY <1>3 DEF Approved
    <3>2. \A t \in E : Cardinality(Covering(t)) = 1
      BY <1>3 DEF Approved
    <3>3. \A t \in E : \E i \in Candidates : t \in covers[i]
      BY <3>2, CoveringOne
    <3>. QED BY <3>1, <3>3
  <2>6. Backs(Candidates, b)
    BY <2>3, <2>5 DEF Backs, GroupCommits
  <2>7. E # {} /\ DoneLanes \subseteq Candidates
    BY <1>3 DEF Approved, DoneLanes, Candidates, CandidateStatuses
  <2>8. call'[w] = c
    BY <1>3 DEF CallTypeOK
  <2>9. Candidates' = Candidates /\ DoneLanes' = DoneLanes
    BY <1>1 DEF Candidates, DoneLanes
  <2>10. /\ call'[w].pc = "gate" /\ call'[w].covered = Candidates
         /\ call'[w].body = b /\ call'[w].expected = E
    BY <2>4, <2>8
  <2>11. SealingAt(w)'
    <3>1. Backs(call[w].covered, call[w].body)'
      BY <1>1, <2>6, <2>9, <2>10 DEF Backs
    <3>2. Covered(w)'
      BY <2>3, <2>7, <2>9, <2>10, <3>1 DEF Covered
    <3>. QED BY <2>10, <3>2 DEF SealingAt
  <2>12. lock = w
    BY <1>1 DEF LockInv, At
  <2>13. ProjectionInv' /\ DoneIsPublished'
    BY <1>1 DEF ProjectionInv, DoneIsPublished, Backs, Candidates, journal
  <2>. QED BY <1>1, <1>3, <2>1, <2>4, <2>11, <2>12, <2>13, CallMoves
<1>. HIDE DEF c, E
<1>. QED BY <1>2, <1>3 DEF Recompute, c, b, E

----------------------------------------------------------------------------
(* The transactions of a call.                                              *)

(* A done lane is among those the call covers, and its body lists it.       *)
LEMMA CoveredDone ==
  ASSUME NEW w \in Sessions, Covered(w), NEW i \in Lanes, status[i] = "done"
  PROVE  /\ i \in call[w].covered
         /\ covers[i] \subseteq call[w].body.tasks
         /\ result_commit[i] \subseteq call[w].body.commits
<1>1. i \in call[w].covered
  BY DEF Covered, DoneLanes
<1>. QED BY <1>1 DEF Covered, Backs

(* The evidence nodes and the projection, each written by its holder of the *)
(* lock; what was computed under the lock is still right.                   *)
LEMMA JournalKeeps ==
  ASSUME CheckpointInv, NEW w \in Sessions, RecordGate(w) \/ RecordBody(w) \/ Project(w)
  PROVE  CheckpointInv'
<1>. USE DEF CheckpointInv
<1>1. /\ call[w].pc \in Sealing /\ call[w].pc # "idle" /\ lock = w
      /\ Covered(w) /\ SealingAt(w) /\ UNCHANGED storeVars
  BY DEF RecordGate, RecordBody, Project, At, Sealing, LockInv, SealingInv, SealingAt
<1>2. ASSUME NEW label \in Sealing, Goto(w, label), lock' = lock,
             label \in {"body", "project", "complete"} => gate_node' = call[w].covered,
             label \in {"project", "complete"} => body_node' = call[w].body,
             label = "complete" => projection' = call[w].body,
             ProjectionInv', DoneIsPublished'
      PROVE  CheckpointInv'
  <2>. DEFINE c == [call[w] EXCEPT !.pc = label]
  <2>1. label \in Labels /\ ~At(w, "idle")
    BY <1>1 DEF Labels, Sealing, At
  <2>2. /\ c \in Calls /\ c.results \in Results /\ c.pc = label
        /\ c.covered = call[w].covered /\ c.body = call[w].body /\ c.expected = call[w].expected
    BY <2>1, Relabelled
  <2>3. call' = [call EXCEPT ![w] = c]
    BY <1>2 DEF Goto
  <2>. HIDE DEF c
  <2>4. call'[w] = c
    BY <2>3 DEF CallTypeOK
  <2>5. Covered(w)'
    BY <1>1, <2>2, <2>4 DEF Covered, Backs, DoneLanes, Candidates
  <2>6. SealingAt(w)'
    BY <1>2, <2>2, <2>4, <2>5 DEF SealingAt
  <2>. QED BY <1>1, <1>2, <2>2, <2>3, <2>6, CallMoves
<1>3. \A k \in Lanes : status[k] = "done" =>
        /\ k \in call[w].covered
        /\ covers[k] \subseteq call[w].body.tasks
        /\ result_commit[k] \subseteq call[w].body.commits
  BY <1>1, CoveredDone
<1>4. call[w].body \in Bodies /\ call[w].body # NoBody
  BY <1>1, BodiesAssumption DEF Covered
<1>5. projection' = projection => ProjectionInv'
  BY <1>1 DEF ProjectionInv, Backs, Candidates
<1>6. CASE RecordGate(w)
  <2>1. gate_node' = call[w].covered /\ Goto(w, "body") /\ lock' = lock
        /\ UNCHANGED <<body_node, projection>>
    BY <1>6 DEF RecordGate
  <2>2. DoneIsPublished'
    BY <1>1, <1>3, <2>1 DEF DoneIsPublished
  <2>. QED BY <1>2, <1>5, <2>1, <2>2 DEF Sealing
<1>7. CASE RecordBody(w)
  <2>1. body_node' = call[w].body /\ Goto(w, "project") /\ lock' = lock
        /\ UNCHANGED <<gate_node, projection>> /\ call[w].pc = "body"
    BY <1>7 DEF RecordBody, At
  <2>2. gate_node = call[w].covered
    BY <1>1, <2>1 DEF SealingAt
  <2>3. DoneIsPublished'
    BY <1>1, <1>3, <1>4, <2>1 DEF DoneIsPublished
  <2>. QED BY <1>2, <1>5, <2>1, <2>2, <2>3 DEF Sealing
<1>8. CASE Project(w) /\ projection' = call[w].body /\ Goto(w, "complete") /\ lock' = lock
  <2>1. UNCHANGED <<gate_node, body_node>> /\ call[w].pc = "project"
    BY <1>8 DEF Project, At
  <2>2. gate_node = call[w].covered /\ body_node = call[w].body
    BY <1>1, <2>1 DEF SealingAt
  <2>3. DoneIsPublished'
    BY <1>1, <1>3, <1>4, <1>8, <2>1 DEF DoneIsPublished
  <2>4. call[w].covered \in SUBSET Lanes /\ Backs(call[w].covered, call[w].body)
    BY <1>1 DEF Covered, CallTypeOK, Calls
  <2>5. ProjectionInv'
    <3>1. PICK S \in SUBSET Lanes : Backs(S, call[w].body)
      BY <2>4
    <3>2. Backs(S, projection)'
      BY <1>1, <1>8, <3>1 DEF Backs, Candidates
    <3>. QED BY <1>4, <1>8, <3>2 DEF ProjectionInv
  <2>. QED BY <1>2, <1>8, <2>1, <2>2, <2>3, <2>5 DEF Sealing
<1>9. CASE Project(w) /\ Return(w, "conflict") /\ UNCHANGED projection
  <2>1. UNCHANGED <<storeVars, journal>>
    BY <1>9 DEF Project, journal
  <2>. QED BY <1>9, <2>1, CallReturns
<1>. QED BY <1>6, <1>7, <1>8, <1>9 DEF Project

(* The covered lanes become done, all at once: they are the done lanes      *)
(* then, and every one of them is in what the call has published.           *)
LEMMA CompleteDone ==
  ASSUME CheckpointInv, NEW w \in Sessions, Complete(w)
  PROVE  /\ CompleteCheckpoint(call[w].covered) /\ StoreNext
         /\ Candidates' = Candidates /\ DoneLanes' = call[w].covered
         /\ Present' = Present /\ UNCHANGED <<covers, result_commit, journal>>
<1>. USE DEF CheckpointInv
<1>1. CompleteCheckpoint(call[w].covered) /\ UNCHANGED journal /\ At(w, "complete")
  BY DEF Complete
<1>2. call[w].covered \in SUBSET Lanes
  BY DEF CallTypeOK, Calls
<1>3. StoreNext
  BY <1>1, <1>2 DEF StoreNext
<1>4. call[w].covered \subseteq Candidates /\ DoneLanes \subseteq call[w].covered
  BY <1>1 DEF SealingInv, SealingAt, Sealing, Covered, Backs, At
<1>5. /\ \A i \in Lanes : status'[i] = IF i \in call[w].covered /\ status[i] \in {"integrated", "checkpointing"}
                                       THEN "done" ELSE status[i]
      /\ UNCHANGED <<covers, result_commit>>
  BY <1>1 DEF CompleteCheckpoint
<1>6. Candidates' = Candidates /\ Present' = Present
  BY <1>5 DEF Candidates, CandidateStatuses, Present
<1>7. DoneLanes' = call[w].covered
  BY <1>4, <1>5 DEF DoneLanes, Candidates, CandidateStatuses
<1>. QED BY <1>1, <1>3, <1>5, <1>6, <1>7

(* Completion, the last step, leaves the journal and the call behind.       *)
LEMMA CompleteKeeps ==
  ASSUME CheckpointInv, NEW w \in Sessions, Complete(w)
  PROVE  CheckpointInv'
<1>. USE DEF CheckpointInv
<1>1. /\ StoreNext /\ Candidates' = Candidates /\ DoneLanes' = call[w].covered
      /\ Present' = Present /\ UNCHANGED <<covers, result_commit, journal>>
  BY CompleteDone
<1>2. Return(w, "sealed") /\ At(w, "complete")
  BY DEF Complete
<1>3. lock = w /\ SealingAt(w) /\ call[w].pc = "complete"
  BY <1>2 DEF LockInv, SealingInv, Sealing, At
<1>4. /\ gate_node = call[w].covered /\ body_node = call[w].body /\ projection = call[w].body
      /\ Covered(w)
  BY <1>3 DEF SealingAt, Sealing
<1>5. NoCall \in Calls /\ NoCall.pc = "idle"
  BY DEF NoCall, Calls, Labels
<1>6. call' = [call EXCEPT ![w] = NoCall]
  BY <1>2 DEF Return
<1>7. \A v \in Sessions : call'[v].pc \notin {"cover"} \cup Sealing
  BY <1>3, <1>5, <1>6 DEF LockInv, CallTypeOK, Sealing
<1>8. CallTypeOK'
  BY <1>5, <1>6 DEF CallTypeOK, At
<1>9. LockInv' /\ SealingInv'
  BY <1>7 DEF LockInv, SealingInv, SealingAt, Sealing
<1>10. LanesInv'
  <2>1. \A i \in Lanes : status'[i] # "checkpointing"
    BY CompleteDone DEF CompleteCheckpoint, LanesInv
  <2>. QED BY <1>1, <2>1 DEF LanesInv
<1>11. ProjectionInv'
  BY <1>1 DEF ProjectionInv, Backs, journal
<1>12. DoneIsPublished'
  <2>1. ASSUME NEW i \in Lanes, status'[i] = "done"
        PROVE  i \in call[w].covered
    BY <1>1, <2>1 DEF DoneLanes
  <2>2. \A i \in call[w].covered : /\ covers[i] \subseteq call[w].body.tasks
                                   /\ result_commit[i] \subseteq call[w].body.commits
    BY <1>4 DEF Covered, Backs
  <2>3. call[w].body # NoBody
    BY <1>4, BodiesAssumption DEF Covered
  <2>4. \A b \in {projection, body_node}' : b = call[w].body
    BY <1>1, <1>4 DEF journal
  <2>. QED BY <1>1, <1>4, <2>1, <2>2, <2>3, <2>4 DEF DoneIsPublished, journal
<1>13. StoreInv'
  BY <1>1, StoreStep
<1>. QED BY <1>8, <1>9, <1>10, <1>11, <1>12, <1>13

----------------------------------------------------------------------------
(* The steps of the checkpoint, sorted by what they write.                  *)
LEMMA CheckpointSteps ==
  ASSUME CheckpointInv, [CheckpointNext]_vars
  PROVE  \/ /\ UNCHANGED <<lock, call, journal>>
            /\ \E i \in Lanes : LaneEnqueued(i) \/ \E w \in Sessions : LaneDriven(w, i)
         \/ \E w \in Sessions : Complete(w)
         \/ \E w \in Sessions : Project(w) /\ UNCHANGED storeVars
         \/ UNCHANGED <<storeVars, projection>>
<1>1. ASSUME NEW i \in Lanes, LaneEnqueued(i) \/ \E w \in Sessions : LaneDriven(w, i)
      PROVE  UNCHANGED <<lock, call, journal>>
  BY <1>1 DEF LaneEnqueued, LaneDriven
<1>2. ASSUME NEW w \in Sessions, NEW E, NEW results, Begin(w, E, results)
      PROVE  UNCHANGED <<storeVars, projection>>
  BY <1>2 DEF Begin, journal
<1>3. ASSUME NEW w \in Sessions,
             Probe(w) \/ AcquireLock(w) \/ Recompute(w) \/ RecordGate(w) \/ RecordBody(w) \/ Crash(w)
      PROVE  UNCHANGED <<storeVars, projection>>
  BY <1>3 DEF Probe, AcquireLock, Recompute, RecordGate, RecordBody, Crash, journal
<1>4. ASSUME NEW w \in Sessions, Project(w) PROVE UNCHANGED storeVars
  BY <1>4 DEF Project
<1>5. CASE UNCHANGED vars
  BY <1>5 DEF vars, journal
<1>. QED BY <1>1, <1>2, <1>3, <1>4, <1>5 DEF CheckpointNext, Advance, Resume

(* The empty group has the invariant.                                       *)
LEMMA CheckpointStart == CheckpointInit => CheckpointInv
<1>. SUFFICES ASSUME CheckpointInit PROVE CheckpointInv
  OBVIOUS
<1>1. StoreInit /\ StoreInv
  BY StoreStart DEF CheckpointInit
<1>2. Present = {} /\ Candidates = {} /\ \A i \in Lanes : status[i] = "none"
  BY <1>1 DEF StoreInit, Present, Candidates, CandidateStatuses
<1>3. LanesInv
  BY <1>2, FS_EmptySet DEF LanesInv
<1>4. CallTypeOK /\ \A w \in Sessions : call[w].pc = "idle"
  BY DEF CheckpointInit, CallTypeOK, NoCall, Calls, Labels, At
<1>5. LockInv /\ SealingInv
  BY <1>4 DEF LockInv, SealingInv, SealingAt, Sealing
<1>6. ProjectionInv /\ DoneIsPublished
  BY <1>2 DEF CheckpointInit, ProjectionInv, DoneIsPublished
<1>. QED BY <1>1, <1>3, <1>4, <1>5, <1>6 DEF CheckpointInv

(* Every step of the group keeps it.                                        *)
LEMMA CheckpointKeeps == CheckpointInv /\ [CheckpointNext]_vars => CheckpointInv'
<1>. SUFFICES ASSUME CheckpointInv, [CheckpointNext]_vars PROVE CheckpointInv'
  OBVIOUS
<1>1. ASSUME NEW i \in Lanes, LaneEnqueued(i) \/ \E w \in Sessions : LaneDriven(w, i)
      PROVE  CheckpointInv'
  BY <1>1, QueueKeeps DEF LaneEnqueued, LaneDriven
<1>2. ASSUME NEW w \in Sessions, NEW E \in Subgroups \cup {Tasks}, NEW results \in Results,
             Begin(w, E, results)
      PROVE  CheckpointInv'
  BY <1>2, BeginKeeps, CheckpointAssumption
<1>3. ASSUME NEW w \in Sessions, Advance(w)
      PROVE  CheckpointInv'
  BY <1>3, LockKeeps, RecomputeKeeps, JournalKeeps, CompleteKeeps DEF Advance
<1>4. ASSUME NEW w \in Sessions, Crash(w)
      PROVE  CheckpointInv'
  BY <1>4, CallReturns DEF Crash
<1>5. CASE UNCHANGED vars
  <2>1. UNCHANGED <<storeVars, lock, call, journal>>
    BY <1>5 DEF vars
  <2>2. StoreInv'
    BY <2>1, StoreStep DEF CheckpointInv
  <2>. QED BY <2>1, <2>2 DEF CheckpointInv, CallTypeOK, LanesInv, LockInv, SealingInv, SealingAt,
              Covered, Backs, DoneLanes, Candidates, Present, ProjectionInv, DoneIsPublished, At, journal
<1>. QED BY <1>1, <1>2, <1>3, <1>4, <1>5 DEF CheckpointNext, Resume

(* Whatever calls run, crash and resume while lanes are enqueued, fail, are *)
(* retried and drained: what a call computed under the lock stays true      *)
(* until it has written it.                                                 *)
THEOREM CheckpointInvariant == CheckpointSpec => []CheckpointInv
  BY CheckpointStart, CheckpointKeeps, PTL DEF CheckpointSpec

(* A done lane is in the published checkpoint and its evidence, for any     *)
(* number of calls of any parts of the group and any crashes between their  *)
(* transactions (checkpoint_group).                                         *)
THEOREM DoneStaysPublished == CheckpointSpec => []DoneIsPublished
<1>1. CheckpointInv => DoneIsPublished
  BY DEF CheckpointInv
<1>. QED BY <1>1, CheckpointInvariant, PTL

(* Each task of the published body has one integrated lane, and the body    *)
(* names the commits of these lanes and no others (coverage,                *)
(* _project_group_checkpoint).                                              *)
THEOREM PublishedStaysBacked == CheckpointSpec => []PublishedIsBacked
<1>1. CheckpointInv => PublishedIsBacked
  BY Backed DEF CheckpointInv
<1>. QED BY <1>1, CheckpointInvariant, PTL

----------------------------------------------------------------------------
(* The lanes of the group are those of the store: enqueue, the drain and    *)
(* complete_checkpoint are its methods, and nothing else touches the rows.  *)
THEOREM CheckpointImplementsStore == CheckpointSpec => StoreSpec
<1>1. CheckpointInit => StoreInit
  BY DEF CheckpointInit
<1>2. CheckpointInv /\ [CheckpointNext]_vars => [StoreNext]_storeVars
  BY CheckpointSteps, QueueStep, CompleteDone DEF CheckpointInv
<1>. QED BY <1>1, <1>2, CheckpointInvariant, PTL DEF CheckpointSpec, StoreSpec

(* Hence no task of the group is on two live lanes, whatever the            *)
(* checkpoints do.                                                          *)
THEOREM CheckpointKeepsStore == CheckpointSpec => []OneLiveLanePerTask
  BY CheckpointImplementsStore, StoreOneLiveLanePerTask, PTL

----------------------------------------------------------------------------
(* The refinement of GroupSeal.                                             *)
Published == IF projection = NoBody THEN {} ELSE projection.tasks
Settled   == UNION {covers[i] : i \in {j \in Lanes : status[j] = "done"}}

(* The lanes' steps settle nothing, and those of the calls that leave the   *)
(* projection alone publish nothing.                                        *)
LEMMA QueueSettlesNothing ==
  ASSUME CheckpointInv, LanesMove, DoneLanes' = DoneLanes
  PROVE  Settled' = Settled
<1>1. \A i \in DoneLanes : covers'[i] = covers[i]
  BY DEF LanesMove, DoneLanes, Candidates, CandidateStatuses
<1>2. Settled = UNION {covers[i] : i \in DoneLanes} /\ Settled' = UNION {covers'[i] : i \in DoneLanes'}
  BY DEF Settled, DoneLanes
<1>. QED BY <1>1, <1>2

(* The projection publishes the tasks of its call: the first ones, the same *)
(* ones again, or a strict superset.                                        *)
LEMMA ProjectPublishes ==
  ASSUME CheckpointInv, NEW w \in Sessions, Project(w)
  PROVE  \/ Published' = Published
         \/ /\ Published' \in SUBSET Tasks
            /\ Published \subseteq Published' /\ Published' # Published
<1>. USE DEF CheckpointInv
<1>1. Covered(w)
  BY DEF Project, At, SealingInv, SealingAt, Sealing
<1>2. /\ call[w].body \in Bodies /\ call[w].body # NoBody
      /\ call[w].body.tasks # {} /\ call[w].body.tasks \in SUBSET Tasks
  BY <1>1, BodiesAssumption DEF Covered, Bodies
<1>3. CASE projection' = projection
  BY <1>3 DEF Published
<1>4. CASE projection' = call[w].body /\ (projection = NoBody \/ Supersedes(call[w].body))
  BY <1>2, <1>4 DEF Published, Supersedes
<1>5. CASE projection' = call[w].body /\ projection = call[w].body
  BY <1>3, <1>5
<1>. QED BY <1>3, <1>4, <1>5 DEF Project

(* When a call completes its lanes, the done lanes are those it covers, and *)
(* their tasks are the published ones.                                      *)
LEMMA CompleteSettles ==
  ASSUME CheckpointInv, NEW w \in Sessions, Complete(w)
  PROVE  Settled' = Published /\ Published' = Published
<1>. USE DEF CheckpointInv
<1>1. DoneLanes' = call[w].covered /\ UNCHANGED <<covers, projection>>
  BY CompleteDone DEF journal
<1>2. projection = call[w].body /\ Covered(w)
  BY DEF Complete, At, SealingInv, SealingAt, Sealing
<1>3. Published = UNION {covers[i] : i \in call[w].covered}
  BY <1>2, BodiesAssumption DEF Published, Covered, Backs
<1>4. Settled' = UNION {covers'[i] : i \in DoneLanes'}
  BY DEF Settled, DoneLanes
<1>. QED BY <1>1, <1>3, <1>4 DEF Published

(* The coordinator keeps its promise to whoever reads dag-group: tasks are  *)
(* published first and only ever more of them, then all lanes of the        *)
(* published tasks settle at once (checkpoint_group, complete_checkpoint).  *)
THEOREM CheckpointImplementsSeal == CheckpointSpec => ImplementsGroupSeal
<1>. USE DEF Seal!SealNext, Seal!Publish, Seal!Settle
<1>1. CheckpointInit => Seal!SealInit
  BY DEF CheckpointInit, StoreInit, Seal!SealInit
<1>2. CheckpointInv /\ [CheckpointNext]_vars => [Seal!SealNext]_<<Published, Settled>>
  <2>. SUFFICES ASSUME CheckpointInv, [CheckpointNext]_vars
                PROVE  [Seal!SealNext]_<<Published, Settled>>
    OBVIOUS
  <2>1. ASSUME NEW i \in Lanes, LaneEnqueued(i) \/ \E w \in Sessions : LaneDriven(w, i),
               UNCHANGED journal
        PROVE  UNCHANGED <<Published, Settled>>
    <3>1. Settled' = Settled
      BY <2>1, QueueStep, QueueSettlesNothing DEF CheckpointInv
    <3>. QED BY <2>1, <3>1 DEF Published, journal
  <2>2. ASSUME NEW w \in Sessions, Complete(w)
        PROVE  [Seal!SealNext]_<<Published, Settled>>
    <3>1. Settled' = Published /\ Published' = Published
      BY <2>2, CompleteSettles
    <3>. QED BY <3>1 DEF Published, Settled
  <2>3. ASSUME NEW w \in Sessions, Project(w), UNCHANGED storeVars
        PROVE  [Seal!SealNext]_<<Published, Settled>>
    <3>1. Settled' = Settled
      BY <2>3 DEF Settled
    <3>2. \/ Published' = Published
          \/ Published' \in SUBSET Tasks /\ Published \subseteq Published' /\ Published' # Published
      BY <2>3, ProjectPublishes
    <3>. QED BY <3>1, <3>2 DEF Published, Settled
  <2>4. CASE UNCHANGED <<storeVars, projection>>
    BY <2>4 DEF Published, Settled
  <2>. QED BY <2>1, <2>2, <2>3, <2>4, CheckpointSteps
<1>. QED BY <1>1, <1>2, CheckpointInvariant, PTL
     DEF CheckpointSpec, ImplementsGroupSeal, Seal!SealSpec, Published, Settled
============================================================================
