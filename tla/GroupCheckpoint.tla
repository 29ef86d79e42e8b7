-------------------------- MODULE GroupCheckpoint --------------------------
(***************************************************************************)
(* The checkpoint of one DAG group (GroupMergeCoordinator of               *)
(* execution/merge_queue.py, its production projector in                   *)
(* execution/merge_queue_wiring.py, and the journal writes of              *)
(* execution_control/store.py it ends in).  The group's lanes live in      *)
(* MergeQueueStore; here they are enqueued, drained and retried by its     *)
(* actions, one at a time, while checkpoint calls run.                     *)
(*                                                                         *)
(* A call is driven by a live implementation run or by a resume.  It makes *)
(* four database transactions (gate evidence, body evidence, projection,   *)
(* lanes done) under the feature advisory lock, and may crash between any  *)
(* two of them.                                                            *)
(***************************************************************************)
EXTENDS MergeQueueStore

CONSTANTS
  PatchOf, CommitOf,  \* what each lane applies, and the commit it ends in
  NoSession,          \* nobody holds the advisory lock
  NoBody,             \* no checkpoint projected, or no lane stamped, yet
  Results,            \* renderings of the per-task results a body may carry
  Subgroups,          \* sets of task ids a live run may ask to checkpoint
  MaxCrashes          \* bound: crashes of a call

ASSUME CheckpointAssumption ==
  /\ PatchOf \in [Lanes -> Patches] /\ CommitOf \in [Lanes -> Commits]
  /\ NoSession \notin Sessions
  /\ Subgroups \subseteq (SUBSET Tasks) \ {{}}
  /\ MaxCrashes \in Nat

(* Checkpoint bodies: the tasks, their rendered results, the commits.       *)
Bodies == [tasks : SUBSET Tasks, results : Results, commits : SUBSET Commits]

ASSUME BodiesAssumption == NoBody \notin Bodies

VARIABLES
  lock,         \* session that holds the feature advisory lock
  call,         \* the checkpoint call each session is in
  gate_node,    \* lanes named by the checkpoint_gate evidence node
  body_node,    \* body kept by the checkpoint-body evidence node
  projection,   \* body of the dag-group artifact
  stamp,        \* coverage digest and body each done lane was stamped with
  verdict,      \* how the call that ended last ended
  crashes

journal == <<gate_node, body_node, projection>>
vars == <<storeVars, lock, call, journal, stamp, verdict, crashes>>

NoCall == [pc |-> "idle", expected |-> {}, results |-> NoBody, covered |-> {}, body |-> NoBody]

At(w, label) == call[w].pc = label
Goto(w, label) == call' = [call EXCEPT ![w].pc = label]

Return(w, how) ==
  /\ call' = [call EXCEPT ![w] = NoCall]
  /\ verdict' = how
  /\ lock' = IF lock = w THEN NoSession ELSE lock

CheckpointInit ==
  /\ StoreInit
  /\ lock = NoSession
  /\ call = [w \in Sessions |-> NoCall]
  /\ gate_node = {} /\ body_node = NoBody /\ projection = NoBody
  /\ stamp = [i \in Lanes |-> NoBody]
  /\ verdict = "none"
  /\ crashes = 0

----------------------------------------------------------------------------
(* coverage(), from the typed rows.                                         *)
Candidates == {i \in Lanes : status[i] \in CandidateStatuses}
Covering(t) == {i \in Candidates : t \in covers[i]}

(* _superseded: the chain of replacements reaches a candidate through       *)
(* failed lanes only, all of them covering the same tasks.                  *)
Superseded[i \in Lanes] ==
  \E j \in Lanes :
    /\ Live(j) /\ retry_of[j] = i /\ covers[j] = covers[i]
    /\ status[j] \in CandidateStatuses \/ (status[j] = "failed" /\ Superseded[j])

(* Mutant: a task nobody covers is no obstacle.                             *)
ApprovedUncovered(E) ==
  /\ E # {}
  /\ \A t \in E : Cardinality(Covering(t)) <= 1
  /\ \A i \in Candidates : covers[i] \subseteq E
  /\ \A i \in Lanes : status[i] # "poisoned"
  /\ \A i \in Lanes : (status[i] = "failed" /\ covers[i] \cap E # {}) => Superseded[i]

Approved(E) ==
  /\ E # {}
  /\ \A t \in E : Cardinality(Covering(t)) = 1
  /\ \A i \in Candidates : covers[i] \subseteq E
  /\ \A i \in Lanes : status[i] # "poisoned"
  /\ \A i \in Lanes : (status[i] = "failed" /\ covers[i] \cap E # {}) => Superseded[i]

AlreadyDone == Candidates # {} /\ \A i \in Candidates : status[i] = "done"

GroupCommits == UNION {result_commit[i] : i \in Candidates}

(* _reconstruct_checkpoint_body, and what _checkpoint_coverage_digest       *)
(* tells apart.                                                             *)
Body(E, results) == [tasks |-> E, results |-> results, commits |-> GroupCommits]
CoverageDigest(w) == [lanes |-> call[w].covered, tasks |-> call[w].expected,
                      commits |-> call[w].body.commits]

----------------------------------------------------------------------------
(* The lanes of the group: enqueue (a retry only of a failed lane), and the *)
(* drain, which drives one lane at a time.                                  *)
LaneEnqueued(i) ==
  /\ \E t \in Tasks, src \in Lanes \cup {NoLane} : Enqueue(i, {t}, {}, PatchOf[i], src)
  /\ UNCHANGED <<lock, call, journal, stamp, verdict, crashes>>

InFlight == {i \in Lanes : status[i] \in {"leased"} \cup RecoverableStatuses}

LaneDriven(w, i) ==
  /\ \/ InFlight = {} /\ Claim(w, i)
     \/ \E to \in Statuses \ {"cancelled"} :
          Transition(w, i, 1, to, IF to = "integrated" THEN {CommitOf[i]} ELSE {})
  /\ UNCHANGED <<lock, call, journal, stamp, verdict, crashes>>

----------------------------------------------------------------------------
(* _checkpoint_durable_merge_queue_group.  A live run passes the tasks it   *)
(* has just drained; a resume every task of the group whose results go      *)
(* through the queue, and it does not come here while one is incomplete.    *)
Begin(w, E, results) ==
  /\ At(w, "idle")
  /\ call' = [call EXCEPT ![w] = [NoCall EXCEPT !.pc = "probe", !.expected = E,
                                                !.results = results]]
  /\ UNCHANGED <<storeVars, lock, journal, stamp, verdict, crashes>>

(* A first look at the coverage, without the lock.                          *)
Probe(w) ==
  /\ At(w, "probe")
  /\ \/ /\ Approved(call[w].expected)
        /\ Goto(w, "lock")
        /\ UNCHANGED <<lock, verdict>>
     \/ ~Approved(call[w].expected) /\ Return(w, "not_approved")
  /\ UNCHANGED <<storeVars, journal, stamp, crashes>>

(* Mutant: the advisory lock is not waited for.                             *)
TakeLock(w) ==
  /\ At(w, "lock") /\ lock' = w /\ Goto(w, "cover")
  /\ UNCHANGED <<storeVars, journal, stamp, verdict, crashes>>

AcquireLock(w) ==
  /\ At(w, "lock") /\ lock = NoSession
  /\ lock' = w
  /\ Goto(w, "cover")
  /\ UNCHANGED <<storeVars, journal, stamp, verdict, crashes>>

(* checkpoint_group, up to the body: coverage is computed again.            *)
Recompute(w) ==
  LET E == call[w].expected IN
  /\ At(w, "cover")
  /\ \/ /\ Approved(E) /\ AlreadyDone
        /\ Return(w, IF Cardinality({stamp[i] : i \in Candidates}) > 1
                     THEN "contradiction" ELSE "already")
     \/ ~Approved(E) /\ Return(w, "not_approved")
     \/ /\ Approved(E) /\ ~AlreadyDone
        /\ call' = [call EXCEPT ![w].pc = "gate", ![w].covered = Candidates,
                                ![w].body = Body(E, call[w].results)]
        /\ UNCHANGED <<lock, verdict>>
  /\ UNCHANGED <<storeVars, journal, stamp, crashes>>

(* The gate and body evidence nodes are overwritten whenever they differ:   *)
(* the strict-superset test is made by the projection only.  The gate names *)
(* the integrated and the done lanes: all that are covered, since no method *)
(* of the store leads a lane to checkpointing.                              *)
RecordGate(w) ==
  /\ At(w, "gate")
  /\ gate_node' = call[w].covered
  /\ Goto(w, "body")
  /\ UNCHANGED <<storeVars, lock, body_node, projection, stamp, verdict, crashes>>

RecordBody(w) ==
  /\ At(w, "body")
  /\ body_node' = call[w].body
  /\ Goto(w, "project")
  /\ UNCHANGED <<storeVars, lock, gate_node, projection, stamp, verdict, crashes>>

Supersedes(body) ==
  /\ projection # NoBody
  /\ projection.tasks \subseteq body.tasks /\ projection.tasks # body.tasks

(* Mutant: a body that is already projected is refused.                     *)
ProjectOnce(w) ==
  LET body == call[w].body IN
  /\ At(w, "project")
  /\ \/ /\ projection = NoBody \/ Supersedes(body)
        /\ projection' = body
        /\ Goto(w, "complete")
        /\ UNCHANGED <<lock, verdict>>
     \/ /\ projection # NoBody /\ ~Supersedes(body)
        /\ Return(w, "conflict")
        /\ UNCHANGED projection
  /\ UNCHANGED <<storeVars, gate_node, body_node, stamp, crashes>>

(* _project_group_checkpoint: insert, keep, replace in place, or conflict.  *)
Project(w) ==
  LET body == call[w].body IN
  /\ At(w, "project")
  /\ \/ /\ projection \in {NoBody, body} \/ Supersedes(body)
        /\ projection' = body
        /\ Goto(w, "complete")
        /\ UNCHANGED <<lock, verdict>>
     \/ /\ projection \notin {NoBody, body} /\ ~Supersedes(body)
        /\ Return(w, "conflict")
        /\ UNCHANGED projection
  /\ UNCHANGED <<storeVars, gate_node, body_node, stamp, crashes>>

Complete(w) ==
  /\ At(w, "complete")
  /\ CompleteCheckpoint(call[w].covered)
  /\ stamp' = [i \in Lanes |-> IF status'[i] # status[i]
                               THEN [digest |-> CoverageDigest(w), body |-> call[w].body]
                               ELSE stamp[i]]
  /\ Return(w, "sealed")
  /\ UNCHANGED <<journal, crashes>>

(* The process dies and its session lock with it; a resume calls again.     *)
Crash(w) ==
  /\ ~At(w, "idle") /\ crashes < MaxCrashes
  /\ crashes' = crashes + 1
  /\ Return(w, "none")
  /\ UNCHANGED <<storeVars, journal, stamp>>

Resume(w) == \E results \in Results : Begin(w, Tasks, results)
Advance(w) == Probe(w) \/ AcquireLock(w) \/ Recompute(w) \/ RecordGate(w)
                \/ RecordBody(w) \/ Project(w) \/ Complete(w)

CheckpointNext ==
  \/ \E i \in Lanes : LaneEnqueued(i) \/ \E w \in Sessions : LaneDriven(w, i)
  \/ \E w \in Sessions :
       \/ Resume(w) \/ \E E \in Subgroups, results \in Results : Begin(w, E, results)
       \/ Advance(w) \/ Crash(w)

CheckpointSpec == CheckpointInit /\ [][CheckpointNext]_vars

(* A blocked group is resumed (calls for a part of it do not go on for ever *)
(* without a resume in between), and a call that runs goes on.              *)
FairCheckpointSpec ==
  CheckpointSpec /\ \A w \in Sessions : SF_vars(Resume(w)) /\ WF_vars(Advance(w))

----------------------------------------------------------------------------
(* A done lane is in the published checkpoint, whatever calls came after it *)
(* and were refused: the dag-group body and the body evidence list its      *)
(* tasks and commits, and the approved gate node names the lane.            *)
DoneIsPublished ==
  \A i \in Lanes : status[i] = "done" =>
    /\ i \in gate_node
    /\ \A b \in {projection, body_node} :
         b # NoBody /\ covers[i] \subseteq b.tasks /\ result_commit[i] \subseteq b.commits

(* Whatever failed, was retried or is drained meanwhile, each task of the   *)
(* published body is covered by exactly one lane that was integrated, and   *)
(* the body's commits are those of these lanes.                             *)
PublishedIsBacked ==
  projection # NoBody =>
    /\ \A t \in projection.tasks : Cardinality(Covering(t)) = 1
    /\ projection.commits =
         UNION {result_commit[i] : i \in UNION {Covering(t) : t \in projection.tasks}}

(* What a coordinator promises of the group: GroupSeal, with the tasks of   *)
(* the projected body as published and those of the done lanes as settled.  *)
Seal == INSTANCE GroupSeal WITH
          Members   <- Tasks,
          published <- IF projection = NoBody THEN {} ELSE projection.tasks,
          settled   <- UNION {covers[i] : i \in {j \in Lanes : status[j] = "done"}}
ImplementsGroupSeal == Seal!SealSpec

(* The whole group is published, and a later body was rendered otherwise.   *)
RenderedOtherwise == projection.tasks = Tasks /\ body_node.results # projection.results

(* A group whose tasks are all integrated, and none of whose lanes blocks   *)
(* it, is sealed in the end, whatever crashes between the transactions:     *)
(* only a resume that renders the results otherwise than a call that died   *)
(* behind the projection stands in the way.                                 *)
ReadyGroupSeals ==
  Approved(Tasks) ~>
    (Approved(Tasks) => AlreadyDone \/ (projection # NoBody /\ RenderedOtherwise))
============================================================================
