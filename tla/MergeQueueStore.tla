-------------------------- MODULE MergeQueueStore --------------------------
(***************************************************************************)
(* The durable merge queue's tables and the store methods that write them  *)
(* (execution_control/merge_queue_store.py over schema.sql).  One variable *)
(* per column or child table; one action per store method.  Each method is *)
(* one database transaction that locks the rows it reads, so it is one     *)
(* step here.                                                              *)
(*                                                                         *)
(* A lane is a row of merge_queue_items, known by its serial id.  Tokens   *)
(* (session's lease owner, lease_version) are parameters of the fenced     *)
(* methods: the store compares them with the row and knows nothing else of *)
(* its caller, so the module lets any session present any token.           *)
(***************************************************************************)
EXTENDS Naturals, FiniteSets

CONSTANTS
  Lanes,          \* row ids, in the order the serial column hands them out
  Tasks,          \* task ids of one (feature, dag, group)
  Repos,          \* canonical repositories
  Patches,        \* (base, head) of a request
  HeadOf,         \* its head_commit: empty in a first request, in a retry a
                  \* digest of the fresh sandbox patch
  Commits,        \* git commits
  Sessions,       \* database sessions of drain processes
  Owners,         \* values of lease_owner
  OwnerOf,        \* the lease_owner each session passes
  NoLane, NoOwner, NoCommit, NoPatch,
  MaxRecoveries,  \* MAX_RECOVERIES
  MaxVersion      \* bound: lease versions a lane may reach

ASSUME LanesAssumption == Lanes \subseteq Nat /\ NoLane \notin Lanes
ASSUME OwnersAssumption == OwnerOf \in [Sessions -> Owners] /\ NoOwner \notin Owners
ASSUME HeadsAssumption == DOMAIN HeadOf = Patches
ASSUME NullsAssumption == NoCommit \notin Commits /\ NoPatch \notin Patches
ASSUME BoundsAssumption == MaxRecoveries \in Nat /\ MaxVersion \in Nat

VARIABLES
  status,          \* merge_queue_items.status, "none" before the insert
  covers,          \* task ids of the lane's merge_queue_task_coverage rows
  patch,           \* base_commit and head_commit
  retry_of,        \* retry_of_queue_item_id
  lease_owner,
  lease_version,
  expired,         \* leased_until < now()
  recovery_count,  \* payload.recovery_count
  proofs,          \* which of the three proof evidence ids the row carries
  result_commit,   \* commits joined in the result_commit column, {} when empty
  target,          \* status of the lane's repo target per repo, "none" without one
  pre_apply_head,  \* of the repo target
  target_commit,   \* result_commit of the repo target
  grants           \* history: the leases handed out, as <<session, lane, version>>

identity == <<covers, patch, retry_of>>
lease    == <<lease_owner, lease_version, expired, recovery_count>>
ledger   == <<target, pre_apply_head, target_commit>>
evidence == <<proofs, result_commit>>

storeVars == <<status, identity, lease, ledger, evidence, grants>>

(* Mutant: a lane that crashed before its gates is never recovered.         *)
RecoverableButVerifying == {"applying", "committing", "checkpointing"}

Statuses == {"none", "queued", "leased", "applying", "verifying", "committing",
             "integrated", "checkpointing", "done", "failed", "poisoned", "cancelled"}

TerminalStatuses    == {"done", "failed", "poisoned", "cancelled"}
RecoverableStatuses == {"applying", "verifying", "committing", "checkpointing"}
CandidateStatuses   == {"integrated", "checkpointing", "done"}

TargetStatuses == {"none", "pending", "pre_apply_recorded", "applied",
                   "committed", "clean", "failed", "poisoned"}

(* The lease-fenced transitions; integrated -> done belongs to the group    *)
(* coordinator and is not among them.                                       *)
LeaseTransitions ==
  (   {"leased"}        \X {"applying", "failed", "poisoned", "cancelled"})
  \cup ({"applying"}      \X {"verifying", "failed", "poisoned"})
  \cup ({"verifying"}     \X {"committing", "failed", "poisoned"})
  \cup ({"committing"}    \X {"integrated", "failed", "poisoned"})
  \cup ({"checkpointing"} \X {"failed", "poisoned"})

RepoTargetTransitions ==
  (   {"pending"}            \X {"pre_apply_recorded", "failed", "poisoned"})
  \cup ({"pre_apply_recorded"} \X {"applied", "failed", "poisoned"})
  \cup ({"applied"}            \X {"committed", "failed", "poisoned"})
  \cup ({"committed"}          \X {"clean", "failed", "poisoned"})

(* Mutant: no gate proof is asked for.                                      *)
ProofForUngated(to) == CASE to = "verifying"  -> {"merge"}
                         [] to = "integrated" -> {"commit"}
                         [] OTHER             -> {}

(* The proof a transition must carry, and records.                          *)
ProofFor(to) == CASE to = "verifying"  -> {"merge"}
                  [] to = "committing" -> {"gate"}
                  [] to = "integrated" -> {"commit"}
                  [] OTHER             -> {}

Present == {i \in Lanes : status[i] # "none"}
Live(i) == status[i] \notin {"none", "cancelled"}

RepoTargets(i) == {r \in Repos : target[i][r] # "none"}

(* Same idempotency_key: an enqueue returns (or conflicts with) that row.   *)
SameKey(i, T, p) == covers[i] = T /\ patch[i] = p

(* A row a non-cancelled lane cites as its retry source.                    *)
Replaced(i) == \E j \in Lanes : Live(j) /\ retry_of[j] = i

(* The WHERE clause of every lease-fenced statement.                        *)
Fence(s, i, v) == lease_owner[i] = OwnerOf[s] /\ lease_version[i] = v

StoreInit ==
  /\ status = [i \in Lanes |-> "none"]
  /\ covers = [i \in Lanes |-> {}]
  /\ patch = [i \in Lanes |-> NoPatch]
  /\ retry_of = [i \in Lanes |-> NoLane]
  /\ lease_owner = [i \in Lanes |-> NoOwner]
  /\ lease_version = [i \in Lanes |-> 0]
  /\ expired = [i \in Lanes |-> FALSE]
  /\ recovery_count = [i \in Lanes |-> 0]
  /\ proofs = [i \in Lanes |-> {}]
  /\ result_commit = [i \in Lanes |-> {}]
  /\ target = [i \in Lanes |-> [r \in Repos |-> "none"]]
  /\ pre_apply_head = [i \in Lanes |-> [r \in Repos |-> NoCommit]]
  /\ target_commit = [i \in Lanes |-> [r \in Repos |-> NoCommit]]
  /\ grants = {}

----------------------------------------------------------------------------
(* Mutant: a lane that still waits in the queue competes with nobody.       *)
NoCompetingLaneStarted(T) ==
  \A j \in Lanes : (Live(j) /\ status[j] # "queued") => covers[j] \cap T = {}

(* _reject_competing_lanes: no other lane, whatever became of it short of   *)
(* cancellation, covers one of the tasks.                                   *)
NoCompetingLane(T) == \A j \in Lanes : Live(j) => covers[j] \cap T = {}

(* _validate_retry_source, with the unique index on live replacements.      *)
ValidRetrySource(src, T, p) ==
  /\ src \in Lanes
  /\ status[src] = "failed"
  /\ result_commit[src] = {}
  /\ HeadOf[patch[src]] # HeadOf[p]
  /\ ~Replaced(src)
  /\ covers[src] = T

(* enqueue: a new lane i for tasks T, repo targets R, patch p, replacing    *)
(* src unless src = NoLane.  A request whose key exists writes nothing.     *)
Enqueue(i, T, R, p, src) ==
  /\ i \in Lanes /\ \A j \in Present : j < i
  /\ T \in (SUBSET Tasks) \ {{}} /\ R \subseteq Repos /\ p \in Patches
  /\ \A j \in Present : ~SameKey(j, T, p)
  /\ \/ src = NoLane /\ NoCompetingLane(T)
     \/ ValidRetrySource(src, T, p)
  /\ status' = [status EXCEPT ![i] = "queued"]
  /\ covers' = [covers EXCEPT ![i] = T]
  /\ patch' = [patch EXCEPT ![i] = p]
  /\ retry_of' = [retry_of EXCEPT ![i] = src]
  /\ target' = [target EXCEPT ![i] = [r \in Repos |-> IF r \in R THEN "pending" ELSE "none"]]
  /\ UNCHANGED <<lease, pre_apply_head, target_commit, evidence, grants>>

(* Mutant: the lease deadline alone makes a lane claimable.                 *)
ClaimableWhenExpired(i) == status[i] = "queued" \/ expired[i]

Claimable(i) == status[i] = "queued" \/ (status[i] = "leased" /\ expired[i])

(* Mutant: an owner that claims its own lane again keeps the version.       *)
ClaimKeepingVersion(s, i) ==
  LET v == IF lease_owner[i] = OwnerOf[s] THEN lease_version[i] ELSE lease_version[i] + 1 IN
  /\ Claimable(i) /\ v \in 1 .. MaxVersion
  /\ status' = [status EXCEPT ![i] = "leased"]
  /\ lease_owner' = [lease_owner EXCEPT ![i] = OwnerOf[s]]
  /\ lease_version' = [lease_version EXCEPT ![i] = v]
  /\ expired' = [expired EXCEPT ![i] = FALSE]
  /\ grants' = grants \cup {<<s, i, v>>}
  /\ UNCHANGED <<identity, recovery_count, ledger, evidence>>

(* claim: the oldest claimable lane (production enqueues every lane with    *)
(* the same priority).                                                      *)
Claim(s, i) ==
  /\ Claimable(i) /\ \A j \in Lanes : Claimable(j) => i <= j
  /\ lease_version[i] < MaxVersion
  /\ status' = [status EXCEPT ![i] = "leased"]
  /\ lease_owner' = [lease_owner EXCEPT ![i] = OwnerOf[s]]
  /\ lease_version' = [lease_version EXCEPT ![i] = @ + 1]
  /\ expired' = [expired EXCEPT ![i] = FALSE]
  /\ grants' = grants \cup {<<s, i, lease_version[i] + 1>>}
  /\ UNCHANGED <<identity, recovery_count, ledger, evidence>>

(* heartbeat renews a lease nobody took over, expired or not.               *)
Heartbeat(s, i, v) ==
  /\ Fence(s, i, v)
  /\ status[i] \notin TerminalStatuses
  /\ expired' = [expired EXCEPT ![i] = FALSE]
  /\ UNCHANGED <<status, identity, lease_owner, lease_version, recovery_count,
                 ledger, evidence, grants>>

Recoverable(i) == status[i] \in RecoverableStatuses /\ expired[i]

(* recover_expired: the oldest expired in-flight lane gets a new lease, or  *)
(* is poisoned when it was recovered MaxRecoveries times already.           *)
RecoverExpired(s, i) ==
  /\ Recoverable(i) /\ \A j \in Lanes : Recoverable(j) => i <= j
  /\ recovery_count' = [recovery_count EXCEPT ![i] = @ + 1]
  /\ \/ /\ recovery_count[i] >= MaxRecoveries
        /\ status' = [status EXCEPT ![i] = "poisoned"]
        /\ UNCHANGED <<lease_owner, lease_version, expired, grants>>
     \/ /\ recovery_count[i] < MaxRecoveries
        /\ lease_version[i] < MaxVersion
        /\ lease_owner' = [lease_owner EXCEPT ![i] = OwnerOf[s]]
        /\ lease_version' = [lease_version EXCEPT ![i] = @ + 1]
        /\ expired' = [expired EXCEPT ![i] = FALSE]
        /\ grants' = grants \cup {<<s, i, lease_version[i] + 1>>}
        /\ UNCHANGED status
  /\ UNCHANGED <<identity, ledger, evidence>>

(* transition: commits C is the result_commit argument, given only on the   *)
(* way to integrated.  The lease deadline is not consulted.                 *)
Transition(s, i, v, to, C) ==
  /\ Fence(s, i, v)
  /\ <<status[i], to>> \in LeaseTransitions
  /\ C # {} <=> to = "integrated"
  /\ status' = [status EXCEPT ![i] = to]
  /\ proofs' = [proofs EXCEPT ![i] = @ \cup ProofFor(to)]
  /\ result_commit' = [result_commit EXCEPT ![i] = @ \cup C]
  /\ UNCHANGED <<identity, lease, ledger, grants>>

(* advance_repo_target: fenced through the parent row, whose status it does *)
(* not look at; commit c is the head or result the new status must carry.   *)
AdvanceRepoTarget(s, i, v, r, to, c) ==
  /\ Fence(s, i, v)
  /\ <<target[i][r], to>> \in RepoTargetTransitions
  /\ target' = [target EXCEPT ![i][r] = to]
  /\ pre_apply_head' = IF to = "pre_apply_recorded"
                       THEN [pre_apply_head EXCEPT ![i][r] = c] ELSE pre_apply_head
  /\ target_commit' = IF to = "committed"
                      THEN [target_commit EXCEPT ![i][r] = c] ELSE target_commit
  /\ UNCHANGED <<status, identity, lease, evidence, grants>>

(* Mutant: one update per lane, each committed by itself.                   *)
CompleteOneLane(S) ==
  \E i \in {j \in S : status[j] \in {"integrated", "checkpointing"}} :
    /\ status' = [status EXCEPT ![i] = "done"]
    /\ lease_owner' = [lease_owner EXCEPT ![i] = NoOwner]
    /\ expired' = [expired EXCEPT ![i] = FALSE]
    /\ UNCHANGED <<identity, lease_version, recovery_count, ledger, evidence, grants>>

(* complete_checkpoint: the covered lanes that are still pending become     *)
(* done, and their leases are cleared, in one update.                       *)
CompleteCheckpoint(S) ==
  /\ S # {}
  /\ LET Advanced == {i \in S : status[i] \in {"integrated", "checkpointing"}}
     IN /\ status' = [i \in Lanes |-> IF i \in Advanced THEN "done" ELSE status[i]]
        /\ lease_owner' = [i \in Lanes |-> IF i \in Advanced THEN NoOwner ELSE lease_owner[i]]
        /\ expired' = [i \in Lanes |-> IF i \in Advanced THEN FALSE ELSE expired[i]]
  /\ UNCHANGED <<identity, lease_version, recovery_count, ledger, evidence, grants>>

(* The clock passes leased_until.                                           *)
LeaseExpires(i) ==
  /\ lease_owner[i] # NoOwner /\ ~expired[i]
  /\ status[i] \in {"leased"} \cup RecoverableStatuses
  /\ expired' = [expired EXCEPT ![i] = TRUE]
  /\ UNCHANGED <<status, identity, lease_owner, lease_version, recovery_count,
                 ledger, evidence, grants>>

StoreNext ==
  \/ \E i \in Lanes, T \in SUBSET Tasks, R \in SUBSET Repos, p \in Patches,
        src \in Lanes \cup {NoLane} : Enqueue(i, T, R, p, src)
  \/ \E s \in Sessions, i \in Lanes : Claim(s, i) \/ RecoverExpired(s, i)
  \/ \E s \in Sessions, i \in Lanes, v \in 1 .. MaxVersion :
        \/ Heartbeat(s, i, v)
        \/ \E to \in Statuses, C \in SUBSET Commits : Transition(s, i, v, to, C)
        \/ \E r \in Repos, to \in TargetStatuses, c \in Commits :
              AdvanceRepoTarget(s, i, v, r, to, c)
  \/ \E S \in SUBSET Lanes : CompleteCheckpoint(S)
  \/ \E i \in Lanes : LeaseExpires(i)

StoreSpec == StoreInit /\ [][StoreNext]_storeVars

----------------------------------------------------------------------------
TypeOK ==
  /\ status \in [Lanes -> Statuses]
  /\ covers \in [Lanes -> SUBSET Tasks]
  /\ patch \in [Lanes -> Patches \cup {NoPatch}]
  /\ retry_of \in [Lanes -> Lanes \cup {NoLane}]
  /\ lease_owner \in [Lanes -> Owners \cup {NoOwner}]
  /\ lease_version \in [Lanes -> 0 .. MaxVersion]
  /\ expired \in [Lanes -> BOOLEAN]
  /\ recovery_count \in [Lanes -> Nat]
  /\ proofs \in [Lanes -> SUBSET {"merge", "gate", "commit"}]
  /\ result_commit \in [Lanes -> SUBSET Commits]
  /\ target \in [Lanes -> [Repos -> TargetStatuses]]
  /\ pre_apply_head \in [Lanes -> [Repos -> Commits \cup {NoCommit}]]
  /\ target_commit \in [Lanes -> [Repos -> Commits \cup {NoCommit}]]
  /\ grants \subseteq Sessions \X Lanes \X (1 .. MaxVersion)

(* No two lanes that are neither failed nor cancelled cover the same task,  *)
(* however often lanes failed, were retried or were cancelled in between:   *)
(* a task's patch is in at most one place on its way to the canonical repo. *)
OneLiveLanePerTask ==
  \A i, j \in Lanes :
    (i # j /\ covers[i] \cap covers[j] # {})
      => (status[i] \in {"none", "failed", "cancelled"}
          \/ status[j] \in {"none", "failed", "cancelled"})

(* A lease version of a lane was handed to one session only, by a claim or  *)
(* by a recovery: the version alone tells the holder from everyone who held *)
(* the lane before, although all drains share one lease_owner string.       *)
VersionGrantedOnce ==
  \A g, h \in grants : (g[2] = h[2] /\ g[3] = h[3]) => g = h

(* A lane that may be counted for the group checkpoint went through apply,  *)
(* post-apply gates and commit under the lease: it carries all three proofs *)
(* and names its commits (the status CHECKs of schema.sql).                 *)
CandidateIsProven ==
  \A i \in Lanes : status[i] \in CandidateStatuses =>
    /\ proofs[i] = {"merge", "gate", "commit"}
    /\ result_commit[i] # {}

(* A terminal lane stays what it is, and an integrated one can only be      *)
(* checkpointed: no recovery, expiry or stale token reopens either.         *)
TerminalIsFinal ==
  [][\A i \in Lanes :
       /\ status[i] \in TerminalStatuses => status'[i] = status[i]
       /\ status[i] = "integrated" => status'[i] \in {"integrated", "done"}]_storeVars

----------------------------------------------------------------------------
(* What the above rest on: with TypeOK, an inductive invariant of StoreSpec. *)

(* A retry covers what its source covered, and the source stays failed.     *)
RetryOfFailed ==
  \A j \in Lanes : retry_of[j] # NoLane =>
    status[retry_of[j]] = "failed" /\ covers[retry_of[j]] = covers[j]

(* Of two live lanes with a task in common, one was replaced.               *)
OverlapReplaced ==
  \A i, j \in Lanes :
    (i # j /\ Live(i) /\ Live(j) /\ covers[i] \cap covers[j] # {})
      => Replaced(i) \/ Replaced(j)

(* A lane in flight carries the proofs of the phases behind it.             *)
ProofsFollowStatus ==
  \A i \in Lanes :
    /\ status[i] = "verifying"  => "merge" \in proofs[i]
    /\ status[i] = "committing" => {"merge", "gate"} \subseteq proofs[i]

(* Only the recovery that poisons a lane goes past the limit.               *)
RecoveryLimit ==
  \A i \in Lanes :
    \/ recovery_count[i] <= MaxRecoveries
    \/ recovery_count[i] = MaxRecoveries + 1 /\ status[i] = "poisoned"

GrantsAreOld == \A g \in grants : g[3] <= lease_version[g[2]]

(* The inductive invariant: no transaction of the store leads out of it.    *)
StoreInv ==
  /\ TypeOK
  /\ RetryOfFailed /\ OverlapReplaced
  /\ ProofsFollowStatus /\ CandidateIsProven
  /\ RecoveryLimit /\ GrantsAreOld /\ VersionGrantedOnce
============================================================================
