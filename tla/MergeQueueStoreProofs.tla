----------------------- MODULE MergeQueueStoreProofs -----------------------
(***************************************************************************)
(* The invariants of the merge queue store, for any number of lanes,       *)
(* tasks, repositories, sessions and leases.  StoreInv is inductive; each  *)
(* of its conjuncts has a lemma of its own with one step per store method. *)
(***************************************************************************)
EXTENDS MergeQueueStore, TLAPS

USE DEF identity, lease, ledger, evidence, storeVars

----------------------------------------------------------------------------
(* The tables are empty of lanes to begin with.                             *)
LEMMA TypeInit == StoreInit => TypeOK
  BY LanesAssumption, NullsAssumption, BoundsAssumption
  DEF StoreInit, TypeOK, Statuses, TargetStatuses

(* Every store method keeps the columns within their domains.               *)
LEMMA TypeStep ==
  ASSUME TypeOK, [StoreNext]_storeVars
  PROVE  TypeOK'
<1>. USE BoundsAssumption, OwnersAssumption DEF TypeOK
<1>1. ASSUME NEW i \in Lanes, NEW T \in SUBSET Tasks, NEW R \in SUBSET Repos,
             NEW p \in Patches, NEW src \in Lanes \cup {NoLane}, Enqueue(i, T, R, p, src)
      PROVE  TypeOK'
  <2>1. [r \in Repos |-> IF r \in R THEN "pending" ELSE "none"] \in [Repos -> TargetStatuses]
    BY DEF TargetStatuses
  <2>. QED BY <1>1, <2>1 DEF Enqueue, Statuses
<1>2. ASSUME NEW s \in Sessions, NEW i \in Lanes, Claim(s, i)
      PROVE  TypeOK'
  <2>1. lease_version[i] + 1 \in 1 .. MaxVersion
    BY <1>2 DEF Claim
  <2>. QED BY <1>2, <2>1 DEF Claim, Statuses
<1>3. ASSUME NEW s \in Sessions, NEW i \in Lanes, RecoverExpired(s, i)
      PROVE  TypeOK'
  <2>1. /\ recovery_count' \in [Lanes -> Nat]
        /\ UNCHANGED <<covers, patch, retry_of, proofs, result_commit,
                       target, pre_apply_head, target_commit>>
    BY <1>3 DEF RecoverExpired
  <2>2. CASE /\ status' = [status EXCEPT ![i] = "poisoned"]
             /\ UNCHANGED <<lease_owner, lease_version, expired, grants>>
    BY <2>1, <2>2 DEF Statuses
  <2>3. CASE /\ lease_version[i] < MaxVersion
             /\ lease_owner' = [lease_owner EXCEPT ![i] = OwnerOf[s]]
             /\ lease_version' = [lease_version EXCEPT ![i] = @ + 1]
             /\ expired' = [expired EXCEPT ![i] = FALSE]
             /\ grants' = grants \cup {<<s, i, lease_version[i] + 1>>}
             /\ UNCHANGED status
    <3>1. lease_version[i] + 1 \in 1 .. MaxVersion
      BY <2>3
    <3>. QED BY <2>1, <2>3, <3>1
  <2>. QED BY <1>3, <2>2, <2>3 DEF RecoverExpired
<1>4. ASSUME NEW s \in Sessions, NEW i \in Lanes, NEW v \in 1 .. MaxVersion, Heartbeat(s, i, v)
      PROVE  TypeOK'
  BY <1>4 DEF Heartbeat
<1>5. ASSUME NEW s \in Sessions, NEW i \in Lanes, NEW v \in 1 .. MaxVersion,
             NEW to \in Statuses, NEW C \in SUBSET Commits, Transition(s, i, v, to, C)
      PROVE  TypeOK'
  <2>1. ProofFor(to) \subseteq {"merge", "gate", "commit"}
    BY DEF ProofFor
  <2>. QED BY <1>5, <2>1 DEF Transition
<1>6. ASSUME NEW s \in Sessions, NEW i \in Lanes, NEW v \in 1 .. MaxVersion, NEW r \in Repos,
             NEW to \in TargetStatuses, NEW c \in Commits, AdvanceRepoTarget(s, i, v, r, to, c)
      PROVE  TypeOK'
  BY <1>6 DEF AdvanceRepoTarget
<1>7. ASSUME NEW S \in SUBSET Lanes, CompleteCheckpoint(S)
      PROVE  TypeOK'
  BY <1>7 DEF CompleteCheckpoint, Statuses
<1>8. ASSUME NEW i \in Lanes, LeaseExpires(i)
      PROVE  TypeOK'
  BY <1>8 DEF LeaseExpires
<1>9. CASE UNCHANGED storeVars
  BY <1>9
<1>. QED BY <1>1, <1>2, <1>3, <1>4, <1>5, <1>6, <1>7, <1>8, <1>9 DEF StoreNext

(* The tables of the merge queue hold what their column types say.          *)
THEOREM StoreTyping == StoreSpec => []TypeOK
  BY TypeInit, TypeStep, PTL DEF StoreSpec

----------------------------------------------------------------------------
(* The life cycle of one lane.                                              *)

(* What each store method may do to the status of a lane.                   *)
StatusMoves ==
  \A i \in Lanes :
    \/ status'[i] = status[i]
    \/ status[i] = "none" /\ status'[i] = "queued"
    \/ status[i] \in {"queued", "leased"} /\ status'[i] = "leased"
    \/ status[i] \in RecoverableStatuses /\ status'[i] = "poisoned"
    \/ <<status[i], status'[i]>> \in LeaseTransitions
    \/ status[i] \in {"integrated", "checkpointing"} /\ status'[i] = "done"

(* Whatever method runs, a lane's status stays or moves along one of the    *)
(* pairs the methods allow; a terminal status has no way out.               *)
LEMMA StatusStep ==
  ASSUME TypeOK, [StoreNext]_storeVars
  PROVE  StatusMoves
<1>. USE DEF StatusMoves
<1>t. status \in [Lanes -> Statuses]
  BY DEF TypeOK
<1>1. ASSUME NEW i \in Lanes, NEW T \in SUBSET Tasks, NEW R \in SUBSET Repos,
             NEW p \in Patches, NEW src \in Lanes \cup {NoLane}, Enqueue(i, T, R, p, src)
      PROVE  StatusMoves
  <2>1. status[i] = "none"
    BY <1>1, LanesAssumption DEF Enqueue, Present
  <2>. QED BY <1>1, <1>t, <2>1 DEF Enqueue
<1>2. ASSUME NEW s \in Sessions, NEW i \in Lanes, Claim(s, i)
      PROVE  StatusMoves
  BY <1>2, <1>t DEF Claim, Claimable
<1>3. ASSUME NEW s \in Sessions, NEW i \in Lanes, RecoverExpired(s, i)
      PROVE  StatusMoves
  BY <1>3, <1>t DEF RecoverExpired, Recoverable
<1>4. ASSUME NEW s \in Sessions, NEW i \in Lanes, NEW v \in 1 .. MaxVersion, Heartbeat(s, i, v)
      PROVE  StatusMoves
  BY <1>4 DEF Heartbeat
<1>5. ASSUME NEW s \in Sessions, NEW i \in Lanes, NEW v \in 1 .. MaxVersion,
             NEW to \in Statuses, NEW C \in SUBSET Commits, Transition(s, i, v, to, C)
      PROVE  StatusMoves
  BY <1>5, <1>t DEF Transition
<1>6. ASSUME NEW s \in Sessions, NEW i \in Lanes, NEW v \in 1 .. MaxVersion, NEW r \in Repos,
             NEW to \in TargetStatuses, NEW c \in Commits, AdvanceRepoTarget(s, i, v, r, to, c)
      PROVE  StatusMoves
  BY <1>6 DEF AdvanceRepoTarget
<1>7. ASSUME NEW S \in SUBSET Lanes, CompleteCheckpoint(S)
      PROVE  StatusMoves
  BY <1>7, <1>t DEF CompleteCheckpoint
<1>8. ASSUME NEW i \in Lanes, LeaseExpires(i)
      PROVE  StatusMoves
  BY <1>8 DEF LeaseExpires
<1>9. CASE UNCHANGED storeVars
  BY <1>9
<1>. QED BY <1>1, <1>2, <1>3, <1>4, <1>5, <1>6, <1>7, <1>8, <1>9 DEF StoreNext

(* Whatever drains, recoveries and checkpoints interleave, and whatever     *)
(* token a session presents, a terminal lane is never reopened and an       *)
(* integrated one leaves that status for done only.                         *)
THEOREM StoreTerminalIsFinal == StoreSpec => TerminalIsFinal
<1>1. ASSUME TypeOK, [StoreNext]_storeVars
      PROVE  [\A i \in Lanes :
                /\ status[i] \in TerminalStatuses => status'[i] = status[i]
                /\ status[i] = "integrated" => status'[i] \in {"integrated", "done"}]_storeVars
  <2>1. StatusMoves
    BY <1>1, StatusStep
  <2>. QED BY <2>1 DEF StatusMoves, TerminalStatuses, RecoverableStatuses, LeaseTransitions
<1>. QED BY <1>1, StoreTyping, PTL DEF StoreSpec, TerminalIsFinal

----------------------------------------------------------------------------
(* A lane comes to a phase only with the proof of the one before, and no    *)
(* method takes a proof or a commit away.                                   *)
LEMMA ProvenStep ==
  ASSUME TypeOK, ProofsFollowStatus, CandidateIsProven, [StoreNext]_storeVars
  PROVE  ProofsFollowStatus' /\ CandidateIsProven'
<1>. DEFINE Quiet == /\ UNCHANGED <<proofs, result_commit>>
                     /\ \A i \in Lanes :
                          \/ status'[i] = status[i]
                          \/ status'[i] \in {"queued", "leased", "poisoned"}
                          \/ status[i] \in {"integrated", "checkpointing"} /\ status'[i] = "done"
<1>t. status \in [Lanes -> Statuses]
  BY DEF TypeOK
<1>q. ASSUME Quiet
      PROVE  ProofsFollowStatus' /\ CandidateIsProven'
  BY <1>q DEF ProofsFollowStatus, CandidateIsProven, CandidateStatuses
<1>1. ASSUME NEW i \in Lanes, NEW T \in SUBSET Tasks, NEW R \in SUBSET Repos,
             NEW p \in Patches, NEW src \in Lanes \cup {NoLane}, Enqueue(i, T, R, p, src)
      PROVE  Quiet
  BY <1>1, <1>t DEF Enqueue
<1>2. ASSUME NEW s \in Sessions, NEW i \in Lanes, Claim(s, i)
      PROVE  Quiet
  BY <1>2, <1>t DEF Claim
<1>3. ASSUME NEW s \in Sessions, NEW i \in Lanes, RecoverExpired(s, i)
      PROVE  Quiet
  BY <1>3, <1>t DEF RecoverExpired
<1>4. ASSUME NEW s \in Sessions, NEW i \in Lanes, NEW v \in 1 .. MaxVersion, Heartbeat(s, i, v)
      PROVE  Quiet
  BY <1>4 DEF Heartbeat
<1>5. ASSUME NEW s \in Sessions, NEW i \in Lanes, NEW v \in 1 .. MaxVersion,
             NEW to \in Statuses, NEW C \in SUBSET Commits, Transition(s, i, v, to, C)
      PROVE  ProofsFollowStatus' /\ CandidateIsProven'
  <2>. SUFFICES ASSUME NEW j \in Lanes
                PROVE  /\ status'[j] = "verifying"  => "merge" \in proofs'[j]
                       /\ status'[j] = "committing" => {"merge", "gate"} \subseteq proofs'[j]
                       /\ status'[j] \in CandidateStatuses =>
                            /\ proofs'[j] = {"merge", "gate", "commit"}
                            /\ result_commit'[j] # {}
    BY DEF ProofsFollowStatus, CandidateIsProven
  <2>1. CASE j # i
    BY <1>5, <2>1 DEF Transition, ProofsFollowStatus, CandidateIsProven, TypeOK
  <2>2. CASE j = i
    <3>1. /\ status'[i] = to /\ proofs'[i] = proofs[i] \cup ProofFor(to)
          /\ result_commit'[i] = result_commit[i] \cup C
          /\ <<status[i], to>> \in LeaseTransitions
          /\ C # {} <=> to = "integrated"
      BY <1>5 DEF Transition, TypeOK
    <3>2. proofs[i] \subseteq {"merge", "gate", "commit"}
      BY DEF TypeOK
    <3>. QED BY <2>2, <3>1, <3>2
         DEF LeaseTransitions, ProofFor, ProofsFollowStatus, CandidateStatuses
  <2>. QED BY <2>1, <2>2
<1>6. ASSUME NEW s \in Sessions, NEW i \in Lanes, NEW v \in 1 .. MaxVersion, NEW r \in Repos,
             NEW to \in TargetStatuses, NEW c \in Commits, AdvanceRepoTarget(s, i, v, r, to, c)
      PROVE  Quiet
  BY <1>6 DEF AdvanceRepoTarget
<1>7. ASSUME NEW S \in SUBSET Lanes, CompleteCheckpoint(S)
      PROVE  Quiet
  BY <1>7, <1>t DEF CompleteCheckpoint
<1>8. ASSUME NEW i \in Lanes, LeaseExpires(i)
      PROVE  Quiet
  BY <1>8 DEF LeaseExpires
<1>9. CASE UNCHANGED storeVars
  BY <1>9 DEF ProofsFollowStatus, CandidateIsProven
<1>. HIDE DEF Quiet
<1>. QED BY <1>q, <1>1, <1>2, <1>3, <1>4, <1>5, <1>6, <1>7, <1>8, <1>9 DEF StoreNext

----------------------------------------------------------------------------
(* A claim or a recovery grants the version after the lane's current one,   *)
(* which nobody was granted before; no version ever falls.                  *)
LEMMA GrantsStep ==
  ASSUME TypeOK, GrantsAreOld, VersionGrantedOnce, [StoreNext]_storeVars
  PROVE  GrantsAreOld' /\ VersionGrantedOnce'
<1>. DEFINE Granted == \E s \in Sessions, i \in Lanes :
              /\ lease_version' = [lease_version EXCEPT ![i] = @ + 1]
              /\ grants' = grants \cup {<<s, i, lease_version[i] + 1>>}
<1>t. /\ lease_version \in [Lanes -> Nat]
      /\ grants \subseteq Sessions \X Lanes \X Nat
  BY BoundsAssumption DEF TypeOK
<1>g. ASSUME Granted
      PROVE  GrantsAreOld' /\ VersionGrantedOnce'
  BY <1>g, <1>t DEF GrantsAreOld, VersionGrantedOnce
<1>u. ASSUME UNCHANGED <<lease_version, grants>>
      PROVE  GrantsAreOld' /\ VersionGrantedOnce'
  BY <1>u DEF GrantsAreOld, VersionGrantedOnce
<1>1. ASSUME NEW i \in Lanes, NEW T \in SUBSET Tasks, NEW R \in SUBSET Repos,
             NEW p \in Patches, NEW src \in Lanes \cup {NoLane}, Enqueue(i, T, R, p, src)
      PROVE  UNCHANGED <<lease_version, grants>>
  BY <1>1 DEF Enqueue
<1>2. ASSUME NEW s \in Sessions, NEW i \in Lanes, Claim(s, i)
      PROVE  Granted
  BY <1>2 DEF Claim
<1>3. ASSUME NEW s \in Sessions, NEW i \in Lanes, RecoverExpired(s, i)
      PROVE  Granted \/ UNCHANGED <<lease_version, grants>>
  BY <1>3 DEF RecoverExpired
<1>4. ASSUME NEW s \in Sessions, NEW i \in Lanes, NEW v \in 1 .. MaxVersion, Heartbeat(s, i, v)
      PROVE  UNCHANGED <<lease_version, grants>>
  BY <1>4 DEF Heartbeat
<1>5. ASSUME NEW s \in Sessions, NEW i \in Lanes, NEW v \in 1 .. MaxVersion,
             NEW to \in Statuses, NEW C \in SUBSET Commits, Transition(s, i, v, to, C)
      PROVE  UNCHANGED <<lease_version, grants>>
  BY <1>5 DEF Transition
<1>6. ASSUME NEW s \in Sessions, NEW i \in Lanes, NEW v \in 1 .. MaxVersion, NEW r \in Repos,
             NEW to \in TargetStatuses, NEW c \in Commits, AdvanceRepoTarget(s, i, v, r, to, c)
      PROVE  UNCHANGED <<lease_version, grants>>
  BY <1>6 DEF AdvanceRepoTarget
<1>7. ASSUME NEW S \in SUBSET Lanes, CompleteCheckpoint(S)
      PROVE  UNCHANGED <<lease_version, grants>>
  BY <1>7 DEF CompleteCheckpoint
<1>8. ASSUME NEW i \in Lanes, LeaseExpires(i)
      PROVE  UNCHANGED <<lease_version, grants>>
  BY <1>8 DEF LeaseExpires
<1>9. CASE UNCHANGED storeVars
  BY <1>9, <1>u
<1>. HIDE DEF Granted
<1>. QED BY <1>g, <1>u, <1>1, <1>2, <1>3, <1>4, <1>5, <1>6, <1>7, <1>8, <1>9 DEF StoreNext

(* A recovery counts up, and past the limit it poisons the lane, which is   *)
(* then recovered no more.                                                  *)
LEMMA RecoveryLimitStep ==
  ASSUME TypeOK, RecoveryLimit, [StoreNext]_storeVars
  PROVE  RecoveryLimit'
<1>t. /\ recovery_count \in [Lanes -> Nat] /\ MaxRecoveries \in Nat
      /\ status \in [Lanes -> Statuses]
  BY BoundsAssumption DEF TypeOK
<1>m. \A i \in Lanes : status[i] = "poisoned" => status'[i] = "poisoned"
  BY StatusStep DEF StatusMoves, RecoverableStatuses, LeaseTransitions
<1>u. ASSUME UNCHANGED recovery_count
      PROVE  RecoveryLimit'
  BY <1>u, <1>m DEF RecoveryLimit
<1>1. ASSUME NEW i \in Lanes, NEW T \in SUBSET Tasks, NEW R \in SUBSET Repos,
             NEW p \in Patches, NEW src \in Lanes \cup {NoLane}, Enqueue(i, T, R, p, src)
      PROVE  UNCHANGED recovery_count
  BY <1>1 DEF Enqueue
<1>2. ASSUME NEW s \in Sessions, NEW i \in Lanes, Claim(s, i)
      PROVE  UNCHANGED recovery_count
  BY <1>2 DEF Claim
<1>3. ASSUME NEW s \in Sessions, NEW i \in Lanes, RecoverExpired(s, i)
      PROVE  RecoveryLimit'
  <2>1. /\ recovery_count' = [recovery_count EXCEPT ![i] = @ + 1]
        /\ status[i] # "poisoned"
        /\ \/ recovery_count[i] >= MaxRecoveries /\ status' = [status EXCEPT ![i] = "poisoned"]
           \/ recovery_count[i] < MaxRecoveries /\ UNCHANGED status
    BY <1>3 DEF RecoverExpired, Recoverable, RecoverableStatuses
  <2>. QED BY <2>1, <1>t DEF RecoveryLimit
<1>4. ASSUME NEW s \in Sessions, NEW i \in Lanes, NEW v \in 1 .. MaxVersion, Heartbeat(s, i, v)
      PROVE  UNCHANGED recovery_count
  BY <1>4 DEF Heartbeat
<1>5. ASSUME NEW s \in Sessions, NEW i \in Lanes, NEW v \in 1 .. MaxVersion,
             NEW to \in Statuses, NEW C \in SUBSET Commits, Transition(s, i, v, to, C)
      PROVE  UNCHANGED recovery_count
  BY <1>5 DEF Transition
<1>6. ASSUME NEW s \in Sessions, NEW i \in Lanes, NEW v \in 1 .. MaxVersion, NEW r \in Repos,
             NEW to \in TargetStatuses, NEW c \in Commits, AdvanceRepoTarget(s, i, v, r, to, c)
      PROVE  UNCHANGED recovery_count
  BY <1>6 DEF AdvanceRepoTarget
<1>7. ASSUME NEW S \in SUBSET Lanes, CompleteCheckpoint(S)
      PROVE  UNCHANGED recovery_count
  BY <1>7 DEF CompleteCheckpoint
<1>8. ASSUME NEW i \in Lanes, LeaseExpires(i)
      PROVE  UNCHANGED recovery_count
  BY <1>8 DEF LeaseExpires
<1>9. CASE UNCHANGED storeVars
  BY <1>9, <1>u
<1>. QED BY <1>u, <1>1, <1>2, <1>3, <1>4, <1>5, <1>6, <1>7, <1>8, <1>9 DEF StoreNext

----------------------------------------------------------------------------
(* Retries.                                                                 *)

(* A step that adds no lane, revives none and gives up no failed one.       *)
Settling ==
  /\ UNCHANGED <<covers, retry_of>>
  /\ \A i \in Lanes :
       /\ status[i] = "failed" => status'[i] = "failed"
       /\ Live(i)' => Live(i)
       /\ status'[i] = "cancelled" => status[i] # "failed"
       /\ Live(i) => status'[i] # "none"

(* When a replacement k of i is cancelled, k itself has no replacement, so  *)
(* whatever overlaps i overlaps k and was replaced by another lane.         *)
LEMMA SettlingKeepsRetries ==
  ASSUME TypeOK, RetryOfFailed, OverlapReplaced, Settling
  PROVE  RetryOfFailed' /\ OverlapReplaced'
<1>t. retry_of \in [Lanes -> Lanes \cup {NoLane}] /\ NoLane \notin Lanes
  BY LanesAssumption DEF TypeOK
<1>1. RetryOfFailed'
  BY <1>t DEF RetryOfFailed, Settling
<1>2. ASSUME NEW k \in Lanes, Live(k), ~Live(k)'
      PROVE  ~Replaced(k)
  <2>1. status[k] # "failed"
    BY <1>2 DEF Live, Settling
  <2>. QED BY <2>1, <1>t DEF Replaced, RetryOfFailed
<1>3. ASSUME NEW i \in Lanes, Replaced(i), ~Replaced(i)'
      PROVE  \E k \in Lanes : Live(k) /\ ~Live(k)' /\ retry_of[k] = i /\ covers[k] = covers[i]
  <2>1. PICK k \in Lanes : Live(k) /\ retry_of[k] = i
    BY <1>3 DEF Replaced
  <2>2. ~Live(k)'
    BY <1>3, <2>1 DEF Replaced, Settling
  <2>. QED BY <2>1, <2>2, <1>t DEF RetryOfFailed
<1>4. ASSUME NEW i \in Lanes, NEW j \in Lanes, i # j, Live(j)', covers[i] \cap covers[j] # {},
             Replaced(i), ~Replaced(i)'
      PROVE  Replaced(j)'
  <2>1. PICK k \in Lanes : Live(k) /\ ~Live(k)' /\ retry_of[k] = i /\ covers[k] = covers[i]
    BY <1>3, <1>4
  <2>2. ~Replaced(k) /\ k # j
    BY <1>2, <1>4, <2>1
  <2>3. Replaced(j)
    BY <1>4, <2>1, <2>2 DEF OverlapReplaced, Settling
  <2>4. SUFFICES ASSUME ~Replaced(j)'
                 PROVE  FALSE
    OBVIOUS
  <2>5. PICK m \in Lanes : Live(m) /\ ~Live(m)' /\ retry_of[m] = j /\ covers[m] = covers[j]
    BY <1>3, <2>3, <2>4
  <2>6. ~Replaced(m) /\ m # k
    BY <1>2, <1>4, <2>1, <2>5
  <2>. QED BY <1>4, <2>1, <2>2, <2>5, <2>6 DEF OverlapReplaced
<1>5. OverlapReplaced'
  <2>. SUFFICES ASSUME NEW i \in Lanes, NEW j \in Lanes, i # j, Live(i)', Live(j)',
                       covers'[i] \cap covers'[j] # {}
                PROVE  Replaced(i)' \/ Replaced(j)'
    BY DEF OverlapReplaced
  <2>1. covers[i] \cap covers[j] # {} /\ covers[j] \cap covers[i] # {}
    BY DEF Settling
  <2>2. Replaced(i) \/ Replaced(j)
    BY <2>1 DEF OverlapReplaced, Settling
  <2>. QED BY <1>4, <2>1, <2>2
<1>. QED BY <1>1, <1>5

(* A new lane competes with no live lane, or replaces a failed one that     *)
(* has the same tasks and no live replacement.                              *)
LEMMA EnqueueKeepsRetries ==
  ASSUME TypeOK, RetryOfFailed, OverlapReplaced,
         NEW n \in Lanes, NEW T \in SUBSET Tasks, NEW R \in SUBSET Repos,
         NEW p \in Patches, NEW src \in Lanes \cup {NoLane}, Enqueue(n, T, R, p, src)
  PROVE  RetryOfFailed' /\ OverlapReplaced'
<1>t. /\ status \in [Lanes -> Statuses] /\ covers \in [Lanes -> SUBSET Tasks]
      /\ retry_of \in [Lanes -> Lanes \cup {NoLane}] /\ NoLane \notin Lanes
  BY LanesAssumption DEF TypeOK
<1>1. status[n] = "none"
  BY LanesAssumption DEF Enqueue, Present
<1>2. /\ status' = [status EXCEPT ![n] = "queued"]
      /\ covers' = [covers EXCEPT ![n] = T]
      /\ retry_of' = [retry_of EXCEPT ![n] = src]
  BY DEF Enqueue
<1>3. src # NoLane => status[src] = "failed" /\ covers[src] = T /\ ~Replaced(src)
  BY DEF Enqueue, ValidRetrySource
<1>4. src = NoLane => NoCompetingLane(T)
  BY LanesAssumption DEF Enqueue, ValidRetrySource
<1>5. RetryOfFailed'
  <2>. SUFFICES ASSUME NEW j \in Lanes, retry_of'[j] # NoLane
                PROVE  status'[retry_of'[j]] = "failed" /\ covers'[retry_of'[j]] = covers'[j]
    BY DEF RetryOfFailed
  <2>1. CASE j = n
    BY <2>1, <1>t, <1>1, <1>2, <1>3
  <2>2. CASE j # n
    BY <2>2, <1>t, <1>1, <1>2 DEF RetryOfFailed
  <2>. QED BY <2>1, <2>2
<1>6. ASSUME NEW i \in Lanes, Replaced(i)
      PROVE  Replaced(i)'
  BY <1>6, <1>t, <1>1, <1>2 DEF Replaced, Live
<1>7. ASSUME NEW j \in Lanes, j # n, Live(j), covers[j] \cap T # {}
      PROVE  Replaced(j)'
  <2>1. src # NoLane
    BY <1>4, <1>7 DEF NoCompetingLane
  <2>2. CASE j = src
    BY <2>2, <1>t, <1>2 DEF Replaced, Live
  <2>3. CASE j # src
    <3>1. src \in Lanes /\ Live(src) /\ covers[j] \cap covers[src] # {}
      BY <2>1, <1>3, <1>7 DEF Live
    <3>. QED BY <2>3, <3>1, <2>1, <1>3, <1>6, <1>7 DEF OverlapReplaced
  <2>. QED BY <2>2, <2>3
<1>8. OverlapReplaced'
  <2>. SUFFICES ASSUME NEW i \in Lanes, NEW j \in Lanes, i # j, Live(i)', Live(j)',
                       covers'[i] \cap covers'[j] # {}
                PROVE  Replaced(i)' \/ Replaced(j)'
    BY DEF OverlapReplaced
  <2>1. CASE i = n
    BY <2>1, <1>t, <1>2, <1>7 DEF Live
  <2>2. CASE j = n
    BY <2>2, <1>t, <1>2, <1>7 DEF Live
  <2>3. CASE i # n /\ j # n
    BY <2>3, <1>t, <1>2, <1>6 DEF Live, OverlapReplaced
  <2>. QED BY <2>1, <2>2, <2>3
<1>. QED BY <1>5, <1>8

(* The retry chains stay linear under every store method: only enqueue,     *)
(* and what settles a lane, can touch them.                                 *)
LEMMA RetryStep ==
  ASSUME TypeOK, RetryOfFailed, OverlapReplaced, [StoreNext]_storeVars
  PROVE  RetryOfFailed' /\ OverlapReplaced'
<1>t. status \in [Lanes -> Statuses]
  BY DEF TypeOK
<1>. USE DEF Settling, Live
<1>1. ASSUME NEW i \in Lanes, NEW T \in SUBSET Tasks, NEW R \in SUBSET Repos,
             NEW p \in Patches, NEW src \in Lanes \cup {NoLane}, Enqueue(i, T, R, p, src)
      PROVE  RetryOfFailed' /\ OverlapReplaced'
  BY <1>1, EnqueueKeepsRetries
<1>2. ASSUME NEW s \in Sessions, NEW i \in Lanes, Claim(s, i)
      PROVE  Settling
  BY <1>2, <1>t DEF Claim, Claimable
<1>3. ASSUME NEW s \in Sessions, NEW i \in Lanes, RecoverExpired(s, i)
      PROVE  Settling
  BY <1>3, <1>t DEF RecoverExpired, Recoverable, RecoverableStatuses
<1>4. ASSUME NEW s \in Sessions, NEW i \in Lanes, NEW v \in 1 .. MaxVersion, Heartbeat(s, i, v)
      PROVE  Settling
  BY <1>4 DEF Heartbeat
<1>5. ASSUME NEW s \in Sessions, NEW i \in Lanes, NEW v \in 1 .. MaxVersion,
             NEW to \in Statuses, NEW C \in SUBSET Commits, Transition(s, i, v, to, C)
      PROVE  Settling
  BY <1>5, <1>t DEF Transition, LeaseTransitions
<1>6. ASSUME NEW s \in Sessions, NEW i \in Lanes, NEW v \in 1 .. MaxVersion, NEW r \in Repos,
             NEW to \in TargetStatuses, NEW c \in Commits, AdvanceRepoTarget(s, i, v, r, to, c)
      PROVE  Settling
  BY <1>6 DEF AdvanceRepoTarget
<1>7. ASSUME NEW S \in SUBSET Lanes, CompleteCheckpoint(S)
      PROVE  Settling
  BY <1>7, <1>t DEF CompleteCheckpoint
<1>8. ASSUME NEW i \in Lanes, LeaseExpires(i)
      PROVE  Settling
  BY <1>8 DEF LeaseExpires
<1>9. ASSUME UNCHANGED storeVars
      PROVE  Settling
  BY <1>9
<1>. HIDE DEF Settling, Live
<1>. QED BY SettlingKeepsRetries,
            <1>1, <1>2, <1>3, <1>4, <1>5, <1>6, <1>7, <1>8, <1>9 DEF StoreNext

----------------------------------------------------------------------------
(* Each method of the store keeps StoreInv, by the step lemmas above.       *)
LEMMA StoreStep == StoreInv /\ [StoreNext]_storeVars => StoreInv'
  BY TypeStep, RetryStep, ProvenStep, RecoveryLimitStep, GrantsStep DEF StoreInv

(* The empty tables have it.                                                *)
LEMMA StoreStart == StoreInit => StoreInv
  BY TypeInit, BoundsAssumption, LanesAssumption
  DEF StoreInit, StoreInv, RetryOfFailed, OverlapReplaced, Live, ProofsFollowStatus,
      CandidateIsProven, CandidateStatuses, RecoveryLimit, GrantsAreOld, VersionGrantedOnce

(* StoreInv is an invariant: it holds of the empty tables and each method   *)
(* keeps it. All the properties below are parts or consequences of it.      *)
THEOREM StoreInvariant == StoreSpec => []StoreInv
  BY StoreStart, StoreStep, PTL DEF StoreSpec

(* Of two lanes with a common task one was replaced, hence failed.          *)
LEMMA OneLiveLane == StoreInv => OneLiveLanePerTask
<1>. SUFFICES ASSUME TypeOK, RetryOfFailed, OverlapReplaced,
                     NEW i \in Lanes, NEW j \in Lanes, i # j, covers[i] \cap covers[j] # {}
              PROVE  \/ status[i] \in {"none", "failed", "cancelled"}
                     \/ status[j] \in {"none", "failed", "cancelled"}
  BY DEF StoreInv, OneLiveLanePerTask
<1>1. \A k \in Lanes : Replaced(k) => status[k] = "failed"
  BY LanesAssumption DEF Replaced, RetryOfFailed
<1>. QED BY <1>1 DEF OverlapReplaced, Live

(* However lanes fail, are retried and are cancelled, a task has at most    *)
(* one lane that is neither failed nor cancelled.                           *)
THEOREM StoreOneLiveLanePerTask == StoreSpec => []OneLiveLanePerTask
  BY OneLiveLane, StoreInvariant, PTL

(* A lease version of a lane is handed out once, by a claim or a recovery.  *)
THEOREM StoreVersionGrantedOnce == StoreSpec => []VersionGrantedOnce
<1>1. StoreInv => VersionGrantedOnce
  BY DEF StoreInv
<1>. QED BY <1>1, StoreInvariant, PTL

(* A lane counted for a checkpoint carries the merge, gate and commit       *)
(* proofs and the commits it reports.                                       *)
THEOREM StoreCandidateIsProven == StoreSpec => []CandidateIsProven
<1>1. StoreInv => CandidateIsProven
  BY DEF StoreInv
<1>. QED BY <1>1, StoreInvariant, PTL
============================================================================
