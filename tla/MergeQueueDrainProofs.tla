----------------------- MODULE MergeQueueDrainProofs -----------------------
(***************************************************************************)
(* Theorems about MergeQueueDrain: what any number of drain sessions,      *)
(* lanes and repositories keep true through crashes, database errors and   *)
(* leases that run out under work; and, from FairWeather on, what they keep*)
(* of the repositories while none of these happens.                        *)
(***************************************************************************)
EXTENDS MergeQueueDrain, MergeQueueStoreProofs, FiniteSetTheorems

(* Why a session gives its lane up.                                         *)
Causes == {"none", "recovery", "inputs", "baseline", "conflict", "gates", "commit_hygiene",
           "dirty", "irreconcilable"}

(* What a session may hold.                                                 *)
Drives == [pc : Labels, lane : Lanes \cup {NoLane}, version : 0 .. MaxVersion,
           todo : SUBSET Repos, repo : Repos \cup {NoLane}, made : Commits \cup {NoCommit},
           rows : [Repos -> TargetStatuses], cause : Causes]

(* Types of the lock, the repositories and the bounds' counters.            *)
PlacesTypeOK ==
  /\ lock \in Sessions \cup {NoSession}
  /\ head \in [Repos -> History]
  /\ worktree \in [Repos -> SUBSET (Lanes \cup {Residue})]
  /\ crashes \in Nat /\ faults \in Nat

(* The type invariant of the variables the drain adds to the store's.       *)
DrainTypeOK == PlacesTypeOK /\ drive \in [Sessions -> Drives]

(* A session with a lease under which canonical work has not begun, ...     *)
Waits(d) ==
  d.pc \in {"claimed", "baseline"} \/ (d.pc = "failing" /\ d.cause \in {"inputs", "baseline"})

(* ... and one that has begun it.                                           *)
Works(d) == d.pc \notin {"idle", "recovering"} /\ ~Waits(d)

(* Where a session is about to run git reset for the lane ...               *)
Resetting == {"rollback", "gate_reset", "hook_reset"}

(* ... and where it has one repository in hand.                             *)
InHand == {"patch", "patched", "made", "committed", "prove_clean"}

(* Where the commit phase has proved some of the lane's repositories clean, *)
(* and the ones it has still to prove.                                      *)
Committing == {"commit", "made", "committed", "prove_clean", "reload_integrate", "integrate"}

(* The repositories the commit phase has still to prove clean ...           *)
Unproven(d) ==
  {r \in Repos : \/ d.pc \in {"commit", "made", "committed", "prove_clean"} /\ r \in d.todo
                 \/ d.pc \in {"made", "committed", "prove_clean"} /\ r = d.repo}

(* ... so that every other repo target of the lane is clean.                *)
ProvenSoFar(d) ==
  d.pc \in Committing =>
    \A r \in RepoTargets(d.lane) : r \in Unproven(d) \/ target[d.lane][r] = "clean"

(* What a session's locals say of the lane row and its ledger.              *)
HolderInv(d) ==
  /\ d.pc = "idle" => d.lane = NoLane
  /\ d.pc # "idle" => d.lane \in Lanes /\ d.version \in 1 .. lease_version[d.lane]
  /\ d.pc \in InHand => d.repo \in Repos
  /\ d.pc = "committed" => d.made \in Commits
  /\ d.pc \in Resetting => d.cause \notin {"inputs", "baseline"}
  /\ Waits(d) /\ d.version = lease_version[d.lane] => status[d.lane] = "leased"
  /\ d.pc = "recovering" => status[d.lane] \notin {"none", "queued", "leased"}
  /\ Works(d) => status[d.lane] \notin {"none", "queued", "leased"} \cup CandidateStatuses
  /\ ProvenSoFar(d)

(* Every session's locals agree with the rows.                              *)
HoldersInv == \A w \in Sessions : HolderInv(drive[w])

(* Two sessions neither both work on a lane nor both wait with one version. *)
Apart(c, d) ==
  c.pc # "idle" /\ d.pc # "idle" /\ c.lane = d.lane =>
    /\ ~(Works(c) /\ Works(d))
    /\ ~(Waits(c) /\ Waits(d) /\ c.version = d.version)

(* No lane is worked on twice, however often its lease is granted again.    *)
ApartInv == \A v, w \in Sessions : v # w => Apart(drive[v], drive[w])

(* A repo target that is committed or clean has its commit recorded.        *)
LedgerInv ==
  \A i \in Lanes, r \in Repos :
    target[i][r] \in {"committed", "clean"} => target_commit[i][r] # NoCommit

(* The inductive invariant: the store's, and what the sessions hold.        *)
DrainInv ==
  /\ StoreInv /\ DrainTypeOK
  /\ HoldersInv /\ ApartInv
  /\ LedgerInv /\ CandidateTargetsClean

(* d is c, or c after steps that keep its lane and what it may do there.    *)
Follows(c, d) ==
  \/ d.pc = "idle"
  \/ /\ c.pc # "idle" /\ d.lane = c.lane
     /\ Works(d) => Works(c)
     /\ Waits(d) => Waits(c) /\ d.version = c.version

(* A session that goes on with what it holds stays apart from the others.   *)
LEMMA FollowsKeepsApart ==
  ASSUME ApartInv, NEW w \in Sessions, NEW d, drive \in [Sessions -> Drives],
         drive' = [drive EXCEPT ![w] = d], Follows(drive[w], d)
  PROVE  ApartInv'
<1>1. \A v \in Sessions \ {w} : Apart(drive[v], d) /\ Apart(d, drive[v])
  BY DEF ApartInv, Apart, Follows
<1>2. \A v \in Sessions : drive'[v] = IF v = w THEN d ELSE drive[v]
  OBVIOUS
<1>3. QED BY <1>1, <1>2 DEF ApartInv

(* A session that is not idle holds a lane and a version granted for it.    *)
LEMMA Token ==
  ASSUME DrainInv, NEW w \in Sessions, ~At(w, "idle")
  PROVE  /\ Lane(w) \in Lanes /\ drive[w].version \in 1 .. MaxVersion
         /\ drive[w].version \in 1 .. lease_version[Lane(w)]
         /\ drive[w] \in Drives /\ HolderInv(drive[w])
<1>1. drive[w] \in Drives /\ HolderInv(drive[w])
  BY DEF DrainInv, DrainTypeOK, HoldersInv
<1>2. drive[w].lane \in Lanes /\ drive[w].version \in 1 .. lease_version[drive[w].lane]
  BY <1>1 DEF At, HolderInv
<1>3. lease_version[drive[w].lane] \in 0 .. MaxVersion
  BY <1>2 DEF DrainInv, StoreInv, TypeOK
<1>4. QED BY <1>1, <1>2, <1>3, BoundsAssumption DEF Lane

(* The lane transition a session calls is a step of the store.              *)
LEMMA MoveIsTransition ==
  ASSUME DrainInv, NEW w \in Sessions, ~At(w, "idle"),
         NEW to \in Statuses, NEW C \in SUBSET Commits, Move(w, to, C)
  PROVE  StoreNext /\ StoreInv'
<1>1. StoreNext
  BY Token DEF Move, StoreNext
<1>2. QED BY <1>1, StoreStep DEF DrainInv

(* The repo target advance a session calls is a step of the store.          *)
LEMMA AdvanceIsAdvance ==
  ASSUME DrainInv, NEW w \in Sessions, ~At(w, "idle"), NEW r \in Repos,
         NEW to \in TargetStatuses, NEW c, Advance(w, r, to, c),
         c \in Commits \/ to \notin {"pre_apply_recorded", "committed"}
  PROVE  StoreNext /\ StoreInv'
<1>. DEFINE i == Lane(w)  v == drive[w].version
<1>1. i \in Lanes /\ v \in 1 .. MaxVersion
  BY Token
<1>2. PICK k \in Commits : AdvanceRepoTarget(w, i, v, r, to, k)
  <2>1. CASE c \in Commits
    BY <2>1 DEF Advance
  <2>2. CASE c \notin Commits
    <3>1. <<>> \in Commits
      BY CommitsAssumption DEF History
    <3>2. AdvanceRepoTarget(w, i, v, r, to, <<>>)
      BY <2>2 DEF Advance, AdvanceRepoTarget
    <3>3. QED BY <3>1, <3>2
  <2>3. QED BY <2>1, <2>2
<1>3. StoreNext
  BY <1>1, <1>2 DEF StoreNext
<1>4. QED BY <1>3, StoreStep DEF DrainInv

(* A step that writes no row.                                               *)
LEMMA LocalStepKeeps ==
  ASSUME DrainInv, UNCHANGED storeVars, PlacesTypeOK',
         NEW w \in Sessions, NEW d \in Drives, drive' = [drive EXCEPT ![w] = d],
         HolderInv(d), Follows(drive[w], d)
  PROVE  DrainInv'
<1>. USE DEF DrainInv
<1>1. UNCHANGED <<status, identity, lease, ledger, evidence, grants>>
  BY DEF storeVars
<1>2. StoreInv'
  BY StoreStep
<1>3. DrainTypeOK'
  BY DEF DrainTypeOK
<1>4. ApartInv'
  BY FollowsKeepsApart DEF DrainTypeOK
<1>5. LedgerInv' /\ CandidateTargetsClean'
  BY <1>1 DEF LedgerInv, CandidateTargetsClean, ledger, RepoTargets
<1>6. HoldersInv'
  <2>1. ASSUME NEW v \in Sessions PROVE HolderInv(drive[v])'
    <3>1. PICK e : e = drive'[v]
      OBVIOUS
    <3>2. HolderInv(e)
      BY <3>1 DEF HoldersInv, DrainTypeOK
    <3>3. HolderInv(e)'
      BY <1>1, <3>2 DEF HolderInv, ProvenSoFar, ledger, lease, RepoTargets
    <3>4. QED BY <3>1, <3>3 DEF HolderInv, ProvenSoFar, RepoTargets, Unproven, Works, Waits
  <2>2. QED BY <2>1 DEF HoldersInv
<1>7. QED BY <1>2, <1>3, <1>4, <1>5, <1>6

(* The lease fence: whoever the store accepts either waits on a leased lane *)
(* or works on one that no other session works on.                          *)
LEMMA AcceptedIsCurrent ==
  ASSUME DrainInv, NEW w \in Sessions, ~At(w, "idle"), ~Fenced(w)
  PROVE  /\ Waits(drive[w]) => status[Lane(w)] = "leased"
         /\ Works(drive[w]) => status[Lane(w)] \notin {"none", "queued", "leased"} \cup CandidateStatuses
         /\ At(w, "recovering") => status[Lane(w)] \notin {"none", "queued", "leased"}
         /\ \A v \in Sessions \ {w} : (drive[v].pc # "idle" /\ Lane(v) = Lane(w)) =>
              /\ ~(Waits(drive[v]) /\ drive[v].version = lease_version[Lane(w)])
              /\ ~At(w, "recovering") => ~Works(drive[v])
<1>. DEFINE c == drive[w]
<1>1. c.version = lease_version[Lane(w)] /\ HolderInv(c)
  BY Token DEF Fenced, Fence
<1>2. /\ Waits(c) => status[Lane(w)] = "leased"
      /\ Works(c) => status[Lane(w)] \notin {"none", "queued", "leased"} \cup CandidateStatuses
      /\ At(w, "recovering") => status[Lane(w)] \notin {"none", "queued", "leased"}
  BY <1>1 DEF HolderInv, Lane, At
<1>3. Waits(c) \/ Works(c) \/ At(w, "recovering")
  BY DEF Works, At
<1>4. ASSUME NEW v \in Sessions \ {w}, drive[v].pc # "idle", Lane(v) = Lane(w)
      PROVE  /\ ~(Waits(drive[v]) /\ drive[v].version = lease_version[Lane(w)])
             /\ ~At(w, "recovering") => ~Works(drive[v])
  <2>1. HolderInv(drive[v]) /\ Apart(drive[v], c)
    BY DEF DrainInv, HoldersInv, ApartInv
  <2>2. c.pc # "idle"
    BY DEF At
  <2>3. /\ Waits(drive[v]) /\ drive[v].version = lease_version[Lane(v)] => status[Lane(v)] = "leased"
        /\ Works(drive[v]) => status[Lane(v)] # "leased"
    BY <2>1 DEF HolderInv, Lane
  <2>4. /\ ~(Works(drive[v]) /\ Works(c))
        /\ ~(Waits(drive[v]) /\ Waits(c) /\ drive[v].version = c.version)
    BY <1>4, <2>1, <2>2 DEF Apart, Lane
  <2>5. QED BY <1>1, <1>2, <1>3, <1>4, <2>3, <2>4
<1>5. QED BY <1>2, <1>4

(* A lane transition of the drain.                                          *)
LEMMA MoveKeeps ==
  ASSUME DrainInv, NEW w \in Sessions, ~At(w, "idle"),
         NEW to \in Statuses, NEW C \in SUBSET Commits, Move(w, to, C),
         to = "integrated" => /\ Works(drive[w])
                              /\ \A r \in RepoTargets(Lane(w)) : target[Lane(w)][r] = "clean",
         PlacesTypeOK',
         NEW d \in Drives, drive' = [drive EXCEPT ![w] = d], HolderInv(d)',
         d.pc = "idle" \/ (d.lane = Lane(w) /\ Works(d) /\ ~At(w, "recovering"))
  PROVE  DrainInv'
<1>. USE DEF DrainInv
<1>. DEFINE i == Lane(w)
<1>1. /\ i \in Lanes /\ status' = [status EXCEPT ![i] = to]
      /\ UNCHANGED <<identity, lease, ledger, grants>>
      /\ <<status[i], to>> \in LeaseTransitions /\ ~Fenced(w)
      /\ status \in [Lanes -> Statuses]
  BY Token DEF Move, Transition, Fenced, StoreInv, TypeOK
<1>2. /\ to \notin {"none", "queued", "leased", "checkpointing", "done"}
      /\ to = "integrated" => status[i] = "committing"
  BY <1>1 DEF LeaseTransitions
<1>3. StoreInv'
  BY MoveIsTransition
<1>4. DrainTypeOK'
  BY DEF DrainTypeOK
<1>5. LedgerInv'
  BY <1>1 DEF LedgerInv, ledger
<1>6. CandidateTargetsClean'
  <2>1. ASSUME NEW j \in Lanes, status'[j] \in CandidateStatuses, NEW r \in RepoTargets(j)'
        PROVE  target'[j][r] = "clean" /\ target_commit'[j][r] # NoCommit
    <3>1. r \in RepoTargets(j) /\ r \in Repos
      BY <1>1 DEF RepoTargets, ledger
    <3>2. CASE j = i
      BY <1>1, <1>2, <2>1, <3>1, <3>2 DEF LedgerInv, CandidateStatuses, ledger
    <3>3. CASE j # i
      BY <1>1, <2>1, <3>1, <3>3 DEF CandidateTargetsClean, ledger
    <3>4. QED BY <3>2, <3>3
  <2>2. QED BY <2>1 DEF CandidateTargetsClean
<1>7. ASSUME NEW v \in Sessions \ {w} PROVE HolderInv(drive[v])' /\ Apart(drive[v], d) /\ Apart(d, drive[v])
  <2>1. PICK e : e = drive[v]
    OBVIOUS
  <2>2. HolderInv(e) /\ drive'[v] = e
    BY <2>1 DEF HoldersInv, DrainTypeOK
  <2>3. e.pc # "idle" /\ e.lane = i =>
          /\ ~(Waits(e) /\ e.version = lease_version[i])
          /\ ~At(w, "recovering") => ~Works(e)
    BY <1>1, <2>1, AcceptedIsCurrent DEF Lane
  <2>4. HolderInv(e)'
    <3>1. ProvenSoFar(e)'
      BY <1>1, <2>2 DEF HolderInv, ProvenSoFar, RepoTargets, ledger
    <3>2. UNCHANGED lease_version /\ (e.lane # i => status'[e.lane] = status[e.lane])
      BY <1>1, <2>2 DEF lease
    <3>3. CASE e.lane # i
      BY <2>2, <3>1, <3>2, <3>3 DEF HolderInv
    <3>4. CASE e.lane = i
      <4>1. status'[e.lane] = to
        BY <1>1, <3>4
      <4>2. Works(e) => to \notin {"none", "queued", "leased"} \cup CandidateStatuses
        <5>1. Works(e) => to # "integrated"
          BY <2>3, <3>4 DEF Works, At
        <5>2. QED BY <1>2, <5>1 DEF CandidateStatuses
      <4>3. Waits(e) => e.pc # "idle"
        BY DEF Waits
      <4>4. QED BY <1>2, <2>2, <2>3, <3>1, <3>2, <3>4, <4>1, <4>2, <4>3 DEF HolderInv
    <3>5. QED BY <3>3, <3>4
  <2>5. Apart(e, d) /\ Apart(d, e)
    BY <2>3 DEF Apart, Works
  <2>6. QED BY <2>1, <2>2, <2>4, <2>5 DEF HolderInv, ProvenSoFar, RepoTargets, Unproven, Works, Waits
<1>8. drive'[w] = d /\ \A v \in Sessions \ {w} : drive'[v] = drive[v]
  BY DEF DrainTypeOK
<1>9. HoldersInv'
  <2>1. ASSUME NEW v \in Sessions PROVE HolderInv(drive[v])'
    <3>1. CASE v = w
      BY <1>8, <3>1 DEF HolderInv, ProvenSoFar, RepoTargets, Unproven, Works, Waits
    <3>2. CASE v # w
      BY <1>7, <3>2
    <3>3. QED BY <3>1, <3>2
  <2>2. QED BY <2>1 DEF HoldersInv
<1>10. ApartInv'
  BY <1>7, <1>8 DEF ApartInv
<1>11. QED BY <1>3, <1>4, <1>5, <1>6, <1>9, <1>10

(* A repo target of the drain moves on.                                     *)
LEMMA AdvanceKeeps ==
  ASSUME DrainInv, NEW w \in Sessions, ~At(w, "idle"), ~At(w, "recovering"),
         NEW r \in Repos, NEW to \in TargetStatuses, NEW c,
         Advance(w, r, to, c), c \in Commits \/ to \notin {"pre_apply_recorded", "committed"},
         PlacesTypeOK',
         NEW d \in Drives, drive' = [drive EXCEPT ![w] = d], HolderInv(d)', Follows(drive[w], d)
  PROVE  DrainInv'
<1>. USE DEF DrainInv
<1>. DEFINE i == Lane(w)
<1>1. /\ i \in Lanes /\ UNCHANGED <<status, identity, lease, evidence, grants>>
      /\ target' = [target EXCEPT ![i][r] = to]
      /\ target_commit' = IF to = "committed" THEN [target_commit EXCEPT ![i][r] = c] ELSE target_commit
      /\ <<target[i][r], to>> \in RepoTargetTransitions /\ ~Fenced(w)
      /\ target \in [Lanes -> [Repos -> TargetStatuses]]
      /\ target_commit \in [Lanes -> [Repos -> Commits \cup {NoCommit}]]
  BY Token DEF Advance, AdvanceRepoTarget, Fenced, StoreInv, TypeOK
<1>2. /\ to # "none" /\ target[i][r] # "none"
      /\ to = "clean" => target[i][r] = "committed"
  BY <1>1 DEF RepoTargetTransitions
<1>3. \A j \in Lanes, q \in Repos :
        /\ target'[j][q] = IF j = i /\ q = r THEN to ELSE target[j][q]
        /\ target_commit'[j][q] = IF j = i /\ q = r /\ to = "committed" THEN c ELSE target_commit[j][q]
  BY <1>1
<1>4. \A j \in Lanes : RepoTargets(j)' = RepoTargets(j)
  BY <1>2, <1>3 DEF RepoTargets
<1>5. StoreInv'
  BY AdvanceIsAdvance
<1>6. DrainTypeOK'
  BY DEF DrainTypeOK
<1>7. LedgerInv'
  BY <1>2, <1>3, NullsAssumption DEF LedgerInv
<1>8. status[i] \notin CandidateStatuses
  <2>1. Waits(drive[w]) \/ Works(drive[w])
    BY DEF Works, At
  <2>2. QED BY <1>1, <2>1, AcceptedIsCurrent DEF CandidateStatuses
<1>9. CandidateTargetsClean'
  <2>1. ASSUME NEW j \in Lanes, status'[j] \in CandidateStatuses, NEW q \in RepoTargets(j)'
        PROVE  target'[j][q] = "clean" /\ target_commit'[j][q] # NoCommit
    <3>1. q \in RepoTargets(j) /\ q \in Repos /\ j # i
      BY <1>1, <1>4, <1>8, <2>1 DEF RepoTargets
    <3>2. QED BY <1>1, <1>3, <2>1, <3>1 DEF CandidateTargetsClean
  <2>2. QED BY <2>1 DEF CandidateTargetsClean
<1>10. ASSUME NEW v \in Sessions PROVE HolderInv(drive[v])'
  <2>1. PICK e : e = drive'[v]
    OBVIOUS
  <2>2. CASE v = w
    <3>1. e = d
      BY <2>1, <2>2 DEF DrainTypeOK
    <3>2. QED BY <2>1, <3>1 DEF HolderInv, ProvenSoFar, RepoTargets, Unproven, Works, Waits
  <2>3. CASE v # w
    <3>1. HolderInv(e) /\ e = drive[v]
      BY <2>1, <2>3 DEF HoldersInv, DrainTypeOK
    <3>2. e.pc \in Committing => e.lane # i /\ e.lane \in Lanes
      <4>1. e.pc \in Committing => Works(e) /\ e.pc # "idle"
        BY DEF Committing, Works, Waits
      <4>2. QED BY <1>1, <2>3, <3>1, <4>1, AcceptedIsCurrent DEF Lane, HolderInv
    <3>3. ProvenSoFar(e)'
      BY <1>3, <1>4, <3>1, <3>2 DEF HolderInv, ProvenSoFar, RepoTargets
    <3>4. HolderInv(e)'
      BY <1>1, <3>1, <3>3 DEF HolderInv, lease
    <3>5. QED BY <2>1, <3>4 DEF HolderInv, ProvenSoFar, RepoTargets, Unproven, Works, Waits
  <2>4. QED BY <2>2, <2>3
<1>11. HoldersInv'
  BY <1>10 DEF HoldersInv
<1>12. ApartInv'
  BY FollowsKeepsApart DEF DrainTypeOK
<1>13. QED BY <1>5, <1>6, <1>7, <1>9, <1>11, <1>12

(* A new lease of a lane, or a new lane: nobody works on it or waits with   *)
(* the new version.                                                         *)
LEMMA NewLeaseKeeps ==
  ASSUME DrainInv, StoreInv', NEW i \in Lanes,
         \A j \in Lanes \ {i} : /\ status'[j] = status[j] /\ lease_version'[j] = lease_version[j]
                                /\ target'[j] = target[j],
         UNCHANGED target_commit,
         \/ target'[i] = target[i]
         \/ status[i] = "none" /\ \A r \in Repos : target'[i][r] \in {"none", "pending"},
         status'[i] \in CandidateStatuses => status'[i] = status[i] /\ target'[i] = target[i],
         \/ lease_version'[i] = lease_version[i] /\ (status[i] = "leased" => status'[i] = "leased")
         \/ lease_version'[i] = lease_version[i] + 1,
         \/ status[i] \in {"none", "queued", "leased"}
         \/ status'[i] \notin {"none", "queued", "leased"},
         PlacesTypeOK', drive' \in [Sessions -> Drives],
         \A v \in Sessions :
           \/ drive'[v] = drive[v]
           \/ /\ drive'[v].pc \in {"claimed", "recovering"} /\ drive'[v].lane = i
              /\ drive'[v].version = lease_version[i] + 1 /\ HolderInv(drive[v])',
         \A v, w \in Sessions : v # w => drive'[v] = drive[v] \/ drive'[w] = drive[w]
  PROVE  DrainInv'
<1>. USE DEF DrainInv
<1>1. DrainTypeOK' /\ lease_version[i] \in Nat /\ lease_version'[i] \in Nat
  BY DEF DrainTypeOK, StoreInv, TypeOK
<1>2. LedgerInv' /\ CandidateTargetsClean'
  <2>1. ASSUME NEW j \in Lanes \ {i} PROVE target'[j] = target[j] /\ RepoTargets(j)' = RepoTargets(j)
    BY <2>1 DEF RepoTargets
  <2>2. CandidateTargetsClean'
    BY <2>1 DEF CandidateTargetsClean, RepoTargets
  <2>3. LedgerInv'
    BY <2>1 DEF LedgerInv
  <2>4. QED BY <2>2, <2>3
<1>3. ASSUME NEW v \in Sessions, drive'[v] = drive[v] PROVE HolderInv(drive[v])'
  <2>1. PICK e : e = drive[v]
    OBVIOUS
  <2>2. HolderInv(e) /\ drive'[v] = e
    BY <1>3, <2>1 DEF HoldersInv
  <2>3. CASE e.lane # i
    <3>1. ProvenSoFar(e)'
      BY <2>2, <2>3 DEF HolderInv, ProvenSoFar, RepoTargets, Committing
    <3>2. HolderInv(e)'
      BY <2>2, <2>3, <3>1 DEF HolderInv, Waits, Works
    <3>3. QED BY <2>2, <3>2 DEF HolderInv, ProvenSoFar, RepoTargets, Unproven, Works, Waits
  <2>4. CASE e.lane = i
    <3>1. e.pc # "idle" => e.version \in 1 .. lease_version'[i] /\ e.version <= lease_version[i]
      BY <1>1, <2>2, <2>4 DEF HolderInv
    <3>2. Waits(e) /\ e.version = lease_version'[i] => status'[i] = "leased"
      BY <1>1, <2>2, <2>4 DEF HolderInv, Waits
    <3>3. Works(e) \/ e.pc = "recovering" => status'[i] \notin {"none", "queued", "leased"}
      BY <2>2, <2>4 DEF HolderInv
    <3>4. ProvenSoFar(e)'
      <4>1. e.pc \in Committing => Works(e)
        BY DEF Committing, Works, Waits
      <4>2. e.pc \in Committing => target'[i] = target[i]
        BY <2>2, <2>4, <4>1 DEF HolderInv
      <4>3. QED BY <2>2, <2>4, <4>2 DEF HolderInv, ProvenSoFar, RepoTargets
    <3>5. HolderInv(e)'
      BY <2>2, <2>4, <3>1, <3>2, <3>3, <3>4 DEF HolderInv
    <3>6. QED BY <2>2, <3>5 DEF HolderInv, ProvenSoFar, RepoTargets, Unproven, Works, Waits
  <2>5. QED BY <2>3, <2>4
<1>4. HoldersInv'
  BY <1>3 DEF HoldersInv
<1>5. ApartInv'
  <2>1. ASSUME NEW v \in Sessions, NEW w \in Sessions, v # w, drive'[w] = drive[w],
               drive'[v] # drive[v]
        PROVE  Apart(drive'[v], drive'[w]) /\ Apart(drive'[w], drive'[v])
    <3>1. drive[w].pc # "idle" => drive[w].version \in 1 .. lease_version[drive[w].lane]
      BY DEF HoldersInv, HolderInv
    <3>2. drive[w].pc # "idle" /\ drive[w].lane = i => drive[w].version # drive'[v].version
      BY <1>1, <2>1, <3>1
    <3>3. ~Works(drive'[v]) /\ drive'[v].lane = i
      BY <2>1 DEF Works, Waits
    <3>4. QED BY <2>1, <3>2, <3>3 DEF Apart
  <2>2. ASSUME NEW v \in Sessions, NEW w \in Sessions, v # w, drive'[w] = drive[w],
               drive'[v] = drive[v]
        PROVE  Apart(drive'[v], drive'[w])
    BY <2>2 DEF ApartInv
  <2>3. ASSUME NEW v \in Sessions, NEW w \in Sessions, v # w PROVE Apart(drive'[v], drive'[w])
    BY <2>1, <2>2, <2>3
  <2>4. QED BY <2>3 DEF ApartInv
<1>6. QED BY <1>1, <1>2, <1>4, <1>5

(* A session that holds nothing agrees with every row.                      *)
LEMMA IdleHolder ==
  /\ Idle \in Drives /\ HolderInv(Idle) /\ Idle.pc = "idle"
  /\ \A c : Follows(c, Idle)
<1>1. Idle \in Drives /\ Idle.pc = "idle" /\ Idle.lane = NoLane
  BY BoundsAssumption DEF Idle, Drives, Labels, StoreCallPoints, TargetStatuses, Causes
<1>2. HolderInv(Idle)
  BY <1>1 DEF HolderInv, Waits, Works, InHand, Resetting, ProvenSoFar, Committing
<1>3. QED BY <1>1, <1>2 DEF Follows

(* A session that goes on with its lane, doing no more than it may.         *)
LEMMA GoesOn ==
  ASSUME NEW c, HolderInv(c), c.pc # "idle",
         NEW d, d.lane = c.lane, d.version = c.version, d.pc # "idle",
         d.pc = "recovering" => c.pc = "recovering",
         Works(d) => Works(c), Waits(d) => Waits(c),
         d.pc \in InHand => d.repo \in Repos, d.pc = "committed" => d.made \in Commits,
         d.pc \in Resetting => d.cause \notin {"inputs", "baseline"}, ProvenSoFar(d)
  PROVE  HolderInv(d) /\ Follows(c, d)
BY DEF HolderInv, Follows

(* git reset leaves histories and worktrees of the same type.               *)
LEMMA ResetTyped ==
  ASSUME DrainInv, NEW i \in Lanes, NEW R \in SUBSET Repos, ResetTo(i, R)
  PROVE  head' \in [Repos -> History] /\ worktree' \in [Repos -> SUBSET (Lanes \cup {Residue})]
<1>1. \A r \in Repos : pre_apply_head[i][r] \in Commits \cup {NoCommit}
  BY DEF DrainInv, StoreInv, TypeOK
<1>2. QED BY <1>1, CommitsAssumption DEF ResetTo, DrainInv, DrainTypeOK, PlacesTypeOK

(* So does a rollback, whichever of its resets fail.                        *)
LEMMA UndoTyped ==
  ASSUME DrainInv, NEW w \in Sessions, Lane(w) \in Lanes, NEW R \in SUBSET Repos, Undo(w, R)
  PROVE  /\ head' \in [Repos -> History] /\ worktree' \in [Repos -> SUBSET (Lanes \cup {Residue})]
         /\ faults' \in Nat
<1>1. faults \in Nat
  BY DEF DrainInv, DrainTypeOK, PlacesTypeOK
<1>2. CASE ResetTo(Lane(w), R) /\ UNCHANGED faults
  BY <1>1, <1>2, ResetTyped
<1>3. ASSUME faults' = faults + 1, NEW S \in SUBSET R, ResetTo(Lane(w), S)
      PROVE  /\ head' \in [Repos -> History]
             /\ worktree' \in [Repos -> SUBSET (Lanes \cup {Residue})] /\ faults' \in Nat
  BY <1>1, <1>3, ResetTyped
<1>4. QED BY <1>2, <1>3 DEF Undo

(* Releasing the advisory lock leaves it free or with its holder.           *)
LEMMA ReleaseTyped ==
  ASSUME DrainInv, NEW w, Release(w)
  PROVE  lock' \in Sessions \cup {NoSession}
BY DEF Release, DrainInv, DrainTypeOK, PlacesTypeOK

(* A session that gives up, crashes or is done without touching a row.      *)
LEMMA GivingUpKeeps ==
  ASSUME DrainInv, NEW w \in Sessions, Release(w), GoIdle(w), UNCHANGED <<storeVars, git>>,
         crashes' \in Nat, faults' \in Nat
  PROVE  DrainInv'
<1>1. PlacesTypeOK'
  BY ReleaseTyped DEF DrainInv, DrainTypeOK, PlacesTypeOK, git
<1>2. PICK d : d = Idle
  OBVIOUS
<1>3. drive' = [drive EXCEPT ![w] = d] /\ d \in Drives /\ HolderInv(d) /\ Follows(drive[w], d)
  BY <1>2, IdleHolder DEF GoIdle
<1>4. QED BY <1>1, <1>3, LocalStepKeeps

(* A refused store call raises out of the worker method.                    *)
LEMMA RaiseKeeps ==
  ASSUME DrainInv, NEW w \in Sessions, Raise(w)
  PROVE  DrainInv'
BY GivingUpKeeps DEF Raise, DrainInv, DrainTypeOK, PlacesTypeOK

(* A database error, or the death of the process.                           *)
LEMMA IncidentKeeps ==
  ASSUME DrainInv, NEW w \in Sessions, DatabaseFault(w) \/ Crash(w)
  PROVE  DrainInv'
BY GivingUpKeeps DEF DatabaseFault, Crash, DrainInv, DrainTypeOK, PlacesTypeOK

(* apply_candidate.                                                         *)
LEMMA ApplyKeeps ==
  ASSUME DrainInv, NEW w \in Sessions, Apply(w)
  PROVE  DrainInv'
<1>. USE DEF InHand, Committing, Resetting
<1>1. ~At(w, "idle") /\ ~At(w, "recovering")
  BY DEF Apply, At, InputsMismatch, LockForApply, BaselineDirty, StartApply, RecordPreApply,
         ApplyPatch, PatchRefused, RecordApplied, FinishApply, RollbackAll
<1>2. PICK c : c = drive[w]
  OBVIOUS
<1>3. /\ c \in Drives /\ HolderInv(c) /\ Lane(w) = c.lane /\ c.lane \in Lanes /\ c.pc # "idle"
      /\ drive \in [Sessions -> Drives] /\ PlacesTypeOK
      /\ RepoTargets(Lane(w)) \in SUBSET Repos
  BY <1>1, <1>2, Token DEF Lane, At, DrainInv, DrainTypeOK, RepoTargets
<1>4. CASE InputsMismatch(w)
  <2>1. PICK d : d = [c EXCEPT !.pc = "failing", !.cause = "inputs"]
    OBVIOUS
  <2>2. /\ c.pc = "claimed" /\ drive' = [drive EXCEPT ![w] = d]
        /\ UNCHANGED <<storeVars, lock, git, crashes, faults>>
    BY <1>2, <1>3, <1>4, <2>1 DEF InputsMismatch, At
  <2>3. /\ d \in Drives /\ d.pc = "failing" /\ d.cause = "inputs" /\ d.lane = c.lane
        /\ d.version = c.version
    BY <1>3, <2>1 DEF Drives, Labels, StoreCallPoints, Causes
  <2>4. HolderInv(d) /\ Follows(drive[w], d)
    BY <1>2, <1>3, <2>2, <2>3, GoesOn DEF Waits, Works, ProvenSoFar
  <2>5. QED BY <1>3, <2>2, <2>3, <2>4, LocalStepKeeps DEF PlacesTypeOK, git
<1>5. CASE LockForApply(w)
  <2>1. PICK d : d = [c EXCEPT !.pc = "baseline"]
    OBVIOUS
  <2>2. /\ c.pc = "claimed" /\ drive' = [drive EXCEPT ![w] = d] /\ lock' = w
        /\ UNCHANGED <<storeVars, git, crashes, faults>>
    BY <1>2, <1>3, <1>5, <2>1 DEF LockForApply, At, Goto
  <2>3. d \in Drives /\ d.pc = "baseline" /\ d.lane = c.lane /\ d.version = c.version
    BY <1>3, <2>1 DEF Drives, Labels, StoreCallPoints
  <2>4. HolderInv(d) /\ Follows(drive[w], d)
    BY <1>2, <1>3, <2>2, <2>3, GoesOn DEF Waits, Works, ProvenSoFar
  <2>5. QED BY <1>3, <2>2, <2>3, <2>4, LocalStepKeeps DEF PlacesTypeOK, git
<1>6. CASE BaselineDirty(w)
  <2>1. PICK d : d = [c EXCEPT !.pc = "failing", !.cause = "baseline"]
    OBVIOUS
  <2>2. /\ c.pc = "baseline" /\ drive' = [drive EXCEPT ![w] = d]
        /\ UNCHANGED <<storeVars, lock, git, crashes, faults>>
    BY <1>2, <1>3, <1>6, <2>1 DEF BaselineDirty, At
  <2>3. /\ d \in Drives /\ d.pc = "failing" /\ d.cause = "baseline" /\ d.lane = c.lane
        /\ d.version = c.version
    BY <1>3, <2>1 DEF Drives, Labels, StoreCallPoints, Causes
  <2>4. HolderInv(d) /\ Follows(drive[w], d)
    BY <1>2, <1>3, <2>2, <2>3, GoesOn DEF Waits, Works, ProvenSoFar
  <2>5. QED BY <1>3, <2>2, <2>3, <2>4, LocalStepKeeps DEF PlacesTypeOK, git
<1>7. CASE StartApply(w)
  <2>1. CASE /\ Move(w, "applying", {})
             /\ drive' = [drive EXCEPT ![w].pc = "apply", ![w].todo = RepoTargets(Lane(w))]
             /\ UNCHANGED <<lock, git, crashes, faults>>
    <3>1. PICK d : d = [c EXCEPT !.pc = "apply", !.todo = RepoTargets(Lane(w))]
      OBVIOUS
    <3>2. drive' = [drive EXCEPT ![w] = d]
      BY <1>2, <1>3, <2>1, <3>1
    <3>3. d \in Drives /\ d.pc = "apply" /\ d.lane = c.lane /\ d.version = c.version
      BY <1>3, <3>1 DEF Drives, Labels, StoreCallPoints
    <3>4. /\ status' = [status EXCEPT ![c.lane] = "applying"] /\ UNCHANGED <<lease, ledger>>
          /\ status \in [Lanes -> Statuses]
      BY <1>3, <2>1 DEF Move, Transition, DrainInv, StoreInv, TypeOK
    <3>5. Works(d) /\ HolderInv(d)'
      BY <1>3, <3>3, <3>4 DEF HolderInv, Works, Waits, ProvenSoFar, CandidateStatuses, lease
    <3>6. PlacesTypeOK'
      BY <1>3, <2>1 DEF PlacesTypeOK, git
    <3>7. "applying" \in Statuses /\ {} \in SUBSET Commits
      BY DEF Statuses
    <3>8. QED BY <1>1, <1>3, <2>1, <3>2, <3>3, <3>5, <3>6, <3>7, MoveKeeps
  <2>2. QED BY <1>7, <2>1, RaiseKeeps DEF StartApply
<1>8. CASE RecordPreApply(w)
  <2>0. c.pc = "apply" /\ c.todo \subseteq Repos
    BY <1>2, <1>3, <1>8 DEF RecordPreApply, At, Drives
  <2>1. ASSUME NEW r \in drive[w].todo, Advance(w, r, "pre_apply_recorded", head[r]),
               drive' = [drive EXCEPT ![w].pc = "patch", ![w].repo = r],
               UNCHANGED <<lock, git, crashes, faults>>
        PROVE  DrainInv'
    <3>1. PICK d : d = [c EXCEPT !.pc = "patch", !.repo = r]
      OBVIOUS
    <3>2. drive' = [drive EXCEPT ![w] = d] /\ r \in Repos
      BY <1>2, <1>3, <2>0, <2>1, <3>1
    <3>3. d \in Drives /\ d.pc = "patch" /\ d.repo = r /\ d.lane = c.lane /\ d.version = c.version
      BY <1>3, <3>1, <3>2 DEF Drives, Labels, StoreCallPoints
    <3>4. HolderInv(d) /\ Follows(drive[w], d)
      BY <1>2, <1>3, <2>0, <3>2, <3>3, GoesOn DEF Waits, Works, ProvenSoFar
    <3>5. HolderInv(d)'
      BY <2>1, <3>3, <3>4 DEF HolderInv, ProvenSoFar, Advance, AdvanceRepoTarget, lease
    <3>6. PlacesTypeOK' /\ head[r] \in Commits /\ "pre_apply_recorded" \in TargetStatuses
      BY <1>3, <2>1, <3>2, CommitsAssumption DEF PlacesTypeOK, git, TargetStatuses
    <3>7. QED BY <1>1, <2>1, <3>2, <3>3, <3>4, <3>5, <3>6, AdvanceKeeps
  <2>2. QED BY <1>8, <2>1, RaiseKeeps DEF RecordPreApply
<1>9. CASE ApplyPatch(w) \/ PatchRefused(w)
  <2>0. c.pc = "patch" /\ c.repo \in Repos
    BY <1>2, <1>3, <1>9 DEF ApplyPatch, PatchRefused, At, HolderInv
  <2>1. PICK d : d = IF ApplyPatch(w) THEN [c EXCEPT !.pc = "patched"]
                     ELSE [c EXCEPT !.pc = "rollback", !.cause = "conflict"]
    OBVIOUS
  <2>2. /\ drive' = [drive EXCEPT ![w] = d]
        /\ worktree' \in {worktree, [worktree EXCEPT ![c.repo] = @ \cup {c.lane}]}
        /\ UNCHANGED <<storeVars, lock, head, crashes, faults>>
    BY <1>2, <1>3, <1>9, <2>1 DEF ApplyPatch, PatchRefused, At, Goto
  <2>3. /\ d \in Drives /\ d.pc \in {"patched", "rollback"} /\ d.lane = c.lane
        /\ d.version = c.version /\ d.repo = c.repo
        /\ d.pc = "rollback" => d.cause = "conflict"
    BY <1>3, <2>1 DEF Drives, Labels, StoreCallPoints, Causes
  <2>4. HolderInv(d) /\ Follows(drive[w], d)
    BY <1>2, <1>3, <2>0, <2>3, GoesOn DEF Waits, Works, ProvenSoFar
  <2>5. PlacesTypeOK'
    BY <1>3, <2>0, <2>2 DEF PlacesTypeOK
  <2>6. QED BY <2>2, <2>3, <2>4, <2>5, LocalStepKeeps
<1>10. CASE RecordApplied(w)
  <2>0. c.pc = "patched" /\ c.repo \in Repos /\ c.todo \subseteq Repos
    BY <1>2, <1>3, <1>10 DEF RecordApplied, At, HolderInv, Drives
  <2>1. ASSUME Advance(w, c.repo, "applied", head[c.repo]),
               drive' = [drive EXCEPT ![w].todo = @ \ {c.repo},
                           ![w].pc = IF drive[w].todo = {c.repo} THEN "applied" ELSE "apply"],
               UNCHANGED <<lock, git, crashes, faults>>
        PROVE  DrainInv'
    <3>1. PICK d : d = [c EXCEPT !.todo = c.todo \ {c.repo},
                                 !.pc = IF c.todo = {c.repo} THEN "applied" ELSE "apply"]
      OBVIOUS
    <3>2. drive' = [drive EXCEPT ![w] = d]
      BY <1>2, <1>3, <2>1, <3>1
    <3>3. d \in Drives /\ d.pc \in {"applied", "apply"} /\ d.lane = c.lane /\ d.version = c.version
      BY <1>3, <2>0, <3>1 DEF Drives, Labels, StoreCallPoints
    <3>4. HolderInv(d) /\ Follows(drive[w], d)
      BY <1>2, <1>3, <2>0, <3>3, GoesOn DEF Waits, Works, ProvenSoFar
    <3>5. HolderInv(d)'
      BY <2>1, <3>3, <3>4 DEF HolderInv, ProvenSoFar, Advance, AdvanceRepoTarget, lease
    <3>6. PlacesTypeOK' /\ "applied" \in TargetStatuses
      BY <1>3, <2>1 DEF PlacesTypeOK, git, TargetStatuses
    <3>7. QED BY <1>1, <2>0, <2>1, <3>2, <3>3, <3>4, <3>5, <3>6, AdvanceKeeps
  <2>2. QED BY <1>2, <1>10, <2>1, RaiseKeeps DEF RecordApplied
<1>11. CASE FinishApply(w)
  <2>0. c.pc = "applied"
    BY <1>2, <1>11 DEF FinishApply, At
  <2>1. CASE Move(w, "verifying", {}) /\ Release(w) /\ Goto(w, "reload_gates")
             /\ UNCHANGED <<git, crashes, faults>>
    <3>1. PICK d : d = [c EXCEPT !.pc = "reload_gates"]
      OBVIOUS
    <3>2. drive' = [drive EXCEPT ![w] = d]
      BY <1>2, <1>3, <2>1, <3>1 DEF Goto
    <3>3. d \in Drives /\ d.pc = "reload_gates" /\ d.lane = c.lane /\ d.version = c.version
      BY <1>3, <3>1 DEF Drives, Labels
    <3>4. /\ status' = [status EXCEPT ![c.lane] = "verifying"] /\ UNCHANGED <<lease, ledger>>
          /\ status \in [Lanes -> Statuses]
      BY <1>3, <2>1 DEF Move, Transition, DrainInv, StoreInv, TypeOK
    <3>5. Works(d) /\ HolderInv(d)'
      BY <1>3, <3>3, <3>4 DEF HolderInv, Works, Waits, ProvenSoFar, CandidateStatuses, lease
    <3>6. PlacesTypeOK'
      BY <1>3, <2>1, ReleaseTyped DEF PlacesTypeOK, git
    <3>7. "verifying" \in Statuses /\ {} \in SUBSET Commits
      BY DEF Statuses
    <3>8. QED BY <1>1, <1>3, <2>1, <3>2, <3>3, <3>5, <3>6, <3>7, MoveKeeps
  <2>2. QED BY <1>11, <2>1, RaiseKeeps DEF FinishApply
<1>12. CASE RollbackAll(w)
  <2>1. PICK d : d = [c EXCEPT !.pc = "failing"]
    OBVIOUS
  <2>2. /\ c.pc = "rollback" /\ drive' = [drive EXCEPT ![w] = d]
        /\ UNCHANGED <<storeVars, lock, crashes>>
    BY <1>2, <1>3, <1>12, <2>1 DEF RollbackAll, At, Goto
  <2>3. d \in Drives /\ d.pc = "failing" /\ d.lane = c.lane /\ d.version = c.version /\ d.cause = c.cause
    BY <1>3, <2>1 DEF Drives, Labels, StoreCallPoints
  <2>4. PlacesTypeOK'
    BY <1>3, <1>12, <2>2, UndoTyped DEF PlacesTypeOK, RollbackAll
  <2>5. HolderInv(d) /\ Follows(drive[w], d)
    BY <1>2, <1>3, <2>2, <2>3, GoesOn DEF HolderInv, Waits, Works, ProvenSoFar
  <2>6. QED BY <2>2, <2>3, <2>4, <2>5, LocalStepKeeps
<1>13. QED BY <1>4, <1>5, <1>6, <1>7, <1>8, <1>9, <1>10, <1>11, <1>12 DEF Apply

(* The drain reads the row again and takes the token it finds there.        *)
LEMMA ReloadKeeps ==
  ASSUME DrainInv, NEW w \in Sessions, NEW from, NEW to, Reload(w, from, to),
         <<from, to>> \in {<<"reload_gates", "gates">>, <<"reload_commit", "commit_lock">>,
                           <<"reload_integrate", "integrate">>}
  PROVE  DrainInv'
<1>1. PICK c : c = drive[w]
  OBVIOUS
<1>2. /\ c.pc = from /\ ~At(w, "idle") /\ from # "idle" /\ from # "recovering"
      /\ UNCHANGED <<storeVars, lock, git, crashes, faults>>
  BY <1>1 DEF Reload, At
<1>3. /\ c \in Drives /\ HolderInv(c) /\ Lane(w) = c.lane /\ c.lane \in Lanes
      /\ drive \in [Sessions -> Drives] /\ PlacesTypeOK
      /\ c.version \in 1 .. lease_version[c.lane] /\ lease_version[c.lane] \in 0 .. MaxVersion
  BY <1>1, <1>2, Token DEF Lane, At, DrainInv, DrainTypeOK, StoreInv, TypeOK
<1>4. PICK d : d = [c EXCEPT !.pc = to, !.version = lease_version[c.lane]]
  OBVIOUS
<1>5. drive' = [drive EXCEPT ![w] = d]
  BY <1>1, <1>3, <1>4 DEF Reload
<1>6. /\ d \in Drives /\ d.pc = to /\ d.lane = c.lane /\ d.version = lease_version[c.lane]
      /\ to \in {"gates", "commit_lock", "integrate"}
  BY <1>3, <1>4 DEF Drives, Labels, StoreCallPoints
<1>7. d.version \in 1 .. lease_version[d.lane]
  BY <1>3, <1>6, BoundsAssumption
<1>8. Works(c) /\ Works(d) /\ ~Waits(d)
  BY <1>2, <1>6 DEF Works, Waits
<1>9. ProvenSoFar(d)
  BY <1>2, <1>3, <1>6 DEF HolderInv, ProvenSoFar, Committing, Unproven
<1>10. HolderInv(d) /\ Follows(drive[w], d)
  BY <1>1, <1>2, <1>3, <1>6, <1>7, <1>8, <1>9 DEF HolderInv, Follows, InHand, Resetting
<1>11. QED BY <1>2, <1>3, <1>5, <1>6, <1>10, LocalStepKeeps DEF PlacesTypeOK, git

(* run_required_gates.                                                      *)
LEMMA VerifyKeeps ==
  ASSUME DrainInv, NEW w \in Sessions, Verify(w)
  PROVE  DrainInv'
<1>. USE DEF InHand, Committing, Resetting
<1>1. ~At(w, "idle") /\ ~At(w, "recovering")
  BY DEF Verify, At, Reload, GatesApprove, GatesReject, ResetAfterGates
<1>2. PICK c : c = drive[w]
  OBVIOUS
<1>3. /\ c \in Drives /\ HolderInv(c) /\ Lane(w) = c.lane /\ c.lane \in Lanes /\ c.pc # "idle"
      /\ drive \in [Sessions -> Drives] /\ PlacesTypeOK
      /\ RepoTargets(Lane(w)) \in SUBSET Repos
  BY <1>1, <1>2, Token DEF Lane, At, DrainInv, DrainTypeOK, RepoTargets
<1>4. CASE Reload(w, "reload_gates", "gates")
  BY <1>4, ReloadKeeps
<1>5. CASE GatesApprove(w)
  <2>1. CASE Move(w, "committing", {}) /\ Goto(w, "reload_commit") /\ UNCHANGED <<lock, git, crashes, faults>>
    <3>1. PICK d : d = [c EXCEPT !.pc = "reload_commit"]
      OBVIOUS
    <3>2. drive' = [drive EXCEPT ![w] = d]
      BY <1>2, <1>3, <2>1, <3>1 DEF Goto
    <3>3. d \in Drives /\ d.pc = "reload_commit" /\ d.lane = c.lane /\ d.version = c.version
      BY <1>3, <3>1 DEF Drives, Labels
    <3>4. /\ status' = [status EXCEPT ![c.lane] = "committing"] /\ UNCHANGED <<lease, ledger>>
          /\ status \in [Lanes -> Statuses]
      BY <1>3, <2>1 DEF Move, Transition, DrainInv, StoreInv, TypeOK
    <3>5. Works(d) /\ HolderInv(d)'
      BY <1>3, <3>3, <3>4 DEF HolderInv, Works, Waits, ProvenSoFar, CandidateStatuses, lease
    <3>6. PlacesTypeOK'
      BY <1>3, <2>1 DEF PlacesTypeOK, git
    <3>7. "committing" \in Statuses /\ {} \in SUBSET Commits
      BY DEF Statuses
    <3>8. QED BY <1>1, <1>3, <2>1, <3>2, <3>3, <3>5, <3>6, <3>7, MoveKeeps
  <2>2. QED BY <1>5, <2>1, RaiseKeeps DEF GatesApprove
<1>6. CASE GatesReject(w)
  <2>1. PICK d : d = [c EXCEPT !.pc = "gate_reset", !.cause = "gates"]
    OBVIOUS
  <2>2. /\ c.pc = "gates" /\ drive' = [drive EXCEPT ![w] = d]
        /\ UNCHANGED <<storeVars, lock, git, crashes, faults>>
    BY <1>2, <1>3, <1>6, <2>1 DEF GatesReject, At
  <2>3. /\ d \in Drives /\ d.pc = "gate_reset" /\ d.cause = "gates" /\ d.lane = c.lane
        /\ d.version = c.version
    BY <1>3, <2>1 DEF Drives, Labels, StoreCallPoints, Causes
  <2>4. HolderInv(d) /\ Follows(drive[w], d)
    BY <1>2, <1>3, <2>2, <2>3, GoesOn DEF Waits, Works, ProvenSoFar
  <2>5. QED BY <1>3, <2>2, <2>3, <2>4, LocalStepKeeps DEF PlacesTypeOK, git
<1>7. CASE ResetAfterGates(w)
  <2>1. PICK d : d = [c EXCEPT !.pc = "failing"]
    OBVIOUS
  <2>2. /\ c.pc = "gate_reset" /\ drive' = [drive EXCEPT ![w] = d]
        /\ UNCHANGED <<storeVars, lock, crashes>>
    BY <1>2, <1>3, <1>7, <2>1 DEF ResetAfterGates, At, Goto
  <2>3. d \in Drives /\ d.pc = "failing" /\ d.lane = c.lane /\ d.version = c.version /\ d.cause = c.cause
    BY <1>3, <2>1 DEF Drives, Labels, StoreCallPoints
  <2>4. PlacesTypeOK'
    BY <1>3, <1>7, <2>2, UndoTyped DEF PlacesTypeOK, ResetAfterGates
  <2>5. HolderInv(d) /\ Follows(drive[w], d)
    BY <1>2, <1>3, <2>2, <2>3, GoesOn DEF HolderInv, Waits, Works, ProvenSoFar
  <2>6. QED BY <2>2, <2>3, <2>4, <2>5, LocalStepKeeps
<1>8. QED BY <1>4, <1>5, <1>6, <1>7 DEF Verify

(* _fail.                                                                   *)
LEMMA FailKeeps ==
  ASSUME DrainInv, NEW w \in Sessions, FailTarget(w) \/ FailLane(w)
  PROVE  DrainInv'
<1>1. ~At(w, "idle") /\ ~At(w, "recovering")
  BY DEF At, FailTarget, FailLane
<1>2. PICK c : c = drive[w]
  OBVIOUS
<1>3. /\ c \in Drives /\ HolderInv(c) /\ Lane(w) = c.lane /\ c.lane \in Lanes /\ c.pc = "failing"
      /\ drive \in [Sessions -> Drives] /\ PlacesTypeOK
  BY <1>1, <1>2, Token DEF Lane, At, DrainInv, DrainTypeOK, FailTarget, FailLane
<1>4. CASE FailTarget(w)
  <2>1. ASSUME NEW r \in Unsettled(Lane(w)), Advance(w, r, "failed", NoCommit),
               UNCHANGED <<lock, git, drive, crashes, faults>>
        PROVE  DrainInv'
    <3>1. r \in Repos /\ "failed" \in TargetStatuses
      BY DEF Unsettled, RepoTargets, TargetStatuses
    <3>2. drive' = [drive EXCEPT ![w] = c] /\ Follows(drive[w], c)
      BY <1>2, <1>3, <2>1 DEF Follows
    <3>3. HolderInv(c)'
      BY <1>3, <2>1 DEF HolderInv, ProvenSoFar, Committing, Advance, AdvanceRepoTarget, lease
    <3>4. PlacesTypeOK'
      BY <1>3, <2>1 DEF PlacesTypeOK, git
    <3>5. QED BY <1>1, <1>3, <2>1, <3>1, <3>2, <3>3, <3>4, AdvanceKeeps
  <2>2. QED BY <1>4, <2>1, RaiseKeeps DEF FailTarget
<1>5. CASE FailLane(w)
  <2>1. CASE Move(w, "failed", {}) /\ Release(w) /\ GoIdle(w) /\ UNCHANGED <<git, crashes, faults>>
    <3>1. PICK d : d = Idle
      OBVIOUS
    <3>2. drive' = [drive EXCEPT ![w] = d] /\ d \in Drives /\ d.pc = "idle" /\ d.lane = NoLane
      BY <2>1, <3>1, IdleHolder DEF GoIdle, Idle
    <3>3. HolderInv(d)'
      BY <3>2 DEF HolderInv, Waits, Works, InHand, Resetting, ProvenSoFar, Committing
    <3>4. PlacesTypeOK'
      BY <1>3, <2>1, ReleaseTyped DEF PlacesTypeOK, git
    <3>5. "failed" \in Statuses /\ {} \in SUBSET Commits
      BY DEF Statuses
    <3>6. QED BY <1>1, <2>1, <3>2, <3>3, <3>4, <3>5, MoveKeeps
  <2>2. QED BY <1>5, <2>1, RaiseKeeps DEF FailLane
<1>6. QED BY <1>4, <1>5

(* commit_and_prove_clean, and mark_integrated.                             *)
LEMMA CommitKeeps ==
  ASSUME DrainInv, NEW w \in Sessions, Commit(w)
  PROVE  DrainInv'
<1>. USE DEF InHand, Committing, Resetting
<1>1. ~At(w, "idle") /\ ~At(w, "recovering")
  BY DEF Commit, At, Reload, LockForCommit, GitCommit, ReadCommit, CommitRejected,
         ResetUncommitted, RecordCommitted, DirtyAfterCommit, ProveClean, MarkIntegrated
<1>2. PICK c : c = drive[w]
  OBVIOUS
<1>3. /\ c \in Drives /\ HolderInv(c) /\ Lane(w) = c.lane /\ c.lane \in Lanes /\ c.pc # "idle"
      /\ drive \in [Sessions -> Drives] /\ PlacesTypeOK
      /\ RepoTargets(Lane(w)) \in SUBSET Repos
  BY <1>1, <1>2, Token DEF Lane, At, DrainInv, DrainTypeOK, RepoTargets
<1>4. CASE Reload(w, "reload_commit", "commit_lock") \/ Reload(w, "reload_integrate", "integrate")
  BY <1>4, ReloadKeeps
<1>5. CASE LockForCommit(w)
  <2>1. PICK d : d = [c EXCEPT !.pc = "commit", !.todo = RepoTargets(Lane(w))]
    OBVIOUS
  <2>2. /\ c.pc = "commit_lock" /\ drive' = [drive EXCEPT ![w] = d] /\ lock' = w
        /\ UNCHANGED <<storeVars, git, crashes, faults>>
    BY <1>2, <1>3, <1>5, <2>1 DEF LockForCommit, At
  <2>3. /\ d \in Drives /\ d.pc = "commit" /\ d.lane = c.lane /\ d.version = c.version
        /\ d.todo = RepoTargets(d.lane)
    BY <1>3, <2>1 DEF Drives, Labels
  <2>4. HolderInv(d) /\ Follows(drive[w], d)
    BY <1>2, <1>3, <2>2, <2>3, GoesOn DEF Waits, Works, ProvenSoFar, Unproven, RepoTargets
  <2>5. QED BY <1>3, <2>2, <2>3, <2>4, LocalStepKeeps DEF PlacesTypeOK, git
<1>6. CASE GitCommit(w)
  <2>0. c.pc = "commit" /\ c.todo \subseteq Repos
    BY <1>2, <1>3, <1>6 DEF GitCommit, At, Drives
  <2>1. PICK r \in c.todo :
          /\ head' = [head EXCEPT ![r] = Append(@, <<Lane(w), worktree[r]>>)]
          /\ worktree' \in {[worktree EXCEPT ![r] = {}], [worktree EXCEPT ![r] = {Residue}]}
          /\ drive' = [drive EXCEPT ![w].pc = "made", ![w].repo = r, ![w].todo = @ \ {r}]
          /\ UNCHANGED <<storeVars, lock, crashes, faults>>
    BY <1>2, <1>6 DEF GitCommit
  <2>2. PICK d : d = [c EXCEPT !.pc = "made", !.repo = r, !.todo = c.todo \ {r}]
    OBVIOUS
  <2>3. drive' = [drive EXCEPT ![w] = d] /\ r \in Repos
    BY <1>2, <1>3, <2>0, <2>1, <2>2
  <2>4. /\ d \in Drives /\ d.pc = "made" /\ d.lane = c.lane /\ d.version = c.version
        /\ d.repo = r /\ d.todo = c.todo \ {r}
    BY <1>3, <2>0, <2>2, <2>3 DEF Drives, Labels, StoreCallPoints
  <2>5. Unproven(c) = c.todo /\ c.todo \subseteq Unproven(d)
    BY <2>0, <2>3, <2>4 DEF Unproven
  <2>6. HolderInv(d) /\ Follows(drive[w], d)
    <3>1. ProvenSoFar(c)
      BY <1>3 DEF HolderInv
    <3>2. ProvenSoFar(d)
      BY <2>0, <2>4, <2>5, <3>1 DEF ProvenSoFar
    <3>3. QED BY <1>2, <1>3, <2>0, <2>3, <2>4, <3>2, GoesOn DEF Waits, Works
  <2>7. PlacesTypeOK'
    <3>1. <<Lane(w), worktree[r]>> \in Lanes \X SUBSET (Lanes \cup {Residue}) /\ head[r] \in History
      BY <1>3, <2>3 DEF PlacesTypeOK
    <3>2. Append(head[r], <<Lane(w), worktree[r]>>) \in History
      BY <3>1 DEF History
    <3>3. QED BY <1>3, <2>1, <2>3, <3>2 DEF PlacesTypeOK
  <2>8. QED BY <2>1, <2>3, <2>4, <2>6, <2>7, LocalStepKeeps
<1>7. CASE CommitRejected(w)
  <2>1. PICK d : d = [c EXCEPT !.pc = "hook_reset", !.cause = "commit_hygiene"]
    OBVIOUS
  <2>2. /\ c.pc = "commit" /\ drive' = [drive EXCEPT ![w] = d] /\ c.todo \subseteq Repos
        /\ \E r \in c.todo : worktree' \in {worktree, [worktree EXCEPT ![r] = @ \cup {Residue}]}
        /\ UNCHANGED <<storeVars, lock, head, crashes, faults>>
    BY <1>2, <1>3, <1>7, <2>1 DEF CommitRejected, At, Drives
  <2>3. /\ d \in Drives /\ d.pc = "hook_reset" /\ d.cause = "commit_hygiene" /\ d.lane = c.lane
        /\ d.version = c.version
    BY <1>3, <2>1 DEF Drives, Labels, StoreCallPoints, Causes
  <2>4. HolderInv(d) /\ Follows(drive[w], d)
    BY <1>2, <1>3, <2>2, <2>3, GoesOn DEF Waits, Works, ProvenSoFar
  <2>5. PlacesTypeOK'
    BY <1>3, <2>2 DEF PlacesTypeOK
  <2>6. QED BY <2>2, <2>3, <2>4, <2>5, LocalStepKeeps
<1>8. CASE ResetUncommitted(w)
  <2>1. PICK d : d = [c EXCEPT !.pc = "failing"]
    OBVIOUS
  <2>2. /\ c.pc = "hook_reset" /\ drive' = [drive EXCEPT ![w] = d] /\ c.todo \in SUBSET Repos
        /\ UNCHANGED <<storeVars, lock, crashes>>
    BY <1>2, <1>3, <1>8, <2>1 DEF ResetUncommitted, At, Goto, Drives
  <2>3. d \in Drives /\ d.pc = "failing" /\ d.lane = c.lane /\ d.version = c.version /\ d.cause = c.cause
    BY <1>3, <2>1 DEF Drives, Labels, StoreCallPoints
  <2>4. PlacesTypeOK'
    BY <1>2, <1>3, <1>8, <2>2, UndoTyped DEF PlacesTypeOK, ResetUncommitted
  <2>5. HolderInv(d) /\ Follows(drive[w], d)
    BY <1>2, <1>3, <2>2, <2>3, GoesOn DEF HolderInv, Waits, Works, ProvenSoFar
  <2>6. QED BY <2>2, <2>3, <2>4, <2>5, LocalStepKeeps
<1>9. CASE RecordCommitted(w)
  <2>0. c.pc = "committed" /\ c.repo \in Repos /\ c.made \in Commits
    BY <1>2, <1>3, <1>9 DEF RecordCommitted, At, HolderInv
  <2>1. ASSUME Advance(w, c.repo, "committed", c.made), Goto(w, "prove_clean"),
               UNCHANGED <<lock, git, crashes, faults>>
        PROVE  DrainInv'
    <3>1. PICK d : d = [c EXCEPT !.pc = "prove_clean"]
      OBVIOUS
    <3>2. drive' = [drive EXCEPT ![w] = d]
      BY <1>2, <1>3, <2>1, <3>1 DEF Goto
    <3>3. /\ d \in Drives /\ d.pc = "prove_clean" /\ d.lane = c.lane /\ d.version = c.version
          /\ d.repo = c.repo /\ d.todo = c.todo
      BY <1>3, <3>1 DEF Drives, Labels, StoreCallPoints
    <3>4. Unproven(d) = Unproven(c) /\ d.repo \in Unproven(d)
      BY <2>0, <3>3 DEF Unproven
    <3>5. HolderInv(d) /\ Follows(drive[w], d)
      BY <1>2, <1>3, <2>0, <3>3, <3>4, GoesOn DEF HolderInv, Waits, Works, ProvenSoFar
    <3>6. ProvenSoFar(d)'
      <4>1. target' = [target EXCEPT ![c.lane][c.repo] = "committed"] /\ target[c.lane][c.repo] # "none"
            /\ target \in [Lanes -> [Repos -> TargetStatuses]]
        BY <1>3, <2>1 DEF Advance, AdvanceRepoTarget, RepoTargetTransitions, DrainInv, StoreInv, TypeOK
      <4>2. QED BY <1>3, <2>0, <3>3, <3>4, <3>5, <4>1 DEF HolderInv, ProvenSoFar, RepoTargets
    <3>7. HolderInv(d)'
      BY <2>1, <3>3, <3>5, <3>6 DEF HolderInv, Advance, AdvanceRepoTarget, lease
    <3>8. PlacesTypeOK' /\ c.made \in Commits /\ "committed" \in TargetStatuses
      BY <1>3, <2>0, <2>1 DEF PlacesTypeOK, git, TargetStatuses
    <3>9. QED BY <1>1, <2>0, <2>1, <3>2, <3>3, <3>5, <3>7, <3>8, AdvanceKeeps
  <2>2. QED BY <1>2, <1>9, <2>1, RaiseKeeps DEF RecordCommitted
<1>10. CASE DirtyAfterCommit(w)
  <2>1. PICK d : d = [c EXCEPT !.pc = "failing", !.cause = "dirty"]
    OBVIOUS
  <2>2. /\ c.pc = "prove_clean" /\ drive' = [drive EXCEPT ![w] = d]
        /\ UNCHANGED <<storeVars, lock, git, crashes, faults>>
    BY <1>2, <1>3, <1>10, <2>1 DEF DirtyAfterCommit, At
  <2>3. /\ d \in Drives /\ d.pc = "failing" /\ d.cause = "dirty" /\ d.lane = c.lane
        /\ d.version = c.version
    BY <1>3, <2>1 DEF Drives, Labels, StoreCallPoints, Causes
  <2>4. HolderInv(d) /\ Follows(drive[w], d)
    BY <1>2, <1>3, <2>2, <2>3, GoesOn DEF Waits, Works, ProvenSoFar
  <2>5. QED BY <1>3, <2>2, <2>3, <2>4, LocalStepKeeps DEF PlacesTypeOK, git
<1>11. CASE ProveClean(w)
  <2>0. c.pc = "prove_clean" /\ c.repo \in Repos
    BY <1>2, <1>3, <1>11 DEF ProveClean, At, HolderInv
  <2>1. ASSUME Advance(w, c.repo, "clean", NoCommit),
               Goto(w, IF c.todo = {} THEN "reload_integrate" ELSE "commit"),
               lock' = IF c.todo = {} THEN NoSession ELSE lock,
               UNCHANGED <<git, crashes, faults>>
        PROVE  DrainInv'
    <3>1. PICK d : d = [c EXCEPT !.pc = IF c.todo = {} THEN "reload_integrate" ELSE "commit"]
      OBVIOUS
    <3>2. drive' = [drive EXCEPT ![w] = d]
      BY <1>2, <1>3, <2>1, <3>1 DEF Goto
    <3>3. /\ d \in Drives /\ d.pc = (IF c.todo = {} THEN "reload_integrate" ELSE "commit")
          /\ d.lane = c.lane /\ d.version = c.version /\ d.repo = c.repo /\ d.todo = c.todo
      BY <1>3, <3>1 DEF Drives, Labels, StoreCallPoints
    <3>4. Unproven(c) = c.todo \cup {c.repo} /\ Unproven(d) = c.todo
      BY <1>3, <2>0, <3>3 DEF Unproven, Drives
    <3>5. ProvenSoFar(d)'
      <4>1. target' = [target EXCEPT ![c.lane][c.repo] = "clean"] /\ target[c.lane][c.repo] # "none"
            /\ target \in [Lanes -> [Repos -> TargetStatuses]]
        BY <1>3, <2>1 DEF Advance, AdvanceRepoTarget, RepoTargetTransitions, DrainInv, StoreInv, TypeOK
      <4>2. ProvenSoFar(c)
        BY <1>3 DEF HolderInv
      <4>3. QED BY <1>3, <2>0, <3>3, <3>4, <4>1, <4>2 DEF ProvenSoFar, RepoTargets
    <3>6. Works(c) /\ Works(d) /\ ~Waits(d)
      BY <2>0, <3>3 DEF Works, Waits
    <3>7. HolderInv(d)'
      <4>1. UNCHANGED <<status, lease_version>>
        BY <2>1 DEF Advance, AdvanceRepoTarget, lease
      <4>2. QED BY <1>3, <3>3, <3>5, <3>6, <4>1 DEF HolderInv
    <3>8. Follows(drive[w], d)
      BY <1>2, <1>3, <3>3, <3>6 DEF Follows
    <3>9. PlacesTypeOK' /\ "clean" \in TargetStatuses
      BY <1>3, <2>1 DEF PlacesTypeOK, git, TargetStatuses
    <3>10. QED BY <1>1, <2>0, <2>1, <3>2, <3>3, <3>7, <3>8, <3>9, AdvanceKeeps
  <2>2. QED BY <1>2, <1>11, <2>1, RaiseKeeps DEF ProveClean
<1>12. CASE ReadCommit(w)
  <2>1. PICK d : d = [c EXCEPT !.pc = "committed", !.made = head[c.repo]]
    OBVIOUS
  <2>2. /\ c.pc = "made" /\ c.repo \in Repos /\ drive' = [drive EXCEPT ![w] = d]
        /\ UNCHANGED <<storeVars, lock, git, crashes, faults>>
    BY <1>2, <1>3, <1>12, <2>1 DEF ReadCommit, At, HolderInv
  <2>3. /\ d \in Drives /\ d.pc = "committed" /\ d.lane = c.lane /\ d.version = c.version
        /\ d.repo = c.repo /\ d.todo = c.todo /\ d.made \in Commits
    BY <1>3, <2>1, <2>2, CommitsAssumption DEF Drives, Labels, StoreCallPoints, PlacesTypeOK
  <2>4. Unproven(d) = Unproven(c)
    BY <2>2, <2>3 DEF Unproven
  <2>5. HolderInv(d) /\ Follows(drive[w], d)
    BY <1>2, <1>3, <2>2, <2>3, <2>4, GoesOn DEF HolderInv, Waits, Works, ProvenSoFar
  <2>6. QED BY <1>3, <2>2, <2>3, <2>5, LocalStepKeeps DEF PlacesTypeOK, git
<1>13. CASE MarkIntegrated(w)
  <2>0. c.pc = "integrate"
    BY <1>2, <1>13 DEF MarkIntegrated, At
  <2>1. PICK C : C = {target_commit[Lane(w)][r] : r \in RepoTargets(Lane(w))}
    OBVIOUS
  <2>2. CASE Move(w, "integrated", C) /\ GoIdle(w) /\ UNCHANGED <<lock, git, crashes, faults>>
    <3>1. PICK d : d = Idle
      OBVIOUS
    <3>2. drive' = [drive EXCEPT ![w] = d] /\ d \in Drives /\ d.pc = "idle" /\ d.lane = NoLane
      BY <2>2, <3>1, IdleHolder DEF GoIdle, Idle
    <3>3. HolderInv(d)'
      BY <3>2 DEF HolderInv, Waits, Works, ProvenSoFar
    <3>4. PlacesTypeOK'
      BY <1>3, <2>2 DEF PlacesTypeOK, git
    <3>5. \A r \in RepoTargets(Lane(w)) : target[Lane(w)][r] = "clean"
      BY <1>3, <2>0 DEF HolderInv, ProvenSoFar, Unproven
    <3>6. C \in SUBSET Commits /\ "integrated" \in Statuses
      <4>1. \A r \in RepoTargets(Lane(w)) : target_commit[Lane(w)][r] \in Commits
        BY <1>3, <3>5 DEF DrainInv, LedgerInv, StoreInv, TypeOK
      <4>2. QED BY <2>1, <4>1 DEF Statuses
    <3>7. Works(drive[w])
      BY <1>2, <2>0 DEF Works, Waits
    <3>8. QED BY <1>1, <2>2, <3>2, <3>3, <3>4, <3>5, <3>6, <3>7, MoveKeeps
  <2>3. QED BY <1>13, <2>1, <2>2, RaiseKeeps DEF MarkIntegrated
<1>14. QED
  BY <1>4, <1>5, <1>6, <1>7, <1>8, <1>9, <1>10, <1>11, <1>12, <1>13 DEF Commit

(* _recover_one_crashed_merge_queue_lane.                                   *)
LEMMA RecoverKeeps ==
  ASSUME DrainInv, NEW w \in Sessions,
         RecoverRepo(w) \/ RecoverResetFails(w) \/ RecoverFinish(w)
  PROVE  DrainInv'
<1>. USE DEF InHand, Committing, Resetting
<1>1. ~At(w, "idle")
  BY DEF At, RecoverRepo, RecoverResetFails, RecoverFinish
<1>2. PICK c : c = drive[w]
  OBVIOUS
<1>3. /\ c \in Drives /\ HolderInv(c) /\ Lane(w) = c.lane /\ c.lane \in Lanes /\ c.pc = "recovering"
      /\ drive \in [Sessions -> Drives] /\ PlacesTypeOK /\ c.todo \in SUBSET Repos
  BY <1>1, <1>2, Token
     DEF Lane, At, DrainInv, DrainTypeOK, RecoverRepo, RecoverResetFails, RecoverFinish, Drives
<1>4. CASE RecoverRepo(w)
  <2>1. PICK r \in c.todo :
          /\ IF c.rows[r] \in {"committed", "clean"} THEN UNCHANGED git ELSE ResetTo(c.lane, {r})
          /\ drive' = [drive EXCEPT ![w].todo = @ \ {r},
                         ![w].cause = IF worktree'[r] = {} THEN @ ELSE "irreconcilable"]
          /\ UNCHANGED <<storeVars, lock, crashes, faults>>
    BY <1>2, <1>3, <1>4 DEF RecoverRepo
  <2>2. PICK d : d = [c EXCEPT !.todo = c.todo \ {r},
                               !.cause = IF worktree'[r] = {} THEN c.cause ELSE "irreconcilable"]
    OBVIOUS
  <2>3. drive' = [drive EXCEPT ![w] = d]
    BY <1>2, <1>3, <2>1, <2>2
  <2>4. d \in Drives /\ d.pc = "recovering" /\ d.lane = c.lane /\ d.version = c.version
    BY <1>3, <2>2 DEF Drives, Causes
  <2>5. HolderInv(d) /\ Follows(drive[w], d)
    BY <1>2, <1>3, <2>4, GoesOn DEF Waits, Works, ProvenSoFar
  <2>6. PlacesTypeOK'
    BY <1>3, <2>1, ResetTyped DEF PlacesTypeOK, git
  <2>7. QED BY <2>1, <2>3, <2>4, <2>5, <2>6, LocalStepKeeps
<1>5. CASE RecoverResetFails(w)
  <2>1. PICK r \in c.todo :
          drive' = [drive EXCEPT ![w].todo = @ \ {r}, ![w].cause = "irreconcilable"]
    BY <1>2, <1>3, <1>5 DEF RecoverResetFails
  <2>2. PICK d : d = [c EXCEPT !.todo = c.todo \ {r}, !.cause = "irreconcilable"]
    OBVIOUS
  <2>3. drive' = [drive EXCEPT ![w] = d] /\ faults' = faults + 1
        /\ UNCHANGED <<storeVars, lock, git, crashes>>
    BY <1>2, <1>3, <1>5, <2>1, <2>2 DEF RecoverResetFails
  <2>4. d \in Drives /\ d.pc = "recovering" /\ d.lane = c.lane /\ d.version = c.version
    BY <1>3, <2>2 DEF Drives, Causes
  <2>5. HolderInv(d) /\ Follows(drive[w], d)
    BY <1>2, <1>3, <2>4, GoesOn DEF Waits, Works, ProvenSoFar
  <2>6. faults' \in Nat
    BY <1>3, <2>3 DEF PlacesTypeOK
  <2>7. PlacesTypeOK'
    BY <1>3, <2>3, <2>6 DEF PlacesTypeOK, git
  <2>8. QED BY <2>3, <2>4, <2>5, <2>7, LocalStepKeeps
<1>6. CASE RecoverFinish(w)
  <2>1. PICK to : to = IF c.cause = "irreconcilable" THEN "poisoned" ELSE "failed"
    OBVIOUS
  <2>2. CASE Move(w, to, {}) /\ GoIdle(w) /\ UNCHANGED <<lock, git, crashes, faults>>
    <3>1. PICK d : d = Idle
      OBVIOUS
    <3>2. drive' = [drive EXCEPT ![w] = d] /\ d \in Drives /\ d.pc = "idle" /\ d.lane = NoLane
      BY <2>2, <3>1, IdleHolder DEF GoIdle, Idle
    <3>3. HolderInv(d)'
      BY <3>2 DEF HolderInv, Waits, Works, ProvenSoFar
    <3>4. PlacesTypeOK'
      BY <1>3, <2>2 DEF PlacesTypeOK, git
    <3>5. to \in Statuses /\ to # "integrated" /\ {} \in SUBSET Commits
      BY <2>1 DEF Statuses
    <3>6. QED BY <1>1, <2>2, <3>2, <3>3, <3>4, <3>5, MoveKeeps
  <2>3. QED BY <1>2, <1>6, <2>1, <2>2, RaiseKeeps DEF RecoverFinish
<1>7. QED BY <1>4, <1>5, <1>6

(* The splice, claim, recover_expired and the clock.                        *)
LEMMA SpliceStep ==
  ASSUME DrainInv, NEW i \in Lanes, Splice(i)
  PROVE  DrainInv' /\ StoreNext
<1>1. /\ Enqueue(i, {TaskOf[i]}, ReposOf[i], PatchOf[i], NoLane)
      /\ UNCHANGED <<lock, git, drive, crashes, faults>> /\ i \notin Present
  BY LanesAssumption DEF Splice
<1>2. StoreNext
  <2>1. {TaskOf[i]} \in SUBSET Tasks /\ ReposOf[i] \in SUBSET Repos /\ PatchOf[i] \in Patches
    BY DrainAssumption
  <2>2. QED BY <1>1, <2>1 DEF StoreNext
<1>3. StoreInv'
  BY <1>2, StoreStep DEF DrainInv
<1>4. /\ status \in [Lanes -> Statuses] /\ target \in [Lanes -> [Repos -> TargetStatuses]]
      /\ drive \in [Sessions -> Drives] /\ PlacesTypeOK
  BY DEF DrainInv, StoreInv, TypeOK, DrainTypeOK
<1>5. /\ status[i] = "none" /\ status'[i] = "queued"
      /\ \A j \in Lanes \ {i} : status'[j] = status[j] /\ target'[j] = target[j]
      /\ \A r \in Repos : target'[i][r] \in {"none", "pending"}
      /\ UNCHANGED <<lease_version, target_commit, drive>>
  BY <1>1, <1>4 DEF Enqueue, Present, lease
<1>6. PlacesTypeOK'
  BY <1>1, <1>4 DEF PlacesTypeOK, git
<1>7. DrainInv'
  BY <1>3, <1>4, <1>5, <1>6, NewLeaseKeeps DEF CandidateStatuses
<1>8. QED BY <1>2, <1>7

(* A lease runs out: no lane, repository or session changes.                *)
LEMMA ExpiryStep ==
  ASSUME DrainInv, NEW i \in Lanes, LeaseRunsOut(i)
  PROVE  DrainInv' /\ StoreNext
<1>1. LeaseExpires(i) /\ UNCHANGED <<lock, git, drive, crashes, faults>>
  BY DEF LeaseRunsOut
<1>2. StoreNext
  BY <1>1 DEF StoreNext
<1>3. StoreInv'
  BY <1>2, StoreStep DEF DrainInv
<1>4. /\ UNCHANGED <<status, target, target_commit, lease_version, drive>>
      /\ status[i] \notin CandidateStatuses \/ status[i] = "checkpointing"
  BY <1>1 DEF LeaseExpires, ledger, lease, CandidateStatuses, RecoverableStatuses
<1>5. LedgerInv' /\ CandidateTargetsClean' /\ ApartInv'
  BY <1>4 DEF DrainInv, LedgerInv, CandidateTargetsClean, RepoTargets, ApartInv
<1>6. HoldersInv'
  <2>1. ASSUME NEW v \in Sessions PROVE HolderInv(drive[v])'
    BY <1>4 DEF DrainInv, HoldersInv, HolderInv, ProvenSoFar, RepoTargets, Unproven, Works, Waits
  <2>2. QED BY <2>1 DEF HoldersInv
<1>7. DrainTypeOK'
  BY <1>1 DEF DrainInv, DrainTypeOK, PlacesTypeOK, git
<1>8. QED BY <1>2, <1>3, <1>5, <1>6, <1>7 DEF DrainInv

(* Claiming grants a version no session holds yet.                          *)
LEMMA ClaimStep ==
  ASSUME DrainInv, NEW w \in Sessions, DrainClaim(w)
  PROVE  DrainInv' /\ StoreNext
<1>1. PICK i \in Lanes :
        /\ Claim(w, i)
        /\ drive' = [drive EXCEPT ![w] = [Idle EXCEPT !.pc = "claimed", !.lane = i,
                                                      !.version = lease_version'[i]]]
        /\ UNCHANGED <<lock, git, crashes, faults>>
  BY DEF DrainClaim
<1>2. StoreNext
  BY <1>1 DEF StoreNext
<1>3. StoreInv'
  BY <1>2, StoreStep DEF DrainInv
<1>4. /\ status \in [Lanes -> Statuses] /\ lease_version \in [Lanes -> 0 .. MaxVersion]
      /\ drive \in [Sessions -> Drives] /\ PlacesTypeOK
  BY DEF DrainInv, StoreInv, TypeOK, DrainTypeOK
<1>5. /\ status' = [status EXCEPT ![i] = "leased"]
      /\ lease_version' = [lease_version EXCEPT ![i] = @ + 1]
      /\ UNCHANGED <<target, target_commit>> /\ status[i] \in {"queued", "leased"}
      /\ lease_version[i] < MaxVersion
  BY <1>1 DEF Claim, Claimable, ledger
<1>6. PICK d : d = [Idle EXCEPT !.pc = "claimed", !.lane = i, !.version = lease_version'[i]]
  OBVIOUS
<1>7. /\ lease_version'[i] = lease_version[i] + 1 /\ lease_version'[i] \in 1 .. MaxVersion
      /\ lease_version'[i] \in 0 .. MaxVersion
  BY <1>4, <1>5, BoundsAssumption
<1>8. /\ d \in Drives /\ d.pc = "claimed" /\ d.lane = i /\ d.version = lease_version[i] + 1
      /\ d.version = lease_version'[i]
  BY <1>6, <1>7, IdleHolder DEF Drives, Labels
<1>9. HolderInv(d)'
  BY <1>4, <1>5, <1>7, <1>8 DEF HolderInv, Works, Waits, InHand, Resetting, ProvenSoFar, Committing
<1>10. /\ drive' \in [Sessions -> Drives]
       /\ \A v \in Sessions : drive'[v] = IF v = w THEN d ELSE drive[v]
  BY <1>1, <1>4, <1>6, <1>8
<1>11. HolderInv(drive[w])'
  BY <1>9, <1>10 DEF HolderInv, ProvenSoFar, RepoTargets, Unproven, Works, Waits
<1>12. PlacesTypeOK'
  BY <1>1, <1>4 DEF PlacesTypeOK, git
<1>13. DrainInv'
  BY <1>3, <1>4, <1>5, <1>7, <1>8, <1>10, <1>11, <1>12, NewLeaseKeeps DEF CandidateStatuses
<1>14. QED BY <1>2, <1>13

(* Recovery claims a lane under a version no session holds yet.             *)
LEMMA TakeOverStep ==
  ASSUME DrainInv, NEW w \in Sessions, DrainRecover(w)
  PROVE  DrainInv' /\ StoreNext
<1>1. PICK i \in Lanes :
        /\ RecoverExpired(w, i)
        /\ drive' = IF status'[i] = "poisoned" THEN drive
                    ELSE [drive EXCEPT ![w] =
                      [Idle EXCEPT !.pc = "recovering", !.lane = i, !.cause = "recovery",
                                   !.version = lease_version'[i], !.rows = target[i],
                                   !.todo = RepoTargets(i)]]
        /\ UNCHANGED <<lock, git, crashes, faults>>
  BY DEF DrainRecover
<1>2. StoreNext
  BY <1>1 DEF StoreNext
<1>3. StoreInv'
  BY <1>2, StoreStep DEF DrainInv
<1>4. /\ status \in [Lanes -> Statuses] /\ lease_version \in [Lanes -> 0 .. MaxVersion]
      /\ target \in [Lanes -> [Repos -> TargetStatuses]]
      /\ drive \in [Sessions -> Drives] /\ PlacesTypeOK
  BY DEF DrainInv, StoreInv, TypeOK, DrainTypeOK
<1>5. UNCHANGED <<target, target_commit>> /\ status[i] \in RecoverableStatuses
  BY <1>1 DEF RecoverExpired, Recoverable, ledger
<1>7. PlacesTypeOK'
  BY <1>1, <1>4 DEF PlacesTypeOK, git
<1>8. CASE status'[i] = "poisoned" /\ UNCHANGED lease_version
  <2>1. \A j \in Lanes \ {i} : status'[j] = status[j]
    BY <1>1, <1>4 DEF RecoverExpired
  <2>2. UNCHANGED drive
    BY <1>1, <1>8
  <2>3. QED BY <1>2, <1>3, <1>4, <1>5, <1>7, <1>8, <2>1, <2>2, NewLeaseKeeps
           DEF CandidateStatuses, RecoverableStatuses
<1>9. CASE UNCHANGED status /\ lease_version' = [lease_version EXCEPT ![i] = @ + 1]
           /\ lease_version[i] < MaxVersion
  <2>1. PICK d : d = [Idle EXCEPT !.pc = "recovering", !.lane = i, !.cause = "recovery",
                                  !.version = lease_version'[i], !.rows = target[i],
                                  !.todo = RepoTargets(i)]
    OBVIOUS
  <2>2. /\ lease_version'[i] = lease_version[i] + 1 /\ lease_version'[i] \in 1 .. MaxVersion
        /\ lease_version'[i] \in 0 .. MaxVersion
    BY <1>4, <1>9, BoundsAssumption
  <2>3. /\ d \in Drives /\ d.pc = "recovering" /\ d.lane = i /\ d.version = lease_version[i] + 1
        /\ d.version = lease_version'[i]
    <3>1. RepoTargets(i) \in SUBSET Repos /\ target[i] \in [Repos -> TargetStatuses]
      BY <1>4 DEF RepoTargets
    <3>2. QED BY <2>1, <2>2, <3>1, IdleHolder DEF Drives, Labels, Causes
  <2>4. status[i] \notin {"none", "queued", "leased", "poisoned"}
    BY <1>5 DEF RecoverableStatuses
  <2>5. HolderInv(d)'
    BY <1>9, <2>2, <2>3, <2>4
       DEF HolderInv, Works, Waits, InHand, Resetting, ProvenSoFar, Committing
  <2>6. /\ drive' \in [Sessions -> Drives]
        /\ \A v \in Sessions : drive'[v] = IF v = w THEN d ELSE drive[v]
    BY <1>1, <1>4, <1>9, <2>1, <2>3, <2>4
  <2>7. HolderInv(drive[w])'
    BY <2>5, <2>6 DEF HolderInv, ProvenSoFar, RepoTargets, Unproven, Works, Waits
  <2>8. DrainInv'
    BY <1>3, <1>4, <1>5, <1>7, <1>9, <2>2, <2>3, <2>4, <2>6, <2>7, NewLeaseKeeps
  <2>9. QED BY <1>2, <2>8
<1>10. QED BY <1>1, <1>4, <1>5, <1>8, <1>9 DEF RecoverExpired, RecoverableStatuses

(* Each step of the drain is a call of one store method, or none.           *)
LEMMA StepIsStoreStep ==
  ASSUME DrainInv, [DrainNext]_vars
  PROVE  [StoreNext]_storeVars
<1>1. ASSUME NEW w \in Sessions, ~At(w, "idle"), NEW to \in Statuses, Move(w, to, {})
      PROVE  StoreNext
  BY <1>1, MoveIsTransition
<1>2. ASSUME NEW w \in Sessions, ~At(w, "idle"), NEW r \in Repos, NEW to \in TargetStatuses,
             NEW c, Advance(w, r, to, c),
             c \in Commits \/ to \notin {"pre_apply_recorded", "committed"}
      PROVE  StoreNext
  BY <1>2, AdvanceIsAdvance
<1>3. /\ head \in [Repos -> Commits] /\ drive \in [Sessions -> Drives]
      /\ \A w \in Sessions : HolderInv(drive[w])
  BY CommitsAssumption DEF DrainInv, DrainTypeOK, PlacesTypeOK, HoldersInv
<1>4. ASSUME NEW w \in Sessions, Apply(w) PROVE [StoreNext]_storeVars
  <2>1. CASE StartApply(w) \/ FinishApply(w)
    <3>1. ~At(w, "idle") /\ "applying" \in Statuses /\ "verifying" \in Statuses
      BY <2>1 DEF StartApply, FinishApply, At, Statuses
    <3>2. QED BY <1>1, <2>1, <3>1 DEF StartApply, FinishApply, Raise
  <2>2. CASE RecordPreApply(w)
    <3>1. ~At(w, "idle") /\ drive[w].todo \subseteq Repos /\ "pre_apply_recorded" \in TargetStatuses
      BY <1>3, <2>2 DEF RecordPreApply, At, TargetStatuses, Drives
    <3>2. QED BY <1>2, <1>3, <2>2, <3>1 DEF RecordPreApply, Raise
  <2>3. CASE RecordApplied(w)
    <3>1. ~At(w, "idle") /\ drive[w].repo \in Repos /\ "applied" \in TargetStatuses
      BY <1>3, <2>3 DEF RecordApplied, At, TargetStatuses, HolderInv, InHand
    <3>2. QED BY <1>2, <1>3, <2>3, <3>1 DEF RecordApplied, Raise
  <2>4. QED
    BY <1>4, <2>1, <2>2, <2>3
       DEF Apply, InputsMismatch, LockForApply, BaselineDirty, ApplyPatch, PatchRefused, RollbackAll
<1>5. ASSUME NEW w \in Sessions, Verify(w) PROVE [StoreNext]_storeVars
  <2>1. ~At(w, "idle") /\ "committing" \in Statuses
    BY <1>5 DEF Verify, At, Statuses, Reload, GatesApprove, GatesReject, ResetAfterGates
  <2>2. QED
    BY <1>1, <1>5, <2>1 DEF Verify, Reload, GatesApprove, GatesReject, ResetAfterGates, Raise
<1>6. ASSUME NEW w \in Sessions, Commit(w) PROVE [StoreNext]_storeVars
  <2>1. CASE RecordCommitted(w) \/ ProveClean(w)
    <3>1. /\ ~At(w, "idle") /\ drive[w].repo \in Repos
          /\ "committed" \in TargetStatuses /\ "clean" \in TargetStatuses
      BY <1>3, <2>1 DEF RecordCommitted, ProveClean, At, TargetStatuses, HolderInv, InHand
    <3>2. At(w, "committed") => drive[w].made \in Commits
      BY <1>3 DEF At, HolderInv
    <3>3. QED BY <1>2, <2>1, <3>1, <3>2 DEF RecordCommitted, ProveClean, Raise
  <2>2. CASE MarkIntegrated(w)
    <3>1. PICK C : C = {target_commit[Lane(w)][r] : r \in RepoTargets(Lane(w))}
      OBVIOUS
    <3>2. CASE Raise(w)
      BY <3>2 DEF Raise
    <3>3. CASE Move(w, "integrated", C)
      <4>1. ~At(w, "idle") /\ At(w, "integrate") /\ "integrated" \in Statuses
        BY <2>2 DEF MarkIntegrated, At, Statuses
      <4>2. Lane(w) \in Lanes /\ \A r \in RepoTargets(Lane(w)) : target[Lane(w)][r] = "clean"
        BY <1>3, <4>1, Token DEF At, Lane, HolderInv, ProvenSoFar, Committing, Unproven
      <4>3. \A r \in RepoTargets(Lane(w)) : target_commit[Lane(w)][r] \in Commits
        BY <4>2 DEF DrainInv, LedgerInv, StoreInv, TypeOK, RepoTargets
      <4>4. QED BY <3>1, <3>3, <4>1, <4>3, MoveIsTransition
    <3>4. QED BY <2>2, <3>1, <3>2, <3>3 DEF MarkIntegrated
  <2>3. QED
    BY <1>6, <2>1, <2>2
       DEF Commit, Reload, LockForCommit, GitCommit, ReadCommit, CommitRejected, ResetUncommitted,
           DirtyAfterCommit
<1>7. ASSUME NEW w \in Sessions, FailTarget(w) \/ FailLane(w) PROVE [StoreNext]_storeVars
  <2>1. ~At(w, "idle") /\ "failed" \in Statuses /\ "failed" \in TargetStatuses
    BY <1>7 DEF FailTarget, FailLane, At, Statuses, TargetStatuses
  <2>2. CASE FailTarget(w)
    BY <1>2, <2>1, <2>2 DEF FailTarget, Raise, Unsettled, RepoTargets
  <2>3. CASE FailLane(w)
    BY <1>1, <2>1, <2>3 DEF FailLane, Raise
  <2>4. QED BY <1>7, <2>2, <2>3
<1>8. ASSUME NEW w \in Sessions, RecoverRepo(w) \/ RecoverResetFails(w) \/ RecoverFinish(w)
      PROVE  [StoreNext]_storeVars
  <2>1. ~At(w, "idle") /\ "failed" \in Statuses /\ "poisoned" \in Statuses
    BY <1>8 DEF RecoverRepo, RecoverResetFails, RecoverFinish, At, Statuses
  <2>2. QED BY <1>1, <1>8, <2>1 DEF RecoverRepo, RecoverResetFails, RecoverFinish, Raise
<1>9. ASSUME NEW w \in Sessions, DatabaseFault(w) \/ Crash(w) PROVE UNCHANGED storeVars
  BY <1>9 DEF DatabaseFault, Crash
<1>10. UNCHANGED vars => UNCHANGED storeVars
  BY DEF vars
<1>11. QED
  BY <1>4, <1>5, <1>6, <1>7, <1>8, <1>9, <1>10, SpliceStep, ExpiryStep, ClaimStep, TakeOverStep
     DEF DrainNext, DrainStep

(* The invariant holds at the start.                                        *)
LEMMA DrainStart == DrainInit => DrainInv
<1>. SUFFICES ASSUME DrainInit PROVE DrainInv
  OBVIOUS
<1>1. StoreInv
  BY StoreStart DEF DrainInit
<1>2. DrainTypeOK
  <2>1. <<>> \in History
    BY DEF History
  <2>2. QED BY <2>1, IdleHolder DEF DrainInit, DrainTypeOK, PlacesTypeOK
<1>3. HoldersInv
  BY IdleHolder DEF DrainInit, HoldersInv
<1>4. ApartInv
  BY IdleHolder DEF DrainInit, ApartInv, Apart
<1>5. LedgerInv /\ CandidateTargetsClean
  BY DEF DrainInit, StoreInit, LedgerInv, CandidateTargetsClean, CandidateStatuses
<1>6. QED BY <1>1, <1>2, <1>3, <1>4, <1>5 DEF DrainInv

(* Every step of the drain keeps the invariant.                             *)
LEMMA DrainStepKeeps == DrainInv /\ [DrainNext]_vars => DrainInv'
<1>. SUFFICES ASSUME DrainInv, [DrainNext]_vars PROVE DrainInv'
  OBVIOUS
<1>1. CASE UNCHANGED vars
  <2>1. UNCHANGED <<status, identity, lease, ledger, evidence, grants, lock, head, worktree, drive,
                    crashes, faults>> /\ UNCHANGED storeVars
    BY <1>1 DEF vars, storeVars, git
  <2>2. StoreInv'
    BY <2>1, StoreStep DEF DrainInv
  <2>3. DrainTypeOK' /\ ApartInv' /\ LedgerInv' /\ CandidateTargetsClean'
    BY <2>1 DEF DrainInv, DrainTypeOK, PlacesTypeOK, ApartInv, LedgerInv, CandidateTargetsClean,
                RepoTargets, ledger
  <2>4. HoldersInv'
    BY <2>1 DEF DrainInv, HoldersInv, HolderInv, ProvenSoFar, RepoTargets, Unproven, Works, Waits,
                ledger, lease
  <2>5. QED BY <2>2, <2>3, <2>4 DEF DrainInv
<1>2. QED
  BY <1>1, SpliceStep, ExpiryStep, ClaimStep, TakeOverStep, ApplyKeeps, VerifyKeeps, CommitKeeps,
     FailKeeps, RecoverKeeps, IncidentKeeps DEF DrainNext, DrainStep

(* The inductive invariant.                                                 *)
THEOREM DrainInvariant == DrainSpec => []DrainInv
BY DrainStart, DrainStepKeeps, PTL DEF DrainSpec

(* The drain calls the store as StoreSpec says.                             *)
THEOREM DrainImplementsStore == DrainSpec => StoreSpec
<1>1. DrainInit => StoreInit
  BY DEF DrainInit
<1>2. QED BY <1>1, DrainInvariant, StepIsStoreStep, PTL DEF DrainSpec, StoreSpec

(* A lease version of a lane is granted once, whichever drain asks.         *)
THEOREM DrainKeepsVersions == DrainSpec => []VersionGrantedOnce
BY DrainImplementsStore, StoreVersionGrantedOnce, PTL

(* A lane that drains call integrated has its proofs and its commits.       *)
THEOREM DrainKeepsProofs == DrainSpec => []CandidateIsProven
BY DrainImplementsStore, StoreCandidateIsProven, PTL

(* No step of a drain leads out of a terminal lane status.                  *)
THEOREM DrainKeepsTerminal == DrainSpec => TerminalIsFinal
BY DrainImplementsStore, StoreTerminalIsFinal, PTL

(* An integrated lane has every repo target clean with its commit recorded. *)
THEOREM DrainCandidateTargetsClean == DrainSpec => []CandidateTargetsClean
<1>1. DrainInv => CandidateTargetsClean
  BY DEF DrainInv
<1>2. QED BY <1>1, DrainInvariant, PTL

(* Two sessions never both drive a lane through apply, gates and commit.    *)
THEOREM DrainOneDriverPerLane == DrainSpec => []OneDriverPerLane
<1>1. DrainInv => OneDriverPerLane
  <2>1. SUFFICES ASSUME DrainInv, NEW i \in Lanes
                 PROVE  Cardinality({w \in Sessions :
                          Lane(w) = i /\ drive[w].pc \notin {"claimed", "baseline", "failing", "recovering"}}) <= 1
    BY DEF OneDriverPerLane
  <2>. DEFINE S == {w \in Sessions :
                     Lane(w) = i /\ drive[w].pc \notin {"claimed", "baseline", "failing", "recovering"}}
  <2>2. ASSUME NEW w \in Sessions, Lane(w) = i,
               drive[w].pc \notin {"claimed", "baseline", "failing", "recovering"}
        PROVE  drive[w].pc # "idle" /\ Works(drive[w])
    <3>1. HolderInv(drive[w])
      BY <2>1 DEF DrainInv, HoldersInv
    <3>2. drive[w].pc # "idle"
      BY <2>2, <3>1, LanesAssumption DEF HolderInv, Lane
    <3>3. QED BY <2>2, <3>2 DEF Works, Waits
  <2>3. \A v, w \in S : v = w
    <3>1. SUFFICES ASSUME NEW v \in S, NEW w \in S, v # w PROVE FALSE
      OBVIOUS
    <3>2. Works(drive[v]) /\ Works(drive[w]) /\ drive[v].pc # "idle" /\ drive[w].pc # "idle"
      BY <2>2
    <3>3. Apart(drive[v], drive[w]) /\ drive[v].lane = drive[w].lane
      BY <2>1, <3>1 DEF DrainInv, ApartInv, Lane
    <3>4. QED BY <3>2, <3>3 DEF Apart
  <2>4. CASE S = {}
    BY <2>4, FS_EmptySet
  <2>5. CASE S # {}
    <3>1. PICK w \in S : S = {w}
      BY <2>3, <2>5
    <3>2. Cardinality(S) = 1
      BY <3>1, FS_Singleton
    <3>3. QED BY <3>2
  <2>6. QED BY <2>4, <2>5
<1>2. QED BY <1>1, DrainInvariant, PTL

----------------------------------------------------------------------------
(* What holds while no process dies, no store call fails and every lease    *)
(* outlasts the work under it: nothing is recovered, and git agrees with    *)
(* the rows at every step.                                                  *)
FairWeather == MaxCrashes = 0 /\ MaxFaults = 0 /\ ~LongSteps

(* Production splices lanes of one repository each.                         *)
SingleRepo == \A i \in Lanes : \E r \in Repos : ReposOf[i] = {r}

(* The statuses under which some session is at work on the lane.            *)
InFlight == {"leased"} \cup RecoverableStatuses

(* The program points reached with the row applying, ...                    *)
Applying(d) ==
  \/ d.pc \in {"apply", "patch", "patched", "applied", "rollback"}
  \/ d.pc = "failing" /\ d.cause = "conflict"

(* ... and those reached with the row verifying.                            *)
Verifying(d) ==
  \/ d.pc \in {"reload_gates", "gates", "gate_reset"}
  \/ d.pc = "failing" /\ d.cause = "gates"

(* The status of the lane a session holds.                                  *)
StatusOf(d) == IF Waits(d) THEN "leased"
               ELSE IF Applying(d) THEN "applying"
               ELSE IF Verifying(d) THEN "verifying" ELSE "committing"

(* Where the session holds the feature advisory lock, ...                   *)
Locked(d) ==
  d.pc \in {"baseline", "apply", "patch", "patched", "applied", "rollback",
            "commit", "hook_reset", "made", "committed", "prove_clean"}

(* ... and where the patch is in every repository, and committed in none.   *)
Patched(d) ==
  d.pc \in {"applied", "reload_gates", "gates", "gate_reset", "reload_commit", "commit_lock"}

(* The repositories the session has still to go through.                    *)
TodoAsHeld(d) ==
  /\ d.todo \subseteq RepoTargets(d.lane)
  /\ d.pc \in {"patch", "patched", "rollback"} => d.repo \in d.todo
  /\ d.pc \in {"made", "committed", "prove_clean"} \/ (d.pc = "failing" /\ d.cause = "dirty") =>
       d.repo \in RepoTargets(d.lane) \ d.todo
  /\ d.pc = "rollback" => d.cause = "conflict"
  /\ d.pc = "gate_reset" => d.cause = "gates"
  /\ d.pc = "hook_reset" => d.cause = "commit_hygiene"

(* What a repo target r of its lane has come to, the status being t.        *)
RowAsHeld(d, r, t) ==
  /\ d.pc \in {"claimed", "baseline"} => t = "pending"
  /\ d.pc = "apply" => t = IF r \in d.todo THEN "pending" ELSE "applied"
  /\ d.pc \in {"patch", "patched", "rollback"} =>
       t = IF r = d.repo THEN "pre_apply_recorded" ELSE IF r \in d.todo THEN "pending" ELSE "applied"
  /\ Patched(d) => t = "applied"
  /\ d.pc = "commit" => t = IF r \in d.todo THEN "applied" ELSE "clean"
  /\ d.pc \in {"made", "committed"} => t = IF r \in d.todo \cup {d.repo} THEN "applied" ELSE "clean"
  /\ d.pc = "prove_clean" =>
       t = IF r = d.repo THEN "committed" ELSE IF r \in d.todo THEN "applied" ELSE "clean"

(* The row of the lane a session holds is what its locals say.              *)
RowsAsHeld(w, d) ==
  d.pc # "idle" =>
    /\ d.pc # "recovering"
    /\ Fence(w, d.lane, d.version)
    /\ status[d.lane] = StatusOf(d)
    /\ Locked(d) => lock = w
    /\ TodoAsHeld(d)
    /\ \A r \in RepoTargets(d.lane) : RowAsHeld(d, r, target[d.lane][r])

(* A lane in flight is held, under a lease that has not run out.            *)
RowInv(i) ==
  /\ ~expired[i]
  /\ status[i] \in InFlight => \E w \in Sessions : drive[w].pc # "idle" /\ Lane(w) = i
  /\ RepoTargets(i) \subseteq ReposOf[i]
  /\ \A r \in Repos :
       /\ target[i][r] \in {"none", "pending"} => pre_apply_head[i][r] = NoCommit
       /\ status[i] = "none" => target[i][r] = "none"
       /\ status[i] = "queued" => target[i][r] \in {"none", "pending"}

(* No two sessions work on one lane.                                        *)
OneHolder ==
  \A v, w \in Sessions :
    v # w /\ drive[v].pc # "idle" /\ drive[w].pc # "idle" => Lane(v) # Lane(w)

(* The rows and the sessions' locals agree.                                 *)
RowsInv ==
  /\ \A w \in Sessions : RowsAsHeld(w, drive[w])
  /\ \A i \in Lanes : RowInv(i)
  /\ OneHolder

(* The worktree of r holds the patch of the session's lane and nothing else.*)
Own(d, r) ==
  /\ r \in RepoTargets(d.lane)
  /\ \/ d.pc \in {"apply", "patch", "rollback"} /\ r \notin d.todo
     \/ d.pc = "patched" /\ (r \notin d.todo \/ r = d.repo)
     \/ Patched(d)
     \/ d.pc \in {"commit", "made", "committed", "prove_clean"} /\ r \in d.todo
     \/ d.pc = "failing" /\ d.cause = "dirty" /\ r \in d.todo

(* It is clean, under the session's lock.                                   *)
Clear(d, r) ==
  \/ d.pc \in {"apply", "patch"} /\ r \in d.todo
  \/ d.pc \in {"patched", "rollback"} /\ r \in d.todo \ {d.repo}

(* It is about to be reset, whatever is left there.                         *)
Mixed(d, r) ==
  \/ d.pc = "rollback" /\ r = d.repo
  \/ d.pc = "hook_reset" /\ r \in d.todo

(* The session relies on what is in the worktree of r.                      *)
Touches(d, r) == Own(d, r) \/ Clear(d, r) \/ Mixed(d, r)

(* What a session knows of the repositories.                                *)
TreeAsHeld(d) ==
  d.pc # "idle" =>
    \A r \in Repos :
      /\ Own(d, r) => worktree[r] = {d.lane}
      /\ Clear(d, r) => worktree[r] = {}
      /\ Mixed(d, r) => worktree[r] \subseteq {d.lane, Residue}
      /\ ~Own(d, r) /\ ~Mixed(d, r) => d.lane \notin worktree[r]
      /\ Own(d, r) \/ Mixed(d, r) \/ (d.pc = "patch" /\ r = d.repo) =>
           head[r] = pre_apply_head[d.lane][r]

(* The worktrees are as the sessions know them.                             *)
TreesInv ==
  /\ \A w \in Sessions : TreeAsHeld(drive[w])
  /\ \A r \in Repos : \A i \in worktree[r] \cap Lanes : status[i] \notin {"none", "queued"}

(* Every commit recorded in a repo target, or in hand to be recorded, is in *)
(* the history of HEAD.                                                     *)
CommitsInv ==
  /\ \A w \in Sessions :
       drive[w].pc = "committed" => IsPrefix(drive[w].made, head[drive[w].repo])
  /\ \A i \in Lanes, r \in Repos :
       target[i][r] \in {"committed", "clean"} => IsPrefix(target_commit[i][r], head[r])
  /\ CommitCarriesOwnPatch

(* A lane's patch is in a worktree only while the lane is in flight.        *)
PatchInv ==
  \A r \in Repos : \A i \in worktree[r] \cap Lanes : status[i] \in InFlight

(* A step of one session on its own lane leaves the others as they are.     *)
LEMMA OthersHold ==
  ASSUME DrainInv, RowsInv, NEW w \in Sessions, ~At(w, "idle"),
         NEW i \in Lanes, i = Lane(w),
         NEW d, drive' = [drive EXCEPT ![w] = d], d.pc = "idle" \/ d.lane = i,
         UNCHANGED lease,
         \A j \in Lanes \ {i} : /\ status'[j] = status[j] /\ target'[j] = target[j]
                                      /\ pre_apply_head'[j] = pre_apply_head[j],
         status'[i] \notin {"none", "queued"}, RepoTargets(i)' = RepoTargets(i),
         \A r \in Repos : target'[i][r] \in {"none", "pending"} =>
           /\ target'[i][r] = target[i][r]
           /\ pre_apply_head'[i][r] = pre_apply_head[i][r],
         \A v \in Sessions \ {w} : lock = v => lock' = v,
         RowsAsHeld(w, d)',
         d.pc = "idle" => status'[i] \notin InFlight
  PROVE  RowsInv'
<1>1. i \in Lanes /\ drive \in [Sessions -> Drives]
  BY Token DEF DrainInv, DrainTypeOK
<1>2. drive'[w] = d /\ \A v \in Sessions \ {w} : drive'[v] = drive[v]
  BY <1>1
<1>3. OneHolder'
  BY <1>2 DEF RowsInv, OneHolder, Lane, At
<1>4. ASSUME NEW v \in Sessions PROVE RowsAsHeld(v, drive[v])'
  <2>1. PICK e : e = drive'[v]
    OBVIOUS
  <2>2. RowsAsHeld(v, e)'
    <3>1. CASE v = w
      BY <1>2, <2>1, <3>1
    <3>2. CASE v # w /\ e.pc # "idle"
      <4>1. e = drive[v] /\ e.lane # i /\ e.lane \in Lanes
        BY <1>2, <2>1, <3>2, Token DEF RowsInv, OneHolder, Lane, At
      <4>2. RowsAsHeld(v, e)
        BY <4>1 DEF RowsInv
      <4>3. RepoTargets(e.lane)' = RepoTargets(e.lane)
        BY <1>1, <4>1 DEF RepoTargets
      <4>4. TodoAsHeld(e)'
        BY <3>2, <4>2, <4>3 DEF RowsAsHeld, TodoAsHeld
      <4>5. Fence(v, e.lane, e.version)' /\ status'[e.lane] = StatusOf(e)
        BY <3>2, <4>1, <4>2 DEF RowsAsHeld, Fence, lease
      <4>6. QED
        BY <3>2, <4>1, <4>2, <4>3, <4>4, <4>5 DEF RowsAsHeld
    <3>3. CASE v # w /\ e.pc = "idle"
      BY <3>3 DEF RowsAsHeld
    <3>4. QED BY <3>1, <3>2, <3>3
  <2>3. QED BY <2>1, <2>2 DEF RowsAsHeld, Fence, TodoAsHeld, RepoTargets
<1>5. ASSUME NEW j \in Lanes PROVE RowInv(j)'
  <2>1. RowInv(j) /\ ~expired'[j]
    BY DEF RowsInv, RowInv, lease
  <2>2. RepoTargets(j)' = RepoTargets(j)
    BY DEF RepoTargets
  <2>3. \A r \in Repos :
          /\ target'[j][r] \in {"none", "pending"} => pre_apply_head'[j][r] = NoCommit
          /\ status'[j] = "none" => target'[j][r] = "none"
          /\ status'[j] = "queued" => target'[j][r] \in {"none", "pending"}
    BY <2>1 DEF RowInv
  <2>4. status'[j] \in InFlight => \E v \in Sessions : drive'[v].pc # "idle" /\ drive'[v].lane = j
    <3>1. CASE j = i
      BY <1>2, <3>1 DEF Lane
    <3>2. CASE j # i
      BY <1>2, <2>1, <3>2 DEF RowInv, Lane
    <3>3. QED BY <3>1, <3>2
  <2>5. QED BY <2>1, <2>2, <2>3, <2>4 DEF RowInv, Lane
<1>6. QED BY <1>3, <1>4, <1>5 DEF RowsInv

(* A step that writes no row.                                               *)
LEMMA LocalStepHolds ==
  ASSUME DrainInv, RowsInv, UNCHANGED storeVars, NEW w \in Sessions, ~At(w, "idle"),
         NEW i \in Lanes, i = Lane(w),
         NEW d, drive' = [drive EXCEPT ![w] = d], d.lane = Lane(w), d.pc \notin {"idle", "recovering"},
         \A v \in Sessions \ {w} : lock = v => lock' = v,
         d.version = drive[w].version, StatusOf(d) = StatusOf(drive[w]), Locked(d) => lock' = w,
         TodoAsHeld(d), \A r \in RepoTargets(d.lane) : RowAsHeld(d, r, target[d.lane][r])
  PROVE  RowsInv'
<1>1. UNCHANGED <<status, identity, lease, ledger, evidence, grants>>
  BY DEF storeVars
<1>2. RowsAsHeld(w, drive[w])
  BY Token DEF RowsInv
<1>3. RepoTargets(i)' = RepoTargets(i)
  BY <1>1 DEF RepoTargets, ledger
<1>4. status[i] \notin {"none", "queued"} /\ status'[i] = StatusOf(d)
  BY <1>1, <1>2 DEF RowsAsHeld, StatusOf, At, Lane
<1>5. TodoAsHeld(d)'
  BY <1>3 DEF TodoAsHeld
<1>6. Fence(w, d.lane, d.version)'
  BY <1>1, <1>2 DEF RowsAsHeld, Fence, At, Lane, lease
<1>7. RowsAsHeld(w, d)'
  BY <1>1, <1>3, <1>4, <1>5, <1>6 DEF RowsAsHeld, ledger
<1>8. QED BY <1>1, <1>3, <1>4, <1>7, OthersHold DEF ledger

(* In fair weather the fence accepts whoever holds a lane.                  *)
LEMMA HolderIsCurrent ==
  ASSUME DrainInv, RowsInv, NEW w \in Sessions, ~At(w, "idle")
  PROVE  /\ Lane(w) \in Lanes /\ ~Fenced(w) /\ RowsAsHeld(w, drive[w])
         /\ status[Lane(w)] = StatusOf(drive[w]) /\ TodoAsHeld(drive[w])
         /\ \A r \in RepoTargets(Lane(w)) : RowAsHeld(drive[w], r, target[Lane(w)][r])
         /\ Locked(drive[w]) => lock = w
         /\ RepoTargets(Lane(w)) \subseteq Repos
         /\ target \in [Lanes -> [Repos -> TargetStatuses]]
BY Token DEF RowsInv, RowsAsHeld, At, Lane, Fenced, RepoTargets, DrainInv, StoreInv, TypeOK

(* A lane transition.                                                       *)
LEMMA MoveHolds ==
  ASSUME DrainInv, RowsInv, NEW w \in Sessions, ~At(w, "idle"), NEW i \in Lanes, i = Lane(w),
         NEW to, NEW C, Move(w, to, C), NEW d, drive' = [drive EXCEPT ![w] = d],
         \A v \in Sessions \ {w} : lock = v => lock' = v,
         \/ d.pc = "idle" /\ to \notin InFlight
         \/ /\ d.lane = i /\ d.pc \notin {"idle", "recovering"} /\ d.version = drive[w].version
            /\ to = StatusOf(d) /\ (Locked(d) => lock' = w) /\ TodoAsHeld(d)
            /\ \A r \in RepoTargets(i) : RowAsHeld(d, r, target[i][r])
  PROVE  RowsInv'
<1>1. /\ status' = [status EXCEPT ![i] = to] /\ <<status[i], to>> \in LeaseTransitions
      /\ UNCHANGED <<identity, lease, ledger, grants>> /\ status \in [Lanes -> Statuses]
  BY DEF Move, Transition, DrainInv, StoreInv, TypeOK
<1>2. UNCHANGED <<target, pre_apply_head, lease>> /\ status'[i] = to /\ to \notin {"none", "queued"}
  BY <1>1 DEF ledger, LeaseTransitions
<1>3. RepoTargets(i)' = RepoTargets(i)
  BY <1>2 DEF RepoTargets
<1>4. RowsAsHeld(w, d)'
  <2>1. CASE d.pc = "idle"
    BY <2>1 DEF RowsAsHeld
  <2>2. CASE d.pc # "idle"
    <3>1. TodoAsHeld(d)'
      BY <1>3, <2>2 DEF TodoAsHeld
    <3>2. Fence(w, d.lane, d.version)'
      BY <1>2, <2>2, HolderIsCurrent DEF Fenced, Fence, lease
    <3>3. QED BY <1>2, <1>3, <2>2, <3>1, <3>2 DEF RowsAsHeld
  <2>3. QED BY <2>1, <2>2
<1>5. \A j \in Lanes \ {i} : status'[j] = status[j]
  BY <1>1
<1>6. QED BY <1>2, <1>3, <1>4, <1>5, OthersHold

(* A repo target moves on.                                                  *)
LEMMA AdvanceHolds ==
  ASSUME DrainInv, RowsInv, NEW w \in Sessions, ~At(w, "idle"), NEW i \in Lanes, i = Lane(w),
         NEW r \in Repos, NEW to, NEW c, Advance(w, r, to, c),
         NEW d, drive' = [drive EXCEPT ![w] = d], d.lane = i, d.pc \notin {"idle", "recovering"},
         \A v \in Sessions \ {w} : lock = v => lock' = v,
         d.version = drive[w].version, StatusOf(d) = StatusOf(drive[w]), Locked(d) => lock' = w,
         TodoAsHeld(d), RowAsHeld(d, r, to),
         \A q \in RepoTargets(i) \ {r} : RowAsHeld(d, q, target[i][q])
  PROVE  RowsInv'
<1>1. /\ target' = [target EXCEPT ![i][r] = to] /\ <<target[i][r], to>> \in RepoTargetTransitions
      /\ pre_apply_head' = IF to = "pre_apply_recorded"
                           THEN [pre_apply_head EXCEPT ![i][r] = c] ELSE pre_apply_head
      /\ UNCHANGED <<status, lease>>
      /\ target \in [Lanes -> [Repos -> TargetStatuses]]
      /\ pre_apply_head \in [Lanes -> [Repos -> Commits \cup {NoCommit}]]
  BY DEF Advance, AdvanceRepoTarget, DrainInv, StoreInv, TypeOK
<1>2. to \notin {"none", "pending"} /\ target[i][r] # "none"
  BY <1>1 DEF RepoTargetTransitions
<1>3. /\ \A j \in Lanes \ {i} : target'[j] = target[j] /\ pre_apply_head'[j] = pre_apply_head[j]
      /\ \A q \in Repos : target'[i][q] = IF q = r THEN to ELSE target[i][q]
      /\ \A q \in Repos \ {r} : pre_apply_head'[i][q] = pre_apply_head[i][q]
  BY <1>1
<1>4. RepoTargets(i)' = RepoTargets(i)
  BY <1>2, <1>3 DEF RepoTargets
<1>5. status'[i] = StatusOf(d) /\ status'[i] \notin {"none", "queued"}
  BY <1>1, HolderIsCurrent DEF StatusOf
<1>6. RowsAsHeld(w, d)'
  <2>1. TodoAsHeld(d)'
    BY <1>4 DEF TodoAsHeld
  <2>2. Fence(w, d.lane, d.version)'
    BY <1>1, HolderIsCurrent DEF Fenced, Fence, lease
  <2>3. \A q \in RepoTargets(i) : RowAsHeld(d, q, target'[i][q])
    BY <1>3, HolderIsCurrent
  <2>4. QED BY <1>4, <1>5, <2>1, <2>2, <2>3 DEF RowsAsHeld
<1>7. \A q \in Repos : target'[i][q] \in {"none", "pending"} =>
        target'[i][q] = target[i][q] /\ pre_apply_head'[i][q] = pre_apply_head[i][q]
  BY <1>2, <1>3
<1>8. QED BY <1>1, <1>3, <1>4, <1>5, <1>6, <1>7, OthersHold

(* A session that claims: the lane is queued, nobody holds it.              *)
LEMMA ClaimHolds ==
  ASSUME DrainInv, RowsInv, NEW w \in Sessions, DrainClaim(w)
  PROVE  RowsInv'
<1>1. PICK i \in Lanes :
        /\ Claim(w, i)
        /\ drive' = [drive EXCEPT ![w] = [Idle EXCEPT !.pc = "claimed", !.lane = i,
                                                      !.version = lease_version'[i]]]
  BY DEF DrainClaim
<1>2. At(w, "idle") /\ drive \in [Sessions -> Drives] /\ UNCHANGED lock /\ UNCHANGED ledger
  BY <1>1 DEF DrainClaim, DrainInv, DrainTypeOK, Claim
<1>3. PICK d : d = [Idle EXCEPT !.pc = "claimed", !.lane = i, !.version = lease_version'[i]]
  OBVIOUS
<1>4. d.pc = "claimed" /\ d.lane = i /\ d.version = lease_version'[i] /\ d.todo = {} /\ drive'[w] = d
  BY <1>1, <1>2, <1>3 DEF Idle
<1>5. \A v \in Sessions \ {w} : drive'[v] = drive[v]
  BY <1>1, <1>2
<1>6. status[i] = "queued"
  BY <1>1 DEF Claim, Claimable, RowsInv, RowInv
<1>7. \A j \in Lanes : /\ status'[j] = IF j = i THEN "leased" ELSE status[j]
                       /\ lease_owner'[j] = IF j = i THEN OwnerOf[w] ELSE lease_owner[j]
                       /\ lease_version'[j] = IF j = i THEN lease_version[j] + 1 ELSE lease_version[j]
                       /\ ~expired'[j]
  BY <1>1 DEF Claim, RowsInv, RowInv, DrainInv, StoreInv, TypeOK
<1>8. UNCHANGED <<target, pre_apply_head>> /\ \A j \in Lanes : RepoTargets(j)' = RepoTargets(j)
  BY <1>2 DEF ledger, RepoTargets
<1>9. \A v \in Sessions : drive[v].pc # "idle" => Lane(v) # i /\ Lane(v) \in Lanes
  <2>1. ASSUME NEW v \in Sessions, drive[v].pc # "idle" PROVE Lane(v) # i /\ Lane(v) \in Lanes
    BY <1>6, <2>1, HolderIsCurrent DEF At, StatusOf
  <2>2. QED BY <2>1
<1>10. OneHolder'
  BY <1>4, <1>5, <1>9 DEF RowsInv, OneHolder, Lane
<1>11. ASSUME NEW v \in Sessions PROVE RowsAsHeld(v, drive[v])'
  <2>1. PICK e : e = drive'[v]
    OBVIOUS
  <2>2. RowsAsHeld(v, e)'
    <3>1. CASE v = w
      <4>1. e = d
        BY <1>4, <2>1, <3>1
      <4>2. StatusOf(d) = "leased" /\ ~Locked(d) /\ TodoAsHeld(d)'
        BY <1>4 DEF StatusOf, Waits, Locked, TodoAsHeld
      <4>3. \A r \in RepoTargets(i) : target[i][r] = "pending"
        BY <1>6 DEF RowsInv, RowInv, RepoTargets
      <4>4. \A r \in RepoTargets(i) : RowAsHeld(d, r, target[i][r])
        BY <1>4, <4>3 DEF RowAsHeld, Patched
      <4>5. QED BY <1>4, <1>7, <1>8, <3>1, <4>1, <4>2, <4>4 DEF RowsAsHeld, Fence
    <3>2. CASE v # w /\ e.pc # "idle"
      <4>1. e = drive[v] /\ e.lane # i /\ e.lane \in Lanes /\ RowsAsHeld(v, e)
        BY <1>5, <1>9, <2>1, <3>2 DEF RowsInv, Lane
      <4>2. TodoAsHeld(e)'
        BY <1>8, <3>2, <4>1 DEF RowsAsHeld, TodoAsHeld
      <4>3. QED BY <1>2, <1>7, <1>8, <3>2, <4>1, <4>2 DEF RowsAsHeld, Fence
    <3>3. CASE v # w /\ e.pc = "idle"
      BY <3>3 DEF RowsAsHeld
    <3>4. QED BY <3>1, <3>2, <3>3
  <2>3. QED BY <2>1, <2>2 DEF RowsAsHeld, Fence, TodoAsHeld, RepoTargets
<1>12. ASSUME NEW j \in Lanes PROVE RowInv(j)'
  <2>1. status'[j] \in InFlight => \E v \in Sessions : drive'[v].pc # "idle" /\ drive'[v].lane = j
    <3>1. CASE j = i
      BY <1>4, <3>1
    <3>2. CASE j # i /\ status'[j] \in InFlight
      <4>1. PICK v \in Sessions : drive[v].pc # "idle" /\ Lane(v) = j
        BY <1>7, <3>2 DEF RowsInv, RowInv
      <4>2. QED BY <1>2, <1>5, <4>1 DEF Lane, At
    <3>3. QED BY <3>1, <3>2
  <2>2. QED BY <1>7, <1>8, <2>1 DEF RowsInv, RowInv, Lane
<1>13. QED BY <1>10, <1>11, <1>12 DEF RowsInv

(* The splice of a new lane.                                                *)
LEMMA SpliceHolds ==
  ASSUME DrainInv, RowsInv, NEW i \in Lanes, Splice(i)
  PROVE  RowsInv'
<1>1. /\ status' = [status EXCEPT ![i] = "queued"]
      /\ target' = [target EXCEPT ![i] = [r \in Repos |-> IF r \in ReposOf[i] THEN "pending" ELSE "none"]]
      /\ UNCHANGED <<lease, pre_apply_head, lock, drive>> /\ i \notin Present
  BY LanesAssumption DEF Splice, Enqueue
<1>2. status[i] = "none" /\ status \in [Lanes -> Statuses] /\ target \in [Lanes -> [Repos -> TargetStatuses]]
  BY <1>1 DEF Present, DrainInv, StoreInv, TypeOK
<1>3. RepoTargets(i)' \subseteq ReposOf[i]
  BY <1>1, <1>2 DEF RepoTargets
<1>4. \A j \in Lanes \ {i} : status'[j] = status[j] /\ target'[j] = target[j] /\ RepoTargets(j)' = RepoTargets(j)
  BY <1>1, <1>2 DEF RepoTargets
<1>5. \A r \in Repos : pre_apply_head[i][r] = NoCommit
  BY <1>2 DEF RowsInv, RowInv
<1>6. ASSUME NEW v \in Sessions PROVE RowsAsHeld(v, drive[v])'
  <2>1. PICK e : e = drive[v]
    OBVIOUS
  <2>2. RowsAsHeld(v, e) /\ drive'[v] = e
    BY <1>1, <2>1 DEF RowsInv
  <2>3. CASE e.pc # "idle"
    <3>1. e.lane \in Lanes /\ e.lane # i
      BY <1>2, <2>1, <2>3, HolderIsCurrent DEF At, Lane, StatusOf
    <3>2. TodoAsHeld(e)'
      BY <1>4, <2>2, <2>3, <3>1 DEF RowsAsHeld, TodoAsHeld
    <3>3. RowsAsHeld(v, e)'
      BY <1>1, <1>4, <2>2, <2>3, <3>1, <3>2 DEF RowsAsHeld, Fence, lease
    <3>4. QED BY <2>2, <3>3 DEF RowsAsHeld, Fence, TodoAsHeld, RepoTargets
  <2>4. CASE e.pc = "idle"
    BY <2>2, <2>4 DEF RowsAsHeld
  <2>5. QED BY <2>3, <2>4
<1>7. ASSUME NEW j \in Lanes PROVE RowInv(j)'
  <2>1. CASE j = i
    <3>1. status'[i] = "queued" /\ \A r \in Repos : target'[i][r] \in {"none", "pending"}
      BY <1>1, <1>2
    <3>2. QED BY <1>1, <1>3, <1>5, <2>1, <3>1 DEF RowInv, RowsInv, InFlight, RecoverableStatuses, lease
  <2>2. CASE j # i
    BY <1>1, <1>4, <2>2 DEF RowInv, RowsInv, lease, Lane
  <2>3. QED BY <2>1, <2>2
<1>8. OneHolder'
  BY <1>1 DEF RowsInv, OneHolder, Lane
<1>9. QED BY <1>6, <1>7, <1>8 DEF RowsInv

(* Nothing to recover, and no incident.                                     *)
LEMMA NothingToRecover ==
  ASSUME FairWeather, DrainInv, RowsInv
  PROVE  /\ \A w \in Sessions : ~DrainRecover(w) /\ ~RecoverRepo(w) /\ ~RecoverResetFails(w)
                                /\ ~RecoverFinish(w) /\ ~DatabaseFault(w) /\ ~Crash(w)
         /\ \A i \in Lanes : ~LeaseRunsOut(i)
<1>1. ASSUME NEW w \in Sessions PROVE ~DrainRecover(w)
  BY DEF DrainRecover, RecoverExpired, Recoverable, RowsInv, RowInv
<1>2. ASSUME NEW w \in Sessions PROVE ~RecoverRepo(w) /\ ~RecoverResetFails(w) /\ ~RecoverFinish(w)
  BY DEF RecoverRepo, RecoverResetFails, RecoverFinish, RowsInv, RowsAsHeld, At
<1>3. ASSUME NEW w \in Sessions PROVE ~DatabaseFault(w) /\ ~Crash(w)
  BY DEF DatabaseFault, Crash, FairWeather, DrainInv, DrainTypeOK, PlacesTypeOK
<1>4. ASSUME NEW i \in Lanes PROVE ~LeaseRunsOut(i)
  BY DEF LeaseRunsOut, LeaseExpires, FairWeather, RowsInv, RowInv, InFlight, Lane
<1>5. QED BY <1>1, <1>2, <1>3, <1>4

(* apply_candidate.                                                         *)
LEMMA ApplyHolds ==
  ASSUME DrainInv, RowsInv, NEW w \in Sessions, Apply(w)
  PROVE  RowsInv'
<1>1. ~At(w, "idle")
  BY DEF Apply, At, InputsMismatch, LockForApply, BaselineDirty, StartApply, RecordPreApply,
         ApplyPatch, PatchRefused, RecordApplied, FinishApply, RollbackAll
<1>2. PICK i \in Lanes : i = Lane(w)
  BY <1>1, Token
<1>3. PICK c : c = drive[w]
  OBVIOUS
<1>4. /\ c \in Drives /\ i = c.lane /\ c.pc # "idle" /\ drive \in [Sessions -> Drives]
      /\ ~Fenced(w) /\ status[i] = StatusOf(c) /\ TodoAsHeld(c)
      /\ (Locked(c) => lock = w) /\ RepoTargets(i) \subseteq Repos
      /\ \A r \in RepoTargets(i) : RowAsHeld(c, r, target[i][r])
  BY <1>1, <1>2, <1>3, Token, HolderIsCurrent DEF At, Lane, DrainInv, DrainTypeOK
<1>5. NoSession \notin Sessions
  BY DrainAssumption
<1>6. CASE InputsMismatch(w)
  <2>1. PICK d : d = [c EXCEPT !.pc = "failing", !.cause = "inputs"]
    OBVIOUS
  <2>2. drive' = [drive EXCEPT ![w] = d] /\ c.pc = "claimed" /\ UNCHANGED <<storeVars, lock>>
    BY <1>3, <1>6, <2>1 DEF InputsMismatch, At
  <2>3. d.pc = "failing" /\ d.cause = "inputs" /\ d.lane = i /\ d.todo = c.todo /\ d.version = c.version
    BY <1>4, <2>1 DEF Drives
  <2>4. StatusOf(d) = StatusOf(c) /\ ~Locked(d) /\ TodoAsHeld(d)
    BY <1>4, <2>2, <2>3 DEF StatusOf, Waits, Locked, TodoAsHeld
  <2>5. \A r \in RepoTargets(i) : RowAsHeld(d, r, target[i][r])
    BY <2>3 DEF RowAsHeld, Patched
  <2>6. QED BY <1>1, <1>2, <1>3, <2>2, <2>3, <2>4, <2>5, LocalStepHolds
<1>7. CASE LockForApply(w)
  <2>1. PICK d : d = [c EXCEPT !.pc = "baseline"]
    OBVIOUS
  <2>2. drive' = [drive EXCEPT ![w] = d] /\ c.pc = "claimed" /\ UNCHANGED storeVars
        /\ lock = NoSession /\ lock' = w
    BY <1>3, <1>7, <2>1 DEF LockForApply, At, Goto
  <2>3. d.pc = "baseline" /\ d.lane = i /\ d.todo = c.todo /\ d.version = c.version
    BY <1>4, <2>1 DEF Drives
  <2>4. StatusOf(d) = StatusOf(c) /\ TodoAsHeld(d)
    BY <1>4, <2>2, <2>3 DEF StatusOf, Waits, TodoAsHeld
  <2>5. \A r \in RepoTargets(i) : RowAsHeld(d, r, target[i][r])
    BY <1>4, <2>2, <2>3 DEF RowAsHeld, Patched
  <2>6. QED BY <1>1, <1>2, <1>3, <1>5, <2>2, <2>3, <2>4, <2>5, LocalStepHolds
<1>8. CASE BaselineDirty(w)
  <2>1. PICK d : d = [c EXCEPT !.pc = "failing", !.cause = "baseline"]
    OBVIOUS
  <2>2. drive' = [drive EXCEPT ![w] = d] /\ c.pc = "baseline" /\ UNCHANGED <<storeVars, lock>>
    BY <1>3, <1>8, <2>1 DEF BaselineDirty, At
  <2>3. d.pc = "failing" /\ d.cause = "baseline" /\ d.lane = i /\ d.todo = c.todo /\ d.version = c.version
    BY <1>4, <2>1 DEF Drives
  <2>4. StatusOf(d) = StatusOf(c) /\ ~Locked(d) /\ TodoAsHeld(d)
    BY <1>4, <2>2, <2>3 DEF StatusOf, Waits, Locked, TodoAsHeld
  <2>5. \A r \in RepoTargets(i) : RowAsHeld(d, r, target[i][r])
    BY <2>3 DEF RowAsHeld, Patched
  <2>6. QED BY <1>1, <1>2, <1>3, <2>2, <2>3, <2>4, <2>5, LocalStepHolds
<1>9. CASE StartApply(w)
  <2>1. PICK d : d = [c EXCEPT !.pc = "apply", !.todo = RepoTargets(i)]
    OBVIOUS
  <2>2. c.pc = "baseline" /\ lock = w /\ status[i] = "leased"
    BY <1>3, <1>4, <1>9 DEF StartApply, At, Locked, StatusOf, Waits
  <2>3. Move(w, "applying", {}) /\ drive' = [drive EXCEPT ![w] = d] /\ UNCHANGED lock
    BY <1>2, <1>3, <1>4, <1>9, <2>1, <2>2 DEF StartApply, MoveRefused, LeaseTransitions
  <2>4. d.pc = "apply" /\ d.lane = i /\ d.todo = RepoTargets(i) /\ d.version = c.version
    BY <1>4, <2>1 DEF Drives
  <2>5. StatusOf(d) = "applying" /\ TodoAsHeld(d)
    BY <2>4 DEF StatusOf, Waits, Applying, TodoAsHeld
  <2>6. \A r \in RepoTargets(i) : RowAsHeld(d, r, target[i][r])
    BY <1>4, <2>2, <2>4 DEF RowAsHeld, Patched
  <2>7. QED BY <1>1, <1>2, <1>3, <2>2, <2>3, <2>4, <2>5, <2>6, MoveHolds
<1>10. CASE RecordPreApply(w)
  <2>1. c.pc = "apply" /\ lock = w
    BY <1>3, <1>4, <1>10 DEF RecordPreApply, At, Locked
  <2>2. PICK r \in c.todo : \/ /\ Advance(w, r, "pre_apply_recorded", head[r])
                               /\ drive' = [drive EXCEPT ![w].pc = "patch", ![w].repo = r]
                               /\ UNCHANGED lock
                            \/ AdvanceRefused(w, r, "pre_apply_recorded")
    BY <1>3, <1>10 DEF RecordPreApply
  <2>3. r \in RepoTargets(i) /\ r \in Repos /\ target[i][r] = "pending"
    BY <1>4, <2>1 DEF TodoAsHeld, RowAsHeld
  <2>4. ~AdvanceRefused(w, r, "pre_apply_recorded")
    BY <1>2, <1>4, <2>3 DEF AdvanceRefused, RepoTargetTransitions
  <2>5. PICK d : d = [c EXCEPT !.pc = "patch", !.repo = r]
    OBVIOUS
  <2>6. drive' = [drive EXCEPT ![w] = d]
    BY <1>3, <2>2, <2>4, <2>5
  <2>7. d.pc = "patch" /\ d.repo = r /\ d.lane = i /\ d.todo = c.todo /\ d.version = c.version
    BY <1>4, <2>5 DEF Drives
  <2>8. StatusOf(d) = StatusOf(c) /\ TodoAsHeld(d)
    BY <1>4, <2>1, <2>7 DEF StatusOf, Waits, Applying, TodoAsHeld
  <2>9. RowAsHeld(d, r, "pre_apply_recorded")
        /\ \A q \in RepoTargets(i) \ {r} : RowAsHeld(d, q, target[i][q])
    BY <1>4, <2>1, <2>7 DEF RowAsHeld, Patched
  <2>10. QED
    BY <1>1, <1>2, <1>3, <2>1, <2>2, <2>3, <2>4, <2>6, <2>7, <2>8, <2>9, AdvanceHolds
<1>11. CASE ApplyPatch(w)
  <2>1. PICK d : d = [c EXCEPT !.pc = "patched"]
    OBVIOUS
  <2>2. drive' = [drive EXCEPT ![w] = d] /\ c.pc = "patch" /\ UNCHANGED <<storeVars, lock>> /\ lock = w
    BY <1>3, <1>4, <1>11, <2>1 DEF ApplyPatch, At, Goto, Locked
  <2>3. d.pc = "patched" /\ d.lane = i /\ d.todo = c.todo /\ d.version = c.version /\ d.repo = c.repo
    BY <1>4, <2>1 DEF Drives
  <2>4. StatusOf(d) = StatusOf(c) /\ TodoAsHeld(d)
    BY <1>4, <2>2, <2>3 DEF StatusOf, Waits, Applying, TodoAsHeld
  <2>5. \A r \in RepoTargets(i) : RowAsHeld(d, r, target[i][r])
    BY <1>4, <2>2, <2>3 DEF RowAsHeld, Patched
  <2>6. QED BY <1>1, <1>2, <1>3, <2>2, <2>3, <2>4, <2>5, LocalStepHolds
<1>12. CASE PatchRefused(w)
  <2>1. PICK d : d = [c EXCEPT !.pc = "rollback", !.cause = "conflict"]
    OBVIOUS
  <2>2. drive' = [drive EXCEPT ![w] = d] /\ c.pc = "patch" /\ UNCHANGED <<storeVars, lock>> /\ lock = w
    BY <1>3, <1>4, <1>12, <2>1 DEF PatchRefused, At, Locked
  <2>3. d.pc = "rollback" /\ d.cause = "conflict" /\ d.lane = i /\ d.todo = c.todo
        /\ d.version = c.version /\ d.repo = c.repo
    BY <1>4, <2>1 DEF Drives
  <2>4. StatusOf(d) = StatusOf(c) /\ TodoAsHeld(d)
    BY <1>4, <2>2, <2>3 DEF StatusOf, Waits, Applying, TodoAsHeld
  <2>5. \A r \in RepoTargets(i) : RowAsHeld(d, r, target[i][r])
    BY <1>4, <2>2, <2>3 DEF RowAsHeld, Patched
  <2>6. QED BY <1>1, <1>2, <1>3, <2>2, <2>3, <2>4, <2>5, LocalStepHolds
<1>13. CASE RecordApplied(w)
  <2>1. c.pc = "patched" /\ lock = w /\ c.repo \in c.todo /\ c.repo \in RepoTargets(i) /\ c.repo \in Repos
        /\ target[i][c.repo] = "pre_apply_recorded"
    BY <1>3, <1>4, <1>13 DEF RecordApplied, At, Locked, TodoAsHeld, RowAsHeld
  <2>2. ~AdvanceRefused(w, c.repo, "applied")
    BY <1>2, <1>4, <2>1 DEF AdvanceRefused, RepoTargetTransitions
  <2>3. PICK d : d = [c EXCEPT !.todo = c.todo \ {c.repo},
                               !.pc = IF c.todo = {c.repo} THEN "applied" ELSE "apply"]
    OBVIOUS
  <2>4. Advance(w, c.repo, "applied", head[c.repo]) /\ drive' = [drive EXCEPT ![w] = d] /\ UNCHANGED lock
    BY <1>3, <1>13, <2>2, <2>3 DEF RecordApplied
  <2>5. d.pc = (IF c.todo = {c.repo} THEN "applied" ELSE "apply")
        /\ d.lane = i /\ d.todo = c.todo \ {c.repo} /\ d.version = c.version
    BY <1>4, <2>3 DEF Drives
  <2>6. StatusOf(d) = StatusOf(c) /\ TodoAsHeld(d)
    BY <1>4, <2>1, <2>5 DEF StatusOf, Waits, Applying, TodoAsHeld
  <2>7. RowAsHeld(d, c.repo, "applied")
        /\ \A q \in RepoTargets(i) \ {c.repo} : RowAsHeld(d, q, target[i][q])
    BY <1>4, <2>1, <2>5 DEF RowAsHeld, Patched
  <2>8. d.pc \notin {"idle", "recovering"}
    BY <2>5
  <2>9. QED BY <1>1, <1>2, <1>3, <2>1, <2>4, <2>5, <2>6, <2>7, <2>8, AdvanceHolds
<1>14. CASE FinishApply(w)
  <2>1. c.pc = "applied" /\ lock = w /\ status[i] = "applying"
    BY <1>3, <1>4, <1>14 DEF FinishApply, At, Locked, StatusOf, Waits, Applying
  <2>2. PICK d : d = [c EXCEPT !.pc = "reload_gates"]
    OBVIOUS
  <2>3. Move(w, "verifying", {}) /\ drive' = [drive EXCEPT ![w] = d]
    BY <1>2, <1>3, <1>4, <1>14, <2>1, <2>2 DEF FinishApply, MoveRefused, LeaseTransitions, Goto
  <2>4. d.pc = "reload_gates" /\ d.lane = i /\ d.todo = c.todo /\ d.version = c.version
    BY <1>4, <2>2 DEF Drives
  <2>5. StatusOf(d) = "verifying" /\ TodoAsHeld(d) /\ ~Locked(d)
    BY <1>4, <2>4 DEF StatusOf, Waits, Applying, Verifying, TodoAsHeld, Locked
  <2>6. \A r \in RepoTargets(i) : RowAsHeld(d, r, target[i][r])
    BY <1>4, <2>1, <2>4 DEF RowAsHeld, Patched
  <2>7. QED BY <1>1, <1>2, <1>3, <2>1, <2>3, <2>4, <2>5, <2>6, MoveHolds
<1>15. CASE RollbackAll(w)
  <2>1. PICK d : d = [c EXCEPT !.pc = "failing"]
    OBVIOUS
  <2>2. drive' = [drive EXCEPT ![w] = d] /\ c.pc = "rollback" /\ UNCHANGED <<storeVars, lock>>
        /\ c.cause = "conflict"
    BY <1>3, <1>4, <1>15, <2>1 DEF RollbackAll, At, Goto, TodoAsHeld
  <2>3. d.pc = "failing" /\ d.cause = "conflict" /\ d.lane = i /\ d.todo = c.todo /\ d.version = c.version
    BY <1>4, <2>1, <2>2 DEF Drives
  <2>4. StatusOf(d) = StatusOf(c) /\ TodoAsHeld(d) /\ ~Locked(d)
    BY <1>4, <2>2, <2>3 DEF StatusOf, Waits, Applying, TodoAsHeld, Locked
  <2>5. \A r \in RepoTargets(i) : RowAsHeld(d, r, target[i][r])
    BY <2>3 DEF RowAsHeld, Patched
  <2>6. QED BY <1>1, <1>2, <1>3, <2>2, <2>3, <2>4, <2>5, LocalStepHolds
<1>16. QED
  BY <1>6, <1>7, <1>8, <1>9, <1>10, <1>11, <1>12, <1>13, <1>14, <1>15 DEF Apply

(* The drain reads the row again: nobody took the lane over meanwhile.      *)
LEMMA ReloadHolds ==
  ASSUME DrainInv, RowsInv, NEW w \in Sessions,
         NEW from, NEW to, Reload(w, from, to),
         <<from, to>> \in {<<"reload_gates", "gates">>, <<"reload_commit", "commit_lock">>,
                           <<"reload_integrate", "integrate">>}
  PROVE  RowsInv'
<1>1. drive[w].pc = from /\ ~At(w, "idle") /\ UNCHANGED <<storeVars, lock>>
  BY DEF Reload, At
<1>2. PICK i \in Lanes : i = Lane(w)
  BY <1>1, Token
<1>3. PICK c : c = drive[w]
  OBVIOUS
<1>4. /\ c \in Drives /\ i = c.lane /\ TodoAsHeld(c) /\ c.version = lease_version[i]
      /\ \A r \in RepoTargets(i) : RowAsHeld(c, r, target[i][r])
  BY <1>1, <1>2, <1>3, Token, HolderIsCurrent DEF Lane, Fenced, Fence
<1>5. PICK d : d = [c EXCEPT !.pc = to, !.version = c.version]
  OBVIOUS
<1>6. drive' = [drive EXCEPT ![w] = d]
  BY <1>2, <1>3, <1>4, <1>5 DEF Reload
<1>7. d.pc = to /\ d.lane = i /\ d.todo = c.todo /\ d.version = c.version /\ d.cause = c.cause
  BY <1>4, <1>5 DEF Drives
<1>8. StatusOf(d) = StatusOf(c) /\ TodoAsHeld(d) /\ ~Locked(d) /\ d.pc \notin {"idle", "recovering"}
  BY <1>1, <1>3, <1>4, <1>7 DEF StatusOf, Waits, Applying, Verifying, TodoAsHeld, Locked
<1>9. \A r \in RepoTargets(i) : RowAsHeld(d, r, target[i][r])
  BY <1>1, <1>3, <1>4, <1>7 DEF RowAsHeld, Patched
<1>10. QED BY <1>1, <1>2, <1>3, <1>6, <1>7, <1>8, <1>9, LocalStepHolds

(* run_required_gates.                                                      *)
LEMMA VerifyHolds ==
  ASSUME DrainInv, RowsInv, NEW w \in Sessions, Verify(w)
  PROVE  RowsInv'
<1>1. CASE Reload(w, "reload_gates", "gates")
  BY <1>1, ReloadHolds
<1>2. CASE GatesApprove(w) \/ GatesReject(w) \/ ResetAfterGates(w)
  <2>1. ~At(w, "idle")
    BY <1>2 DEF At, GatesApprove, GatesReject, ResetAfterGates
  <2>2. PICK i \in Lanes : i = Lane(w)
    BY <2>1, Token
  <2>3. PICK c : c = drive[w]
    OBVIOUS
  <2>4. /\ c \in Drives /\ i = c.lane /\ c.pc # "idle"
        /\ ~Fenced(w) /\ status[i] = StatusOf(c) /\ TodoAsHeld(c)
        /\ \A r \in RepoTargets(i) : RowAsHeld(c, r, target[i][r])
    BY <2>1, <2>2, <2>3, Token, HolderIsCurrent DEF At, Lane
  <2>5. CASE GatesApprove(w)
    <3>1. c.pc = "gates" /\ status[i] = "verifying"
      BY <2>3, <2>4, <2>5 DEF GatesApprove, At, StatusOf, Waits, Applying, Verifying
    <3>2. PICK d : d = [c EXCEPT !.pc = "reload_commit"]
      OBVIOUS
    <3>3. Move(w, "committing", {}) /\ drive' = [drive EXCEPT ![w] = d] /\ UNCHANGED lock
      BY <2>2, <2>3, <2>4, <2>5, <3>1, <3>2 DEF GatesApprove, MoveRefused, LeaseTransitions, Goto
    <3>4. d.pc = "reload_commit" /\ d.lane = i /\ d.todo = c.todo /\ d.version = c.version
      BY <2>4, <3>2 DEF Drives
    <3>5. StatusOf(d) = "committing" /\ TodoAsHeld(d) /\ ~Locked(d)
      BY <2>4, <3>4 DEF StatusOf, Waits, Applying, Verifying, TodoAsHeld, Locked
    <3>6. \A r \in RepoTargets(i) : RowAsHeld(d, r, target[i][r])
      BY <2>4, <3>1, <3>4 DEF RowAsHeld, Patched
    <3>7. QED BY <2>1, <2>2, <2>3, <3>3, <3>4, <3>5, <3>6, MoveHolds
  <2>6. CASE GatesReject(w)
    <3>1. PICK d : d = [c EXCEPT !.pc = "gate_reset", !.cause = "gates"]
      OBVIOUS
    <3>2. c.pc = "gates" /\ drive' = [drive EXCEPT ![w] = d] /\ UNCHANGED <<storeVars, lock>>
      BY <2>3, <2>6, <3>1 DEF GatesReject, At
    <3>3. d.pc = "gate_reset" /\ d.cause = "gates" /\ d.lane = i /\ d.todo = c.todo /\ d.version = c.version
      BY <2>4, <3>1 DEF Drives
    <3>4. StatusOf(d) = StatusOf(c) /\ TodoAsHeld(d) /\ ~Locked(d)
      BY <2>4, <3>2, <3>3 DEF StatusOf, Waits, Applying, Verifying, TodoAsHeld, Locked
    <3>5. \A r \in RepoTargets(i) : RowAsHeld(d, r, target[i][r])
      BY <2>4, <3>2, <3>3 DEF RowAsHeld, Patched
    <3>6. QED BY <2>1, <2>2, <2>3, <3>2, <3>3, <3>4, <3>5, LocalStepHolds
  <2>7. CASE ResetAfterGates(w)
    <3>1. PICK d : d = [c EXCEPT !.pc = "failing"]
      OBVIOUS
    <3>2. /\ c.pc = "gate_reset" /\ c.cause = "gates" /\ drive' = [drive EXCEPT ![w] = d]
          /\ UNCHANGED <<storeVars, lock>>
      BY <2>3, <2>4, <2>7, <3>1 DEF ResetAfterGates, At, Goto, TodoAsHeld
    <3>3. d.pc = "failing" /\ d.cause = "gates" /\ d.lane = i /\ d.todo = c.todo /\ d.version = c.version
      BY <2>4, <3>1, <3>2 DEF Drives
    <3>4. StatusOf(d) = StatusOf(c) /\ TodoAsHeld(d) /\ ~Locked(d)
      BY <2>4, <3>2, <3>3 DEF StatusOf, Waits, Applying, Verifying, TodoAsHeld, Locked
    <3>5. \A r \in RepoTargets(i) : RowAsHeld(d, r, target[i][r])
      BY <3>3 DEF RowAsHeld, Patched
    <3>6. QED BY <2>1, <2>2, <2>3, <3>2, <3>3, <3>4, <3>5, LocalStepHolds
  <2>8. QED BY <1>2, <2>5, <2>6, <2>7
<1>3. QED BY <1>1, <1>2 DEF Verify

(* _fail: nothing it calls is refused.                                      *)
LEMMA FailHolds ==
  ASSUME DrainInv, RowsInv, NEW w \in Sessions, FailTarget(w) \/ FailLane(w)
  PROVE  RowsInv'
<1>1. drive[w].pc = "failing" /\ ~At(w, "idle")
  BY DEF FailTarget, FailLane, At
<1>2. PICK i \in Lanes : i = Lane(w)
  BY <1>1, Token
<1>3. PICK c : c = drive[w]
  OBVIOUS
<1>4. /\ c \in Drives /\ i = c.lane /\ c.pc = "failing" /\ drive \in [Sessions -> Drives]
      /\ ~Fenced(w) /\ status[i] = StatusOf(c) /\ TodoAsHeld(c)
      /\ target \in [Lanes -> [Repos -> TargetStatuses]] /\ RepoTargets(i) \subseteq Repos
  BY <1>1, <1>2, <1>3, Token, HolderIsCurrent DEF Lane, DrainInv, DrainTypeOK
<1>5. CASE FailTarget(w)
  <2>1. PICK r \in Unsettled(i) : \/ Advance(w, r, "failed", NoCommit) /\ UNCHANGED <<lock, drive>>
                                  \/ AdvanceRefused(w, r, "failed")
    BY <1>2, <1>5 DEF FailTarget
  <2>2. r \in RepoTargets(i) /\ r \in Repos /\ target[i][r] \in {"pending", "pre_apply_recorded", "applied", "committed"}
    BY <1>4, <2>1 DEF Unsettled, RepoTargets, TargetStatuses
  <2>3. ~AdvanceRefused(w, r, "failed")
    BY <1>2, <1>4, <2>2 DEF AdvanceRefused, RepoTargetTransitions
  <2>4. drive' = [drive EXCEPT ![w] = c] /\ UNCHANGED lock /\ Advance(w, r, "failed", NoCommit)
    BY <1>3, <1>4, <2>1, <2>3
  <2>5. ~Locked(c) /\ RowAsHeld(c, r, "failed") /\ \A q \in RepoTargets(i) : RowAsHeld(c, q, target[i][q])
    BY <1>4 DEF Locked, RowAsHeld, Patched
  <2>6. QED BY <1>1, <1>2, <1>3, <1>4, <2>2, <2>4, <2>5, AdvanceHolds
<1>6. CASE FailLane(w)
  <2>1. status[i] \in {"leased", "applying", "verifying", "committing"}
    BY <1>4 DEF StatusOf
  <2>2. ~MoveRefused(w, "failed")
    BY <1>2, <1>4, <2>1 DEF MoveRefused, LeaseTransitions
  <2>3. PICK d : d = Idle
    OBVIOUS
  <2>4. Move(w, "failed", {}) /\ drive' = [drive EXCEPT ![w] = d] /\ Release(w)
    BY <1>6, <2>2, <2>3 DEF FailLane, GoIdle
  <2>5. \A v \in Sessions \ {w} : lock = v => lock' = v
    BY <2>4 DEF Release
  <2>6. d.pc = "idle" /\ "failed" \notin InFlight
    BY <2>3 DEF Idle, InFlight, RecoverableStatuses
  <2>7. QED BY <1>1, <1>2, <2>4, <2>5, <2>6, MoveHolds
<1>7. QED BY <1>5, <1>6

(* commit_and_prove_clean, and mark_integrated.                             *)
LEMMA CommitHolds ==
  ASSUME DrainInv, RowsInv, NEW w \in Sessions, Commit(w)
  PROVE  RowsInv'
<1>1. CASE Reload(w, "reload_commit", "commit_lock") \/ Reload(w, "reload_integrate", "integrate")
  BY <1>1, ReloadHolds
<1>2. CASE \/ LockForCommit(w) \/ GitCommit(w) \/ CommitRejected(w) \/ ResetUncommitted(w)
           \/ ReadCommit(w) \/ RecordCommitted(w) \/ DirtyAfterCommit(w) \/ ProveClean(w) \/ MarkIntegrated(w)
  <2>1. ~At(w, "idle")
    BY <1>2 DEF At, LockForCommit, GitCommit, CommitRejected, ResetUncommitted, ReadCommit,
                RecordCommitted, DirtyAfterCommit, ProveClean, MarkIntegrated
  <2>2. PICK i \in Lanes : i = Lane(w)
    BY <2>1, Token
  <2>3. PICK c : c = drive[w]
    OBVIOUS
  <2>4. /\ c \in Drives /\ i = c.lane /\ c.pc # "idle"
        /\ ~Fenced(w) /\ status[i] = StatusOf(c) /\ TodoAsHeld(c)
        /\ (Locked(c) => lock = w) /\ RepoTargets(i) \subseteq Repos
        /\ \A r \in RepoTargets(i) : RowAsHeld(c, r, target[i][r])
    BY <2>1, <2>2, <2>3, Token, HolderIsCurrent DEF At, Lane
  <2>5. NoSession \notin Sessions
    BY DrainAssumption
  <2>6. CASE LockForCommit(w)
    <3>1. PICK d : d = [c EXCEPT !.pc = "commit", !.todo = RepoTargets(i)]
      OBVIOUS
    <3>2. /\ c.pc = "commit_lock" /\ drive' = [drive EXCEPT ![w] = d] /\ UNCHANGED storeVars
          /\ lock = NoSession /\ lock' = w
      BY <2>2, <2>3, <2>6, <3>1 DEF LockForCommit, At
    <3>3. d.pc = "commit" /\ d.lane = i /\ d.todo = RepoTargets(i) /\ d.version = c.version
      BY <2>4, <3>1 DEF Drives
    <3>4. StatusOf(d) = StatusOf(c) /\ TodoAsHeld(d)
      BY <2>4, <3>2, <3>3 DEF StatusOf, Waits, Applying, Verifying, TodoAsHeld
    <3>5. \A r \in RepoTargets(i) : RowAsHeld(d, r, target[i][r])
      BY <2>4, <3>2, <3>3 DEF RowAsHeld, Patched
    <3>6. QED BY <2>1, <2>2, <2>3, <2>5, <3>2, <3>3, <3>4, <3>5, LocalStepHolds
  <2>7. CASE GitCommit(w)
    <3>1. c.pc = "commit" /\ lock = w /\ UNCHANGED <<storeVars, lock>>
      BY <2>3, <2>4, <2>7 DEF GitCommit, At, Locked
    <3>2. PICK r \in c.todo :
            drive' = [drive EXCEPT ![w].pc = "made", ![w].repo = r, ![w].todo = @ \ {r}]
      BY <2>3, <2>7 DEF GitCommit
    <3>3. PICK d : d = [c EXCEPT !.pc = "made", !.repo = r, !.todo = c.todo \ {r}]
      OBVIOUS
    <3>4. drive' = [drive EXCEPT ![w] = d]
      BY <2>3, <3>2, <3>3
    <3>5. /\ d.pc = "made" /\ d.lane = i /\ d.todo = c.todo \ {r} /\ d.repo = r
          /\ d.version = c.version
      BY <2>4, <3>3 DEF Drives
    <3>6. StatusOf(d) = StatusOf(c) /\ TodoAsHeld(d)
      BY <2>4, <3>1, <3>2, <3>5 DEF StatusOf, Waits, Applying, Verifying, TodoAsHeld
    <3>7. \A q \in RepoTargets(i) : RowAsHeld(d, q, target[i][q])
      BY <2>4, <3>1, <3>2, <3>5 DEF RowAsHeld, Patched
    <3>8. QED BY <2>1, <2>2, <2>3, <3>1, <3>4, <3>5, <3>6, <3>7, LocalStepHolds
  <2>8. CASE CommitRejected(w)
    <3>1. PICK d : d = [c EXCEPT !.pc = "hook_reset", !.cause = "commit_hygiene"]
      OBVIOUS
    <3>2. /\ c.pc = "commit" /\ lock = w /\ drive' = [drive EXCEPT ![w] = d]
          /\ UNCHANGED <<storeVars, lock>>
      BY <2>3, <2>4, <2>8, <3>1 DEF CommitRejected, At, Locked
    <3>3. d.pc = "hook_reset" /\ d.cause = "commit_hygiene" /\ d.lane = i /\ d.todo = c.todo
          /\ d.version = c.version
      BY <2>4, <3>1 DEF Drives
    <3>4. StatusOf(d) = StatusOf(c) /\ TodoAsHeld(d)
      BY <2>4, <3>2, <3>3 DEF StatusOf, Waits, Applying, Verifying, TodoAsHeld
    <3>5. \A q \in RepoTargets(i) : RowAsHeld(d, q, target[i][q])
      BY <3>3 DEF RowAsHeld, Patched
    <3>6. QED BY <2>1, <2>2, <2>3, <3>2, <3>3, <3>4, <3>5, LocalStepHolds
  <2>9. CASE ResetUncommitted(w)
    <3>1. PICK d : d = [c EXCEPT !.pc = "failing"]
      OBVIOUS
    <3>2. /\ c.pc = "hook_reset" /\ c.cause = "commit_hygiene" /\ drive' = [drive EXCEPT ![w] = d]
          /\ UNCHANGED <<storeVars, lock>>
      BY <2>3, <2>4, <2>9, <3>1 DEF ResetUncommitted, At, Goto, TodoAsHeld
    <3>3. d.pc = "failing" /\ d.cause = "commit_hygiene" /\ d.lane = i /\ d.todo = c.todo
          /\ d.version = c.version
      BY <2>4, <3>1, <3>2 DEF Drives
    <3>4. StatusOf(d) = StatusOf(c) /\ TodoAsHeld(d) /\ ~Locked(d)
      BY <2>4, <3>2, <3>3 DEF StatusOf, Waits, Applying, Verifying, TodoAsHeld, Locked
    <3>5. \A q \in RepoTargets(i) : RowAsHeld(d, q, target[i][q])
      BY <3>3 DEF RowAsHeld, Patched
    <3>6. QED BY <2>1, <2>2, <2>3, <3>2, <3>3, <3>4, <3>5, LocalStepHolds
  <2>10. CASE RecordCommitted(w)
    <3>1. /\ c.pc = "committed" /\ lock = w /\ c.repo \in RepoTargets(i) \ c.todo /\ c.repo \in Repos
          /\ target[i][c.repo] = "applied"
      BY <2>3, <2>4, <2>10 DEF RecordCommitted, At, Locked, TodoAsHeld, RowAsHeld
    <3>2. ~AdvanceRefused(w, c.repo, "committed")
      BY <2>2, <2>4, <3>1 DEF AdvanceRefused, RepoTargetTransitions
    <3>3. PICK d : d = [c EXCEPT !.pc = "prove_clean"]
      OBVIOUS
    <3>4. /\ Advance(w, c.repo, "committed", c.made) /\ drive' = [drive EXCEPT ![w] = d]
          /\ UNCHANGED lock
      BY <2>3, <2>10, <3>2, <3>3 DEF RecordCommitted, Goto
    <3>5. d.pc = "prove_clean" /\ d.lane = i /\ d.todo = c.todo /\ d.repo = c.repo /\ d.version = c.version
      BY <2>4, <3>3 DEF Drives
    <3>6. StatusOf(d) = StatusOf(c) /\ TodoAsHeld(d)
      BY <2>4, <3>1, <3>5 DEF StatusOf, Waits, Applying, Verifying, TodoAsHeld
    <3>7. RowAsHeld(d, c.repo, "committed")
          /\ \A q \in RepoTargets(i) \ {c.repo} : RowAsHeld(d, q, target[i][q])
      BY <2>4, <3>1, <3>5 DEF RowAsHeld, Patched
    <3>8. QED BY <2>1, <2>2, <2>3, <3>1, <3>4, <3>5, <3>6, <3>7, AdvanceHolds
  <2>11. CASE DirtyAfterCommit(w)
    <3>1. PICK d : d = [c EXCEPT !.pc = "failing", !.cause = "dirty"]
      OBVIOUS
    <3>2. /\ c.pc = "prove_clean" /\ drive' = [drive EXCEPT ![w] = d]
          /\ UNCHANGED <<storeVars, lock>>
      BY <2>3, <2>11, <3>1 DEF DirtyAfterCommit, At
    <3>3. d.pc = "failing" /\ d.cause = "dirty" /\ d.lane = i /\ d.todo = c.todo
          /\ d.version = c.version /\ d.repo = c.repo
      BY <2>4, <3>1 DEF Drives
    <3>4. StatusOf(d) = StatusOf(c) /\ TodoAsHeld(d) /\ ~Locked(d)
      BY <2>4, <3>2, <3>3 DEF StatusOf, Waits, Applying, Verifying, TodoAsHeld, Locked
    <3>5. \A q \in RepoTargets(i) : RowAsHeld(d, q, target[i][q])
      BY <3>3 DEF RowAsHeld, Patched
    <3>6. QED BY <2>1, <2>2, <2>3, <3>2, <3>3, <3>4, <3>5, LocalStepHolds
  <2>12. CASE ProveClean(w)
    <3>1. /\ c.pc = "prove_clean" /\ lock = w /\ c.repo \in RepoTargets(i) \ c.todo /\ c.repo \in Repos
          /\ target[i][c.repo] = "committed"
      BY <2>3, <2>4, <2>12 DEF ProveClean, At, Locked, TodoAsHeld, RowAsHeld
    <3>2. ~AdvanceRefused(w, c.repo, "clean")
      BY <2>2, <2>4, <3>1 DEF AdvanceRefused, RepoTargetTransitions
    <3>3. PICK d : d = [c EXCEPT !.pc = IF c.todo = {} THEN "reload_integrate" ELSE "commit"]
      OBVIOUS
    <3>4. /\ Advance(w, c.repo, "clean", NoCommit) /\ drive' = [drive EXCEPT ![w] = d]
          /\ lock' = IF c.todo = {} THEN NoSession ELSE lock
      BY <2>3, <2>12, <3>2, <3>3 DEF ProveClean, Goto
    <3>5. /\ d.pc = IF c.todo = {} THEN "reload_integrate" ELSE "commit"
          /\ d.lane = i /\ d.todo = c.todo /\ d.version = c.version
      BY <2>4, <3>3 DEF Drives
    <3>6. /\ StatusOf(d) = StatusOf(c) /\ TodoAsHeld(d) /\ (Locked(d) => lock' = w)
          /\ d.pc \notin {"idle", "recovering"}
      BY <2>4, <3>1, <3>4, <3>5 DEF StatusOf, Waits, Applying, Verifying, TodoAsHeld, Locked
    <3>7. RowAsHeld(d, c.repo, "clean")
          /\ \A q \in RepoTargets(i) \ {c.repo} : RowAsHeld(d, q, target[i][q])
      BY <2>4, <3>1, <3>5 DEF RowAsHeld, Patched
    <3>8. QED BY <2>1, <2>2, <2>3, <3>1, <3>4, <3>5, <3>6, <3>7, AdvanceHolds
  <2>13. CASE MarkIntegrated(w)
    <3>1. c.pc = "integrate" /\ status[i] = "committing"
      BY <2>3, <2>4, <2>13 DEF MarkIntegrated, At, StatusOf, Waits, Applying, Verifying
    <3>2. ~MoveRefused(w, "integrated")
      BY <2>2, <2>4, <3>1 DEF MoveRefused, LeaseTransitions
    <3>3. PICK d : d = Idle
      OBVIOUS
    <3>4. PICK C : C = {target_commit[i][r] : r \in RepoTargets(i)}
      OBVIOUS
    <3>5. Move(w, "integrated", C) /\ drive' = [drive EXCEPT ![w] = d] /\ UNCHANGED lock
      BY <2>2, <2>13, <3>2, <3>3, <3>4 DEF MarkIntegrated, GoIdle
    <3>6. d.pc = "idle" /\ "integrated" \notin InFlight
      BY <3>3 DEF Idle, InFlight, RecoverableStatuses
    <3>7. QED BY <2>1, <2>2, <3>5, <3>6, MoveHolds
  <2>14. CASE ReadCommit(w)
    <3>1. PICK d : d = [c EXCEPT !.pc = "committed", !.made = head[c.repo]]
      OBVIOUS
    <3>2. /\ c.pc = "made" /\ lock = w /\ drive' = [drive EXCEPT ![w] = d]
          /\ UNCHANGED <<storeVars, lock>>
      BY <2>3, <2>4, <2>14, <3>1 DEF ReadCommit, At, Locked
    <3>3. /\ d.pc = "committed" /\ d.lane = i /\ d.todo = c.todo /\ d.repo = c.repo
          /\ d.version = c.version
      BY <2>4, <3>1 DEF Drives
    <3>4. StatusOf(d) = StatusOf(c) /\ TodoAsHeld(d)
      BY <2>4, <3>2, <3>3 DEF StatusOf, Waits, Applying, Verifying, TodoAsHeld
    <3>5. \A q \in RepoTargets(i) : RowAsHeld(d, q, target[i][q])
      BY <2>4, <3>2, <3>3 DEF RowAsHeld, Patched
    <3>6. QED BY <2>1, <2>2, <2>3, <3>2, <3>3, <3>4, <3>5, LocalStepHolds
  <2>15. QED BY <1>2, <2>6, <2>7, <2>8, <2>9, <2>10, <2>11, <2>12, <2>13, <2>14
<1>3. QED BY <1>1, <1>2 DEF Commit

(* The rows and the sessions at the start, ...                              *)
LEMMA RowsStart == DrainInit => RowsInv
<1>. SUFFICES ASSUME DrainInit PROVE RowsInv
  OBVIOUS
<1>1. \A w \in Sessions : drive[w].pc = "idle"
  BY DEF DrainInit, Idle
<1>2. \A i \in Lanes : status[i] = "none" /\ ~expired[i] /\ RepoTargets(i) = {}
                       /\ \A r \in Repos : target[i][r] = "none" /\ pre_apply_head[i][r] = NoCommit
  BY DEF DrainInit, StoreInit, RepoTargets
<1>3. QED BY <1>1, <1>2 DEF RowsInv, RowsAsHeld, RowInv, OneHolder, InFlight, RecoverableStatuses

(* ... and through every step.                                              *)
LEMMA RowsHold == FairWeather /\ DrainInv /\ RowsInv /\ [DrainNext]_vars => RowsInv'
<1>. SUFFICES ASSUME FairWeather, DrainInv, RowsInv, [DrainNext]_vars PROVE RowsInv'
  OBVIOUS
<1>1. CASE UNCHANGED vars
  BY <1>1 DEF vars, storeVars, ledger, lease, RowsInv, RowsAsHeld, RowInv, OneHolder, Fence, TodoAsHeld,
              RepoTargets, Lane
<1>2. CASE DrainNext
  BY <1>2, NothingToRecover, SpliceHolds, ClaimHolds, ApplyHolds, VerifyHolds, CommitHolds, FailHolds
     DEF DrainNext, DrainStep
<1>3. QED BY <1>1, <1>2

(* What a session writes to the rows: its own lane, or one target of it.    *)
OwnRow(w) ==
  \/ UNCHANGED storeVars
  \/ \E to, C : Move(w, to, C)
  \/ \E to, c : \E r \in Repos : Advance(w, r, to, c) /\ (to = "pre_apply_recorded" => c = head[r])

(* A step of one session writes no row but its lane's, and adds no target.  *)
LEMMA OneRowAtATime ==
  ASSUME DrainInv, RowsInv, NEW w \in Sessions, ~At(w, "idle"), NEW i \in Lanes, i = Lane(w),
         OwnRow(w)
  PROVE  /\ \A j \in Lanes \ {i} : status'[j] = status[j] /\ pre_apply_head'[j] = pre_apply_head[j]
         /\ \A j \in Lanes : RepoTargets(j)' = RepoTargets(j)
         /\ status'[i] \notin {"none", "queued"}
         /\ \A r \in Repos : pre_apply_head'[i][r] \in {pre_apply_head[i][r], head[r]}
<1>1. status[i] \notin {"none", "queued"}
  BY HolderIsCurrent DEF StatusOf
<1>2. CASE UNCHANGED storeVars
  BY <1>1, <1>2 DEF storeVars, ledger, RepoTargets
<1>3. ASSUME NEW to, NEW C, Move(w, to, C)
      PROVE  /\ \A j \in Lanes \ {i} : status'[j] = status[j] /\ pre_apply_head'[j] = pre_apply_head[j]
             /\ \A j \in Lanes : RepoTargets(j)' = RepoTargets(j)
             /\ status'[i] \notin {"none", "queued"}
             /\ \A q \in Repos : pre_apply_head'[i][q] \in {pre_apply_head[i][q], head[q]}
  BY <1>3 DEF Move, Transition, LeaseTransitions, ledger, RepoTargets, DrainInv, StoreInv, TypeOK
<1>4. ASSUME NEW r \in Repos, NEW to, NEW c, Advance(w, r, to, c),
             to = "pre_apply_recorded" => c = head[r]
      PROVE  /\ \A j \in Lanes \ {i} : status'[j] = status[j] /\ pre_apply_head'[j] = pre_apply_head[j]
             /\ \A j \in Lanes : RepoTargets(j)' = RepoTargets(j)
             /\ status'[i] \notin {"none", "queued"}
             /\ \A q \in Repos : pre_apply_head'[i][q] \in {pre_apply_head[i][q], head[q]}
  <2>1. /\ target' = [target EXCEPT ![i][r] = to] /\ UNCHANGED status
        /\ \A j \in Lanes \ {i} : pre_apply_head'[j] = pre_apply_head[j]
        /\ \A q \in Repos : pre_apply_head'[i][q] \in {pre_apply_head[i][q], head[q]}
        /\ to # "none" /\ target[i][r] # "none"
        /\ target \in [Lanes -> [Repos -> TargetStatuses]]
    BY <1>4 DEF Advance, AdvanceRepoTarget, RepoTargetTransitions, DrainInv, StoreInv, TypeOK
  <2>2. \A j \in Lanes, q \in Repos : target'[j][q] = IF j = i /\ q = r THEN to ELSE target[j][q]
    BY <2>1
  <2>3. QED BY <1>1, <2>1, <2>2 DEF RepoTargets
<1>5. QED BY <1>2, <1>3, <1>4 DEF OwnRow

(* No two sessions reckon with the same worktree.                           *)
LEMMA TouchesAlone ==
  ASSUME DrainInv, RowsInv, TreesInv, NEW v \in Sessions, NEW w \in Sessions, v # w,
         drive[v].pc # "idle", drive[w].pc # "idle", NEW r \in Repos, Touches(drive[v], r)
  PROVE  ~Touches(drive[w], r)
<1>1. PICK c : c = drive[v]
  OBVIOUS
<1>2. PICK d : d = drive[w]
  OBVIOUS
<1>3. /\ c.lane # d.lane /\ c.lane \in Lanes /\ d.lane \in Lanes /\ Residue \notin Lanes
      /\ ~(Locked(c) /\ Locked(d)) /\ c.pc # "idle" /\ d.pc # "idle"
  BY <1>1, <1>2, HolderIsCurrent, DrainAssumption DEF RowsInv, OneHolder, Lane, At
<1>4. TreeAsHeld(c) /\ TreeAsHeld(d)
  BY <1>1, <1>2 DEF TreesInv
<1>5. /\ Clear(c, r) \/ Mixed(c, r) => Locked(c)
      /\ Clear(d, r) \/ Mixed(d, r) => Locked(d)
  BY DEF Clear, Mixed, Locked
<1>6. /\ Own(c, r) => worktree[r] = {c.lane}
      /\ Own(d, r) => worktree[r] = {d.lane}
      /\ Clear(c, r) \/ Mixed(c, r) => d.lane \notin worktree[r]
      /\ Clear(d, r) \/ Mixed(d, r) => c.lane \notin worktree[r]
  BY <1>3, <1>4 DEF TreeAsHeld
<1>7. ~(Touches(c, r) /\ Touches(d, r))
  BY <1>3, <1>5, <1>6 DEF Touches
<1>8. QED BY <1>1, <1>2, <1>7

(* A step of one session leaves to the others what they know of the         *)
(* repositories.                                                            *)
LEMMA OthersKnow ==
  ASSUME DrainInv, RowsInv, TreesInv, NEW w \in Sessions, ~At(w, "idle"), NEW i \in Lanes, i = Lane(w),
         NEW d, drive' = [drive EXCEPT ![w] = d],
         OwnRow(w),
         \A r \in Repos :
           \/ worktree'[r] = worktree[r] /\ head'[r] = head[r]
           \/ Touches(drive[w], r) /\ worktree'[r] \subseteq {i, Residue},
         TreeAsHeld(d)'
  PROVE  TreesInv'
<1>1. /\ \A j \in Lanes \ {i} : status'[j] = status[j] /\ pre_apply_head'[j] = pre_apply_head[j]
      /\ \A j \in Lanes : RepoTargets(j)' = RepoTargets(j)
      /\ status'[i] \notin {"none", "queued"} /\ Residue \notin Lanes /\ drive \in [Sessions -> Drives]
  BY OneRowAtATime, DrainAssumption DEF DrainInv, DrainTypeOK
<1>2. ASSUME NEW v \in Sessions PROVE TreeAsHeld(drive[v])'
  <2>1. PICK e : e = drive'[v]
    OBVIOUS
  <2>2. CASE v = w
    <3>1. e = d
      BY <1>1, <2>1, <2>2
    <3>2. QED BY <2>1, <3>1 DEF TreeAsHeld, Own, RepoTargets
  <2>3. CASE v # w /\ e.pc # "idle"
    <3>1. e = drive[v] /\ e.lane # i /\ e.lane \in Lanes /\ TreeAsHeld(e)
      BY <1>1, <2>1, <2>3, HolderIsCurrent DEF RowsInv, OneHolder, Lane, At, TreesInv
    <3>2. RepoTargets(e.lane)' = RepoTargets(e.lane) /\ pre_apply_head'[e.lane] = pre_apply_head[e.lane]
      BY <1>1, <3>1
    <3>3. \A r \in Repos : Own(e, r)' <=> Own(e, r)
      BY <3>2 DEF Own
    <3>4. ASSUME NEW r \in Repos
          PROVE  /\ Own(e, r) => worktree'[r] = {e.lane}
                 /\ Clear(e, r) => worktree'[r] = {}
                 /\ Mixed(e, r) => worktree'[r] \subseteq {e.lane, Residue}
                 /\ ~Own(e, r) /\ ~Mixed(e, r) => e.lane \notin worktree'[r]
                 /\ Own(e, r) \/ Mixed(e, r) \/ (e.pc = "patch" /\ r = e.repo) =>
                      head'[r] = pre_apply_head'[e.lane][r]
      <4>1. CASE worktree'[r] = worktree[r] /\ head'[r] = head[r]
        BY <2>3, <3>1, <3>2, <4>1 DEF TreeAsHeld
      <4>2. CASE Touches(drive[w], r) /\ worktree'[r] \subseteq {i, Residue}
        <5>1. ~Touches(e, r)
          BY <2>3, <3>1, <4>2, TouchesAlone DEF At
        <5>2. e.pc = "patch" /\ r = e.repo => Clear(e, r)
          BY <2>3, <3>1 DEF Clear, RowsInv, RowsAsHeld, TodoAsHeld
        <5>3. QED BY <1>1, <3>1, <4>2, <5>1, <5>2 DEF Touches
      <4>3. QED BY <4>1, <4>2
    <3>5. TreeAsHeld(e)'
      BY <3>3, <3>4 DEF TreeAsHeld, Clear, Mixed
    <3>6. QED BY <2>1, <3>5 DEF TreeAsHeld, Own, RepoTargets
  <2>4. CASE e.pc = "idle"
    BY <2>1, <2>4 DEF TreeAsHeld
  <2>5. QED BY <2>2, <2>3, <2>4
<1>3. ASSUME NEW r \in Repos, NEW j \in worktree'[r] \cap Lanes PROVE status'[j] \notin {"none", "queued"}
  BY <1>1 DEF TreesInv
<1>4. QED BY <1>2, <1>3 DEF TreesInv

(* A step that leaves the repositories alone.                               *)
LEMMA GroundKept ==
  ASSUME DrainInv, RowsInv, TreesInv, NEW w \in Sessions, ~At(w, "idle"), NEW i \in Lanes, i = Lane(w),
         NEW c, c = drive[w], NEW d, drive' = [drive EXCEPT ![w] = d], UNCHANGED git, OwnRow(w),
         \/ d.pc = "idle"
         \/ /\ d.lane = i
            /\ \A r \in Repos :
                 /\ Own(d, r) => Own(c, r)
                 /\ Clear(d, r) => Clear(c, r) \/ worktree[r] = {}
                 /\ Mixed(d, r) => Own(c, r) \/ Mixed(c, r)
                 /\ Own(c, r) \/ Mixed(c, r) => Own(d, r) \/ Mixed(d, r)
            /\ d.pc = "patch" => head[d.repo] = pre_apply_head'[i][d.repo]
  PROVE  TreesInv'
<1>1. /\ RepoTargets(i)' = RepoTargets(i) /\ UNCHANGED <<worktree, head>>
      /\ \A r \in Repos : pre_apply_head'[i][r] \in {pre_apply_head[i][r], head[r]}
  BY OneRowAtATime DEF git
<1>2. TreeAsHeld(c) /\ c.lane = i /\ c.pc # "idle"
  BY DEF TreesInv, Lane, At
<1>3. TreeAsHeld(d)'
  <2>1. CASE d.pc = "idle"
    BY <2>1 DEF TreeAsHeld
  <2>2. CASE d.pc # "idle"
    <3>1. \A r \in Repos : Own(d, r)' <=> Own(d, r)
      BY <1>1, <2>2 DEF Own
    <3>2. ASSUME NEW r \in Repos
          PROVE  /\ Own(d, r) => worktree[r] = {i}
                 /\ Clear(d, r) => worktree[r] = {}
                 /\ Mixed(d, r) => worktree[r] \subseteq {i, Residue}
                 /\ ~Own(d, r) /\ ~Mixed(d, r) => i \notin worktree[r]
                 /\ Own(d, r) \/ Mixed(d, r) \/ (d.pc = "patch" /\ r = d.repo) =>
                      head[r] = pre_apply_head'[i][r]
      BY <1>1, <1>2, <2>2 DEF TreeAsHeld
    <3>3. QED BY <1>1, <2>2, <3>1, <3>2 DEF TreeAsHeld, Clear, Mixed
  <2>3. QED BY <2>1, <2>2
<1>4. QED BY <1>1, <1>3, OthersKnow

(* In fair weather a git reset finds HEAD where the pre-apply head says: it *)
(* takes nothing but the lane's own patch away.                             *)
LEMMA ResetKeepsHeads ==
  ASSUME DrainInv, RowsInv, TreesInv, NEW w \in Sessions, ~At(w, "idle"), NEW i \in Lanes, i = Lane(w),
         NEW c, c = drive[w], NEW R \in SUBSET Repos, ResetTo(i, R),
         \A r \in R : pre_apply_head[i][r] # NoCommit => Own(c, r) \/ Mixed(c, r),
         \A r \in Repos \ R : ~Own(c, r) /\ ~Mixed(c, r)
  PROVE  \A r \in Repos :
           /\ head'[r] = head[r] /\ i \notin worktree'[r]
           /\ worktree'[r] = worktree[r] \/ (Touches(c, r) /\ worktree'[r] \subseteq {i, Residue})
<1>1. TreeAsHeld(c) /\ c.lane = i /\ c.pc # "idle" /\ i # Residue
  BY DrainAssumption DEF TreesInv, Lane, At
<1>2. SUFFICES ASSUME NEW r \in Repos
               PROVE  /\ head'[r] = head[r] /\ i \notin worktree'[r]
                      /\ worktree'[r] = worktree[r] \/ (Touches(c, r) /\ worktree'[r] \subseteq {i, Residue})
  OBVIOUS
<1>3. Own(c, r) \/ Mixed(c, r) => head[r] = pre_apply_head[i][r] /\ pre_apply_head[i][r] # NoCommit
  <2>1. head[r] \in Commits
    BY CommitsAssumption DEF DrainInv, DrainTypeOK, PlacesTypeOK
  <2>2. QED BY <1>1, <2>1, NullsAssumption DEF TreeAsHeld
<1>4. CASE Own(c, r) \/ Mixed(c, r)
  <2>1. head'[r] = head[r] /\ worktree'[r] = worktree[r] \cap {Residue}
    BY <1>3, <1>4 DEF ResetTo
  <2>2. QED BY <1>1, <1>4, <2>1 DEF Touches
<1>5. CASE ~Own(c, r) /\ ~Mixed(c, r)
  <2>1. head'[r] = head[r] /\ worktree'[r] = worktree[r]
    BY <1>5 DEF ResetTo
  <2>2. QED BY <1>1, <1>5, <2>1 DEF TreeAsHeld
<1>6. QED BY <1>4, <1>5

(* No reset of a rollback fails.                                            *)
LEMMA NothingFails ==
  ASSUME FairWeather, DrainInv, NEW w, NEW R, Undo(w, R)
  PROVE  ResetTo(Lane(w), R)
BY DEF FairWeather, DrainInv, DrainTypeOK, PlacesTypeOK, Undo

(* The three places that reset, ...                                         *)
LEMMA ResetStep ==
  ASSUME FairWeather, DrainInv, RowsInv, TreesInv, NEW w \in Sessions,
         RollbackAll(w) \/ ResetAfterGates(w) \/ ResetUncommitted(w)
  PROVE  TreesInv' /\ UNCHANGED head
<1>1. drive[w].pc \in {"rollback", "gate_reset", "hook_reset"} /\ ~At(w, "idle")
  BY DEF RollbackAll, ResetAfterGates, ResetUncommitted, At
<1>2. PICK i \in Lanes : i = Lane(w)
  BY <1>1, Token
<1>3. PICK c : c = drive[w]
  OBVIOUS
<1>4. /\ c \in Drives /\ i = c.lane /\ c.pc = drive[w].pc /\ TodoAsHeld(c)
      /\ RepoTargets(i) \subseteq Repos
      /\ \A r \in RepoTargets(i) : RowAsHeld(c, r, target[i][r])
      /\ \A r \in Repos : target[i][r] \in {"none", "pending"} => pre_apply_head[i][r] = NoCommit
  BY <1>1, <1>2, <1>3, Token, HolderIsCurrent DEF Lane, RowsInv, RowInv
<1>5. PICK R \in SUBSET RepoTargets(i) :
        R = IF c.pc = "hook_reset" THEN c.todo ELSE RepoTargets(i)
  BY <1>4 DEF TodoAsHeld
<1>6. ResetTo(i, R) /\ UNCHANGED storeVars /\ Goto(w, "failing")
  BY <1>1, <1>2, <1>3, <1>4, <1>5, NothingFails
     DEF RollbackAll, ResetAfterGates, ResetUncommitted, At
<1>7. \A r \in R : pre_apply_head[i][r] # NoCommit => Own(c, r) \/ Mixed(c, r)
  <2>1. SUFFICES ASSUME NEW r \in R, pre_apply_head[i][r] # NoCommit PROVE Own(c, r) \/ Mixed(c, r)
    OBVIOUS
  <2>2. r \in RepoTargets(i) /\ RowAsHeld(c, r, target[i][r]) /\ target[i][r] # "pending"
    BY <1>4, <2>1
  <2>3. CASE c.pc = "rollback"
    BY <1>4, <2>2, <2>3 DEF RowAsHeld, Own, Mixed
  <2>4. CASE c.pc = "gate_reset"
    BY <1>4, <2>2, <2>4 DEF Own, Patched
  <2>5. CASE c.pc = "hook_reset"
    BY <1>5, <2>5 DEF Mixed
  <2>6. QED BY <1>1, <1>4, <2>3, <2>4, <2>5
<1>8. \A r \in Repos \ R : ~Own(c, r) /\ ~Mixed(c, r)
  BY <1>1, <1>4, <1>5 DEF Own, Mixed, Patched, TodoAsHeld
<1>9. \A r \in Repos :
        /\ head'[r] = head[r] /\ i \notin worktree'[r]
        /\ worktree'[r] = worktree[r] \/ (Touches(c, r) /\ worktree'[r] \subseteq {i, Residue})
  <2>1. R \in SUBSET Repos
    BY <1>4
  <2>2. QED BY <1>1, <1>2, <1>3, <1>6, <1>7, <1>8, <2>1, ResetKeepsHeads
<1>10. PICK d : d = [c EXCEPT !.pc = "failing"]
  OBVIOUS
<1>11. drive' = [drive EXCEPT ![w] = d] /\ d.pc = "failing" /\ d.lane = i /\ d.cause = c.cause
  BY <1>3, <1>4, <1>6, <1>10 DEF Goto, Drives
<1>12. d.cause # "dirty"
  BY <1>1, <1>4, <1>11 DEF TodoAsHeld
<1>13. TreeAsHeld(d)'
  <2>1. \A r \in Repos : ~Own(d, r)' /\ ~Clear(d, r) /\ ~Mixed(d, r)
    BY <1>11, <1>12 DEF Own, Clear, Mixed, Patched
  <2>2. QED BY <1>9, <1>11, <2>1 DEF TreeAsHeld, Clear, Mixed
<1>14. TreesInv'
  BY <1>1, <1>2, <1>3, <1>6, <1>9, <1>11, <1>13, OthersKnow DEF OwnRow
<1>15. UNCHANGED head
  BY <1>6, <1>9 DEF ResetTo, DrainInv, DrainTypeOK, PlacesTypeOK
<1>16. QED BY <1>14, <1>15

(* ... and the steps that change the worktree in hand: the patch goes in,   *)
(* whole or in part, is committed, or a hook leaves a file beside it.       *)
LEMMA PatchStep ==
  ASSUME DrainInv, RowsInv, TreesInv, NEW w \in Sessions, ApplyPatch(w) \/ PatchRefused(w)
  PROVE  TreesInv' /\ UNCHANGED head
<1>1. drive[w].pc = "patch" /\ ~At(w, "idle") /\ UNCHANGED <<storeVars, head>>
  BY DEF ApplyPatch, PatchRefused, At
<1>2. PICK i \in Lanes : i = Lane(w)
  BY <1>1, Token
<1>3. PICK c : c = drive[w]
  OBVIOUS
<1>4. /\ c \in Drives /\ i = c.lane /\ c.pc = "patch" /\ c.repo \in c.todo /\ TreeAsHeld(c)
      /\ c.repo \in RepoTargets(i) /\ c.repo \in Repos /\ worktree \in [Repos -> SUBSET (Lanes \cup {Residue})]
  BY <1>1, <1>2, <1>3, Token, HolderIsCurrent
     DEF Lane, TodoAsHeld, TreesInv, DrainInv, DrainTypeOK, PlacesTypeOK
<1>5. Clear(c, c.repo) /\ worktree[c.repo] = {}
  BY <1>4 DEF Clear, TreeAsHeld
<1>6. \A r \in Repos : worktree'[r] = worktree[r] \/ (r = c.repo /\ worktree'[r] \subseteq {i, Residue})
  BY <1>2, <1>3, <1>4, <1>5 DEF ApplyPatch, PatchRefused
<1>7. PICK d : d = IF ApplyPatch(w) THEN [c EXCEPT !.pc = "patched"]
                   ELSE [c EXCEPT !.pc = "rollback", !.cause = "conflict"]
  OBVIOUS
<1>8. /\ drive' = [drive EXCEPT ![w] = d]
      /\ d.lane = i /\ d.todo = c.todo /\ d.repo = c.repo
      /\ \/ d.pc = "patched" /\ worktree' = [worktree EXCEPT ![c.repo] = worktree[c.repo] \cup {i}]
         \/ d.pc = "rollback"
  BY <1>2, <1>3, <1>4, <1>7 DEF ApplyPatch, PatchRefused, Goto, Drives
<1>9. (RepoTargets(i) = RepoTargets(i)') /\ UNCHANGED <<head, pre_apply_head>>
  BY <1>1 DEF storeVars, ledger, RepoTargets
<1>10. TreeAsHeld(d)'
  <2>1. ASSUME NEW r \in Repos \ {c.repo}
        PROVE  /\ Own(d, r) <=> Own(c, r)
               /\ Clear(d, r) <=> Clear(c, r)
               /\ ~Mixed(d, r) /\ ~Mixed(c, r) /\ worktree'[r] = worktree[r]
    BY <1>4, <1>6, <1>8 DEF Own, Clear, Mixed, Patched
  <2>2. /\ d.pc = "patched" => /\ Own(d, c.repo) /\ ~Clear(d, c.repo) /\ ~Mixed(d, c.repo)
                               /\ worktree'[c.repo] = {i}
        /\ d.pc = "rollback" => /\ ~Own(d, c.repo) /\ ~Clear(d, c.repo) /\ Mixed(d, c.repo)
                                /\ worktree'[c.repo] \subseteq {i, Residue}
    BY <1>4, <1>5, <1>6, <1>8 DEF Own, Clear, Mixed, Patched
  <2>3. head[c.repo] = pre_apply_head[i][c.repo]
    BY <1>4 DEF TreeAsHeld
  <2>4. \A r \in Repos : Own(d, r)' <=> Own(d, r)
    BY <1>8, <1>9 DEF Own
  <2>5. ASSUME NEW r \in Repos
        PROVE  /\ Own(d, r) => worktree'[r] = {i}
               /\ Clear(d, r) => worktree'[r] = {}
               /\ Mixed(d, r) => worktree'[r] \subseteq {i, Residue}
               /\ ~Own(d, r) /\ ~Mixed(d, r) => i \notin worktree'[r]
               /\ Own(d, r) \/ Mixed(d, r) => head[r] = pre_apply_head[i][r]
    <3>1. CASE r = c.repo
      BY <1>8, <2>2, <2>3, <3>1
    <3>2. CASE r # c.repo
      BY <1>4, <2>1, <3>2 DEF TreeAsHeld
    <3>3. QED BY <3>1, <3>2
  <2>6. QED BY <1>8, <1>9, <2>4, <2>5 DEF TreeAsHeld, Clear, Mixed
<1>11. \A r \in Repos : \/ worktree'[r] = worktree[r] /\ head'[r] = head[r]
                        \/ Touches(c, r) /\ worktree'[r] \subseteq {i, Residue}
  BY <1>1, <1>5, <1>6 DEF Touches
<1>12. QED BY <1>1, <1>2, <1>3, <1>8, <1>10, <1>11, OthersKnow DEF OwnRow

(* A commit takes the lane's own patch, all of it and nothing else.         *)
LEMMA CommitStep ==
  ASSUME DrainInv, RowsInv, TreesInv, NEW w \in Sessions, GitCommit(w)
  PROVE  /\ TreesInv'
         /\ \E r \in Repos : head' = [head EXCEPT ![r] = Append(@, <<Lane(w), {Lane(w)}>>)]
<1>1. drive[w].pc = "commit" /\ ~At(w, "idle") /\ UNCHANGED storeVars
  BY DEF GitCommit, At
<1>2. PICK i \in Lanes : i = Lane(w)
  BY <1>1, Token
<1>3. PICK c : c = drive[w]
  OBVIOUS
<1>4. /\ c \in Drives /\ i = c.lane /\ c.pc = "commit" /\ c.todo \subseteq RepoTargets(i)
      /\ RepoTargets(i) \subseteq Repos /\ TreeAsHeld(c) /\ i # Residue
      /\ worktree \in [Repos -> SUBSET (Lanes \cup {Residue})] /\ head \in [Repos -> History]
  BY <1>1, <1>2, <1>3, Token, HolderIsCurrent, DrainAssumption
     DEF Lane, TodoAsHeld, TreesInv, DrainInv, DrainTypeOK, PlacesTypeOK
<1>5. PICK r \in c.todo :
        /\ head' = [head EXCEPT ![r] = Append(@, <<i, worktree[r]>>)]
        /\ worktree' \in {[worktree EXCEPT ![r] = {}], [worktree EXCEPT ![r] = {Residue}]}
        /\ drive' = [drive EXCEPT ![w].pc = "made", ![w].repo = r, ![w].todo = @ \ {r}]
  BY <1>2, <1>3 DEF GitCommit
<1>6. r \in Repos /\ r \in RepoTargets(i) /\ Own(c, r) /\ worktree[r] = {i}
  BY <1>4, <1>5 DEF Own, TreeAsHeld
<1>7. PICK d : d = [c EXCEPT !.pc = "made", !.repo = r, !.todo = c.todo \ {r}]
  OBVIOUS
<1>8. /\ drive' = [drive EXCEPT ![w] = d]
      /\ d.pc = "made" /\ d.lane = i /\ d.todo = c.todo \ {r} /\ d.repo = r
  BY <1>3, <1>4, <1>5, <1>7 DEF Drives
<1>9. /\ \A q \in Repos \ {r} : worktree'[q] = worktree[q] /\ head'[q] = head[q]
      /\ worktree'[r] \subseteq {Residue}
  BY <1>4, <1>5, <1>6
<1>10. RepoTargets(i)' = RepoTargets(i) /\ UNCHANGED pre_apply_head
  BY <1>1 DEF storeVars, ledger, RepoTargets
<1>11. TreeAsHeld(d)'
  <2>1. \A q \in Repos : Own(d, q)' <=> q \in c.todo \ {r}
    BY <1>4, <1>8, <1>10 DEF Own, Patched
  <2>2. \A q \in Repos : ~Clear(d, q) /\ ~Mixed(d, q) /\ (Own(c, q) <=> q \in c.todo) /\ ~Mixed(c, q)
    BY <1>4, <1>8 DEF Own, Clear, Mixed, Patched
  <2>3. ASSUME NEW q \in Repos
        PROVE  /\ q \in c.todo \ {r} => worktree'[q] = {i} /\ head'[q] = pre_apply_head[i][q]
               /\ q \notin c.todo \ {r} => i \notin worktree'[q]
    <3>1. CASE q = r
      BY <1>4, <1>9, <3>1
    <3>2. CASE q # r
      BY <1>4, <1>9, <2>2, <3>2 DEF TreeAsHeld
    <3>3. QED BY <3>1, <3>2
  <2>4. QED BY <1>8, <1>10, <2>1, <2>2, <2>3 DEF TreeAsHeld, Clear, Mixed
<1>12. \A q \in Repos : \/ worktree'[q] = worktree[q] /\ head'[q] = head[q]
                        \/ Touches(c, q) /\ worktree'[q] \subseteq {i, Residue}
  BY <1>6, <1>9 DEF Touches
<1>13. TreesInv'
  BY <1>1, <1>2, <1>3, <1>8, <1>11, <1>12, OthersKnow DEF OwnRow
<1>14. QED BY <1>2, <1>5, <1>6, <1>13

(* A rejected commit leaves the repository to the reset that follows.       *)
LEMMA HookStep ==
  ASSUME DrainInv, RowsInv, TreesInv, NEW w \in Sessions, CommitRejected(w)
  PROVE  TreesInv' /\ UNCHANGED head
<1>1. drive[w].pc = "commit" /\ ~At(w, "idle") /\ UNCHANGED <<storeVars, head>>
  BY DEF CommitRejected, At
<1>2. PICK i \in Lanes : i = Lane(w)
  BY <1>1, Token
<1>3. PICK c : c = drive[w]
  OBVIOUS
<1>4. /\ c \in Drives /\ i = c.lane /\ c.pc = "commit" /\ c.todo \subseteq RepoTargets(i)
      /\ RepoTargets(i) \subseteq Repos /\ TreeAsHeld(c) /\ i # Residue
      /\ worktree \in [Repos -> SUBSET (Lanes \cup {Residue})]
  BY <1>1, <1>2, <1>3, Token, HolderIsCurrent, DrainAssumption
     DEF Lane, TodoAsHeld, TreesInv, DrainInv, DrainTypeOK, PlacesTypeOK
<1>5. PICK r \in c.todo : worktree' \in {worktree, [worktree EXCEPT ![r] = @ \cup {Residue}]}
  BY <1>3 DEF CommitRejected
<1>6. PICK d : d = [c EXCEPT !.pc = "hook_reset", !.cause = "commit_hygiene"]
  OBVIOUS
<1>7. /\ drive' = [drive EXCEPT ![w] = d]
      /\ d.pc = "hook_reset" /\ d.lane = i /\ d.todo = c.todo
  BY <1>3, <1>4, <1>6 DEF Drives, CommitRejected
<1>8. RepoTargets(i)' = RepoTargets(i) /\ UNCHANGED pre_apply_head
  BY <1>1 DEF storeVars, ledger, RepoTargets
<1>9. \A q \in Repos : /\ (Own(c, q) <=> q \in c.todo) /\ ~Mixed(c, q)
                       /\ ~Own(d, q)' /\ ~Clear(d, q) /\ (Mixed(d, q) <=> q \in c.todo)
  BY <1>4, <1>7 DEF Own, Clear, Mixed, Patched
<1>10. ASSUME NEW q \in Repos
       PROVE  /\ q \in c.todo => /\ worktree'[q] \subseteq {i, Residue}
                                 /\ head[q] = pre_apply_head[i][q]
              /\ q \notin c.todo => i \notin worktree'[q] /\ worktree'[q] = worktree[q]
  <2>1. worktree'[q] = worktree[q] \/ (q = r /\ worktree'[q] = worktree[q] \cup {Residue})
    BY <1>4, <1>5
  <2>2. QED BY <1>4, <1>5, <1>9, <2>1 DEF TreeAsHeld
<1>11. TreeAsHeld(d)'
  BY <1>1, <1>7, <1>8, <1>9, <1>10 DEF TreeAsHeld, Clear, Mixed
<1>12. \A q \in Repos : \/ worktree'[q] = worktree[q] /\ head'[q] = head[q]
                        \/ Touches(c, q) /\ worktree'[q] \subseteq {i, Residue}
  BY <1>1, <1>9, <1>10 DEF Touches
<1>13. QED BY <1>1, <1>2, <1>3, <1>7, <1>11, <1>12, OthersKnow DEF OwnRow

(* The steps of apply and gates that leave the repositories alone.          *)
LEMMA ApplyGround ==
  ASSUME DrainInv, RowsInv, TreesInv, NEW w \in Sessions,
         \/ InputsMismatch(w) \/ LockForApply(w) \/ BaselineDirty(w) \/ StartApply(w)
         \/ RecordPreApply(w) \/ RecordApplied(w) \/ FinishApply(w)
  PROVE  TreesInv' /\ UNCHANGED head
<1>1. ~At(w, "idle")
  BY DEF At, InputsMismatch, LockForApply, BaselineDirty, StartApply, RecordPreApply,
         RecordApplied, FinishApply
<1>2. PICK i \in Lanes : i = Lane(w)
  BY <1>1, Token
<1>3. PICK c : c = drive[w]
  OBVIOUS
<1>4. /\ c \in Drives /\ i = c.lane /\ c.pc # "idle"
      /\ ~Fenced(w) /\ status[i] = StatusOf(c) /\ TodoAsHeld(c) /\ RepoTargets(i) \subseteq Repos
      /\ \A r \in RepoTargets(i) : RowAsHeld(c, r, target[i][r])
  BY <1>1, <1>2, <1>3, Token, HolderIsCurrent DEF At, Lane
<1>5. CASE InputsMismatch(w) \/ LockForApply(w) \/ BaselineDirty(w)
  <2>1. PICK d : d = IF InputsMismatch(w) THEN [c EXCEPT !.pc = "failing", !.cause = "inputs"]
                     ELSE IF LockForApply(w) THEN [c EXCEPT !.pc = "baseline"]
                     ELSE [c EXCEPT !.pc = "failing", !.cause = "baseline"]
    OBVIOUS
  <2>2. drive' = [drive EXCEPT ![w] = d] /\ UNCHANGED storeVars /\ UNCHANGED git
        /\ c.pc \in {"claimed", "baseline"}
    BY <1>3, <1>5, <2>1 DEF InputsMismatch, LockForApply, BaselineDirty, At, Goto
  <2>3. d.lane = i /\ (d.pc = "baseline" \/ (d.pc = "failing" /\ d.cause # "dirty"))
    BY <1>4, <2>1 DEF Drives
  <2>4. \A r \in Repos : /\ ~Own(d, r) /\ ~Clear(d, r) /\ ~Mixed(d, r)
                         /\ ~Own(c, r) /\ ~Mixed(c, r)
    BY <2>2, <2>3 DEF Own, Clear, Mixed, Patched
  <2>5. QED BY <1>1, <1>2, <1>3, <2>2, <2>3, <2>4, GroundKept DEF OwnRow, git
<1>6. CASE StartApply(w)
  <2>1. c.pc = "baseline" /\ status[i] = "leased" /\ \A r \in RepoTargets(i) : worktree[r] = {}
    BY <1>2, <1>3, <1>4, <1>6 DEF StartApply, At, StatusOf, Waits, Clean
  <2>2. PICK d : d = [c EXCEPT !.pc = "apply", !.todo = RepoTargets(i)]
    OBVIOUS
  <2>3. Move(w, "applying", {}) /\ drive' = [drive EXCEPT ![w] = d] /\ UNCHANGED git
    BY <1>2, <1>3, <1>4, <1>6, <2>1, <2>2 DEF StartApply, MoveRefused, LeaseTransitions
  <2>4. d.pc = "apply" /\ d.lane = i /\ d.todo = RepoTargets(i)
    BY <1>4, <2>2 DEF Drives
  <2>5. \A r \in Repos : /\ ~Own(d, r) /\ ~Mixed(d, r) /\ (Clear(d, r) => worktree[r] = {})
                         /\ ~Own(c, r) /\ ~Mixed(c, r)
    BY <2>1, <2>4 DEF Own, Clear, Mixed, Patched
  <2>6. OwnRow(w)
    BY <2>3 DEF OwnRow
  <2>7. QED BY <1>1, <1>2, <1>3, <2>3, <2>4, <2>5, <2>6, GroundKept DEF git
<1>7. CASE RecordPreApply(w)
  <2>1. c.pc = "apply"
    BY <1>3, <1>7 DEF RecordPreApply, At
  <2>2. PICK r \in c.todo : \/ /\ Advance(w, r, "pre_apply_recorded", head[r])
                               /\ drive' = [drive EXCEPT ![w].pc = "patch", ![w].repo = r]
                               /\ UNCHANGED git
                            \/ AdvanceRefused(w, r, "pre_apply_recorded")
    BY <1>3, <1>7 DEF RecordPreApply
  <2>3. r \in RepoTargets(i) /\ r \in Repos /\ target[i][r] = "pending"
    BY <1>4, <2>1 DEF TodoAsHeld, RowAsHeld
  <2>4. ~AdvanceRefused(w, r, "pre_apply_recorded")
    BY <1>2, <1>4, <2>3 DEF AdvanceRefused, RepoTargetTransitions
  <2>5. PICK d : d = [c EXCEPT !.pc = "patch", !.repo = r]
    OBVIOUS
  <2>6. drive' = [drive EXCEPT ![w] = d]
    BY <1>3, <2>2, <2>4, <2>5
  <2>7. d.pc = "patch" /\ d.repo = r /\ d.lane = i /\ d.todo = c.todo
    BY <1>4, <2>5 DEF Drives
  <2>8. pre_apply_head'[i][r] = head[r]
    BY <1>2, <2>2, <2>3, <2>4 DEF Advance, AdvanceRepoTarget, DrainInv, StoreInv, TypeOK
  <2>9. \A q \in Repos : /\ (Own(d, q) <=> Own(c, q)) /\ ~Mixed(d, q) /\ ~Mixed(c, q)
                         /\ (Clear(d, q) <=> Clear(c, q))
    BY <1>4, <2>1, <2>7 DEF Own, Clear, Mixed, Patched
  <2>10. OwnRow(w)
    BY <2>2, <2>3, <2>4 DEF OwnRow
  <2>11. UNCHANGED git
    BY <2>2, <2>4
  <2>12. head[d.repo] = pre_apply_head'[i][d.repo]
    BY <2>7, <2>8
  <2>13. TreesInv'
    BY <1>1, <1>2, <1>3, <2>6, <2>7, <2>9, <2>10, <2>11, <2>12, GroundKept
  <2>14. QED BY <2>11, <2>13 DEF git
<1>8. CASE RecordApplied(w)
  <2>1. c.pc = "patched" /\ c.repo \in c.todo /\ c.repo \in RepoTargets(i) /\ c.repo \in Repos
        /\ target[i][c.repo] = "pre_apply_recorded"
    BY <1>3, <1>4, <1>8 DEF RecordApplied, At, TodoAsHeld, RowAsHeld
  <2>2. ~AdvanceRefused(w, c.repo, "applied")
    BY <1>2, <1>4, <2>1 DEF AdvanceRefused, RepoTargetTransitions
  <2>3. PICK d : d = [c EXCEPT !.todo = c.todo \ {c.repo},
                               !.pc = IF c.todo = {c.repo} THEN "applied" ELSE "apply"]
    OBVIOUS
  <2>4. Advance(w, c.repo, "applied", head[c.repo]) /\ drive' = [drive EXCEPT ![w] = d] /\ UNCHANGED git
    BY <1>3, <1>8, <2>2, <2>3 DEF RecordApplied
  <2>5. d.pc = (IF c.todo = {c.repo} THEN "applied" ELSE "apply")
        /\ d.lane = i /\ d.todo = c.todo \ {c.repo}
    BY <1>4, <2>3 DEF Drives
  <2>6. \A q \in Repos : /\ (Own(d, q) <=> Own(c, q)) /\ ~Mixed(d, q) /\ ~Mixed(c, q)
                         /\ (Clear(d, q) => Clear(c, q))
    BY <1>4, <2>1, <2>5 DEF Own, Clear, Mixed, Patched
  <2>7. OwnRow(w)
    BY <2>1, <2>4 DEF OwnRow
  <2>8. d.pc # "patch"
    BY <2>5
  <2>9. QED BY <1>1, <1>2, <1>3, <2>4, <2>5, <2>6, <2>7, <2>8, GroundKept DEF git
<1>9. CASE FinishApply(w)
  <2>1. c.pc = "applied" /\ status[i] = "applying"
    BY <1>3, <1>4, <1>9 DEF FinishApply, At, StatusOf, Waits, Applying
  <2>2. PICK d : d = [c EXCEPT !.pc = "reload_gates"]
    OBVIOUS
  <2>3. Move(w, "verifying", {}) /\ drive' = [drive EXCEPT ![w] = d] /\ UNCHANGED git
    BY <1>2, <1>3, <1>4, <1>9, <2>1, <2>2 DEF FinishApply, MoveRefused, LeaseTransitions, Goto
  <2>4. d.pc = "reload_gates" /\ d.lane = i
    BY <1>4, <2>2 DEF Drives
  <2>5. \A q \in Repos : /\ (Own(d, q) <=> Own(c, q)) /\ ~Mixed(d, q) /\ ~Mixed(c, q)
                         /\ ~Clear(d, q)
    BY <1>4, <2>1, <2>4 DEF Own, Clear, Mixed, Patched
  <2>6. OwnRow(w)
    BY <2>3 DEF OwnRow
  <2>7. QED BY <1>1, <1>2, <1>3, <2>3, <2>4, <2>5, <2>6, GroundKept DEF git
<1>10. QED BY <1>5, <1>6, <1>7, <1>8, <1>9

(* The other steps that leave them alone.                                   *)
LEMMA RestGround ==
  ASSUME DrainInv, RowsInv, TreesInv, NEW w \in Sessions,
         \/ Reload(w, "reload_gates", "gates") \/ GatesApprove(w) \/ GatesReject(w)
         \/ Reload(w, "reload_commit", "commit_lock") \/ LockForCommit(w)
         \/ ReadCommit(w) \/ RecordCommitted(w) \/ DirtyAfterCommit(w) \/ ProveClean(w)
         \/ Reload(w, "reload_integrate", "integrate") \/ MarkIntegrated(w)
         \/ FailTarget(w) \/ FailLane(w)
  PROVE  TreesInv' /\ UNCHANGED head
<1>1. ~At(w, "idle")
  BY DEF At, Reload, GatesApprove, GatesReject, LockForCommit, ReadCommit, RecordCommitted,
         DirtyAfterCommit, ProveClean, MarkIntegrated, FailTarget, FailLane
<1>2. PICK i \in Lanes : i = Lane(w)
  BY <1>1, Token
<1>3. PICK c : c = drive[w]
  OBVIOUS
<1>4. /\ c \in Drives /\ i = c.lane /\ c.pc # "idle" /\ drive \in [Sessions -> Drives]
      /\ ~Fenced(w) /\ status[i] = StatusOf(c) /\ TodoAsHeld(c) /\ RepoTargets(i) \subseteq Repos
      /\ \A r \in RepoTargets(i) : RowAsHeld(c, r, target[i][r])
      /\ target \in [Lanes -> [Repos -> TargetStatuses]]
  BY <1>1, <1>2, <1>3, Token, HolderIsCurrent DEF At, Lane, DrainInv, DrainTypeOK
<1>5. ASSUME NEW d, drive' = [drive EXCEPT ![w] = d], d.lane = i, UNCHANGED git, OwnRow(w),
             d.pc # "patch",
             \A r \in Repos : /\ (Own(d, r) <=> Own(c, r)) /\ ~Mixed(d, r) /\ ~Mixed(c, r)
                              /\ ~Clear(d, r)
      PROVE  TreesInv' /\ UNCHANGED head
  BY <1>1, <1>2, <1>3, <1>5, GroundKept DEF git
<1>6. CASE \/ Reload(w, "reload_gates", "gates") \/ Reload(w, "reload_commit", "commit_lock")
           \/ Reload(w, "reload_integrate", "integrate")
  <2>1. PICK from, to : /\ <<from, to>> \in {<<"reload_gates", "gates">>, <<"reload_commit", "commit_lock">>,
                                             <<"reload_integrate", "integrate">>}
                        /\ Reload(w, from, to)
    BY <1>6
  <2>2. PICK d : d = [c EXCEPT !.pc = to, !.version = lease_version[i]]
    OBVIOUS
  <2>3. drive' = [drive EXCEPT ![w] = d] /\ c.pc = from /\ UNCHANGED storeVars /\ UNCHANGED git
    BY <1>2, <1>3, <2>1, <2>2 DEF Reload, At
  <2>4. d.pc = to /\ d.lane = i
    BY <1>4, <2>2 DEF Drives
  <2>5. \A r \in Repos : /\ (Own(d, r) <=> Own(c, r)) /\ ~Mixed(d, r) /\ ~Mixed(c, r)
                         /\ ~Clear(d, r)
    BY <1>4, <2>1, <2>3, <2>4 DEF Own, Clear, Mixed, Patched
  <2>6. OwnRow(w) /\ d.pc # "patch"
    BY <2>1, <2>3, <2>4 DEF OwnRow
  <2>7. QED BY <1>5, <2>3, <2>4, <2>5, <2>6
<1>7. CASE GatesApprove(w)
  <2>1. c.pc = "gates" /\ status[i] = "verifying"
    BY <1>3, <1>4, <1>7 DEF GatesApprove, At, StatusOf, Waits, Applying, Verifying
  <2>2. PICK d : d = [c EXCEPT !.pc = "reload_commit"]
    OBVIOUS
  <2>3. Move(w, "committing", {}) /\ drive' = [drive EXCEPT ![w] = d] /\ UNCHANGED git
    BY <1>2, <1>3, <1>4, <1>7, <2>1, <2>2 DEF GatesApprove, MoveRefused, LeaseTransitions, Goto
  <2>4. d.pc = "reload_commit" /\ d.lane = i
    BY <1>4, <2>2 DEF Drives
  <2>5. \A r \in Repos : /\ (Own(d, r) <=> Own(c, r)) /\ ~Mixed(d, r) /\ ~Mixed(c, r)
                         /\ ~Clear(d, r)
    BY <1>4, <2>1, <2>4 DEF Own, Clear, Mixed, Patched
  <2>6. OwnRow(w)
    BY <2>3 DEF OwnRow
  <2>7. QED BY <1>5, <2>3, <2>4, <2>5, <2>6
<1>8. CASE GatesReject(w) \/ LockForCommit(w) \/ ReadCommit(w) \/ DirtyAfterCommit(w)
  <2>1. PICK d : d = IF GatesReject(w) THEN [c EXCEPT !.pc = "gate_reset", !.cause = "gates"]
                     ELSE IF LockForCommit(w) THEN [c EXCEPT !.pc = "commit", !.todo = RepoTargets(i)]
                     ELSE IF ReadCommit(w)
                     THEN [c EXCEPT !.pc = "committed", !.made = head[c.repo]]
                     ELSE [c EXCEPT !.pc = "failing", !.cause = "dirty"]
    OBVIOUS
  <2>2. drive' = [drive EXCEPT ![w] = d] /\ UNCHANGED storeVars /\ UNCHANGED git
    BY <1>2, <1>3, <1>8, <2>1 DEF GatesReject, LockForCommit, ReadCommit, DirtyAfterCommit, At
  <2>3. /\ d.lane = i
        /\ \/ c.pc = "gates" /\ d.pc = "gate_reset"
           \/ c.pc = "commit_lock" /\ d.pc = "commit" /\ d.todo = RepoTargets(i)
           \/ c.pc = "made" /\ d.pc = "committed" /\ d.todo = c.todo
           \/ c.pc = "prove_clean" /\ d.pc = "failing" /\ d.cause = "dirty" /\ d.todo = c.todo
    BY <1>3, <1>4, <1>8, <2>1 DEF Drives, GatesReject, LockForCommit, ReadCommit, DirtyAfterCommit, At
  <2>4. \A r \in Repos : /\ (Own(d, r) <=> Own(c, r)) /\ ~Mixed(d, r) /\ ~Mixed(c, r)
                         /\ ~Clear(d, r)
    BY <1>4, <2>3 DEF Own, Clear, Mixed, Patched
  <2>5. OwnRow(w) /\ d.pc # "patch"
    BY <2>2, <2>3 DEF OwnRow
  <2>6. QED BY <1>5, <2>2, <2>3, <2>4, <2>5
<1>9. CASE RecordCommitted(w)
  <2>1. c.pc = "committed" /\ c.repo \in RepoTargets(i) \ c.todo /\ c.repo \in Repos /\ target[i][c.repo] = "applied"
    BY <1>3, <1>4, <1>9 DEF RecordCommitted, At, TodoAsHeld, RowAsHeld
  <2>2. ~AdvanceRefused(w, c.repo, "committed")
    BY <1>2, <1>4, <2>1 DEF AdvanceRefused, RepoTargetTransitions
  <2>3. PICK d : d = [c EXCEPT !.pc = "prove_clean"]
    OBVIOUS
  <2>4. /\ Advance(w, c.repo, "committed", c.made) /\ drive' = [drive EXCEPT ![w] = d]
        /\ UNCHANGED git
    BY <1>3, <1>9, <2>2, <2>3 DEF RecordCommitted, Goto
  <2>5. d.pc = "prove_clean" /\ d.lane = i /\ d.todo = c.todo
    BY <1>4, <2>3 DEF Drives
  <2>6. \A r \in Repos : /\ (Own(d, r) <=> Own(c, r)) /\ ~Mixed(d, r) /\ ~Mixed(c, r)
                         /\ ~Clear(d, r)
    BY <1>4, <2>1, <2>5 DEF Own, Clear, Mixed, Patched
  <2>7. OwnRow(w)
    BY <2>1, <2>4 DEF OwnRow
  <2>8. QED BY <1>5, <2>4, <2>5, <2>6, <2>7
<1>10. CASE ProveClean(w)
  <2>1. c.pc = "prove_clean" /\ c.repo \in RepoTargets(i) \ c.todo /\ c.repo \in Repos /\ target[i][c.repo] = "committed"
    BY <1>3, <1>4, <1>10 DEF ProveClean, At, TodoAsHeld, RowAsHeld
  <2>2. ~AdvanceRefused(w, c.repo, "clean")
    BY <1>2, <1>4, <2>1 DEF AdvanceRefused, RepoTargetTransitions
  <2>3. PICK d : d = [c EXCEPT !.pc = IF c.todo = {} THEN "reload_integrate" ELSE "commit"]
    OBVIOUS
  <2>4. /\ Advance(w, c.repo, "clean", NoCommit) /\ drive' = [drive EXCEPT ![w] = d]
        /\ UNCHANGED git
    BY <1>3, <1>10, <2>2, <2>3 DEF ProveClean, Goto
  <2>5. d.pc = (IF c.todo = {} THEN "reload_integrate" ELSE "commit") /\ d.lane = i /\ d.todo = c.todo
    BY <1>4, <2>3 DEF Drives
  <2>6. \A r \in Repos : /\ (Own(d, r) <=> Own(c, r)) /\ ~Mixed(d, r) /\ ~Mixed(c, r)
                         /\ ~Clear(d, r)
    BY <1>4, <2>1, <2>5 DEF Own, Clear, Mixed, Patched
  <2>7. OwnRow(w) /\ d.pc # "patch"
    BY <2>1, <2>4, <2>5 DEF OwnRow
  <2>8. QED BY <1>5, <2>4, <2>5, <2>6, <2>7
<1>11. CASE MarkIntegrated(w) \/ FailLane(w)
  <2>1. status[i] = StatusOf(c) /\ (MarkIntegrated(w) => status[i] = "committing")
    BY <1>3, <1>4 DEF MarkIntegrated, At, StatusOf, Waits, Applying, Verifying
  <2>2. status[i] \in {"leased", "applying", "verifying", "committing"}
    BY <1>4 DEF StatusOf
  <2>3. (MarkIntegrated(w) => ~MoveRefused(w, "integrated")) /\ ~MoveRefused(w, "failed")
    BY <1>2, <1>4, <2>1, <2>2 DEF MoveRefused, LeaseTransitions
  <2>4. PICK d : d = Idle
    OBVIOUS
  <2>5. drive' = [drive EXCEPT ![w] = d] /\ OwnRow(w) /\ UNCHANGED git /\ d.pc = "idle"
    BY <1>11, <2>3, <2>4 DEF MarkIntegrated, FailLane, GoIdle, OwnRow, Idle
  <2>6. QED BY <1>1, <1>2, <1>3, <2>5, GroundKept DEF git
<1>12. CASE FailTarget(w)
  <2>1. c.pc = "failing"
    BY <1>3, <1>12 DEF FailTarget, At
  <2>2. PICK r \in Unsettled(i) : \/ Advance(w, r, "failed", NoCommit) /\ UNCHANGED <<git, drive>>
                                  \/ AdvanceRefused(w, r, "failed")
    BY <1>2, <1>12 DEF FailTarget
  <2>3. r \in RepoTargets(i) /\ r \in Repos /\ target[i][r] \in {"pending", "pre_apply_recorded", "applied", "committed"}
    BY <1>4, <2>2 DEF Unsettled, RepoTargets, TargetStatuses
  <2>4. ~AdvanceRefused(w, r, "failed")
    BY <1>2, <1>4, <2>3 DEF AdvanceRefused, RepoTargetTransitions
  <2>5. drive' = [drive EXCEPT ![w] = c] /\ UNCHANGED git /\ OwnRow(w)
    BY <1>3, <1>4, <2>2, <2>3, <2>4 DEF OwnRow
  <2>6. \A q \in Repos : ~Clear(c, q) /\ ~Mixed(c, q)
    BY <2>1 DEF Clear, Mixed
  <2>7. QED BY <1>4, <1>5, <2>1, <2>5, <2>6
<1>13. QED BY <1>6, <1>7, <1>8, <1>9, <1>10, <1>11, <1>12

(* A session that claims a queued lane finds none of its patch anywhere.    *)
LEMMA ClaimTrees ==
  ASSUME DrainInv, RowsInv, TreesInv, NEW w \in Sessions, DrainClaim(w)
  PROVE  TreesInv' /\ UNCHANGED head
<1>1. PICK i \in Lanes :
        /\ Claim(w, i)
        /\ drive' = [drive EXCEPT ![w] = [Idle EXCEPT !.pc = "claimed", !.lane = i,
                                                      !.version = lease_version'[i]]]
  BY DEF DrainClaim
<1>2. /\ drive \in [Sessions -> Drives] /\ UNCHANGED <<worktree, head, target, pre_apply_head>>
      /\ status' = [status EXCEPT ![i] = "leased"]
  BY <1>1 DEF DrainClaim, DrainInv, DrainTypeOK, Claim, git, ledger
<1>3. PICK d : d = [Idle EXCEPT !.pc = "claimed", !.lane = i, !.version = lease_version'[i]]
  OBVIOUS
<1>4. d.pc = "claimed" /\ d.lane = i /\ d.todo = {} /\ drive'[w] = d
  BY <1>1, <1>2, <1>3 DEF Idle
<1>5. status[i] = "queued" /\ \A r \in Repos : i \notin worktree[r]
  BY <1>1 DEF Claim, Claimable, RowsInv, RowInv, TreesInv
<1>6. ASSUME NEW v \in Sessions PROVE TreeAsHeld(drive[v])'
  <2>1. PICK e : e = drive'[v]
    OBVIOUS
  <2>2. TreeAsHeld(e)'
    <3>1. CASE v = w
      <4>1. e = d /\ \A r \in Repos : ~Own(d, r)' /\ ~Clear(d, r) /\ ~Mixed(d, r) /\ d.pc # "patch"
        BY <1>4, <2>1, <3>1 DEF Own, Clear, Mixed, Patched
      <4>2. QED BY <1>2, <1>4, <1>5, <4>1 DEF TreeAsHeld, Clear, Mixed
    <3>2. CASE v # w
      <4>1. TreeAsHeld(e)
        BY <1>1, <1>2, <2>1, <3>2 DEF TreesInv
      <4>2. \A r \in Repos : Own(e, r)' <=> Own(e, r)
        BY <1>2 DEF Own, RepoTargets
      <4>3. QED BY <1>2, <4>1, <4>2 DEF TreeAsHeld, Clear, Mixed
    <3>3. QED BY <3>1, <3>2
  <2>3. QED BY <2>1, <2>2 DEF TreeAsHeld, Own, RepoTargets
<1>7. ASSUME NEW r \in Repos, NEW j \in worktree'[r] \cap Lanes PROVE status'[j] \notin {"none", "queued"}
  <2>1. status[j] \notin {"none", "queued"} /\ status \in [Lanes -> Statuses]
    BY <1>2 DEF TreesInv, DrainInv, StoreInv, TypeOK
  <2>2. QED BY <1>2, <2>1
<1>8. QED BY <1>2, <1>6, <1>7 DEF TreesInv

(* A splice changes nothing for those that hold a lane.                     *)
LEMMA SpliceTrees ==
  ASSUME DrainInv, RowsInv, TreesInv, NEW i \in Lanes, Splice(i)
  PROVE  TreesInv' /\ UNCHANGED head
<1>1. /\ status' = [status EXCEPT ![i] = "queued"] /\ i \notin Present
      /\ target' = [target EXCEPT ![i] = [r \in Repos |-> IF r \in ReposOf[i] THEN "pending" ELSE "none"]]
      /\ UNCHANGED <<pre_apply_head, drive, worktree, head>>
  BY LanesAssumption DEF Splice, Enqueue, git
<1>2. /\ status[i] = "none" /\ status \in [Lanes -> Statuses] /\ target \in [Lanes -> [Repos -> TargetStatuses]]
      /\ \A r \in Repos : i \notin worktree[r]
  BY <1>1 DEF Present, DrainInv, StoreInv, TypeOK, TreesInv
<1>3. ASSUME NEW v \in Sessions PROVE TreeAsHeld(drive[v])'
  <2>1. PICK e : e = drive[v]
    OBVIOUS
  <2>2. CASE e.pc # "idle"
    <3>1. e.lane \in Lanes /\ e.lane # i /\ TreeAsHeld(e)
      BY <1>2, <2>1, <2>2, HolderIsCurrent DEF At, Lane, StatusOf, TreesInv
    <3>2. RepoTargets(e.lane)' = RepoTargets(e.lane)
      BY <1>1, <1>2, <3>1 DEF RepoTargets
    <3>3. \A r \in Repos : Own(e, r)' <=> Own(e, r)
      BY <3>2 DEF Own
    <3>4. TreeAsHeld(e)'
      BY <1>1, <3>1, <3>3 DEF TreeAsHeld, Clear, Mixed
    <3>5. QED BY <1>1, <2>1, <3>4 DEF TreeAsHeld, Own, RepoTargets
  <2>3. CASE e.pc = "idle"
    BY <1>1, <2>1, <2>3 DEF TreeAsHeld
  <2>4. QED BY <2>2, <2>3
<1>4. ASSUME NEW r \in Repos, NEW j \in worktree'[r] \cap Lanes PROVE status'[j] \notin {"none", "queued"}
  BY <1>1, <1>2 DEF TreesInv
<1>5. QED BY <1>1, <1>3, <1>4 DEF TreesInv

(* The repositories at the start, ...                                       *)
LEMMA TreesStart == DrainInit => TreesInv
BY DEF DrainInit, Idle, TreesInv, TreeAsHeld

(* ... and through every step, which leaves every HEAD where it is or adds  *)
(* a commit of one lane's own patch.                                        *)
LEMMA TreesHold ==
  ASSUME FairWeather, DrainInv, RowsInv, TreesInv, [DrainNext]_vars
  PROVE  /\ TreesInv'
         /\ \/ UNCHANGED head
            \/ \E i \in Lanes, r \in Repos : head' = [head EXCEPT ![r] = Append(@, <<i, {i}>>)]
<1>1. CASE UNCHANGED vars
  BY <1>1 DEF vars, git, storeVars, ledger, TreesInv, TreeAsHeld, Own, RepoTargets
<1>2. ASSUME NEW w \in Sessions, DrainStep(w)
      PROVE  /\ TreesInv'
             /\ \/ UNCHANGED head
                \/ \E i \in Lanes, r \in Repos : head' = [head EXCEPT ![r] = Append(@, <<i, {i}>>)]
  <2>1. CASE GitCommit(w)
    <3>1. ~At(w, "idle")
      BY <2>1 DEF GitCommit, At
    <3>2. Lane(w) \in Lanes
      BY <3>1, Token
    <3>3. QED BY <2>1, <3>2, CommitStep
  <2>2. CASE Apply(w)
    BY <2>2, ApplyGround, PatchStep, ResetStep DEF Apply
  <2>3. CASE Verify(w)
    BY <2>3, RestGround, ResetStep DEF Verify
  <2>4. CASE Commit(w)
    BY <2>1, <2>4, RestGround, ResetStep, HookStep DEF Commit
  <2>5. CASE FailTarget(w) \/ FailLane(w)
    BY <2>5, RestGround
  <2>6. QED BY <1>2, <2>2, <2>3, <2>4, <2>5, ClaimTrees, NothingToRecover DEF DrainStep
<1>3. QED BY <1>1, <1>2, SpliceTrees, NothingToRecover DEF DrainNext

(* What is a prefix of a history stays one when the history grows.          *)
LEMMA PrefixGrows ==
  ASSUME NEW s \in History, NEW t \in History
  PROVE  /\ IsPrefix(s, s)
         /\ \A x : IsPrefix(s, t) => IsPrefix(s, Append(t, x))
<1>1. Len(s) \in Nat /\ Len(t) \in Nat
  BY DEF History
<1>2. IsPrefix(s, s)
  BY <1>1 DEF IsPrefix
<1>3. ASSUME NEW x, IsPrefix(s, t) PROVE IsPrefix(s, Append(t, x))
  <2>1. Len(s) <= Len(t) /\ SubSeq(s, 1, Len(s)) = SubSeq(t, 1, Len(s))
    BY <1>3 DEF IsPrefix
  <2>2. t \in Seq(Lanes \X SUBSET (Lanes \cup {Residue}))
    BY DEF History
  <2>3. Len(Append(t, x)) = Len(t) + 1
    BY <2>2
  <2>4. SubSeq(Append(t, x), 1, Len(s)) = SubSeq(t, 1, Len(s))
    BY <1>1, <2>1, <2>2
  <2>5. QED BY <1>1, <2>1, <2>3, <2>4 DEF IsPrefix
<1>4. QED BY <1>2, <1>3

(* A repo target is committed by recording a commit HEAD still has.         *)
LEMMA CommitIsInHead ==
  ASSUME FairWeather, DrainInv, RowsInv, CommitsInv, [DrainNext]_vars, NEW i \in Lanes, NEW r \in Repos,
         target'[i][r] \in {"committed", "clean"}
  PROVE  \/ target[i][r] \in {"committed", "clean"} /\ target_commit'[i][r] = target_commit[i][r]
         \/ IsPrefix(target_commit'[i][r], head[r]) /\ UNCHANGED head
<1>. DEFINE Said == \/ target[i][r] \in {"committed", "clean"} /\ target_commit'[i][r] = target_commit[i][r]
                    \/ IsPrefix(target_commit'[i][r], head[r]) /\ UNCHANGED head
<1>1. CASE UNCHANGED ledger
  BY <1>1 DEF ledger
<1>2. ASSUME NEW j \in Lanes, Splice(j) PROVE Said
  BY <1>2 DEF Splice, Enqueue, DrainInv, StoreInv, TypeOK
<1>3. ASSUME NEW w \in Sessions, NEW q \in Repos, NEW to, NEW c, Advance(w, q, to, c), ~At(w, "idle"),
             to = "committed" => IsPrefix(c, head[q]) /\ UNCHANGED head
      PROVE  Said
  <2>1. /\ target' = [target EXCEPT ![Lane(w)][q] = to]
        /\ target_commit' = IF to = "committed" THEN [target_commit EXCEPT ![Lane(w)][q] = c] ELSE target_commit
        /\ to = "clean" => target[Lane(w)][q] = "committed"
        /\ Lane(w) \in Lanes
        /\ target \in [Lanes -> [Repos -> TargetStatuses]]
        /\ target_commit \in [Lanes -> [Repos -> Commits \cup {NoCommit}]]
    BY <1>3, Token DEF Advance, AdvanceRepoTarget, RepoTargetTransitions, DrainInv, StoreInv, TypeOK
  <2>2. CASE i = Lane(w) /\ r = q
    BY <1>3, <2>1, <2>2
  <2>3. CASE ~(i = Lane(w) /\ r = q)
    BY <2>1, <2>3
  <2>4. QED BY <2>2, <2>3
<1>4. ASSUME NEW w \in Sessions, DrainStep(w) PROVE Said
  <2>1. CASE DrainClaim(w)
    BY <1>1, <2>1 DEF DrainClaim, Claim
  <2>2. CASE Apply(w)
    <3>1. CASE RecordPreApply(w)
      <4>1. RepoTargets(Lane(w)) \subseteq Repos /\ drive[w].todo \subseteq RepoTargets(Lane(w)) /\ ~At(w, "idle")
        BY <3>1, HolderIsCurrent DEF RecordPreApply, At, TodoAsHeld, Lane
      <4>2. QED BY <1>1, <1>3, <3>1, <4>1 DEF RecordPreApply, Raise, storeVars
    <3>2. CASE RecordApplied(w)
      <4>1. drive[w].repo \in Repos /\ ~At(w, "idle")
        BY <3>2, Token DEF RecordApplied, At, HolderInv, InHand
      <4>2. QED BY <1>1, <1>3, <3>2, <4>1 DEF RecordApplied, Raise, storeVars
    <3>3. QED
      BY <1>1, <2>2, <3>1, <3>2
         DEF Apply, InputsMismatch, LockForApply, BaselineDirty, StartApply, ApplyPatch, PatchRefused,
             FinishApply, RollbackAll, Move, Transition, Raise, storeVars
  <2>3. CASE Verify(w)
    BY <1>1, <2>3 DEF Verify, Reload, GatesApprove, GatesReject, ResetAfterGates, Move, Transition,
                      Raise, storeVars
  <2>4. CASE Commit(w)
    <3>1. CASE RecordCommitted(w) \/ ProveClean(w)
      <4>1. drive[w].repo \in Repos /\ ~At(w, "idle")
        BY <3>1, Token DEF RecordCommitted, ProveClean, At, HolderInv, InHand
      <4>2. At(w, "committed") => IsPrefix(drive[w].made, head[drive[w].repo])
        BY DEF At, CommitsInv
      <4>3. QED BY <1>1, <1>3, <3>1, <4>1, <4>2 DEF RecordCommitted, ProveClean, Raise, storeVars, git
    <3>2. QED
      BY <1>1, <2>4, <3>1
         DEF Commit, Reload, LockForCommit, GitCommit, ReadCommit, CommitRejected,
             ResetUncommitted, DirtyAfterCommit, MarkIntegrated, Move, Transition, Raise, storeVars
  <2>5. CASE FailTarget(w)
    <3>1. ~At(w, "idle") /\ Unsettled(Lane(w)) \subseteq Repos
      BY <2>5 DEF FailTarget, At, Unsettled, RepoTargets
    <3>2. QED BY <1>1, <1>3, <2>5, <3>1 DEF FailTarget, Raise, storeVars
  <2>6. CASE FailLane(w)
    BY <1>1, <2>6 DEF FailLane, Move, Transition, Raise, storeVars
  <2>7. QED BY <1>4, <2>1, <2>2, <2>3, <2>4, <2>5, <2>6, NothingToRecover DEF DrainStep
<1>5. CASE UNCHANGED vars
  BY <1>1, <1>5 DEF vars, storeVars
<1>6. QED BY <1>2, <1>4, <1>5, NothingToRecover DEF DrainNext

(* The commit a session has in hand was HEAD when the session read it.      *)
LEMMA MadeWasHead ==
  ASSUME FairWeather, DrainInv, RowsInv, [DrainNext]_vars, NEW w \in Sessions,
         drive'[w].pc = "committed"
  PROVE  \/ drive[w].pc = "committed" /\ drive'[w] = drive[w]
         \/ drive'[w].made = head[drive'[w].repo] /\ UNCHANGED head
<1>. DEFINE Said == \/ drive[w].pc = "committed" /\ drive'[w] = drive[w]
                    \/ drive'[w].made = head[drive'[w].repo] /\ UNCHANGED head
<1>1. drive \in [Sessions -> Drives]
  BY DEF DrainInv, DrainTypeOK
<1>2. CASE UNCHANGED drive
  BY <1>2
<1>3. ASSUME NEW v \in Sessions, NEW d, d.pc # "committed", drive' = [drive EXCEPT ![v] = d]
      PROVE  Said
  BY <1>1, <1>3
<1>4. ASSUME NEW v \in Sessions, GoIdle(v) PROVE Said
  BY <1>3, <1>4, IdleHolder DEF GoIdle
<1>5. ASSUME NEW v \in Sessions, NEW label, label # "committed", Goto(v, label) PROVE Said
  BY <1>1, <1>5 DEF Goto, Drives
<1>6. ASSUME NEW v \in Sessions, DrainClaim(v) PROVE Said
  BY <1>1, <1>6, IdleHolder DEF DrainClaim, Drives
<1>7. ASSUME NEW v \in Sessions, Apply(v) PROVE Said
  BY <1>1, <1>2, <1>4, <1>5, <1>7
     DEF Apply, InputsMismatch, LockForApply, BaselineDirty, StartApply, RecordPreApply, ApplyPatch,
         PatchRefused, RecordApplied, FinishApply, RollbackAll, Raise, Drives
<1>8. ASSUME NEW v \in Sessions, Verify(v) PROVE Said
  BY <1>1, <1>4, <1>5, <1>8
     DEF Verify, Reload, GatesApprove, GatesReject, ResetAfterGates, Raise, Drives
<1>9. ASSUME NEW v \in Sessions, Commit(v) PROVE Said
  <2>1. CASE ReadCommit(v)
    BY <1>1, <2>1 DEF ReadCommit, Drives, git
  <2>2. CASE \/ Reload(v, "reload_commit", "commit_lock") \/ Reload(v, "reload_integrate", "integrate")
             \/ LockForCommit(v) \/ GitCommit(v) \/ CommitRejected(v) \/ DirtyAfterCommit(v)
    <3>1. PICK c \in Drives : c = drive[v]
      BY <1>1
    <3>2. CASE Reload(v, "reload_commit", "commit_lock") \/ Reload(v, "reload_integrate", "integrate")
      BY <1>1, <3>2 DEF Reload, Drives
    <3>3. CASE LockForCommit(v) \/ CommitRejected(v) \/ DirtyAfterCommit(v)
      BY <1>1, <3>3 DEF LockForCommit, CommitRejected, DirtyAfterCommit, Drives
    <3>4. ASSUME NEW r, drive' = [drive EXCEPT ![v].pc = "made", ![v].repo = r, ![v].todo = @ \ {r}]
          PROVE  Said
      <4>1. PICK d : d = [c EXCEPT !.pc = "made", !.repo = r, !.todo = c.todo \ {r}]
        OBVIOUS
      <4>2. drive' = [drive EXCEPT ![v] = d] /\ d.pc = "made"
        BY <1>1, <3>1, <3>4, <4>1 DEF Drives
      <4>3. QED BY <1>3, <4>2
    <3>5. QED BY <2>2, <3>2, <3>3, <3>4 DEF GitCommit
  <2>3. CASE ResetUncommitted(v) \/ RecordCommitted(v) \/ ProveClean(v) \/ MarkIntegrated(v)
    BY <1>4, <1>5, <2>3 DEF ResetUncommitted, RecordCommitted, ProveClean, MarkIntegrated, Raise
  <2>4. QED BY <1>9, <2>1, <2>2, <2>3 DEF Commit
<1>10. ASSUME NEW v \in Sessions, FailTarget(v) \/ FailLane(v) PROVE Said
  BY <1>2, <1>4, <1>10 DEF FailTarget, FailLane, Raise
<1>11. QED
  BY <1>2, <1>6, <1>7, <1>8, <1>9, <1>10, NothingToRecover
     DEF DrainNext, DrainStep, Splice, vars

(* The commits of the repo targets, and of HEAD.                            *)
LEMMA CommitsHold ==
  ASSUME FairWeather, DrainInv, RowsInv, TreesInv, CommitsInv, [DrainNext]_vars
  PROVE  CommitsInv'
<1>1. head \in [Repos -> History]
  BY DEF DrainInv, DrainTypeOK, PlacesTypeOK
<1>2. CASE UNCHANGED head
  <2>1. ASSUME NEW i \in Lanes, NEW r \in Repos, target'[i][r] \in {"committed", "clean"}
        PROVE  IsPrefix(target_commit'[i][r], head'[r])
    <3>1. head[r] \in History
      BY <1>1
    <3>2. QED BY <1>2, <2>1, <3>1, CommitIsInHead DEF CommitsInv
  <2>2. CommitCarriesOwnPatch'
    BY <1>2 DEF CommitsInv, CommitCarriesOwnPatch
  <2>3. ASSUME NEW w \in Sessions, drive'[w].pc = "committed"
        PROVE  IsPrefix(drive'[w].made, head'[drive'[w].repo])
    <3>1. CASE drive[w].pc = "committed" /\ drive'[w] = drive[w]
      BY <1>2, <3>1 DEF CommitsInv
    <3>2. CASE drive'[w].made = head[drive'[w].repo] /\ drive'[w].repo \in Repos
      <4>1. head[drive'[w].repo] \in History
        BY <1>1, <3>2
      <4>2. QED BY <1>2, <3>2, <4>1, PrefixGrows
    <3>3. drive'[w].repo \in Repos
      BY <2>3, DrainStepKeeps DEF DrainInv, HoldersInv, HolderInv, InHand
    <3>4. QED BY <2>3, <3>1, <3>2, <3>3, MadeWasHead
  <2>4. QED BY <2>1, <2>2, <2>3 DEF CommitsInv
<1>3. ASSUME NEW i \in Lanes, NEW r \in Repos, head' = [head EXCEPT ![r] = Append(@, <<i, {i}>>)],
             ~UNCHANGED head
      PROVE  CommitsInv'
  <2>1. head[r] \in Seq(Lanes \X SUBSET (Lanes \cup {Residue})) /\ head'[r] = Append(head[r], <<i, {i}>>)
        /\ \A q \in Repos \ {r} : head'[q] = head[q]
    BY <1>1, <1>3 DEF History
  <2>2. ASSUME NEW j \in Lanes, NEW q \in Repos, target'[j][q] \in {"committed", "clean"}
        PROVE  IsPrefix(target_commit'[j][q], head'[q])
    <3>1. target[j][q] \in {"committed", "clean"} /\ target_commit'[j][q] = target_commit[j][q]
      BY <1>3, <2>2, CommitIsInHead
    <3>2. IsPrefix(target_commit[j][q], head[q])
      BY <3>1 DEF CommitsInv
    <3>3. target_commit[j][q] \in History /\ head[q] \in History
      BY <1>1, <3>1, CommitsAssumption DEF DrainInv, LedgerInv, StoreInv, TypeOK
    <3>4. CASE q = r
      BY <2>1, <3>1, <3>2, <3>3, <3>4, PrefixGrows
    <3>5. CASE q # r
      BY <2>1, <3>1, <3>2, <3>5
    <3>6. QED BY <3>4, <3>5
  <2>3. ASSUME NEW q \in Repos, NEW k \in DOMAIN head'[q] PROVE head'[q][k][2] = {head'[q][k][1]}
    <3>1. CASE q = r
      <4>1. DOMAIN head'[r] = 1 .. Len(head[r]) + 1 /\ DOMAIN head[r] = 1 .. Len(head[r])
        BY <2>1
      <4>2. CASE k = Len(head[r]) + 1
        <5>1. head'[r][k] = <<i, {i}>>
          BY <2>1, <4>2
        <5>2. QED BY <3>1, <5>1
      <4>3. CASE k # Len(head[r]) + 1
        <5>1. k \in 1 .. Len(head[r]) /\ Len(head[r]) \in Nat
          BY <2>1, <2>3, <3>1, <4>1, <4>3
        <5>2. head'[r][k] = head[r][k]
          BY <2>1, <5>1
        <5>3. QED BY <3>1, <4>1, <5>1, <5>2 DEF CommitsInv, CommitCarriesOwnPatch
      <4>4. QED BY <4>2, <4>3
    <3>2. CASE q # r
      BY <2>1, <2>3, <3>2 DEF CommitsInv, CommitCarriesOwnPatch
    <3>3. QED BY <3>1, <3>2
  <2>4. CommitCarriesOwnPatch'
    BY <2>3 DEF CommitCarriesOwnPatch
  <2>5. ASSUME NEW w \in Sessions, drive'[w].pc = "committed"
        PROVE  IsPrefix(drive'[w].made, head'[drive'[w].repo])
    <3>1. PICK q : q = drive[w].repo
      OBVIOUS
    <3>2. drive[w].pc = "committed" /\ drive'[w] = drive[w]
      BY <1>3, <2>5, MadeWasHead
    <3>3. drive[w].made \in History /\ q \in Repos /\ head[q] \in History
      BY <1>1, <3>1, <3>2, CommitsAssumption DEF DrainInv, HoldersInv, HolderInv, InHand
    <3>4. IsPrefix(drive[w].made, head[q])
      BY <3>1, <3>2 DEF CommitsInv
    <3>5. CASE q = r
      BY <2>1, <3>1, <3>2, <3>3, <3>4, <3>5, PrefixGrows
    <3>6. CASE q # r
      BY <2>1, <3>1, <3>2, <3>3, <3>4, <3>6
    <3>7. QED BY <3>5, <3>6
  <2>6. QED BY <2>2, <2>4, <2>5 DEF CommitsInv
<1>4. QED BY <1>2, <1>3, TreesHold

(* The statuses Apply, Verify and Commit move a lane to.                    *)
LEMMA InFlightStatuses == {"applying", "verifying", "committing"} \subseteq InFlight
BY DEF InFlight, RecoverableStatuses

(* With one repository per lane, nothing of a lane's patch is uncommitted   *)
(* when it leaves the queue.                                                *)
LEMMA PatchesHold ==
  ASSUME FairWeather, SingleRepo, DrainInv, RowsInv, TreesInv, PatchInv, [DrainNext]_vars
  PROVE  PatchInv'
<1>1. status \in [Lanes -> Statuses] /\ worktree \in [Repos -> SUBSET (Lanes \cup {Residue})]
  BY DEF DrainInv, DrainTypeOK, PlacesTypeOK, StoreInv, TypeOK
<1>2. ASSUME UNCHANGED worktree, \A i \in Lanes : status[i] \in InFlight => status'[i] \in InFlight
      PROVE  PatchInv'
  BY <1>2 DEF PatchInv
<1>3. CASE UNCHANGED vars
  BY <1>2, <1>3 DEF vars, storeVars, git
<1>4. ASSUME NEW i \in Lanes, Splice(i) PROVE PatchInv'
  <2>1. status' = [status EXCEPT ![i] = "queued"] /\ i \notin Present /\ UNCHANGED worktree
    BY <1>4, LanesAssumption DEF Splice, Enqueue, git
  <2>2. status[i] \notin InFlight
    BY <2>1 DEF Present, InFlight, RecoverableStatuses
  <2>3. QED BY <1>1, <1>2, <2>1, <2>2
<1>5. ASSUME NEW w \in Sessions, DrainClaim(w) PROVE PatchInv'
  BY <1>1, <1>2, <1>5 DEF DrainClaim, Claim, InFlight, git
<1>6. ASSUME NEW w \in Sessions, ~At(w, "idle"), UNCHANGED worktree,
             UNCHANGED status \/ \E to \in InFlight : \E C : Move(w, to, C)
      PROVE  PatchInv'
  BY <1>1, <1>2, <1>6, Token DEF Move, Transition
<1>7. ASSUME NEW w \in Sessions, FailLane(w) \/ MarkIntegrated(w) PROVE PatchInv'
  <2>1. drive[w].pc \in {"failing", "integrate"} /\ ~At(w, "idle") /\ UNCHANGED worktree
    BY <1>7 DEF FailLane, MarkIntegrated, At, Raise, git
  <2>2. PICK i \in Lanes : i = Lane(w)
    BY <2>1, Token
  <2>3. PICK c : c = drive[w]
    OBVIOUS
  <2>4. i = c.lane /\ TodoAsHeld(c) /\ TreeAsHeld(c) /\ c.pc \in {"failing", "integrate"}
    BY <2>1, <2>2, <2>3, HolderIsCurrent DEF Lane, TreesInv
  <2>5. \A r \in Repos : ~Own(c, r) /\ ~Mixed(c, r)
    <3>1. PICK r0 \in Repos : RepoTargets(i) \subseteq {r0}
      BY DEF SingleRepo, RowsInv, RowInv
    <3>2. c.pc = "failing" /\ c.cause = "dirty" => c.todo = {}
      BY <2>4, <3>1 DEF TodoAsHeld
    <3>3. QED BY <2>4, <3>2 DEF Own, Mixed, Patched
  <2>6. \A r \in Repos : i \notin worktree[r]
    BY <2>4, <2>5 DEF TreeAsHeld
  <2>7. \A j \in Lanes \ {i} : status'[j] = status[j]
    BY <1>1, <1>7, <2>2 DEF FailLane, MarkIntegrated, Move, Transition, Raise, storeVars
  <2>8. QED BY <2>1, <2>6, <2>7 DEF PatchInv
<1>8. ASSUME NEW w \in Sessions, ApplyPatch(w) \/ PatchRefused(w) PROVE PatchInv'
  <2>1. ~At(w, "idle") /\ UNCHANGED status /\ drive[w].pc = "patch"
    BY <1>8 DEF ApplyPatch, PatchRefused, At, storeVars
  <2>2. status[Lane(w)] = "applying"
    BY <2>1, HolderIsCurrent DEF StatusOf, Waits, Applying
  <2>3. \A r \in Repos : worktree'[r] \subseteq worktree[r] \cup {Lane(w)}
    BY <1>1, <1>8 DEF ApplyPatch, PatchRefused
  <2>4. QED BY <2>1, <2>2, <2>3 DEF PatchInv, InFlight, RecoverableStatuses
<1>9. ASSUME NEW w \in Sessions,
             \/ GitCommit(w) \/ CommitRejected(w)
             \/ RollbackAll(w) \/ ResetAfterGates(w) \/ ResetUncommitted(w)
      PROVE  PatchInv'
  <2>1. UNCHANGED status
    BY <1>9 DEF GitCommit, CommitRejected, RollbackAll, ResetAfterGates, ResetUncommitted, storeVars
  <2>2. \A r \in Repos : worktree'[r] \subseteq worktree[r] \cup {Residue}
    BY <1>1, <1>9, NothingFails
       DEF GitCommit, CommitRejected, RollbackAll, ResetAfterGates, ResetUncommitted, ResetTo
  <2>3. QED BY <2>1, <2>2, DrainAssumption DEF PatchInv
<1>10. ASSUME NEW w \in Sessions, DrainStep(w) PROVE PatchInv'
  <2>1. CASE \/ InputsMismatch(w) \/ LockForApply(w) \/ BaselineDirty(w) \/ StartApply(w)
             \/ RecordPreApply(w) \/ RecordApplied(w) \/ FinishApply(w)
    <3>1. ~At(w, "idle") /\ UNCHANGED worktree
      BY <2>1 DEF InputsMismatch, LockForApply, BaselineDirty, StartApply, RecordPreApply,
                  RecordApplied, FinishApply, At, Raise, git
    <3>2. CASE StartApply(w) \/ FinishApply(w)
      <4>1. UNCHANGED status \/ Move(w, "applying", {}) \/ Move(w, "verifying", {})
        BY <3>2 DEF StartApply, FinishApply, Raise, storeVars
      <4>2. QED BY <1>6, <3>1, <4>1, InFlightStatuses
    <3>3. CASE ~(StartApply(w) \/ FinishApply(w))
      <4>1. UNCHANGED status
        BY <2>1, <3>3 DEF InputsMismatch, LockForApply, BaselineDirty, RecordPreApply, RecordApplied,
                          Advance, AdvanceRepoTarget, Raise, storeVars
      <4>2. QED BY <1>6, <3>1, <4>1
    <3>4. QED BY <3>2, <3>3
  <2>2. CASE \/ Reload(w, "reload_gates", "gates") \/ GatesApprove(w) \/ GatesReject(w)
             \/ Reload(w, "reload_commit", "commit_lock") \/ LockForCommit(w)
             \/ ReadCommit(w) \/ RecordCommitted(w)
             \/ DirtyAfterCommit(w) \/ ProveClean(w) \/ Reload(w, "reload_integrate", "integrate")
             \/ FailTarget(w)
    <3>1. ~At(w, "idle") /\ UNCHANGED worktree
      BY <2>2 DEF Reload, GatesApprove, GatesReject, LockForCommit, ReadCommit,
                  RecordCommitted, DirtyAfterCommit, ProveClean, FailTarget, At, Raise, git
    <3>2. CASE GatesApprove(w)
      <4>1. UNCHANGED status \/ Move(w, "committing", {})
        BY <3>2 DEF GatesApprove, Raise, storeVars
      <4>2. QED BY <1>6, <3>1, <4>1, InFlightStatuses
    <3>3. CASE ~GatesApprove(w)
      <4>1. UNCHANGED status
        BY <2>2, <3>3 DEF Reload, GatesReject, LockForCommit, ReadCommit, RecordCommitted,
                          DirtyAfterCommit, ProveClean, FailTarget, Advance, AdvanceRepoTarget, Raise, storeVars
      <4>2. QED BY <1>6, <3>1, <4>1
    <3>4. QED BY <3>2, <3>3
  <2>3. QED
    BY <1>5, <1>7, <1>8, <1>9, <1>10, <2>1, <2>2, NothingToRecover
       DEF DrainStep, Apply, Verify, Commit
<1>11. QED BY <1>3, <1>4, <1>10, NothingToRecover DEF DrainNext

(* In fair weather the three invariants hold together ...                   *)
LEMMA FairWeatherInvariants == FairWeather => (DrainSpec => [](RowsInv /\ TreesInv /\ CommitsInv))
<1>1. DrainInit => RowsInv /\ TreesInv /\ CommitsInv
  BY RowsStart, TreesStart DEF DrainInit, StoreInit, Idle, CommitsInv, CommitCarriesOwnPatch
<1>2. FairWeather /\ DrainInv /\ RowsInv /\ TreesInv /\ CommitsInv /\ [DrainNext]_vars
        => (RowsInv /\ TreesInv /\ CommitsInv)'
  BY RowsHold, TreesHold, CommitsHold
<1>3. CASE FairWeather
  BY <1>1, <1>2, <1>3, DrainInvariant, PTL DEF DrainSpec
<1>4. QED BY <1>3

(* ... so that no commit a lane reports integrated is lost from HEAD, ...   *)
THEOREM FairWeatherKeepsCommits == FairWeather => (DrainSpec => []IntegratedCommitsSurvive)
<1>1. DrainInv /\ CommitsInv => IntegratedCommitsSurvive
  BY DEF DrainInv, CommitsInv, CandidateTargetsClean, IntegratedCommitsSurvive, RepoTargets
<1>2. CASE FairWeather
  BY <1>1, <1>2, DrainInvariant, FairWeatherInvariants, PTL
<1>3. QED BY <1>2

(* ... no commit carries anything but the patch of the lane it is for, ...  *)
THEOREM FairWeatherOwnPatches == FairWeather => (DrainSpec => []CommitCarriesOwnPatch)
<1>1. CommitsInv => CommitCarriesOwnPatch
  BY DEF CommitsInv
<1>2. CASE FairWeather
  BY <1>1, <1>2, FairWeatherInvariants, PTL
<1>3. QED BY <1>2

(* ... and, lanes having one repository each, no lane that failed or was    *)
(* integrated leaves its patch uncommitted in a worktree.                   *)
THEOREM FairWeatherLeavesNoPatch ==
  FairWeather /\ SingleRepo => (DrainSpec => []NoPatchOutlivesItsLane)
<1>1. DrainInit => PatchInv
  BY DEF DrainInit, PatchInv
<1>2. FairWeather /\ SingleRepo /\ DrainInv /\ RowsInv /\ TreesInv /\ PatchInv /\ [DrainNext]_vars => PatchInv'
  BY PatchesHold
<1>3. DrainInv /\ RowsInv /\ TreesInv /\ PatchInv => NoPatchOutlivesItsLane
  <2>1. SUFFICES ASSUME DrainInv, RowsInv, TreesInv, PatchInv,
                        NEW r \in Repos, NEW i \in worktree[r] \cap Lanes
                 PROVE  status[i] \in {"applying", "verifying", "committing"}
    BY DEF NoPatchOutlivesItsLane
  <2>2. PICK w \in Sessions : drive[w].pc # "idle" /\ Lane(w) = i
    BY <2>1 DEF PatchInv, RowsInv, RowInv
  <2>3. PICK d : d = drive[w]
    OBVIOUS
  <2>4. d.lane = i /\ status[i] = StatusOf(d) /\ TreeAsHeld(d) /\ d.pc # "idle"
    BY <2>1, <2>2, <2>3, HolderIsCurrent DEF At, Lane, TreesInv
  <2>5. Own(d, r) \/ Mixed(d, r)
    BY <2>1, <2>4 DEF TreeAsHeld
  <2>6. ~Waits(d)
    BY <2>5 DEF Own, Mixed, Patched, Waits
  <2>7. QED BY <2>4, <2>6 DEF StatusOf
<1>4. CASE FairWeather /\ SingleRepo
  BY <1>1, <1>2, <1>3, <1>4, DrainInvariant, FairWeatherInvariants, PTL DEF DrainSpec
<1>5. QED BY <1>4
=============================================================================
