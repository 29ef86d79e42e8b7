-------------------------- MODULE ClaudePoolProofs --------------------------
(***************************************************************************)
(* Theorems about ClaudePool: what a call's jobs have come to when it asks *)
(* the next profile, starts another turn or returns, for any profiles,     *)
(* calls and turns and whatever runners die.                               *)
(***************************************************************************)
EXTENDS ClaudePool, FiniteSetTheorems, TLAPS

(* The turns of a call, and the jobs it may submit in one.                  *)
Turns == 1 .. MaxTurns
Tries == 1 .. Cardinality(Profiles)

(* What a job file and its runner's task may be ...                         *)
JobRecords == [dir : Directories, profile : Profiles \cup {NoProfile},
               verdict : Answers \cup Failures \cup {"none"}, stale : BOOLEAN,
               task : {"none", "claimed", "working", "written"}]

(* ... and the locals of a call.                                            *)
CallRecords == [pc : Selecting \cup Polling \cup Ended, turn : Turns,
                tries : 0 .. Cardinality(Profiles),
                first : Profiles \cup {NoProfile}, attempted : SUBSET Profiles]

(* Who may hold the lock, in which phase of a selection.                    *)
Pickings == [by : Calls \cup {NoCall}, phase : {"idle", "refresh", "last_resort"},
             left : SUBSET Profiles, probing : Profiles \cup {NoProfile}]

(* The type invariant.                                                      *)
PoolTypeOK ==
  /\ job \in [Jobs -> JobRecords]
  /\ call \in [Calls -> CallRecords]
  /\ record \in [Profiles -> {"clear", "marked", "due"}]
  /\ picking \in Pickings
  /\ crashes \in Nat

(* A job whose call may go on without it.                                   *)
Settled(x) ==
  \/ x.dir = "none"
  \/ x.dir = "failed" /\ x.verdict = "limited"
  \/ x.dir = "done" /\ x.verdict = "invalid"

(* A runner has a task for what is in running/ only, and what it moves on   *)
(* has its result.                                                          *)
JobInv(x) ==
  /\ x.task # "none" => x.dir = "running"
  /\ x.task = "written" => x.verdict # "none"
  /\ x.dir = "done" => x.verdict \in Answers
  /\ x.dir = "failed" => x.verdict \in Failures

(* What was submitted is what the call counted; all but the last is settled *)
(* and went to a profile the call has noted.                                *)
SubmittedInv(c) ==
  \A t \in Turns, k \in Tries :
    /\ t > call[c].turn \/ (t = call[c].turn /\ k > call[c].tries) => job[<<c, t, k>>].dir = "none"
    /\ t = call[c].turn /\ k <= call[c].tries => job[<<c, t, k>>].profile \in call[c].attempted
    /\ t # call[c].turn \/ k # call[c].tries => Settled(job[<<c, t, k>>])

(* The jobs of one turn are on different profiles.                          *)
VisitsInv(c) ==
  \A t \in Turns : \A k, l \in Tries :
    k # l /\ job[<<c, t, k>>].dir # "none" /\ job[<<c, t, l>>].dir # "none"
      => job[<<c, t, k>>].profile # job[<<c, t, l>>].profile

(* What the last job has come to at each step of the call.                  *)
LastInv(c) ==
  LET x == job[Job(c)] IN
  /\ call[c].pc \in {"select_first", "select_again"} => call[c].tries = 0 /\ call[c].attempted = {}
  /\ call[c].pc \in {"select_again", "select_next"} \cup Polling => call[c].first \in Profiles
  /\ call[c].pc \in Polling \cup {"select_next", "answered", "rejected", "errored"} => call[c].tries \in Tries
  /\ call[c].pc \in {"select_next", "exhausted"} /\ call[c].tries # 0 => Settled(x)
  /\ call[c].pc \in {"answered", "rejected"} => x.dir = "done"
  /\ call[c].pc = "answered" => x.verdict = "valid"
  /\ call[c].pc = "rejected" => x.verdict = "invalid"
  /\ call[c].pc = "errored" => x.dir = "failed"
  /\ picking.by = c => call[c].pc \in Selecting

(* The inductive invariant.                                                 *)
PoolInv ==
  /\ PoolTypeOK
  /\ \A j \in Jobs : JobInv(job[j])
  /\ \A c \in Calls : SubmittedInv(c) /\ VisitsInv(c) /\ LastInv(c)

----------------------------------------------------------------------------
(* The number of profiles is positive ...                                   *)
LEMMA SomeProfiles == Cardinality(Profiles) \in Nat \ {0}
BY PoolAssumption, FS_CardinalityType, FS_EmptySet

(* ... and a job is named by its call, turn and attempt.                    *)
LEMMA JobNames ==
  /\ \A c \in Calls, t \in Turns, k \in Tries : <<c, t, k>> \in Jobs
  /\ \A j \in Jobs : \E c \in Calls, t \in Turns, k \in Tries : j = <<c, t, k>>
BY DEF Jobs, Turns, Tries

(* At the start nothing was submitted.                                      *)
LEMMA PoolStart == PoolInit => PoolInv
<1>1. ASSUME PoolInit PROVE PoolInv
  <2>1. PoolTypeOK
    <3>1. job \in [Jobs -> JobRecords]
      BY <1>1 DEF PoolInit, JobRecords, Directories
    <3>2. call \in [Calls -> CallRecords]
      BY <1>1, SomeProfiles, PoolAssumption DEF PoolInit, CallRecords, Selecting, Turns
    <3>3. QED BY <1>1, <3>1, <3>2 DEF PoolInit, PoolTypeOK, Pickings, Free
  <2>2. \A j \in Jobs : job[j].dir = "none" /\ job[j].task = "none"
    BY <1>1 DEF PoolInit
  <2>3. \A j \in Jobs : JobInv(job[j])
    BY <2>2 DEF JobInv
  <2>4. ASSUME NEW c \in Calls PROVE SubmittedInv(c) /\ VisitsInv(c) /\ LastInv(c)
    <3>1. call[c].pc = "select_first" /\ call[c].tries = 0 /\ call[c].turn = 1
          /\ call[c].attempted = {} /\ picking.by # c
      BY <1>1, PoolAssumption DEF PoolInit, Free
    <3>2. SubmittedInv(c)
      BY <2>2, <3>1, JobNames DEF SubmittedInv, Settled, Tries
    <3>3. VisitsInv(c)
      BY <2>2, JobNames DEF VisitsInv
    <3>4. QED BY <3>1, <3>2, <3>3 DEF LastInv, Selecting, Polling
  <2>5. QED BY <2>1, <2>3, <2>4 DEF PoolInv
<1>2. QED BY <1>1

(* A job that a call does not wait for is settled.                          *)
LEMMA LiveIsLast ==
  ASSUME PoolInv, NEW c \in Calls, NEW t \in Turns, NEW k \in Tries,
         job[<<c, t, k>>].dir \in Live
  PROVE  /\ t = call[c].turn /\ k = call[c].tries /\ Job(c) = <<c, t, k>>
         /\ call[c].pc \notin {"select_next", "answered", "rejected", "errored", "exhausted"}
<1>1. ~Settled(job[<<c, t, k>>])
  BY DEF Settled, Live
<1>2. t = call[c].turn /\ k = call[c].tries
  BY <1>1 DEF PoolInv, SubmittedInv
<1>3. Job(c) = <<c, t, k>> /\ call[c].tries # 0
  BY <1>2 DEF Job, Tries
<1>4. QED BY <1>1, <1>2, <1>3 DEF PoolInv, LastInv, Live

(* What a runner does to its jobs no call has passed by.                    *)
LEMMA RunnerKeeps ==
  ASSUME PoolInv, PoolTypeOK', UNCHANGED <<call, picking>>,
         \A j \in Jobs :
           \/ job'[j] = job[j]
           \/ /\ job[j].dir \in Live /\ JobInv(job'[j])
              /\ job'[j].profile = job[j].profile
  PROVE  PoolInv'
<1>1. \A j \in Jobs : JobInv(job'[j])
  BY DEF PoolInv
<1>2. ASSUME NEW c \in Calls PROVE SubmittedInv(c)' /\ VisitsInv(c)' /\ LastInv(c)'
  <2>1. SubmittedInv(c) /\ VisitsInv(c) /\ LastInv(c)
    BY DEF PoolInv
  <2>2. \A t \in Turns, k \in Tries :
          /\ \/ job'[<<c, t, k>>] = job[<<c, t, k>>]
             \/ job[<<c, t, k>>].dir # "none" /\ t = call[c].turn /\ k = call[c].tries
          /\ job'[<<c, t, k>>].profile = job[<<c, t, k>>].profile
    BY JobNames, LiveIsLast DEF Live
  <2>3. SubmittedInv(c)'
    BY <2>1, <2>2, SomeProfiles DEF SubmittedInv, Tries, Turns
  <2>4. VisitsInv(c)'
    <3>1. SUFFICES ASSUME NEW t \in Turns, NEW k \in Tries, NEW l \in Tries, k # l,
                          job'[<<c, t, k>>].dir # "none", job'[<<c, t, l>>].dir # "none"
                   PROVE  job'[<<c, t, k>>].profile # job'[<<c, t, l>>].profile
      BY DEF VisitsInv
    <3>2. job[<<c, t, k>>].dir # "none" /\ job[<<c, t, l>>].dir # "none"
      BY <2>2, <3>1
    <3>3. QED BY <2>1, <2>2, <3>1, <3>2 DEF VisitsInv
  <2>5. LastInv(c)'
    <3>1. Job(c)' = Job(c) /\ call[c] \in CallRecords
      BY DEF Job, PoolInv, PoolTypeOK
    <3>2. CASE call[c].tries \in Tries /\ job'[Job(c)] # job[Job(c)]
      <4>1. job[Job(c)].dir \in Live
        BY <3>1, <3>2, JobNames DEF Job, CallRecords
      <4>2. call[c].pc \notin {"select_next", "answered", "rejected", "errored", "exhausted"}
        BY <3>1, <3>2, <4>1, LiveIsLast DEF Job, CallRecords
      <4>3. QED BY <2>1, <3>1, <4>2 DEF LastInv
    <3>3. CASE call[c].tries \notin Tries \/ job'[Job(c)] = job[Job(c)]
      <4>1. call[c].tries \notin Tries => call[c].tries = 0
        BY <3>1, SomeProfiles DEF CallRecords, Tries
      <4>2. QED BY <2>1, <3>1, <3>3, <4>1 DEF LastInv, Tries
    <3>4. QED BY <3>2, <3>3
  <2>6. QED BY <2>3, <2>4, <2>5
<1>3. QED BY <1>1, <1>2 DEF PoolInv

(* A step of one call leaves the others what they know.                     *)
LEMMA CallKeeps ==
  ASSUME PoolInv, PoolTypeOK', NEW c \in Calls,
         \A d \in Calls \ {c} : call'[d] = call[d],
         \A d \in Calls \ {c}, t \in Turns, k \in Tries : job'[<<d, t, k>>] = job[<<d, t, k>>],
         picking'.by \in {picking.by, c, NoCall},
         \A j \in Jobs : JobInv(job'[j]),
         (SubmittedInv(c) /\ VisitsInv(c) /\ LastInv(c))'
  PROVE  PoolInv'
<1>1. ASSUME NEW d \in Calls \ {c} PROVE SubmittedInv(d)' /\ VisitsInv(d)' /\ LastInv(d)'
  <2>1. SubmittedInv(d) /\ VisitsInv(d) /\ LastInv(d) /\ call[d] \in CallRecords /\ call'[d] = call[d]
    BY DEF PoolInv, PoolTypeOK
  <2>2. SubmittedInv(d)' /\ VisitsInv(d)'
    BY <2>1 DEF SubmittedInv, VisitsInv
  <2>3. Job(d)' = Job(d) /\ (call[d].tries \in Tries => job'[Job(d)] = job[Job(d)])
    BY <2>1 DEF Job, CallRecords
  <2>4. call[d].tries \notin Tries => call[d].tries = 0
    BY <2>1, SomeProfiles DEF CallRecords, Tries
  <2>5. picking'.by = d => picking.by = d
    BY PoolAssumption
  <2>6. QED BY <2>1, <2>2, <2>3, <2>4, <2>5 DEF LastInv, Tries
<1>2. QED BY <1>1 DEF PoolInv

(* A step that submits nothing.                                             *)
LEMMA GotoKeeps ==
  ASSUME PoolInv, NEW c \in Calls, NEW l \in Selecting \cup Polling \cup Ended, Goto(c, l),
         UNCHANGED <<job, crashes>>, record' \in [Profiles -> {"clear", "marked", "due"}],
         picking' \in Pickings, picking'.by \in {picking.by, c, NoCall},
         LastInv(c)'
  PROVE  PoolInv'
<1>1. call \in [Calls -> CallRecords] /\ call' = [call EXCEPT ![c].pc = l]
  BY DEF PoolInv, PoolTypeOK, Goto
<1>2. PICK s : s = [call[c] EXCEPT !.pc = l]
  OBVIOUS
<1>3. s \in CallRecords /\ call' = [call EXCEPT ![c] = s]
  BY <1>1, <1>2 DEF CallRecords
<1>4. PoolTypeOK'
  BY <1>1, <1>3 DEF PoolInv, PoolTypeOK
<1>5. call'[c] = s /\ s.turn = call[c].turn /\ s.tries = call[c].tries /\ s.attempted = call[c].attempted
  BY <1>1, <1>2, <1>3 DEF CallRecords
<1>6. SubmittedInv(c)' /\ VisitsInv(c)'
  BY <1>5 DEF PoolInv, SubmittedInv, VisitsInv
<1>7. QED BY <1>1, <1>3, <1>4, <1>6, CallKeeps DEF PoolInv

(* What a call knows when it submits a job: the one before is settled, and  *)
(* the profile is new to the turn.                                          *)
Submits(c, s, p) ==
  /\ s \in CallRecords /\ s.first \in Profiles
  /\ s.tries < Cardinality(Profiles) /\ p \notin s.attempted
  /\ \/ /\ s.turn = call[c].turn /\ s.tries = call[c].tries /\ s.attempted = call[c].attempted
        /\ call[c].tries # 0 => Settled(job[Job(c)])
     \/ /\ s.turn = call[c].turn + 1 /\ s.tries = 0 /\ s.attempted = {}
        /\ Settled(job[Job(c)]) 

(* Then the new job is the only one the call waits for.                     *)
LEMMA SubmitKeeps ==
  ASSUME PoolInv, NEW c \in Calls, NEW s, NEW p \in Profiles,
         Submits(c, s, p), Submit(c, s, p), UNCHANGED crashes,
         record' \in [Profiles -> {"clear", "marked", "due"}],
         picking' \in Pickings, picking'.by # c, picking'.by \in {picking.by, NoCall}
  PROVE  PoolInv'
<1>1. PICK u : u = [s EXCEPT !.pc = "done?", !.tries = @ + 1, !.attempted = @ \cup {p}]
  OBVIOUS
<1>2. PICK x : x = [dir |-> "queued", profile |-> p, verdict |-> "none", stale |-> FALSE, task |-> "none"]
  OBVIOUS
<1>3. /\ call' = [call EXCEPT ![c] = u]
      /\ job' = [job EXCEPT ![<<c, u.turn, u.tries>>] = x]
  BY <1>1, <1>2 DEF Submit
<1>4. /\ u \in CallRecords /\ u.tries \in Tries /\ u.turn \in Turns
      /\ u.pc = "done?" /\ u.first \in Profiles /\ u.turn = s.turn
      /\ u.tries = s.tries + 1 /\ u.attempted = s.attempted \cup {p}
  <2>1. /\ s.turn \in Turns /\ s.tries \in 0 .. Cardinality(Profiles) /\ s.attempted \subseteq Profiles
        /\ s.first \in Profiles /\ s.tries < Cardinality(Profiles)
    BY DEF Submits, CallRecords
  <2>2. s \in CallRecords
    BY DEF Submits
  <2>3. /\ u.pc = "done?" /\ u.turn = s.turn /\ u.first = s.first
        /\ u.tries = s.tries + 1 /\ u.attempted = s.attempted \cup {p}
    BY <1>1, <2>2 DEF CallRecords
  <2>4. u.tries \in Tries
    BY <2>1, <2>3, SomeProfiles DEF Tries
  <2>5. u = [pc |-> u.pc, turn |-> u.turn, tries |-> u.tries, first |-> u.first, attempted |-> u.attempted]
    BY <1>1, <2>2 DEF CallRecords
  <2>6. u.tries \in 0 .. Cardinality(Profiles)
    BY <2>4, SomeProfiles DEF Tries
  <2>7. u.pc \in Selecting \cup Polling \cup Ended
    BY <2>3 DEF Polling
  <2>8. u \in CallRecords
    BY <2>1, <2>3, <2>5, <2>6, <2>7 DEF CallRecords
  <2>9. QED BY <2>1, <2>3, <2>4, <2>8
<1>5. x \in JobRecords /\ JobInv(x) /\ x.dir = "queued" /\ x.profile = p
  BY <1>2 DEF JobRecords, Directories, JobInv
<1>6. call \in [Calls -> CallRecords] /\ job \in [Jobs -> JobRecords] /\ <<c, u.turn, u.tries>> \in Jobs
  BY <1>4, JobNames DEF PoolInv, PoolTypeOK
<1>7. call'[c] = u /\ \A d \in Calls \ {c} : call'[d] = call[d]
  BY <1>3, <1>6
<1>8. \A d \in Calls, t \in Turns, k \in Tries :
        job'[<<d, t, k>>] = IF d = c /\ t = u.turn /\ k = u.tries THEN x ELSE job[<<d, t, k>>]
  BY <1>3, <1>6, JobNames
<1>9. PoolTypeOK'
  BY <1>3, <1>4, <1>5, <1>6 DEF PoolInv, PoolTypeOK
<1>10. \A j \in Jobs : JobInv(job'[j])
  BY <1>3, <1>5, <1>6 DEF PoolInv
<1>11. SubmittedInv(c)'
  <2>1. SUFFICES ASSUME NEW t \in Turns, NEW k \in Tries
        PROVE  LET y == job'[<<c, t, k>>] IN
               /\ t > u.turn \/ (t = u.turn /\ k > u.tries) => y.dir = "none"
               /\ t = u.turn /\ k <= u.tries => y.profile \in u.attempted
               /\ t # u.turn \/ k # u.tries => Settled(y)
    BY <1>7 DEF SubmittedInv
  <2>2. CASE t = u.turn /\ k = u.tries
    BY <1>4, <1>5, <1>8, <2>2 DEF Turns, Tries
  <2>3. CASE ~(t = u.turn /\ k = u.tries)
    <3>1. job'[<<c, t, k>>] = job[<<c, t, k>>]
      BY <1>8, <2>3
    <3>2. /\ t > call[c].turn \/ (t = call[c].turn /\ k > call[c].tries) => job[<<c, t, k>>].dir = "none"
          /\ t = call[c].turn /\ k <= call[c].tries => job[<<c, t, k>>].profile \in call[c].attempted
          /\ t # call[c].turn \/ k # call[c].tries => Settled(job[<<c, t, k>>])
      BY DEF PoolInv, SubmittedInv
    <3>3. call[c].turn \in Nat /\ call[c].tries \in Nat /\ t \in Nat /\ k \in Nat \ {0}
      BY <1>6, SomeProfiles DEF CallRecords, Turns, Tries
    <3>4. t = call[c].turn /\ k = call[c].tries => Settled(job[<<c, t, k>>])
      BY <3>3 DEF Submits, Job
    <3>5. Settled(job[<<c, t, k>>])
      BY <3>2, <3>4
    <3>6. QED BY <1>4, <2>3, <3>1, <3>2, <3>3, <3>5 DEF Submits
  <2>4. QED BY <2>2, <2>3
<1>12. VisitsInv(c)'
  <2>1. SUFFICES ASSUME NEW t \in Turns, NEW k \in Tries, NEW l \in Tries, k # l,
                        job'[<<c, t, k>>].dir # "none", job'[<<c, t, l>>].dir # "none"
                 PROVE  job'[<<c, t, k>>].profile # job'[<<c, t, l>>].profile
    BY DEF VisitsInv
  <2>2. ASSUME NEW m \in Tries, m # u.tries, job[<<c, u.turn, m>>].dir # "none"
        PROVE  job[<<c, u.turn, m>>].profile # p
    <3>1. call[c].turn \in Nat /\ call[c].tries \in Nat /\ u.turn \in Turns /\ m \in Nat
      BY <1>4, <1>6, <2>2, SomeProfiles DEF CallRecords, Turns, Tries
    <3>2. ~(u.turn > call[c].turn) /\ ~(u.turn = call[c].turn /\ m > call[c].tries)
      BY <2>2, <3>1 DEF PoolInv, SubmittedInv
    <3>3. u.turn = call[c].turn /\ u.attempted = call[c].attempted \cup {p} /\ m <= call[c].tries
      BY <1>4, <3>1, <3>2 DEF Submits, Turns
    <3>4. job[<<c, u.turn, m>>].profile \in call[c].attempted
      BY <3>1, <3>3 DEF PoolInv, SubmittedInv
    <3>5. QED BY <1>4, <3>3, <3>4, <3>1 DEF Submits, Turns
  <2>3. CASE t = u.turn /\ (k = u.tries \/ l = u.tries)
    BY <1>5, <1>8, <2>1, <2>2, <2>3
  <2>4. CASE ~(t = u.turn /\ (k = u.tries \/ l = u.tries))
    BY <1>8, <2>1, <2>4 DEF PoolInv, VisitsInv
  <2>5. QED BY <2>3, <2>4
<1>13. LastInv(c)'
  BY <1>4, <1>7 DEF LastInv, Polling
<1>14. QED BY <1>7, <1>8, <1>9, <1>10, <1>11, <1>12, <1>13, CallKeeps

(* The runners.                                                             *)
LEMMA RunnersKeep ==
  ASSUME PoolInv,
         \/ \E j \in Jobs : Claim(j) \/ Serve(j) \/ Age(j)
         \/ \E p \in Profiles : CrashRunner(p)
  PROVE  PoolInv'
<1>1. /\ job \in [Jobs -> JobRecords] /\ UNCHANGED <<call, picking, record>>
      /\ \A j \in Jobs : JobInv(job[j]) /\ job[j] \in JobRecords
  BY DEF PoolInv, PoolTypeOK, Claim, Serve, Stamp, Finish, WriteResult, Age, CrashRunner
<1>2. ASSUME NEW j \in Jobs, NEW x \in JobRecords, job' = [job EXCEPT ![j] = x], UNCHANGED crashes,
             job[j].dir \in Live, JobInv(x), x.profile = job[j].profile
      PROVE  PoolInv'
  <2>1. PoolTypeOK'
    BY <1>1, <1>2 DEF PoolInv, PoolTypeOK
  <2>2. QED BY <1>1, <1>2, <2>1, RunnerKeeps
<1>3. ASSUME NEW j \in Jobs, Claim(j) PROVE PoolInv'
  <2>1. PICK x : x = [job[j] EXCEPT !.dir = "running", !.task = "claimed"]
    OBVIOUS
  <2>2. x \in JobRecords /\ JobInv(x) /\ x.profile = job[j].profile
    BY <1>1, <2>1 DEF JobRecords, Directories, JobInv
  <2>3. job' = [job EXCEPT ![j] = x] /\ job[j].dir \in Live /\ UNCHANGED crashes
    BY <1>3, <2>1 DEF Claim, Live
  <2>4. QED BY <1>2, <2>2, <2>3
<1>4. ASSUME NEW j \in Jobs, Stamp(j) PROVE PoolInv'
  <2>1. PICK x : x = [job[j] EXCEPT !.task = "working", !.stale = FALSE]
    OBVIOUS
  <2>2. job[j].dir = "running"
    BY <1>1, <1>4 DEF Stamp, JobInv
  <2>3. x \in JobRecords /\ JobInv(x) /\ x.profile = job[j].profile
    BY <1>1, <2>1, <2>2 DEF JobRecords, JobInv
  <2>4. job' = [job EXCEPT ![j] = x] /\ UNCHANGED crashes
    BY <1>4, <2>1 DEF Stamp
  <2>5. QED BY <1>2, <2>2, <2>3, <2>4 DEF Live
<1>5. ASSUME NEW j \in Jobs, NEW verdict \in Answers \cup Failures, WriteResult(j, verdict) PROVE PoolInv'
  <2>1. PICK x : x = [job[j] EXCEPT !.verdict = verdict, !.task = "written", !.stale = FALSE]
    OBVIOUS
  <2>2. job[j].dir = "running"
    BY <1>1, <1>5 DEF WriteResult, JobInv
  <2>3. x \in JobRecords /\ JobInv(x) /\ x.profile = job[j].profile
    BY <1>1, <2>1, <2>2 DEF JobRecords, JobInv, Answers, Failures
  <2>4. job' = [job EXCEPT ![j] = x] /\ UNCHANGED crashes
    BY <1>5, <2>1 DEF WriteResult
  <2>5. QED BY <1>2, <2>2, <2>3, <2>4 DEF Live
<1>6. ASSUME NEW j \in Jobs, Finish(j) PROVE PoolInv'
  <2>1. PICK x : x = [job[j] EXCEPT !.dir = IF job[j].verdict \in Answers THEN "done" ELSE "failed",
                                    !.task = "none", !.stale = FALSE]
    OBVIOUS
  <2>2. job[j].dir = "running" /\ job[j].verdict \in Answers \cup Failures
    BY <1>1, <1>6 DEF Finish, JobInv, JobRecords
  <2>3. x \in JobRecords /\ JobInv(x) /\ x.profile = job[j].profile
    BY <1>1, <2>1, <2>2 DEF JobRecords, Directories, JobInv
  <2>4. job' = [job EXCEPT ![j] = x] /\ UNCHANGED crashes
    BY <1>6, <2>1 DEF Finish
  <2>5. QED BY <1>2, <2>2, <2>3, <2>4 DEF Live
<1>7. ASSUME NEW j \in Jobs, Age(j) PROVE PoolInv'
  <2>1. PICK x : x = [job[j] EXCEPT !.stale = TRUE]
    OBVIOUS
  <2>2. x \in JobRecords /\ JobInv(x) /\ x.profile = job[j].profile
    BY <1>1, <2>1 DEF JobRecords, JobInv
  <2>3. job' = [job EXCEPT ![j] = x] /\ job[j].dir \in Live /\ UNCHANGED crashes
    BY <1>7, <2>1 DEF Age
  <2>4. QED BY <1>2, <2>2, <2>3
<1>8. ASSUME NEW p \in Profiles, CrashRunner(p) PROVE PoolInv'
  <2>1. \A j \in Jobs : job'[j] = IF job[j].profile = p THEN [job[j] EXCEPT !.task = "none"] ELSE job[j]
    BY <1>8 DEF CrashRunner
  <2>2. ASSUME NEW j \in Jobs
        PROVE  /\ job'[j] \in JobRecords
               /\ \/ job'[j] = job[j]
                  \/ job[j].dir \in Live /\ JobInv(job'[j]) /\ job'[j].profile = job[j].profile
    <3>1. job[j] \in JobRecords /\ JobInv(job[j])
      BY <1>1
    <3>2. CASE job[j].profile # p \/ job[j].task = "none"
      <4>1. job[j].task = "none" => [job[j] EXCEPT !.task = "none"] = job[j]
        BY <3>1 DEF JobRecords
      <4>2. QED BY <2>1, <3>1, <3>2, <4>1
    <3>3. CASE job[j].profile = p /\ job[j].task # "none"
      <4>1. PICK x : x = [job[j] EXCEPT !.task = "none"]
        OBVIOUS
      <4>2. x \in JobRecords /\ JobInv(x) /\ x.profile = job[j].profile
        BY <3>1, <4>1 DEF JobRecords, JobInv
      <4>3. QED BY <2>1, <3>1, <3>3, <4>1, <4>2 DEF JobInv, Live
    <3>4. QED BY <3>2, <3>3
  <2>3. PoolTypeOK'
    <3>1. job' \in [Jobs -> JobRecords]
      BY <1>8, <2>2 DEF CrashRunner
    <3>2. crashes' \in Nat
      BY <1>8 DEF CrashRunner, PoolInv, PoolTypeOK
    <3>3. QED BY <1>1, <3>1, <3>2 DEF PoolInv, PoolTypeOK
  <2>4. QED BY <1>1, <2>2, <2>3, RunnerKeeps
<1>9. QED BY <1>3, <1>4, <1>5, <1>6, <1>7, <1>8 DEF Serve

(* A step that moves no call.                                               *)
LEMMA LookKeeps ==
  ASSUME PoolInv, UNCHANGED <<job, call, crashes>>,
         record' \in [Profiles -> {"clear", "marked", "due"}], picking' \in Pickings,
         \A c \in Calls : picking'.by = c => call[c].pc \in Selecting
  PROVE  PoolInv'
<1>1. PoolTypeOK'
  BY DEF PoolInv, PoolTypeOK
<1>2. ASSUME NEW c \in Calls PROVE SubmittedInv(c)' /\ VisitsInv(c)' /\ LastInv(c)'
  <2>1. SubmittedInv(c) /\ VisitsInv(c) /\ LastInv(c)
    BY DEF PoolInv
  <2>2. SubmittedInv(c)' /\ VisitsInv(c)'
    BY <2>1 DEF SubmittedInv, VisitsInv
  <2>3. Job(c)' = Job(c)
    BY DEF Job
  <2>4. QED BY <2>1, <2>2, <2>3 DEF LastInv
<1>3. QED BY <1>1, <1>2 DEF PoolInv

(* A call that finds no profile ends with all its jobs settled.             *)
LEMMA ExhaustedKeeps ==
  ASSUME PoolInv, NEW c \in Calls, call[c].pc \in Selecting, Goto(c, "exhausted"), picking' = Free,
         UNCHANGED <<job, crashes>>, record' \in [Profiles -> {"clear", "marked", "due"}]
  PROVE  PoolInv'
<1>1. call \in [Calls -> CallRecords] /\ call' = [call EXCEPT ![c].pc = "exhausted"]
  BY DEF PoolInv, PoolTypeOK, Goto
<1>2. call'[c].pc = "exhausted" /\ Job(c)' = Job(c) /\ call'[c].tries = call[c].tries
  BY <1>1 DEF CallRecords, Job
<1>3. call[c].tries # 0 => Settled(job[Job(c)])
  BY DEF PoolInv, LastInv, Selecting
<1>4. picking' \in Pickings /\ picking'.by = NoCall /\ NoCall # c
  BY PoolAssumption DEF Free, Pickings
<1>5. LastInv(c)'
  BY <1>2, <1>3, <1>4 DEF LastInv, Polling
<1>6. QED BY <1>4, <1>5, GotoKeeps DEF Ended

(* A selection that chose p.                                                *)
LEMMA ChosenKeeps ==
  ASSUME PoolInv, NEW c \in Calls, NEW p \in Profiles, call[c].pc \in Selecting, Chosen(c, p),
         UNCHANGED crashes, record' \in [Profiles -> {"clear", "marked", "due"}]
  PROVE  PoolInv'
<1>1. call[c] \in CallRecords /\ LastInv(c)
  BY DEF PoolInv, PoolTypeOK
<1>2. picking' = Free /\ picking' \in Pickings /\ picking'.by = NoCall /\ NoCall # c
  BY PoolAssumption DEF Chosen, Free, Pickings
<1>3. CASE At(c, "select_next") /\ (p \in call[c].attempted \/ call[c].tries = Cardinality(Profiles))
  BY <1>2, <1>3, ExhaustedKeeps DEF Chosen
<1>4. CASE ~(At(c, "select_next") /\ (p \in call[c].attempted \/ call[c].tries = Cardinality(Profiles)))
  <2>1. PICK s : s = IF At(c, "select_first") THEN [call[c] EXCEPT !.first = p] ELSE call[c]
    OBVIOUS
  <2>2. /\ s \in CallRecords /\ s.first \in Profiles
        /\ s.turn = call[c].turn /\ s.tries = call[c].tries /\ s.attempted = call[c].attempted
    <3>1. CASE At(c, "select_first")
      BY <1>1, <2>1, <3>1 DEF CallRecords
    <3>2. CASE ~At(c, "select_first")
      BY <1>1, <2>1, <3>2 DEF LastInv, At, Selecting
    <3>3. QED BY <3>1, <3>2
  <2>3. p \notin call[c].attempted /\ call[c].tries < Cardinality(Profiles)
    <3>1. CASE At(c, "select_next")
      BY <1>1, <1>4, <3>1, SomeProfiles DEF CallRecords
    <3>2. CASE call[c].pc \in {"select_first", "select_again"}
      BY <1>1, <3>2, SomeProfiles DEF LastInv
    <3>3. QED BY <3>1, <3>2 DEF At, Selecting
  <2>4. call[c].tries # 0 => Settled(job[Job(c)])
    BY <1>1 DEF LastInv, Selecting
  <2>5. Submits(c, s, p)
    BY <2>2, <2>3, <2>4 DEF Submits
  <2>6. Submit(c, s, p)
    BY <1>4, <2>1 DEF Chosen
  <2>7. QED BY <1>2, <2>5, <2>6, SubmitKeeps
<1>5. QED BY <1>3, <1>4

(* Selections.                                                              *)
LEMMA SelectKeeps == ASSUME PoolInv, NEW c \in Calls, Select(c) PROVE PoolInv'
<1>1. /\ picking \in Pickings /\ record \in [Profiles -> {"clear", "marked", "due"}]
      /\ \A d \in Calls : picking.by = d => call[d].pc \in Selecting
  BY DEF PoolInv, PoolTypeOK, LastInv
<1>2. CASE Acquire(c)
  <2>1. picking' \in Pickings /\ picking'.by = c
    BY <1>2 DEF Acquire, Pickings, Due
  <2>2. QED BY <1>1, <1>2, <2>1, LookKeeps DEF Acquire
<1>3. ASSUME NEW p \in Profiles, StartProbe(c, p) PROVE PoolInv'
  <2>1. picking' \in Pickings /\ picking'.by = picking.by
    BY <1>1, <1>3 DEF StartProbe, Pickings
  <2>2. QED BY <1>1, <1>3, <2>1, LookKeeps DEF StartProbe
<1>4. ASSUME NEW p \in Profiles, Choose(c, p) PROVE PoolInv'
  <2>1. call[c].pc \in Selecting
    BY <1>1, <1>4 DEF Choose, Picks
  <2>2. QED BY <1>1, <1>4, <2>1, ChosenKeeps DEF Choose
<1>5. CASE LastResort(c)
  <2>1. picking' \in Pickings /\ picking'.by = picking.by
    BY <1>1, <1>5 DEF LastResort, Pickings
  <2>2. QED BY <1>1, <1>5, <2>1, LookKeeps DEF LastResort
<1>6. CASE NoneAvailable(c)
  BY <1>1, <1>6, ExhaustedKeeps DEF NoneAvailable, Picks
<1>7. CASE EndProbe(c)
  <2>1. PICK p \in Profiles : p = picking.probing
    BY <1>1, <1>7 DEF EndProbe, Pickings
  <2>2. call[c].pc \in Selecting /\ UNCHANGED crashes
    BY <1>1, <1>7 DEF EndProbe
  <2>3. record' \in [Profiles -> {"clear", "marked", "due"}]
    BY <1>1, <1>7, <2>1 DEF EndProbe
  <2>4. CASE picking' = [picking EXCEPT !.probing = NoProfile] /\ UNCHANGED <<job, call>>
    <3>1. picking' \in Pickings /\ picking'.by = picking.by
      BY <1>1, <2>4 DEF Pickings
    <3>2. QED BY <1>1, <2>2, <2>3, <2>4, <3>1, LookKeeps
  <2>5. CASE Chosen(c, p)
    BY <2>1, <2>2, <2>3, <2>5, ChosenKeeps
  <2>6. QED BY <1>7, <2>1, <2>4, <2>5 DEF EndProbe
<1>8. QED BY <1>2, <1>3, <1>4, <1>5, <1>6, <1>7 DEF Select

(* An answer that does not validate starts the next turn.                   *)
LEMMA TurnKeeps ==
  ASSUME PoolInv, NEW c \in Calls, At(c, "done?"), ~LastTurn(c), StartTurn(c),
         Settled(job[Job(c)]), UNCHANGED <<record, picking, crashes>>
  PROVE  PoolInv'
<1>1. /\ call[c] \in CallRecords /\ LastInv(c) /\ picking \in Pickings
      /\ record \in [Profiles -> {"clear", "marked", "due"}] /\ call \in [Calls -> CallRecords]
  BY DEF PoolInv, PoolTypeOK
<1>2. call[c].first \in Profiles /\ picking.by # c /\ call[c].turn + 1 \in Turns
  <2>1. call[c].turn \in Turns /\ call[c].turn # MaxTurns
    BY <1>1 DEF LastTurn, CallRecords
  <2>2. call[c].first \in Profiles /\ picking.by # c
    BY <1>1 DEF LastInv, At, Polling, Selecting
  <2>3. QED BY <2>1, <2>2, PoolAssumption DEF Turns
<1>3. PICK s : s = [call[c] EXCEPT !.turn = @ + 1, !.tries = 0, !.attempted = {}]
  OBVIOUS
<1>4. /\ s \in CallRecords /\ s.turn = call[c].turn + 1 /\ s.tries = 0 /\ s.attempted = {}
      /\ s.first = call[c].first
  <2>1. 0 \in 0 .. Cardinality(Profiles)
    BY SomeProfiles
  <2>2. QED BY <1>1, <1>2, <1>3, <2>1 DEF CallRecords
<1>5. CASE Submit(c, s, s.first)
  <2>1. Submits(c, s, s.first)
    BY <1>2, <1>4, SomeProfiles DEF Submits
  <2>2. QED BY <1>1, <1>2, <1>4, <1>5, <2>1, SubmitKeeps
<1>6. CASE call' = [call EXCEPT ![c] = [s EXCEPT !.pc = "select_again"]] /\ UNCHANGED job
  <2>1. PICK u : u = [s EXCEPT !.pc = "select_again"]
    OBVIOUS
  <2>2. /\ u \in CallRecords /\ u.pc = "select_again" /\ u.turn = call[c].turn + 1 /\ u.tries = 0
        /\ u.attempted = {} /\ u.first \in Profiles
    BY <1>2, <1>4, <2>1 DEF CallRecords, Selecting
  <2>3. call' = [call EXCEPT ![c] = u] /\ call'[c] = u
    BY <1>1, <1>6, <2>1
  <2>4. PoolTypeOK'
    BY <1>1, <1>6, <2>2, <2>3 DEF PoolInv, PoolTypeOK
  <2>5. SubmittedInv(c)'
    <3>1. ASSUME NEW t \in Turns, NEW k \in Tries
          PROVE  /\ t > u.turn \/ (t = u.turn /\ k > u.tries) => job[<<c, t, k>>].dir = "none"
                 /\ ~(t = u.turn /\ k <= u.tries)
                 /\ Settled(job[<<c, t, k>>])
      <4>1. /\ t > call[c].turn \/ (t = call[c].turn /\ k > call[c].tries) => job[<<c, t, k>>].dir = "none"
            /\ t # call[c].turn \/ k # call[c].tries => Settled(job[<<c, t, k>>])
        BY DEF PoolInv, SubmittedInv
      <4>2. call[c].turn \in Nat /\ call[c].tries \in Nat /\ t \in Nat /\ k \in Nat \ {0}
        BY <1>1, SomeProfiles DEF CallRecords, Turns, Tries
      <4>3. t = call[c].turn /\ k = call[c].tries => Settled(job[<<c, t, k>>])
        BY DEF Job
      <4>4. QED BY <2>2, <4>1, <4>2, <4>3
    <3>2. QED BY <1>6, <2>3, <3>1 DEF SubmittedInv
  <2>6. VisitsInv(c)'
    BY <1>6 DEF PoolInv, VisitsInv
  <2>7. LastInv(c)'
    BY <1>2, <2>2, <2>3 DEF LastInv, Polling
  <2>8. QED BY <1>6, <2>3, <2>4, <2>5, <2>6, <2>7, CallKeeps DEF PoolInv
<1>7. QED BY <1>2, <1>3, <1>4, <1>5, <1>6 DEF StartTurn

(* A look of the polling loop.                                              *)
LEMMA PollGoto ==
  ASSUME PoolInv, NEW c \in Calls, call[c].pc \in Polling,
         NEW l \in Polling \cup (Ended \ {"exhausted"}) \cup {"select_next"}, Goto(c, l),
         UNCHANGED <<job, picking, crashes>>, record' \in [Profiles -> {"clear", "marked", "due"}],
         l = "select_next" => Settled(job[Job(c)]),
         l \in {"answered", "rejected"} => job[Job(c)].dir = "done",
         l = "answered" => job[Job(c)].verdict = "valid",
         l = "rejected" => job[Job(c)].verdict = "invalid",
         l = "errored" => job[Job(c)].dir = "failed"
  PROVE  PoolInv'
<1>1. /\ call \in [Calls -> CallRecords] /\ call' = [call EXCEPT ![c].pc = l]
      /\ picking \in Pickings /\ LastInv(c)
  BY DEF PoolInv, PoolTypeOK, Goto
<1>2. /\ call'[c].pc = l /\ Job(c)' = Job(c)
      /\ call'[c].tries = call[c].tries /\ call'[c].first = call[c].first
  BY <1>1 DEF CallRecords, Job
<1>3. call[c].first \in Profiles /\ call[c].tries \in Tries /\ picking.by # c
  BY <1>1 DEF LastInv, Polling, Selecting
<1>4. l \notin {"select_first", "select_again", "exhausted"}
  BY DEF Polling, Ended
<1>5. LastInv(c)'
  BY <1>2, <1>3, <1>4 DEF LastInv
<1>6. QED BY <1>1, <1>5, GotoKeeps DEF Selecting, Ended

(* The polling loop.                                                        *)
LEMMA PollKeeps ==
  ASSUME PoolInv, NEW c \in Calls, Poll(c) \/ Capped(c)
  PROVE  PoolInv'
<1>1. /\ call[c] \in CallRecords /\ record \in [Profiles -> {"clear", "marked", "due"}]
      /\ job \in [Jobs -> JobRecords]
  BY DEF PoolInv, PoolTypeOK
<1>2. call[c].pc \in Polling /\ UNCHANGED <<picking, crashes>>
  BY DEF Poll, PollDone, PollFailed, PollRunning, PollQueued, Capped, At, Polling
<1>3. Job(c) \in Jobs /\ JobInv(job[Job(c)])
  <2>1. call[c].tries \in Tries
    BY <1>2 DEF PoolInv, LastInv
  <2>2. QED BY <1>1, <2>1, JobNames DEF Job, CallRecords, PoolInv
<1>4. CASE PollDone(c)
  <2>1. CASE Dir(c) # "done"
    BY <1>1, <1>2, <1>4, <2>1, PollGoto DEF PollDone, Polling
  <2>2. CASE Dir(c) = "done" /\ job[Job(c)].verdict = "valid"
    <3>1. Goto(c, "answered") /\ UNCHANGED <<job, record>>
      BY <1>4, <2>2 DEF PollDone, Answers
    <3>2. QED BY <1>1, <1>2, <2>2, <3>1, PollGoto DEF Dir, Ended
  <2>3. CASE Dir(c) = "done" /\ job[Job(c)].verdict = "invalid"
    <3>1. CASE LastTurn(c) /\ Goto(c, "rejected") /\ UNCHANGED job
      <4>1. UNCHANGED record
        BY <1>4 DEF PollDone
      <4>2. QED BY <1>1, <1>2, <2>3, <3>1, <4>1, PollGoto DEF Dir, Ended
    <3>2. CASE ~LastTurn(c) /\ StartTurn(c)
      <4>1. Settled(job[Job(c)])
        BY <2>3 DEF Dir, Settled
      <4>2. QED BY <1>4, <3>2, <4>1, TurnKeeps DEF PollDone
    <3>3. QED BY <1>4, <2>3, <3>1, <3>2 DEF PollDone, Answers
  <2>4. QED BY <1>3, <2>1, <2>2, <2>3 DEF JobInv, Answers, Dir
<1>5. CASE PollFailed(c)
  <2>1. UNCHANGED job /\ record' \in [Profiles -> {"clear", "marked", "due"}]
    BY <1>1, <1>5 DEF PollFailed
  <2>2. CASE Goto(c, "running?")
    BY <1>2, <2>1, <2>2, PollGoto DEF Polling
  <2>3. CASE Dir(c) = "failed" /\ Goto(c, "errored")
    BY <1>2, <2>1, <2>3, PollGoto DEF Dir, Ended
  <2>4. CASE Dir(c) = "failed" /\ job[Job(c)].verdict = "limited" /\ Goto(c, "select_next")
    <3>1. Settled(job[Job(c)])
      BY <2>4 DEF Dir, Settled
    <3>2. QED BY <1>2, <2>1, <2>4, <3>1, PollGoto
  <2>5. QED BY <1>5, <2>2, <2>3, <2>4 DEF PollFailed
<1>6. CASE PollRunning(c) \/ PollQueued(c) \/ Capped(c)
  <2>1. UNCHANGED <<job, record>>
    BY <1>6 DEF PollRunning, PollQueued, Capped
  <2>2. \E l \in {"timed_out", "lost", "done?", "queued?"} : Goto(c, l)
    BY <1>6 DEF PollRunning, PollQueued, Capped
  <2>3. PICK l \in {"timed_out", "lost", "done?", "queued?"} : Goto(c, l)
    BY <2>2
  <2>4. QED BY <1>1, <1>2, <2>1, <2>3, PollGoto DEF Polling, Ended
<1>7. QED BY <1>4, <1>5, <1>6 DEF Poll

(* Every step keeps the invariant.                                          *)
LEMMA PoolStep == PoolInv /\ [PoolNext]_vars => PoolInv'
<1>1. ASSUME PoolInv, UNCHANGED vars PROVE PoolInv'
  <2>1. \A c \in Calls : picking.by = c => call[c].pc \in Selecting
    BY <1>1 DEF PoolInv, LastInv
  <2>2. QED BY <1>1, <2>1, LookKeeps DEF vars, PoolInv, PoolTypeOK
<1>2. ASSUME PoolInv, NEW p \in Profiles, ProbeDue(p) PROVE PoolInv'
  <2>1. \A c \in Calls : picking.by = c => call[c].pc \in Selecting
    BY <1>2 DEF PoolInv, LastInv
  <2>2. record' \in [Profiles -> {"clear", "marked", "due"}]
    BY <1>2 DEF PoolInv, PoolTypeOK, ProbeDue
  <2>3. QED BY <1>2, <2>1, <2>2, LookKeeps DEF ProbeDue, PoolInv, PoolTypeOK
<1>3. QED BY <1>1, <1>2, SelectKeeps, PollKeeps, RunnersKeep DEF PoolNext

(* The invariant, for any profiles, calls, turns and crashes.               *)
THEOREM PoolInvariant == PoolSpec => []PoolInv
BY PoolStart, PoolStep, PTL DEF PoolSpec

(* A job that a call has passed by never runs and has no answer that counts.*)
THEOREM PassedStaySettled == PoolSpec => []PassedJobsAreSettled
<1>1. PoolInv => PassedJobsAreSettled
  <2>1. SUFFICES ASSUME PoolInv, NEW c \in Calls, NEW j \in JobsOf(c) \ {Job(c)}
                 PROVE  Settled(job[j])
    BY DEF PassedJobsAreSettled, Settled
  <2>2. PICK t \in Turns, k \in Tries : j = <<c, t, k>>
    BY JobNames DEF JobsOf
  <2>3. t # call[c].turn \/ k # call[c].tries
    BY <2>2 DEF Job
  <2>4. QED BY <2>1, <2>2, <2>3 DEF PoolInv, SubmittedInv
<1>2. QED BY <1>1, PoolInvariant, PTL

(* No turn asks a profile twice.                                            *)
THEOREM TurnsVisitOnce == PoolSpec => []TurnVisitsProfilesOnce
<1>1. PoolInv => TurnVisitsProfilesOnce
  <2>1. SUFFICES ASSUME PoolInv, NEW i \in Jobs, NEW j \in Jobs, i # j, i[1] = j[1], i[2] = j[2],
                        job[i].dir # "none", job[j].dir # "none"
                 PROVE  job[i].profile # job[j].profile
    BY DEF TurnVisitsProfilesOnce
  <2>2. PICK c \in Calls, t \in Turns, k \in Tries : i = <<c, t, k>>
    BY JobNames
  <2>3. PICK d \in Calls, u \in Turns, l \in Tries : j = <<d, u, l>>
    BY JobNames
  <2>4. d = c /\ u = t /\ k # l
    BY <2>1, <2>2, <2>3
  <2>5. QED BY <2>1, <2>2, <2>3, <2>4 DEF PoolInv, VisitsInv
<1>2. QED BY <1>1, PoolInvariant, PTL

(* A call that ends with an answer or an error ends as its jobs did.        *)
THEOREM EndsMatch == PoolSpec => []EndMatchesJobs
<1>1. PoolInv => EndMatchesJobs
  <2>1. SUFFICES ASSUME PoolInv, NEW c \in Calls
                 PROVE  /\ At(c, "answered") => LateCompletions(c) = {Job(c)}
                        /\ call[c].pc \in {"rejected", "errored", "exhausted"} =>
                             /\ LateCompletions(c) = {}
                             /\ \A j \in JobsOf(c) : job[j].dir \notin Live
    BY DEF EndMatchesJobs
  <2>2. LastInv(c) /\ call[c] \in CallRecords
    BY <2>1 DEF PoolInv, PoolTypeOK
  <2>3. ASSUME NEW j \in JobsOf(c), j # Job(c) PROVE Settled(job[j])
    <3>1. PICK t \in Turns, k \in Tries : j = <<c, t, k>>
      BY JobNames DEF JobsOf
    <3>2. t # call[c].turn \/ k # call[c].tries
      BY <2>3, <3>1 DEF Job
    <3>3. QED BY <2>1, <3>1, <3>2 DEF PoolInv, SubmittedInv
  <2>4. \A j \in JobsOf(c) : Settled(job[j]) => j \notin LateCompletions(c) /\ job[j].dir \notin Live
    BY DEF Settled, LateCompletions, Live
  <2>5. ASSUME At(c, "answered") PROVE LateCompletions(c) = {Job(c)}
    <3>1. call[c].tries \in Tries /\ job[Job(c)].dir = "done" /\ job[Job(c)].verdict = "valid"
      BY <2>2, <2>5 DEF LastInv, At
    <3>2. Job(c) \in JobsOf(c)
      BY <2>2, <3>1, JobNames DEF Job, JobsOf, CallRecords
    <3>3. QED BY <2>3, <2>4, <3>1, <3>2 DEF LateCompletions
  <2>6. ASSUME call[c].pc \in {"rejected", "errored", "exhausted"}, NEW j \in JobsOf(c)
        PROVE  j \notin LateCompletions(c) /\ job[j].dir \notin Live
    <3>1. CASE j # Job(c)
      BY <2>3, <2>4, <3>1
    <3>2. CASE j = Job(c)
      <4>1. call[c].tries # 0
        <5>1. PICK t \in Turns, k \in Tries : j = <<c, t, k>>
          BY JobNames DEF JobsOf
        <5>2. QED BY <3>2, <5>1 DEF Job, Tries
      <4>2. \/ Settled(job[j])
            \/ job[j].dir = "done" /\ job[j].verdict = "invalid"
            \/ job[j].dir = "failed"
        BY <2>2, <2>6, <3>2, <4>1 DEF LastInv
      <4>3. QED BY <2>4, <4>2 DEF LateCompletions, Live
    <3>3. QED BY <3>1, <3>2
  <2>7. QED BY <2>5, <2>6 DEF LateCompletions
<1>2. QED BY <1>1, PoolInvariant, PTL

(* Only the job submitted is new.                                           *)
LEMMA SubmitsOne ==
  ASSUME PoolInv, NEW c \in Calls, NEW s, NEW p, Submit(c, s, p), NEW j \in Jobs,
         job[j].dir = "none", job'[j].dir = "queued"
  PROVE  job'[j].profile = p
<1>1. PICK i : i = <<c, [s EXCEPT !.pc = "done?", !.tries = @ + 1, !.attempted = @ \cup {p}].turn,
                     [s EXCEPT !.pc = "done?", !.tries = @ + 1, !.attempted = @ \cup {p}].tries>>
  OBVIOUS
<1>2. job' = [job EXCEPT ![i] = [dir |-> "queued", profile |-> p, verdict |-> "none",
                                 stale |-> FALSE, task |-> "none"]]
  BY <1>1 DEF Submit
<1>3. job \in [Jobs -> JobRecords]
  BY DEF PoolInv, PoolTypeOK
<1>4. j = i
  BY <1>2, <1>3
<1>5. QED BY <1>2, <1>3, <1>4

(* No job is queued on a profile that is marked when it is queued.          *)
THEOREM QueuedIsUnmarked == PoolSpec => NoJobOnMarkedProfile
<1>1. ASSUME PoolInv, [PoolNext]_vars, NEW j \in Jobs, job[j].dir = "none", job'[j].dir = "queued"
      PROVE  record'[job'[j].profile] # "marked"
  <2>1. /\ job \in [Jobs -> JobRecords] /\ JobInv(job[j]) /\ ~UNCHANGED job
        /\ record \in [Profiles -> {"clear", "marked", "due"}] /\ picking \in Pickings
    BY <1>1 DEF PoolInv, PoolTypeOK
  <2>2. ASSUME NEW c \in Calls, NEW p \in Profiles, Chosen(c, p), record'[p] # "marked"
        PROVE  record'[job'[j].profile] # "marked"
    <3>1. PICK s : Submit(c, s, p)
      BY <2>1, <2>2 DEF Chosen
    <3>2. QED BY <1>1, <2>2, <3>1, SubmitsOne
  <2>3. ASSUME NEW c \in Calls, Select(c) PROVE record'[job'[j].profile] # "marked"
    <3>1. CASE EndProbe(c)
      <4>1. PICK p \in Profiles : p = picking.probing
        BY <2>1, <3>1 DEF EndProbe, Pickings
      <4>2. Chosen(c, p) /\ record'[p] = "clear"
        BY <2>1, <3>1, <4>1 DEF EndProbe
      <4>3. QED BY <2>2, <4>2
    <3>2. ASSUME NEW p \in Profiles, Choose(c, p) PROVE record'[job'[j].profile] # "marked"
      BY <2>2, <3>2 DEF Choose
    <3>3. QED BY <2>1, <2>3, <3>1, <3>2 DEF Select, Acquire, StartProbe, LastResort, NoneAvailable
  <2>4. ASSUME NEW c \in Calls, Poll(c) \/ Capped(c) PROVE record'[job'[j].profile] # "marked"
    <3>1. StartTurn(c) /\ UNCHANGED record
      BY <2>1, <2>4 DEF Poll, PollDone, PollFailed, PollRunning, PollQueued, Capped
    <3>2. PICK s : s = [call[c] EXCEPT !.turn = @ + 1, !.tries = 0, !.attempted = {}]
      OBVIOUS
    <3>3. Submit(c, s, s.first) /\ record[s.first] # "marked"
      BY <2>1, <3>1, <3>2 DEF StartTurn
    <3>4. QED BY <1>1, <3>1, <3>3, SubmitsOne
  <2>5. ASSUME NEW i \in Jobs, Claim(i) \/ Serve(i) \/ Age(i) PROVE FALSE
    <3>1. JobInv(job[i]) /\ job[i] \in JobRecords
      BY <1>1 DEF PoolInv, PoolTypeOK
    <3>2. i # j
      BY <1>1, <2>5, <3>1 DEF Claim, Serve, Stamp, WriteResult, Finish, Age, JobInv, Live
    <3>3. job'[j] = job[j]
      BY <2>1, <2>5, <3>2 DEF Claim, Serve, Stamp, WriteResult, Finish, Age
    <3>4. QED BY <1>1, <3>3
  <2>6. ASSUME NEW p \in Profiles, CrashRunner(p) PROVE FALSE
    <3>1. job'[j] \in {job[j], [job[j] EXCEPT !.task = "none"]} /\ job[j] \in JobRecords
      BY <2>1, <2>6 DEF CrashRunner
    <3>2. QED BY <1>1, <3>1 DEF JobRecords
  <2>7. QED BY <1>1, <2>1, <2>3, <2>4, <2>5, <2>6 DEF PoolNext, ProbeDue, vars
<1>2. PoolInv /\ [PoolNext]_vars =>
        [\A j \in Jobs : job[j].dir = "none" /\ job'[j].dir = "queued" =>
           record'[job'[j].profile] # "marked"]_vars
  BY <1>1
<1>3. QED BY <1>2, PoolInvariant, PTL DEF PoolSpec, NoJobOnMarkedProfile
============================================================================
