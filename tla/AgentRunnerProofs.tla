-------------------------- MODULE AgentRunnerProofs --------------------------
(***************************************************************************)
(* Proofs about AgentRunner for any finite number of calls and any number  *)
(* of slots, retries and failing writes: no slot is lost or given back     *)
(* twice, the turns that were not told to stop stay within the cap, and    *)
(* the table of active invocations is right.                               *)
(***************************************************************************)
EXTENDS AgentRunner, FiniteSetTheorems, SequenceTheorems, TLAPS

(* A turn that nobody told to stop has the call waiting for it.             *)
Attended(c) ==
  \A k \in Attempts :
    turn[<<c, k>>] = "running" /\ <<c, k>> \notin stopped =>
      k = call[c].attempt /\ call[c].pc \in {"watching", "direct"}

(* The attempts to come have not begun, nor has the present one before its  *)
(* launch.                                                                  *)
BeforeLaunch == {"idle", "waiting", "backoff", "starting", "announcing"}
Unbegun(c) ==
  \A k \in Attempts :
    k > call[c].attempt \/ (k = call[c].attempt /\ call[c].pc \in BeforeLaunch)
      => turn[<<c, k>>] = "none"

(* What the table of invocations holds at each step of the call.            *)
Tracked(c) ==
  /\ call[c].pc \in InSlot \ {"starting"} => Inv(c) \in recorded
  /\ call[c].pc = "announcing" => call[c].attempt > 0
  /\ \A k \in Attempts : <<c, k>> \in recorded =>
       /\ k = call[c].attempt
       /\ \/ call[c].pc \in InSlot \ {"starting"}
          \/ turn[<<c, k>>] = "none" /\ k > 0 /\ call[c].pc \in Ended

CallInv(c) == Attended(c) /\ Unbegun(c) /\ Tracked(c)

RunnerInv == RunnerTypeOK /\ SlotsAddUp /\ \A c \in Calls : CallInv(c)

(* How the slots and the limiter move in one step.                          *)
SlotKept == Holders' = Holders /\ permits' = permits /\ active' = active
SlotTaken ==
  \E c \in Calls \ Holders :
    Holders' = Holders \cup {c} /\ permits > 0 /\ permits' = permits - 1 /\ active' = active + 1
SlotGiven ==
  \E c \in Holders :
    Holders' = Holders \ {c} /\ permits' = permits + 1 /\ active' = active - 1

----------------------------------------------------------------------------
(* The holders are finitely many.                                           *)
LEMMA HoldersFinite ==
  ASSUME RunnerTypeOK
  PROVE  IsFiniteSet(Holders) /\ Cardinality(Holders) \in Nat
<1>1. Holders \subseteq Calls /\ IsFiniteSet(Calls)
  BY RunnerAssumption DEF Holders
<1>2. QED BY <1>1, FS_Subset, FS_CardinalityType

(* However the slots move, they add up again.                               *)
LEMMA SlotsKeepAddingUp ==
  ASSUME RunnerTypeOK, SlotsAddUp, SlotKept \/ SlotTaken \/ SlotGiven
  PROVE  /\ permits' + Cardinality(Holders') = MaxActive
         /\ active' = Cardinality(Holders')
         /\ permits' \in Nat /\ active' \in Nat
<1>0. permits \in Nat /\ permits + Cardinality(Holders) = MaxActive /\ active = Cardinality(Holders)
  BY DEF RunnerTypeOK, SlotsAddUp
<1>1. IsFiniteSet(Holders) /\ Cardinality(Holders) \in Nat
  BY HoldersFinite
<1>2. CASE SlotKept
  BY <1>0, <1>1, <1>2 DEF SlotKept
<1>3. CASE SlotTaken
  <2>1. PICK c \in Calls \ Holders :
          /\ Holders' = Holders \cup {c}
          /\ permits > 0 /\ permits' = permits - 1 /\ active' = active + 1
    BY <1>3 DEF SlotTaken
  <2>2. Cardinality(Holders \cup {c}) = Cardinality(Holders) + 1
    BY <1>1, FS_AddElement
  <2>3. Cardinality(Holders') = Cardinality(Holders) + 1
    BY <2>1, <2>2
  <2>4. QED BY <1>0, <1>1, <2>1, <2>3
<1>4. CASE SlotGiven
  <2>1. PICK c \in Holders :
          Holders' = Holders \ {c} /\ permits' = permits + 1 /\ active' = active - 1
    BY <1>4 DEF SlotGiven
  <2>2. Cardinality(Holders \ {c}) = Cardinality(Holders) - 1
    BY <1>1, FS_RemoveElement
  <2>3. Cardinality(Holders \ {c}) \in Nat
    BY <1>1, FS_RemoveElement, FS_CardinalityType
  <2>4. QED BY <1>0, <1>1, <2>1, <2>2, <2>3
<1>5. QED BY <1>2, <1>3, <1>4

(* A call that moves in or out of its slot, or stays where it is.           *)
LEMMA Moves ==
  ASSUME RunnerTypeOK, NEW c \in Calls, NEW next \in [pc : Steps, attempt : Attempts],
         call' = [call EXCEPT ![c] = next]
  PROVE  /\ call' \in [Calls -> [pc : Steps, attempt : Attempts]]
         /\ Holders' = IF next.pc \in InSlot THEN Holders \cup {c} ELSE Holders \ {c}
         /\ c \in Holders <=> call[c].pc \in InSlot
BY DEF RunnerTypeOK, Holders

(* The same for a step that only changes the call's place.                  *)
LEMMA Goes ==
  ASSUME RunnerTypeOK, NEW c \in Calls, NEW step \in Steps, Goto(c, step)
  PROVE  /\ call' \in [Calls -> [pc : Steps, attempt : Attempts]]
         /\ call'[c] = [pc |-> step, attempt |-> call[c].attempt]
         /\ \A d \in Calls : d # c => call'[d] = call[d]
         /\ Holders' = IF step \in InSlot THEN Holders \cup {c} ELSE Holders \ {c}
         /\ c \in Holders <=> call[c].pc \in InSlot
<1> DEFINE next == [pc |-> step, attempt |-> call[c].attempt]
<1>1. next \in [pc : Steps, attempt : Attempts]
  BY DEF RunnerTypeOK
<1>2. call' = [call EXCEPT ![c] = next]
  <2>1. call[c] \in [pc : Steps, attempt : Attempts]
    BY DEF RunnerTypeOK
  <2>2. [call[c] EXCEPT !.pc = step] = next
    BY <2>1
  <2>3. QED BY <2>2 DEF Goto
<1>3. /\ call' \in [Calls -> [pc : Steps, attempt : Attempts]]
      /\ Holders' = IF step \in InSlot THEN Holders \cup {c} ELSE Holders \ {c}
      /\ c \in Holders <=> call[c].pc \in InSlot
  BY <1>1, <1>2, Moves
<1>4. call'[c] = next /\ \A d \in Calls : d # c => call'[d] = call[d]
  BY <1>2 DEF RunnerTypeOK
<1>5. QED BY <1>3, <1>4

(* A call that holds a slot and leaves it, that takes one, or does neither. *)
SlotMove(c, step) ==
  \/ /\ call[c].pc \in InSlot <=> step \in InSlot
     /\ permits' = permits /\ active' = active
  \/ /\ call[c].pc \notin InSlot /\ step \in InSlot
     /\ permits > 0 /\ permits' = permits - 1 /\ active' = active + 1
  \/ /\ call[c].pc \in InSlot /\ step \notin InSlot
     /\ permits' = permits + 1 /\ active' = active - 1

LEMMA SlotSteps ==
  ASSUME RunnerTypeOK, NEW c \in Calls, NEW step \in Steps, Goto(c, step), SlotMove(c, step)
  PROVE  SlotKept \/ SlotTaken \/ SlotGiven
<1>1. /\ Holders' = IF step \in InSlot THEN Holders \cup {c} ELSE Holders \ {c}
      /\ c \in Holders <=> call[c].pc \in InSlot
  BY Goes
<1>2. QED BY <1>1 DEF SlotMove, SlotKept, SlotTaken, SlotGiven

(* The queue of the semaphore and its counter agree.                        *)
QueueMove(c) ==
  \/ JoinQueue(c) \/ Grant(c) \/ GiveUp(c)
  \/ UNCHANGED <<waiters, waiting>>

LEMMA QueueTyped ==
  ASSUME RunnerTypeOK, waiting = Len(waiters), NEW c \in Calls, QueueMove(c)
  PROVE  waiters' \in Seq(Calls) /\ waiting' = Len(waiters') /\ waiting' \in Nat
<1>1. waiters \in Seq(Calls) /\ waiting \in Nat
  BY DEF RunnerTypeOK
<1>2. CASE JoinQueue(c)
  BY <1>1, <1>2, AppendProperties DEF JoinQueue
<1>3. CASE Grant(c)
  <2>1. waiters # <<>> /\ waiters' = Tail(waiters) /\ waiting' = waiting - 1
    BY <1>3 DEF Grant
  <2>2. Tail(waiters) \in Seq(Calls) /\ Len(Tail(waiters)) = Len(waiters) - 1
    BY <1>1, <2>1, HeadTailProperties
  <2>3. Len(Tail(waiters)) \in Nat
    BY <2>2, LenProperties
  <2>4. QED BY <2>1, <2>2, <2>3
<1>4. CASE GiveUp(c)
  <2>1. PICK k \in 1 .. Len(waiters) :
          waiters' = SubSeq(waiters, 1, k - 1) \o SubSeq(waiters, k + 1, Len(waiters))
    BY <1>4 DEF GiveUp
  <2> DEFINE before == SubSeq(waiters, 1, k - 1)
             after  == SubSeq(waiters, k + 1, Len(waiters))
  <2>2. Len(waiters) \in Nat /\ \A j \in 1 .. Len(waiters) : waiters[j] \in Calls
    BY <1>1, LenProperties, ElementOfSeq
  <2>3. before \in Seq(Calls) /\ Len(before) = k - 1
    BY <2>2, SubSeqProperties
  <2>4. after \in Seq(Calls) /\ Len(after) = Len(waiters) - k
    BY <2>2, SubSeqProperties
  <2> HIDE DEF before, after
  <2>5. before \o after \in Seq(Calls) /\ Len(before \o after) = Len(before) + Len(after)
    BY <2>3, <2>4, ConcatProperties
  <2>6. waiters' = before \o after
    BY <2>1 DEF before, after
  <2>7. waiters' \in Seq(Calls) /\ Len(waiters') = Len(waiters) - 1
    BY <2>2, <2>3, <2>4, <2>5, <2>6
  <2>8. waiting' = waiting - 1
    BY <1>4 DEF GiveUp
  <2>9. Len(waiters') \in Nat
    BY <2>7, LenProperties
  <2>10. QED BY <2>7, <2>8, <2>9
<1>5. CASE UNCHANGED <<waiters, waiting>>
  BY <1>1, <1>5
<1>6. QED BY <1>2, <1>3, <1>4, <1>5 DEF QueueMove

(* A step of one call leaves the others as they were.                       *)
Mine(c) ==
  /\ \A d \in Calls \ {c} : call'[d] = call[d]
  /\ \A d \in Calls \ {c}, k \in Attempts :
       /\ turn'[<<d, k>>] = turn[<<d, k>>]
       /\ <<d, k>> \in stopped' <=> <<d, k>> \in stopped
       /\ <<d, k>> \in recorded' <=> <<d, k>> \in recorded

LEMMA OthersKeep ==
  ASSUME RunnerTypeOK, NEW c \in Calls, Mine(c), NEW d \in Calls \ {c}, CallInv(d)
  PROVE  CallInv(d)'
<1>1. call'[d] = call[d] /\ call[d].attempt \in Attempts
  BY DEF Mine, RunnerTypeOK
<1>2. QED BY <1>1 DEF Mine, CallInv, Attended, Unbegun, Tracked, Inv

(* The variables the slots and the queue leave alone.                       *)
RestTypeOK ==
  /\ turn \in [Invocations -> {"none", "running", "answered", "raised", "unwound"}]
  /\ stopped \subseteq Invocations /\ recorded \subseteq Invocations
  /\ silent \subseteq Calls
  /\ faults \in 0 .. MaxFaults

(* What a step of one call has to show.                                     *)
LEMMA StepKeeps ==
  ASSUME RunnerInv, NEW c \in Calls, NEW step \in Steps, Goto(c, step),
         SlotMove(c, step), QueueMove(c), RestTypeOK', Mine(c), CallInv(c)'
  PROVE  RunnerInv'
<1>1. RunnerTypeOK /\ SlotsAddUp /\ waiting = Len(waiters)
  BY DEF RunnerInv, SlotsAddUp
<1>2. /\ permits' + Cardinality(Holders') = MaxActive
      /\ active' = Cardinality(Holders')
      /\ permits' \in Nat /\ active' \in Nat
  BY <1>1, SlotSteps, SlotsKeepAddingUp
<1>3. waiters' \in Seq(Calls) /\ waiting' = Len(waiters') /\ waiting' \in Nat
  BY <1>1, QueueTyped
<1>4. call' \in [Calls -> [pc : Steps, attempt : Attempts]]
  BY <1>1, Goes
<1>5. RunnerTypeOK'
  BY <1>2, <1>3, <1>4 DEF RunnerTypeOK, RestTypeOK
<1>6. SlotsAddUp'
  BY <1>2, <1>3 DEF SlotsAddUp
<1>7. ASSUME NEW d \in Calls PROVE CallInv(d)'
  BY <1>1, OthersKeep DEF RunnerInv
<1>8. QED BY <1>5, <1>6, <1>7 DEF RunnerInv

----------------------------------------------------------------------------
(* Each step.                                                               *)

LEMMA QueueKeeps ==
  ASSUME RunnerInv, NEW c \in Calls, Queue(c)
  PROVE  RunnerInv'
<1>1. RunnerTypeOK /\ RestTypeOK' /\ CallInv(c)
  BY DEF RunnerInv, RunnerTypeOK, RestTypeOK, Queue
<1>2. Goto(c, "waiting") /\ "waiting" \in Steps
  BY DEF Queue, Steps
<1>3. /\ call'[c] = [pc |-> "waiting", attempt |-> call[c].attempt]
      /\ \A d \in Calls : d # c => call'[d] = call[d]
  BY <1>1, <1>2, Goes
<1>4. SlotMove(c, "waiting") /\ QueueMove(c)
  BY DEF Queue, At, JoinQueue, SlotMove, QueueMove, InSlot
<1>5. Mine(c)
  BY <1>3 DEF Mine, Queue
<1>6. CallInv(c)'
  BY <1>1, <1>3 DEF CallInv, Attended, Unbegun, Tracked, Inv, Queue, At, BeforeLaunch, InSlot, Ended
<1>7. QED BY <1>1, <1>2, <1>4, <1>5, <1>6, StepKeeps

LEMMA AdmitKeeps ==
  ASSUME RunnerInv, NEW c \in Calls, Admit(c)
  PROVE  RunnerInv'
<1>1. RunnerTypeOK /\ CallInv(c) /\ Inv(c) \in Invocations
  BY DEF RunnerInv, RunnerTypeOK, Inv, Invocations
<1>2. Goto(c, "starting") /\ "starting" \in Steps
  BY DEF Admit, Steps, InSlot, Ended
<1>3. /\ call'[c] = [pc |-> "starting", attempt |-> call[c].attempt]
      /\ \A d \in Calls : d # c => call'[d] = call[d]
  BY <1>1, <1>2, Goes
<1>4. SlotMove(c, "starting") /\ QueueMove(c)
  BY DEF Admit, At, SlotMove, QueueMove, limiterVars, InSlot, Grant
<1>5. RestTypeOK'
  BY <1>1 DEF Admit, RunnerTypeOK, RestTypeOK
<1>6. Mine(c)
  BY <1>3 DEF Mine, Admit, Inv
<1>7. CallInv(c)'
  BY <1>1, <1>3 DEF CallInv, Attended, Unbegun, Tracked, Inv, At, BeforeLaunch, InSlot, Ended, Admit
<1>8. QED BY <1>1, <1>2, <1>4, <1>5, <1>6, <1>7, StepKeeps

(* The two ways to launch a turn: with its invocation recorded just now, or *)
(* before.                                                                  *)
LEMMA LaunchKeeps ==
  ASSUME RunnerInv, NEW c \in Calls, Launch(c),
         \/ At(c, "starting") /\ recorded' = recorded \cup {Inv(c)}
         \/ At(c, "announcing") /\ recorded' = recorded,
         UNCHANGED <<limiterVars, stopped, silent, faults>>
  PROVE  RunnerInv'
<1> DEFINE step == IF c \in Watched THEN "watching" ELSE "direct"
<1>1. RunnerTypeOK /\ CallInv(c) /\ Inv(c) \in Invocations /\ call[c].attempt \in Attempts
  BY DEF RunnerInv, RunnerTypeOK, Inv, Invocations
<1>2. Goto(c, step) /\ step \in Steps /\ step \in InSlot /\ step \in {"watching", "direct"}
  BY DEF Launch, Steps, InSlot
<1> HIDE DEF step
<1>3. /\ call'[c] = [pc |-> step, attempt |-> call[c].attempt]
      /\ \A d \in Calls : d # c => call'[d] = call[d]
  BY <1>1, <1>2, Goes
<1>4. SlotMove(c, step) /\ QueueMove(c)
  BY <1>2 DEF At, SlotMove, QueueMove, limiterVars, InSlot
<1>5. turn' = [turn EXCEPT ![Inv(c)] = "running"]
  BY DEF Launch
<1>6. RestTypeOK'
  BY <1>1, <1>5 DEF RunnerTypeOK, RestTypeOK
<1>7. Mine(c)
  BY <1>1, <1>3, <1>5 DEF Mine, Inv, RunnerTypeOK, Invocations
<1>8. /\ turn'[Inv(c)] = "running" /\ Inv(c)' = Inv(c)
      /\ \A k \in Attempts : k # call[c].attempt => turn'[<<c, k>>] = turn[<<c, k>>]
  BY <1>1, <1>3, <1>5 DEF RunnerTypeOK, Inv, Invocations
<1>9. Attended(c)'
  BY <1>1, <1>2, <1>3, <1>8 DEF CallInv, Attended
<1>10. Unbegun(c)'
  BY <1>1, <1>2, <1>3, <1>8, RunnerAssumption DEF CallInv, Unbegun, BeforeLaunch, Attempts
<1>11. Tracked(c)'
  BY <1>1, <1>2, <1>3, <1>8 DEF CallInv, Tracked, At, Inv, InSlot, Ended
<1>12. QED BY <1>1, <1>2, <1>4, <1>6, <1>7, <1>9, <1>10, <1>11, StepKeeps DEF CallInv

LEMMA AnnounceKeeps ==
  ASSUME RunnerInv, NEW c \in Calls, Announce(c)
  PROVE  RunnerInv'
BY LaunchKeeps DEF Announce, limiterVars

LEMMA StartKeeps ==
  ASSUME RunnerInv, NEW c \in Calls, Start(c)
  PROVE  RunnerInv'
<1>1. RunnerTypeOK /\ CallInv(c) /\ Inv(c) \in Invocations /\ call[c].attempt \in Attempts
  BY DEF RunnerInv, RunnerTypeOK, Inv, Invocations
<1>2. CASE call[c].attempt = 0
  BY <1>2, LaunchKeeps DEF Start, limiterVars
<1>3. CASE call[c].attempt # 0
  <2>1. Goto(c, "announcing") /\ "announcing" \in Steps /\ UNCHANGED turn
    BY <1>3 DEF Start, Steps, InSlot
  <2>2. /\ call'[c] = [pc |-> "announcing", attempt |-> call[c].attempt]
        /\ \A d \in Calls : d # c => call'[d] = call[d]
    BY <1>1, <2>1, Goes
  <2>3. SlotMove(c, "announcing") /\ QueueMove(c)
    BY DEF Start, At, SlotMove, QueueMove, limiterVars, InSlot
  <2>4. RestTypeOK'
    BY <1>1, <2>1 DEF Start, RunnerTypeOK, RestTypeOK
  <2>5. Mine(c)
    BY <2>1, <2>2 DEF Mine, Start, Inv
  <2>6. CallInv(c)'
    <3>1. Attended(c)' /\ Unbegun(c)'
      BY <1>1, <2>1, <2>2 DEF CallInv, Attended, Unbegun, Start, At, BeforeLaunch
    <3>2. call[c].attempt > 0
      BY <1>1, <1>3 DEF Attempts
    <3>3. Tracked(c)'
      BY <1>1, <3>2, <2>1, <2>2 DEF CallInv, Tracked, Start, At, Inv, InSlot, Ended
    <3>4. QED BY <3>1, <3>3 DEF CallInv
  <2>7. QED BY <1>1, <2>1, <2>3, <2>4, <2>5, <2>6, StepKeeps
<1>4. QED BY <1>2, <1>3

LEMMA TakeAnswerKeeps ==
  ASSUME RunnerInv, NEW c \in Calls, TakeAnswer(c)
  PROVE  RunnerInv'
<1>1. RunnerTypeOK /\ CallInv(c) /\ Inv(c) \in Invocations
  BY DEF RunnerInv, RunnerTypeOK, Inv, Invocations
<1>2. Goto(c, "reporting") /\ "reporting" \in Steps
  BY DEF TakeAnswer, Steps, InSlot, Ended
<1>3. /\ call'[c] = [pc |-> "reporting", attempt |-> call[c].attempt]
      /\ \A d \in Calls : d # c => call'[d] = call[d]
  BY <1>1, <1>2, Goes
<1>4. SlotMove(c, "reporting") /\ QueueMove(c)
  BY DEF TakeAnswer, At, SlotMove, QueueMove, limiterVars, InSlot
<1>5. RestTypeOK'
  BY <1>1 DEF TakeAnswer, RunnerTypeOK, RestTypeOK
<1>6. Mine(c)
  BY <1>3 DEF Mine, TakeAnswer, Inv
<1>7. CallInv(c)'
  BY <1>1, <1>3 DEF CallInv, Attended, Unbegun, Tracked, Inv, At, BeforeLaunch, InSlot, Ended, TakeAnswer
<1>8. QED BY <1>1, <1>2, <1>4, <1>5, <1>6, <1>7, StepKeeps

LEMMA StallKeeps ==
  ASSUME RunnerInv, NEW c \in Calls, Stall(c)
  PROVE  RunnerInv'
<1>1. RunnerTypeOK /\ CallInv(c) /\ Inv(c) \in Invocations
  BY DEF RunnerInv, RunnerTypeOK, Inv, Invocations
<1>2. Goto(c, "joining") /\ "joining" \in Steps
  BY DEF Stall, Steps, InSlot, Ended, TellToStop
<1>3. /\ call'[c] = [pc |-> "joining", attempt |-> call[c].attempt]
      /\ \A d \in Calls : d # c => call'[d] = call[d]
  BY <1>1, <1>2, Goes
<1>4. SlotMove(c, "joining") /\ QueueMove(c)
  BY DEF Stall, At, SlotMove, QueueMove, limiterVars, InSlot
<1>5. RestTypeOK'
  BY <1>1 DEF Stall, RunnerTypeOK, RestTypeOK, TellToStop
<1>6. Mine(c)
  BY <1>3 DEF Mine, Stall, Inv, TellToStop
<1>7. CallInv(c)'
  BY <1>1, <1>3 DEF CallInv, Attended, Unbegun, Tracked, Inv, At, BeforeLaunch, InSlot, Ended, Stall, TellToStop
<1>8. QED BY <1>1, <1>2, <1>4, <1>5, <1>6, <1>7, StepKeeps

LEMMA JoinKeeps ==
  ASSUME RunnerInv, NEW c \in Calls, Join(c)
  PROVE  RunnerInv'
<1>1. RunnerTypeOK /\ CallInv(c) /\ Inv(c) \in Invocations
  BY DEF RunnerInv, RunnerTypeOK, Inv, Invocations
<1>2. Goto(c, "stalling") /\ "stalling" \in Steps
  BY DEF Join, Steps, InSlot, Ended
<1>3. /\ call'[c] = [pc |-> "stalling", attempt |-> call[c].attempt]
      /\ \A d \in Calls : d # c => call'[d] = call[d]
  BY <1>1, <1>2, Goes
<1>4. SlotMove(c, "stalling") /\ QueueMove(c)
  BY DEF Join, At, SlotMove, QueueMove, limiterVars, InSlot
<1>5. RestTypeOK'
  BY <1>1 DEF Join, RunnerTypeOK, RestTypeOK
<1>6. Mine(c)
  BY <1>3 DEF Mine, Join, Inv
<1>7. CallInv(c)'
  BY <1>1, <1>3 DEF CallInv, Attended, Unbegun, Tracked, Inv, At, BeforeLaunch, InSlot, Ended, Join
<1>8. QED BY <1>1, <1>2, <1>4, <1>5, <1>6, <1>7, StepKeeps

(* The ways out of the slot for good.                                       *)
LEMMA LeavingKeeps ==
  ASSUME RunnerInv, NEW c \in Calls, call[c].pc \in InSlot,
         NEW pc \in Ended, Goto(c, pc), Release,
         turn[Inv(c)] = "running" => Inv(c) \in stopped \/ call[c].pc \notin {"watching", "direct"},
         Forget(c), silent' = silent \ {c}, faults' \in 0 .. MaxFaults,
         UNCHANGED <<turn, stopped>>
  PROVE  RunnerInv'
<1>1. RunnerTypeOK /\ CallInv(c) /\ Inv(c) \in Invocations
  BY DEF RunnerInv, RunnerTypeOK, Inv, Invocations
<1>2. pc \in Steps /\ pc \notin InSlot
  BY DEF Steps, InSlot, Ended
<1>3. /\ call'[c] = [pc |-> pc, attempt |-> call[c].attempt]
      /\ \A d \in Calls : d # c => call'[d] = call[d]
  BY <1>1, <1>2, Goes
<1>4. SlotMove(c, pc) /\ QueueMove(c)
  BY <1>2 DEF SlotMove, QueueMove, Release
<1>5. RestTypeOK'
  BY <1>1 DEF RunnerTypeOK, RestTypeOK, Forget
<1>6. Mine(c)
  BY <1>3 DEF Mine, Inv, Forget
<1>7. Attended(c)'
  BY <1>1, <1>3 DEF CallInv, Attended, Inv
<1>8. Unbegun(c)'
  BY <1>1, <1>3 DEF CallInv, Unbegun, BeforeLaunch, Ended
<1>9. Tracked(c)'
  BY <1>1, <1>3 DEF CallInv, Tracked, Unbegun, Forget, Inv, BeforeLaunch, InSlot, Ended
<1>10. QED BY <1>2, <1>4, <1>5, <1>6, <1>7, <1>8, <1>9, StepKeeps DEF CallInv

LEMMA LeaversKeep ==
  ASSUME RunnerInv, NEW c \in Calls,
         TakeError(c) \/ Report(c) \/ Unwind(c) \/ LogRaises(c) \/ CancelInSlot(c)
  PROVE  RunnerInv'
<1>1. faults \in 0 .. MaxFaults /\ MaxFaults \in Nat
  BY RunnerAssumption DEF RunnerInv, RunnerTypeOK
<1>2. CASE TakeError(c)
  <2>1. PICK pc \in Ended : Leave(c, pc)
    BY <1>2 DEF TakeError, Ended
  <2>2. QED BY <1>1, <1>2, <2>1, LeavingKeeps DEF TakeError, Leave, Forget, At, InSlot
<1>3. CASE Report(c)
  BY <1>1, <1>3, LeavingKeeps DEF Report, Leave, Forget, At, InSlot, Ended
<1>4. CASE Unwind(c)
  BY <1>1, <1>4, LeavingKeeps DEF Unwind, Leave, Forget, At, InSlot, Ended
<1>5. CASE LogRaises(c)
  <2>1. faults' \in 0 .. MaxFaults
    BY <1>1, <1>5 DEF LogRaises
  <2>2. QED BY <1>5, <2>1, LeavingKeeps DEF LogRaises, InSlot, Ended
<1>6. CASE CancelInSlot(c)
  BY <1>1, <1>6, LeavingKeeps DEF CancelInSlot, InSlot, Ended
<1>7. QED BY <1>2, <1>3, <1>4, <1>5, <1>6

LEMMA CancelOutsideKeeps ==
  ASSUME RunnerInv, NEW c \in Calls, CancelOutside(c)
  PROVE  RunnerInv'
<1>1. RunnerTypeOK /\ CallInv(c)
  BY DEF RunnerInv
<1>2. Goto(c, "cancelled") /\ "cancelled" \in Steps
  BY DEF CancelOutside, Steps, Ended
<1>3. /\ call'[c] = [pc |-> "cancelled", attempt |-> call[c].attempt]
      /\ \A d \in Calls : d # c => call'[d] = call[d]
  BY <1>1, <1>2, Goes
<1>4. SlotMove(c, "cancelled") /\ QueueMove(c)
  BY DEF CancelOutside, GiveUp, At, SlotMove, QueueMove, limiterVars, InSlot
<1>5. RestTypeOK'
  BY <1>1 DEF CancelOutside, RunnerTypeOK, RestTypeOK
<1>6. Mine(c)
  BY <1>3 DEF Mine, CancelOutside
<1>7. CallInv(c)'
  BY <1>1, <1>3
  DEF CallInv, Attended, Unbegun, Tracked, Inv, CancelOutside, At, BeforeLaunch, InSlot, Ended
<1>8. QED BY <1>1, <1>2, <1>4, <1>5, <1>6, <1>7, StepKeeps

LEMMA CancelTurnKeeps ==
  ASSUME RunnerInv, NEW c \in Calls, CancelTurn(c)
  PROVE  RunnerInv'
<1> DEFINE pc == IF At(c, "direct") THEN "direct" ELSE "unwinding"
<1>1. RunnerTypeOK /\ CallInv(c) /\ Inv(c) \in Invocations
  BY DEF RunnerInv, RunnerTypeOK, Inv, Invocations
<1>2. Goto(c, pc) /\ pc \in Steps /\ pc \in {"direct", "unwinding"}
  BY DEF CancelTurn, Steps, InSlot
<1> HIDE DEF pc
<1>3. /\ call'[c] = [pc |-> pc, attempt |-> call[c].attempt]
      /\ \A d \in Calls : d # c => call'[d] = call[d]
  BY <1>1, <1>2, Goes
<1>4. SlotMove(c, pc) /\ QueueMove(c)
  BY <1>2 DEF CancelTurn, SlotMove, QueueMove, limiterVars, InSlot
<1>5. RestTypeOK'
  BY <1>1 DEF CancelTurn, TellToStop, RunnerTypeOK, RestTypeOK
<1>6. Mine(c)
  BY <1>3 DEF Mine, CancelTurn, TellToStop, Inv
<1>7. CallInv(c)'
  BY <1>1, <1>2, <1>3
  DEF CallInv, Attended, Unbegun, Tracked, Inv, CancelTurn, TellToStop, BeforeLaunch, InSlot, Ended
<1>8. QED BY <1>1, <1>2, <1>4, <1>5, <1>6, <1>7, StepKeeps

LEMMA WatchingKeeps ==
  ASSUME RunnerInv, NEW c \in Calls, GoesQuiet(c) \/ ShowsLife(c)
  PROVE  RunnerInv'
<1>1. /\ silent' \subseteq silent \cup {c}
      /\ UNCHANGED <<permits, active, waiting, waiters, call, turn, stopped, recorded, faults>>
  BY DEF GoesQuiet, ShowsLife, limiterVars
<1>2. RunnerTypeOK' /\ SlotsAddUp'
  BY <1>1 DEF RunnerInv, RunnerTypeOK, SlotsAddUp, Holders
<1>3. ASSUME NEW d \in Calls PROVE CallInv(d)'
  BY <1>1 DEF RunnerInv, CallInv, Attended, Unbegun, Tracked, Inv
<1>4. QED BY <1>2, <1>3 DEF RunnerInv

LEMMA TurnEndsKeeps ==
  ASSUME RunnerInv, NEW i \in Invocations, TurnEnds(i)
  PROVE  RunnerInv'
<1>1. PICK how \in {"answered", "raised", "unwound"} : turn' = [turn EXCEPT ![i] = how]
  BY DEF TurnEnds
<1>2. /\ turn[i] = "running"
      /\ UNCHANGED <<permits, active, waiting, waiters, call, stopped, silent, recorded, faults>>
  BY DEF TurnEnds, limiterVars
<1>3. RunnerTypeOK' /\ SlotsAddUp'
  BY <1>1, <1>2 DEF RunnerInv, RunnerTypeOK, SlotsAddUp, Holders
<1>4. ASSUME NEW j \in Invocations
      PROVE  /\ turn'[j] = "running" => turn[j] = "running"
             /\ turn[j] = "none" => turn'[j] = "none"
  BY <1>1, <1>2 DEF RunnerInv, RunnerTypeOK
<1>5. ASSUME NEW c \in Calls PROVE CallInv(c)'
  <2>1. CallInv(c) /\ \A k \in Attempts : <<c, k>> \in Invocations
    BY DEF RunnerInv, Invocations
  <2>2. QED BY <1>2, <1>4, <2>1 DEF CallInv, Attended, Unbegun, Tracked, Inv
<1>6. QED BY <1>3, <1>5 DEF RunnerInv

LEMMA EndAttemptKeeps ==
  ASSUME RunnerInv, NEW c \in Calls, EndAttempt(c)
  PROVE  RunnerInv'
<1> DEFINE k == call[c].attempt
           next == IF k < MaxRetries THEN [pc |-> "backoff", attempt |-> k + 1]
                                     ELSE [pc |-> "raised", attempt |-> k]
<1>1. /\ RunnerTypeOK /\ SlotsAddUp /\ waiting = Len(waiters) /\ CallInv(c)
      /\ Inv(c) \in Invocations /\ k \in Attempts /\ call[c].pc = "stalling"
  BY DEF RunnerInv, RunnerTypeOK, SlotsAddUp, Inv, Invocations, EndAttempt, At
<1>2. /\ next \in [pc : Steps, attempt : Attempts] /\ next.pc \in {"backoff", "raised"}
      /\ next.attempt >= k
  BY <1>1, RunnerAssumption DEF Steps, Ended, Attempts
<1>3. call' = [call EXCEPT ![c] = next]
  BY DEF EndAttempt
<1>4. next.pc = "backoff" => next.attempt > k
  BY <1>1, RunnerAssumption DEF Attempts
<1>5. next.pc = "raised" => next.attempt = k
  OBVIOUS
<1> HIDE DEF next
<1>6. call'[c] = next /\ \A d \in Calls : d # c => call'[d] = call[d]
  BY <1>1, <1>3 DEF RunnerTypeOK
<1>7. SlotGiven /\ call' \in [Calls -> [pc : Steps, attempt : Attempts]]
  BY <1>1, <1>2, <1>3, Moves DEF EndAttempt, Release, SlotGiven, InSlot
<1>8. RunnerTypeOK' /\ SlotsAddUp'
  <2>1. /\ permits' + Cardinality(Holders') = MaxActive
        /\ active' = Cardinality(Holders')
        /\ permits' \in Nat /\ active' \in Nat
    BY <1>1, <1>7, SlotsKeepAddingUp
  <2>2. RestTypeOK' /\ waiters' = waiters /\ waiting' = waiting
    BY <1>1 DEF RunnerTypeOK, RestTypeOK, EndAttempt, Release
  <2>3. QED BY <1>1, <1>7, <2>1, <2>2 DEF RunnerTypeOK, RestTypeOK, SlotsAddUp
<1>9. Mine(c)
  BY <1>6 DEF Mine, EndAttempt, Inv
<1>10. turn' = turn /\ stopped' = stopped /\ recorded' = recorded \ {Inv(c)}
  BY DEF EndAttempt
<1>11. Attended(c)'
  BY <1>1, <1>2, <1>6, <1>10 DEF CallInv, Attended
<1>12. Unbegun(c)'
  BY <1>1, <1>2, <1>4, <1>5, <1>6, <1>10, RunnerAssumption
  DEF CallInv, Unbegun, BeforeLaunch, Attempts
<1>13. Tracked(c)'
  BY <1>1, <1>2, <1>6, <1>10 DEF CallInv, Tracked, Inv, InSlot, Ended
<1>14. ASSUME NEW d \in Calls PROVE CallInv(d)'
  BY <1>1, <1>9, <1>11, <1>12, <1>13, OthersKeep DEF RunnerInv, CallInv
<1>15. QED BY <1>8, <1>14 DEF RunnerInv

----------------------------------------------------------------------------
(* The invariant holds from the start.                                      *)
LEMMA RunnerStarts == RunnerInit => RunnerInv
<1> SUFFICES ASSUME RunnerInit PROVE RunnerInv
  OBVIOUS
<1>1. \A c \in Calls : call[c] = [pc |-> "idle", attempt |-> 0]
  BY DEF RunnerInit
<1>2. RunnerTypeOK
  BY LimiterAssumption, RunnerAssumption
  DEF RunnerInit, LimiterInit, RunnerTypeOK, Steps, Attempts
<1>3. Holders = {}
  BY <1>1 DEF Holders, InSlot
<1>4. SlotsAddUp
  BY <1>3, FS_EmptySet, LimiterAssumption DEF RunnerInit, LimiterInit, SlotsAddUp
<1>5. ASSUME NEW c \in Calls PROVE CallInv(c)
  BY <1>1 DEF RunnerInit, CallInv, Attended, Unbegun, Tracked, Inv, Invocations, InSlot
<1>6. QED BY <1>2, <1>4, <1>5 DEF RunnerInv

(* Every step keeps it.                                                     *)
LEMMA RunnerSteps == RunnerInv /\ [Next]_runnerVars => RunnerInv'
<1> SUFFICES ASSUME RunnerInv, [Next]_runnerVars PROVE RunnerInv'
  OBVIOUS
<1>1. ASSUME NEW c \in Calls, Resolve(c) PROVE RunnerInv'
  BY <1>1, QueueKeeps, AdmitKeeps, StartKeeps, AnnounceKeeps, TakeAnswerKeeps, LeaversKeep,
     JoinKeeps, EndAttemptKeeps DEF Resolve
<1>2. ASSUME NEW c \in Calls, Cancel(c) PROVE RunnerInv'
  BY <1>2, CancelOutsideKeeps, LeaversKeep, CancelTurnKeeps DEF Cancel
<1>3. ASSUME NEW c \in Calls, Stall(c) \/ GoesQuiet(c) \/ ShowsLife(c) \/ LogRaises(c)
      PROVE  RunnerInv'
  BY <1>3, StallKeeps, WatchingKeeps, LeaversKeep
<1>4. ASSUME NEW i \in Invocations, TurnEnds(i) PROVE RunnerInv'
  BY <1>4, TurnEndsKeeps
<1>5. CASE UNCHANGED runnerVars
  BY <1>5 DEF runnerVars, limiterVars, RunnerInv, RunnerTypeOK, SlotsAddUp, Holders,
              CallInv, Attended, Unbegun, Tracked, Inv
<1>6. QED BY <1>1, <1>2, <1>3, <1>4, <1>5 DEF Next

(* The inductive invariant of the runner.                                   *)
THEOREM RunnerInvariant == RunnerSpec => []RunnerInv
<1>1. QED BY RunnerStarts, RunnerSteps, PTL DEF RunnerSpec

(* Every variable keeps its type.                                           *)
THEOREM RunnerTyped == RunnerSpec => []RunnerTypeOK
<1>1. RunnerInv => RunnerTypeOK
  BY DEF RunnerInv
<1>2. QED BY <1>1, RunnerInvariant, PTL

(* No slot of the limiter is lost or given back twice, however calls stall, *)
(* fail, are cancelled or retried.                                          *)
THEOREM SlotsAreKept == RunnerSpec => []SlotsAddUp
<1>1. RunnerInv => SlotsAddUp
  BY DEF RunnerInv
<1>2. QED BY <1>1, RunnerInvariant, PTL

(* Turns under way that were not told to stop belong to different calls,    *)
(* each with its slot: they are no more than the slots there are.           *)
LEMMA CapHolds == RunnerInv => AgentsWithinCap
<1> SUFFICES ASSUME RunnerInv PROVE AgentsWithinCap
  OBVIOUS
<1> DEFINE live == {i \in Invocations : turn[i] = "running" /\ i \notin stopped}
           theirs == {Inv(c) : c \in Holders}
<1>1. RunnerTypeOK /\ SlotsAddUp
  BY DEF RunnerInv
<1>2. IsFiniteSet(Holders) /\ Cardinality(Holders) \in Nat
  BY <1>1, HoldersFinite
<1>3. IsFiniteSet(theirs) /\ Cardinality(theirs) <= Cardinality(Holders)
  <2> DEFINE f == [c \in Holders |-> Inv(c)]
  <2>1. f \in Surjection(Holders, theirs)
    BY Zenon DEF Surjection
  <2>2. QED BY <1>2, <2>1, FS_Surjection
<1>4. live \subseteq theirs
  <2> SUFFICES ASSUME NEW i \in live PROVE i \in theirs
    OBVIOUS
  <2>1. PICK c \in Calls, k \in Attempts : i = <<c, k>>
    BY DEF Invocations
  <2>2. k = call[c].attempt /\ call[c].pc \in {"watching", "direct"}
    BY <2>1 DEF RunnerInv, CallInv, Attended
  <2>3. QED BY <2>1, <2>2 DEF Holders, InSlot, Inv
<1>5. Cardinality(live) <= Cardinality(theirs) /\ IsFiniteSet(live)
  BY <1>3, <1>4, FS_Subset
<1>6. Cardinality(live) \in Nat /\ Cardinality(theirs) \in Nat
  BY <1>3, <1>5, FS_CardinalityType
<1>7. Cardinality(Holders) <= MaxActive
  BY <1>1, <1>2, LimiterAssumption DEF SlotsAddUp, RunnerTypeOK
<1>8. QED BY <1>2, <1>3, <1>5, <1>6, <1>7, LimiterAssumption DEF AgentsWithinCap

(* The turns that nobody told to stop never exceed the cap of the limiter.  *)
THEOREM AgentsStayWithinCap == RunnerSpec => []AgentsWithinCap
<1>1. QED BY CapHolds, RunnerInvariant, PTL

(* The table of active invocations has every turn a call waits for, and     *)
(* beyond the calls in their slots only retries that never began.           *)
THEOREM InvocationsStayTracked == RunnerSpec => []InvocationsAreTracked
<1>1. RunnerInv => InvocationsAreTracked
  <2> SUFFICES ASSUME RunnerInv PROVE InvocationsAreTracked
    OBVIOUS
  <2>1. ASSUME NEW c \in Calls, call[c].pc \in {"watching", "direct", "joining"}
        PROVE  Inv(c) \in recorded
    BY <2>1 DEF RunnerInv, CallInv, Tracked, InSlot
  <2>2. ASSUME NEW i \in recorded
        PROVE  \/ i = Inv(i[1]) /\ call[i[1]].pc \in InSlot
               \/ turn[i] = "none" /\ i[2] > 0
    <3>1. PICK c \in Calls, k \in Attempts : i = <<c, k>>
      BY DEF RunnerInv, RunnerTypeOK, Invocations
    <3>2. QED BY <3>1 DEF RunnerInv, CallInv, Tracked, Inv
  <2>3. QED BY <2>1, <2>2 DEF InvocationsAreTracked
<1>2. QED BY <1>1, RunnerInvariant, PTL

=============================================================================
