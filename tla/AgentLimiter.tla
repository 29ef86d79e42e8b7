---------------------------- MODULE AgentLimiter ----------------------------
(***************************************************************************)
(* AgentConcurrencyLimiter (agent_concurrency.py): the process-local queue *)
(* that caps active agent invocations.  `_lock' guards the two counters    *)
(* and is only held between two awaits, so it never makes anyone wait; a   *)
(* step below is what happens from one await to the next.  The semaphore   *)
(* is asyncio's and serves its waiters first come, first served.           *)
(***************************************************************************)
EXTENDS Naturals, Sequences

CONSTANTS
  Calls,      \* callers of acquire
  MaxActive   \* max_active

ASSUME LimiterAssumption == MaxActive \in Nat \ {0}

VARIABLES
  permits,  \* value of the semaphore
  waiters,  \* callers in Semaphore.acquire
  active,   \* _active
  waiting   \* _queued

limiterVars == <<permits, waiters, active, waiting>>

LimiterInit ==
  /\ permits = MaxActive /\ waiters = <<>>
  /\ active = 0 /\ waiting = 0

(* The entry of acquire, up to the semaphore.                               *)
JoinQueue(c) ==
  /\ waiters' = Append(waiters, c)
  /\ waiting' = waiting + 1
  /\ UNCHANGED <<permits, active>>

(* Semaphore.acquire returns, at once when a permit is free.                *)
Grant(c) ==
  /\ waiters # <<>> /\ Head(waiters) = c
  /\ permits > 0
  /\ permits' = permits - 1
  /\ waiters' = Tail(waiters)
  /\ waiting' = waiting - 1
  /\ active' = active + 1

(* The caller is cancelled while it waits.                                  *)
GiveUp(c) ==
  /\ \E k \in 1 .. Len(waiters) :
       /\ waiters[k] = c
       /\ waiters' = SubSeq(waiters, 1, k - 1) \o SubSeq(waiters, k + 1, Len(waiters))
  /\ waiting' = waiting - 1
  /\ UNCHANGED <<permits, active>>

(* The end of the slot, whichever way the caller leaves it.                 *)
Release ==
  /\ permits' = permits + 1
  /\ active' = active - 1
  /\ UNCHANGED <<waiters, waiting>>

=============================================================================
