--------------------------- MODULE BugLanesProofs ---------------------------
(***************************************************************************)
(* Proofs about BugLanes for any finite set of reports, any number of      *)
(* repositories, lanes, attempts and incidents: a report is resolved only  *)
(* when a lane of its bug is whole on main and, if it changes every        *)
(* repository, pushed.                                                     *)
(***************************************************************************)
EXTENDS BugLanes, FiniteSetTheorems, TLAPS

LaneRows == {"none", "planned", "active", "verified", "promoting", "applying-main", "applied-main",
             "promoted", "blocked", "interrupted-main", "superseded"}
Labels == {"off", "fix", "verify", "decide", "reuse", "check", "apply", "plan", "push"}
            \cup Respawning \cup Ended

Frames   == [at : Labels, lane : LaneIds \cup {NoLane}, new : 0 .. MaxLanes, key : Nat,
             bundle : Nat, row : LaneRows, strategy : BOOLEAN, done : SUBSET Repos]
Reports  == [status : {"queued", "active", "blocked", "resolved"}, lane : 1 .. MaxLanes,
             used : Nat, kind : {"none", "human", "counted", "structured", "infrastructure"}]
Clusters == [check : {"none", "pending", "decided", "applied"}, key : Nat, round : Nat,
             bundle : Nat, lane : 1 .. MaxLanes]
Intents  == [status : {"none", "pending", "applied"}, new : 0 .. MaxLanes, key : Nat, bundle : Nat]

Strategies == [bug : Bugs, lane : LaneIds, key : Nat, bundle : Nat]

(* A row that says applied, in the table or in the hands of a coroutine,    *)
(* is the row of a lane that is whole on main; and only what is on main is  *)
(* pushed.                                                                  *)
OnMain(l) == \A r \in Changes[Bug(l)] : l \in main[r]

RowsInv == /\ lane \in [LaneIds -> LaneRows]
           /\ \A l \in LaneIds : lane[l] = "applied-main" => OnMain(l)

(* A coroutine that works for a lane knows it, and one that respawns it     *)
(* knows the new one.  What the promotion has picked is not pushed before   *)
(* it has planned the push.                                                 *)
FrameInv(p, f) ==
  /\ f.at \in {"decide", "reuse", "check", "apply", "plan", "push"} \cup Respawning => f.lane \in LaneIds
  /\ p = Scheduler /\ f.at \in {"raised", "exhausted"} => f.lane \in LaneIds
  /\ f.at \in Respawning => f.new # 0
  /\ f.row = "applied-main" => f.lane \in LaneIds /\ OnMain(f.lane)
  /\ f.at = "check" => f.done = {}
  /\ f.at \in {"apply", "plan"} => p = Promotion /\ \A r \in f.done : f.lane \in main[r] \ pushed[r]
  /\ f.at = "plan" => f.done = Changes[Bug(f.lane)]
  /\ f.at = "push" => p \in {Promotion, Scheduler} /\ OnMain(f.lane)

FramesInv == frame \in [Procs -> Frames] /\ \A p \in Procs : FrameInv(p, frame[p])

ReportsInv == report \in [Bugs -> Reports] /\ ResolvedIsLanded

IntentsInv == /\ intent \in [LaneIds -> Intents]
              /\ \A l \in LaneIds : intent[l].status # "none" => intent[l].new # 0

GitInv == /\ main \in [Repos -> SUBSET LaneIds] /\ pushed \in [Repos -> SUBSET LaneIds]
          /\ \A r \in Repos : pushed[r] \subseteq main[r]

(* What a stage of the poll loop may have on its list.                      *)
Listed(name) == CASE name = "reap"     -> {p \in Tasks : frame[p].at \in Ended}
                  [] name = "strategy" -> {s \in Strategies : Bug(s.lane) = s.bug}
                  [] OTHER             -> LaneIds

PassInv ==
  /\ pass = [at |-> pass.at, todo |-> pass.todo, found |-> pass.found]
  /\ pass.at \in 1 .. Len(Stages)
  /\ pass.todo \subseteq Listed(Stages[pass.at])

(* Recovery looks after promotions only while no promotion task is tracked. *)
QuietInv ==
  /\ frame[Scheduler].at = "push" => Stages[pass.at] = "promoting"
  /\ Stages[pass.at] = "promoting" => frame[Promotion].at = "off"

ColumnsInv ==
  /\ own \subseteq LaneIds
  /\ cluster \in [Bugs -> Clusters]
  /\ decision \in [Bugs -> [Rounds -> {"none", "retry", "human"}]]
  /\ queue \in LaneIds \cup {NoLane}
  /\ spent \in Nat

LandedInv ==
  /\ RowsInv /\ FramesInv /\ ReportsInv /\ IntentsInv /\ GitInv /\ PassInv /\ QuietInv
  /\ ColumnsInv

----------------------------------------------------------------------------
(* The frames a coroutine may get.                                          *)
LEMMA FrameValues ==
  /\ Off \in Frames /\ Off.at = "off" /\ Off.row = "none"
  /\ \A a \in Labels : LET f == [Off EXCEPT !.at = a] IN
                       f \in Frames /\ f.at = a /\ f.row = "none" /\ f.done = {}
<1>. USE BugLanesAssumption
<1>1. Off \in Frames /\ Off.at = "off" /\ Off.row = "none"
  BY DEF Off, Frames, Labels, LaneRows
<1>. QED BY <1>1 DEF Off, Frames, Labels, LaneRows

(* The one that works for a lane.                                           *)
LEMMA FrameOf ==
  ASSUME NEW a \in Labels, NEW l \in LaneIds
  PROVE  LET f == [Off EXCEPT !.at = a, !.lane = l] IN
           f \in Frames /\ f.at = a /\ f.row = "none" /\ f.lane = l /\ f.done = {}
<1>1. Off \in Frames /\ Off.row = "none" /\ Off.done = {}
  BY FrameValues DEF Off
<1>. QED BY <1>1 DEF Frames

(* A step of coroutine p: it gets a frame, finished tasks stay listed, and  *)
(* reports are not resolved.                                                *)
Acting(p) ==
  /\ p \in Tasks /\ Stages[pass.at] = "reap" => frame[p].at \notin Ended
  /\ p = Promotion => frame[p].at # "off"

Quietly(p, f) == p = Scheduler /\ f.at = "push" => Stages[pass.at] = "promoting"

Moves(p) ==
  /\ \E f \in Frames : frame' = [frame EXCEPT ![p] = f] /\ FrameInv(p, f)' /\ Quietly(p, f)
  /\ Acting(p)
  /\ pass' = pass \/ \E x : Take(x)

LEMMA SchedulerActs ==
  Scheduler \in Procs /\ Scheduler \notin Tasks /\ Promotion \in Tasks /\ Acting(Scheduler)
  BY ProcsAssumption DEF Procs, Tasks, Acting

Unresolved ==
  /\ report' \in [Bugs -> Reports]
  /\ \A b \in Bugs : report'[b].status = "resolved" => report[b].status = "resolved"

(* What the queue does to a report leaves the landed part alone.            *)
LEMMA MovesKeep ==
  ASSUME LandedInv, NEW p \in Procs, Moves(p), UNCHANGED <<main, pushed>>
  PROVE  FramesInv' /\ PassInv' /\ QuietInv'
<1>. USE DEF LandedInv
<1>1. PICK f \in Frames : frame' = [frame EXCEPT ![p] = f] /\ FrameInv(p, f)' /\ Quietly(p, f)
  BY DEF Moves
<1>2. frame' \in [Procs -> Frames]
  BY <1>1 DEF FramesInv
<1>3. ASSUME NEW q \in Procs PROVE FrameInv(q, frame[q])'
  <2>1. CASE q = p
    BY <1>1, <2>1 DEF FramesInv
  <2>2. CASE q # p
    <3>1. frame'[q] = frame[q] /\ FrameInv(q, frame[q])
      BY <1>1, <2>2 DEF FramesInv
    <3>. QED BY <3>1 DEF FrameInv, OnMain
  <2>. QED BY <2>1, <2>2
<1>4. pass'.at = pass.at /\ pass'.found = pass.found /\ PassInv'
  <2>1. /\ pass' = [at |-> pass.at, todo |-> pass'.todo, found |-> pass.found]
        /\ pass'.todo \subseteq pass.todo
    BY DEF Moves, PassInv, Take
  <2>2. pass'.at = pass.at /\ pass'.found = pass.found
    BY <2>1
  <2>3. ASSUME NEW q \in Tasks, Stages[pass.at] = "reap", frame[q].at \in Ended
        PROVE  frame'[q].at \in Ended
    BY <1>1, <2>3 DEF Moves, Acting, FramesInv, Procs
  <2>4. pass'.todo \subseteq Listed(Stages[pass.at])'
    BY <2>1, <2>3 DEF PassInv, Listed
  <2>. QED BY <2>1, <2>2, <2>4 DEF PassInv
<1>5. QuietInv'
  <2>1. Scheduler \in Procs /\ Promotion \in Procs
    BY DEF Procs, Tasks
  <2>2. frame'[Scheduler].at = "push" => Stages[pass.at] = "promoting"
    BY <1>1, <2>1 DEF QuietInv, FramesInv, Quietly
  <2>3. Stages[pass.at] = "promoting" => p # Promotion /\ frame'[Promotion] = frame[Promotion]
    BY <1>1, <2>1 DEF QuietInv, Moves, Acting, FramesInv
  <2>. QED BY <1>4, <2>2, <2>3 DEF QuietInv
<1>. QED BY <1>2, <1>3, <1>4, <1>5 DEF FramesInv

(* Most steps keep the invariant because they touch nothing else.           *)
LEMMA StepKeeps ==
  ASSUME LandedInv, NEW p \in Procs, Moves(p), UNCHANGED <<main, pushed>>,
         RowsInv', Unresolved, IntentsInv', ColumnsInv'
  PROVE  LandedInv'
<1>. USE DEF LandedInv
<1>1. FramesInv' /\ PassInv' /\ QuietInv'
  BY MovesKeep
<1>2. ReportsInv'
  BY DEF ReportsInv, ResolvedIsLanded, Unresolved
<1>3. GitInv'
  BY DEF GitInv
<1>. QED BY <1>1, <1>2, <1>3 DEF ColumnsInv

(* How a coroutine ends.                                                    *)
LEMMA ReturnMoves ==
  ASSUME LandedInv, NEW p \in Procs, Return(p), UNCHANGED <<main, pushed>>,
         Acting(p),
         pass' = pass \/ \E x : Take(x)
  PROVE  Moves(p) /\ queue' \in LaneIds \cup {NoLane}
<1>. DEFINE f == IF p = Scheduler THEN Off ELSE [Off EXCEPT !.at = "done"]
<1>1. "done" \in Labels
  BY DEF Labels, Ended
<1>2. f \in Frames /\ f.at \in {"off", "done"} /\ f.row = "none"
  BY <1>1, FrameValues
<1>3. FrameInv(p, f)'
  BY <1>2 DEF FrameInv, Respawning
<1>4. frame' = [frame EXCEPT ![p] = f] /\ queue' = IF p = Promotion THEN NoLane ELSE queue
  BY DEF Return
<1>. HIDE DEF f
<1>. QED BY <1>2, <1>3, <1>4 DEF Moves, Quietly, LandedInv, ColumnsInv

(* A strategist that takes a report up changes no row or column's order.    *)
LEMMA RaiseKeeps ==
  ASSUME LandedInv, NEW p \in Procs, NEW how \in {"raised", "exhausted"}, Raise(p, how),
         Acting(p)
  PROVE  LandedInv'
<1>. DEFINE f == IF p = Scheduler THEN Off ELSE [Off EXCEPT !.at = how]
<1>1. how \in Labels
  BY DEF Labels, Ended
<1>2. f \in Frames /\ f.at \in {"off", how} /\ (p = Scheduler => f.at = "off") /\ f.row = "none"
  BY <1>1, FrameValues
<1>3. FrameInv(p, f)'
  BY <1>2 DEF FrameInv, Respawning
<1>4. /\ frame' = [frame EXCEPT ![p] = f] /\ UNCHANGED <<durable, pass>> /\ spent' = spent + 1
  BY DEF Raise, Incident
<1>. HIDE DEF f
<1>5. Moves(p)
  BY <1>2, <1>3, <1>4 DEF Moves, Quietly
<1>6. RowsInv' /\ Unresolved /\ IntentsInv' /\ ColumnsInv'
  BY <1>4 DEF LandedInv, RowsInv, OnMain, Unresolved, ReportsInv, IntentsInv, ColumnsInv, durable
<1>. QED BY <1>4, <1>5, <1>6, StepKeeps DEF durable

----------------------------------------------------------------------------
(* Respawns.                                                                *)

(* Checking a strategy changes nothing but its status.                      *)
LEMMA CheckedTyped ==
  ASSUME NEW c \in Clusters, NEW status \in {"none", "pending", "decided", "applied"}
  PROVE  Checked(c, status) \in Clusters
  BY DEF Checked, Clusters

(* The lane a respawn writes is numbered from 1.                            *)
LEMMA NewLaneTyped ==
  ASSUME IntentsInv, NEW l \in LaneIds
  PROVE  /\ NewLane(l) \in Nat \ {0}
         /\ intent[l].status # "none" => NewLane(l) \in 1 .. MaxLanes
<1>. USE BugLanesAssumption
<1>1. intent[l] \in Intents
  BY DEF IntentsInv
<1>2. intent[l].new \in 0 .. MaxLanes
  BY <1>1 DEF Intents
<1>3. CASE intent[l].new # 0
  BY <1>2, <1>3 DEF NewLane
<1>4. CASE intent[l].new = 0
  <2>1. Allocated(Bug(l)) \subseteq 1 .. MaxLanes
    BY DEF Allocated
  <2>2. IsFiniteSet(1 .. MaxLanes)
    BY FS_Interval
  <2>3. Cardinality(Allocated(Bug(l))) \in Nat
    BY <2>1, <2>2, FS_Subset, FS_CardinalityType
  <2>. QED BY <1>4, <2>3 DEF NewLane, IntentsInv
<1>. QED BY <1>3, <1>4

(* A respawn that starts, or that finds its intent applied.                 *)
LEMMA RespawnKeeps ==
  ASSUME LandedInv, NEW p \in Procs, NEW l \in LaneIds, NEW k \in Nat, NEW bundle \in Nat,
         NEW strategy \in BOOLEAN, NEW c \in Clusters, Respawn(p, l, k, bundle, strategy, c),
         RowsInv', own' \subseteq LaneIds, UNCHANGED <<main, pushed>>, spent' \in Nat,
         decision' \in [Bugs -> [Rounds -> {"none", "retry", "human"}]],
         Acting(p),
         pass' = pass \/ \E x : Take(x)
  PROVE  LandedInv'
<1>. USE BugLanesAssumption
<1>. DEFINE b == Bug(l)  n == NewLane(l)
<1>1. b \in Bugs /\ n \in Nat \ {0} /\ (intent[l].status # "none" => n \in 1 .. MaxLanes)
  BY NewLaneTyped DEF LandedInv, Bug, LaneIds
<1>2. CASE intent[l].status = "applied"
  <2>. DEFINE to == [c EXCEPT !.lane = n]
  <2>1. n \in 1 .. MaxLanes
    BY <1>1, <1>2
  <2>2. /\ cluster' = [cluster EXCEPT ![b] = IF strategy THEN Checked(to, "applied") ELSE to]
        /\ report' = [report EXCEPT ![b].lane = IF @ = l[2] THEN n ELSE @]
        /\ Return(p) /\ UNCHANGED intent
    BY <1>2 DEF Respawn
  <2>. HIDE DEF b, n
  <2>3. to \in Clusters
    BY <2>1 DEF Clusters
  <2>4. (IF strategy THEN Checked(to, "applied") ELSE to) \in Clusters
    BY <2>3, CheckedTyped
  <2>. HIDE DEF to
  <2>5. cluster' \in [Bugs -> Clusters]
    BY <1>1, <2>2, <2>4 DEF LandedInv, ColumnsInv
  <2>6. Unresolved
    BY <1>1, <2>1, <2>2 DEF LandedInv, ReportsInv, Reports, Unresolved
  <2>7. IntentsInv'
    BY <2>2 DEF LandedInv, IntentsInv
  <2>8. Moves(p) /\ queue' \in LaneIds \cup {NoLane}
    BY <2>2, ReturnMoves
  <2>9. ColumnsInv'
    BY <2>5, <2>8 DEF ColumnsInv, LandedInv
  <2>. QED BY <2>6, <2>7, <2>8, <2>9, StepKeeps
<1>3. CASE intent[l].status # "applied"
  <2>. DEFINE f == [Off EXCEPT !.at = "tree", !.lane = l, !.new = n, !.key = k,
                               !.bundle = bundle, !.strategy = strategy]
  <2>. DEFINE i == [status |-> "pending", new |-> n, key |-> k, bundle |-> bundle]
  <2>1. n \in 1 .. MaxLanes
    BY <1>1, <1>3 DEF Respawn
  <2>2. /\ cluster' = [cluster EXCEPT ![b] = c] /\ intent' = [intent EXCEPT ![l] = i]
        /\ frame' = [frame EXCEPT ![p] = f] /\ UNCHANGED <<report, queue>>
    BY <1>3 DEF Respawn
  <2>. HIDE DEF b, n
  <2>3. f \in Frames
    <3>1. "tree" \in Labels /\ l \in LaneIds \cup {NoLane} /\ n \in 0 .. MaxLanes
      BY <2>1 DEF Labels, Respawning
    <3>2. Off \in Frames
      BY FrameValues
    <3>. QED BY <3>1, <3>2 DEF Frames
  <2>4. f.at = "tree" /\ f.lane = l /\ f.new # 0 /\ f.row = "none"
    BY <2>1, FrameValues DEF Frames
  <2>5. i \in Intents /\ i.new # 0
    BY <2>1 DEF Intents
  <2>. HIDE DEF f, i
  <2>6. Moves(p)
    <3>1. PICK g \in Frames : g = f
      BY <2>3
    <3>2. FrameInv(p, g)'
      BY <2>4, <3>1 DEF FrameInv
    <3>. QED BY <2>2, <2>4, <3>1, <3>2 DEF Moves, Quietly
  <2>7. IntentsInv'
    BY <2>2, <2>5 DEF LandedInv, IntentsInv
  <2>8. ColumnsInv'
    BY <1>1, <2>2 DEF LandedInv, ColumnsInv
  <2>9. Unresolved
    BY <2>2 DEF LandedInv, ReportsInv, Unresolved
  <2>. QED BY <2>6, <2>7, <2>8, <2>9, StepKeeps
<1>. QED BY <1>2, <1>3

(* A report that is written, not as resolved.                               *)
LEMMA ReportPut ==
  ASSUME ReportsInv, NEW b \in Bugs, NEW status \in {"queued", "active", "blocked"}, NEW n \in 1 .. MaxLanes,
         NEW kind \in {"none", "human", "counted", "structured", "infrastructure"}, NEW used \in Nat,
         report' \in {[report EXCEPT ![b].lane = n, ![b].status = status, ![b].kind = kind],
                      [report EXCEPT ![b].status = status, ![b].kind = kind],
                      [report EXCEPT ![b].used = used, ![b].status = status, ![b].kind = kind],
                      [report EXCEPT ![b].status = status],
                      [report EXCEPT ![b].used = used]}
  PROVE  Unresolved
<1>. DEFINE r == report[b]
<1>1. report \in [Bugs -> Reports] /\ r \in Reports
  BY DEF ReportsInv
<1>2. ASSUME NEW x \in Reports, report' = [report EXCEPT ![b] = x], x.status \in {status, r.status}
      PROVE  Unresolved
  BY <1>1, <1>2 DEF Unresolved
<1>3. CASE report' = [report EXCEPT ![b].lane = n, ![b].status = status, ![b].kind = kind]
  <2>. DEFINE x == [r EXCEPT !.lane = n, !.status = status, !.kind = kind]
  <2>1. x \in Reports /\ x.status \in {status, r.status}
    BY <1>1 DEF Reports
  <2>2. report' = [report EXCEPT ![b] = x]
    BY <1>3
  <2>. HIDE DEF x
  <2>. QED BY <1>2, <2>1, <2>2
<1>4. CASE report' = [report EXCEPT ![b].status = status, ![b].kind = kind]
  <2>. DEFINE x == [r EXCEPT !.status = status, !.kind = kind]
  <2>1. x \in Reports /\ x.status \in {status, r.status}
    BY <1>1 DEF Reports
  <2>2. report' = [report EXCEPT ![b] = x]
    BY <1>4
  <2>. HIDE DEF x
  <2>. QED BY <1>2, <2>1, <2>2
<1>5. CASE report' = [report EXCEPT ![b].used = used, ![b].status = status, ![b].kind = kind]
  <2>. DEFINE x == [r EXCEPT !.used = used, !.status = status, !.kind = kind]
  <2>1. x \in Reports /\ x.status \in {status, r.status}
    BY <1>1 DEF Reports
  <2>2. report' = [report EXCEPT ![b] = x]
    BY <1>5
  <2>. HIDE DEF x
  <2>. QED BY <1>2, <2>1, <2>2
<1>6. CASE report' = [report EXCEPT ![b].status = status]
  <2>. DEFINE x == [r EXCEPT !.status = status]
  <2>1. x \in Reports /\ x.status \in {status, r.status}
    BY <1>1 DEF Reports
  <2>2. report' = [report EXCEPT ![b] = x]
    BY <1>6
  <2>. HIDE DEF x
  <2>. QED BY <1>2, <2>1, <2>2
<1>7. CASE report' = [report EXCEPT ![b].used = used]
  <2>. DEFINE x == [r EXCEPT !.used = used]
  <2>1. x \in Reports /\ x.status \in {status, r.status}
    BY <1>1 DEF Reports
  <2>2. report' = [report EXCEPT ![b] = x]
    BY <1>7
  <2>. HIDE DEF x
  <2>. QED BY <1>2, <2>1, <2>2
<1>. QED BY <1>3, <1>4, <1>5, <1>6, <1>7

(* Its rows.                                                                *)
LEMMA SwapKeeps ==
  ASSUME LandedInv, NEW p \in Procs, Swap(p)
  PROVE  LandedInv'
<1>. USE BugLanesAssumption DEF LandedInv
<1>. DEFINE f == frame[p]  b == Bug(f.lane)  new == <<b, f.new>>  c == cluster[b]
<1>1. f \in Frames /\ FrameInv(p, f) /\ f.at = "tree"
  BY DEF Swap, FramesInv
<1>2. f.lane \in LaneIds /\ f.new \in 1 .. MaxLanes /\ f.key \in Nat /\ f.bundle \in Nat /\ f.row \in LaneRows
  BY <1>1 DEF FrameInv, Respawning, Frames
<1>3. b \in Bugs /\ new \in LaneIds
  BY <1>2 DEF Bug, LaneIds
<1>4. c \in Clusters
  BY <1>3 DEF ColumnsInv
<1>5. /\ lane' = [lane EXCEPT ![f.lane] = "superseded", ![new] = "planned"]
      /\ own' = own \ {new}
      /\ frame' = [frame EXCEPT ![p].at = "settle"]
      /\ UNCHANGED <<intent, decision, queue, main, pushed, pass, spent>>
  BY DEF Swap
<1>6. RowsInv'
  <2>. HIDE DEF f, new
  <2>. QED BY <1>2, <1>3, <1>5 DEF RowsInv, OnMain, LaneRows
<1>7. Moves(p)
  <2>. DEFINE g == [f EXCEPT !.at = "settle"]
  <2>1. g \in Frames
    BY <1>1 DEF Frames, Labels, Respawning
  <2>2. g.at = "settle" /\ g.lane = f.lane /\ g.new = f.new /\ g.row = f.row
    BY <1>1 DEF Frames
  <2>3. frame' = [frame EXCEPT ![p] = g]
    BY <1>5
  <2>. HIDE DEF g, f
  <2>4. PICK h \in Frames : h = g
    BY <2>1
  <2>5. FrameInv(p, h)'
    BY <1>1, <1>2, <1>5, <2>2, <2>4 DEF FrameInv, OnMain
  <2>. QED BY <1>1, <1>5, <2>2, <2>3, <2>4, <2>5 DEF Moves, Acting, Quietly, Ended, f
<1>8. Unresolved
  <2>1. report' = [report EXCEPT ![b].lane = f.new, ![b].status = "queued", ![b].kind = "none"]
    BY DEF Swap
  <2>2. \E n \in 1 .. MaxLanes : report' = [report EXCEPT ![b].lane = n, ![b].status = "queued", ![b].kind = "none"]
    BY <1>2, <2>1
  <2>. HIDE DEF b, f
  <2>. QED BY <1>3, <2>2, ReportPut
<1>9. cluster' \in [Bugs -> Clusters]
  <2>. DEFINE d == IF f.key = 0
       THEN [check |-> "none", key |-> 0, round |-> 0, bundle |-> 0, lane |-> f.new]
       ELSE [check |-> IF c.check = "none" THEN "decided" ELSE c.check, key |-> f.key,
             round |-> IF c.round = 0 THEN 1 ELSE c.round, bundle |-> f.bundle, lane |-> f.new]
  <2>1. cluster' = [cluster EXCEPT ![b] = d]
    BY DEF Swap
  <2>2. d \in Clusters
    BY <1>2, <1>4 DEF Clusters
  <2>. HIDE DEF d, b
  <2>. QED BY <1>3, <2>1, <2>2 DEF ColumnsInv
<1>10. IntentsInv' /\ ColumnsInv'
  BY <1>5, <1>9 DEF IntentsInv, ColumnsInv
<1>. QED BY <1>5, <1>6, <1>7, <1>8, <1>10, StepKeeps

(* Its end.                                                                 *)
LEMMA SettleKeeps ==
  ASSUME LandedInv, NEW p \in Procs, Settle(p)
  PROVE  LandedInv'
<1>. USE BugLanesAssumption DEF LandedInv
<1>. DEFINE f == frame[p]  b == Bug(f.lane)
            i == [status |-> "applied", new |-> f.new, key |-> f.key, bundle |-> f.bundle]
<1>1. f \in Frames /\ FrameInv(p, f) /\ f.at = "settle"
  BY DEF Settle, FramesInv
<1>2. f.lane \in LaneIds /\ f.new \in 1 .. MaxLanes /\ f.key \in Nat /\ f.bundle \in Nat
  BY <1>1 DEF FrameInv, Respawning, Frames
<1>3. b \in Bugs /\ cluster[b] \in Clusters
  BY <1>2 DEF Bug, LaneIds, ColumnsInv
<1>4. /\ intent' = [intent EXCEPT ![f.lane] = i]
      /\ cluster' = [cluster EXCEPT ![b] = IF f.strategy THEN Checked(cluster[b], "applied") ELSE cluster[b]]
      /\ Return(p) /\ UNCHANGED <<lane, own, report, decision, main, pushed, pass, spent>>
  BY DEF Settle
<1>5. i \in Intents /\ i.new # 0
  BY <1>2 DEF Intents
<1>6. Moves(p) /\ queue' \in LaneIds \cup {NoLane}
  BY <1>1, <1>4, ReturnMoves DEF Acting, Ended
<1>. HIDE DEF i, b
<1>7. IntentsInv'
  BY <1>2, <1>4, <1>5 DEF IntentsInv
<1>8. ColumnsInv'
  BY <1>3, <1>4, <1>6, CheckedTyped DEF ColumnsInv
<1>9. RowsInv' /\ Unresolved
  BY <1>4 DEF RowsInv, OnMain, Unresolved, ReportsInv
<1>. QED BY <1>4, <1>6, <1>7, <1>8, <1>9, StepKeeps

----------------------------------------------------------------------------
(* Failures and strategies.                                                 *)

(* One row is written.                                                      *)
LEMMA RowPut ==
  ASSUME RowsInv, NEW l \in LaneIds, NEW row \in LaneRows, row = "applied-main" => OnMain(l),
         lane' = [lane EXCEPT ![l] = row], UNCHANGED main
  PROVE  RowsInv'
  BY DEF RowsInv, OnMain

(* A lane that is blocked.                                                  *)
LEMMA BlockKeeps ==
  ASSUME RowsInv, ReportsInv, NEW l \in LaneIds, NEW row \in {"blocked", "interrupted-main"},
         NEW kind \in {"human", "structured", "infrastructure"}, Block(l, row, kind), UNCHANGED main
  PROVE  RowsInv' /\ Unresolved
<1>. USE BugLanesAssumption
<1>1. Bug(l) \in Bugs /\ 1 \in 1 .. MaxLanes /\ 0 \in Nat
  BY DEF Bug, LaneIds
<1>2. Unresolved
  BY <1>1, ReportPut DEF Block
<1>3. RowsInv'
  BY RowPut DEF Block, LaneRows
<1>. QED BY <1>2, <1>3

(* A failure that is counted: the strategist is asked, or the lane blocked. *)
LEMMA RetryKeeps ==
  ASSUME LandedInv, NEW p \in Procs, NEW l \in LaneIds, NEW row \in {"active", "blocked", "promoting"},
         Retry(p, l, row), Acting(p)
  PROVE  LandedInv'
<1>. USE BugLanesAssumption DEF LandedInv
<1>. DEFINE b == Bug(l)  used == report[b].used + 1  c == cluster[b]  round == c.round + 1
<1>1. b \in Bugs /\ l[2] \in 1 .. MaxLanes /\ row \in LaneRows
  BY DEF Bug, LaneIds, LaneRows
<1>2. c \in Clusters /\ used \in Nat /\ round \in Nat /\ report[b].used \in Nat
  BY <1>1 DEF ColumnsInv, ReportsInv, Reports, Clusters
<1>3. UNCHANGED <<intent, decision, main, pushed, pass>> /\ spent' \in Nat
  BY DEF Retry, Incident, ColumnsInv
<1>4. IntentsInv'
  BY <1>3 DEF IntentsInv
<1>5. CASE used < MaxAttempts
  <2>. DEFINE d == [c EXCEPT !.bundle = round, !.check = "pending"]
  <2>. DEFINE f == [Off EXCEPT !.at = IF decision[b][round] = "none" THEN "decide" ELSE "reuse",
                               !.lane = l, !.key = round, !.bundle = round, !.row = row]
  <2>1. /\ lane' = [lane EXCEPT ![l] = row] /\ own' = own \ {l}
        /\ report' = [report EXCEPT ![b].used = used]
        /\ cluster' = [cluster EXCEPT ![b] = d] /\ frame' = [frame EXCEPT ![p] = f] /\ UNCHANGED queue
    BY <1>5 DEF Retry
  <2>2. d \in Clusters
    BY <1>2 DEF Clusters
  <2>3. f \in Frames /\ f.at \in {"decide", "reuse"} /\ f.lane = l /\ f.row = row
    BY <1>1, <1>2, FrameValues DEF Off, Frames, Labels
  <2>. HIDE DEF d, f, used, round, c
  <2>4. Moves(p)
    <3>1. PICK g \in Frames : g = f
      BY <2>3
    <3>2. FrameInv(p, g)'
      BY <2>3, <3>1 DEF FrameInv, Respawning
    <3>. QED BY <1>3, <2>1, <2>3, <3>1, <3>2 DEF Moves, Quietly
  <2>. HIDE DEF b
  <2>5. RowsInv'
    BY <1>1, <1>3, <2>1, RowPut
  <2>6. Unresolved
    <3>1. "active" \in {"queued", "active", "blocked"} /\ 1 \in 1 .. MaxLanes
          /\ "none" \in {"none", "human", "counted", "structured", "infrastructure"}
      OBVIOUS
    <3>. QED BY <1>1, <1>2, <2>1, <3>1, ReportPut
  <2>7. ColumnsInv'
    BY <1>1, <1>3, <2>1, <2>2 DEF ColumnsInv
  <2>. QED BY <1>3, <1>4, <2>4, <2>5, <2>6, <2>7, StepKeeps
<1>6. CASE ~(used < MaxAttempts)
  <2>. DEFINE d == [c EXCEPT !.lane = l[2]]
  <2>1. /\ lane' = [lane EXCEPT ![l] = "blocked"]
        /\ report' = [report EXCEPT ![b].used = MaxAttempts, ![b].status = "blocked", ![b].kind = "counted"]
        /\ cluster' = [cluster EXCEPT ![b] = d] /\ Return(p) /\ UNCHANGED own
    BY <1>6 DEF Retry
  <2>2. d \in Clusters
    BY <1>1, <1>2 DEF Clusters
  <2>. HIDE DEF d, used, round, c, b
  <2>3. Moves(p) /\ queue' \in LaneIds \cup {NoLane}
    BY <1>3, <2>1, ReturnMoves
  <2>4. RowsInv'
    BY <1>3, <2>1, RowPut DEF LaneRows
  <2>5. Unresolved
    <3>1. 1 \in 1 .. MaxLanes /\ MaxAttempts \in Nat
      OBVIOUS
    <3>. QED BY <1>1, <2>1, <3>1, ReportPut
  <2>6. ColumnsInv'
    BY <1>1, <1>3, <2>1, <2>2, <2>3 DEF ColumnsInv
  <2>. QED BY <1>3, <1>4, <2>3, <2>4, <2>5, <2>6, StepKeeps
<1>. QED BY <1>5, <1>6

(* A strategy that is applied, with a row the coroutine holds.              *)
LEMMA ApplyKeeps ==
  ASSUME LandedInv, NEW p \in Procs, NEW l \in LaneIds, NEW row \in LaneRows, NEW mode, NEW key \in Nat,
         NEW bundle \in Nat, NEW c \in Clusters, row = "applied-main" => OnMain(l),
         Apply(p, l, row, mode, key, bundle, c), UNCHANGED <<main, pushed, spent>>,
         decision' \in [Bugs -> [Rounds -> {"none", "retry", "human"}]],
         Acting(p),
         pass' = pass \/ \E x : Take(x)
  PROVE  LandedInv'
<1>. USE BugLanesAssumption
<1>. DEFINE at == [c EXCEPT !.key = key, !.round = bundle, !.bundle = bundle]
<1>1. at \in Clusters
  BY DEF Clusters
<1>2. Bug(l) \in Bugs /\ l[2] \in 1 .. MaxLanes
  BY DEF Bug, LaneIds
<1>3. own' \subseteq LaneIds /\ spent' \in Nat
  BY DEF Apply, LandedInv, ColumnsInv
<1>4. CASE mode = "human"
  <2>. DEFINE d == [at EXCEPT !.lane = l[2]]
  <2>1. /\ Block(l, "blocked", "human") /\ Return(p) /\ UNCHANGED intent
        /\ cluster' = [cluster EXCEPT ![Bug(l)] = Checked(d, "applied")]
    BY <1>4 DEF Apply
  <2>2. d \in Clusters
    BY <1>1, <1>2 DEF Clusters
  <2>. HIDE DEF at, d
  <2>3. Moves(p) /\ queue' \in LaneIds \cup {NoLane}
    BY <2>1, ReturnMoves
  <2>4. RowsInv' /\ Unresolved
    BY <2>1, BlockKeeps DEF LandedInv
  <2>5. IntentsInv'
    BY <2>1 DEF IntentsInv, LandedInv
  <2>6. Checked(d, "applied") \in Clusters
    BY <2>2, CheckedTyped
  <2>7. ColumnsInv'
    BY <1>2, <1>3, <2>1, <2>3, <2>6 DEF ColumnsInv, LandedInv
  <2>. QED BY <2>3, <2>4, <2>5, <2>7, StepKeeps
<1>5. CASE mode # "human"
  <2>1. lane' = [lane EXCEPT ![l] = row] /\ Respawn(p, l, key, bundle, TRUE, at)
    BY <1>5 DEF Apply
  <2>. HIDE DEF at
  <2>2. RowsInv'
    BY <2>1, RowPut DEF LandedInv
  <2>. QED BY <1>1, <1>3, <2>1, <2>2, RespawnKeeps
<1>. QED BY <1>4, <1>5

(* No answer of a strategist invents an applied row.                        *)
LEMMA StrategistKeeps ==
  ASSUME LandedInv, NEW p \in Procs, Decide(p) \/ Reuse(p) \/ DecideFails(p) \/ TreeFails(p)
  PROVE  LandedInv'
<1>. DEFINE f == frame[p]  b == Bug(f.lane)  c == Checked(cluster[b], "decided")
<1>1. f \in Frames /\ FrameInv(p, f)
  BY DEF LandedInv, FramesInv
<1>2. ASSUME NEW mode, Decided(p, mode), f.at \in {"decide", "reuse"},
             decision' \in [Bugs -> [Rounds -> {"none", "retry", "human"}]]
      PROVE  LandedInv'
  <2>1. f.lane \in LaneIds /\ f.row \in LaneRows /\ f.key \in Nat /\ f.bundle \in Nat
        /\ (f.row = "applied-main" => OnMain(f.lane))
    BY <1>1, <1>2 DEF FrameInv, Frames
  <2>2. b \in Bugs
    BY <2>1 DEF Bug, LaneIds
  <2>3. c \in Clusters
    BY <2>2, CheckedTyped DEF LandedInv, ColumnsInv
  <2>4. Apply(p, f.lane, f.row, mode, f.key, f.bundle, c) /\ UNCHANGED <<main, pushed, pass, spent>>
    BY <1>2 DEF Decided
  <2>5. Acting(p)
    BY <1>2 DEF Acting, Ended
  <2>. HIDE DEF f, b, c
  <2>. QED BY <1>2, <2>1, <2>3, <2>4, <2>5, ApplyKeeps DEF f
<1>3. CASE Decide(p)
  <2>1. f.at = "decide" /\ b \in Bugs
    BY <1>1, <1>3 DEF Decide, FrameInv, Bug, LaneIds
  <2>2. PICK mode \in {"retry", "human"} :
          decision' = [decision EXCEPT ![b][f.key] = mode] /\ Decided(p, mode)
    BY <1>3 DEF Decide
  <2>3. decision' \in [Bugs -> [Rounds -> {"none", "retry", "human"}]]
    <3>1. decision[b] \in [Rounds -> {"none", "retry", "human"}]
      BY <2>1 DEF LandedInv, ColumnsInv
    <3>. HIDE DEF b, f
    <3>2. [decision[b] EXCEPT ![f.key] = mode] \in [Rounds -> {"none", "retry", "human"}]
      BY <3>1
    <3>. QED BY <2>1, <2>2, <3>2 DEF LandedInv, ColumnsInv
  <2>. QED BY <1>2, <2>1, <2>2, <2>3
<1>4. CASE Reuse(p)
  <2>1. f.at = "reuse" /\ Decided(p, decision[b][f.key]) /\ UNCHANGED decision
    BY <1>4 DEF Reuse
  <2>. QED BY <1>2, <2>1 DEF LandedInv, ColumnsInv
<1>5. CASE DecideFails(p) \/ TreeFails(p)
  <2>1. Raise(p, "raised") /\ f.at \in {"decide", "tree"}
    BY <1>5 DEF DecideFails, TreeFails
  <2>. QED BY <2>1, RaiseKeeps DEF Acting, Ended
<1>. QED BY <1>3, <1>4, <1>5

----------------------------------------------------------------------------
(* The task of a lane.                                                      *)

(* A lane under way: its row, its report and its cluster are written.       *)
LEMMA UnderWay ==
  ASSUME LandedInv, NEW p \in Procs, NEW l \in LaneIds, Moves(p), NEW row \in LaneRows,
         row # "applied-main",
         lane' = [lane EXCEPT ![l] = row], report' = [report EXCEPT ![Bug(l)].status = "active"],
         cluster' \in {cluster, [cluster EXCEPT ![Bug(l)].lane = l[2]]},
         own' \in {own, own \cup {l}}, queue' \in LaneIds \cup {NoLane},
         UNCHANGED <<intent, decision, main, pushed, spent>>
  PROVE  LandedInv'
<1>. USE BugLanesAssumption DEF LandedInv
<1>1. Bug(l) \in Bugs /\ l[2] \in 1 .. MaxLanes
  BY DEF Bug, LaneIds
<1>2. RowsInv'
  BY RowPut
<1>3. Unresolved
  <2>1. 1 \in 1 .. MaxLanes /\ 0 \in Nat /\ "active" \in {"queued", "active", "blocked"}
        /\ "none" \in {"none", "human", "counted", "structured", "infrastructure"}
    OBVIOUS
  <2>. QED BY <1>1, <2>1, ReportPut
<1>4. cluster' \in [Bugs -> Clusters]
  <2>. DEFINE d == [cluster[Bug(l)] EXCEPT !.lane = l[2]]
  <2>1. d \in Clusters
    BY <1>1 DEF ColumnsInv, Clusters
  <2>2. cluster' \in {cluster, [cluster EXCEPT ![Bug(l)] = d]}
    OBVIOUS
  <2>. HIDE DEF d
  <2>. QED BY <1>1, <2>1, <2>2 DEF ColumnsInv
<1>5. IntentsInv' /\ ColumnsInv'
  BY <1>4 DEF IntentsInv, ColumnsInv
<1>. QED BY <1>2, <1>3, <1>5, StepKeeps

(* A coroutine goes to its next label.                                      *)
LEMMA Relabel ==
  ASSUME LandedInv, NEW p \in Tasks, Acting(p), NEW f \in Frames, FrameInv(p, f),
         frame' = [frame EXCEPT ![p] = f], UNCHANGED <<main, pushed, pass>>
  PROVE  Moves(p)
<1>1. FrameInv(p, f)'
  BY DEF FrameInv, OnMain
<1>2. p # Scheduler
  BY ProcsAssumption DEF Tasks
<1>. QED BY <1>1, <1>2 DEF Moves, Quietly

(* A lane's fix, its verification and its hand-over keep the invariant.     *)
LEMMA LaneTaskKeeps ==
  ASSUME LandedInv, NEW l \in LaneIds, LaneTask(l)
  PROVE  LandedInv'
<1>. USE ProcsAssumption DEF Procs, Tasks
<1>1. CASE Fix(l)
  <2>1. Acting(l) /\ frame' = [frame EXCEPT ![l].at = "verify"]
        /\ UNCHANGED <<intent, decision, queue, main, pushed, pass, spent>>
    BY <1>1 DEF Fix, Acting, Ended
  <2>2. Moves(l)
    <3>. DEFINE f == [frame[l] EXCEPT !.at = "verify"]
    <3>1. frame[l] \in Frames /\ FrameInv(l, frame[l])
      BY DEF LandedInv, FramesInv
    <3>2. f \in Frames /\ f.at = "verify" /\ f.lane = frame[l].lane /\ f.row = frame[l].row
      BY <3>1 DEF Frames, Labels
    <3>3. frame' = [frame EXCEPT ![l] = f]
      BY <2>1
    <3>. HIDE DEF f
    <3>4. FrameInv(l, f)
      BY <3>1, <3>2 DEF FrameInv, Respawning
    <3>. QED BY <2>1, <3>2, <3>3, <3>4, Relabel
  <2>3. "active" \in LaneRows
    BY DEF LaneRows
  <2>4. queue' \in LaneIds \cup {NoLane}
    BY <2>1 DEF LandedInv, ColumnsInv
  <2>. QED BY <1>1, <2>1, <2>2, <2>3, <2>4, UnderWay DEF Fix
<1>2. CASE Verify(l)
  <2>1. Acting(l) /\ Return(l)
        /\ UNCHANGED <<own, intent, decision, main, pushed, pass, spent>>
    BY <1>2 DEF Verify, Acting, Ended
  <2>2. Moves(l) /\ queue' \in LaneIds \cup {NoLane}
    BY <2>1, ReturnMoves
  <2>3. "verified" \in LaneRows
    BY DEF LaneRows
  <2>. QED BY <1>2, <2>1, <2>2, <2>3, UnderWay DEF Verify
<1>3. CASE CommitFails(l)
  <2>1. Acting(l) /\ Retry(l, l, "blocked")
    BY <1>3 DEF CommitFails, Acting, Ended
  <2>. QED BY <2>1, RetryKeeps
<1>4. CASE VerifyFails(l)
  <2>1. Acting(l) /\ Retry(l, l, "active")
    BY <1>4 DEF VerifyFails, Acting, Ended
  <2>. QED BY <2>1, RetryKeeps
<1>5. CASE TurnFails(l)
  <2>1. PICK how \in {"raised", "exhausted"} : Raise(l, how) /\ Acting(l)
    BY <1>5 DEF TurnFails, Acting, Ended
  <2>. QED BY <2>1, RaiseKeeps
<1>. QED BY <1>1, <1>2, <1>3, <1>4, <1>5, StrategistKeeps, SwapKeeps, SettleKeeps DEF LaneTask

----------------------------------------------------------------------------
(* The promotion.                                                           *)

(* A lane that is whole on main, and pushed if it changes every repository, *)
(* resolves its report.                                                     *)
LEMMA FinalizeKeeps ==
  ASSUME LandedInv, NEW p \in Procs, Moves(p), NEW l \in LaneIds, Finalize(l), UNCHANGED <<main, pushed>>,
         OnMain(l), Changes[Bug(l)] = Repos => \A r \in Repos : l \in pushed[r],
         queue' \in LaneIds \cup {NoLane}, UNCHANGED <<own, intent, decision, spent>>
  PROVE  LandedInv'
<1>. USE BugLanesAssumption DEF LandedInv
<1>. DEFINE b == Bug(l)  R == [report[b] EXCEPT !.status = "resolved", !.kind = "none"]
            C == [cluster[b] EXCEPT !.lane = l[2]]
<1>1. b \in Bugs /\ l[2] \in 1 .. MaxLanes /\ l = <<b, l[2]>>
  BY DEF Bug, LaneIds
<1>2. R \in Reports /\ C \in Clusters
  <2>1. report[b] \in Reports /\ cluster[b] \in Clusters
    BY <1>1 DEF ReportsInv, ColumnsInv
  <2>. HIDE DEF b
  <2>2. R \in Reports
    BY <2>1 DEF Reports
  <2>3. C \in Clusters
    BY <1>1, <2>1 DEF Clusters
  <2>. QED BY <2>2, <2>3
<1>3. /\ lane' = [lane EXCEPT ![l] = "promoted"] /\ report' = [report EXCEPT ![b] = R]
      /\ cluster' = [cluster EXCEPT ![b] = C]
  BY DEF Finalize
<1>4. \A r \in Changes[b] : <<b, l[2]>> \in main[r] /\ (Changes[b] = Repos => <<b, l[2]>> \in pushed[r])
  BY <1>1 DEF OnMain
<1>. HIDE DEF b, R, C
<1>5. FramesInv' /\ PassInv' /\ QuietInv' /\ GitInv'
  BY MovesKeep DEF GitInv
<1>6. RowsInv'
  BY <1>3, RowPut DEF LaneRows
<1>7. ReportsInv'
  <2>1. report' \in [Bugs -> Reports]
    BY <1>1, <1>2, <1>3 DEF ReportsInv
  <2>2. ASSUME NEW x \in Bugs, report'[x].status = "resolved"
        PROVE  \E n \in 1 .. MaxLanes : \A r \in Changes[x] :
                 <<x, n>> \in main'[r] /\ (Changes[x] = Repos => <<x, n>> \in pushed'[r])
    <3>1. CASE x = b
      BY <1>1, <1>4, <3>1
    <3>2. CASE x # b
      BY <1>3, <2>2, <3>2 DEF ReportsInv, ResolvedIsLanded
    <3>. QED BY <3>1, <3>2
  <2>. QED BY <2>1, <2>2 DEF ReportsInv, ResolvedIsLanded
<1>8. IntentsInv' /\ ColumnsInv'
  BY <1>1, <1>2, <1>3 DEF IntentsInv, ColumnsInv
<1>. QED BY <1>5, <1>6, <1>7, <1>8

(* Commits arrive on main.                                                  *)
LEMMA PickKeeps ==
  ASSUME LandedInv, NEW r \in Repos, PickCommits(r)
  PROVE  LandedInv'
<1>. USE DEF LandedInv
<1>. DEFINE p == Promotion  f == frame[p]  g == [f EXCEPT !.done = f.done \cup {r}]
<1>1. p \in Procs /\ f \in Frames /\ FrameInv(p, f)
  BY DEF Procs, Tasks, FramesInv
<1>2. /\ f.at = "apply" /\ f.lane \in LaneIds /\ f.lane \notin main[r]
      /\ main' = [main EXCEPT ![r] = @ \cup {f.lane}] /\ frame' = [frame EXCEPT ![p] = g]
      /\ UNCHANGED <<lane, own, report, cluster, intent, decision, queue, pushed, pass, spent>>
  BY <1>1 DEF PickCommits, Promoted, FrameInv
<1>3. /\ \A q \in Repos : main[q] \subseteq main'[q]
      /\ f.lane \in main'[r] \ pushed[r] /\ GitInv'
  BY <1>2 DEF GitInv
<1>4. RowsInv'
  BY <1>2, <1>3, ChangesAssumption DEF RowsInv, OnMain, Bug, LaneIds
<1>5. FramesInv'
  <2>1. g \in Frames /\ g.at = "apply" /\ g.lane = f.lane /\ g.row = f.row /\ g.done = f.done \cup {r}
    BY <1>1, <1>2 DEF Frames
  <2>. HIDE DEF g
  <2>2. PICK h \in Frames : h = g
    BY <2>1
  <2>3. FrameInv(p, h)'
    <3>1. \A l \in LaneIds : OnMain(l) => OnMain(l)'
      BY <1>3, ChangesAssumption DEF OnMain, Bug, LaneIds
    <3>2. h.row = "applied-main" => h.lane \in LaneIds /\ OnMain(h.lane)'
      BY <1>1, <2>1, <2>2, <3>1 DEF FrameInv
    <3>3. \A q \in h.done : h.lane \in main'[q] \ pushed'[q]
      <4>1. f.done \subseteq Repos
        BY <1>1 DEF Frames
      <4>. QED BY <1>1, <1>2, <1>3, <2>1, <2>2, <4>1 DEF FrameInv
    <3>. HIDE DEF f
    <3>. QED BY <1>2, <2>1, <2>2, <3>2, <3>3, ProcsAssumption DEF FrameInv, Respawning
  <2>4. ASSUME NEW q \in Procs, q # p PROVE FrameInv(q, frame[q])'
    <3>1. frame'[q] = frame[q] /\ FrameInv(q, frame[q]) /\ frame[q].at \notin {"apply", "plan"}
      BY <1>2, <2>4 DEF FramesInv, FrameInv
    <3>2. \A l \in LaneIds : OnMain(l) => OnMain(l)'
      BY <1>3, ChangesAssumption DEF OnMain, Bug, LaneIds
    <3>. QED BY <3>1, <3>2 DEF FrameInv
  <2>5. frame' = [frame EXCEPT ![p] = h]
    BY <1>2, <2>2
  <2>. HIDE DEF f
  <2>. QED BY <1>1, <2>3, <2>4, <2>5 DEF FramesInv
<1>6. ReportsInv'
  BY <1>2, <1>3, ChangesAssumption DEF ReportsInv, ResolvedIsLanded
<1>7. QuietInv' /\ PassInv'
  <2>1. Scheduler \in Procs /\ p # Scheduler /\ p \in Tasks
    BY ProcsAssumption DEF Procs, Tasks
  <2>2. frame'[Scheduler] = frame[Scheduler] /\ Stages[pass.at] # "promoting"
    BY <1>1, <1>2, <2>1 DEF QuietInv, FramesInv
  <2>3. \A q \in Tasks : frame[q].at \in Ended => frame'[q].at \in Ended
    BY <1>1, <1>2 DEF FramesInv, Procs, Ended
  <2>. QED BY <1>2, <2>2, <2>3 DEF QuietInv, PassInv, Listed
<1>8. IntentsInv' /\ ColumnsInv'
  BY <1>2 DEF IntentsInv, ColumnsInv
<1>. QED BY <1>3, <1>4, <1>5, <1>6, <1>7, <1>8

(* Commits arrive in a source repository: nobody pushes while the promotion *)
(* still picks.                                                             *)
LEMMA PushKeeps ==
  ASSUME LandedInv, NEW p \in {Promotion, Scheduler}, NEW r \in Repos, Push(p, r)
  PROVE  LandedInv'
<1>. USE DEF LandedInv
<1>1. /\ frame[p].at = "push" /\ pushed' = [pushed EXCEPT ![r] = main[r]]
      /\ UNCHANGED <<lane, own, report, cluster, intent, decision, queue, main, frame, pass, spent>>
  BY DEF Push
<1>2. GitInv' /\ \A q \in Repos : pushed[q] \subseteq pushed'[q]
  BY <1>1 DEF GitInv
<1>3. frame[Promotion].at \notin {"apply", "plan"}
  BY <1>1 DEF QuietInv
<1>4. FramesInv'
  <2>1. ASSUME NEW q \in Procs PROVE FrameInv(q, frame[q])'
    <3>1. FrameInv(q, frame[q]) /\ frame[q].at \notin {"apply", "plan"}
      BY <1>3 DEF FramesInv, FrameInv
    <3>. QED BY <1>1, <3>1 DEF FrameInv, OnMain
  <2>. QED BY <1>1, <2>1 DEF FramesInv
<1>5. ReportsInv'
  BY <1>1, <1>2, ChangesAssumption DEF ReportsInv, ResolvedIsLanded
<1>. QED BY <1>1, <1>2, <1>4, <1>5 DEF RowsInv, OnMain, IntentsInv, PassInv, Listed, QuietInv, ColumnsInv

(* A push that is complete.                                                 *)
LEMMA FinishKeeps ==
  ASSUME LandedInv, NEW p \in {Promotion, Scheduler}, Finish(p)
  PROVE  LandedInv'
<1>. DEFINE l == frame[p].lane
<1>1. p \in Procs /\ frame[p].at = "push" /\ frame[p].at \notin Ended
  BY DEF Finish, Procs, Tasks, Ended
<1>2. l \in LaneIds /\ OnMain(l)
  BY <1>1 DEF LandedInv, FramesInv, FrameInv
<1>3. /\ Finalize(l) /\ Return(p) /\ UNCHANGED <<own, intent, decision, main, pushed, pass, spent>>
      /\ \A r \in Repos : pushed[r] = main[r]
  BY DEF Finish, AtHead
<1>4. Changes[Bug(l)] = Repos => \A r \in Repos : l \in pushed[r]
  BY <1>2, <1>3 DEF OnMain
<1>5. Moves(p) /\ queue' \in LaneIds \cup {NoLane}
  BY <1>1, <1>3, ReturnMoves DEF Acting
<1>. HIDE DEF l
<1>. QED BY <1>1, <1>2, <1>3, <1>4, <1>5, FinalizeKeeps

(* The promotion task keeps it: rows are applied by a commit only, and a    *)
(* lane that changes every repository is never taken for pushed.            *)
LEMMA PromotionKeeps ==
  ASSUME LandedInv, PromotionTask
  PROVE  LandedInv'
<1>. USE BugLanesAssumption
<1>. DEFINE p == Promotion  f == frame[p]
<1>1. p \in Procs /\ p \in Tasks /\ f \in Frames /\ FrameInv(p, f)
  BY DEF Procs, Tasks, LandedInv, FramesInv
<1>2. ASSUME f.at \in {"check", "apply", "plan", "push"}
      PROVE  Promoted \in LaneIds /\ f.lane = Promoted /\ Acting(p)
  BY <1>1, <1>2 DEF FrameInv, Promoted, Ended, Acting
<1>3. ASSUME NEW label \in {"apply", "plan", "push"}, f.at \in {"check", "apply", "plan"},
             frame' = [frame EXCEPT ![p].at = label], UNCHANGED <<main, pushed, pass>>,
             label = "apply" => f.done = {},
             label = "plan" => f.at = "apply" /\ f.done = Changes[Bug(f.lane)],
             label = "push" => OnMain(f.lane)
      PROVE  Moves(p)
  <2>. DEFINE g == [f EXCEPT !.at = label]
  <2>1. g \in Frames /\ g.at = label /\ g.lane = f.lane /\ g.row = f.row /\ g.done = f.done
    BY <1>1 DEF Frames, Labels
  <2>2. frame' = [frame EXCEPT ![p] = g]
    BY <1>3
  <2>. HIDE DEF g
  <2>3. FrameInv(p, g)
    BY <1>1, <1>3, <2>1, ProcsAssumption DEF FrameInv, Respawning, Tasks
  <2>. QED BY <1>1, <1>2, <1>3, <2>1, <2>2, <2>3, Relabel
<1>4. CASE Replay
  <2>1. /\ f.at = "check" /\ lane' = [lane EXCEPT ![Promoted] = "applying-main"]
        /\ frame' = [frame EXCEPT ![p].at = "apply"]
        /\ UNCHANGED <<own, report, cluster, intent, decision, queue, main, pushed, pass, spent>>
    BY <1>4 DEF Replay
  <2>2. Promoted \in LaneIds /\ f.done = {}
    BY <1>1, <1>2, <2>1 DEF FrameInv
  <2>3. Moves(p)
    BY <1>3, <2>1, <2>2
  <2>4. RowsInv'
    BY <2>1, <2>2, RowPut DEF LaneRows, LandedInv
  <2>5. Unresolved /\ IntentsInv' /\ ColumnsInv'
    BY <2>1 DEF LandedInv, Unresolved, ReportsInv, IntentsInv, ColumnsInv
  <2>. QED BY <1>1, <2>1, <2>3, <2>4, <2>5, StepKeeps
<1>5. CASE ReplayFails
  <2>1. /\ f.at = "check" /\ spent' = spent + 1
        /\ Respawn(p, Promoted, 0, 0, FALSE, cluster[Bug(Promoted)])
        /\ UNCHANGED <<lane, own, decision, main, pushed, pass>>
    BY <1>5 DEF ReplayFails, Incident
  <2>2. Promoted \in LaneIds /\ Acting(p)
    BY <1>2, <2>1
  <2>3. cluster[Bug(Promoted)] \in Clusters
    BY <2>2 DEF Bug, LaneIds, LandedInv, ColumnsInv
  <2>4. RowsInv'
    BY <2>1 DEF LandedInv, RowsInv, OnMain
  <2>5. own' \subseteq LaneIds /\ spent' \in Nat
        /\ decision' \in [Bugs -> [Rounds -> {"none", "retry", "human"}]]
    BY <2>1 DEF LandedInv, ColumnsInv
  <2>. QED BY <1>1, <2>1, <2>2, <2>3, <2>4, <2>5, RespawnKeeps
<1>6. CASE VerdictFails
  <2>1. f.at = "check" /\ Retry(p, Promoted, "promoting")
    BY <1>6 DEF VerdictFails
  <2>. QED BY <1>1, <1>2, <2>1, RetryKeeps
<1>7. CASE Applied
  <2>1. /\ f.at = "apply" /\ f.done = Changes[Bug(Promoted)]
        /\ lane' = [lane EXCEPT ![Promoted] = "applied-main"]
        /\ frame' = [frame EXCEPT ![p].at = "plan"]
        /\ UNCHANGED <<own, report, cluster, intent, decision, queue, main, pushed, pass, spent>>
    BY <1>7 DEF Applied
  <2>2. Promoted \in LaneIds /\ f.lane = Promoted /\ OnMain(Promoted)
    BY <1>1, <1>2, <2>1 DEF FrameInv, OnMain
  <2>3. Moves(p)
    BY <1>3, <2>1, <2>2
  <2>4. RowsInv'
    BY <2>1, <2>2, RowPut DEF LaneRows, LandedInv
  <2>5. Unresolved /\ IntentsInv' /\ ColumnsInv'
    BY <2>1 DEF LandedInv, Unresolved, ReportsInv, IntentsInv, ColumnsInv
  <2>. QED BY <1>1, <2>1, <2>3, <2>4, <2>5, StepKeeps
<1>8. ASSUME f.at = "plan"
      PROVE  Promoted \in LaneIds /\ OnMain(Promoted) /\ Acting(p)
             /\ \A r \in Changes[Bug(Promoted)] : Promoted \in main[r] \ pushed[r]
  BY <1>1, <1>2, <1>8 DEF FrameInv, OnMain
<1>9. CASE PlanPush
  <2>1. f.at = "plan" /\ frame' = [frame EXCEPT ![p].at = "push"] /\ UNCHANGED <<durable, pass, spent>>
    BY <1>9 DEF PlanPush
  <2>2. Moves(p)
    BY <1>2, <1>3, <1>8, <2>1 DEF durable
  <2>3. RowsInv' /\ Unresolved /\ IntentsInv' /\ ColumnsInv'
    BY <2>1 DEF LandedInv, RowsInv, OnMain, Unresolved, ReportsInv, IntentsInv, ColumnsInv, durable
  <2>. QED BY <1>1, <2>1, <2>2, <2>3, StepKeeps DEF durable
<1>10. CASE TakenForPushed
  <2>1. /\ f.at = "plan" /\ Finalize(Promoted) /\ Return(p)
        /\ UNCHANGED <<own, intent, decision, main, pushed, pass, spent>>
    BY <1>10 DEF TakenForPushed
  <2>2. PICK r \in Repos : pushed[r] = main[r]
    BY <1>10 DEF TakenForPushed, AtHead
  <2>3. Changes[Bug(Promoted)] # Repos
    BY <1>8, <2>1, <2>2
  <2>4. Moves(p) /\ queue' \in LaneIds \cup {NoLane}
    BY <1>1, <1>8, <2>1, ReturnMoves
  <2>. QED BY <1>1, <1>8, <2>1, <2>3, <2>4, FinalizeKeeps
<1>11. CASE PromotionFails
  <2>1. Raise(p, "raised") /\ Acting(p)
    BY <1>2, <1>11 DEF PromotionFails
  <2>. QED BY <1>1, <2>1, RaiseKeeps
<1>. QED BY <1>1, <1>4, <1>5, <1>6, <1>7, <1>9, <1>10, <1>11, PickKeeps, PushKeeps, FinishKeeps,
            StrategistKeeps, SwapKeeps, SettleKeeps DEF PromotionTask

----------------------------------------------------------------------------
(* The poll loop.                                                           *)

(* A list is of what its stage works on.                                    *)
LEMMA ListTyped ==
  ASSUME LandedInv, NEW x \in pass.todo
  PROVE  /\ Stages[pass.at] = "reap" => x \in Tasks /\ frame[x].at \in Ended
         /\ Stages[pass.at] = "strategy" => x \in Strategies /\ Bug(x.lane) = x.bug
         /\ Stages[pass.at] \notin {"reap", "strategy"} => x \in LaneIds
<1>1. x \in Listed(Stages[pass.at])
  BY DEF LandedInv, PassInv
<1>. QED BY <1>1 DEF Listed

(* A stage of recovery that respawns a lane, or finds it dealt with.        *)
LEMMA RecoveryRespawns ==
  ASSUME LandedInv, NEW l \in LaneIds, Take(l), NEW k \in Nat, NEW bundle \in Nat,
         Respawn(Scheduler, l, k, bundle, FALSE, cluster[Bug(l)]),
         UNCHANGED <<lane, own, decision, main, pushed, spent>>
  PROVE  LandedInv'
<1>1. cluster[Bug(l)] \in Clusters
  BY DEF Bug, LaneIds, LandedInv, ColumnsInv
<1>2. RowsInv'
  BY DEF LandedInv, RowsInv, OnMain
<1>3. Scheduler \in Procs /\ Scheduler \notin Tasks
  BY ProcsAssumption DEF Procs, Tasks
<1>. QED BY <1>1, <1>2, <1>3, SchedulerActs, RespawnKeeps DEF LandedInv, ColumnsInv

(* So does the reaping of finished tasks, whichever way they ended.         *)
LEMMA ReapKeeps ==
  ASSUME LandedInv, NEW p \in Tasks, Reap(p)
  PROVE  LandedInv'
<1>. USE DEF LandedInv
<1>1. /\ Stages[pass.at] = "reap" /\ p \in pass.todo /\ Take(p) /\ own' = own \ {p}
      /\ UNCHANGED <<lane, report, cluster, intent, decision, queue, main, pushed, spent>>
  BY DEF Reap, Stage
<1>2. p \in Procs /\ Scheduler \in Procs /\ Scheduler \notin Tasks /\ p # Scheduler
  BY ProcsAssumption DEF Procs, Tasks
<1>3. frame[p].at \in Ended /\ frame[p] \in Frames
  BY <1>1, <1>2, ListTyped DEF FramesInv
<1>. DEFINE f == IF p \in own /\ frame[p].at # "done"
                 THEN [Off EXCEPT !.at = frame[p].at, !.lane = p] ELSE Off
<1>4. frame' = [frame EXCEPT ![p] = Off, ![Scheduler] = f]
  BY DEF Reap
<1>5. f \in Frames /\ f.row = "none" /\ f.at \in {"off", "raised", "exhausted"}
      /\ (f.at # "off" => f.lane \in LaneIds)
  <2>1. CASE p \in own /\ frame[p].at # "done"
    <3>1. p \in LaneIds /\ frame[p].at \in Labels /\ frame[p].at \in {"raised", "exhausted"}
      BY <1>3, <2>1 DEF ColumnsInv, Ended, Labels
    <3>2. \A a \in Labels : LET g == [Off EXCEPT !.at = a, !.lane = p] IN
            g \in Frames /\ g.at = a /\ g.row = "none" /\ g.lane = p /\ g.done = {}
      BY <3>1, FrameOf
    <3>3. f = [Off EXCEPT !.at = frame[p].at, !.lane = p]
      BY <2>1
    <3>. HIDE DEF f
    <3>. QED BY <3>1, <3>2, <3>3
  <2>. QED BY <2>1, FrameValues
<1>. HIDE DEF f
<1>6. frame' \in [Procs -> Frames] /\ frame'[p] = Off /\ frame'[Scheduler] = f
      /\ \A q \in Procs \ {p, Scheduler} : frame'[q] = frame[q]
  BY <1>2, <1>4, <1>5, FrameValues DEF FramesInv
<1>7. FramesInv'
  <2>1. ASSUME NEW q \in Procs PROVE FrameInv(q, frame[q])'
    <3>1. CASE q \in {p, Scheduler}
      BY <1>2, <1>5, <1>6, <3>1, FrameValues DEF FrameInv, Respawning
    <3>2. CASE q \notin {p, Scheduler}
      BY <1>1, <1>6, <3>2 DEF FrameInv, FramesInv, OnMain
    <3>. QED BY <3>1, <3>2
  <2>. QED BY <1>6, <2>1 DEF FramesInv
<1>8. PassInv' /\ QuietInv'
  <2>1. pass' = [at |-> pass.at, todo |-> pass.todo \ {p}, found |-> pass.found]
    BY <1>1 DEF Take, PassInv
  <2>2. \A q \in pass.todo \ {p} : q \in Tasks /\ frame'[q].at \in Ended
    BY <1>1, <1>2, <1>6, ListTyped DEF Procs
  <2>3. QuietInv'
    BY <1>1, <1>5, <1>6, <2>1 DEF QuietInv
  <2>. QED BY <1>1, <2>1, <2>2, <2>3 DEF PassInv, Listed
<1>9. RowsInv' /\ ReportsInv' /\ IntentsInv' /\ GitInv' /\ ColumnsInv'
  BY <1>1 DEF RowsInv, OnMain, ReportsInv, ResolvedIsLanded, IntentsInv, GitInv, ColumnsInv
<1>. QED BY <1>7, <1>8, <1>9

(* Failures that were reaped.                                               *)
LEMMA HandleKeeps ==
  ASSUME LandedInv, HandleFailure \/ BlockExhausted
  PROVE  LandedInv'
<1>. USE BugLanesAssumption
<1>. DEFINE l == frame[Scheduler].lane  d == [cluster[Bug(l)] EXCEPT !.lane = l[2]]
<1>1. Scheduler \in Procs /\ Scheduler \notin Tasks
  BY ProcsAssumption DEF Procs, Tasks
<1>2. l \in LaneIds
  BY <1>1 DEF HandleFailure, BlockExhausted, LandedInv, FramesInv, FrameInv
<1>3. Bug(l) \in Bugs /\ l[2] \in 1 .. MaxLanes
  BY <1>2 DEF Bug, LaneIds
<1>4. d \in Clusters
  <2>1. cluster[Bug(l)] \in Clusters
    BY <1>3 DEF LandedInv, ColumnsInv
  <2>. HIDE DEF l
  <2>. QED BY <1>3, <2>1 DEF Clusters
<1>5. CASE HandleFailure
  <2>1. Respawn(Scheduler, l, 0, 0, FALSE, d) /\ UNCHANGED <<lane, own, decision, main, pushed, pass, spent>>
    BY <1>5 DEF HandleFailure
  <2>2. RowsInv'
    BY <2>1 DEF LandedInv, RowsInv, OnMain
  <2>. HIDE DEF l, d
  <2>. QED BY <1>1, <1>2, <1>4, <2>1, <2>2, SchedulerActs, RespawnKeeps DEF LandedInv, ColumnsInv
<1>6. CASE BlockExhausted
  <2>1. /\ Block(l, "blocked", "structured") /\ cluster' = [cluster EXCEPT ![Bug(l)] = d]
        /\ Return(Scheduler) /\ UNCHANGED <<own, intent, decision, main, pushed, pass, spent>>
    BY <1>6 DEF BlockExhausted
  <2>. HIDE DEF l, d
  <2>2. RowsInv' /\ Unresolved
    BY <1>2, <2>1, BlockKeeps DEF LandedInv
  <2>3. Moves(Scheduler) /\ queue' \in LaneIds \cup {NoLane}
    BY <1>1, <2>1, SchedulerActs, ReturnMoves
  <2>4. IntentsInv' /\ ColumnsInv'
    BY <1>3, <1>4, <2>1, <2>3 DEF LandedInv, IntentsInv, ColumnsInv
  <2>. QED BY <1>1, <2>1, <2>2, <2>3, <2>4, StepKeeps
<1>. QED BY <1>5, <1>6

(* A strategy that was left pending or decided.                             *)
LEMMA ResumeStrategyKeeps ==
  ASSUME LandedInv, NEW s \in pass.todo, ResumeStrategy(s)
  PROVE  LandedInv'
<1>. USE BugLanesAssumption
<1>1. /\ Stages[pass.at] = "strategy" /\ Take(s) /\ UNCHANGED <<decision, main, pushed, spent>>
  BY DEF ResumeStrategy, Stage
<1>2. /\ s.bug \in Bugs /\ s.lane \in LaneIds /\ s.key \in Nat /\ s.bundle \in Nat
  BY <1>1, ListTyped DEF Strategies
<1>3. Scheduler \in Procs /\ Scheduler \notin Tasks
  BY ProcsAssumption DEF Procs, Tasks
<1>4. lane[s.lane] \in LaneRows /\ (lane[s.lane] = "applied-main" => OnMain(s.lane))
  BY <1>2 DEF LandedInv, RowsInv
<1>5. CASE s.key # 0
  <2>1. Apply(Scheduler, s.lane, lane[s.lane], decision[s.bug][s.key], s.key, s.bundle, cluster[s.bug])
    BY <1>5 DEF ResumeStrategy
  <2>2. cluster[s.bug] \in Clusters
    BY <1>2 DEF LandedInv, ColumnsInv
  <2>. QED BY <1>1, <1>2, <1>3, <1>4, <2>1, <2>2, SchedulerActs, ApplyKeeps DEF LandedInv, ColumnsInv
<1>6. CASE s.key = 0
  <2>. DEFINE f == [Off EXCEPT !.at = IF decision[s.bug][s.bundle] = "none" THEN "decide" ELSE "reuse",
                               !.lane = s.lane, !.key = s.bundle, !.bundle = s.bundle, !.row = lane[s.lane]]
  <2>1. frame' = [frame EXCEPT ![Scheduler] = f] /\ UNCHANGED <<lane, own, report, cluster, intent, queue>>
    BY <1>6 DEF ResumeStrategy
  <2>2. f \in Frames /\ f.at \in {"decide", "reuse"} /\ f.lane = s.lane /\ f.row = lane[s.lane]
    BY <1>2, <1>4, FrameValues DEF Off, Frames, Labels
  <2>. HIDE DEF f
  <2>3. PICK g \in Frames : g = f
    BY <2>2
  <2>4. FrameInv(Scheduler, g)'
    BY <1>1, <1>2, <1>4, <2>2, <2>3 DEF FrameInv, OnMain, Respawning
  <2>5. Moves(Scheduler)
    BY <1>1, <1>3, <2>1, <2>2, <2>3, <2>4, SchedulerActs DEF Moves, Quietly
  <2>6. RowsInv' /\ Unresolved /\ IntentsInv' /\ ColumnsInv'
    BY <1>1, <2>1 DEF LandedInv, RowsInv, OnMain, Unresolved, ReportsInv, IntentsInv, ColumnsInv
  <2>. QED BY <1>1, <1>3, <2>5, <2>6, StepKeeps
<1>. QED BY <1>5, <1>6

(* Lanes nobody executes, promotions nobody runs, and blocked reports.      *)
LEMMA RecoverKeeps ==
  ASSUME LandedInv, NEW l \in LaneIds,
         Resume(l) \/ RespawnStale(l) \/ FinalizeApplied(l) \/ BlockInterrupted(l)
           \/ RespawnPromoting(l) \/ Unblock(l)
  PROVE  LandedInv'
<1>. USE BugLanesAssumption
<1>1. Scheduler \in Procs /\ Scheduler \notin Tasks
  BY ProcsAssumption DEF Procs, Tasks
<1>2. CASE Resume(l)
  <2>1. intent[l].key \in Nat /\ intent[l].bundle \in Nat
    BY DEF LandedInv, IntentsInv, Intents
  <2>. QED BY <1>2, <2>1, RecoveryRespawns DEF Resume
<1>3. ASSUME ~(lane[l] = "active"), RespawnStale(l)
      PROVE  LandedInv'
  <2>1. UNCHANGED <<lane, own, report, cluster, intent, decision, queue, main, pushed, frame, spent>>
    BY <1>3 DEF RespawnStale
  <2>2. pass' = [at |-> pass.at, todo |-> pass.todo \ {l}, found |-> pass.found]
    BY <1>3 DEF RespawnStale, Take, LandedInv, PassInv
  <2>3. PassInv'
    BY <2>1, <2>2 DEF LandedInv, PassInv, Listed
  <2>4. QuietInv'
    BY <2>1, <2>2 DEF LandedInv, QuietInv
  <2>. QED BY <2>1, <2>3, <2>4 DEF LandedInv, RowsInv, OnMain, FramesInv, FrameInv, ReportsInv,
              ResolvedIsLanded, IntentsInv, GitInv, ColumnsInv
<1>4. CASE RespawnStale(l)
  BY <1>3, <1>4, RecoveryRespawns DEF RespawnStale
<1>5. CASE FinalizeApplied(l)
  <2>. DEFINE f == [Off EXCEPT !.at = "push", !.lane = l]
  <2>1. /\ Stages[pass.at] = "promoting" /\ lane[l] = "applied-main" /\ Take(l)
        /\ frame' = [frame EXCEPT ![Scheduler] = f] /\ UNCHANGED <<durable, spent>>
    BY <1>5 DEF FinalizeApplied, Stage
  <2>2. f \in Frames /\ f.at = "push" /\ f.lane = l /\ f.row = "none"
    BY FrameOf DEF Labels
  <2>3. OnMain(l)
    BY <2>1 DEF LandedInv, RowsInv
  <2>. HIDE DEF f
  <2>4. FrameInv(Scheduler, f)'
    BY <1>1, <2>1, <2>2, <2>3 DEF FrameInv, OnMain, Respawning, durable
  <2>5. Moves(Scheduler)
    BY <2>1, <2>2, <2>4, SchedulerActs DEF Moves, Quietly
  <2>6. RowsInv' /\ Unresolved /\ IntentsInv' /\ ColumnsInv'
    BY <2>1 DEF LandedInv, RowsInv, OnMain, Unresolved, ReportsInv, IntentsInv, ColumnsInv, durable
  <2>. QED BY <1>1, <2>1, <2>5, <2>6, StepKeeps DEF durable
<1>6. CASE BlockInterrupted(l)
  <2>. DEFINE d == [cluster[Bug(l)] EXCEPT !.lane = l[2]]
  <2>1. /\ Block(l, "interrupted-main", "infrastructure") /\ Take(l)
        /\ cluster' = [cluster EXCEPT ![Bug(l)] = d]
        /\ UNCHANGED <<own, intent, decision, queue, main, pushed, frame, spent>>
    BY <1>6 DEF BlockInterrupted
  <2>2. Bug(l) \in Bugs /\ d \in Clusters
    BY DEF Bug, LaneIds, LandedInv, ColumnsInv, Clusters
  <2>. HIDE DEF d
  <2>3. RowsInv' /\ Unresolved
    BY <2>1, BlockKeeps DEF LandedInv
  <2>4. IntentsInv' /\ ColumnsInv'
    BY <2>1, <2>2 DEF LandedInv, IntentsInv, ColumnsInv
  <2>5. Moves(Scheduler)
    <3>1. PICK g \in Frames : g = frame[Scheduler]
      BY <1>1 DEF LandedInv, FramesInv
    <3>2. frame' = [frame EXCEPT ![Scheduler] = g]
      BY <2>1, <3>1 DEF LandedInv, FramesInv
    <3>3. FrameInv(Scheduler, g)'
      BY <1>1, <2>1, <3>1 DEF LandedInv, FramesInv, FrameInv, OnMain
    <3>4. Quietly(Scheduler, g)
      BY <3>1 DEF LandedInv, QuietInv, Quietly
    <3>. QED BY <2>1, <3>2, <3>3, <3>4, SchedulerActs DEF Moves
  <2>. QED BY <1>1, <2>1, <2>3, <2>4, <2>5, StepKeeps
<1>7. CASE RespawnPromoting(l) \/ Unblock(l)
  BY <1>7, RecoveryRespawns DEF RespawnPromoting, Unblock
<1>. QED BY <1>2, <1>4, <1>5, <1>6, <1>7

(* New lane tasks and a new promotion.                                      *)
LEMMA StartKeeps ==
  ASSUME LandedInv, NEW l \in LaneIds, Admit(l) \/ StartPromotion(l)
  PROVE  LandedInv'
<1>. USE BugLanesAssumption
<1>1. /\ Stages[pass.at] \in {"admit", "promote"} /\ UNCHANGED <<intent, decision, main, pushed, spent>>
  BY DEF Admit, StartPromotion, Stage
<1>2. CASE Admit(l)
  <2>1. CASE Overlapping(l)
    <3>1. UNCHANGED <<lane, own, report, cluster, frame, queue>>
      BY <1>2, <2>1 DEF Admit
    <3>2. pass' = [at |-> pass.at, todo |-> pass.todo \ {l}, found |-> pass.found]
      BY <1>2 DEF Admit, Take, LandedInv, PassInv
    <3>3. PassInv'
      BY <3>1, <3>2 DEF LandedInv, PassInv, Listed
    <3>4. QuietInv'
      BY <3>1, <3>2 DEF LandedInv, QuietInv
    <3>. QED BY <1>1, <3>1, <3>3, <3>4 DEF LandedInv, RowsInv, OnMain, FramesInv, FrameInv, ReportsInv,
                ResolvedIsLanded, IntentsInv, GitInv, ColumnsInv
  <2>2. CASE ~Overlapping(l)
    <3>. DEFINE f == [Off EXCEPT !.at = "fix"]
    <3>1. /\ Take(l) /\ lane' = [lane EXCEPT ![l] = "active"] /\ own' = own \cup {l}
          /\ report' = [report EXCEPT ![Bug(l)].status = "active"]
          /\ cluster' = [cluster EXCEPT ![Bug(l)].lane = l[2]]
          /\ frame' = [frame EXCEPT ![l] = f] /\ UNCHANGED queue
      BY <1>2, <2>2 DEF Admit
    <3>2. f \in Frames /\ f.at = "fix" /\ f.row = "none"
      BY FrameValues DEF Labels
    <3>. HIDE DEF f
    <3>3. FrameInv(l, f)'
      <4>1. PICK g \in Frames : g = f
        BY <3>2
      <4>. QED BY <3>2, ProcsAssumption DEF FrameInv, Respawning, f, Off
    <3>4. l \in Procs
      BY DEF Procs, Tasks
    <3>5. Moves(l)
      BY <1>1, <3>1, <3>2, <3>3, ProcsAssumption DEF Moves, Acting, Quietly, Tasks
    <3>6. "active" \in LaneRows /\ queue' \in LaneIds \cup {NoLane}
      BY <3>1 DEF LaneRows, LandedInv, ColumnsInv
    <3>. QED BY <1>1, <3>1, <3>4, <3>5, <3>6, UnderWay
  <2>. QED BY <2>1, <2>2
<1>3. CASE StartPromotion(l)
  <2>. DEFINE f == [Off EXCEPT !.at = "check", !.lane = l]
  <2>1. /\ lane' = [lane EXCEPT ![l] = "promoting"]
        /\ report' = [report EXCEPT ![Bug(l)].status = "active"] /\ queue' = l
        /\ frame' = [frame EXCEPT ![Promotion] = f] /\ UNCHANGED <<own, cluster>>
        /\ pass' = [pass EXCEPT !.todo = {}]
    BY <1>3 DEF StartPromotion
  <2>2. f \in Frames /\ f.at = "check" /\ f.lane = l /\ f.row = "none"
    BY FrameOf DEF Labels
  <2>3. Promotion \in Procs
    BY DEF Procs, Tasks
  <2>4. FrameInv(Promotion, f)'
    BY ProcsAssumption DEF FrameInv, Respawning, Off
  <2>. HIDE DEF f
  <2>5. frame' \in [Procs -> Frames] /\ \A q \in Procs : FrameInv(q, frame[q])'
    BY <1>1, <2>1, <2>2, <2>3, <2>4 DEF LandedInv, FramesInv, FrameInv, OnMain
  <2>6. PassInv'
    <3>1. pass' = [at |-> pass.at, todo |-> {}, found |-> pass.found]
      BY <2>1 DEF LandedInv, PassInv
    <3>. QED BY <3>1 DEF LandedInv, PassInv
  <2>10. QuietInv'
    <3>1. pass'.at = pass.at /\ Scheduler \in Procs /\ Scheduler # Promotion
      BY <2>1, SchedulerActs DEF LandedInv, PassInv
    <3>. QED BY <1>1, <2>1, <3>1 DEF LandedInv, QuietInv, FramesInv
  <2>7. RowsInv'
    BY <1>1, <2>1, RowPut DEF LandedInv, LaneRows
  <2>8. Unresolved
    <3>1. Bug(l) \in Bugs /\ 1 \in 1 .. MaxLanes /\ 0 \in Nat /\ "active" \in {"queued", "active", "blocked"}
          /\ "none" \in {"none", "human", "counted", "structured", "infrastructure"}
      BY DEF Bug, LaneIds
    <3>. QED BY <2>1, <3>1, ReportPut DEF LandedInv
  <2>9. ReportsInv' /\ IntentsInv' /\ GitInv' /\ ColumnsInv'
    BY <1>1, <2>1, <2>8 DEF LandedInv, ReportsInv, ResolvedIsLanded, Unresolved, IntentsInv, GitInv, ColumnsInv
  <2>. QED BY <2>5, <2>6, <2>7, <2>9, <2>10 DEF LandedInv, FramesInv
<1>. QED BY <1>2, <1>3

(* The list of a stage is made.                                             *)
LEMMA WorkTyped ==
  ASSUME LandedInv, NEW i \in 1 .. Len(Stages)
  PROVE  Work(Stages[i]) \subseteq Listed(Stages[i])
<1>1. Len(Stages) = 8 /\ \A j \in 1 .. 8 : Stages[j] = <<"reap", "intents", "strategy", "stale",
                                                     "promoting", "unblock", "admit", "promote">>[j]
  BY DEF Stages
<1>2. Stages[i] \in {"reap", "intents", "strategy", "stale", "promoting", "unblock", "admit", "promote"}
  BY <1>1
<1>3. \A b \in Bugs : [bug |-> b, lane |-> <<b, cluster[b].lane>>, key |-> cluster[b].key,
                       bundle |-> cluster[b].bundle] \in {s \in Strategies : Bug(s.lane) = s.bug}
  <2>. TAKE b \in Bugs
  <2>1. cluster[b] \in Clusters
    BY DEF LandedInv, ColumnsInv
  <2>. QED BY <2>1 DEF Clusters, Strategies, LaneIds, Bug
<1>4. Work("strategy") \subseteq Listed("strategy")
  <2>. DEFINE W == {[bug |-> b, lane |-> <<b, cluster[b].lane>>, key |-> cluster[b].key,
                     bundle |-> cluster[b].bundle] : b \in
                     {x \in Bugs : /\ cluster[x].check \in {"pending", "decided"}
                                   /\ Untracked(<<x, cluster[x].lane>>)}}
  <2>1. Work("strategy") = W
    BY DEF Work
  <2>2. Listed("strategy") = {s \in Strategies : Bug(s.lane) = s.bug}
    BY DEF Listed
  <2>3. ASSUME NEW s \in W PROVE s \in {x \in Strategies : Bug(x.lane) = x.bug}
    <3>1. PICK b \in Bugs : s = [bug |-> b, lane |-> <<b, cluster[b].lane>>, key |-> cluster[b].key,
                                 bundle |-> cluster[b].bundle]
      OBVIOUS
    <3>. QED BY <1>3, <3>1
  <2>. HIDE DEF W
  <2>. QED BY <2>1, <2>2, <2>3
<1>5. Work("reap") \subseteq Listed("reap")
  BY DEF Work, Listed
<1>6. \A name \in {"intents", "stale", "promoting", "unblock", "admit", "promote"} : Listed(name) = LaneIds
  BY DEF Listed
<1>7. Work("intents") \subseteq LaneIds
  BY DEF Work, Resumable
<1>8. Work("stale") \subseteq LaneIds
  BY DEF Work
<1>9. Work("promoting") \subseteq LaneIds
  BY DEF Work
<1>10. Work("unblock") \subseteq LaneIds
  BY DEF Work
<1>11. Work("admit") \subseteq LaneIds
  BY DEF Work
<1>12. Work("promote") \subseteq LaneIds
  BY DEF Work
<1>. QED BY <1>2, <1>4, <1>5, <1>6, <1>7, <1>8, <1>9, <1>10, <1>11, <1>12

(* So does a turn of the queue loop, a crash and a resume.                  *)
LEMMA LoopKeeps ==
  ASSUME LandedInv, RefreshQueue \/ (\E i \in 1 .. Len(Stages) : NextStage(i)) \/ Crash \/ UNCHANGED vars
  PROVE  LandedInv'
<1>. USE DEF LandedInv
<1>1. CASE RefreshQueue \/ UNCHANGED vars
  BY <1>1 DEF RefreshQueue, vars, durable, RowsInv, OnMain, FramesInv, FrameInv, ReportsInv,
              ResolvedIsLanded, IntentsInv, GitInv, PassInv, Listed, QuietInv, ColumnsInv
<1>2. ASSUME NEW i \in 1 .. Len(Stages), NextStage(i)
      PROVE  LandedInv'
  <2>1. /\ UNCHANGED <<lane, own, report, cluster, intent, decision, main, pushed, frame, spent>>
        /\ queue' \in {NoLane, queue}
        /\ pass' = [at |-> i, todo |-> Work(Stages[i]), found |-> Stages[i] \in Recovery]
    BY <1>2 DEF NextStage
  <2>2. PassInv'
    BY <2>1, WorkTyped DEF PassInv, Listed
  <2>3. QuietInv'
    <3>1. frame[Scheduler].at = "off" /\ Work(Stages[i]) # {}
      BY <1>2 DEF NextStage, Untracked, Idle
    <3>2. Stages[i] = "promoting" => frame[Promotion].at = "off"
      BY <3>1 DEF Work, Untracked
    <3>. QED BY <2>1, <3>1, <3>2 DEF QuietInv
  <2>. QED BY <2>1, <2>2, <2>3 DEF RowsInv, OnMain, FramesInv, FrameInv, ReportsInv,
              ResolvedIsLanded, IntentsInv, GitInv, ColumnsInv
<1>3. CASE Crash
  <2>1. /\ UNCHANGED <<lane, report, cluster, intent, decision, queue, main, pushed>>
        /\ frame' = [p \in Procs |-> Off] /\ own' = {} /\ spent' = spent + 1
        /\ pass' = [at |-> 1, todo |-> {}, found |-> FALSE]
    BY <1>3 DEF Crash, Incident
  <2>2. FramesInv'
    BY <2>1, FrameValues DEF FramesInv, FrameInv, Respawning
  <2>3. PassInv'
    BY <2>1 DEF PassInv, Stages
  <2>4. QuietInv'
    BY <2>1, FrameValues, SchedulerActs DEF QuietInv, Stages, Procs
  <2>. QED BY <2>1, <2>2, <2>3, <2>4 DEF RowsInv, OnMain, ReportsInv, ResolvedIsLanded, IntentsInv, GitInv, ColumnsInv
<1>. QED BY <1>1, <1>2, <1>3

----------------------------------------------------------------------------
(* At the start every lane is planned or unused, and nothing is on main.    *)
LEMMA LandedStart == LanesInit => LandedInv
<1>. SUFFICES ASSUME LanesInit PROVE LandedInv
  OBVIOUS
<1>. USE BugLanesAssumption DEF LanesInit
<1>1. RowsInv
  BY DEF RowsInv, LaneRows
<1>2. FramesInv
  BY FrameValues DEF FramesInv, FrameInv, Respawning
<1>3. ReportsInv
  BY DEF ReportsInv, Reports, ResolvedIsLanded
<1>4. IntentsInv
  BY DEF IntentsInv, Intents, NoIntent
<1>5. GitInv /\ PassInv
  BY DEF GitInv, PassInv, Stages
<1>6. ColumnsInv
  BY DEF ColumnsInv, Clusters, Rounds
<1>7. QuietInv
  BY FrameValues, SchedulerActs DEF QuietInv, Stages, Procs
<1>. QED BY <1>1, <1>2, <1>3, <1>4, <1>5, <1>6, <1>7 DEF LandedInv

(* No step of the queue leads out of the invariant.                         *)
LEMMA LandedStep == LandedInv /\ [LanesNext]_vars => LandedInv'
<1>. SUFFICES ASSUME LandedInv, [LanesNext]_vars PROVE LandedInv'
  OBVIOUS
<1>1. CASE PollLoop
  <2>1. Scheduler \in Procs
    BY DEF Procs
  <2>. QED BY <1>1, <2>1, ReapKeeps, HandleKeeps, ResumeStrategyKeeps, RecoverKeeps, StartKeeps,
              LoopKeeps, StrategistKeeps, SwapKeeps, SettleKeeps, PushKeeps, FinishKeeps DEF PollLoop
<1>. QED BY <1>1, LaneTaskKeeps, PromotionKeeps, LoopKeeps DEF LanesNext

(* The invariant of the lanes of bugfix-v2: the columns and the locals keep *)
(* their domains, what any row or coroutine calls applied is on main.       *)
THEOREM LandedInvariant == LanesSpec => []LandedInv
  BY LandedStart, LandedStep, PTL DEF LanesSpec

(* A report is resolved only when some lane of its bug has reached every    *)
(* source repository, for any number of repositories, respawns, crashes and *)
(* failures between picking, pushing and saving (_promote_lane,             *)
(* _finalize_promoted_lane).                                                *)
THEOREM ResolvedStaysLanded == LanesSpec => []ResolvedIsLanded
<1>1. LandedInv => ResolvedIsLanded
  BY DEF LandedInv, ReportsInv
<1>. QED BY <1>1, LandedInvariant, PTL

============================================================================
