------------------------- MODULE MCGroupCheckpoint -------------------------
(* Instance of GroupCheckpoint for TLC: two tasks on two lanes; live runs   *)
(* hand over the first task or all of them.                                 *)
EXTENDS GroupCheckpoint, TLC

CONSTANTS drain

OneOwner  == [w \in Sessions |-> drain]
TwoLanes  == 1 .. 2
OwnPatch  == [i \in Lanes |-> i]
OwnCommit == [i \in Lanes |-> i]

FirstTask == {{CHOOSE t \in Tasks : TRUE}}
============================================================================
