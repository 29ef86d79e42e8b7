------------------------- MODULE MCMergeQueueDrain -------------------------
(* Instances of MergeQueueDrain for TLC; every drain passes the same        *)
(* lease_owner.                                                             *)
EXTENDS MergeQueueDrain

CONSTANTS drain

OneOwner == [w \in Sessions |-> drain]

TwoLanes == 1 .. 2
ThreeLanes == 1 .. 3

OwnTask    == [i \in Lanes |-> i]
OwnPatch   == [i \in Lanes |-> i]
EveryRepo  == [i \in Lanes |-> Repos]

Nowhere    == {}
Anywhere   == Labels \ {"idle"}
SessionSymmetry == Permutations(Sessions)
============================================================================
