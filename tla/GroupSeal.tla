----------------------------- MODULE GroupSeal -----------------------------
(* What the checkpoint of a DAG group promises to whoever reads dag-group:  *)
(* tasks are published first, and only ever more of them; then all lanes of *)
(* the published tasks settle at once.  A resume may meet the group between *)
(* the two.                                                                 *)
CONSTANT Members      \* task ids of the group
VARIABLES published,  \* tasks of the dag-group body
          settled     \* tasks whose lanes are done

SealInit == published = {} /\ settled = {}

Publish ==
  /\ published' \in SUBSET Members
  /\ published \subseteq published' /\ published' # published
  /\ UNCHANGED settled

Settle ==
  /\ settled # published
  /\ settled' = published
  /\ UNCHANGED published

SealNext == Publish \/ Settle

SealSpec == SealInit /\ [][SealNext]_<<published, settled>>
============================================================================
