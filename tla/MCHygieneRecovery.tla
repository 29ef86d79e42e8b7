------------------------ MODULE MCHygieneRecovery ------------------------
(* Instance of HygieneRecovery for TLC.  MaxLanes leaves room for every     *)
(* rerun: each task's first lane, MaxReruns more, and the silent failures.  *)
EXTENDS HygieneRecovery, TLC

ASSUME EnoughLanes == MaxLanes >= Cardinality(Tasks) * (MaxReruns + 1) + MaxSilent
===========================================================================
