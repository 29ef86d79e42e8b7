--------------------------- MODULE MCClaudePool ----------------------------
(* Instances of ClaudePool for TLC.                                         *)
EXTENDS ClaudePool, TLC

ProfileSymmetry == Permutations(Profiles)
=============================================================================
