---------------------------- MODULE MCBugLanes -----------------------------
(* Instances of BugLanes for TLC.                                           *)
EXTENDS BugLanes

CONSTANT whole  \* the bug whose lanes change every repository

OneScope     == [b \in Bugs |-> {"file"}]
FirstOrWhole == [b \in Bugs |-> IF b = whole THEN Repos ELSE {1}]
=============================================================================
