---------------------------- MODULE MCBatchTask ----------------------------
(* Small instances of BatchTask: a blueprint and one more.                 *)
EXTENDS BatchTask

NoHazards == {}
ReplanHazard == {"replan"}
=============================================================================
