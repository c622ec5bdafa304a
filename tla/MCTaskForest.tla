----------------------------- MODULE MCTaskForest -----------------------------
(***************************************************************************)
(* TaskForest with few identifiers: enough for two root tasks, one of them *)
(* joining subtasks twice or subtasks of subtasks.                         *)
(***************************************************************************)
EXTENDS TaskForest

=============================================================================
