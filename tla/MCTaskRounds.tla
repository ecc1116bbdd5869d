----------------------------- MODULE MCTaskRounds -----------------------------
(* Small instances of TaskRounds.                                             *)
EXTENDS TaskRounds
=============================================================================
