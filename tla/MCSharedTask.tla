----------------------------- MODULE MCSharedTask -----------------------------
(* Small instances of SharedTask.                                             *)
EXTENDS SharedTask, TLC

MCSymmetry == Permutations(Workers)
=============================================================================
