--------------------------- MODULE MCCircularQueue ---------------------------
(* Small instances of CircularQueue, given by its configurations.             *)
EXTENDS CircularQueue
=============================================================================
