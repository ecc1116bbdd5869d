----------------------------- MODULE MCHandShake -----------------------------
(* HandShake with three rounds, for one to be overtaken by the next and that  *)
(* one again.                                                                 *)
EXTENDS HandShake
=============================================================================
