---------------------------- MODULE MCProdCons2 ----------------------------
(***************************************************************************)
(* ProdCons2 with the thread counts of the program (nproducer = 2,         *)
(* nconsumer = 3, lines 16-17) and an int of three values, so that the     *)
(* counter wraps within a run.                                             *)
(***************************************************************************)
EXTENDS ProdCons2
=============================================================================
