------------------------------ MODULE HandOff ------------------------------
(***************************************************************************)
(* The one-place hand-off that the header comment of os_day6/prodcons2.c   *)
(* (lines 1-6) promises: a datum is produced only when the previous one    *)
(* has been consumed, and every datum is consumed exactly once.  Nothing   *)
(* here speaks of threads or mutexes; ProdCons2 implements it.             *)
(***************************************************************************)
EXTENDS Naturals

CONSTANT IntRange \* number of values of the shared int (2^32 in the program)

VARIABLES full,  \* a datum has been produced and not yet consumed
          value  \* the datum

vars == <<full, value>>

Init == full = FALSE /\ value = 0

Produce ==
  /\ ~full
  /\ full' = TRUE
  /\ value' = (value + 1) % IntRange

Consume ==
  /\ full
  /\ full' = FALSE
  /\ UNCHANGED value

Next == Produce \/ Consume

Safety == Init /\ [][Next]_vars

\* Neither side may stall for ever.
Spec == Safety /\ WF_vars(Produce) /\ WF_vars(Consume)
=============================================================================
