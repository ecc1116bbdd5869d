----------------------------- MODULE BoundedQueue -----------------------------
(****************************************************************************)
(* What the queue of os_day6/circular_queue.c promises: a first-in,         *)
(* first-out queue of a fixed capacity.                                     *)
(****************************************************************************)
EXTENDS Naturals, Sequences

CONSTANTS Items, Capacity

VARIABLE queued   \* the items, oldest first

Init == queued = <<>>

Put == Len(queued) < Capacity /\ \E x \in Items : queued' = Append(queued, x)
Get == queued # <<>> /\ queued' = Tail(queued)

Spec == Init /\ [][Put \/ Get]_queued
=============================================================================
