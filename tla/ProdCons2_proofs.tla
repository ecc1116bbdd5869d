-------------------------- MODULE ProdCons2_proofs --------------------------
(***************************************************************************)
(* For any number of producers and consumers and any width of the shared   *)
(* integer: the mutual exclusion of os_day6/prodcons2.c, that the right to *)
(* proceed is never lost, and that the two mutexes implement the hand-off  *)
(* (its safety part; fairness is left to TLC).                             *)
(*                                                                         *)
(* Exclusion alone is not inductive: nothing in it says that the mutex a   *)
(* thread is about to free is held, so two free mutexes could let two      *)
(* threads in.  IInv adds where the right to proceed is: p_mutex, c_mutex  *)
(* or one thread, never two of them at once.                               *)
(***************************************************************************)
EXTENDS ProdCons2, TLAPS

\* While a thread is in its critical section both mutexes are held, and they
\* are never both free.
OneRight ==
  /\ (\E t \in Threads : pc[t] \in Critical) =>
        p_mutex = "held" /\ c_mutex = "held"
  /\ ~(p_mutex = "free" /\ c_mutex = "free")

\* What a producer loaded is still the datum when it stores.
FreshLoad == \A p \in Producers : pc[p] = "store" => reg[p] = sharedData

IInv == TypeOK /\ Exclusion /\ OneRight /\ SomeoneProceeds /\ FreshLoad

\* Type correctness: mutexes are free or held, no thread is at a program
\* point of the other kind, the shared integer stays in its width.
THEOREM Typing == Safety => []TypeOK
<1>1. Init => TypeOK
  BY ThreadsAssumption, IntRangeAssumption DEF Init, TypeOK, Threads
<1>2. TypeOK /\ [Next]_vars => TypeOK'
  <2> SUFFICES ASSUME TypeOK, [Next]_vars PROVE TypeOK'
    OBVIOUS
  <2> USE ThreadsAssumption, IntRangeAssumption DEF TypeOK, Threads
  <2>1. ASSUME NEW p \in Producers, ProducerStep(p) PROVE TypeOK'
    <3>1. CASE Create(p) BY <3>1 DEF Create
    <3>2. CASE ProducerLock(p) BY <3>2 DEF ProducerLock
    <3>3. CASE ProducerLoad(p) BY <3>3 DEF ProducerLoad
    <3>4. CASE ProducerStore(p)
      <4>1. reg[p] \in Nat
        OBVIOUS
      <4>2. (reg[p] + 1) % IntRange \in 0 .. IntRange - 1
        BY <4>1
      <4>3. QED
        BY <3>4, <4>2 DEF ProducerStore
    <3>5. CASE ProducerUnlock(p) BY <3>5 DEF ProducerUnlock
    <3>6. CASE GetChar(p) BY <3>6 DEF GetChar
    <3>7. QED
      BY <2>1, <3>1, <3>2, <3>3, <3>4, <3>5, <3>6 DEF ProducerStep
  <2>2. ASSUME NEW c \in Consumers, ConsumerStep(c) PROVE TypeOK'
    <3>1. CASE Create(c) BY <3>1 DEF Create
    <3>2. CASE ConsumerLock(c) BY <3>2 DEF ConsumerLock
    <3>3. CASE ConsumerRead(c) BY <3>3 DEF ConsumerRead
    <3>4. CASE ConsumerUnlock(c) BY <3>4 DEF ConsumerUnlock
    <3>5. CASE GetChar(c) BY <3>5 DEF GetChar
    <3>6. QED
      BY <2>2, <3>1, <3>2, <3>3, <3>4, <3>5 DEF ConsumerStep
  <2>3. CASE UNCHANGED vars
    BY <2>3 DEF vars
  <2>4. QED
    BY <2>1, <2>2, <2>3 DEF Next
<1>3. QED
  BY <1>1, <1>2, PTL DEF Safety
-----------------------------------------------------------------------------
LEMMA InitInv == Init => IInv
BY ThreadsAssumption, IntRangeAssumption
   DEF Init, IInv, TypeOK, Exclusion, OneRight, SomeoneProceeds, FreshLoad,
       Critical, Threads

LEMMA StepInv == TypeOK' /\ IInv /\ [Next]_vars => IInv'
<1> SUFFICES ASSUME TypeOK', IInv, [Next]_vars PROVE IInv'
  OBVIOUS
<1> USE ThreadsAssumption
        DEF IInv, TypeOK, Exclusion, OneRight, SomeoneProceeds, FreshLoad,
            Critical, Threads
<1>1. ASSUME NEW t \in Threads, Create(t) PROVE IInv'
  BY <1>1 DEF Create
<1>2. ASSUME NEW p \in Producers, ProducerLock(p) PROVE IInv'
  BY <1>2 DEF ProducerLock
<1>3. ASSUME NEW p \in Producers, ProducerLoad(p) PROVE IInv'
  BY <1>3 DEF ProducerLoad
<1>4. ASSUME NEW p \in Producers, ProducerStore(p) PROVE IInv'
  BY <1>4 DEF ProducerStore
<1>5. ASSUME NEW p \in Producers, ProducerUnlock(p) PROVE IInv'
  BY <1>5 DEF ProducerUnlock
<1>6. ASSUME NEW c \in Consumers, ConsumerLock(c) PROVE IInv'
  BY <1>6 DEF ConsumerLock
<1>7. ASSUME NEW c \in Consumers, ConsumerRead(c) PROVE IInv'
  BY <1>7 DEF ConsumerRead
<1>8. ASSUME NEW c \in Consumers, ConsumerUnlock(c) PROVE IInv'
  BY <1>8 DEF ConsumerUnlock
<1>9. ASSUME NEW t \in Threads, GetChar(t) PROVE IInv'
  BY <1>9 DEF GetChar
<1>10. CASE UNCHANGED vars
  BY <1>10 DEF vars
<1>11. QED
  BY <1>1, <1>2, <1>3, <1>4, <1>5, <1>6, <1>7, <1>8, <1>9, <1>10
     DEF Next, ProducerStep, ConsumerStep

LEMMA Invariance == Safety => []IInv
BY InitInv, StepInv, Typing, PTL DEF Safety

\* The increment and the read of the shared integer are never raced, whatever
\* the number of threads.
THEOREM MutualExclusion == Safety => []Exclusion
BY Invariance, PTL DEF IInv

\* The threads can never all be left waiting for the two mutexes.
THEOREM NeverStuck == Safety => []SomeoneProceeds
BY Invariance, PTL DEF IInv

\* No unlock finds its mutex already free.
THEOREM UnlocksAreLegal == Safety => []UnlocksHeldMutex
<1>1. IInv => UnlocksHeldMutex
  BY DEF IInv, OneRight, UnlocksHeldMutex, Critical, Threads
<1>2. QED
  BY <1>1, Invariance, PTL
-----------------------------------------------------------------------------
\* Every step of the threads is a production, a consumption, or invisible to
\* the hand-off: storing produces, reading consumes, locking and unlocking
\* only move the right to proceed.
LEMMA StepRefines == IInv /\ IInv' /\ [Next]_vars => [HO!Next]_(HO!vars)
<1> SUFFICES ASSUME IInv, IInv', [Next]_vars PROVE [HO!Next]_(HO!vars)
  OBVIOUS
<1> USE ThreadsAssumption
        DEF IInv, TypeOK, Exclusion, OneRight, FreshLoad, Critical, Threads,
            Full, HO!vars
<1>1. ASSUME NEW t \in Threads, Create(t) \/ GetChar(t) PROVE UNCHANGED HO!vars
  BY <1>1 DEF Create, GetChar
<1>2. ASSUME NEW p \in Producers, ProducerLock(p) \/ ProducerLoad(p)
      PROVE UNCHANGED HO!vars
  BY <1>2 DEF ProducerLock, ProducerLoad
<1>3. ASSUME NEW p \in Producers, ProducerStore(p) PROVE HO!Produce
  BY <1>3 DEF ProducerStore, HO!Produce
<1>4. ASSUME NEW p \in Producers, ProducerUnlock(p) PROVE UNCHANGED HO!vars
  BY <1>4 DEF ProducerUnlock
<1>5. ASSUME NEW c \in Consumers, ConsumerLock(c) PROVE UNCHANGED HO!vars
  BY <1>5 DEF ConsumerLock
<1>6. ASSUME NEW c \in Consumers, ConsumerRead(c) PROVE HO!Consume
  BY <1>6 DEF ConsumerRead, HO!Consume
<1>7. ASSUME NEW c \in Consumers, ConsumerUnlock(c) PROVE UNCHANGED HO!vars
  BY <1>7 DEF ConsumerUnlock
<1>8. CASE UNCHANGED vars
  BY <1>8 DEF vars
<1>9. QED
  BY <1>1, <1>2, <1>3, <1>4, <1>5, <1>6, <1>7, <1>8
     DEF Next, ProducerStep, ConsumerStep, HO!Next

\* The mutex protocol implements the hand-off: nothing is produced before the
\* previous datum is consumed, and no datum is consumed twice.
THEOREM HandOffRefinement == Safety => HO!Safety
<1>1. Init => HO!Init
  BY ThreadsAssumption DEF Init, HO!Init, Full, Threads
<1>2. QED
  BY <1>1, StepRefines, Invariance, PTL DEF Safety, HO!Safety
=============================================================================
