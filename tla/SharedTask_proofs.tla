-------------------------- MODULE SharedTask_proofs --------------------------
(* Proofs about SharedTask, for any number of workers, that attach, race and  *)
(* are interrupted at any time.                                               *)
EXTENDS SharedTask, TLAPS

Busy == {"claim", "sign", "compute", "store", "done"}

\* data holds a string whose first character is a letter or the length.
Filled == first \in {Letter, MaxLen} /\ tail = MaxLen - 1

\* Of any server: nobody takes a string, or reports one, that was not filled; and
\* what a worker is about to store is the length.
FInv ==
  /\ \/ Filled
     \/ /\ status \in {-1, 0} /\ server \notin {"offer", "report"}
        /\ \A w \in Workers : worker[w] \notin Busy
  /\ server = "rest" => first \in {Letter, MaxLen}
  /\ \A w \in Workers : worker[w] = "store" => length[w] = MaxLen

\* Of the first server: between its first store and its offer the server has the block to itself,
\* but for the -1 of an attaching worker; a 0 means that nobody is at work; and
\* a worker that is done, or a status of 3 or 4, comes after a length in data[0].
RInv ==
  "restart" \notin happened =>
    /\ server \in {"new", "reset", "fill", "rest", "offer"} => status \in {-1, 0}
    /\ server \in {"new", "reset", "fill", "rest", "offer"} \/ status = 0
         => \A w \in Workers : worker[w] \notin Busy
    /\ status \in {3, 4} \/ (\E w \in Workers : worker[w] = "done") \/ server = "report"
         => first = MaxLen /\ computed # {}

\* The fields, the processes and the history have their types.
THEOREM Typing == Spec => []TypeOK
<1>1. Init => TypeOK
  BY TaskAssumption DEF TaskAssumption, Init, TypeOK
<1>2. TypeOK /\ [Next]_vars => TypeOK'
  <2> SUFFICES ASSUME TypeOK, [Next]_vars PROVE TypeOK'
    OBVIOUS
  <2> USE TaskAssumption DEF TaskAssumption, TypeOK, block, data, history, AtServer, AtWorker
  <2>1. CASE UNCHANGED vars
    BY <2>1 DEF vars
  <2>2. CASE ServerAttach
    <3>1. happened' \subseteq {"restart", "interrupt"}
      BY <2>2 DEF ServerAttach
    <3> QED BY <2>2, <3>1 DEF ServerAttach
  <2>3. CASE ServerReset
    BY <2>3 DEF ServerReset
  <2>4. CASE ServerTop
    BY <2>4 DEF ServerTop
  <2>5. CASE ServerFill
    BY <2>5 DEF ServerFill
  <2>6. CASE ServerOffer
    BY <2>6 DEF ServerOffer
  <2>7. CASE ServerPoll
    BY <2>7 DEF ServerPoll
  <2>8. CASE ServerDecide
    BY <2>8 DEF ServerDecide
  <2>9. CASE ServerDone
    BY <2>9 DEF ServerDone
  <2>10. CASE ServerInterrupt
    BY <2>10 DEF ServerInterrupt
  <2>11. ASSUME NEW w \in Workers, WorkerAttach(w) \/ Worker(w) \/ WorkerInterrupt(w)
        PROVE  TypeOK'
    <3>1. CASE WorkerAttach(w)
      BY <3>1 DEF WorkerAttach
    <3>2. CASE WorkerTestEnd(w)
      BY <3>2 DEF WorkerTestEnd
    <3>3. CASE WorkerTest(w)
      BY <3>3 DEF WorkerTest
    <3>4. CASE WorkerClaim(w)
      BY <3>4 DEF WorkerClaim
    <3>5. CASE WorkerSign(w)
      BY <3>5 DEF WorkerSign
    <3>6. CASE WorkerCompute(w)
      BY <3>6 DEF WorkerCompute, Strlen
    <3>9. CASE WorkerStore(w)
      BY <3>9 DEF WorkerStore
    <3>7. CASE WorkerDone(w)
      BY <3>7 DEF WorkerDone
    <3>8. CASE WorkerInterrupt(w)
      BY <3>8 DEF WorkerInterrupt
    <3> QED BY <2>11, <3>1, <3>2, <3>3, <3>4, <3>5, <3>6, <3>7, <3>8, <3>9 DEF Worker
  <2>12. CASE ServerFillRest
    BY <2>12 DEF ServerFillRest
  <2> QED BY <2>1, <2>2, <2>3, <2>4, <2>5, <2>6, <2>7, <2>8, <2>9, <2>10, <2>11, <2>12 DEF Next, Server
<1> QED BY <1>1, <1>2, PTL DEF Spec

\* Each step keeps the string filled once it is offered.
LEMMA StepFInv == TypeOK /\ FInv /\ [Next]_vars => FInv'
<1> SUFFICES ASSUME TypeOK, FInv, [Next]_vars PROVE FInv'
  OBVIOUS
<1> USE TaskAssumption DEF TaskAssumption, FInv, Filled, TypeOK, Busy, block, data, history, AtServer, AtWorker
<1>1. CASE UNCHANGED vars
  BY <1>1 DEF vars
<1>2. CASE ServerAttach \/ ServerInterrupt
  BY <1>2 DEF ServerAttach, ServerInterrupt
<1>3. CASE ServerReset \/ ServerTop
  BY <1>3 DEF ServerReset, ServerTop
<1>4. CASE ServerFill \/ ServerFillRest
  BY <1>4 DEF ServerFill, ServerFillRest
<1>5. CASE ServerOffer \/ ServerPoll \/ ServerDone
  BY <1>5 DEF ServerOffer, ServerPoll, ServerDone
<1>6. CASE ServerDecide
  BY <1>6 DEF ServerDecide
<1>7. ASSUME NEW w \in Workers, WorkerAttach(w) \/ WorkerInterrupt(w) PROVE FInv'
  BY <1>7 DEF WorkerAttach, WorkerInterrupt
<1>8. ASSUME NEW w \in Workers, Worker(w) PROVE FInv'
  <2>1. CASE WorkerTestEnd(w) \/ WorkerTest(w)
    BY <2>1 DEF WorkerTestEnd, WorkerTest
  <2>2. CASE WorkerClaim(w) \/ WorkerSign(w) \/ WorkerDone(w)
    BY <2>2 DEF WorkerClaim, WorkerSign, WorkerDone
  <2>3. CASE WorkerCompute(w)
    BY <2>3 DEF WorkerCompute, Strlen
  <2>4. CASE WorkerStore(w)
    BY <2>4 DEF WorkerStore
  <2> QED BY <1>8, <2>1, <2>2, <2>3, <2>4 DEF Worker
<1> QED BY <1>1, <1>2, <1>3, <1>4, <1>5, <1>6, <1>7, <1>8 DEF Next, Server

\* Each step keeps the order of the first round.
LEMMA StepRInv == TypeOK /\ FInv /\ RInv /\ [Next]_vars => RInv'
<1> SUFFICES ASSUME TypeOK, FInv, RInv, [Next]_vars, "restart" \notin happened' PROVE RInv'
  BY DEF RInv
<1> USE DEF RInv, TypeOK, Busy, block, data, history, AtServer, AtWorker
<1>1. CASE UNCHANGED vars
  BY <1>1 DEF vars
<1>2. CASE ServerAttach \/ ServerInterrupt \/ ServerReset \/ ServerTop \/ ServerFill
  <2>1. CASE ServerAttach
    BY <2>1 DEF ServerAttach
  <2>2. CASE ServerInterrupt
    BY <2>2 DEF ServerInterrupt
  <2>3. CASE ServerReset
    BY <2>3 DEF ServerReset
  <2>4. CASE ServerTop
    BY <2>4 DEF ServerTop
  <2>5. CASE ServerFill
    BY <2>5 DEF ServerFill
  <2> QED BY <1>2, <2>1, <2>2, <2>3, <2>4, <2>5
<1>3. CASE ServerFillRest \/ ServerOffer \/ ServerPoll \/ ServerDone
  BY <1>3 DEF ServerFillRest, ServerOffer, ServerPoll, ServerDone
<1>4. CASE ServerDecide
  BY <1>4 DEF ServerDecide
<1>5. ASSUME NEW w \in Workers, WorkerAttach(w) \/ WorkerInterrupt(w) PROVE RInv'
  BY <1>5 DEF WorkerAttach, WorkerInterrupt
<1>6. ASSUME NEW w \in Workers, Worker(w) PROVE RInv'
  <2>1. CASE WorkerTestEnd(w) \/ WorkerTest(w)
    BY <2>1 DEF WorkerTestEnd, WorkerTest
  <2>2. CASE WorkerClaim(w) \/ WorkerSign(w)
    BY <2>2 DEF WorkerClaim, WorkerSign
  <2>3. CASE WorkerCompute(w) \/ WorkerDone(w)
    BY <2>3 DEF WorkerCompute, WorkerDone
  <2>4. CASE WorkerStore(w)
    BY <2>4 DEF WorkerStore, FInv
  <2> QED BY <1>6, <2>1, <2>2, <2>3, <2>4 DEF Worker
<1> QED BY <1>1, <1>2, <1>3, <1>4, <1>5, <1>6 DEF Next, Server

\* What the server prints is the length of its string, and with the first server
\* a worker has put that length in data[0], for any number of workers and any
\* length: rests on the server having the block to itself until it offers the
\* string, on nobody storing 0 a second time, and on a length not being a zero.
THEOREM LengthReported == Spec => []ReportsTheLength
<1>1. Init => FInv /\ RInv
  BY TaskAssumption DEF TaskAssumption, Init, FInv, RInv, Busy
<1>2. FInv /\ RInv => ReportsTheLength
  BY TaskAssumption DEF TaskAssumption, FInv, Filled, RInv, ReportsTheLength, Strlen
<1> QED BY <1>1, <1>2, StepFInv, StepRInv, Typing, PTL DEF Spec
=============================================================================
