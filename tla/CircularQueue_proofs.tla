------------------------- MODULE CircularQueue_proofs -------------------------
(* Proofs about CircularQueue, for any number of threads, any buffer of two   *)
(* places or more, and wakeups nobody asked for: the state has its type,      *)
(* without removals the threads never all wait, and the ring is a first-in,   *)
(* first-out queue.                                                           *)
EXTENDS CircularQueue, SequenceTheorems, TLAPS

\* The next place of the ring is a place, and another one.
LEMMA NextSlot ==
  ASSUME NEW i \in Slots
  PROVE  (i + 1) % BUFFER_SIZE \in Slots /\ (i + 1) % BUFFER_SIZE # i
<1>1. BUFFER_SIZE \in Nat /\ BUFFER_SIZE >= 2 /\ i \in Nat /\ i < BUFFER_SIZE
  BY QueueAssumption DEF QueueAssumption, Slots
<1>2. CASE i + 1 < BUFFER_SIZE
  <2>1. (i + 1) % BUFFER_SIZE = i + 1
    BY <1>1, <1>2
  <2> QED BY <1>1, <1>2, <2>1 DEF Slots
<1>3. CASE i + 1 = BUFFER_SIZE
  <2>1. (i + 1) % BUFFER_SIZE = 0
    BY <1>1, <1>3
  <2> QED BY <1>1, <1>3, <2>1 DEF Slots
<1> QED BY <1>1, <1>2, <1>3

------------------------------------------------------------------------------
\* The state has its type; in particular front and rear stay within the ring.
THEOREM Typing == Spec => []TypeOK
<1>1. Init => TypeOK
  <2>1. 0 \in Slots
    BY QueueAssumption DEF QueueAssumption, Slots
  <2> QED BY <2>1 DEF Init, TypeOK, PCs
<1>2. TypeOK /\ [Next]_vars => TypeOK'
  <2> SUFFICES ASSUME TypeOK, [Next]_vars PROVE TypeOK'
    OBVIOUS
  <2> USE DEF TypeOK, Goto, PCs, queue, manager
  <2>0. CASE UNCHANGED vars
    BY <2>0 DEF vars
  <2>1. ASSUME NEW t \in Threads, Run(t) \/ SpuriousWake(t) PROVE TypeOK'
    <3>1. CASE Lock(t)
      BY <3>1 DEF Lock
    <3>2. CASE Sleep(t)
      BY <3>2 DEF Sleep
    <3>3. CASE ProducerWait(t) \/ ConsumerWait(t)
      BY <3>3 DEF ProducerWait, ConsumerWait, Wait
    <3>4. CASE ProducerEnqueue(t)
      BY <3>4, NextSlot DEF ProducerEnqueue, enqueue
    <3>5. CASE ConsumerDequeue(t)
      BY <3>5, NextSlot DEF ConsumerDequeue, dequeue
    <3>6. CASE ProducerSignal(t) \/ ConsumerSignal(t)
      BY <3>6 DEF ProducerSignal, ConsumerSignal, SignalAndUnlock, WaitingProducers, WaitingConsumers
    <3>7. CASE DieAsleep(t) \/ DieWaiting(t) \/ DiePrinting(t)
      BY <3>7 DEF DieAsleep, DieWaiting, DiePrinting, Die
    <3>8. CASE SpuriousWake(t)
      BY <3>8 DEF SpuriousWake
    <3> QED BY <2>1, <3>1, <3>2, <3>3, <3>4, <3>5, <3>6, <3>7, <3>8 DEF Run
  <2>2. CASE addProducer
    BY <2>2, AppendProperties DEF addProducer
  <2>3. CASE addConsumer
    BY <2>3, AppendProperties DEF addConsumer
  <2>4. ASSUME NEW s \in Seq(Threads), s # <<>>
        PROVE  s[Len(s)] \in Threads /\ SubSeq(s, 1, Len(s) - 1) \in Seq(Threads)
    BY <2>4
  <2>5. CASE removeProducer
    BY <2>5, <2>4 DEF removeProducer
  <2>6. CASE removeConsumer
    BY <2>6, <2>4 DEF removeConsumer
  <2> QED BY <2>0, <2>1, <2>2, <2>3, <2>5, <2>6 DEF Next
<1> QED BY <1>1, <1>2, PTL DEF Spec

------------------------------------------------------------------------------
\* A producer that can be trusted to look at the queue again; or a consumer
\* that is about to wake one.  And the other way round.
ProducerComes == \/ \E t \in Threads : Producer(t) /\ pc[t] # "wait"
                 \/ \E t \in Threads : Consumer(t) /\ pc[t] = "signal"
ConsumerComes == \/ \E t \in Threads : Consumer(t) /\ pc[t] # "wait"
                 \/ \E t \in Threads : Producer(t) /\ pc[t] = "signal"

\* Producers all wait at a full queue only, consumers at an empty one.
WInv ==
  ~Removing =>
    /\ cancelled = {}
    /\ ~isFull /\ (\E t \in Threads : Producer(t)) => ProducerComes
    /\ ~isEmpty /\ (\E t \in Threads : Consumer(t)) => ConsumerComes

LEMMA StepWInv == TypeOK /\ WInv /\ [Next]_vars => WInv'
<1> SUFFICES ASSUME TypeOK, WInv, [Next]_vars, ~Removing PROVE WInv'
  BY DEF WInv
<1> USE DEF Goto, queue, manager, Producer, Consumer, ProducerComes, ConsumerComes
<1>0. /\ pc \in [Threads -> PCs] /\ role \in [Threads -> {"producer", "consumer"}]
      /\ cancelled = {}
      /\ ~isFull /\ (\E t \in Threads : Producer(t)) => ProducerComes
      /\ ~isEmpty /\ (\E t \in Threads : Consumer(t)) => ConsumerComes
  BY DEF TypeOK, WInv
<1>1. CASE UNCHANGED vars
  BY <1>0, <1>1 DEF vars, WInv, isFull, isEmpty
<1>2. ASSUME NEW t \in Threads, Run(t) \/ SpuriousWake(t) PROVE WInv'
  <2>1. CASE Lock(t)
    BY <1>0, <2>1 DEF Lock, WInv, isFull, isEmpty
  <2>2. CASE Sleep(t)
    BY <1>0, <2>2 DEF Sleep, WInv, isFull, isEmpty
  <2>3. CASE ProducerWait(t)
    BY <1>0, <2>3 DEF ProducerWait, Wait, WInv, isFull, isEmpty
  <2>4. CASE ConsumerWait(t)
    BY <1>0, <2>4 DEF ConsumerWait, Wait, WInv, isFull, isEmpty
  <2>5. CASE ProducerEnqueue(t)
    BY <1>0, <2>5 DEF ProducerEnqueue, WInv
  <2>6. CASE ConsumerDequeue(t)
    BY <1>0, <2>6 DEF ConsumerDequeue, WInv
  <2>7. CASE ProducerSignal(t)
    BY <1>0, <2>7 DEF ProducerSignal, SignalAndUnlock, WaitingConsumers, WInv, isFull, isEmpty
  <2>8. CASE ConsumerSignal(t)
    BY <1>0, <2>8 DEF ConsumerSignal, SignalAndUnlock, WaitingProducers, WInv, isFull, isEmpty
  <2>9. CASE DieAsleep(t) \/ DieWaiting(t) \/ DiePrinting(t)
    BY <1>0, <2>9 DEF DieAsleep, DieWaiting, DiePrinting
  <2>10. CASE SpuriousWake(t)
    BY <1>0, <2>10 DEF SpuriousWake, WInv, isFull, isEmpty
  <2> QED BY <1>2, <2>1, <2>2, <2>3, <2>4, <2>5, <2>6, <2>7, <2>8, <2>9, <2>10 DEF Run
<1>3. CASE addProducer
  BY <1>0, <1>3 DEF addProducer, WInv, isFull, isEmpty
<1>4. CASE addConsumer
  BY <1>0, <1>4 DEF addConsumer, WInv, isFull, isEmpty
<1>5. CASE removeProducer \/ removeConsumer
  BY <1>5 DEF removeProducer, removeConsumer
<1> QED BY <1>1, <1>2, <1>3, <1>4, <1>5 DEF Next

\* Without removals there is always a thread that does not wait, once there are
\* both a producer and a consumer: no wakeup is lost, for any number of threads
\* and any size of the buffer.
THEOREM NoLostWakeup == Spec => []NeverAllWaiting
<1>1. Init => WInv
  BY DEF Init, WInv, Producer, Consumer
<1>2. TypeOK /\ WInv => NeverAllWaiting
  <2> SUFFICES ASSUME TypeOK, WInv, ~Removing,
                      NEW p \in Threads, Producer(p), NEW c \in Threads, Consumer(c)
               PROVE  \E t \in Threads : pc[t] \notin {"none", "wait"}
    BY DEF NeverAllWaiting
  <2>1. ~isFull \/ ~isEmpty
    BY NextSlot DEF TypeOK, isFull, isEmpty
  <2>2. CASE ~isFull
    BY <2>2 DEF WInv, ProducerComes, Producer, Consumer
  <2>3. CASE ~isEmpty
    BY <2>3 DEF WInv, ConsumerComes, Producer, Consumer
  <2> QED BY <2>1, <2>2, <2>3
<1> QED BY <1>1, <1>2, StepWInv, Typing, PTL DEF Spec

------------------------------------------------------------------------------
\* A sum of two places, and the place it stands for.
LEMMA AroundTheRing ==
  ASSUME NEW a \in Nat, a < 2 * BUFFER_SIZE
  PROVE  a % BUFFER_SIZE = IF a < BUFFER_SIZE THEN a ELSE a - BUFFER_SIZE
<1>1. BUFFER_SIZE \in Nat /\ BUFFER_SIZE >= 2
  BY QueueAssumption DEF QueueAssumption
<1>2. CASE a < BUFFER_SIZE
  BY <1>1, <1>2
<1>3. CASE a >= BUFFER_SIZE
  <2>1. a - BUFFER_SIZE \in 0 .. BUFFER_SIZE - 1 /\ a = 1 * BUFFER_SIZE + (a - BUFFER_SIZE)
    BY <1>1, <1>3
  <2> QED BY <1>1, <1>3, <2>1
<1> QED BY <1>1, <1>2, <1>3

\* How many items there are, without the remainder.
InUse == IF front <= rear THEN rear - front ELSE rear - front + BUFFER_SIZE

Place(i) == (front + i - 1) % BUFFER_SIZE

\* Where the places of the ring are: adding one and reducing is what the code does
\* with front and rear, and what the list of the queued elements is indexed by.
LEMMA RingArithmetic ==
  TypeOK =>
    /\ BUFFER_SIZE \in Nat /\ BUFFER_SIZE >= 2
    /\ front \in Nat /\ front < BUFFER_SIZE /\ rear \in Nat /\ rear < BUFFER_SIZE
    /\ InUse \in Nat /\ InUse < BUFFER_SIZE
    /\ BUFFER_SIZE - 1 - noOfFreeSpacesQ = InUse
    /\ isEmpty <=> InUse = 0
    /\ isFull <=> InUse = BUFFER_SIZE - 1
    /\ \A i \in 1 .. BUFFER_SIZE :
         Place(i) = IF front + i - 1 < BUFFER_SIZE THEN front + i - 1
                    ELSE front + i - 1 - BUFFER_SIZE
<1> HAVE TypeOK
<1>1. /\ BUFFER_SIZE \in Nat /\ BUFFER_SIZE >= 2
      /\ front \in Nat /\ front < BUFFER_SIZE /\ rear \in Nat /\ rear < BUFFER_SIZE
  BY QueueAssumption DEF QueueAssumption, TypeOK, Slots
<1>2. InUse \in Nat /\ InUse < BUFFER_SIZE
  BY <1>1 DEF InUse
<1>3. (rear - front + BUFFER_SIZE) % BUFFER_SIZE = InUse
  <2>1. rear - front + BUFFER_SIZE \in Nat /\ rear - front + BUFFER_SIZE < 2 * BUFFER_SIZE
    BY <1>1
  <2> QED BY <1>1, <2>1, AroundTheRing DEF InUse
<1>4. BUFFER_SIZE - 1 - noOfFreeSpacesQ = InUse
  BY <1>1, <1>2, <1>3 DEF noOfFreeSpacesQ
<1>5. isEmpty <=> InUse = 0
  BY <1>1 DEF isEmpty, InUse
<1>6. isFull <=> InUse = BUFFER_SIZE - 1
  <2>1. (rear + 1) % BUFFER_SIZE = IF rear + 1 < BUFFER_SIZE THEN rear + 1 ELSE 0
    BY <1>1, AroundTheRing
  <2> QED BY <1>1, <2>1 DEF isFull, InUse
<1>7. ASSUME NEW i \in 1 .. BUFFER_SIZE
      PROVE  Place(i) = IF front + i - 1 < BUFFER_SIZE THEN front + i - 1
                        ELSE front + i - 1 - BUFFER_SIZE
  <2>1. front + i - 1 \in Nat /\ front + i - 1 < 2 * BUFFER_SIZE
    BY <1>1
  <2> DEFINE a == front + i - 1
  <2>2. a \in Nat /\ a < 2 * BUFFER_SIZE
    BY <2>1
  <2>3. a % BUFFER_SIZE = IF a < BUFFER_SIZE THEN a ELSE a - BUFFER_SIZE
    <3> HIDE DEF a
    <3> QED BY <2>2, AroundTheRing
  <2> QED BY <1>1, <2>2, <2>3 DEF Place
<1> QED BY <1>1, <1>2, <1>4, <1>5, <1>6, <1>7

\* The queue as a sequence of items.
LEMMA QueuedIs ==
  TypeOK => /\ Queued = [i \in 1 .. InUse |-> buffer[Place(i)]]
            /\ Queued \in Seq(Items \cup {0}) /\ Len(Queued) = InUse
<1> HAVE TypeOK
<1>1. Queued = [i \in 1 .. InUse |-> buffer[Place(i)]]
  BY RingArithmetic DEF Queued, Place
<1>2. \A i \in 1 .. InUse : buffer[Place(i)] \in Items \cup {0}
  <2>1. buffer \in [0 .. BUFFER_SIZE - 1 -> Items \cup {0}]
    BY DEF TypeOK, Slots
  <2> SUFFICES ASSUME NEW i \in 1 .. InUse PROVE Place(i) \in 0 .. BUFFER_SIZE - 1
    BY <2>1
  <2>2. /\ i \in 1 .. BUFFER_SIZE /\ front \in Nat /\ front < BUFFER_SIZE /\ BUFFER_SIZE \in Nat
    BY RingArithmetic
  <2>3. Place(i) = IF front + i - 1 < BUFFER_SIZE THEN front + i - 1
                   ELSE front + i - 1 - BUFFER_SIZE
    BY <2>2, RingArithmetic
  <2> QED BY <2>2, <2>3
<1>3. InUse \in Nat
  BY RingArithmetic
<1> QED BY <1>1, <1>2, <1>3

\* Enqueueing puts the item behind all others.
LEMMA EnqueuePuts ==
  ASSUME TypeOK, TypeOK', ~isFull, NEW x \in Items, enqueue(x)
  PROVE  Len(Queued) < BUFFER_SIZE - 1 /\ Queued' = Append(Queued, x)
<1>0. /\ BUFFER_SIZE \in Nat /\ BUFFER_SIZE >= 2
      /\ front \in Nat /\ front < BUFFER_SIZE /\ rear \in Nat /\ rear < BUFFER_SIZE
      /\ InUse \in Nat /\ InUse < BUFFER_SIZE - 1
  BY RingArithmetic
<1>1. rear' = IF rear + 1 < BUFFER_SIZE THEN rear + 1 ELSE 0
  BY <1>0, AroundTheRing DEF enqueue
<1>2. front' = front /\ buffer' = [buffer EXCEPT ![rear] = x]
  BY DEF enqueue
<1>3. InUse' = InUse + 1
  <2>1. InUse < BUFFER_SIZE - 1
    BY <1>0
  <2> QED BY <1>0, <1>1, <1>2, <2>1 DEF InUse
<1>4. \A i \in 1 .. InUse + 1 : Place(i)' = Place(i)
  BY <1>2 DEF Place
<1>5. Place(InUse + 1) = rear
  <2>1. InUse + 1 \in 1 .. BUFFER_SIZE
    BY <1>0
  <2>2. Place(InUse + 1) = IF front + InUse < BUFFER_SIZE THEN front + InUse
                           ELSE front + InUse - BUFFER_SIZE
    BY <1>0, <2>1, RingArithmetic
  <2> QED BY <1>0, <2>2 DEF InUse
<1>6. \A i \in 1 .. InUse : Place(i) # rear /\ Place(i) \in Slots
  <2> SUFFICES ASSUME NEW i \in 1 .. InUse PROVE Place(i) # rear /\ Place(i) \in Slots
    OBVIOUS
  <2>1. i \in 1 .. BUFFER_SIZE /\ i <= InUse
    BY <1>0
  <2>2. Place(i) = IF front + i - 1 < BUFFER_SIZE THEN front + i - 1
                   ELSE front + i - 1 - BUFFER_SIZE
    BY <2>1, RingArithmetic
  <2> QED BY <1>0, <2>1, <2>2 DEF InUse, Slots
<1>7. buffer \in [Slots -> Items \cup {0}] /\ rear \in Slots
  BY DEF TypeOK
<1>8. /\ buffer'[rear] = x
      /\ \A i \in 1 .. InUse : buffer'[Place(i)] = buffer[Place(i)]
  BY <1>2, <1>6, <1>7
<1>9. Queued' = [i \in 1 .. InUse + 1 |-> buffer'[Place(i)]]
  <2>1. (Queued = [i \in 1 .. InUse |-> buffer[Place(i)]])'
    BY QueuedIs, PTL
  <2> QED BY <2>1, <1>3, <1>4
<1>10. Queued' = Append(Queued, x)
  <2> DEFINE s == Append(Queued, x)
  <2>1. /\ Queued \in Seq(Items \cup {0}) /\ Len(Queued) = InUse
        /\ \A i \in 1 .. InUse : Queued[i] = buffer[Place(i)]
    BY QueuedIs
  <2>2. /\ s \in Seq(Items \cup {0}) /\ Len(s) = InUse + 1
        /\ \A i \in 1 .. InUse : s[i] = buffer[Place(i)]
        /\ s[InUse + 1] = x
    BY <2>1, AppendProperties
  <2>3. s = [i \in 1 .. InUse + 1 |-> s[i]]
    BY <2>2, LenProperties
  <2>4. \A i \in 1 .. InUse + 1 : s[i] = buffer'[Place(i)]
    BY <1>0, <1>5, <1>8, <2>2
  <2> HIDE DEF s
  <2>5. s = Queued'
    BY <1>9, <2>3, <2>4
  <2> QED BY <2>5 DEF s
<1> QED BY <1>0, <1>10, QueuedIs

\* Dequeueing takes the oldest item.
LEMMA DequeueGets ==
  ASSUME TypeOK, TypeOK', ~isEmpty, dequeue
  PROVE  Queued # <<>> /\ Queued' = Tail(Queued)
<1>0. /\ BUFFER_SIZE \in Nat /\ BUFFER_SIZE >= 2
      /\ front \in Nat /\ front < BUFFER_SIZE /\ rear \in Nat /\ rear < BUFFER_SIZE
      /\ InUse \in Nat /\ InUse < BUFFER_SIZE /\ InUse > 0
  BY RingArithmetic
<1>1. front' = IF front + 1 < BUFFER_SIZE THEN front + 1 ELSE 0
  BY <1>0, AroundTheRing DEF dequeue
<1>2. rear' = rear /\ buffer' = buffer
  BY DEF dequeue
<1>3. InUse' = InUse - 1
  <2>1. front # rear
    BY DEF isEmpty
  <2> QED BY <1>0, <1>1, <1>2, <2>1 DEF InUse
<1>4. \A i \in 1 .. InUse - 1 : Place(i)' = Place(i + 1)
  <2> SUFFICES ASSUME NEW i \in 1 .. InUse - 1 PROVE Place(i)' = Place(i + 1)
    OBVIOUS
  <2>1. i \in 1 .. BUFFER_SIZE /\ i + 1 \in 1 .. BUFFER_SIZE
    BY <1>0
  <2>2. Place(i + 1) = IF front + i < BUFFER_SIZE THEN front + i
                       ELSE front + i - BUFFER_SIZE
    BY <1>0, <2>1, RingArithmetic
  <2>3. Place(i)' = (front' + i - 1) % BUFFER_SIZE
    BY DEF Place
  <2>4. front' + i - 1 \in Nat /\ front' + i - 1 < 2 * BUFFER_SIZE
    BY <1>0, <1>1, <2>1
  <2>5. Place(i)' = IF front' + i - 1 < BUFFER_SIZE THEN front' + i - 1
                    ELSE front' + i - 1 - BUFFER_SIZE
    <3> DEFINE a == front' + i - 1
    <3>0. a \in Nat /\ a < 2 * BUFFER_SIZE
      BY <2>4
    <3>1. a % BUFFER_SIZE = IF a < BUFFER_SIZE THEN a ELSE a - BUFFER_SIZE
      <4> HIDE DEF a
      <4> QED BY <3>0, AroundTheRing
    <3> QED BY <1>0, <1>1, <3>0, <3>1, <2>3
  <2> QED BY <1>0, <1>1, <2>1, <2>2, <2>5
<1>5. Queued' = [i \in 1 .. InUse - 1 |-> buffer[Place(i + 1)]]
  <2>1. (Queued = [i \in 1 .. InUse |-> buffer[Place(i)]])'
    BY QueuedIs, PTL
  <2> QED BY <2>1, <1>2, <1>3, <1>4
<1>6. Queued' = Tail(Queued)
  <2>1. Tail(Queued) = [i \in 1 .. InUse - 1 |-> Queued[i + 1]]
    <3>1. Queued \in Seq(Items \cup {0}) /\ Queued # <<>> /\ Len(Queued) = InUse
      BY <1>0, QueuedIs
    <3>2. /\ Tail(Queued) \in Seq(Items \cup {0}) /\ Len(Tail(Queued)) = InUse - 1
          /\ \A i \in 1 .. InUse - 1 : Tail(Queued)[i] = Queued[i + 1]
      BY <3>1, HeadTailProperties
    <3> QED BY <3>2, LenProperties
  <2>2. \A i \in 1 .. InUse - 1 : Queued[i + 1] = buffer[Place(i + 1)]
    BY <1>0, QueuedIs
  <2> QED BY <1>5, <2>1, <2>2
<1>7. Queued # <<>>
  BY <1>0, QueuedIs
<1> QED BY <1>6, <1>7

\* Each step that moves the ring puts one item or gets one; the others leave
\* the queue as it is.
LEMMA StepQueue == TypeOK /\ TypeOK' /\ [Next]_vars => [BQ!Put \/ BQ!Get]_Queued
<1> SUFFICES ASSUME TypeOK, TypeOK', [Next]_vars PROVE BQ!Put \/ BQ!Get \/ Queued' = Queued
  OBVIOUS
<1>1. CASE UNCHANGED queue
  BY <1>1 DEF queue, Queued, noOfFreeSpacesQ
<1>2. ASSUME NEW x \in Items, enqueue(x), ~isFull PROVE BQ!Put
  BY <1>2, EnqueuePuts DEF BQ!Put
<1>3. CASE dequeue /\ ~isEmpty
  BY <1>3, DequeueGets DEF BQ!Get
<1>4. UNCHANGED queue \/ (dequeue /\ ~isEmpty) \/ (\E x \in Items : enqueue(x) /\ ~isFull)
  BY DEF Next, vars, queue, Run, Lock, Sleep, ProducerWait, ConsumerWait, Wait, ProducerEnqueue,
         ConsumerDequeue, ProducerSignal, ConsumerSignal, SignalAndUnlock, DieAsleep, DieWaiting,
         DiePrinting, Die, SpuriousWake, addProducer, addConsumer, removeProducer, removeConsumer
<1> QED BY <1>1, <1>2, <1>3, <1>4

\* The ring buffer implements a first-in, first-out queue of BUFFER_SIZE - 1
\* items, whatever its size, the number of threads and the cancellations.
THEOREM RingIsAQueue == Spec => ImplementsBoundedQueue
<1>1. Init => BQ!Init
  <2> SUFFICES ASSUME Init PROVE Queued = <<>>
    BY DEF BQ!Init
  <2>1. front = 0 /\ rear = 0 /\ BUFFER_SIZE \in Nat /\ BUFFER_SIZE >= 2
    BY QueueAssumption DEF QueueAssumption, Init
  <2>2. (0 - 0 + BUFFER_SIZE) % BUFFER_SIZE = 0
    BY <2>1, AroundTheRing
  <2>3. BUFFER_SIZE - 1 - noOfFreeSpacesQ = 0
    BY <2>1, <2>2 DEF noOfFreeSpacesQ
  <2> QED BY <2>3 DEF Queued
<1> QED BY <1>1, StepQueue, Typing, PTL DEF Spec, ImplementsBoundedQueue
=============================================================================
