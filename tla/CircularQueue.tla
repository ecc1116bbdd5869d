---------------------------- MODULE CircularQueue ----------------------------
(****************************************************************************)
(* os_day6/circular_queue.c (and mycq.c, the same code): producers and      *)
(* consumers share a ring buffer under one mutex and two condition          *)
(* variables, while a manager adds and cancels threads.                     *)
(*                                                                          *)
(* A step of a thread lies between two points where another thread can act: *)
(* taking the mutex, waiting on a condition variable, and releasing it.     *)
(* Cancellation is deferred, so that it acts at usleep, at                  *)
(* pthread_cond_wait, which takes the mutex back first, and, as the C       *)
(* library in use makes writing to a terminal a cancellation point, at      *)
(* printf.  No thread has a cleanup handler.                                *)
(*                                                                          *)
(* A thread that has ended may be created again: Threads bounds how many    *)
(* exist at a time.  Choice 5 (exit) ends the program and all of this.      *)
(****************************************************************************)
EXTENDS Integers, Sequences

CONSTANTS
  Threads,
  Items,           \* what rand() % 100 may give
  BUFFER_SIZE,
  MAX_THREADS,     \* the length of the arrays producers and consumers
  Free, Gone,      \* the mutex when nobody holds it, when a dead thread does
  Removing,        \* TRUE when the user chooses 3 and 4
  Spurious         \* TRUE when pthread_cond_wait may return unasked

QueueAssumption ==
  /\ BUFFER_SIZE \in Nat /\ BUFFER_SIZE >= 2
  /\ Free \notin Threads /\ Gone \notin Threads /\ Free # Gone
  /\ Removing \in BOOLEAN /\ Spurious \in BOOLEAN
ASSUME QueueAssumption

VARIABLES
  buffer, front, rear,     \* queue
  mutex,                   \* the thread that holds it, Free or Gone
  role,                    \* "producer" or "consumer"
  pc,                      \* where each thread is; "none" when there is none
  producers, consumers,    \* the arrays, up to producer_count, consumer_count
  cancelled                \* threads with a cancellation request pending

vars == <<buffer, front, rear, mutex, role, pc, producers, consumers, cancelled>>
queue == <<buffer, front, rear>>
manager == <<role, producers, consumers, cancelled>>

Slots == 0 .. BUFFER_SIZE - 1
PCs   == {"none", "lock", "test", "wait", "wake", "signal", "sleep"}

isFull  == (rear + 1) % BUFFER_SIZE = front
isEmpty == front = rear

noOfFreeSpacesQ == (BUFFER_SIZE - 1) - ((rear - front + BUFFER_SIZE) % BUFFER_SIZE)

Producer(t) == pc[t] # "none" /\ role[t] = "producer"
Consumer(t) == pc[t] # "none" /\ role[t] = "consumer"

Init ==
  /\ buffer = [i \in Slots |-> 0]
  /\ front = 0 /\ rear = 0
  /\ mutex = Free
  /\ role = [t \in Threads |-> "producer"]
  /\ pc = [t \in Threads |-> "none"]
  /\ producers = <<>> /\ consumers = <<>>
  /\ cancelled = {}

------------------------------------------------------------------------------
Goto(t, l) == pc' = [pc EXCEPT ![t] = l]

\* pthread_mutex_lock, first or inside pthread_cond_wait once it was woken.
Lock(t) ==
  /\ pc[t] \in {"lock", "wake"}
  /\ mutex = Free
  /\ mutex' = t
  /\ Goto(t, "test")
  /\ UNCHANGED <<queue, manager>>

\* pthread_cond_wait: the mutex is released and the thread waits, in one step.
Wait(t) ==
  /\ mutex' = Free
  /\ Goto(t, "wait")
  /\ UNCHANGED <<queue, manager>>

ProducerWait(t) == pc[t] = "test" /\ Producer(t) /\ isFull /\ Wait(t)
ConsumerWait(t) == pc[t] = "test" /\ Consumer(t) /\ isEmpty /\ Wait(t)

enqueue_NoWrap(x) ==
  /\ buffer' = [buffer EXCEPT ![rear] = x]
  /\ rear' = rear + 1
  /\ UNCHANGED front

enqueue(x) ==
  /\ buffer' = [buffer EXCEPT ![rear] = x]
  /\ rear' = (rear + 1) % BUFFER_SIZE
  /\ UNCHANGED front

dequeue ==
  /\ front' = (front + 1) % BUFFER_SIZE
  /\ UNCHANGED <<buffer, rear>>

ProducerEnqueue(t) ==
  /\ pc[t] = "test" /\ Producer(t) /\ ~isFull
  /\ \E x \in Items : enqueue(x)
  /\ Goto(t, "signal")
  /\ UNCHANGED <<mutex, manager>>

ConsumerDequeue_NoTest(t) ==
  /\ pc[t] = "test" /\ Consumer(t)
  /\ dequeue
  /\ Goto(t, "signal")
  /\ UNCHANGED <<mutex, manager>>

ConsumerDequeue(t) ==
  /\ pc[t] = "test" /\ Consumer(t) /\ ~isEmpty
  /\ dequeue
  /\ Goto(t, "signal")
  /\ UNCHANGED <<mutex, manager>>

\* pthread_cond_signal wakes one of the waiting threads, if there is one, and
\* the mutex is released.
SignalAndUnlock(t, waiting) ==
  /\ mutex' = Free
  /\ IF waiting = {}
       THEN Goto(t, "sleep")
       ELSE \E u \in waiting : pc' = [pc EXCEPT ![t] = "sleep", ![u] = "wake"]
  /\ UNCHANGED <<queue, manager>>

WaitingProducers == {u \in Threads : pc[u] = "wait" /\ role[u] = "producer"}
WaitingConsumers == {u \in Threads : pc[u] = "wait" /\ role[u] = "consumer"}

ProducerSignal_None(t) ==
  pc[t] = "signal" /\ Producer(t) /\ SignalAndUnlock(t, {})

ProducerSignal_Own(t) ==
  pc[t] = "signal" /\ Producer(t) /\ SignalAndUnlock(t, WaitingProducers)

ProducerSignal(t) ==
  pc[t] = "signal" /\ Producer(t) /\ SignalAndUnlock(t, WaitingConsumers)
ConsumerSignal(t) ==
  pc[t] = "signal" /\ Consumer(t) /\ SignalAndUnlock(t, WaitingProducers)

\* usleep(500000) returns; the loop starts again.
Sleep(t) ==
  /\ pc[t] = "sleep" /\ t \notin cancelled
  /\ Goto(t, "lock")
  /\ UNCHANGED <<queue, mutex, manager>>

SpuriousWake(t) ==
  /\ Spurious /\ pc[t] = "wait"
  /\ Goto(t, "wake")
  /\ UNCHANGED <<queue, mutex, manager>>

------------------------------------------------------------------------------
\* The thread ends; what it holds at that time stays as it is.
Die(t) ==
  /\ Goto(t, "none")
  /\ role' = [role EXCEPT ![t] = "producer"]
  /\ cancelled' = cancelled \ {t}
  /\ UNCHANGED <<queue, producers, consumers>>

\* Cancelled while it sleeps, without the mutex.
DieAsleep(t) ==
  /\ t \in cancelled /\ pc[t] = "sleep"
  /\ Die(t)
  /\ UNCHANGED mutex

\* Cancelled in pthread_cond_wait: the mutex is taken back, then the thread ends.
DieWaiting(t) ==
  /\ t \in cancelled /\ pc[t] = "wait" /\ mutex = Free
  /\ Die(t)
  /\ mutex' = Gone

\* Cancelled in a printf under the mutex: "Queue Full! Waiting", "Queue Empty!
\* Waiting", "Produced" or "Consumed".
DiePrinting(t) ==
  /\ t \in cancelled
  /\ \/ pc[t] = "test" /\ (IF Producer(t) THEN isFull ELSE isEmpty)
     \/ pc[t] = "signal"
  /\ Die(t)
  /\ mutex' = Gone

------------------------------------------------------------------------------
\* The manager's choices 1 to 4.
addProducer ==
  /\ Len(producers) < MAX_THREADS
  /\ \E t \in Threads : /\ pc[t] = "none"
                        /\ Goto(t, "lock")
                        /\ role' = [role EXCEPT ![t] = "producer"]
                        /\ producers' = Append(producers, t)
  /\ UNCHANGED <<queue, mutex, consumers, cancelled>>

addConsumer ==
  /\ Len(consumers) < MAX_THREADS
  /\ \E t \in Threads : /\ pc[t] = "none"
                        /\ Goto(t, "lock")
                        /\ role' = [role EXCEPT ![t] = "consumer"]
                        /\ consumers' = Append(consumers, t)
  /\ UNCHANGED <<queue, mutex, producers, cancelled>>

\* pthread_cancel(producers[--producer_count]): a request, the thread runs on.
removeProducer ==
  /\ Removing /\ producers # <<>>
  /\ cancelled' = cancelled \cup {producers[Len(producers)]}
  /\ producers' = SubSeq(producers, 1, Len(producers) - 1)
  /\ UNCHANGED <<queue, mutex, role, pc, consumers>>

removeConsumer ==
  /\ Removing /\ consumers # <<>>
  /\ cancelled' = cancelled \cup {consumers[Len(consumers)]}
  /\ consumers' = SubSeq(consumers, 1, Len(consumers) - 1)
  /\ UNCHANGED <<queue, mutex, role, pc, producers>>

Run(t) ==
  \/ Lock(t) \/ Sleep(t)
  \/ ProducerWait(t) \/ ProducerEnqueue(t) \/ ProducerSignal(t)
  \/ ConsumerWait(t) \/ ConsumerDequeue(t) \/ ConsumerSignal(t)
  \/ DieAsleep(t) \/ DieWaiting(t) \/ DiePrinting(t)

Next ==
  \/ \E t \in Threads : Run(t) \/ SpuriousWake(t)
  \/ addProducer \/ addConsumer \/ removeProducer \/ removeConsumer

\* A thread that can run does; the user and spurious wakeups promise nothing.
Spec == Init /\ [][Next]_vars /\ \A t \in Threads : WF_vars(Run(t))

------------------------------------------------------------------------------
TypeOK ==
  /\ buffer \in [Slots -> Items \cup {0}]
  /\ front \in Slots /\ rear \in Slots
  /\ mutex \in Threads \cup {Free, Gone}
  /\ role \in [Threads -> {"producer", "consumer"}]
  /\ pc \in [Threads -> PCs]
  /\ producers \in Seq(Threads) /\ consumers \in Seq(Threads)
  /\ cancelled \in SUBSET Threads

\* No wakeup is lost: as long as nobody is removed, producers and consumers
\* never all wait for each other, although each signal wakes one thread of the
\* other kind at most and newcomers may overtake it (lines 60 to 73, 87 to 99).
NeverAllWaiting ==
  ~Removing /\ (\E t \in Threads : Producer(t)) /\ (\E t \in Threads : Consumer(t))
    => \E t \in Threads : pc[t] \notin {"none", "wait"}

\* The items, oldest first.
Queued ==
  [i \in 1 .. BUFFER_SIZE - 1 - noOfFreeSpacesQ |-> buffer[(front + i - 1) % BUFFER_SIZE]]

BQ == INSTANCE BoundedQueue WITH queued <- Queued, Capacity <- BUFFER_SIZE - 1

\* Items come out in the order they went in, none twice and none lost, and the
\* ring is never overrun, also through cancellations at any point and wakeups
\* that nobody asked for.
ImplementsBoundedQueue == BQ!Init /\ [][BQ!Put \/ BQ!Get]_Queued

\* Without removals, a queue that holds something while there is a consumer is
\* taken from, and one that has room while there is a producer is added to:
\* nobody needs luck beyond running when it can.
QueueMoves ==
  \A i \in Slots :
    /\ front = i /\ ~isEmpty /\ (\E t \in Threads : Consumer(t)) ~> front # i
    /\ rear = i /\ ~isFull /\ (\E t \in Threads : Producer(t)) ~> rear # i
=============================================================================
