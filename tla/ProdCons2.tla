----------------------------- MODULE ProdCons2 -----------------------------
(***************************************************************************)
(* os_day6/prodcons2.c: producer and consumer threads that hand one shared *)
(* integer over with two mutexes.  p_mutex starts free, c_mutex is locked  *)
(* by main before any thread exists; a producer locks p_mutex and unlocks  *)
(* c_mutex, a consumer locks c_mutex and unlocks p_mutex.  A thread thus   *)
(* unlocks a mutex another thread locked: POSIX leaves that undefined for  *)
(* default mutexes, and the model takes the outcome the glibc build gives, *)
(* which is that the mutex becomes free.                                   *)
(*                                                                         *)
(* A mutex is its state, free or held.  The ++ on sharedData is a load and *)
(* a store.  The prints are left out, except for the value a consumer      *)
(* prints, which is the datum it consumes (got).                           *)
(***************************************************************************)
EXTENDS Naturals, FiniteSets

CONSTANTS Producers,  \* the producer threads (nproducer = 2 in the code)
          Consumers,  \* the consumer threads (nconsumer = 3 in the code)
          IntRange    \* number of values of sharedData: 2^32, wrapping

ASSUME ThreadsAssumption ==
  /\ Producers \cap Consumers = {}
  /\ Producers # {}
  /\ Consumers # {}

ASSUME IntRangeAssumption == IntRange \in Nat \ {0}

Threads == Producers \cup Consumers

VARIABLES p_mutex,     \* "free" or "held"
          c_mutex,
          sharedData,
          pc,          \* where each thread is; "new" before pthread_create
          reg,         \* the value a producer loaded, between load and store
          got          \* the datum each consumer last printed

vars == <<p_mutex, c_mutex, sharedData, pc, reg, got>>

TypeOK ==
  /\ p_mutex \in {"free", "held"}
  /\ c_mutex \in {"free", "held"}
  /\ sharedData \in 0 .. IntRange - 1
  /\ pc \in [Threads -> {"new", "lock", "load", "store", "read", "unlock",
                         "getchar"}]
  /\ \A p \in Producers : pc[p] # "read"
  /\ \A c \in Consumers : pc[c] \notin {"load", "store"}
  /\ reg \in [Producers -> 0 .. IntRange - 1]
  /\ got \in [Consumers -> 0 .. IntRange - 1]
-----------------------------------------------------------------------------
\* Mutant: main forgets to lock c_mutex (line 55).
Init_CMutexFree ==
  /\ p_mutex = "free"
  /\ c_mutex = "free"
  /\ sharedData = 0
  /\ pc = [t \in Threads |-> "new"]
  /\ reg = [p \in Producers |-> 0]
  /\ got = [c \in Consumers |-> 0]

\* main before the first pthread_create: both mutexes initialised, the
\* consumers' one locked, the datum set to 0.
Init ==
  /\ p_mutex = "free"
  /\ c_mutex = "held"
  /\ sharedData = 0
  /\ pc = [t \in Threads |-> "new"]
  /\ reg = [p \in Producers |-> 0]
  /\ got = [c \in Consumers |-> 0]

\* main creates all the producers, then the consumers; a thread starts to run
\* as soon as it is created.
Create(t) ==
  /\ pc[t] = "new"
  /\ t \in Consumers => \A p \in Producers : pc[p] # "new"
  /\ pc' = [pc EXCEPT ![t] = "lock"]
  /\ UNCHANGED <<p_mutex, c_mutex, sharedData, reg, got>>
-----------------------------------------------------------------------------
\* Mutant: a producer that locks nothing (line 164 dropped).
ProducerLock_NoLock(p) ==
  /\ pc[p] = "lock"
  /\ pc' = [pc EXCEPT ![p] = "load"]
  /\ UNCHANGED <<p_mutex, c_mutex, sharedData, reg, got>>

ProducerLock(p) ==
  /\ pc[p] = "lock"
  /\ p_mutex = "free"
  /\ p_mutex' = "held"
  /\ pc' = [pc EXCEPT ![p] = "load"]
  /\ UNCHANGED <<c_mutex, sharedData, reg, got>>

ProducerLoad(p) ==
  /\ pc[p] = "load"
  /\ reg' = [reg EXCEPT ![p] = sharedData]
  /\ pc' = [pc EXCEPT ![p] = "store"]
  /\ UNCHANGED <<p_mutex, c_mutex, sharedData, got>>

\* Mutant: the sum kept in something wider than an int.
ProducerStore_NoWrap(p) ==
  /\ pc[p] = "store"
  /\ sharedData' = reg[p] + 1
  /\ pc' = [pc EXCEPT ![p] = "unlock"]
  /\ UNCHANGED <<p_mutex, c_mutex, reg, got>>

ProducerStore(p) ==
  /\ pc[p] = "store"
  /\ sharedData' = (reg[p] + 1) % IntRange
  /\ pc' = [pc EXCEPT ![p] = "unlock"]
  /\ UNCHANGED <<p_mutex, c_mutex, reg, got>>

\* Mutant: line 170 dropped.
ProducerUnlock_None(p) ==
  /\ pc[p] = "unlock"
  /\ pc' = [pc EXCEPT ![p] = "getchar"]
  /\ UNCHANGED <<p_mutex, c_mutex, sharedData, reg, got>>

\* "unblocking consumers to read the produced data"
ProducerUnlock(p) ==
  /\ pc[p] = "unlock"
  /\ c_mutex' = "free"
  /\ pc' = [pc EXCEPT ![p] = "getchar"]
  /\ UNCHANGED <<p_mutex, sharedData, reg, got>>
-----------------------------------------------------------------------------
ConsumerLock(c) ==
  /\ pc[c] = "lock"
  /\ c_mutex = "free"
  /\ c_mutex' = "held"
  /\ pc' = [pc EXCEPT ![c] = "read"]
  /\ UNCHANGED <<p_mutex, sharedData, reg, got>>

ConsumerRead(c) ==
  /\ pc[c] = "read"
  /\ got' = [got EXCEPT ![c] = sharedData]
  /\ pc' = [pc EXCEPT ![c] = "unlock"]
  /\ UNCHANGED <<p_mutex, c_mutex, sharedData, reg>>

\* Mutant: the consumer unlocks the mutex it locked, not the producers'.
ConsumerUnlock_Own(c) ==
  /\ pc[c] = "unlock"
  /\ c_mutex' = "free"
  /\ pc' = [pc EXCEPT ![c] = "getchar"]
  /\ UNCHANGED <<p_mutex, sharedData, reg, got>>

\* "unblocking producers to produce further data"
ConsumerUnlock(c) ==
  /\ pc[c] = "unlock"
  /\ p_mutex' = "free"
  /\ pc' = [pc EXCEPT ![c] = "getchar"]
  /\ UNCHANGED <<c_mutex, sharedData, reg, got>>
-----------------------------------------------------------------------------
\* A user answers the prompt (getchar returns at once at end of input); the
\* thread goes round its loop.
GetChar(t) ==
  /\ pc[t] = "getchar"
  /\ pc' = [pc EXCEPT ![t] = "lock"]
  /\ UNCHANGED <<p_mutex, c_mutex, sharedData, reg, got>>

ProducerStep(p) ==
  \/ Create(p)
  \/ ProducerLock(p)
  \/ ProducerLoad(p)
  \/ ProducerStore(p)
  \/ ProducerUnlock(p)
  \/ GetChar(p)

ConsumerStep(c) ==
  \/ Create(c)
  \/ ConsumerLock(c)
  \/ ConsumerRead(c)
  \/ ConsumerUnlock(c)
  \/ GetChar(c)

Next ==
  \/ \E p \in Producers : ProducerStep(p)
  \/ \E c \in Consumers : ConsumerStep(c)

\* The scheduler runs every thread that can run, and the user eventually
\* answers every prompt.
Fairness ==
  /\ \A p \in Producers : WF_vars(ProducerStep(p))
  /\ \A c \in Consumers : WF_vars(ConsumerStep(c))

Safety == Init /\ [][Next]_vars

Spec == Safety /\ Fairness
-----------------------------------------------------------------------------
Critical == {"load", "store", "read", "unlock"}

\* At most one thread, producer or consumer, is between its lock and the
\* unlock it does for the other side (lines 164-170 and 196-200), so neither
\* the increment nor a consumer's read of sharedData is ever raced.  (Line 160
\* prints sharedData before the lock; nothing depends on what it shows.)
Exclusion ==
  \A s, t \in Threads : s # t => ~(pc[s] \in Critical /\ pc[t] \in Critical)

\* The right to proceed is never lost: when both mutexes are held some thread
\* is on its way to free one, so the threads cannot all block at lines 164
\* and 196.
SomeoneProceeds ==
  (p_mutex = "held" /\ c_mutex = "held") => \E t \in Threads : pc[t] \in Critical

\* pthread_mutex_unlock is only ever called on a mutex that is held (lines 170
\* and 200): unlocking a free mutex is undefined, and would let two sides in.
UnlocksHeldMutex ==
  /\ \A p \in Producers : pc[p] = "unlock" => c_mutex = "held"
  /\ \A c \in Consumers : pc[c] = "unlock" => p_mutex = "held"

\* A datum waits for its consumer: c_mutex is free for one of them, or a
\* producer has stored it and is about to free c_mutex, or a consumer has
\* taken c_mutex and has not read it yet.
Full ==
  \/ c_mutex = "free"
  \/ \E p \in Producers : pc[p] = "unlock"
  \/ \E c \in Consumers : pc[c] = "read"

HO == INSTANCE HandOff WITH full <- Full, value <- sharedData

\* The mutex protocol implements the hand-off of the comment at lines 3-5: no
\* production before the previous datum is consumed, one consumer per datum,
\* and neither side is stalled for ever.
ImplementsHandOff == HO!Spec
=============================================================================
