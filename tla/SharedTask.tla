------------------------------ MODULE SharedTask ------------------------------
(****************************************************************************)
(* os_day4/shared mem: a server and workers share one struct task.  The     *)
(* server puts a string in data, a worker stores its length over the first  *)
(* character, the server takes the length of what is there then and prints  *)
(* it, and status says whose turn it is.  Nothing else orders the           *)
(* processes: each load and store of a field is a step.                     *)
(*                                                                          *)
(* Of data matters the first byte, and how many bytes follow it up to the   *)
(* next zero.  A process maps the block with attach_memory_block, which     *)
(* stores -1 in status whoever calls it.                                    *)
(****************************************************************************)
EXTENDS Integers

CONSTANTS
  Workers,
  Nobody,        \* worker_pid before any worker stored its own
  MaxLen,        \* the length of every string (99), which a char can hold
  Letter         \* its first character ('A' to 'Z', 65 to 90)

TaskAssumption ==
  /\ Nobody \notin Workers
  /\ MaxLen \in Nat /\ Letter \in 1 .. MaxLen - 1
ASSUME TaskAssumption

VARIABLES
  status, first, tail, worker_pid,  \* struct task; first and tail are data
  server,                           \* where the server is
  worker,                           \* where each worker is
  length,                           \* its local
  computed,                         \* history: the workers that have stored a length in this string
  happened                          \* history: "restart" of a server, "interrupt" of a worker

data == <<first, tail>>
vars == <<status, data, worker_pid, server, worker, length, computed, happened>>
block == <<status, data, worker_pid>>
history == <<computed, happened>>

\* A new segment is zero: its status is 0 and its data the empty string.
Init ==
  /\ status = 0 /\ first = 0 /\ tail = 0 /\ worker_pid = Nobody
  /\ server = "new"
  /\ worker = [w \in Workers |-> "off"]
  /\ length = [w \in Workers |-> 0]
  /\ computed = {} /\ happened = {}

\* strlen(data)
Strlen == IF first = 0 THEN 0 ELSE 1 + tail

------------------------------------------------------------------------------
AtServer(here, next) == server = here /\ server' = next

ServerAttach ==
  /\ \/ server = "new" /\ UNCHANGED happened
     \/ server = "off" /\ happened' = happened \cup {"restart"}
  /\ server' = "reset"
  /\ status' = -1
  /\ UNCHANGED <<data, worker_pid, worker, length, computed>>

ServerReset ==
  /\ AtServer("reset", "top")
  /\ status' = 0
  /\ UNCHANGED <<data, worker_pid, worker, length, history>>

\* if (status == 0): fill data; else straight on to the waiting loop.
ServerTop ==
  /\ AtServer("top", IF status = 0 THEN "fill" ELSE "poll")
  /\ UNCHANGED <<block, worker, length, history>>

\* data[0]
ServerFill ==
  /\ AtServer("fill", "rest")
  /\ first' = Letter /\ computed' = {}
  /\ UNCHANGED <<status, tail, worker_pid, worker, length, happened>>

\* The other letters and the '\0' after them.
ServerFillRest ==
  /\ AtServer("rest", "offer")
  /\ tail' = MaxLen - 1
  /\ UNCHANGED <<status, first, worker_pid, worker, length, history>>

ServerOffer ==
  /\ AtServer("offer", "poll")
  /\ status' = 1
  /\ UNCHANGED <<data, worker_pid, worker, length, history>>

\* The waiting loop ends on 3 or -1; status is read again after it.
ServerPoll ==
  /\ status \in {3, -1}
  /\ AtServer("poll", "decide")
  /\ UNCHANGED <<block, worker, length, history>>

ServerDecide_NoCheck ==
  /\ AtServer("decide", IF status = -1 THEN "off" ELSE "report")
  /\ UNCHANGED <<block, worker, length, history>>

ServerDecide ==
  /\ AtServer("decide", CASE status = 3 -> "report" [] status = -1 -> "off" [] OTHER -> "top")
  /\ UNCHANGED <<block, worker, length, history>>

ServerDone_Skipped ==
  /\ AtServer("report", "top")
  /\ UNCHANGED <<block, worker, length, history>>

\* strlen(data), which the server computes once more, and worker_pid are printed;
\* then status becomes 4.
ServerDone ==
  /\ AtServer("report", "top")
  /\ status' = 4
  /\ UNCHANGED <<data, worker_pid, worker, length, history>>

\* SIGINT: the handler stores through the global sharedblock, which main() hides
\* behind a local of the same name and never sets: the server dies of it.
ServerInterrupt ==
  /\ server \notin {"new", "off"}
  /\ server' = "off"
  /\ UNCHANGED <<block, worker, length, history>>

Server ==
  \/ ServerReset \/ ServerTop \/ ServerFill \/ ServerFillRest \/ ServerOffer
  \/ ServerPoll \/ ServerDecide \/ ServerDone

------------------------------------------------------------------------------
AtWorker(w, here, next) == worker[w] = here /\ worker' = [worker EXCEPT ![w] = next]

WorkerAttach(w) ==
  /\ AtWorker(w, "off", "end")
  /\ status' = -1
  /\ UNCHANGED <<data, worker_pid, server, length, history>>

WorkerTestEnd(w) ==
  /\ AtWorker(w, "end", IF status = -1 THEN "off" ELSE "test")
  /\ UNCHANGED <<block, server, length, history>>

\* Nothing to do: usleep, and around the loop.
WorkerTest(w) ==
  /\ AtWorker(w, "test", IF status = 1 THEN "claim" ELSE "end")
  /\ UNCHANGED <<block, server, length, history>>

WorkerClaim(w) ==
  /\ AtWorker(w, "claim", "sign")
  /\ status' = 2
  /\ UNCHANGED <<data, worker_pid, server, length, history>>

WorkerSign(w) ==
  /\ AtWorker(w, "sign", "compute")
  /\ worker_pid' = w
  /\ UNCHANGED <<status, data, server, length, history>>

\* The string is counted, with whatever is in its first byte now.
WorkerCompute(w) ==
  /\ AtWorker(w, "compute", "store")
  /\ length' = [length EXCEPT ![w] = Strlen]
  /\ UNCHANGED <<block, server, history>>

\* data[0] = length; the characters behind it stay.
WorkerStore(w) ==
  /\ AtWorker(w, "store", "done")
  /\ first' = length[w]
  /\ length' = [length EXCEPT ![w] = 0]
  /\ computed' = computed \cup {w}
  /\ UNCHANGED <<status, tail, worker_pid, server, happened>>

WorkerDone_Increment(w) ==
  /\ AtWorker(w, "done", "end")
  /\ status' = status + 1
  /\ UNCHANGED <<data, worker_pid, server, length, history>>

WorkerDone(w) ==
  /\ AtWorker(w, "done", "end")
  /\ status' = 3
  /\ UNCHANGED <<data, worker_pid, server, length, history>>

WorkerInterrupt(w) ==
  /\ worker[w] # "off"
  /\ worker' = [worker EXCEPT ![w] = "off"]
  /\ length' = [length EXCEPT ![w] = 0]
  /\ happened' = happened \cup {"interrupt"}
  /\ UNCHANGED <<block, server, computed>>

Worker(w) ==
  \/ WorkerTestEnd(w) \/ WorkerTest(w) \/ WorkerClaim(w) \/ WorkerSign(w)
  \/ WorkerCompute(w) \/ WorkerStore(w) \/ WorkerDone(w)

Next ==
  \/ ServerAttach \/ Server \/ ServerInterrupt
  \/ \E w \in Workers : WorkerAttach(w) \/ Worker(w) \/ WorkerInterrupt(w)

\* A running process gets its turn; the user starts and interrupts at will.
Spec == Init /\ [][Next]_vars /\ WF_vars(Server) /\ \A w \in Workers : WF_vars(Worker(w))

------------------------------------------------------------------------------
TypeOK ==
  /\ status \in -1 .. 4
  /\ first \in 0 .. MaxLen /\ tail \in 0 .. MaxLen - 1
  /\ worker_pid \in Workers \cup {Nobody}
  /\ server \in {"new", "off", "reset", "top", "fill", "rest", "offer", "poll", "decide", "report"}
  /\ worker \in [Workers -> {"off", "end", "test", "claim", "sign", "compute", "store", "done"}]
  /\ length \in [Workers -> 0 .. MaxLen]
  /\ computed \subseteq Workers
  /\ happened \subseteq {"restart", "interrupt"}

\* What the server prints, its own strlen(data) (server.c:61), is the length of the
\* string it made, although workers have written into the string; and in the
\* first byte is that same length, from a worker that has computed it.  So it
\* makes no difference that the server does not use the length "available in
\* data[ ]" (sharedmemory.h:13).  The second part is for the first server: a
\* later one may meet the 3 of a worker that answers the one before it.
ReportsTheLength ==
  server = "report" =>
    /\ Strlen = MaxLen
    /\ "restart" \in happened \/ (first = MaxLen /\ computed # {})

\* A string offered while a worker is there is answered, or somebody attaches
\* and ends it all, as long as no worker is interrupted: no two workers that
\* take the same string leave the server waiting for a 3 it has missed.
OfferAnswered ==
  status = 1 /\ server = "poll" /\ (\E w \in Workers : worker[w] # "off")
    ~> status = 4 \/ server = "off" \/ "interrupt" \in happened
=============================================================================
