------------------------------ MODULE TaskRounds ------------------------------
(****************************************************************************)
(* os_day4/shared mem/testing: a later version of the shared memory task.   *)
(* The server goes on after status 4: it offers one random string after     *)
(* another, some of them empty, and reports strlen(data) for each.  A       *)
(* client puts the length in the first byte of data.  Attaching stores      *)
(* nothing here; -1 comes from the server's SIGINT handler only.            *)
(*                                                                          *)
(* Each load and store of a field is a step.  Of data only matters whether  *)
(* its first byte is zero and how many bytes follow it up to the next zero, *)
(* and of the length that a client computes whether it is zero.             *)
(****************************************************************************)
EXTENDS Integers

CONSTANTS
  Clients,
  Nobody,        \* worker_pid before any client stored its own
  MaxLen         \* the longest string (99)

RoundsAssumption == Nobody \notin Clients /\ MaxLen \in Nat \ {0}
ASSUME RoundsAssumption

VARIABLES
  status, first, tail, worker_pid,  \* struct task; first and tail are data
  server,                           \* where the server is
  ranlen,                           \* its local, the length of the string it made; -1 if none yet
  client,                           \* where each client is
  length,                           \* its local
  computed,                         \* history: the clients that have stored a length in this string
  happened                          \* history: see Happenings

block == <<status, first, tail, worker_pid>>
history == <<computed, happened>>
vars == <<block, server, ranlen, client, length, history>>

\* An empty string was made; a client was killed; a client answers an offer
\* that is not there any more.
Happenings == {"empty", "killed", "late"}

\* A new segment is zero.
Init ==
  /\ status = 0 /\ first = 0 /\ tail = 0 /\ worker_pid = Nobody
  /\ server = "new" /\ ranlen = -1
  /\ client = [c \in Clients |-> "off"]
  /\ length = [c \in Clients |-> 0]
  /\ computed = {} /\ happened = {}

\* strlen(data)
Strlen == IF first = 0 THEN 0 ELSE 1 + tail

Busy(c) == client[c] \in {"sign", "compute", "store", "done"}

------------------------------------------------------------------------------
AtServer(here, next) == server = here /\ server' = next

\* The segment is created, or found as the last server left it, with the
\* clients that have not ended yet.
ServerAttach ==
  /\ server \in {"new", "off"}
  /\ server' = "reset"
  /\ ranlen' = -1
  /\ happened' = happened \cup (IF \E c \in Clients : Busy(c) THEN {"late"} ELSE {})
  /\ UNCHANGED <<block, client, length, computed>>

ServerReset ==
  /\ AtServer("reset", "top")
  /\ status' = 0
  /\ UNCHANGED <<first, tail, worker_pid, ranlen, client, length, history>>

ServerTop ==
  /\ AtServer("top", IF status \in {0, 4} THEN "fill" ELSE "poll")
  /\ UNCHANGED <<block, ranlen, client, length, history>>

\* data[0]: a letter, or the end of an empty string.
ServerFill ==
  /\ server = "fill"
  /\ ranlen' \in 0 .. MaxLen
  /\ first' = IF ranlen' = 0 THEN 0 ELSE 1
  /\ server' = IF ranlen' = 0 THEN "offer" ELSE "rest"
  /\ computed' = {}
  /\ happened' = happened \cup (IF ranlen' = 0 THEN {"empty"} ELSE {})
  /\ UNCHANGED <<status, tail, worker_pid, client, length>>

\* The other letters and the '\0' after them.
ServerFillRest ==
  /\ AtServer("rest", "offer")
  /\ tail' = ranlen - 1
  /\ UNCHANGED <<status, first, worker_pid, ranlen, client, length, history>>

ServerOffer ==
  /\ AtServer("offer", "poll")
  /\ status' = 1
  /\ UNCHANGED <<first, tail, worker_pid, ranlen, client, length, history>>

\* Mutant: line 75 waits while status is not 4.
ServerPoll_Four ==
  /\ status \in {4, -1}
  /\ AtServer("poll", "decide")
  /\ UNCHANGED <<block, ranlen, client, length, history>>

ServerPoll ==
  /\ status \in {3, -1}
  /\ AtServer("poll", "decide")
  /\ UNCHANGED <<block, ranlen, client, length, history>>

\* status is read again, at lines 79 and 83.
ServerDecide ==
  /\ AtServer("decide", CASE status = 3 -> "report" [] status = -1 -> "off" [] OTHER -> "top")
  /\ UNCHANGED <<block, ranlen, client, length, history>>

\* The length and worker_pid are printed; then status becomes 4.
ServerReport ==
  /\ AtServer("report", "top")
  /\ status' = 4
  /\ UNCHANGED <<first, tail, worker_pid, ranlen, client, length, history>>

\* SIGINT: the handler stores -1 and kills the server's process group.
ServerInterrupt ==
  /\ server \notin {"new", "off"}
  /\ server' = "off"
  /\ status' = -1
  /\ UNCHANGED <<first, tail, worker_pid, ranlen, client, length, history>>

Server ==
  \/ ServerReset \/ ServerTop \/ ServerFill \/ ServerFillRest \/ ServerOffer
  \/ ServerPoll \/ ServerDecide \/ ServerReport

------------------------------------------------------------------------------
AtClient(c, here, next) == client[c] = here /\ client' = [client EXCEPT ![c] = next]

\* Without a segment, which the server creates, the client ends at once.
ClientAttach(c) ==
  /\ server # "new"
  /\ AtClient(c, "off", "top")
  /\ UNCHANGED <<block, server, ranlen, length, history>>

ClientTestEnd(c) ==
  /\ AtClient(c, "top", IF status = -1 THEN "off" ELSE "test")
  /\ UNCHANGED <<block, server, ranlen, length, history>>

\* Nothing to do: usleep, and around the loop.
ClientTest(c) ==
  /\ AtClient(c, "test", IF status = 1 THEN "claim" ELSE "top")
  /\ UNCHANGED <<block, server, ranlen, length, history>>

ClientClaim(c) ==
  /\ AtClient(c, "claim", "sign")
  /\ status' = 2
  /\ happened' = happened \cup (IF status = 1 THEN {} ELSE {"late"})
  /\ UNCHANGED <<first, tail, worker_pid, server, ranlen, length, computed>>

ClientSign(c) ==
  /\ AtClient(c, "sign", "compute")
  /\ worker_pid' = c
  /\ UNCHANGED <<status, first, tail, server, ranlen, length, history>>

\* Mutant: line 47 counts one less.
ClientCompute_Short(c) ==
  /\ AtClient(c, "compute", "store")
  /\ length' = [length EXCEPT ![c] = IF Strlen = 1 THEN 0 ELSE first]
  /\ UNCHANGED <<block, server, ranlen, history>>

ClientCompute(c) ==
  /\ AtClient(c, "compute", "store")
  /\ length' = [length EXCEPT ![c] = first]
  /\ UNCHANGED <<block, server, ranlen, history>>

\* data[0] = length, out of the first byte of whatever string is there now.
ClientStore(c) ==
  /\ AtClient(c, "store", "done")
  /\ first' = length[c]
  /\ length' = [length EXCEPT ![c] = 0]
  /\ computed' = computed \cup {c}
  /\ UNCHANGED <<status, tail, worker_pid, server, ranlen, happened>>

\* Mutant: line 50 adds one to what it finds.
ClientDone_Increment(c) ==
  /\ AtClient(c, "done", "top")
  /\ status' = status + 1
  /\ UNCHANGED <<first, tail, worker_pid, server, ranlen, length, history>>

ClientDone(c) ==
  /\ AtClient(c, "done", "top")
  /\ status' = 3
  /\ UNCHANGED <<first, tail, worker_pid, server, ranlen, length, history>>

ClientKilled(c) ==
  /\ client[c] # "off"
  /\ client' = [client EXCEPT ![c] = "off"]
  /\ length' = [length EXCEPT ![c] = 0]
  /\ happened' = happened \cup {"killed"}
  /\ UNCHANGED <<block, server, ranlen, computed>>

Client(c) ==
  \/ ClientTestEnd(c) \/ ClientTest(c) \/ ClientClaim(c) \/ ClientSign(c)
  \/ ClientCompute(c) \/ ClientStore(c) \/ ClientDone(c)

Next ==
  \/ ServerAttach \/ Server \/ ServerInterrupt
  \/ \E c \in Clients : ClientAttach(c) \/ Client(c) \/ ClientKilled(c)

\* A running process gets its turn; the user starts and interrupts at will.
Spec == Init /\ [][Next]_vars /\ WF_vars(Server) /\ \A c \in Clients : WF_vars(Client(c))

------------------------------------------------------------------------------
TypeOK ==
  /\ status \in -1 .. 4
  /\ first \in {0, 1} /\ tail \in 0 .. MaxLen - 1
  /\ worker_pid \in Clients \cup {Nobody}
  /\ server \in {"new", "off", "reset", "top", "fill", "rest", "offer", "poll", "decide", "report"}
  /\ ranlen \in -1 .. MaxLen
  /\ client \in [Clients -> {"off", "top", "test", "claim", "sign", "compute", "store", "done"}]
  /\ length \in [Clients -> {0, 1}]
  /\ computed \subseteq Clients
  /\ happened \subseteq Happenings

\* What the server reports is the length of the string it made, although the
\* clients write into the string itself, and the client it names has computed
\* it.  The name can be wrong only after a client took a string that another
\* had taken, or went on from one server to the next (which may then report
\* before it has made a string); the length only if there was an empty string
\* too, whose zero such a client stores over a letter.
ReportsItsString ==
  server = "report" =>
    /\ Strlen = ranlen \/ ("late" \in happened /\ ("empty" \in happened \/ ranlen = -1))
    /\ worker_pid \in computed \/ "late" \in happened

\* While a client is there and none was killed, a server that waits goes on to
\* report, round after round, whoever takes whose string; and once it is
\* interrupted, the clients that are not at work on a string (and would store 2
\* or 3 over the -1) end.
NobodyLeftWaiting ==
  /\ server = "poll" /\ (\E c \in Clients : client[c] # "off")
       ~> server \in {"report", "off"} \/ "killed" \in happened
  /\ \A c \in Clients :
       (server = "off" /\ status = -1 /\ \A d \in Clients : ~Busy(d) /\ client[d] # "claim")
         ~> client[c] = "off" \/ server # "off"
=============================================================================
