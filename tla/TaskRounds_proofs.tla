--------------------------- MODULE TaskRounds_proofs ---------------------------
(* Proofs about TaskRounds, for any set of clients and strings of any length.   *)
EXTENDS TaskRounds, TLAPS

Late == "late" \in happened

\* As long as no client was late, at most one is at work on a string, and the
\* server touches the block only when none is.
InTurn ==
  ~Late =>
    /\ \A c, d \in Clients : Busy(c) /\ Busy(d) => c = d
    /\ server \notin {"poll", "off"} => \A c \in Clients : ~Busy(c)
    /\ server \in {"top", "fill", "rest", "offer"} => status \in {0, 4}
    /\ server = "poll" => status \in {1, 2, 3}
    /\ server \in {"decide", "report"} => status = 3
    /\ status = 1 => server = "poll"
    /\ server = "poll" /\ status \in {1, 3} => \A c \in Clients : ~Busy(c)

\* What there is of the answer in the meantime.
Answer ==
  ~Late =>
    /\ server = "rest" => first = 1
    /\ server \in {"offer", "poll", "decide", "report"} => Strlen = ranlen
    /\ server = "poll" =>
         \A c \in Clients :
           /\ client[c] \in {"compute", "store", "done"} => worker_pid = c
           /\ client[c] = "store" => length[c] = first
           /\ client[c] = "done" => c \in computed
    /\ server \in {"decide", "report"} \/ (server = "poll" /\ status = 3) => worker_pid \in computed

\* The bytes after the first are those of the last string that was made.
Tail ==
  /\ server = "rest" => ranlen > 0
  /\ server \notin {"rest", "off"} /\ ranlen > 0 => tail = ranlen - 1

\* Nobody can be at work before a string was made.
Unmade ==
  /\ ranlen = -1 /\ status \in {0, -1}
  /\ server \in {"new", "off", "reset", "top", "fill"}
  /\ server \in {"top", "fill"} => status = 0
  /\ \A c \in Clients : client[c] \in {"off", "top", "test"}

\* As long as no string was empty, the first byte of data is a letter, or not
\* zero, once it was written.
Letters ==
  "empty" \notin happened =>
    /\ ranlen # 0
    /\ first = 1 \/ Unmade
    /\ \A c \in Clients : client[c] = "store" => length[c] = 1

IInv == TypeOK /\ InTurn /\ Answer /\ Tail /\ Letters

LEMMA Start == Init => IInv
BY RoundsAssumption
   DEF RoundsAssumption, Init, IInv, TypeOK, InTurn, Answer, Tail, Letters,
       Unmade, Late, Busy, Strlen, Happenings

LEMMA Inductive == IInv /\ [Next]_vars => IInv'
<1> SUFFICES ASSUME IInv, [Next]_vars PROVE IInv'
  OBVIOUS
<1> USE RoundsAssumption
    DEF RoundsAssumption, IInv, AtServer, AtClient, block, history
<1>0. CASE UNCHANGED vars
  BY <1>0 DEF vars, TypeOK, InTurn, Answer, Tail, Letters, Unmade, Late, Busy, Strlen
<1>1. CASE ServerAttach
  <2>1. TypeOK'
    BY <1>1 DEF ServerAttach, TypeOK, Happenings
  <2>2. InTurn'
    BY <1>1 DEF ServerAttach, TypeOK, InTurn, Late, Busy
  <2>3. Answer'
    BY <1>1 DEF ServerAttach, TypeOK, InTurn, Answer, Late, Busy, Strlen, Tail
  <2>4. Tail'
    BY <1>1 DEF ServerAttach, TypeOK, Tail
  <2>5. Letters'
    BY <1>1 DEF ServerAttach, TypeOK, Letters, Unmade, Tail
  <2> QED BY <2>1, <2>2, <2>3, <2>4, <2>5
<1>2. CASE ServerReset
  <2>1. TypeOK'
    BY <1>2 DEF ServerReset, TypeOK, Happenings
  <2>2. InTurn'
    BY <1>2 DEF ServerReset, TypeOK, InTurn, Late, Busy
  <2>3. Answer'
    BY <1>2 DEF ServerReset, TypeOK, InTurn, Answer, Late, Busy, Strlen, Tail
  <2>4. Tail'
    BY <1>2 DEF ServerReset, TypeOK, Tail
  <2>5. Letters'
    BY <1>2 DEF ServerReset, TypeOK, Letters, Unmade, Tail
  <2> QED BY <2>1, <2>2, <2>3, <2>4, <2>5
<1>3. CASE ServerTop
  <2>1. TypeOK'
    BY <1>3 DEF ServerTop, TypeOK, Happenings
  <2>2. InTurn'
    BY <1>3 DEF ServerTop, TypeOK, InTurn, Late, Busy
  <2>3. Answer'
    BY <1>3 DEF ServerTop, TypeOK, InTurn, Answer, Late, Busy, Strlen, Tail
  <2>4. Tail'
    BY <1>3 DEF ServerTop, TypeOK, Tail
  <2>5. Letters'
    BY <1>3 DEF ServerTop, TypeOK, Letters, Unmade, Tail
  <2> QED BY <2>1, <2>2, <2>3, <2>4, <2>5
<1>4. CASE ServerFill
  <2>1. TypeOK'
    BY <1>4 DEF ServerFill, TypeOK, Happenings
  <2>2. InTurn'
    BY <1>4 DEF ServerFill, TypeOK, InTurn, Late, Busy
  <2>3. Answer'
    BY <1>4 DEF ServerFill, TypeOK, InTurn, Answer, Late, Busy, Strlen, Tail
  <2>4. Tail'
    <3>1. CASE ranlen' = 0
      BY <1>4, <3>1 DEF ServerFill, Tail
    <3>2. CASE ranlen' # 0
      <4>1. ranlen' \in Nat /\ server' = "rest"
        BY <1>4, <3>2 DEF ServerFill
      <4> QED BY <4>1, <3>2 DEF Tail
    <3> QED BY <3>1, <3>2
  <2>5. Letters'
    BY <1>4 DEF ServerFill, TypeOK, Letters, Unmade, Tail
  <2> QED BY <2>1, <2>2, <2>3, <2>4, <2>5
<1>5. CASE ServerFillRest
  <2>1. TypeOK'
    BY <1>5 DEF ServerFillRest, TypeOK, Tail, Happenings
  <2>2. InTurn'
    BY <1>5 DEF ServerFillRest, TypeOK, InTurn, Late, Busy
  <2>3. Answer'
    BY <1>5 DEF ServerFillRest, TypeOK, InTurn, Answer, Late, Busy, Strlen, Tail
  <2>4. Tail'
    BY <1>5 DEF ServerFillRest, TypeOK, Tail
  <2>5. Letters'
    BY <1>5 DEF ServerFillRest, TypeOK, Letters, Unmade, Tail
  <2> QED BY <2>1, <2>2, <2>3, <2>4, <2>5
<1>6. CASE ServerOffer
  <2>1. TypeOK'
    BY <1>6 DEF ServerOffer, TypeOK, Happenings
  <2>2. InTurn'
    BY <1>6 DEF ServerOffer, TypeOK, InTurn, Late, Busy
  <2>3. Answer'
    BY <1>6 DEF ServerOffer, TypeOK, InTurn, Answer, Late, Busy, Strlen, Tail
  <2>4. Tail'
    BY <1>6 DEF ServerOffer, TypeOK, Tail
  <2>5. Letters'
    BY <1>6 DEF ServerOffer, TypeOK, Letters, Unmade, Tail
  <2> QED BY <2>1, <2>2, <2>3, <2>4, <2>5
<1>7. CASE ServerPoll
  <2>1. TypeOK'
    BY <1>7 DEF ServerPoll, TypeOK, Happenings
  <2>2. InTurn'
    BY <1>7 DEF ServerPoll, TypeOK, InTurn, Late, Busy
  <2>3. Answer'
    BY <1>7 DEF ServerPoll, TypeOK, InTurn, Answer, Late, Busy, Strlen, Tail
  <2>4. Tail'
    BY <1>7 DEF ServerPoll, TypeOK, Tail
  <2>5. Letters'
    BY <1>7 DEF ServerPoll, TypeOK, Letters, Unmade, Tail
  <2> QED BY <2>1, <2>2, <2>3, <2>4, <2>5
<1>8. CASE ServerDecide
  <2>1. TypeOK'
    BY <1>8 DEF ServerDecide, TypeOK, Happenings
  <2>2. InTurn'
    BY <1>8 DEF ServerDecide, TypeOK, InTurn, Late, Busy
  <2>3. Answer'
    BY <1>8 DEF ServerDecide, TypeOK, InTurn, Answer, Late, Busy, Strlen, Tail
  <2>4. Tail'
    BY <1>8 DEF ServerDecide, TypeOK, Tail
  <2>5. Letters'
    BY <1>8 DEF ServerDecide, TypeOK, Letters, Unmade, Tail
  <2> QED BY <2>1, <2>2, <2>3, <2>4, <2>5
<1>9. CASE ServerReport
  <2>1. TypeOK'
    BY <1>9 DEF ServerReport, TypeOK, Happenings
  <2>2. InTurn'
    BY <1>9 DEF ServerReport, TypeOK, InTurn, Late, Busy
  <2>3. Answer'
    BY <1>9 DEF ServerReport, TypeOK, InTurn, Answer, Late, Busy, Strlen, Tail
  <2>4. Tail'
    BY <1>9 DEF ServerReport, TypeOK, Tail
  <2>5. Letters'
    BY <1>9 DEF ServerReport, TypeOK, Letters, Unmade, Tail
  <2> QED BY <2>1, <2>2, <2>3, <2>4, <2>5
<1>10. CASE ServerInterrupt
  <2>1. TypeOK'
    BY <1>10 DEF ServerInterrupt, TypeOK, Happenings
  <2>2. InTurn'
    BY <1>10 DEF ServerInterrupt, TypeOK, InTurn, Late, Busy
  <2>3. Answer'
    BY <1>10 DEF ServerInterrupt, TypeOK, InTurn, Answer, Late, Busy, Strlen, Tail
  <2>4. Tail'
    BY <1>10 DEF ServerInterrupt, TypeOK, Tail
  <2>5. Letters'
    BY <1>10 DEF ServerInterrupt, TypeOK, Letters, Unmade, Tail
  <2> QED BY <2>1, <2>2, <2>3, <2>4, <2>5
<1>11. ASSUME NEW c \in Clients, ClientAttach(c) PROVE IInv'
  <2>1. TypeOK'
    BY <1>11 DEF ClientAttach, TypeOK, Happenings
  <2>2. InTurn'
    BY <1>11 DEF ClientAttach, TypeOK, InTurn, Late, Busy
  <2>3. Answer'
    BY <1>11 DEF ClientAttach, TypeOK, InTurn, Answer, Late, Busy, Strlen, Tail
  <2>4. Tail'
    BY <1>11 DEF ClientAttach, TypeOK, Tail
  <2>5. Letters'
    BY <1>11 DEF ClientAttach, TypeOK, Letters, Unmade, Tail
  <2> QED BY <2>1, <2>2, <2>3, <2>4, <2>5
<1>12. ASSUME NEW c \in Clients, ClientTestEnd(c) PROVE IInv'
  <2>1. TypeOK'
    BY <1>12 DEF ClientTestEnd, TypeOK, Happenings
  <2>2. InTurn'
    BY <1>12 DEF ClientTestEnd, TypeOK, InTurn, Late, Busy
  <2>3. Answer'
    BY <1>12 DEF ClientTestEnd, TypeOK, InTurn, Answer, Late, Busy, Strlen, Tail
  <2>4. Tail'
    BY <1>12 DEF ClientTestEnd, TypeOK, Tail
  <2>5. Letters'
    BY <1>12 DEF ClientTestEnd, TypeOK, Letters, Unmade, Tail
  <2> QED BY <2>1, <2>2, <2>3, <2>4, <2>5
<1>13. ASSUME NEW c \in Clients, ClientTest(c) PROVE IInv'
  <2>1. TypeOK'
    BY <1>13 DEF ClientTest, TypeOK, Happenings
  <2>2. InTurn'
    BY <1>13 DEF ClientTest, TypeOK, InTurn, Late, Busy
  <2>3. Answer'
    BY <1>13 DEF ClientTest, TypeOK, InTurn, Answer, Late, Busy, Strlen, Tail
  <2>4. Tail'
    BY <1>13 DEF ClientTest, TypeOK, Tail
  <2>5. Letters'
    BY <1>13 DEF ClientTest, TypeOK, Letters, Unmade, Tail
  <2> QED BY <2>1, <2>2, <2>3, <2>4, <2>5
<1>14. ASSUME NEW c \in Clients, ClientClaim(c) PROVE IInv'
  <2>1. TypeOK'
    BY <1>14 DEF ClientClaim, TypeOK, Happenings
  <2>2. InTurn'
    BY <1>14 DEF ClientClaim, TypeOK, InTurn, Late, Busy
  <2>3. Answer'
    BY <1>14 DEF ClientClaim, TypeOK, InTurn, Answer, Late, Busy, Strlen, Tail
  <2>4. Tail'
    BY <1>14 DEF ClientClaim, TypeOK, Tail
  <2>5. Letters'
    BY <1>14 DEF ClientClaim, TypeOK, Letters, Unmade, Tail
  <2> QED BY <2>1, <2>2, <2>3, <2>4, <2>5
<1>15. ASSUME NEW c \in Clients, ClientSign(c) PROVE IInv'
  <2>1. TypeOK'
    BY <1>15 DEF ClientSign, TypeOK, Happenings
  <2>2. InTurn'
    BY <1>15 DEF ClientSign, TypeOK, InTurn, Late, Busy
  <2>3. Answer'
    BY <1>15 DEF ClientSign, TypeOK, InTurn, Answer, Late, Busy, Strlen, Tail
  <2>4. Tail'
    BY <1>15 DEF ClientSign, TypeOK, Tail
  <2>5. Letters'
    BY <1>15 DEF ClientSign, TypeOK, Letters, Unmade, Tail
  <2> QED BY <2>1, <2>2, <2>3, <2>4, <2>5
<1>16. ASSUME NEW c \in Clients, ClientCompute(c) PROVE IInv'
  <2>1. TypeOK'
    BY <1>16 DEF ClientCompute, TypeOK, Happenings
  <2>2. InTurn'
    BY <1>16 DEF ClientCompute, TypeOK, InTurn, Late, Busy
  <2>3. Answer'
    BY <1>16 DEF ClientCompute, TypeOK, InTurn, Answer, Late, Busy, Strlen, Tail
  <2>4. Tail'
    BY <1>16 DEF ClientCompute, TypeOK, Tail
  <2>5. Letters'
    BY <1>16 DEF ClientCompute, TypeOK, Letters, Unmade, Tail
  <2> QED BY <2>1, <2>2, <2>3, <2>4, <2>5
<1>17. ASSUME NEW c \in Clients, ClientStore(c) PROVE IInv'
  <2>1. TypeOK'
    BY <1>17 DEF ClientStore, TypeOK, Happenings
  <2>2. InTurn'
    BY <1>17 DEF ClientStore, TypeOK, InTurn, Late, Busy
  <2>3. Answer'
    BY <1>17 DEF ClientStore, TypeOK, InTurn, Answer, Late, Busy, Strlen, Tail
  <2>4. Tail'
    BY <1>17 DEF ClientStore, TypeOK, Tail
  <2>5. Letters'
    BY <1>17 DEF ClientStore, TypeOK, Letters, Unmade, Tail
  <2> QED BY <2>1, <2>2, <2>3, <2>4, <2>5
<1>18. ASSUME NEW c \in Clients, ClientDone(c) PROVE IInv'
  <2>1. TypeOK'
    BY <1>18 DEF ClientDone, TypeOK, Happenings
  <2>2. InTurn'
    BY <1>18 DEF ClientDone, TypeOK, InTurn, Late, Busy
  <2>3. Answer'
    BY <1>18 DEF ClientDone, TypeOK, InTurn, Answer, Late, Busy, Strlen, Tail
  <2>4. Tail'
    BY <1>18 DEF ClientDone, TypeOK, Tail
  <2>5. Letters'
    BY <1>18 DEF ClientDone, TypeOK, Letters, Unmade, Tail
  <2> QED BY <2>1, <2>2, <2>3, <2>4, <2>5
<1>19. ASSUME NEW c \in Clients, ClientKilled(c) PROVE IInv'
  <2>1. TypeOK'
    BY <1>19 DEF ClientKilled, TypeOK, Happenings
  <2>2. InTurn'
    BY <1>19 DEF ClientKilled, TypeOK, InTurn, Late, Busy
  <2>3. Answer'
    BY <1>19 DEF ClientKilled, TypeOK, InTurn, Answer, Late, Busy, Strlen, Tail
  <2>4. Tail'
    BY <1>19 DEF ClientKilled, TypeOK, Tail
  <2>5. Letters'
    BY <1>19 DEF ClientKilled, TypeOK, Letters, Unmade, Tail
  <2> QED BY <2>1, <2>2, <2>3, <2>4, <2>5
<1> QED
  BY <1>0, <1>1, <1>2, <1>3, <1>4, <1>5, <1>6, <1>7, <1>8, <1>9, <1>10, <1>11, <1>12, <1>13, <1>14, <1>15, <1>16, <1>17, <1>18, <1>19
     DEF Next, Server, Client

LEMMA Invariance == Spec => []IInv
BY Start, Inductive, PTL DEF Spec
-----------------------------------------------------------------------------
\* The block, the two programs' locals and the history have their types.
THEOREM Typing == Spec => []TypeOK
<1>1. IInv => TypeOK
  BY DEF IInv
<1> QED BY <1>1, Invariance, PTL

\* The server reports the length of the string it made and the client that has
\* computed it, except in the two ways that ReportsItsString names.
THEOREM ReportedLength == Spec => []ReportsItsString
<1>1. IInv => ReportsItsString
  BY RoundsAssumption
     DEF RoundsAssumption, IInv, TypeOK, InTurn, Answer, Tail, Letters, Unmade,
         Late, Strlen, ReportsItsString
<1> QED BY <1>1, Invariance, PTL
=============================================================================
