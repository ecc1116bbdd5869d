-------------------------- MODULE HandShake_proofs --------------------------
(* Proofs about HandShake, for any set of numbers and any number of rounds.  *)
EXTENDS HandShake, TLAPS

\* While the child works on a number the parent waits; before the parent has
\* asked, the child has nothing to find.
Turns ==
  /\ child \in {"load", "store", "answer"} => parent = "await" /\ child_flag = 0
  /\ parent \in {"turn", "write", "raise"} =>
       /\ child \in {"poll", "lower"} /\ child_flag = 0
       /\ child = "poll" => parent_flag = 0
  /\ parent \in {"read", "clear"} => child_flag = 1
  /\ child_flag = 1 =>
       /\ parent \in {"await", "read", "clear"} /\ child \in {"poll", "lower"}
       /\ child = "poll" => parent_flag = 0

\* The shared field holds the question from the time it is written until the
\* child answers, and the answer until the parent writes again.
Field ==
  /\ parent # "turn" => random_num \in Numbers
  /\ parent = "raise" => n = random_num
  /\ child \in {"load", "store"} \/ (child = "poll" /\ parent_flag = 1)
       => n = random_num
  /\ child = "store" => num = random_num
  /\ child = "answer" \/ child_flag = 1 => n = factorial[random_num]

\* A flag the child may still act on belongs to a request it has not taken, and
\* so does one that it is about to clear when its last answer has been read.
Count ==
  /\ parent # "turn" => i < Requests
  /\ asked = IF parent \in {"await", "read", "clear"} THEN i + 1 ELSE i
  /\ serving <= asked
  /\ child = "poll" /\ parent_flag = 1 => serving < asked
  /\ child = "lower" /\ child_flag = 0 /\ parent = "await" => serving < asked

IInv == TypeOK /\ Turns /\ Field /\ Count /\ StuckOnlyIfLost

LEMMA Start == Init => IInv
BY HandShakeAssumption
   DEF HandShakeAssumption, Init, IInv, TypeOK, Turns, Field, Count, StuckOnlyIfLost


LEMMA Inductive == IInv /\ [Next]_vars => IInv'
<1> SUFFICES ASSUME IInv, [Next]_vars PROVE IInv'
  OBVIOUS
<1> USE HandShakeAssumption
    DEF HandShakeAssumption, IInv, TypeOK, Turns, Field, Count,
        StuckOnlyIfLost, AtParent, AtChild, parentVars, childVars
<1>0. CASE UNCHANGED vars
  BY <1>0 DEF vars
<1>1. CASE ParentTurn
  BY <1>1 DEF ParentTurn
<1>2. CASE ParentWrite
  BY <1>2 DEF ParentWrite
<1>3. CASE ParentRaise
  BY <1>3 DEF ParentRaise
<1>4. CASE ParentAwait
  BY <1>4 DEF ParentAwait
<1>5. CASE ParentRead
  BY <1>5 DEF ParentRead
<1>6. CASE ParentClear
  BY <1>6 DEF ParentClear
<1>7. CASE ChildPoll
  BY <1>7 DEF ChildPoll
<1>8. CASE ChildLoad
  BY <1>8 DEF ChildLoad
<1>9. CASE ChildStore
  BY <1>9 DEF ChildStore
<1>10. CASE ChildAnswer
  BY <1>10 DEF ChildAnswer
<1>11. CASE ChildLower
  <2>1. lost' \subseteq 1 .. Requests
    <3> SUFFICES ASSUME NEW r \in lost' PROVE r \in 1 .. Requests
      OBVIOUS
    <3>1. r \in lost \/ (r = asked /\ asked # serving)
      BY <1>11 DEF ChildLower
    <3>2. /\ Requests \in Nat /\ asked \in 0 .. Requests
          /\ serving \in 0 .. Requests /\ serving <= asked
      OBVIOUS
    <3>3. r \in lost => r \in 1 .. Requests
      OBVIOUS
    <3> HIDE DEF TypeOK, Turns, Field, Count, StuckOnlyIfLost, IInv
    <3> QED BY <3>1, <3>2, <3>3
  <2>2. TypeOK'
    BY <1>11, <2>1 DEF ChildLower
  <2>3. Turns' /\ Field' /\ Count' /\ StuckOnlyIfLost'
    BY <1>11 DEF ChildLower
  <2> QED BY <2>2, <2>3
<1> QED
  BY <1>0, <1>1, <1>2, <1>3, <1>4, <1>5, <1>6, <1>7, <1>8, <1>9, <1>10, <1>11
     DEF Next, Parent, Child

LEMMA Invariance == Spec => []IInv
BY Start, Inductive, PTL DEF Spec
-----------------------------------------------------------------------------
\* The shared fields, the two processes and the history have their types.
THEOREM Typing == Spec => []TypeOK
<1>1. IInv => TypeOK
  BY DEF IInv
<1> QED BY <1>1, Invariance, PTL

\* What the parent prints is the factorial of the number it has sent, in every
\* round and however the two processes overtake each other.
THEOREM AnswerToTheQuestion == Spec => []ReceivesFactorial
<1>1. IInv => ReceivesFactorial
  BY DEF IInv, Turns, Field, ReceivesFactorial
<1> QED BY <1>1, Invariance, PTL

\* The parent waits in vain only for a request whose flag was cleared unseen.
THEOREM OnlyLossStalls == Spec => []StuckOnlyIfLost
<1>1. IInv => StuckOnlyIfLost
  BY DEF IInv
<1> QED BY <1>1, Invariance, PTL

\* The child never takes the flag of a request it has answered for a new one.
THEOREM EachRequestOnce == Spec => ServedOnce
<1>1. IInv /\ [Next]_vars => [ChildPoll => asked > serving]_vars
  BY DEF IInv, TypeOK, Count, ChildPoll, AtChild
<1> QED BY <1>1, Invariance, PTL DEF Spec, ServedOnce
=============================================================================
