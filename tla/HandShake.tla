------------------------------ MODULE HandShake ------------------------------
(****************************************************************************)
(* os_day4/shared mem/test.c: a parent sends its child numbers through      *)
(* shared memory and gets their factorials back in the same field.  Two     *)
(* flags say whose turn it is: parent_flag is 1 while a number waits for    *)
(* the child, child_flag is 1 while an answer waits for the parent.         *)
(*                                                                          *)
(* Each load and store of a shared field is a step, in the order of the     *)
(* program (the fields are plain ints; the model is of a build that loads   *)
(* and stores them where the program says).  A loop that waits is an action *)
(* that is enabled when the loop ends.                                      *)
(****************************************************************************)
EXTENDS Naturals

CONSTANTS
  Numbers,     \* what rand() % 10 + 1 may give
  Requests     \* the parent's loop bound (10)

HandShakeAssumption ==
  /\ Numbers \subseteq Nat \ {0}
  /\ Requests \in Nat
ASSUME HandShakeAssumption

VARIABLES
  n, parent_flag, child_flag,   \* struct shared_data
  parent, i, random_num,        \* where the parent is, and its locals
  child, num,                   \* where the child is, and its local
  asked,                        \* history: requests the parent has made
  serving,                      \* history: the one the child took last, 0 at first
  lost                          \* history: the requests taken back unseen

vars == <<n, parent_flag, child_flag, parent, i, random_num, child, num,
          asked, serving, lost>>
parentVars == <<parent, i, random_num, asked>>
childVars  == <<child, num, serving, lost>>

factorial[k \in Nat] == IF k = 0 THEN 1 ELSE k * factorial[k - 1]

\* The two processes after fork.
Init ==
  /\ n = 0 /\ parent_flag = 0 /\ child_flag = 0
  /\ parent = "turn" /\ i = 0 /\ random_num = 0
  /\ child = "poll" /\ num = 0
  /\ asked = 0 /\ serving = 0 /\ lost = {}

------------------------------------------------------------------------------
AtParent(here, next) == parent = here /\ parent' = next
AtChild(here, next)  == child = here /\ child' = next

\* while (child_flag == 1); then a number is drawn.
ParentTurn ==
  /\ i < Requests /\ child_flag # 1
  /\ AtParent("turn", "write")
  /\ random_num' \in Numbers
  /\ UNCHANGED <<n, parent_flag, child_flag, i, asked, childVars>>

ParentWrite ==
  /\ AtParent("write", "raise")
  /\ n' = random_num
  /\ UNCHANGED <<parent_flag, child_flag, i, random_num, asked, childVars>>

ParentRaise ==
  /\ AtParent("raise", "await")
  /\ parent_flag' = 1
  /\ asked' = asked + 1
  /\ UNCHANGED <<n, child_flag, i, random_num, childVars>>

\* while (child_flag == 0);
ParentAwait ==
  /\ child_flag # 0
  /\ AtParent("await", "read")
  /\ UNCHANGED <<n, parent_flag, child_flag, i, random_num, asked, childVars>>

\* n is printed.
ParentRead ==
  /\ AtParent("read", "clear")
  /\ UNCHANGED <<n, parent_flag, child_flag, i, random_num, asked, childVars>>

ParentClear ==
  /\ AtParent("clear", "turn")
  /\ child_flag' = 0
  /\ i' = i + 1
  /\ UNCHANGED <<n, parent_flag, random_num, asked, childVars>>

------------------------------------------------------------------------------
\* if (parent_flag == 1)
ChildPoll ==
  /\ parent_flag = 1
  /\ AtChild("poll", "load")
  /\ serving' = asked
  /\ UNCHANGED <<n, parent_flag, child_flag, num, lost, parentVars>>

ChildLoad ==
  /\ AtChild("load", "store")
  /\ num' = n
  /\ UNCHANGED <<n, parent_flag, child_flag, serving, lost, parentVars>>

ChildStore_AfterAnswer ==
  /\ AtChild("store", "answer")
  /\ child_flag' = 1
  /\ UNCHANGED <<n, parent_flag, num, serving, lost, parentVars>>

ChildStore ==
  /\ AtChild("store", "answer")
  /\ n' = factorial[num]
  /\ UNCHANGED <<parent_flag, child_flag, num, serving, lost, parentVars>>

ChildAnswer_None ==
  /\ AtChild("answer", "lower")
  /\ UNCHANGED <<n, parent_flag, child_flag, num, serving, lost, parentVars>>

ChildAnswer ==
  /\ AtChild("answer", "lower")
  /\ child_flag' = 1
  /\ UNCHANGED <<n, parent_flag, num, serving, lost, parentVars>>

ChildLower_None ==
  /\ AtChild("lower", "poll")
  /\ UNCHANGED <<n, parent_flag, child_flag, num, serving, lost, parentVars>>

\* parent_flag = 0, whether it is still the flag of the request just answered
\* or already that of the next one.
ChildLower ==
  /\ AtChild("lower", "poll")
  /\ parent_flag' = 0
  /\ lost' = lost \cup {r \in {asked} : r # serving}
  /\ UNCHANGED <<n, child_flag, num, serving, parentVars>>

------------------------------------------------------------------------------
Parent ==
  \/ ParentTurn \/ ParentWrite \/ ParentRaise
  \/ ParentAwait \/ ParentRead \/ ParentClear

Child == ChildPoll \/ ChildLoad \/ ChildStore \/ ChildAnswer \/ ChildLower

Next == Parent \/ Child

\* Both processes spin: each gets its turn.
Spec == Init /\ [][Next]_vars /\ WF_vars(Parent) /\ WF_vars(Child)

------------------------------------------------------------------------------
TypeOK ==
  /\ n \in {0} \cup Numbers \cup {factorial[k] : k \in Numbers}
  /\ parent_flag \in {0, 1} /\ child_flag \in {0, 1}
  /\ parent \in {"turn", "write", "raise", "await", "read", "clear"}
  /\ i \in 0 .. Requests /\ random_num \in {0} \cup Numbers
  /\ child \in {"poll", "load", "store", "answer", "lower"}
  /\ num \in {0} \cup Numbers
  /\ asked \in 0 .. Requests /\ serving \in 0 .. Requests
  /\ lost \subseteq 1 .. Requests

\* What the parent prints is the factorial of the number it has sent, although
\* question and answer share one field and the parent may write its next
\* question before the child is through with the last (lines 71, 72, 81, 86).
ReceivesFactorial == parent = "read" => n = factorial[random_num]

\* The child takes no request twice, and takes none that was not made: the
\* answer it gave before is never taken for the next question.
ServedOnce == [][ChildPoll => asked > serving]_vars

\* A parent that waits for an answer will get one: the flag is up, the child is
\* at work, or the answer is there.  The exception is a request whose flag the
\* child has cleared unseen: it does so after it has answered (line 72), when
\* the parent may have raised it for the next number already (line 82).
StuckOnlyIfLost ==
  parent = "await" /\ asked \notin lost =>
    parent_flag = 1 \/ child_flag = 1 \/ child \in {"load", "store", "answer"}

\* And it gets it: each request is answered, unless it is lost in that way.
AnsweredUnlessLost == \A r \in 1 .. Requests :
  (parent = "await" /\ asked = r) ~> (parent = "read" /\ asked = r) \/ r \in lost
=============================================================================
