\* Three rounds of the ten.
CONSTANTS
  Numbers = {1, 2, 3}
  Requests = 3
SPECIFICATION Spec
INVARIANTS TypeOK ReceivesFactorial StuckOnlyIfLost
PROPERTIES AnsweredUnlessLost
\* The parent ends after its last round, and the child has nothing to do then.
CHECK_DEADLOCK FALSE
