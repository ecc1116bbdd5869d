\* No removals, no spurious wakeups: progress.
CONSTANTS
  Threads = {t1, t2, t3, t4}
  Items = {1}
  BUFFER_SIZE = 3
  MAX_THREADS = 2
  Free = Free
  Gone = Gone
  Removing = FALSE
  Spurious = FALSE
SPECIFICATION Spec
INVARIANTS NeverAllWaiting
PROPERTIES QueueMoves
\* Nothing happens any more when every thread waits and the user adds none.
CHECK_DEADLOCK FALSE
