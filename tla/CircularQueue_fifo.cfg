\* Removals and spurious wakeups.
CONSTANTS
  Threads = {t1, t2, t3}
  Items = {1, 2}
  BUFFER_SIZE = 3
  MAX_THREADS = 2
  Free = Free
  Gone = Gone
  Removing = TRUE
  Spurious = TRUE
SPECIFICATION Spec
INVARIANTS TypeOK
PROPERTIES ImplementsBoundedQueue
\* Nothing happens any more when every thread waits and the user adds none.
CHECK_DEADLOCK FALSE
