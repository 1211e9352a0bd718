\* Two threads of one priority, waits with and without a timeout, and one
\* timer that expires for a thread already woken.
SPECIFICATION ThreadFairSpec
CONSTANTS
  None = None
  Thread = {t1, t2, boot}
  Boot = boot
  WaitQueue = {q1}
  HighestPrio = 1
  CreatePrios = {1}
  SetPrios = {}
  Quantum = 1
  Timeouts = {"FINITE", "INFINITE"}
  LeakBound = 1
  LeakersCall = TRUE
PROPERTIES TopWaitEnds
CHECK_DEADLOCK FALSE
