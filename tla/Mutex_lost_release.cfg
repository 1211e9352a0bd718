\* As Mutex_safety without mutex_destroy: a release meets a waiter that has
\* timed out and not run yet.
SPECIFICATION MutexSpec
CONSTANTS
  None = None
  Thread = {t1, t2, t3, boot}
  Boot = boot
  WaitQueue = {m1}
  HighestPrio = 2
  CreatePrios = {1, 2}
  SetPrios = {}
  Quantum = 1
  Timeouts = {}
  LeakBound = 0
  LeakersCall = FALSE
  AcquireTimeouts = {"ZERO", "FINITE"}
  Destroyable = {}
SYMMETRY ThreadSymmetry
INVARIANTS NoWaitOnFreeMutex
