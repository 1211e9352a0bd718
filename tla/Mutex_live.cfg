\* Two threads of one priority, a mutex acquired without a timeout, holders
\* that give it back.
SPECIFICATION MutexFairSpec
CONSTANTS
  None = None
  Thread = {t1, t2, boot}
  Boot = boot
  WaitQueue = {m1}
  HighestPrio = 1
  CreatePrios = {1}
  SetPrios = {}
  Quantum = 1
  Timeouts = {}
  LeakBound = 0
  LeakersCall = FALSE
  AcquireTimeouts = {}
  Destroyable = {}
INVARIANTS NoWaitOnFreeMutex
PROPERTIES AcquireSucceeds
