\* Three threads of two priorities and one mutex, acquires with and without
\* timeouts; any thread may destroy the mutex at any time.
SPECIFICATION MutexSpec
CONSTANTS
  None = None
  Thread = {t1, t2, t3, boot}
  Boot = boot
  WaitQueue = {m1}
  HighestPrio = 2
  CreatePrios = {1, 2}
  SetPrios = {}
  Quantum = 1
  Timeouts = {}
  LeakBound = 0
  LeakersCall = FALSE
  AcquireTimeouts = {"ZERO", "FINITE"}
  Destroyable = {m1}
SYMMETRY ThreadSymmetry
INVARIANTS MutexInv CountsStakes
PROPERTIES FifoSpec
