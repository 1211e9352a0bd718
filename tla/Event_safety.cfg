\* Two threads, an auto-unsignal event a device signals and a plain one,
\* waits with and without a timeout, and timers that expire late.
SPECIFICATION EventSpec
CONSTANTS
  None = None
  Thread = {t1, t2, boot}
  Boot = boot
  WaitQueue = {auto, plain}
  AutoEvents = {auto}
  DeviceEvents = {auto}
  DestroyedEvents = {plain}
  WaitTimeouts = {"FINITE", "INFINITE"}
  HighestPrio = 2
  CreatePrios = {1, 2}
  SetPrios = {}
  Quantum = 1
  Timeouts = {}
  LeakBound = 1
  LeakersCall = FALSE
SYMMETRY ThreadSymmetry
INVARIANTS EventInv SignalsConserved KernelInv
PROPERTIES DestroyedWaitFails WakeResultSettled ImplementsAutoEvent
CHECK_DEADLOCK FALSE
