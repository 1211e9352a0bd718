\* Two threads that end and whose structures are used again, of the dpc
\* thread's priority or below it, and the idle thread.
SPECIFICATION DpcFairSpec
CONSTANTS
  None = None
  Thread = {t1, t2, dpc, boot}
  Boot = boot
  DpcThread = dpc
  DpcEvent = dpc_event
  WaitQueue = {dpc_event}
  AutoEvents = {}
  DeviceEvents = {}
  DestroyedEvents = {}
  WaitTimeouts = {}
  HighestPrio = 2
  CreatePrios = {1, 2}
  SetPrios = {}
  Quantum = 1
  Timeouts = {}
  LeakBound = 0
  LeakersCall = FALSE
INVARIANTS DpcInv
PROPERTIES NoStackFreedInUse DeadIsFreed
