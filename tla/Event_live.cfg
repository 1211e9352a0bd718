\* Three threads of one priority, so that two may pass the third again and
\* again, and the idle thread; the threads wait for a device or for each
\* other.
SPECIFICATION EventFairSpec
CONSTANTS
  None = None
  Thread = {t1, t2, t3, boot}
  Boot = boot
  WaitQueue = {auto}
  AutoEvents = {auto}
  DeviceEvents = {auto}
  DestroyedEvents = {}
  WaitTimeouts = {"INFINITE"}
  HighestPrio = 1
  CreatePrios = {1}
  SetPrios = {}
  Quantum = 1
  Timeouts = {}
  LeakBound = 0
  LeakersCall = FALSE
PROPERTIES TopReadyRuns DeviceWaitEnds
