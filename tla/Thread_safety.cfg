\* Two threads of one priority or two, every call, finite and infinite waits;
\* no timer expires for a thread that was already woken.
SPECIFICATION ThreadSpec
CONSTANTS
  None = None
  Thread = {t1, t2, boot}
  Boot = boot
  WaitQueue = {q1}
  HighestPrio = 2
  CreatePrios = {1, 2}
  SetPrios = {1}
  Quantum = 1
  Timeouts = {"FINITE", "INFINITE"}
  LeakBound = 0
  LeakersCall = FALSE
SYMMETRY ThreadSymmetry
INVARIANTS ThreadTypeOK RunQueueExact WaitQueueExact TimersOnLiveStacks CriticalSectionsBalanced
PROPERTIES DispatchesHighest
