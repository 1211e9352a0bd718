-------------------------------- MODULE Mutex --------------------------------
(***************************************************************************)
(* kernel/mutex.c on top of the scheduler.  A mutex is named by its wait   *)
(* queue.  A call that blocks is two actions: up to the switch, and from   *)
(* the return of wait_queue_block on.                                      *)
(***************************************************************************)
EXTENDS Thread

CONSTANTS
  AcquireTimeouts,  \* timeouts given to mutex_acquire_timeout
  Destroyable       \* the mutexes some thread may destroy

ASSUME MutexAssumption ==
  /\ AcquireTimeouts \subseteq {"ZERO", "FINITE"}
  /\ Destroyable \subseteq WaitQueue

VARIABLES
  m_magic,     \* mutex_t.magic = MUTEX_MAGIC
  m_count,     \* mutex_t.count
  m_holder,    \* mutex_t.holder
  acquiring,   \* the blocked acquire of each thread: its mutex and function
  held         \* mutexes whose acquire told t NO_ERROR, not yet released

mutex_vars == <<m_magic, m_count, m_holder, acquiring, held>>
mutex_all_vars == <<thread_vars, mutex_vars>>

NotAcquiring == [mutex |-> None, by |-> "mutex_acquire"]

MutexInit ==
  /\ ThreadInit
  /\ m_magic = [m \in WaitQueue |-> TRUE]
  /\ m_count = [m \in WaitQueue |-> 0]
  /\ m_holder = [m \in WaitQueue |-> None]
  /\ acquiring = [t \in Thread |-> NotAcquiring]
  /\ held = [t \in Thread |-> {}]

\* Variants of the test in acquire: off by one, and looking at the holder.
uncontended_off_by_one(m) == m_count[m] <= 1
uncontended_by_holder(m) == m_holder[m] = None

\* The increment of count does not make it greater than 1.
uncontended(m) == m_count[m] < 1

\* The part mutex_acquire and mutex_acquire_timeout share: take a mutex that
\* is free, or block on its wait queue.  A caller that already holds the
\* mutex would panic.  A timeout of zero finds the mutex free or backs out
\* of the increment at once.
acquire(m, by, timeout) ==
  LET t == current_thread
  IN  /\ Calling /\ m_magic[m]
      /\ m_holder[m] # t
      /\ IF uncontended(m)
         THEN /\ m_count' = [m_count EXCEPT ![m] = @ + 1]
              /\ m_holder' = [m_holder EXCEPT ![m] = t]
              /\ held' = [held EXCEPT ![t] = @ \cup {m}]
              /\ UNCHANGED <<thread_vars, acquiring>>
         ELSE /\ timeout # "ZERO"
              /\ m_count' = [m_count EXCEPT ![m] = @ + 1]
              /\ acquiring' =
                   [acquiring EXCEPT ![t] = [mutex |-> m, by |-> by]]
              /\ EnterMasks
              /\ wait_queue_block(m, timeout, critical_section_count + 1)
              /\ UNCHANGED <<priority, idle_thread, waking, m_holder, held>>
      /\ UNCHANGED m_magic

MutexAcquire(m) == acquire(m, "mutex_acquire", "INFINITE")

MutexAcquireTimeout(m, timeout) ==
  acquire(m, "mutex_acquire_timeout", timeout)

\* Variant: a timeout does not back out.
backs_out_never(by, ret) == FALSE

\* mutex_acquire_timeout backs out of its increment after a timeout;
\* mutex_acquire leaves the mutex alone after any error.
backs_out(by, ret) == by = "mutex_acquire_timeout" /\ ret = "ERR_TIMED_OUT"

\* Which results lead to the assignment of the holder: in
\* mutex_acquire_timeout, every one but a timeout.
takes(by, ret) ==
  \/ ret = "NO_ERROR"
  \/ by = "mutex_acquire_timeout" /\ ret # "ERR_TIMED_OUT"

\* The code after wait_queue_block in the two functions.
AcquireReturn ==
  LET t   == current_thread
      m   == acquiring[t].mutex
      by  == acquiring[t].by
      ret == wait_queue_block_ret[t]
  IN  /\ wait_queue_block_return
      /\ m_count' = IF backs_out(by, ret)
                    THEN [m_count EXCEPT ![m] = @ - 1] ELSE m_count
      /\ m_holder' = IF takes(by, ret)
                     THEN [m_holder EXCEPT ![m] = t] ELSE m_holder
      /\ held' = IF ret = "NO_ERROR"
                 THEN [held EXCEPT ![t] = @ \cup {m}] ELSE held
      /\ acquiring' = [acquiring EXCEPT ![t] = NotAcquiring]
      /\ UNCHANGED m_magic

give_back(m) ==
  /\ m_holder' = [m_holder EXCEPT ![m] = None]
  /\ m_count' = [m_count EXCEPT ![m] = @ - 1]

\* Variant: off by one.
contended_off_by_one(m) == m_count[m] - 1 > 1

\* After the decrement somebody else has a stake in the mutex.
contended(m) == m_count[m] - 1 >= 1

\* mutex_release by the holder; anyone else panics.
MutexRelease(m) ==
  LET t == current_thread
  IN  /\ Calling /\ m_magic[m]
      /\ m_holder[m] = t
      /\ give_back(m)
      /\ held' = [held EXCEPT ![t] = @ \ {m}]
      /\ IF contended(m) /\ wait_list[m] # <<>>
         THEN /\ EnterMasks
              /\ goto("wake")
              /\ wait_queue_wake_one(m, TRUE, "NO_ERROR",
                                     critical_section_count + 1)
              /\ UNCHANGED <<priority, idle_thread, timer, waking>>
         ELSE UNCHANGED thread_vars
      /\ UNCHANGED <<m_magic, acquiring>>

\* mutex_destroy: every waiter is woken; the holder is not looked at.
MutexDestroy(m) ==
  /\ Calling /\ m_magic[m]
  /\ m_magic' = [m_magic EXCEPT ![m] = FALSE]
  /\ m_count' = [m_count EXCEPT ![m] = 0]
  /\ EnterMasks
  /\ wake_all_begin(state, m, TRUE, "ERR_OBJECT_DESTROYED",
                    critical_section_count + 1, "wake")
  /\ UNCHANGED <<priority, idle_thread, m_holder, acquiring, held>>

MutexNext ==
  \/ KernelNext /\ UNCHANGED mutex_vars
  \/ \E m \in WaitQueue :
       \/ MutexAcquire(m)
       \/ \E timeout \in AcquireTimeouts : MutexAcquireTimeout(m, timeout)
       \/ MutexRelease(m)
  \/ AcquireReturn
  \/ \E m \in Destroyable : MutexDestroy(m)

MutexSpec == MutexInit /\ [][MutexNext]_mutex_all_vars

(***************************************************************************)
(* Fairness of the users of a mutex: whoever holds one gives it back if it *)
(* keeps getting the CPU.                                                  *)
(***************************************************************************)
ReleasedBy(t, m) == current_thread = t /\ MutexRelease(m)

MutexFairSpec ==
  /\ MutexSpec
  /\ SchedulerFairness
  /\ \A t \in Thread : SF_thread_vars(SleepTimer(t))
  /\ WF_mutex_all_vars(AcquireReturn)
  /\ \A t \in Thread, m \in WaitQueue : SF_mutex_all_vars(ReleasedBy(t, m))

-----------------------------------------------------------------------------
(* Properties.                                                             *)

\* Every field has its type, and the count of a mutex that exists is never
\* negative.
MutexTypeOK ==
  /\ m_magic \in [WaitQueue -> BOOLEAN]
  /\ m_count \in [WaitQueue -> Int]
  /\ \A m \in WaitQueue : m_magic[m] => m_count[m] >= 0
  /\ m_holder \in [WaitQueue -> Thread \cup {None}]
  /\ acquiring \in [Thread -> [mutex : WaitQueue \cup {None},
                              by : {"mutex_acquire", "mutex_acquire_timeout"}]]
  /\ held \in [Thread -> SUBSET WaitQueue]

\* t has been taken off the wait queue of m with the given result, and has
\* not run since.
Woken(t, m, result) ==
  /\ acquiring[t].mutex = m
  /\ state[t] # "BLOCKED"
  /\ wait_queue_block_ret[t] = result

\* At most one thread believes it holds a mutex, and it is the one the mutex
\* names: mutex_release never panics for a thread that acquired.  While the
\* mutex is being handed to a woken thread nobody else believes it.
MutualExclusion ==
  \A m \in WaitQueue : m_magic[m] =>
    /\ \A t \in Thread : m \in held[t] <=> m_holder[m] = t
    /\ \A t, u \in Thread :
         Woken(t, m, "NO_ERROR") =>
           m_holder[m] = None /\ (Woken(u, m, "NO_ERROR") => u = t)

\* What mutex_acquire and mutex_release may rely on: the fields of a mutex
\* keep their types, and holder names the only thread that holds it.
MutexInv == MutexTypeOK /\ MutualExclusion

\* count is the number of threads with a stake in the mutex: its holder, its
\* waiters, and the threads woken from it that have not run yet, whatever
\* their result.
CountsStakes ==
  \A m \in WaitQueue : m_magic[m] =>
    m_count[m] =
      (IF m_holder[m] = None THEN 0 ELSE 1)
        + Cardinality({t \in Thread : acquiring[t].mutex = m})

\* Nobody waits on a mutex that nobody holds, unless a woken thread is about
\* to take it: mutex_acquire "may wait forever if the mutex never becomes
\* free" (kernel/mutex.c:83), and only then.
NoWaitOnFreeMutex ==
  \A m \in WaitQueue :
    (m_magic[m] /\ m_holder[m] = None /\ wait_list[m] # <<>>) =>
      \E t \in Thread : Woken(t, m, "NO_ERROR") \/ Woken(t, m, "ERR_TIMED_OUT")

\* Seen from the callers, the mutexes that exist are fair locks: the owner is
\* the holder, or the thread release has handed the mutex to.
lock_owner ==
  [m \in WaitQueue |->
     IF ~m_magic[m] THEN None
     ELSE IF m_holder[m] # None THEN m_holder[m]
     ELSE IF \E t \in Thread : Woken(t, m, "NO_ERROR")
          THEN CHOOSE t \in Thread : Woken(t, m, "NO_ERROR")
          ELSE None]

Fifo == INSTANCE FifoLock WITH
  Lock <- WaitQueue, Client <- Thread, Nobody <- None,
  owner <- lock_owner,
  queue <- [m \in WaitQueue |-> IF m_magic[m] THEN wait_list[m] ELSE <<>>],
  leaving <- [m \in WaitQueue |->
                {t \in Thread : m_magic[m] /\ Woken(t, m, "ERR_TIMED_OUT")}]
FifoSpec == Fifo!Spec

\* A thread that asks for a mutex gets it, if every holder gives it back: in
\* particular a release and a new acquire cannot pass a waiter by for ever.
AcquireSucceeds ==
  \A t \in Thread, m \in WaitQueue :
    (acquiring[t].mutex = m /\ Top(t)) ~> (m \in held[t] \/ ~Top(t))
=============================================================================
