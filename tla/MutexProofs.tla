---------------------------- MODULE MutexProofs ----------------------------
(***************************************************************************)
(* Mutexes exclude, count their stakes and hand themselves over in order:  *)
(* proofs about module Mutex, for every set of threads, priorities and     *)
(* mutexes, with the scheduler, its interrupts and its timers underneath.  *)
(***************************************************************************)
EXTENDS Mutex, ThreadProofs, FiniteSetTheorems

-----------------------------------------------------------------------------
(* The inductive invariant.                                                *)

\* A thread is inside wait_queue_block exactly while it acquires a mutex; it
\* is queued on that mutex, or it has been woken with a result the caller of
\* wait_queue_block can tell apart.
WaitsToAcquire ==
  \A t \in Thread :
    /\ pc[t] = "wait" <=> acquiring[t].mutex # None
    /\ pc[t] = "wait" => state[t] # "FREE"
    /\ state[t] = "BLOCKED" =>
         pc[t] = "wait" /\ blocking_wait_queue[t] = acquiring[t].mutex
    /\ timer[t] = "wait" => acquiring[t].by = "mutex_acquire_timeout"
    /\ (pc[t] = "wait" /\ state[t] # "BLOCKED"
          /\ m_magic[acquiring[t].mutex]) =>
         \/ wait_queue_block_ret[t] = "NO_ERROR"
         \/ /\ wait_queue_block_ret[t] = "ERR_TIMED_OUT"
            /\ acquiring[t].by = "mutex_acquire_timeout"

\* All waiters are woken only from a mutex that is being destroyed.
WakesTheDestroyed ==
  \A t \in Thread : pc[t] = "wake_all" => ~m_magic[waking.queue]

\* Every part of the invariant of the mutexes.
MutexIInv ==
  /\ ThreadInv
  /\ MutexTypeOK
  /\ WaitsToAcquire
  /\ WakesTheDestroyed
  /\ MutualExclusion
  /\ CountsStakes

\* The threads whose acquire of m has blocked and not returned.
Stakes(m) == {t \in Thread : acquiring[t].mutex = m}

-----------------------------------------------------------------------------
(* Counting.                                                               *)

\* There are finitely many of them.
LEMMA StakesFinite ==
  ASSUME NEW m
  PROVE  /\ IsFiniteSet(Stakes(m))
         /\ Cardinality(Stakes(m)) \in Nat /\ Cardinality(Stakes(m)') \in Nat
         /\ Cardinality(Stakes(m)) = 0 <=> Stakes(m) = {}
  <1>1. Stakes(m) \subseteq Thread /\ Stakes(m)' \subseteq Thread
    BY DEF Stakes
  <1>2. IsFiniteSet(Stakes(m)) /\ IsFiniteSet(Stakes(m)')
    BY <1>1, ThreadFinite, FS_Subset
  <1> QED BY <1>2, FS_CardinalityType, FS_EmptySet

\* A thread that blocks in an acquire of m adds one.
LEMMA StakeAdded ==
  ASSUME NEW t \in Thread, NEW m, NEW by, MutexTypeOK,
         acquiring[t].mutex # m,
         acquiring' = [acquiring EXCEPT ![t] = [mutex |-> m, by |-> by]]
  PROVE  Cardinality(Stakes(m)') = Cardinality(Stakes(m)) + 1
  <1>1. Stakes(m)' = Stakes(m) \cup {t} /\ t \notin Stakes(m)
    BY DEF Stakes, MutexTypeOK
  <1> QED BY <1>1, StakesFinite, FS_AddElement

\* One that comes out of it takes one away.
LEMMA StakeRemoved ==
  ASSUME NEW t \in Thread, NEW m, MutexTypeOK, acquiring[t].mutex = m,
         m # None, acquiring' = [acquiring EXCEPT ![t] = NotAcquiring]
  PROVE  Cardinality(Stakes(m)') = Cardinality(Stakes(m)) - 1
  <1>1. Stakes(m)' = Stakes(m) \ {t} /\ t \in Stakes(m)
    BY DEF Stakes, MutexTypeOK, NotAcquiring
  <1> QED BY <1>1, StakesFinite, FS_RemoveElement

\* What the count says of a mutex that exists.
LEMMA CountSays ==
  ASSUME MutexIInv, NEW m \in WaitQueue, m_magic[m]
  PROVE  /\ m_count[m] = (IF m_holder[m] = None THEN 0 ELSE 1)
                           + Cardinality(Stakes(m))
         /\ Cardinality(Stakes(m)) \in Nat
         /\ uncontended(m) <=> m_holder[m] = None /\ Stakes(m) = {}
  <1>1. m_count[m] = (IF m_holder[m] = None THEN 0 ELSE 1)
                       + Cardinality(Stakes(m))
    BY DEF MutexIInv, CountsStakes, Stakes
  <1> QED BY <1>1, StakesFinite DEF uncontended

-----------------------------------------------------------------------------
(* Steps that leave the mutexes themselves alone.                          *)

\* What the mutex code may rely on, by name.
LEMMA MutexParts ==
  ASSUME MutexIInv
  PROVE  /\ ThreadInv /\ current_thread \in Thread
         /\ m_magic \in [WaitQueue -> BOOLEAN]
         /\ m_count \in [WaitQueue -> Int]
         /\ m_holder \in [WaitQueue -> Thread \cup {None}]
         /\ acquiring \in [Thread ->
              [mutex : WaitQueue \cup {None},
               by : {"mutex_acquire", "mutex_acquire_timeout"}]]
         /\ held \in [Thread -> SUBSET WaitQueue]
         /\ None \notin Thread /\ None \notin WaitQueue
  BY Parts, ThreadAssumption DEF MutexIInv, MutexTypeOK

\* A step that disturbs no wait keeps what is known of the waits.
LEMMA WaitsKept ==
  ASSUME MutexIInv, Undisturbed, UNCHANGED mutex_vars
  PROVE  WaitsToAcquire' /\ MutualExclusion'
  <1>1. WaitsToAcquire'
    BY DEF MutexIInv, WaitsToAcquire, Undisturbed, mutex_vars
  <1>2. \A t \in Thread, m \in WaitQueue : \A result :
          Woken(t, m, result)' => Woken(t, m, result)
    BY MutexParts
       DEF MutexIInv, WaitsToAcquire, Undisturbed, mutex_vars, Woken
  <1> QED BY <1>1, <1>2 DEF MutexIInv, MutualExclusion, mutex_vars

\* A step that wakes t does, if t's mutex is being destroyed or t timed out.
LEMMA WaitsWoken ==
  ASSUME MutexIInv, NEW t \in Thread, NEW error, Woke(t, error),
         UNCHANGED mutex_vars,
         \/ ~m_magic[acquiring[t].mutex]
         \/ error = "ERR_TIMED_OUT" /\ timer[t] = "wait"
  PROVE  WaitsToAcquire' /\ MutualExclusion'
  <1>1. WaitsToAcquire'
    BY DEF MutexIInv, WaitsToAcquire, Woke, mutex_vars
  <1>2. \A u \in Thread, m \in WaitQueue :
          m_magic[m] /\ Woken(u, m, "NO_ERROR")' => Woken(u, m, "NO_ERROR")
    BY MutexParts DEF MutexIInv, WaitsToAcquire, Woke, mutex_vars, Woken
  <1> QED BY <1>1, <1>2 DEF MutexIInv, MutualExclusion, mutex_vars

\* Every call and every step of the kernel keeps the invariant.
LEMMA KernelKeepsMutexes ==
  ASSUME MutexIInv, KernelNext, UNCHANGED mutex_vars
  PROVE  MutexIInv'
  <1>1. ThreadInv /\ ThreadInv'
    BY KernelStepsInv, ThreadCallsInv DEF MutexIInv, KernelNext
  <1>2. MutexTypeOK' /\ CountsStakes'
    BY DEF MutexIInv, MutexTypeOK, CountsStakes, mutex_vars
  <1>3. WakesTheDestroyed'
    BY <1>1, WakeUpSame
       DEF MutexIInv, WakesTheDestroyed, SameWakeUp, mutex_vars
  <1>4. WaitsToAcquire' /\ MutualExclusion'
    <2>1. CASE ThreadCalls
      <3>1. WaitersExist
        BY DEF MutexIInv, WaitsToAcquire, WaitersExist
      <3> QED BY <1>1, <2>1, <3>1, CallsUndisturbed, WaitsKept
    <2>2. CASE WakeAllStep
      <3> DEFINE t == Head(wait_list[waking.queue])
      <3>1. /\ pc[current_thread] = "wake_all" /\ t \in Thread
            /\ Woke(t, waking.error)
            /\ blocking_wait_queue[t] = waking.queue
        BY <1>1, <2>2, WakeAllWakes
      <3> HIDE DEF t
      <3>2. ~m_magic[acquiring[t].mutex]
        BY <3>1, MutexParts
           DEF MutexIInv, WakesTheDestroyed, WaitsToAcquire, Woke
      <3> QED BY <3>1, <3>2, WaitsWoken
    <2>3. ASSUME NEW t \in Thread, state[t] = "BLOCKED", WaitTimer(t)
          PROVE  WaitsToAcquire' /\ MutualExclusion'
      <3>1. Woke(t, "ERR_TIMED_OUT") /\ timer[t] = "wait"
        BY <1>1, <2>3, TimerWakes
      <3> QED BY <3>1, WaitsWoken
    <2>4. CASE /\ KernelSteps /\ ~WakeAllStep
               /\ ~ \E t \in Thread : state[t] = "BLOCKED" /\ WaitTimer(t)
      BY <1>1, <2>4, StepsUndisturbed, WaitsKept
    <2> QED BY <2>1, <2>2, <2>3, <2>4 DEF KernelNext
  <1> QED BY <1>1, <1>2, <1>3, <1>4 DEF MutexIInv

-----------------------------------------------------------------------------
(* The operations of a mutex.                                              *)

\* A mutex that nobody has a stake in is taken.
LEMMA TakeStep ==
  ASSUME MutexIInv, NEW m \in WaitQueue, NEW by, NEW timeout,
         acquire(m, by, timeout), uncontended(m)
  PROVE  MutexIInv'
  <1> DEFINE me == current_thread
  <1>1. /\ m_magic[m] /\ pc[me] = "user"
        /\ m_count' = [m_count EXCEPT ![m] = @ + 1]
        /\ m_holder' = [m_holder EXCEPT ![m] = me]
        /\ held' = [held EXCEPT ![me] = @ \cup {m}]
        /\ UNCHANGED <<thread_vars, acquiring, m_magic>>
    BY DEF acquire, Calling
  <1>2. me \in Thread /\ m_holder[m] = None /\ Stakes(m) = {}
          /\ m_count[m] = 0
    BY <1>1, MutexParts, CountSays, StakesFinite
  <1>3. ThreadInv'
    BY <1>1, NextInv DEF MutexIInv
  <1>4. UNCHANGED <<pc, state, timer, blocking_wait_queue,
                    wait_queue_block_ret, waking, acquiring, m_magic>>
    BY <1>1 DEF thread_vars, sched_vars, wait_vars
  <1>5. WaitsToAcquire' /\ WakesTheDestroyed'
    BY <1>4 DEF MutexIInv, WaitsToAcquire, WakesTheDestroyed
  <1>6. CountsStakes'
    <2>1. ASSUME NEW n \in WaitQueue, m_magic[n]
          PROVE  m_count'[n] = (IF m_holder'[n] = None THEN 0 ELSE 1)
                                 + Cardinality(Stakes(n))
      <3>1. CASE n = m
        <4>1. m_count'[n] = 1 /\ m_holder'[n] = me /\ me # None
          BY <1>1, <1>2, <3>1, MutexParts
        <4>2. Cardinality(Stakes(n)) = 0
          BY <1>2, <3>1, StakesFinite
        <4> QED BY <4>1, <4>2
      <3>2. CASE n # m
        <4>1. m_count'[n] = m_count[n] /\ m_holder'[n] = m_holder[n]
          BY <1>1, <3>2, MutexParts
        <4> QED BY <2>1, <4>1, CountSays
      <3> QED BY <3>1, <3>2
    <2> QED BY <1>4, <2>1 DEF CountsStakes, Stakes
  <1>7. MutexTypeOK'
    <2>1. /\ m_count' \in [WaitQueue -> Int]
          /\ m_holder' \in [WaitQueue -> Thread \cup {None}]
          /\ held' \in [Thread -> SUBSET WaitQueue]
          /\ \A n \in WaitQueue : m_magic[n] => m_count'[n] >= 0
      BY <1>1, <1>2, MutexParts DEF MutexIInv, MutexTypeOK
    <2> QED BY <1>4, <2>1 DEF MutexIInv, MutexTypeOK
  <1>8. MutualExclusion'
    <2>1. \A t \in Thread, n \in WaitQueue : \A result :
            Woken(t, n, result)' <=> Woken(t, n, result)
      BY <1>4 DEF Woken
    <2>2. \A t \in Thread : \A result : ~Woken(t, m, result)
      BY <1>2 DEF Woken, Stakes
    <2>3. \A t \in Thread : m \notin held[t]
      BY <1>1, <1>2, MutexParts DEF MutexIInv, MutualExclusion
    <2>4. ASSUME NEW n \in WaitQueue, m_magic[n], NEW t \in Thread
          PROVE  n \in held'[t] <=> m_holder'[n] = t
      BY <1>1, <2>3, <2>4, MutexParts DEF MutexIInv, MutualExclusion
    <2>5. ASSUME NEW n \in WaitQueue, n # m PROVE m_holder'[n] = m_holder[n]
      BY <1>1, <2>5, MutexParts
    <2> QED BY <1>4, <2>1, <2>2, <2>4, <2>5 DEF MutexIInv, MutualExclusion
  <1> QED BY <1>3, <1>5, <1>6, <1>7, <1>8 DEF MutexIInv

\* A mutex somebody has a stake in is waited for.
LEMMA WaitStep ==
  ASSUME MutexIInv, NEW m \in WaitQueue,
         NEW by \in {"mutex_acquire", "mutex_acquire_timeout"},
         NEW timeout \in {"ZERO", "FINITE", "INFINITE"},
         timeout = "FINITE" => by = "mutex_acquire_timeout",
         acquire(m, by, timeout), ~uncontended(m)
  PROVE  /\ MutexIInv'
         /\ Blocked(m, timeout)
         /\ wait_list' = [wait_list EXCEPT ![m] = Append(@, current_thread)]
  <1> DEFINE me == current_thread
  <1>1. /\ m_magic[m] /\ pc[me] = "user" /\ timeout \in Timeout
        /\ m_count' = [m_count EXCEPT ![m] = @ + 1]
        /\ acquiring' = [acquiring EXCEPT ![me] = [mutex |-> m, by |-> by]]
        /\ WaitQueueBlock(m, timeout)
        /\ UNCHANGED <<m_magic, m_holder, held>>
    BY DEF acquire, Calling, WaitQueueBlock, Timeout
  <1>2. ThreadInv /\ ThreadInv'
    BY <1>1, BlockStep DEF MutexIInv
  <1>3. /\ Blocked(m, timeout)
        /\ wait_list' = [wait_list EXCEPT ![m] = Append(@, current_thread)]
        /\ \A u \in Thread : pc'[u] # "wake_all"
    BY <1>1, <1>2, BlockBlocks
  <1>4. me \in Thread /\ acquiring[me].mutex = None
    BY <1>1, MutexParts DEF MutexIInv, WaitsToAcquire
  <1>5. \A u \in Thread : acquiring'[u] = IF u = me
                                          THEN [mutex |-> m, by |-> by]
                                          ELSE acquiring[u]
    BY <1>1, MutexParts
  <1>6. WaitsToAcquire'
    <2> SUFFICES ASSUME NEW t \in Thread PROVE WaitsToAcquire!(t)'
      BY DEF WaitsToAcquire
    <2>1. CASE t = me
      <3>1. acquiring'[me].mutex = m /\ acquiring'[me].by = by
        BY <1>4, <1>5
      <3>2. /\ pc'[me] = "wait" /\ state'[me] = "BLOCKED"
            /\ blocking_wait_queue'[me] = m
            /\ timer'[me] = "wait" => by = "mutex_acquire_timeout"
        BY <1>3, <1>4 DEF Blocked
      <3>3. m # None
        BY MutexParts
      <3> QED BY <2>1, <3>1, <3>2, <3>3
    <2>2. CASE t # me
      <3>1. acquiring'[t] = acquiring[t] /\ m_magic' = m_magic
        BY <1>1, <1>5, <2>2
      <3>2. /\ pc'[t] = "wait" <=> pc[t] = "wait"
            /\ state'[t] = "BLOCKED" <=> state[t] = "BLOCKED"
            /\ state'[t] = "FREE" => state[t] = "FREE"
            /\ blocking_wait_queue'[t] = blocking_wait_queue[t]
            /\ wait_queue_block_ret'[t] = wait_queue_block_ret[t]
            /\ timer'[t] = "wait" => timer[t] = "wait"
        BY <1>3, <2>2 DEF Blocked
      <3> QED BY <3>1, <3>2 DEF MutexIInv, WaitsToAcquire
    <2> QED BY <2>1, <2>2
  <1>7. WakesTheDestroyed'
    BY <1>3 DEF WakesTheDestroyed
  <1>8. CountsStakes'
    <2>1. ASSUME NEW n \in WaitQueue, m_magic[n]
          PROVE  m_count'[n] = (IF m_holder[n] = None THEN 0 ELSE 1)
                                 + Cardinality(Stakes(n)')
      <3>1. CASE n = m
        <4>1. Cardinality(Stakes(m)') = Cardinality(Stakes(m)) + 1
          BY <1>1, <1>4, StakeAdded, MutexParts DEF MutexIInv
        <4>2. m_count'[m] = m_count[m] + 1
          BY <1>1, MutexParts
        <4> QED BY <1>1, <3>1, <4>1, <4>2, CountSays
      <3>2. CASE n # m
        <4>1. Stakes(n)' = Stakes(n)
          BY <1>4, <1>5, <3>2, MutexParts DEF Stakes
        <4>2. m_count'[n] = m_count[n]
          BY <1>1, <3>2, MutexParts
        <4> QED BY <2>1, <4>1, <4>2, CountSays
      <3> QED BY <3>1, <3>2
    <2> QED BY <1>1, <2>1 DEF CountsStakes, Stakes
  <1>9. MutexTypeOK'
    <2>1. /\ m_count' \in [WaitQueue -> Int]
          /\ \A n \in WaitQueue : m_magic[n] => m_count'[n] >= 0
          /\ acquiring' \in [Thread ->
               [mutex : WaitQueue \cup {None},
                by : {"mutex_acquire", "mutex_acquire_timeout"}]]
      BY <1>1, <1>4, MutexParts DEF MutexIInv, MutexTypeOK
    <2> QED BY <1>1, <2>1 DEF MutexIInv, MutexTypeOK
  <1>10. MutualExclusion'
    <2>1. \A t \in Thread, n \in WaitQueue :
            Woken(t, n, "NO_ERROR")' => Woken(t, n, "NO_ERROR")
      BY <1>3, <1>4, <1>5, MutexParts DEF Woken, Blocked
    <2> QED BY <1>1, <2>1 DEF MutexIInv, MutualExclusion
  <1> QED BY <1>2, <1>3, <1>6, <1>7, <1>8, <1>9, <1>10 DEF MutexIInv

\* A blocked acquire returns with the mutex, without it, or from a mutex that
\* is no more.
LEMMA ReturnStep ==
  ASSUME MutexIInv, AcquireReturn
  PROVE  MutexIInv'
  <1> DEFINE me == current_thread
  <1>0. PICK m, by, ret : /\ m = acquiring[me].mutex /\ by = acquiring[me].by
                          /\ ret = wait_queue_block_ret[me]
    OBVIOUS
  <1>1. /\ wait_queue_block_return
        /\ m_count' = IF backs_out(by, ret)
                      THEN [m_count EXCEPT ![m] = @ - 1] ELSE m_count
        /\ m_holder' = IF takes(by, ret)
                       THEN [m_holder EXCEPT ![m] = me] ELSE m_holder
        /\ held' = IF ret = "NO_ERROR"
                   THEN [held EXCEPT ![me] = @ \cup {m}] ELSE held
        /\ acquiring' = [acquiring EXCEPT ![me] = NotAcquiring]
        /\ UNCHANGED m_magic
    BY <1>0 DEF AcquireReturn
  <1>2. ThreadInv /\ ThreadInv'
    <2>1. /\ unwind("wait")
          /\ timer' = [timer EXCEPT ![current_thread] = "none"]
          /\ UNCHANGED wait_vars
      BY <1>1 DEF wait_queue_block_return
    <2> QED BY <2>1, UnwindStep DEF MutexIInv
  <1>3. /\ pc[me] = "wait" /\ pc'[me] # "wait" /\ state[me] # "BLOCKED"
        /\ UNCHANGED <<state, wait_vars>>
        /\ \A u \in Thread :
             /\ u # me => (pc'[u] = "wait" <=> pc[u] = "wait")
             /\ timer'[u] = "wait" => timer[u] = "wait"
             /\ pc'[u] # "wake_all"
    BY <1>1, <1>2, BlockReturns
  <1>4. UNCHANGED <<blocking_wait_queue, wait_queue_block_ret>>
    BY <1>3 DEF wait_vars
  <1>5. me \in Thread /\ m \in WaitQueue
    BY <1>0, <1>3, MutexParts DEF MutexIInv, WaitsToAcquire
  <1>6. \A u \in Thread : acquiring'[u] = IF u = me THEN NotAcquiring
                                          ELSE acquiring[u]
    BY <1>1, MutexParts
  <1>7. timer'[me] # "wait"
    BY <1>2, <1>3, <1>5 DEF ThreadInv, TimersOnLiveStacks
  <1>8. WaitsToAcquire'
    BY <1>0, <1>1, <1>3, <1>4, <1>5, <1>6, <1>7
       DEF MutexIInv, WaitsToAcquire, NotAcquiring
  <1>9. WakesTheDestroyed'
    BY <1>3 DEF WakesTheDestroyed
  <1>10. m_magic[m] => \/ ret = "NO_ERROR" /\ Woken(me, m, "NO_ERROR")
                       \/ ret = "ERR_TIMED_OUT"
                            /\ by = "mutex_acquire_timeout"
    BY <1>0, <1>3, <1>5 DEF MutexIInv, WaitsToAcquire, Woken
  <1>11. MutexTypeOK' /\ CountsStakes'
    <2>1. /\ m_count' \in [WaitQueue -> Int]
          /\ m_holder' \in [WaitQueue -> Thread \cup {None}]
          /\ held' \in [Thread -> SUBSET WaitQueue]
          /\ acquiring' \in [Thread ->
               [mutex : WaitQueue \cup {None},
                by : {"mutex_acquire", "mutex_acquire_timeout"}]]
      BY <1>1, <1>5, MutexParts DEF NotAcquiring
    <2>2. Cardinality(Stakes(m)') = Cardinality(Stakes(m)) - 1
      BY <1>0, <1>1, <1>5, StakeRemoved, MutexParts DEF MutexIInv
    <2>3. ASSUME NEW n \in WaitQueue, m_magic[n]
          PROVE  m_count'[n] = (IF m_holder'[n] = None THEN 0 ELSE 1)
                                 + Cardinality(Stakes(n)')
      <3>1. CASE n = m /\ ret = "NO_ERROR"
        <4>1. m_holder[m] = None
          BY <1>5, <1>10, <2>3, <3>1 DEF MutexIInv, MutualExclusion
        <4>2. m_count'[m] = m_count[m] /\ m_holder'[m] = me /\ me # None
          BY <1>1, <1>5, <3>1, MutexParts DEF backs_out, takes
        <4> QED BY <2>2, <2>3, <3>1, <4>1, <4>2, CountSays
      <3>2. CASE n = m /\ ret # "NO_ERROR"
        <4>1. m_count'[m] = m_count[m] - 1 /\ m_holder' = m_holder
          BY <1>1, <1>10, <2>3, <3>2, MutexParts DEF backs_out, takes
        <4> QED BY <2>2, <2>3, <3>2, <4>1, CountSays
      <3>3. CASE n # m
        <4>1. Stakes(n)' = Stakes(n)
          BY <1>0, <1>5, <1>6, <3>3, MutexParts, SMTT(30)
          DEF Stakes, NotAcquiring
        <4>2. m_count'[n] = m_count[n] /\ m_holder'[n] = m_holder[n]
          BY <1>1, <1>5, <3>3, MutexParts
        <4> QED BY <2>3, <4>1, <4>2, CountSays
      <3> QED BY <3>1, <3>2, <3>3
    <2>4. CountsStakes'
      BY <1>1, <2>3 DEF CountsStakes, Stakes
    <2>5. ASSUME NEW n \in WaitQueue, m_magic[n] PROVE m_count'[n] >= 0
      BY <2>3, <2>5, StakesFinite
    <2> QED BY <1>1, <2>1, <2>4, <2>5 DEF MutexIInv, MutexTypeOK
  <1>12. MutualExclusion'
    <2>1. \A t \in Thread, n \in WaitQueue :
            Woken(t, n, "NO_ERROR")' <=> Woken(t, n, "NO_ERROR") /\ t # me
      BY <1>3, <1>4, <1>5, <1>6, MutexParts DEF Woken, NotAcquiring
    <2>2. ASSUME NEW n \in WaitQueue, m_magic[n], NEW t \in Thread
          PROVE  n \in held'[t] <=> m_holder'[n] = t
      <3>1. CASE n = m /\ ret = "NO_ERROR"
        <4>1. m_holder[m] = None
          BY <1>5, <1>10, <2>2, <3>1 DEF MutexIInv, MutualExclusion
        <4>2. m \notin held[t]
          BY <2>2, <3>1, <4>1, MutexParts DEF MutexIInv, MutualExclusion
        <4>3. m_holder'[m] = me /\ (m \in held'[t] <=> t = me)
          BY <1>1, <1>5, <3>1, <4>2, MutexParts DEF takes
        <4> QED BY <3>1, <4>3
      <3>2. CASE n = m /\ ret # "NO_ERROR"
        <4>1. m_holder' = m_holder /\ held' = held
          BY <1>1, <1>10, <2>2, <3>2 DEF takes
        <4> QED BY <2>2, <4>1 DEF MutexIInv, MutualExclusion
      <3>3. CASE n # m
        <4>1. m_holder'[n] = m_holder[n]
                /\ (n \in held'[t] <=> n \in held[t])
          BY <1>1, <1>5, <3>3, MutexParts
        <4> QED BY <2>2, <4>1 DEF MutexIInv, MutualExclusion
      <3> QED BY <3>1, <3>2, <3>3
    <2>3. ASSUME NEW n \in WaitQueue, m_magic[n], NEW t \in Thread,
                 Woken(t, n, "NO_ERROR"), t # me
          PROVE  m_holder'[n] = None
      <3>1. m_holder[n] = None
        BY <2>3 DEF MutexIInv, MutualExclusion
      <3>2. CASE n = m
        <4>1. ~Woken(me, m, "NO_ERROR")
          BY <1>5, <2>3, <3>2 DEF MutexIInv, MutualExclusion
        <4>2. m_holder' = m_holder
          BY <1>1, <1>10, <2>3, <3>2, <4>1 DEF takes
        <4> QED BY <3>1, <4>2
      <3>3. CASE n # m
        BY <1>1, <1>5, <3>1, <3>3, MutexParts
      <3> QED BY <3>2, <3>3
    <2> QED BY <1>1, <2>1, <2>2, <2>3 DEF MutexIInv, MutualExclusion
  <1> QED BY <1>2, <1>8, <1>9, <1>11, <1>12 DEF MutexIInv

\* mutex_release gives the mutex to the thread that has waited longest.
LEMMA ReleaseStep ==
  ASSUME MutexIInv, NEW m \in WaitQueue, MutexRelease(m)
  PROVE  MutexIInv'
  <1> DEFINE me == current_thread
             h  == Head(wait_list[m])
             wakes == contended(m) /\ wait_list[m] # <<>>
  <1>1. /\ m_magic[m] /\ m_holder[m] = me
        /\ m_holder' = [m_holder EXCEPT ![m] = None]
        /\ m_count' = [m_count EXCEPT ![m] = @ - 1]
        /\ held' = [held EXCEPT ![me] = @ \ {m}]
        /\ UNCHANGED <<m_magic, acquiring>>
    BY DEF MutexRelease, give_back
  <1>2. wakes => WaitQueueWakeOne(m, TRUE, "NO_ERROR")
    BY DEF MutexRelease, WaitQueueWakeOne
  <1>3. ~wakes => UNCHANGED thread_vars
    BY DEF MutexRelease
  <1>4. ThreadInv /\ ThreadInv'
    <2>1. "NO_ERROR" \in Status
      BY DEF Status
    <2>2. CASE wakes
      BY <1>2, <2>1, <2>2, WakeOneRescheduleStep DEF MutexIInv
    <2>3. CASE ~wakes
      BY <1>3, <2>3, NextInv DEF MutexIInv
    <2> QED BY <2>2, <2>3
  <1>5. wakes => /\ Woke(h, "NO_ERROR") /\ h \in Thread
                 /\ acquiring[h].mutex = m
                 /\ \A t \in Thread : pc'[t] # "wake_all"
    <2>1. "NO_ERROR" \in Status /\ TRUE \in BOOLEAN
      BY DEF Status
    <2>2. ASSUME wakes
          PROVE  /\ Woke(h, "NO_ERROR") /\ h \in Thread
                 /\ blocking_wait_queue[h] = m
                 /\ \A t \in Thread : pc'[t] # "wake_all"
      BY <1>2, <1>4, <2>1, <2>2, WakeOneWakes
    <2>3. wakes => acquiring[h].mutex = m
      BY <2>2 DEF MutexIInv, WaitsToAcquire, Woke
    <2> QED BY <2>2, <2>3
  <1>6. ~wakes => UNCHANGED <<pc, state, timer, blocking_wait_queue,
                              wait_queue_block_ret, waking>>
    BY <1>3 DEF thread_vars, sched_vars, wait_vars
  <1> HIDE DEF wakes, h
  <1>7. me \in Thread
    BY MutexParts
  <1>8. WaitsToAcquire'
    <2>1. CASE wakes
      BY <1>1, <1>5, <2>1 DEF MutexIInv, WaitsToAcquire, Woke
    <2>2. CASE ~wakes
      BY <1>1, <1>6, <2>2 DEF MutexIInv, WaitsToAcquire
    <2> QED BY <2>1, <2>2
  <1>9. WakesTheDestroyed'
    BY <1>1, <1>5, <1>6 DEF MutexIInv, WakesTheDestroyed
  <1>10. MutexTypeOK' /\ CountsStakes'
    <2>1. /\ m_count' \in [WaitQueue -> Int]
          /\ m_holder' \in [WaitQueue -> Thread \cup {None}]
          /\ held' \in [Thread -> SUBSET WaitQueue]
      BY <1>1, MutexParts
    <2>2. ASSUME NEW n \in WaitQueue, m_magic[n]
          PROVE  m_count'[n] = (IF m_holder'[n] = None THEN 0 ELSE 1)
                                 + Cardinality(Stakes(n))
      <3>1. CASE n = m
        <4>1. m_holder[m] # None /\ m_holder'[m] = None
                /\ m_count'[m] = m_count[m] - 1
          BY <1>1, <1>7, MutexParts
        <4> QED BY <1>1, <3>1, <4>1, CountSays
      <3>2. CASE n # m
        <4>1. m_holder'[n] = m_holder[n] /\ m_count'[n] = m_count[n]
          BY <1>1, <3>2, MutexParts
        <4> QED BY <2>2, <4>1, CountSays
      <3> QED BY <3>1, <3>2
    <2>3. CountsStakes'
      BY <1>1, <2>2 DEF CountsStakes, Stakes
    <2>4. ASSUME NEW n \in WaitQueue, m_magic[n] PROVE m_count'[n] >= 0
      BY <2>2, <2>4, StakesFinite
    <2> QED BY <1>1, <2>1, <2>3, <2>4 DEF MutexIInv, MutexTypeOK
  <1>11. MutualExclusion'
    <2>1. ASSUME NEW t \in Thread, NEW n \in WaitQueue, m_magic[n],
                 Woken(t, n, "NO_ERROR")'
          PROVE  \/ n # m /\ Woken(t, n, "NO_ERROR")
                 \/ n = m /\ wakes /\ t = h
      <3>1. CASE wakes /\ t = h
        BY <1>1, <1>5, <2>1, <3>1 DEF Woken
      <3>2. CASE ~(wakes /\ t = h)
        <4>1. Woken(t, n, "NO_ERROR")
          BY <1>1, <1>5, <1>6, <2>1, <3>2 DEF Woken, Woke
        <4>2. m_holder[m] # None
          BY <1>1, <1>7, MutexParts
        <4>3. n # m
          BY <2>1, <4>1, <4>2 DEF MutexIInv, MutualExclusion
        <4> QED BY <4>1, <4>3
      <3> QED BY <3>1, <3>2
    <2>2. ASSUME NEW n \in WaitQueue, m_magic[n], NEW t \in Thread
          PROVE  n \in held'[t] <=> m_holder'[n] = t
      <3>1. CASE n = m
        <4>1. m_holder'[m] = None /\ t # None
          BY <1>1, MutexParts
        <4>2. m \in held[t] => t = me
          BY <1>1, MutexParts DEF MutexIInv, MutualExclusion
        <4>3. m \notin held'[t]
          BY <1>1, <1>7, <4>2, MutexParts
        <4> QED BY <3>1, <4>1, <4>3
      <3>2. CASE n # m
        <4>1. m_holder'[n] = m_holder[n]
                /\ (n \in held'[t] <=> n \in held[t])
          BY <1>1, <1>7, <3>2, MutexParts
        <4> QED BY <2>2, <4>1 DEF MutexIInv, MutualExclusion
      <3> QED BY <3>1, <3>2
    <2>3. \A n \in WaitQueue : m_holder'[n] =
            IF n = m THEN None ELSE m_holder[n]
      BY <1>1, MutexParts
    <2> QED BY <1>1, <2>1, <2>2, <2>3 DEF MutexIInv, MutualExclusion
  <1> QED BY <1>4, <1>8, <1>9, <1>10, <1>11 DEF MutexIInv

\* mutex_destroy leaves the other mutexes alone.
LEMMA DestroyStep ==
  ASSUME MutexIInv, NEW m \in WaitQueue, MutexDestroy(m)
  PROVE  MutexIInv' /\ Undisturbed
  <1>1. /\ m_magic[m] /\ WaitQueueWakeAll(m, TRUE, "ERR_OBJECT_DESTROYED")
        /\ m_magic' = [m_magic EXCEPT ![m] = FALSE]
        /\ m_count' = [m_count EXCEPT ![m] = 0]
        /\ UNCHANGED <<m_holder, acquiring, held>>
    BY DEF MutexDestroy, WaitQueueWakeAll
  <1>2. "ERR_OBJECT_DESTROYED" \in Status /\ TRUE \in BOOLEAN
    BY DEF Status
  <1>3. ThreadInv /\ ThreadInv'
    BY <1>1, <1>2, WakeAllBeginStep DEF MutexIInv
  <1>4. Undisturbed /\ waking'.queue = m
    BY <1>1, <1>2, <1>3, WakeAllBegins
  <1>5. \A n \in WaitQueue :
          /\ m_magic'[n] <=> m_magic[n] /\ n # m
          /\ n # m => m_count'[n] = m_count[n]
    BY <1>1, MutexParts
  <1>6. WaitsToAcquire'
    BY <1>1, <1>4, <1>5, MutexParts
       DEF MutexIInv, WaitsToAcquire, Undisturbed
  <1>7. WakesTheDestroyed'
    BY <1>4, <1>5 DEF WakesTheDestroyed
  <1>8. MutexTypeOK' /\ CountsStakes'
    <2>1. m_magic' \in [WaitQueue -> BOOLEAN]
            /\ m_count' \in [WaitQueue -> Int]
      BY <1>1, MutexParts
    <2> QED BY <1>1, <1>5, <2>1 DEF MutexIInv, MutexTypeOK, CountsStakes
  <1>9. MutualExclusion'
    <2>1. \A t \in Thread, n \in WaitQueue :
            Woken(t, n, "NO_ERROR")' => Woken(t, n, "NO_ERROR")
      BY <1>1, <1>4, MutexParts
         DEF MutexIInv, WaitsToAcquire, Undisturbed, Woken
    <2> QED BY <1>1, <1>5, <2>1 DEF MutexIInv, MutualExclusion
  <1> QED BY <1>3, <1>4, <1>6, <1>7, <1>8, <1>9 DEF MutexIInv

-----------------------------------------------------------------------------
(* The invariant.                                                          *)

\* In the beginning nobody has a stake in any mutex.
LEMMA MutexInitInv == MutexInit => MutexIInv
  <1> SUFFICES ASSUME MutexInit PROVE MutexIInv
    OBVIOUS
  <1>1. ThreadInv
    BY InitInv DEF MutexInit
  <1>2. \A t \in Thread : /\ acquiring[t].mutex = None /\ held[t] = {}
                          /\ acquiring[t].by = "mutex_acquire"
    BY DEF MutexInit, NotAcquiring
  <1>3. \A t \in Thread : /\ pc[t] \in {"boot", "new"}
                          /\ state[t] \in {"RUNNING", "FREE"}
                          /\ timer[t] = "none"
    BY DEF MutexInit, ThreadInit
  <1>4. \A m \in WaitQueue : m_count[m] = 0 /\ m_holder[m] = None
    BY DEF MutexInit
  <1>5. MutexTypeOK
    BY <1>4 DEF MutexInit, MutexTypeOK, NotAcquiring
  <1>6. WaitsToAcquire /\ WakesTheDestroyed
    BY <1>2, <1>3 DEF WaitsToAcquire, WakesTheDestroyed
  <1>7. MutualExclusion
    BY <1>2, <1>4, ThreadAssumption DEF MutualExclusion, Woken
  <1>8. CountsStakes
    <2>1. ASSUME NEW m \in WaitQueue PROVE Cardinality(Stakes(m)) = 0
      <3>1. Stakes(m) = {}
        BY <1>2, ThreadAssumption DEF Stakes
      <3> QED BY <3>1, StakesFinite
    <2> QED BY <1>4, <2>1 DEF CountsStakes, Stakes
  <1> QED BY <1>1, <1>5, <1>6, <1>7, <1>8 DEF MutexIInv

\* The acquires a thread may ask for, one by one.
LEMMA AcquireCases ==
  ASSUME MutexNext
  PROVE  \/ KernelNext /\ UNCHANGED mutex_vars
         \/ \E m \in WaitQueue,
               by \in {"mutex_acquire", "mutex_acquire_timeout"},
               timeout \in {"ZERO", "FINITE", "INFINITE"} :
              /\ timeout = "INFINITE" \/ timeout \in AcquireTimeouts
              /\ timeout = "FINITE" => by = "mutex_acquire_timeout"
              /\ acquire(m, by, timeout)
         \/ AcquireReturn
         \/ \E m \in WaitQueue : MutexRelease(m) \/ MutexDestroy(m)
  <1>1. AcquireTimeouts \subseteq {"ZERO", "FINITE"}
          /\ Destroyable \subseteq WaitQueue
    BY MutexAssumption
  <1>2. ASSUME NEW m \in WaitQueue, MutexAcquire(m)
        PROVE  acquire(m, "mutex_acquire", "INFINITE")
    BY <1>2 DEF MutexAcquire
  <1>3. ASSUME NEW m \in WaitQueue, NEW timeout \in AcquireTimeouts,
               MutexAcquireTimeout(m, timeout)
        PROVE  acquire(m, "mutex_acquire_timeout", timeout)
    BY <1>3 DEF MutexAcquireTimeout
  <1> QED BY <1>1, <1>2, <1>3 DEF MutexNext

\* Every step keeps the invariant.
LEMMA MutexNextInv == MutexIInv /\ [MutexNext]_mutex_all_vars => MutexIInv'
  <1> SUFFICES ASSUME MutexIInv, [MutexNext]_mutex_all_vars
               PROVE  MutexIInv'
    OBVIOUS
  <1>1. CASE KernelNext /\ UNCHANGED mutex_vars
    BY <1>1, KernelKeepsMutexes
  <1>2. ASSUME NEW m \in WaitQueue,
               NEW by \in {"mutex_acquire", "mutex_acquire_timeout"},
               NEW timeout \in {"ZERO", "FINITE", "INFINITE"},
               timeout = "FINITE" => by = "mutex_acquire_timeout",
               acquire(m, by, timeout)
        PROVE  MutexIInv'
    BY <1>2, TakeStep, WaitStep
  <1>3. CASE AcquireReturn
    BY <1>3, ReturnStep
  <1>4. ASSUME NEW m \in WaitQueue, MutexRelease(m) \/ MutexDestroy(m)
        PROVE  MutexIInv'
    BY <1>4, ReleaseStep, DestroyStep
  <1>5. CASE UNCHANGED mutex_all_vars
    <2>1. UNCHANGED thread_vars /\ UNCHANGED mutex_vars
      BY <1>5 DEF mutex_all_vars
    <2>2. ThreadInv'
      BY <2>1, NextInv DEF MutexIInv
    <2> QED BY <2>1, <2>2
            DEF MutexIInv, MutexTypeOK, WaitsToAcquire, WakesTheDestroyed,
                MutualExclusion, CountsStakes, Woken, mutex_vars, thread_vars,
                sched_vars, wait_vars
  <1> QED BY <1>1, <1>2, <1>3, <1>4, <1>5, AcquireCases

\* The code of a mutex moves threads only through the functions of the
\* scheduler and the wait queues.
LEMMA MutexesAreClients ==
  ASSUME [MutexNext]_mutex_all_vars
  PROVE  [ClientNext]_thread_vars
  <1>1. CASE KernelNext \/ AcquireReturn
    BY <1>1 DEF ClientNext, ThreadNext, AcquireReturn
  <1>2. ASSUME NEW m \in WaitQueue, NEW by,
               NEW timeout \in {"ZERO", "FINITE", "INFINITE"},
               acquire(m, by, timeout)
        PROVE  [ClientNext]_thread_vars
    <2>1. \/ timeout # "ZERO" /\ WaitQueueBlock(m, timeout)
          \/ UNCHANGED thread_vars
      BY <1>2 DEF acquire, WaitQueueBlock
    <2> QED BY <2>1 DEF ClientNext, Timeout
  <1>3. ASSUME NEW m \in WaitQueue, MutexRelease(m) \/ MutexDestroy(m)
        PROVE  [ClientNext]_thread_vars
    <2>1. \/ WaitQueueWakeOne(m, TRUE, "NO_ERROR")
          \/ WaitQueueWakeAll(m, TRUE, "ERR_OBJECT_DESTROYED")
          \/ UNCHANGED thread_vars
      BY <1>3 DEF MutexRelease, MutexDestroy, WaitQueueWakeOne,
                  WaitQueueWakeAll
    <2> QED BY <2>1 DEF ClientNext, ThreadNext
  <1>4. CASE UNCHANGED mutex_all_vars
    BY <1>4 DEF mutex_all_vars
  <1> QED BY <1>1, <1>2, <1>3, <1>4, AcquireCases

\* The strengthening is an invariant: the theorems follow from it.
LEMMA MutexKeeps == MutexSpec => []MutexIInv
  BY MutexInitInv, MutexNextInv, PTL DEF MutexSpec

\* The invariant holds, whatever threads call it and however their timers and
\* interrupts fall, up to the first call by a thread that holds a leaked
\* section: the steps of MutexSpec are those of the code.
THEOREM MutexInvariant ==
  ASSUME ~LeakersCall
  PROVE  MutexSpec => [](MutexIInv /\ CallsAreMasked)
  <1>1. MutexInit => CallsAreMasked
    BY InitMasked DEF MutexInit
  <1>2. MutexIInv /\ CallsAreMasked /\ [MutexNext]_mutex_all_vars
          => CallsAreMasked'
    BY MutexesAreClients, NextMasked DEF MutexIInv
  <1> QED BY <1>1, <1>2, MutexInitInv, MutexNextInv, PTL DEF MutexSpec

\* At most one thread believes it holds a mutex, and mutex_t.holder names it.
THEOREM MutexesExclude ==
  ASSUME ~LeakersCall
  PROVE  MutexSpec => []MutexInv
  <1>1. MutexIInv => MutexInv
    BY DEF MutexIInv, MutexInv
  <1> QED BY <1>1, MutexKeeps, PTL

\* mutex_t.count is the number of threads with a stake in the mutex, though
\* it is changed before a wait and after it by whoever runs first.
THEOREM CountsAreStakes ==
  ASSUME ~LeakersCall
  PROVE  MutexSpec => []CountsStakes
  <1>1. MutexIInv => CountsStakes
    BY DEF MutexIInv
  <1> QED BY <1>1, MutexKeeps, PTL

\* So whatever holds of the scheduler under any clients holds under mutexes.
THEOREM MutexesKeepTheScheduler ==
  ASSUME ~LeakersCall
  PROVE  MutexSpec => []KernelInv /\ DispatchesHighest /\ WakeResultSettled
  <1>1. MutexInit => ThreadInit
    BY DEF MutexInit
  <1> QED BY <1>1, MutexesAreClients, SchedulerServesClients, PTL DEF MutexSpec

-----------------------------------------------------------------------------
(* The mutexes as fair locks.                                              *)

\* t holds m, or has been handed it and not run since.
Owns(t, m) == m_magic[m] /\ (m_holder[m] = t \/ Woken(t, m, "NO_ERROR"))

\* t has given up waiting for m and not run since.
Leaves(t, m) == m_magic[m] /\ Woken(t, m, "ERR_TIMED_OUT")

\* The other two variables of the lock, as Mutex maps them.
lock_queue == [m \in WaitQueue |-> IF m_magic[m] THEN wait_list[m] ELSE <<>>]
lock_leaving == [m \in WaitQueue |->
                  {t \in Thread : m_magic[m] /\ Woken(t, m, "ERR_TIMED_OUT")}]

\* The variables of a lock, one mutex at a time.
LockView(owner, queue, leaving) ==
  /\ owner \in [WaitQueue -> Thread \cup {None}]
  /\ queue \in [WaitQueue -> Seq(Thread)]
  /\ leaving \in [WaitQueue -> SUBSET Thread]
  /\ \A m \in WaitQueue :
       /\ \A t \in Thread : /\ owner[m] = t <=> Owns(t, m)
                            /\ t \in leaving[m] <=> Leaves(t, m)
       /\ queue[m] = IF m_magic[m] THEN wait_list[m] ELSE <<>>

\* Of a mutex that exists at most one thread is the owner.
LEMMA OneOwner ==
  MutexIInv => LockView(lock_owner, lock_queue, lock_leaving)
  <1> SUFFICES ASSUME MutexIInv
               PROVE  LockView(lock_owner, lock_queue, lock_leaving)
    OBVIOUS
  <1>1. ASSUME NEW m \in WaitQueue
        PROVE  /\ lock_owner[m] \in Thread \cup {None}
               /\ \A t \in Thread : lock_owner[m] = t <=> Owns(t, m)
    <2>1. CASE ~m_magic[m]
      BY <2>1, MutexParts DEF lock_owner, Owns
    <2>2. CASE m_magic[m] /\ m_holder[m] # None
      <3>1. \A t \in Thread : ~Woken(t, m, "NO_ERROR")
        BY <2>2 DEF MutexIInv, MutualExclusion
      <3>2. lock_owner[m] = m_holder[m]
        BY <2>2 DEF lock_owner
      <3> QED BY <2>2, <3>1, <3>2, MutexParts DEF Owns
    <2>3. CASE m_magic[m] /\ m_holder[m] = None
      <3>1. CASE \E t \in Thread : Woken(t, m, "NO_ERROR")
        <4> DEFINE o == CHOOSE t \in Thread : Woken(t, m, "NO_ERROR")
        <4>1. o \in Thread /\ Woken(o, m, "NO_ERROR")
          BY <3>1
        <4>2. lock_owner[m] = o
          BY <2>3, <3>1 DEF lock_owner
        <4> HIDE DEF o
        <4>3. \A t \in Thread : Woken(t, m, "NO_ERROR") <=> t = o
          BY <2>3, <4>1 DEF MutexIInv, MutualExclusion
        <4> QED BY <2>3, <4>1, <4>2, <4>3, MutexParts DEF Owns
      <3>2. CASE ~ \E t \in Thread : Woken(t, m, "NO_ERROR")
        <4>1. lock_owner[m] = None
          BY <2>3, <3>2 DEF lock_owner
        <4> QED BY <2>3, <3>2, <4>1, MutexParts DEF Owns
      <3> QED BY <3>1, <3>2
    <2> QED BY <2>1, <2>2, <2>3
  <1>2. lock_owner \in [WaitQueue -> Thread \cup {None}]
    <2>1. lock_owner = [m \in WaitQueue |-> lock_owner[m]]
      BY DEF lock_owner
    <2> QED BY <1>1, <2>1
  <1>3. wait_list \in [WaitQueue -> Seq(Thread)]
    BY MutexParts, Parts DEF OthersTyped, WaitLists
  <1>4. /\ lock_queue \in [WaitQueue -> Seq(Thread)]
        /\ lock_leaving \in [WaitQueue -> SUBSET Thread]
        /\ \A m \in WaitQueue :
             /\ \A t \in Thread : t \in lock_leaving[m] <=> Leaves(t, m)
             /\ lock_queue[m] = IF m_magic[m] THEN wait_list[m] ELSE <<>>
    BY <1>3 DEF lock_queue, lock_leaving, Leaves
  <1> QED BY <1>1, <1>2, <1>4 DEF LockView

LEMMA OneOwnerNext ==
  MutexIInv' => LockView(lock_owner, lock_queue, lock_leaving)'
  BY OneOwner, PTL

\* A step that is nothing to whoever uses m.
SameLock(m) ==
  /\ m_magic'[m] = m_magic[m]
  /\ m_magic[m] => wait_list'[m] = wait_list[m]
  /\ \A t \in Thread : /\ Owns(t, m)' <=> Owns(t, m)
                       /\ Leaves(t, m)' <=> Leaves(t, m)

\* Whatever the step, the variables of the locks are functions; they are the
\* same where it is nothing to the users.
LEMMA LocksSame ==
  ASSUME MutexIInv, MutexIInv'
  PROVE  /\ lock_owner \in [WaitQueue -> Thread \cup {None}]
         /\ lock_queue \in [WaitQueue -> Seq(Thread)]
         /\ lock_leaving \in [WaitQueue -> SUBSET Thread]
         /\ lock_owner' \in [WaitQueue -> Thread \cup {None}]
         /\ lock_queue' \in [WaitQueue -> Seq(Thread)]
         /\ lock_leaving' \in [WaitQueue -> SUBSET Thread]
         /\ \A m \in WaitQueue : SameLock(m) =>
              /\ lock_owner'[m] = lock_owner[m]
              /\ lock_queue'[m] = lock_queue[m]
              /\ lock_leaving'[m] = lock_leaving[m]
  <1>1. LockView(lock_owner, lock_queue, lock_leaving)
          /\ LockView(lock_owner, lock_queue, lock_leaving)'
    BY OneOwner, OneOwnerNext
  <1>2. /\ lock_owner \in [WaitQueue -> Thread \cup {None}]
        /\ lock_queue \in [WaitQueue -> Seq(Thread)]
        /\ lock_leaving \in [WaitQueue -> SUBSET Thread]
        /\ lock_owner' \in [WaitQueue -> Thread \cup {None}]
        /\ lock_queue' \in [WaitQueue -> Seq(Thread)]
        /\ lock_leaving' \in [WaitQueue -> SUBSET Thread]
    BY <1>1 DEF LockView
  <1>3. ASSUME NEW m \in WaitQueue, SameLock(m)
        PROVE  /\ lock_owner'[m] = lock_owner[m]
               /\ lock_queue'[m] = lock_queue[m]
               /\ lock_leaving'[m] = lock_leaving[m]
    <2>1. \A t \in Thread :
            /\ lock_owner'[m] = t <=> lock_owner[m] = t
            /\ t \in lock_leaving'[m] <=> t \in lock_leaving[m]
      BY <1>1, <1>3 DEF LockView, SameLock
    <2>2. lock_owner'[m] \in Thread \cup {None}
            /\ lock_owner[m] \in Thread \cup {None}
      BY <1>2
    <2>3. lock_owner'[m] = lock_owner[m]
      BY <2>1, <2>2
    <2>4. lock_leaving'[m] = lock_leaving[m]
      BY <1>2, <2>1
    <2>5. lock_queue'[m] = lock_queue[m]
      BY <1>1, <1>3 DEF LockView, SameLock
    <2> QED BY <2>3, <2>4, <2>5
  <1> QED BY <1>2, <1>3

\* A step that is something to the users of m at most.
LEMMA LockStep ==
  ASSUME MutexIInv, MutexIInv', NEW m \in WaitQueue,
         \A n \in WaitQueue : n # m => SameLock(n)
  PROVE  /\ lock_owner' = [lock_owner EXCEPT ![m] = lock_owner'[m]]
         /\ lock_queue' = [lock_queue EXCEPT ![m] = lock_queue'[m]]
         /\ lock_leaving' = [lock_leaving EXCEPT ![m] = lock_leaving'[m]]
         /\ lock_owner'[m] = lock_owner[m] => UNCHANGED lock_owner
         /\ lock_queue'[m] = lock_queue[m] => UNCHANGED lock_queue
         /\ lock_leaving'[m] = lock_leaving[m] => UNCHANGED lock_leaving
  BY LocksSame

\* A step that is nothing to anybody.
LEMMA NoLockStep ==
  ASSUME MutexIInv, MutexIInv', \A n \in WaitQueue : SameLock(n)
  PROVE  UNCHANGED <<lock_owner, lock_queue, lock_leaving>>
  BY LocksSame

\* The threads BLOCKED in an acquire of m are those in its wait queue.
LEMMA WhoWaits ==
  ASSUME MutexIInv, NEW m \in WaitQueue
  PROVE  /\ wait_list[m] \in Seq(Thread) /\ IsInjective(wait_list[m])
         /\ \A t \in Thread :
              (state[t] = "BLOCKED" /\ acquiring[t].mutex = m) <=>
                \E i \in DOMAIN wait_list[m] : wait_list[m][i] = t
  <1>1. /\ wait_list[m] \in Seq(Thread) /\ IsInjective(wait_list[m])
        /\ Range(wait_list[m]) =
             {t \in Thread : state[t] = "BLOCKED"
                               /\ blocking_wait_queue[t] = m}
    BY MutexParts, Parts DEF Waiting, OthersTyped, WaitLists
  <1>2. \A t : t \in Range(wait_list[m]) <=>
                 \E i \in DOMAIN wait_list[m] : wait_list[m][i] = t
    BY DEF Range
  <1>3. \A t \in Thread : state[t] = "BLOCKED" =>
          blocking_wait_queue[t] = acquiring[t].mutex
    BY DEF MutexIInv, WaitsToAcquire
  <1> QED BY <1>1, <1>2, <1>3

\* A thread with a stake in m waits, has been handed m, or has given up.
LEMMA WhoHasAStake ==
  ASSUME MutexIInv, NEW m \in WaitQueue, m_magic[m], NEW t \in Thread,
         acquiring[t].mutex = m
  PROVE  \/ \E i \in DOMAIN wait_list[m] : wait_list[m][i] = t
         \/ Owns(t, m)
         \/ Leaves(t, m)
  BY WhoWaits, MutexParts DEF MutexIInv, WaitsToAcquire, Owns, Leaves, Woken

\* A step that disturbs no wait is nothing to the users of a mutex it leaves
\* alone.
LEMMA UndisturbedLock ==
  ASSUME MutexIInv, NEW n \in WaitQueue, Undisturbed, UNCHANGED acquiring,
         m_magic'[n] = m_magic[n], m_holder'[n] = m_holder[n]
  PROVE  SameLock(n)
  <1>1. \A t \in Thread : \A result :
          Woken(t, n, result)' <=> Woken(t, n, result)
    BY MutexParts DEF MutexIInv, WaitsToAcquire, Undisturbed, Woken
  <1> QED BY <1>1 DEF SameLock, Owns, Leaves, Undisturbed

\* A step that wakes a thread from another mutex, too.
LEMMA WokeLock ==
  ASSUME MutexIInv, NEW n \in WaitQueue, NEW t \in Thread, NEW error,
         Woke(t, error), acquiring[t].mutex # n, UNCHANGED acquiring,
         m_magic'[n] = m_magic[n], m_holder'[n] = m_holder[n],
         wait_list'[n] = wait_list[n]
  PROVE  SameLock(n)
  <1>1. \A u \in Thread : \A result :
          Woken(u, n, result)' <=> Woken(u, n, result)
    BY MutexParts DEF MutexIInv, WaitsToAcquire, Woke, Woken
  <1> QED BY <1>1 DEF SameLock, Owns, Leaves

\* The actions of the lock, on the variables Mutex gives it.
LEMMA LockActions ==
  ASSUME NEW m, NEW c
  PROVE  /\ Fifo!Free(m) <=> /\ lock_owner[m] = None /\ lock_queue[m] = <<>>
                             /\ lock_leaving[m] = {}
         /\ Fifo!Take(m, c) <=>
              /\ Fifo!Free(m)
              /\ lock_owner' = [lock_owner EXCEPT ![m] = c]
              /\ UNCHANGED <<lock_queue, lock_leaving>>
         /\ Fifo!InQueue(m, c) <=>
              \E i \in DOMAIN lock_queue[m] : lock_queue[m][i] = c
         /\ Fifo!Enqueue(m, c) <=>
              /\ ~Fifo!Free(m) /\ lock_owner[m] # c /\ ~Fifo!InQueue(m, c)
              /\ c \notin lock_leaving[m]
              /\ lock_queue' = [lock_queue EXCEPT ![m] = Append(@, c)]
              /\ UNCHANGED <<lock_owner, lock_leaving>>
         /\ Fifo!GiveUp(m, c) <=>
              /\ \E i \in DOMAIN lock_queue[m] :
                   /\ lock_queue[m][i] = c
                   /\ lock_queue' =
                        [lock_queue EXCEPT ![m] = SubSeq(@, 1, i - 1)
                                                    \o SubSeq(@, i + 1, Len(@))]
              /\ lock_leaving' = [lock_leaving EXCEPT ![m] = @ \cup {c}]
              /\ UNCHANGED lock_owner
         /\ Fifo!Leave(m, c) <=>
              /\ c \in lock_leaving[m]
              /\ lock_leaving' = [lock_leaving EXCEPT ![m] = @ \ {c}]
              /\ UNCHANGED <<lock_owner, lock_queue>>
         /\ Fifo!Release(m) <=>
              /\ lock_owner[m] # None
              /\ IF lock_queue[m] = <<>>
                 THEN /\ lock_owner' = [lock_owner EXCEPT ![m] = None]
                      /\ UNCHANGED lock_queue
                 ELSE /\ lock_owner' =
                           [lock_owner EXCEPT ![m] = Head(lock_queue[m])]
                      /\ lock_queue' = [lock_queue EXCEPT ![m] = Tail(@)]
              /\ UNCHANGED lock_leaving
         /\ Fifo!Destroy(m) <=>
              /\ lock_owner' = [lock_owner EXCEPT ![m] = None]
              /\ lock_queue' = [lock_queue EXCEPT ![m] = <<>>]
              /\ lock_leaving' = [lock_leaving EXCEPT ![m] = {}]
  BY DEF Fifo!Free, Fifo!Take, Fifo!InQueue, Fifo!Enqueue, Fifo!GiveUp,
         Fifo!Leave, Fifo!Release, Fifo!Destroy, lock_queue, lock_leaving

\* What the users of a lock see of a step.
LockQuiet == UNCHANGED <<lock_owner, lock_queue, lock_leaving>>

\* The kernel moves a lock only when a thread BLOCKED on it times out.
LEMMA KernelLocks ==
  ASSUME MutexIInv, MutexIInv', KernelNext, UNCHANGED mutex_vars
  PROVE  \/ LockQuiet
         \/ \E m \in WaitQueue, t \in Thread :
              timer[t] = "wait" /\ Fifo!GiveUp(m, t)
  <1>1. ThreadInv /\ ThreadInv'
    BY DEF MutexIInv
  <1>2. UNCHANGED <<m_magic, m_holder, acquiring>>
    BY DEF mutex_vars
  <1>3. CASE Undisturbed
    BY <1>2, <1>3, UndisturbedLock, NoLockStep DEF LockQuiet
  <1>4. ASSUME NEW t \in Thread, state[t] = "BLOCKED", WaitTimer(t)
        PROVE  \/ LockQuiet
               \/ \E m \in WaitQueue : timer[t] = "wait" /\ Fifo!GiveUp(m, t)
    <2>1. PICK m : m = acquiring[t].mutex
      OBVIOUS
    <2>2. /\ Woke(t, "ERR_TIMED_OUT") /\ timer[t] = "wait" /\ m \in WaitQueue
          /\ wait_list' = [wait_list EXCEPT ![m] = list_delete(@, t)]
      BY <1>1, <1>4, <2>1, TimerWakes DEF MutexIInv, WaitsToAcquire
    <2>3. wait_list \in [WaitQueue -> Seq(Thread)]
      BY <1>1, Parts DEF OthersTyped, WaitLists
    <2>4. ASSUME NEW n \in WaitQueue, n # m PROVE SameLock(n)
      BY <1>2, <2>1, <2>2, <2>3, <2>4, WokeLock
    <2>5. CASE ~m_magic[m]
      <3>1. SameLock(m)
        BY <1>2, <2>5 DEF SameLock, Owns, Leaves
      <3> QED BY <2>4, <3>1, NoLockStep DEF LockQuiet
    <2>6. CASE m_magic[m]
      <3>1. PICK i \in DOMAIN wait_list[m] : wait_list[m][i] = t
        BY <1>4, <2>1, <2>2, WhoWaits
      <3>2. list_delete(wait_list[m], t)
              = SubSeq(wait_list[m], 1, i - 1)
                  \o SubSeq(wait_list[m], i + 1, Len(wait_list[m]))
        BY <2>2, <3>1, WhoWaits, DeleteCuts, ZenonT(60)
      <3>3. lock_queue[m] = wait_list[m] /\ lock_queue'[m] = wait_list'[m]
        BY <1>2, <2>2, <2>6 DEF lock_queue
      <3>4. lock_queue' = [lock_queue EXCEPT ![m] =
                             SubSeq(@, 1, i - 1) \o SubSeq(@, i + 1, Len(@))]
        BY <2>2, <2>3, <2>4, <3>2, <3>3, LockStep, LocksSame
      <3>5. \A u \in Thread :
              /\ Woken(u, m, "NO_ERROR")' <=> Woken(u, m, "NO_ERROR")
              /\ Woken(u, m, "ERR_TIMED_OUT")' <=>
                   Woken(u, m, "ERR_TIMED_OUT") \/ u = t
        BY <1>2, <1>4, <2>1, <2>2, MutexParts
           DEF MutexIInv, WaitsToAcquire, Woke, Woken
      <3>6. \A u \in Thread : /\ Owns(u, m)' <=> Owns(u, m)
                              /\ Leaves(u, m)' <=> Leaves(u, m) \/ u = t
        BY <1>2, <2>6, <3>5 DEF Owns, Leaves
      <3>7. /\ \A u \in Thread : lock_owner'[m] = u <=> lock_owner[m] = u
            /\ \A u \in Thread : u \in lock_leaving'[m] <=>
                                   u \in lock_leaving[m] \/ u = t
        BY <2>2, <3>6, OneOwner, OneOwnerNext DEF LockView
      <3>8. lock_owner'[m] \in Thread \cup {None}
              /\ lock_owner[m] \in Thread \cup {None}
        BY <2>2, LocksSame
      <3>9. lock_owner'[m] = lock_owner[m]
        BY <3>7, <3>8
      <3>10. lock_owner' = lock_owner
        BY <2>4, <3>9, LockStep, LocksSame
      <3>11. lock_leaving'[m] = lock_leaving[m] \cup {t}
        BY <2>2, <3>7, LocksSame
      <3>12. lock_leaving' = [lock_leaving EXCEPT ![m] = @ \cup {t}]
        BY <2>2, <2>4, <3>11, LockStep, LocksSame
      <3> QED BY <2>2, <3>1, <3>3, <3>4, <3>10, <3>12, LockActions
    <2> QED BY <2>5, <2>6
  <1>5. CASE WakeAllStep
    <2> DEFINE t == Head(wait_list[waking.queue])
    <2>1. /\ pc[current_thread] = "wake_all" /\ t \in Thread
          /\ Woke(t, waking.error)
          /\ blocking_wait_queue[t] = waking.queue
          /\ wait_list' = [wait_list EXCEPT ![waking.queue] = Tail(@)]
      BY <1>1, <1>5, WakeAllWakes
    <2> HIDE DEF t
    <2>2. acquiring[t].mutex = waking.queue /\ ~m_magic[waking.queue]
      BY <2>1, MutexParts DEF MutexIInv, WakesTheDestroyed, WaitsToAcquire, Woke
    <2>3. wait_list \in [WaitQueue -> Seq(Thread)]
      BY <1>1, Parts DEF OthersTyped, WaitLists
    <2>4. ASSUME NEW n \in WaitQueue PROVE SameLock(n)
      <3>1. CASE n = waking.queue
        BY <1>2, <2>2, <3>1 DEF SameLock, Owns, Leaves
      <3>2. CASE n # waking.queue
        BY <1>2, <2>1, <2>2, <2>3, <3>2, WokeLock
      <3> QED BY <3>1, <3>2
    <2> QED BY <2>4, NoLockStep DEF LockQuiet
  <1>6. WaitersExist
    BY DEF MutexIInv, WaitsToAcquire, WaitersExist
  <1> QED BY <1>1, <1>3, <1>4, <1>5, <1>6, CallsUndisturbed, StepsUndisturbed
          DEF KernelNext

\* An uncontended acquire takes a lock that is free.
LEMMA TakeLock ==
  ASSUME MutexIInv, MutexIInv', NEW m \in WaitQueue, NEW by, NEW timeout,
         acquire(m, by, timeout), uncontended(m)
  PROVE  Fifo!Take(m, current_thread)
  <1> DEFINE me == current_thread
  <1>1. /\ m_magic[m] /\ m_holder' = [m_holder EXCEPT ![m] = me]
        /\ UNCHANGED <<thread_vars, acquiring, m_magic>>
    BY DEF acquire
  <1>2. UNCHANGED <<state, wait_list, wait_queue_block_ret>>
    BY <1>1 DEF thread_vars, sched_vars, wait_vars
  <1>3. me \in Thread /\ m_holder[m] = None /\ Stakes(m) = {}
    BY <1>1, MutexParts, CountSays
  <1>4. \A t \in Thread, n \in WaitQueue : \A result :
          Woken(t, n, result)' <=> Woken(t, n, result)
    BY <1>1, <1>2 DEF Woken
  <1>5. ASSUME NEW n \in WaitQueue, n # m PROVE SameLock(n)
    BY <1>1, <1>2, <1>4, <1>5, MutexParts DEF SameLock, Owns, Leaves
  <1>6. wait_list[m] = <<>> /\ \A t \in Thread : \A result : ~Woken(t, m, result)
    BY <1>3, WhoWaits DEF Stakes, Woken
  <1>7. \A t \in Thread : /\ ~Owns(t, m) /\ ~Leaves(t, m) /\ ~Leaves(t, m)'
                          /\ Owns(t, m)' <=> t = me
    BY <1>1, <1>3, <1>4, <1>6, MutexParts DEF Owns, Leaves
  <1>8. /\ \A t \in Thread : /\ lock_owner[m] # t
                             /\ lock_owner'[m] = t <=> t = me
                             /\ t \notin lock_leaving[m]
                             /\ t \notin lock_leaving'[m]
        /\ lock_queue[m] = <<>> /\ lock_queue'[m] = <<>>
    BY <1>1, <1>2, <1>6, <1>7, OneOwner, OneOwnerNext DEF LockView
  <1>9. /\ lock_owner[m] \in Thread \cup {None}
        /\ lock_leaving[m] \subseteq Thread /\ lock_leaving'[m] \subseteq Thread
    BY LocksSame
  <1>10. /\ lock_owner[m] = None /\ lock_owner'[m] = me
         /\ lock_leaving[m] = {} /\ lock_leaving'[m] = {}
    <2>1. lock_owner[m] = None
      BY <1>8, <1>9
    <2>2. lock_leaving[m] = {} /\ lock_leaving'[m] = {}
      BY <1>8, <1>9
    <2> QED BY <1>3, <1>8, <2>1, <2>2
  <1>11. /\ lock_owner' = [lock_owner EXCEPT ![m] = me]
         /\ UNCHANGED <<lock_queue, lock_leaving>>
    <2>1. lock_owner' = [lock_owner EXCEPT ![m] = me]
      BY <1>5, <1>10, LockStep
    <2>2. lock_queue' = lock_queue /\ lock_leaving' = lock_leaving
      BY <1>5, <1>8, <1>10, LockStep
    <2> QED BY <2>1, <2>2
  <1> QED BY <1>8, <1>10, <1>11, LockActions

\* A contended acquire joins the queue of a lock that is not free.
LEMMA WaitLock ==
  ASSUME MutexIInv, MutexIInv', NEW m \in WaitQueue,
         NEW by, NEW timeout, acquire(m, by, timeout), ~uncontended(m),
         Blocked(m, timeout),
         wait_list' = [wait_list EXCEPT ![m] = Append(@, current_thread)]
  PROVE  \E t \in Thread : Fifo!Enqueue(m, t)
  <1> DEFINE me == current_thread
  <1>1. /\ m_magic[m] /\ pc[me] = "user" /\ m_holder[m] # me
        /\ acquiring' = [acquiring EXCEPT ![me] = [mutex |-> m, by |-> by]]
        /\ UNCHANGED <<m_magic, m_holder>>
    BY DEF acquire, Calling
  <1>2. me \in Thread /\ acquiring[me].mutex = None
    BY <1>1, MutexParts DEF MutexIInv, WaitsToAcquire
  <1>3. wait_list \in [WaitQueue -> Seq(Thread)]
    BY MutexParts, Parts DEF OthersTyped, WaitLists
  <1>4. ASSUME NEW n \in WaitQueue, NEW t \in Thread, NEW result
        PROVE  Woken(t, n, result)' <=> Woken(t, n, result)
    <2>1. CASE t = me
      <3>1. ~Woken(me, n, result)
        BY <1>2, MutexParts DEF Woken
      <3>2. state'[me] = "BLOCKED"
        BY <1>2 DEF Blocked
      <3> QED BY <2>1, <3>1, <3>2 DEF Woken
    <2>2. CASE t # me
      <3>1. acquiring'[t] = acquiring[t]
        BY <1>1, <2>2, MutexParts
      <3> QED BY <2>2, <3>1 DEF Blocked, Woken
    <2> QED BY <2>1, <2>2
  <1>5. \A n \in WaitQueue, t \in Thread :
          /\ Owns(t, n)' <=> Owns(t, n)
          /\ Leaves(t, n)' <=> Leaves(t, n)
    BY <1>1, <1>4 DEF Owns, Leaves
  <1>6. ASSUME NEW n \in WaitQueue, n # m PROVE SameLock(n)
    BY <1>1, <1>3, <1>5, <1>6 DEF SameLock
  <1>7. /\ \A t \in Thread :
             /\ lock_owner'[m] = t <=> lock_owner[m] = t
             /\ t \in lock_leaving'[m] <=> t \in lock_leaving[m]
             /\ lock_owner[m] = t <=> Owns(t, m)
             /\ t \in lock_leaving[m] <=> Leaves(t, m)
        /\ lock_queue[m] = wait_list[m]
        /\ lock_queue'[m] = Append(wait_list[m], me)
    BY <1>1, <1>3, <1>5, OneOwner, OneOwnerNext DEF LockView
  <1>8. lock_owner'[m] \in Thread \cup {None}
          /\ lock_owner[m] \in Thread \cup {None}
    BY LocksSame
  <1>9. lock_owner'[m] = lock_owner[m]
    BY <1>7, <1>8
  <1>10. lock_leaving'[m] = lock_leaving[m]
    BY <1>7, LocksSame
  <1>11. /\ UNCHANGED <<lock_owner, lock_leaving>>
         /\ lock_queue' = [lock_queue EXCEPT ![m] = Append(@, me)]
    BY <1>6, <1>7, <1>9, <1>10, LockStep, LocksSame
  <1>12. ~(lock_owner[m] = None /\ lock_queue[m] = <<>> /\ lock_leaving[m] = {})
    <2>1. CASE m_holder[m] # None
      <3>1. Owns(m_holder[m], m) /\ m_holder[m] \in Thread
        BY <1>1, <2>1, MutexParts DEF Owns
      <3>2. lock_owner[m] = m_holder[m]
        BY <1>7, <3>1
      <3> QED BY <2>1, <3>2
    <2>2. CASE m_holder[m] = None
      <3>1. PICK t \in Thread : acquiring[t].mutex = m
        BY <1>1, <2>2, CountSays, ZenonT(60) DEF Stakes
      <3>2. \/ \E i \in DOMAIN wait_list[m] : wait_list[m][i] = t
            \/ Owns(t, m) \/ Leaves(t, m)
        BY <1>1, <3>1, WhoHasAStake
      <3>3. CASE \E i \in DOMAIN wait_list[m] : wait_list[m][i] = t
        BY <1>7, <3>3
      <3>4. CASE Owns(t, m)
        <4>1. lock_owner[m] = t /\ t # None
          BY <1>7, <3>4, MutexParts
        <4> QED BY <4>1
      <3>5. CASE Leaves(t, m)
        BY <1>7, <3>5
      <3> QED BY <3>2, <3>3, <3>4, <3>5
    <2> QED BY <2>1, <2>2
  <1>13. /\ ~Owns(me, m) /\ ~Leaves(me, m)
         /\ ~ \E i \in DOMAIN wait_list[m] : wait_list[m][i] = me
    BY <1>1, <1>2, WhoWaits, MutexParts DEF Owns, Leaves, Woken
  <1>14. ~Fifo!Free(m) /\ ~Fifo!InQueue(m, me)
    BY <1>7, <1>12, <1>13, LockActions
  <1>15. lock_owner[m] # me /\ me \notin lock_leaving[m]
    BY <1>2, <1>7, <1>13
  <1>16. PICK t \in Thread : t = me
    BY <1>2
  <1>17. Fifo!Enqueue(m, t)
    BY <1>11, <1>14, <1>15, <1>16
       DEF Fifo!Enqueue, Fifo!InQueue, lock_queue, lock_leaving
  <1> QED BY <1>17

\* An acquire that returns takes what it was handed, or leaves.
LEMMA ReturnLock ==
  ASSUME MutexIInv, MutexIInv', AcquireReturn
  PROVE  LockQuiet \/ \E m \in WaitQueue : Fifo!Leave(m, current_thread)
  <1> DEFINE me == current_thread
  <1>1. PICK m, by, ret : /\ m = acquiring[me].mutex /\ by = acquiring[me].by
                          /\ ret = wait_queue_block_ret[me]
    OBVIOUS
  <1>2. /\ wait_queue_block_return
        /\ m_holder' = IF takes(by, ret)
                       THEN [m_holder EXCEPT ![m] = me] ELSE m_holder
        /\ acquiring' = [acquiring EXCEPT ![me] = NotAcquiring]
        /\ UNCHANGED m_magic
    BY <1>1 DEF AcquireReturn
  <1>3. /\ pc[me] = "wait" /\ state[me] # "BLOCKED"
        /\ UNCHANGED <<state, wait_vars>>
    BY <1>2, BlockReturns DEF MutexIInv
  <1>4. UNCHANGED <<state, wait_list, wait_queue_block_ret>>
    BY <1>3 DEF wait_vars
  <1>5. me \in Thread /\ m \in WaitQueue
    BY <1>1, <1>3, MutexParts DEF MutexIInv, WaitsToAcquire
  <1>6. \A u \in Thread : acquiring'[u] = IF u = me THEN NotAcquiring
                                          ELSE acquiring[u]
    BY <1>2, MutexParts
  <1>7. \A t \in Thread, n \in WaitQueue : \A result :
          Woken(t, n, result)' <=> Woken(t, n, result) /\ t # me
    BY <1>4, <1>6, MutexParts DEF Woken, NotAcquiring
  <1>8. \A n \in WaitQueue : \A result : Woken(me, n, result) <=>
                                       n = m /\ result = ret
    BY <1>1, <1>3 DEF Woken
  <1>9. ASSUME NEW n \in WaitQueue, n # m PROVE SameLock(n)
    <2>1. m_holder'[n] = m_holder[n]
      BY <1>2, <1>5, <1>9, MutexParts
    <2>2. \A t \in Thread : \A result :
            Woken(t, n, result)' <=> Woken(t, n, result)
      BY <1>7, <1>8, <1>9
    <2> QED BY <1>2, <1>4, <2>1, <2>2 DEF SameLock, Owns, Leaves
  <1>10. CASE ~m_magic[m]
    <2>1. SameLock(m)
      BY <1>2, <1>10 DEF SameLock, Owns, Leaves
    <2> QED BY <1>9, <2>1, NoLockStep DEF LockQuiet
  <1>11. CASE m_magic[m] /\ ret = "NO_ERROR"
    <2>1. m_holder[m] = None /\ \A t \in Thread :
                                   Woken(t, m, "NO_ERROR") <=> t = me
      BY <1>5, <1>8, <1>11 DEF MutexIInv, MutualExclusion
    <2>2. m_holder'[m] = me
      BY <1>2, <1>5, <1>11, MutexParts DEF takes
    <2>3. \A t \in Thread : /\ Owns(t, m)' <=> t = me
                            /\ Owns(t, m) <=> t = me
                            /\ Leaves(t, m)' <=> Leaves(t, m)
      BY <1>2, <1>5, <1>7, <1>8, <1>11, <2>1, <2>2, MutexParts
         DEF Owns, Leaves
    <2>4. SameLock(m)
      BY <1>2, <1>4, <2>3 DEF SameLock
    <2> QED BY <1>9, <2>4, NoLockStep DEF LockQuiet
  <1>12. CASE m_magic[m] /\ ret # "NO_ERROR"
    <2>1. ret = "ERR_TIMED_OUT" /\ by = "mutex_acquire_timeout"
      BY <1>1, <1>3, <1>5, <1>12 DEF MutexIInv, WaitsToAcquire
    <2>2. m_holder' = m_holder
      BY <1>2, <2>1 DEF takes
    <2>3. \A t \in Thread : /\ Owns(t, m)' <=> Owns(t, m)
                            /\ Leaves(t, m)' <=> Leaves(t, m) /\ t # me
      BY <1>2, <1>5, <1>7, <1>8, <1>12, <2>2 DEF Owns, Leaves
    <2>4. Leaves(me, m)
      BY <1>5, <1>8, <1>12, <2>1 DEF Leaves
    <2>5. /\ \A t \in Thread :
               /\ lock_owner'[m] = t <=> lock_owner[m] = t
               /\ t \in lock_leaving'[m] <=> t \in lock_leaving[m] /\ t # me
          /\ me \in lock_leaving[m]
          /\ lock_queue'[m] = lock_queue[m]
      BY <1>2, <1>4, <1>5, <2>3, <2>4, OneOwner, OneOwnerNext DEF LockView
    <2>6. /\ lock_owner'[m] \in Thread \cup {None}
          /\ lock_owner[m] \in Thread \cup {None}
          /\ lock_leaving[m] \subseteq Thread /\ lock_leaving'[m] \subseteq Thread
      BY <1>5, LocksSame
    <2>7. lock_owner'[m] = lock_owner[m]
      BY <2>5, <2>6
    <2>8. lock_leaving'[m] = lock_leaving[m] \ {me}
      BY <2>5, <2>6
    <2>9. /\ lock_leaving' = [lock_leaving EXCEPT ![m] = @ \ {me}]
          /\ UNCHANGED <<lock_owner, lock_queue>>
      BY <1>5, <1>9, <2>5, <2>7, <2>8, LockStep
    <2>10. Fifo!Leave(m, me)
      BY <2>5, <2>9 DEF Fifo!Leave, lock_queue, lock_leaving
    <2> QED BY <1>5, <2>10
  <1> QED BY <1>10, <1>11, <1>12

\* A release hands the lock to the thread that has waited longest, if any.
LEMMA ReleaseLock ==
  ASSUME MutexIInv, MutexIInv', NEW m \in WaitQueue, MutexRelease(m)
  PROVE  Fifo!Release(m)
  <1> DEFINE me == current_thread
             h  == Head(wait_list[m])
             wakes == contended(m) /\ wait_list[m] # <<>>
  <1>1. /\ m_magic[m] /\ m_holder[m] = me
        /\ m_holder' = [m_holder EXCEPT ![m] = None]
        /\ UNCHANGED <<m_magic, acquiring>>
    BY DEF MutexRelease, give_back
  <1>2. wakes => WaitQueueWakeOne(m, TRUE, "NO_ERROR")
    BY DEF MutexRelease, WaitQueueWakeOne
  <1>3. ~wakes => UNCHANGED thread_vars
    BY DEF MutexRelease
  <1>4. me \in Thread /\ m_holder'[m] = None /\ me # None
    BY <1>1, MutexParts
  <1>5. wait_list \in [WaitQueue -> Seq(Thread)]
    BY MutexParts, Parts DEF OthersTyped, WaitLists
  <1>6. \A t \in Thread : ~Woken(t, m, "NO_ERROR")
    BY <1>1, <1>4 DEF MutexIInv, MutualExclusion
  <1>7. lock_owner[m] = me /\ lock_queue[m] = wait_list[m]
    BY <1>1, <1>4, OneOwner DEF LockView, Owns
  <1>8. CASE wait_list[m] = <<>>
    <2>1. UNCHANGED <<state, wait_list, wait_queue_block_ret>>
      BY <1>3, <1>8 DEF thread_vars, sched_vars, wait_vars
    <2>2. \A t \in Thread, n \in WaitQueue : \A result :
            Woken(t, n, result)' <=> Woken(t, n, result)
      BY <1>1, <2>1 DEF Woken
    <2>3. ASSUME NEW n \in WaitQueue, n # m PROVE SameLock(n)
      BY <1>1, <2>1, <2>2, <2>3, MutexParts DEF SameLock, Owns, Leaves
    <2>4. \A t \in Thread : ~Owns(t, m)' /\ (Leaves(t, m)' <=> Leaves(t, m))
      BY <1>1, <1>4, <1>6, <2>2, MutexParts DEF Owns, Leaves
    <2>5. /\ \A t \in Thread :
               /\ lock_owner'[m] # t
               /\ t \in lock_leaving'[m] <=> t \in lock_leaving[m]
          /\ lock_queue'[m] = lock_queue[m]
      BY <1>1, <2>1, <2>4, OneOwner, OneOwnerNext DEF LockView
    <2>6. /\ lock_owner'[m] \in Thread \cup {None}
          /\ lock_leaving[m] \subseteq Thread /\ lock_leaving'[m] \subseteq Thread
      BY LocksSame
    <2>7. lock_owner'[m] = None
      BY <2>5, <2>6
    <2>8. lock_leaving'[m] = lock_leaving[m]
      BY <2>5, <2>6
    <2>9. /\ lock_owner' = [lock_owner EXCEPT ![m] = None]
          /\ UNCHANGED <<lock_queue, lock_leaving>>
      BY <2>3, <2>5, <2>7, <2>8, LockStep
    <2> QED BY <1>4, <1>7, <1>8, <2>9
            DEF Fifo!Release, lock_queue, lock_leaving
  <1>9. CASE wait_list[m] # <<>>
    <2>1. wakes
      <3>1. wait_list[m][1] \in Thread /\ 1 \in DOMAIN wait_list[m]
        BY <1>5, <1>9
      <3>2. acquiring[wait_list[m][1]].mutex = m
        BY <3>1, WhoWaits
      <3>3. Cardinality(Stakes(m)) # 0
        BY <3>1, <3>2, StakesFinite DEF Stakes
      <3>4. m_count[m] >= 2
        BY <1>1, <1>4, <3>3, CountSays
      <3>5. m_count[m] \in Int
        BY MutexParts
      <3> QED BY <1>9, <3>4, <3>5 DEF contended
    <2>2. "NO_ERROR" \in Status /\ TRUE \in BOOLEAN
      BY DEF Status
    <2>3. /\ Woke(h, "NO_ERROR") /\ h \in Thread
          /\ blocking_wait_queue[h] = m
          /\ wait_list' = [wait_list EXCEPT ![m] = Tail(@)]
      BY <1>2, <2>1, <2>2, WakeOneWakes DEF MutexIInv
    <2> HIDE DEF h
    <2>4. acquiring[h].mutex = m /\ state[h] = "BLOCKED"
      BY <2>3 DEF MutexIInv, WaitsToAcquire, Woke
    <2>5. ASSUME NEW n \in WaitQueue, n # m PROVE SameLock(n)
      <3>1. m_holder'[n] = m_holder[n] /\ wait_list'[n] = wait_list[n]
              /\ m_magic'[n] = m_magic[n]
        BY <1>1, <1>5, <2>3, <2>5, MutexParts
      <3> QED BY <1>1, <2>3, <2>4, <2>5, <3>1, WokeLock
    <2>6. \A t \in Thread :
            /\ Woken(t, m, "NO_ERROR")' <=> t = h
            /\ Woken(t, m, "ERR_TIMED_OUT")' <=> Woken(t, m, "ERR_TIMED_OUT")
      BY <1>1, <1>6, <2>3, <2>4, MutexParts
         DEF MutexIInv, WaitsToAcquire, Woke, Woken
    <2>7. \A t \in Thread : /\ Owns(t, m)' <=> t = h
                            /\ Leaves(t, m)' <=> Leaves(t, m)
      BY <1>1, <1>4, <2>6, MutexParts DEF Owns, Leaves
    <2>8. /\ \A t \in Thread :
               /\ lock_owner'[m] = t <=> t = h
               /\ t \in lock_leaving'[m] <=> t \in lock_leaving[m]
          /\ lock_queue'[m] = Tail(lock_queue[m])
      <3>1. lock_queue'[m] = wait_list'[m]
        BY <1>1, OneOwnerNext DEF LockView
      <3>2. wait_list'[m] = Tail(wait_list[m])
        BY <1>5, <2>3
      <3> QED BY <1>7, <2>7, <3>1, <3>2, OneOwner, OneOwnerNext DEF LockView
    <2>9. /\ lock_leaving[m] \subseteq Thread /\ lock_leaving'[m] \subseteq Thread
      BY LocksSame
    <2>10. lock_leaving'[m] = lock_leaving[m]
      BY <2>8, <2>9
    <2>11. lock_owner'[m] = h
      BY <2>3, <2>8
    <2>12. /\ lock_owner' = [lock_owner EXCEPT ![m] = h]
           /\ lock_queue' = [lock_queue EXCEPT ![m] = Tail(@)]
           /\ UNCHANGED lock_leaving
      BY <2>5, <2>8, <2>10, <2>11, LockStep
    <2>13. h = Head(lock_queue[m])
      BY <1>7 DEF h
    <2> QED BY <1>4, <1>7, <1>9, <2>12, <2>13
            DEF Fifo!Release, lock_queue, lock_leaving
  <1> QED BY <1>8, <1>9

\* Of a mutex that is destroyed nothing is left.
LEMMA DestroyLock ==
  ASSUME MutexIInv, MutexIInv', NEW m \in WaitQueue, MutexDestroy(m)
  PROVE  Fifo!Destroy(m)
  <1>1. /\ m_magic' = [m_magic EXCEPT ![m] = FALSE]
        /\ UNCHANGED <<m_holder, acquiring>>
    BY DEF MutexDestroy
  <1>2. Undisturbed
    BY DestroyStep
  <1>3. ~m_magic'[m] /\ \A n \in WaitQueue : n # m => m_magic'[n] = m_magic[n]
    BY <1>1, MutexParts
  <1>4. ASSUME NEW n \in WaitQueue, n # m PROVE SameLock(n)
    BY <1>1, <1>2, <1>3, <1>4, UndisturbedLock
  <1>5. /\ \A t \in Thread : lock_owner'[m] # t /\ t \notin lock_leaving'[m]
        /\ lock_queue'[m] = <<>>
    BY <1>3, OneOwnerNext DEF LockView, Owns, Leaves
  <1>6. lock_owner'[m] \in Thread \cup {None} /\ lock_leaving'[m] \subseteq Thread
    BY LocksSame
  <1>7. lock_owner'[m] = None
    BY <1>5, <1>6
  <1>8. lock_leaving'[m] = {}
    BY <1>5, <1>6
  <1>9. /\ lock_owner' = [lock_owner EXCEPT ![m] = None]
        /\ lock_queue' = [lock_queue EXCEPT ![m] = <<>>]
        /\ lock_leaving' = [lock_leaving EXCEPT ![m] = {}]
    BY <1>4, <1>5, <1>7, <1>8, LockStep
  <1> QED BY <1>9 DEF Fifo!Destroy, lock_queue, lock_leaving

\* Every step is one of the lock, or nothing to its users.
LEMMA LocksMove ==
  ASSUME MutexIInv, MutexIInv', [MutexNext]_mutex_all_vars
  PROVE  \/ LockQuiet
         \/ \E m \in WaitQueue :
              \/ Fifo!Release(m) \/ Fifo!Destroy(m)
              \/ \E t \in Thread :
                   \/ Fifo!Take(m, t) \/ Fifo!Enqueue(m, t) \/ Fifo!Leave(m, t)
                   \/ timer[t] = "wait" /\ Fifo!GiveUp(m, t)
  <1> DEFINE Moves(m) ==
               \/ Fifo!Release(m) \/ Fifo!Destroy(m)
               \/ \E t \in Thread :
                    \/ Fifo!Take(m, t) \/ Fifo!Enqueue(m, t) \/ Fifo!Leave(m, t)
                    \/ timer[t] = "wait" /\ Fifo!GiveUp(m, t)
  <1>1. current_thread \in Thread
    BY MutexParts
  <1>2. CASE KernelNext /\ UNCHANGED mutex_vars
    BY <1>2, KernelLocks
  <1>3. ASSUME NEW m \in WaitQueue,
               NEW by \in {"mutex_acquire", "mutex_acquire_timeout"},
               NEW timeout \in {"ZERO", "FINITE", "INFINITE"},
               timeout = "FINITE" => by = "mutex_acquire_timeout",
               acquire(m, by, timeout)
        PROVE  Moves(m)
    <2>1. CASE uncontended(m)
      BY <1>1, <1>3, <2>1, TakeLock
    <2>2. CASE ~uncontended(m)
      <3>1. /\ Blocked(m, timeout)
            /\ wait_list' = [wait_list EXCEPT ![m] = Append(@, current_thread)]
        BY <1>3, <2>2, WaitStep
      <3>2. \E t \in Thread : Fifo!Enqueue(m, t)
        BY <1>3, <2>2, <3>1, WaitLock
      <3> QED BY <3>2
    <2> QED BY <2>1, <2>2
  <1>4. ASSUME AcquireReturn
        PROVE  LockQuiet \/ \E m \in WaitQueue : Moves(m)
    BY <1>1, <1>4, ReturnLock
  <1>5. ASSUME NEW m \in WaitQueue, MutexRelease(m) \/ MutexDestroy(m)
        PROVE  Moves(m)
    BY <1>5, ReleaseLock, DestroyLock
  <1>6. CASE UNCHANGED mutex_all_vars
    BY <1>6 DEF LockQuiet, lock_owner, lock_queue, lock_leaving, Woken,
                mutex_all_vars, mutex_vars, thread_vars, sched_vars, wait_vars
  <1>7. ASSUME MutexNext
        PROVE  LockQuiet \/ \E m \in WaitQueue : Moves(m)
    <2>0. \/ ~(KernelNext /\ UNCHANGED mutex_vars) /\ ~AcquireReturn
          \/ LockQuiet \/ \E m \in WaitQueue : Moves(m)
      BY <1>2, <1>4
    <2> HIDE DEF Moves
    <2>1. CASE \E m \in WaitQueue,
                  by \in {"mutex_acquire", "mutex_acquire_timeout"},
                  timeout \in {"ZERO", "FINITE", "INFINITE"} :
                 /\ timeout = "FINITE" => by = "mutex_acquire_timeout"
                 /\ acquire(m, by, timeout)
      BY <1>3, <2>1
    <2>2. CASE \E m \in WaitQueue : MutexRelease(m) \/ MutexDestroy(m)
      BY <1>5, <2>2
    <2> QED BY <1>7, <2>0, <2>1, <2>2, AcquireCases
  <1> QED BY <1>6, <1>7

\* The mutexes of the kernel are fair locks: nobody gets in between a release
\* and the thread that has waited longest, and a thread whose timer expired
\* keeps its stake until it runs.
THEOREM MutexesAreFifoLocks ==
  ASSUME ~LeakersCall
  PROVE  MutexSpec => FifoSpec
  <1>1. MutexInit => Fifo!Init
    <2> SUFFICES ASSUME MutexInit PROVE Fifo!Init
      OBVIOUS
    <2>1. MutexIInv
      BY MutexInitInv
    <2>2. ASSUME NEW m \in WaitQueue
          PROVE  /\ m_magic[m] /\ m_holder[m] = None /\ wait_list[m] = <<>>
                 /\ \A t \in Thread : \A result : ~Woken(t, m, result)
      BY ThreadAssumption DEF MutexInit, ThreadInit, Woken, NotAcquiring
    <2>3. \A m \in WaitQueue : lock_owner[m] = None
      BY <2>2 DEF lock_owner
    <2>4. lock_owner \in [WaitQueue -> Thread \cup {None}]
      BY <2>1, OneOwner DEF LockView
    <2>5. lock_owner = [m \in WaitQueue |-> None]
      BY <2>3, <2>4
    <2>6. lock_queue = [m \in WaitQueue |-> <<>>]
            /\ lock_leaving = [m \in WaitQueue |-> {}]
      BY <2>2 DEF lock_queue, lock_leaving
    <2> QED BY <2>5, <2>6 DEF Fifo!Init, lock_queue, lock_leaving
  <1>2. MutexIInv /\ MutexIInv' /\ [MutexNext]_mutex_all_vars
          => [Fifo!Next]_Fifo!lock_vars
    <2> SUFFICES ASSUME MutexIInv, MutexIInv', [MutexNext]_mutex_all_vars
                 PROVE  [Fifo!Next]_Fifo!lock_vars
      OBVIOUS
    <2>1. CASE LockQuiet
      BY <2>1 DEF LockQuiet, Fifo!lock_vars, lock_queue, lock_leaving
    <2>2. CASE ~LockQuiet
      BY <2>2, LocksMove DEF Fifo!Next
    <2> QED BY <2>1, <2>2
  <1> QED BY <1>1, <1>2, MutexKeeps, PTL
          DEF MutexSpec, FifoSpec, Fifo!Spec

\* A timer is set only by an acquire with a finite timeout.
LEMMA TimersArise ==
  ASSUME MutexIInv, MutexIInv', [MutexNext]_mutex_all_vars,
         "FINITE" \notin AcquireTimeouts, NEW t \in Thread,
         timer'[t] = "wait"
  PROVE  timer[t] = "wait"
  <1>1. ThreadInv /\ ThreadInv'
    BY DEF MutexIInv
  <1>2. CASE Undisturbed \/ \E u, error : Woke(u, error)
    BY <1>2 DEF Undisturbed, Woke
  <1>3. CASE KernelNext
    <2>1. WaitersExist
      BY DEF MutexIInv, WaitsToAcquire, WaitersExist
    <2> QED BY <1>1, <1>2, <1>3, <2>1, CallsUndisturbed, StepsUndisturbed,
               WakeAllWakes, TimerWakes DEF KernelNext
  <1>4. ASSUME NEW m \in WaitQueue,
               NEW by \in {"mutex_acquire", "mutex_acquire_timeout"},
               NEW timeout \in {"ZERO", "INFINITE"},
               acquire(m, by, timeout)
        PROVE  timer[t] = "wait"
    <2>1. CASE uncontended(m)
      BY <1>4, <2>1 DEF acquire, thread_vars
    <2>2. CASE ~uncontended(m)
      <3>1. Blocked(m, timeout)
        BY <1>4, <2>2, WaitStep
      <3> QED BY <3>1 DEF Blocked
    <2> QED BY <2>1, <2>2
  <1>5. CASE AcquireReturn
    BY <1>1, <1>5, BlockReturns DEF AcquireReturn
  <1>6. ASSUME NEW m \in WaitQueue, MutexRelease(m) PROVE timer[t] = "wait"
    <2>1. "NO_ERROR" \in Status /\ TRUE \in BOOLEAN
      BY DEF Status
    <2>2. CASE WaitQueueWakeOne(m, TRUE, "NO_ERROR")
      BY <1>1, <1>2, <2>1, <2>2, WakeOneWakes
    <2>3. CASE UNCHANGED thread_vars
      BY <2>3 DEF thread_vars
    <2> QED BY <1>6, <2>2, <2>3 DEF MutexRelease, WaitQueueWakeOne
  <1>7. ASSUME NEW m \in WaitQueue, MutexDestroy(m) PROVE timer[t] = "wait"
    BY <1>2, <1>7, DestroyStep
  <1>8. CASE UNCHANGED mutex_all_vars
    BY <1>8 DEF mutex_all_vars, thread_vars
  <1> QED BY <1>3, <1>4, <1>5, <1>6, <1>7, <1>8, AcquireCases

\* Where nobody gives up a lock with a queue has an owner.
QueuedIsOwned ==
  /\ \A t \in Thread : timer[t] # "wait"
  /\ \A m \in WaitQueue :
       /\ lock_leaving[m] = {}
       /\ lock_queue[m] # <<>> => lock_owner[m] # None

\* Nobody waits on a free mutex, provided no acquire has a finite timeout:
\* with one, a release that meets a waiter that has timed out loses its
\* wake-up.
THEOREM NobodyWaitsOnFree ==
  ASSUME ~LeakersCall, "FINITE" \notin AcquireTimeouts
  PROVE  MutexSpec => []NoWaitOnFreeMutex
  <1>1. MutexInit => QueuedIsOwned
    BY ThreadAssumption
       DEF MutexInit, ThreadInit, QueuedIsOwned, lock_leaving, lock_queue,
           Woken, NotAcquiring
  <1>2. QueuedIsOwned /\ MutexIInv /\ MutexIInv' /\ [MutexNext]_mutex_all_vars
          => QueuedIsOwned'
    <2> SUFFICES ASSUME QueuedIsOwned, MutexIInv, MutexIInv',
                        [MutexNext]_mutex_all_vars
                 PROVE  QueuedIsOwned'
      OBVIOUS
    <2>1. \A t \in Thread : timer'[t] # "wait"
      BY TimersArise DEF QueuedIsOwned
    <2>2. CASE LockQuiet
      BY <2>1, <2>2 DEF QueuedIsOwned, LockQuiet
    <2>3. CASE ~LockQuiet
      <3>1. PICK m \in WaitQueue :
              \/ Fifo!Release(m) \/ Fifo!Destroy(m)
              \/ \E t \in Thread : \/ Fifo!Take(m, t) \/ Fifo!Enqueue(m, t)
                                   \/ Fifo!Leave(m, t)
        BY <2>3, LocksMove DEF QueuedIsOwned
      <3>2. /\ lock_owner \in [WaitQueue -> Thread \cup {None}]
            /\ lock_queue \in [WaitQueue -> Seq(Thread)]
            /\ lock_leaving \in [WaitQueue -> SUBSET Thread]
        BY LocksSame
      <3> DEFINE Kept(n) == /\ lock_leaving'[n] = {}
                            /\ lock_queue'[n] # <<>> => lock_owner'[n] # None
      <3>3. CASE Fifo!Release(m)
        <4>1. /\ IF lock_queue[m] = <<>>
                 THEN /\ lock_owner' = [lock_owner EXCEPT ![m] = None]
                      /\ UNCHANGED lock_queue
                 ELSE /\ lock_owner' =
                           [lock_owner EXCEPT ![m] = Head(lock_queue[m])]
                      /\ lock_queue' = [lock_queue EXCEPT ![m] = Tail(@)]
              /\ UNCHANGED lock_leaving
          BY <3>3 DEF Fifo!Release, lock_queue, lock_leaving
        <4>2. lock_queue[m] # <<>> => Head(lock_queue[m]) \in Thread
          BY <3>2
        <4>3. ASSUME NEW n \in WaitQueue PROVE Kept(n)
          BY <3>2, <4>1, <4>2, MutexParts DEF QueuedIsOwned
        <4> QED BY <2>1, <4>3 DEF QueuedIsOwned
      <3>4. CASE Fifo!Destroy(m)
        <4>1. /\ lock_owner' = [lock_owner EXCEPT ![m] = None]
              /\ lock_queue' = [lock_queue EXCEPT ![m] = <<>>]
              /\ lock_leaving' = [lock_leaving EXCEPT ![m] = {}]
          BY <3>4 DEF Fifo!Destroy, lock_queue, lock_leaving
        <4>2. ASSUME NEW n \in WaitQueue PROVE Kept(n)
          BY <3>2, <4>1 DEF QueuedIsOwned
        <4> QED BY <2>1, <4>2 DEF QueuedIsOwned
      <3>5. ASSUME NEW t \in Thread, Fifo!Take(m, t) PROVE QueuedIsOwned'
        <4>1. /\ lock_owner' = [lock_owner EXCEPT ![m] = t]
              /\ UNCHANGED <<lock_queue, lock_leaving>>
          BY <3>5 DEF Fifo!Take, lock_queue, lock_leaving
        <4>2. ASSUME NEW n \in WaitQueue PROVE Kept(n)
          BY <3>2, <4>1, MutexParts DEF QueuedIsOwned
        <4> QED BY <2>1, <4>2 DEF QueuedIsOwned
      <3>6. ASSUME NEW t \in Thread, Fifo!Enqueue(m, t) PROVE QueuedIsOwned'
        <4>1. /\ ~(lock_owner[m] = None /\ lock_queue[m] = <<>>
                     /\ lock_leaving[m] = {})
              /\ lock_queue' = [lock_queue EXCEPT ![m] = Append(@, t)]
              /\ UNCHANGED <<lock_owner, lock_leaving>>
          BY <3>6 DEF Fifo!Enqueue, Fifo!Free, lock_queue, lock_leaving
        <4>2. lock_owner[m] # None
          BY <4>1 DEF QueuedIsOwned
        <4>3. ASSUME NEW n \in WaitQueue, n # m
              PROVE  lock_queue'[n] = lock_queue[n]
          BY <3>2, <4>1, <4>3
        <4>4. ASSUME NEW n \in WaitQueue PROVE Kept(n)
          BY <4>1, <4>2, <4>3 DEF QueuedIsOwned
        <4> QED BY <2>1, <4>4 DEF QueuedIsOwned
      <3>7. ASSUME NEW t \in Thread, Fifo!Leave(m, t) PROVE QueuedIsOwned'
        <4>1. t \in lock_leaving[m]
          BY <3>7 DEF Fifo!Leave, lock_leaving
        <4> QED BY <4>1 DEF QueuedIsOwned
      <3> QED BY <3>1, <3>3, <3>4, <3>5, <3>6, <3>7
    <2> QED BY <2>2, <2>3
  <1>3. QueuedIsOwned /\ MutexIInv => NoWaitOnFreeMutex
    <2> SUFFICES ASSUME QueuedIsOwned, MutexIInv, NEW m \in WaitQueue,
                        m_magic[m], m_holder[m] = None, wait_list[m] # <<>>
                 PROVE  \E t \in Thread : Woken(t, m, "NO_ERROR")
      BY DEF NoWaitOnFreeMutex
    <2>1. lock_owner[m] \in Thread /\ Owns(lock_owner[m], m)
      <3>1. lock_queue[m] # <<>> /\ lock_owner[m] \in Thread \cup {None}
        BY OneOwner DEF LockView
      <3>2. lock_owner[m] \in Thread
        BY <3>1 DEF QueuedIsOwned
      <3> QED BY <3>2, OneOwner DEF LockView
    <2> QED BY <2>1, MutexParts DEF Owns
  <1> QED BY <1>1, <1>2, <1>3, MutexKeeps, PTL DEF MutexSpec
=============================================================================
