---------------------------- MODULE EventProofs ----------------------------
(***************************************************************************)
(* Events lose no wake-up and count their signals: proofs about module     *)
(* Event, for every set of threads, priorities and events, with the        *)
(* scheduler, its interrupts and its timers underneath.                    *)
(***************************************************************************)
EXTENDS Event, ThreadProofs, FiniteSetTheorems

-----------------------------------------------------------------------------
(* The inductive invariant.                                                *)

\* event_t.flags is what event_init was given, until the event is destroyed.
FlagsAreFixed ==
  \A e \in WaitQueue : e_flags[e] <=> e \in AutoEvents /\ e_magic[e]

\* A thread is inside wait_queue_block exactly while it waits for an event,
\* and while it is BLOCKED it is queued on that event.
WaitsForEvent ==
  \A t \in Thread :
    /\ pc[t] = "wait" <=> waiting[t] # None
    /\ pc[t] = "wait" => state[t] # "FREE"
    /\ state[t] = "BLOCKED" =>
         pc[t] = "wait" /\ blocking_wait_queue[t] = waiting[t]

\* All waiters are woken only from an event that is plain or destroyed.
WakesAllOfPlain ==
  \A t \in Thread : pc[t] = "wake_all" => ~e_flags[waking.queue]

\* Every part of the invariant of the events.
EventIInv ==
  /\ ThreadInv
  /\ EventTypeOK
  /\ FlagsAreFixed
  /\ WaitsForEvent
  /\ WakesAllOfPlain
  /\ NoWaiterLeftBehind
  /\ SignalsConserved

-----------------------------------------------------------------------------
(* Counting the released threads.                                          *)

\* What the event code may rely on, by name.
LEMMA EventParts ==
  ASSUME EventIInv
  PROVE  /\ ThreadInv /\ current_thread \in Thread
         /\ e_magic \in [WaitQueue -> BOOLEAN]
         /\ e_signalled \in [WaitQueue -> BOOLEAN]
         /\ e_flags \in [WaitQueue -> BOOLEAN]
         /\ waiting \in [Thread -> WaitQueue \cup {None}]
         /\ credit \in [WaitQueue -> Nat]
         /\ wait_list \in [WaitQueue -> Seq(Thread)]
         /\ None \notin Thread /\ None \notin WaitQueue
         /\ \A e \in WaitQueue :
              e_flags[e] <=> e \in AutoEvents /\ e_magic[e]
  BY Parts, ThreadAssumption
     DEF EventIInv, EventTypeOK, FlagsAreFixed, OthersTyped, WaitLists

\* The counter as an integer, for steps that take one away.
LEMMA CreditInt ==
  ASSUME EventIInv
  PROVE  credit \in [WaitQueue -> Int]
  <1>1. credit \in [WaitQueue -> Nat] /\ Nat \subseteq Int
    BY EventParts
  <1>2. credit = [e \in WaitQueue |-> credit[e]]
          /\ \A e \in WaitQueue : credit[e] \in Int
    BY <1>1
  <1> QED BY <1>2

\* There are finitely many of them.
LEMMA ReleasedFinite ==
  ASSUME NEW e
  PROVE  /\ IsFiniteSet(Released(e))
         /\ Cardinality(Released(e)) \in Nat
         /\ Cardinality(Released(e)') \in Nat
         /\ Released(e) \subseteq Thread /\ Released(e)' \subseteq Thread
  <1>1. Released(e) \subseteq Thread /\ Released(e)' \subseteq Thread
    BY DEF Released
  <1>2. IsFiniteSet(Released(e)) /\ IsFiniteSet(Released(e)')
    BY <1>1, ThreadFinite, FS_Subset
  <1> QED BY <1>1, <1>2, FS_CardinalityType

\* What the history counter says of an auto-unsignal event.
LEMMA CreditSays ==
  ASSUME EventIInv, NEW e \in AutoEvents, e_magic[e]
  PROVE  /\ credit[e] = (IF e_signalled[e] THEN 1 ELSE 0)
                          + Cardinality(Released(e))
         /\ e \in WaitQueue /\ e_flags[e]
  BY EventParts, EventAssumption DEF EventIInv, SignalsConserved

\* The next state counts right if every event does.
LEMMA CreditKept ==
  ASSUME \A e \in AutoEvents : e_magic'[e] =>
           credit'[e] = (IF e_signalled'[e] THEN 1 ELSE 0)
                          + Cardinality(Released(e)')
  PROVE  SignalsConserved'
  BY DEF SignalsConserved, Released

-----------------------------------------------------------------------------
(* What a step does to the waits decides who is released.                  *)

\* No wait is disturbed: nobody is.
LEMMA UndisturbedWaits ==
  ASSUME EventIInv, Undisturbed, UNCHANGED waiting
  PROVE  /\ WaitsForEvent'
         /\ \A e \in WaitQueue : Released(e)' = Released(e)
  <1>1. WaitsForEvent'
    BY DEF EventIInv, WaitsForEvent, Undisturbed
  <1>2. \A t \in Thread, e \in WaitQueue :
          t \in Released(e)' <=> t \in Released(e)
    BY EventParts DEF EventIInv, WaitsForEvent, Undisturbed, Released
  <1>3. \A e \in WaitQueue : Released(e)' = Released(e)
    BY <1>2, ReleasedFinite
  <1> QED BY <1>1, <1>3

\* t is woken from the event it waits for.
LEMMA WokenWaits ==
  ASSUME EventIInv, NEW t \in Thread, NEW error, Woke(t, error),
         UNCHANGED waiting
  PROVE  /\ WaitsForEvent'
         /\ \A e \in WaitQueue :
              /\ t \notin Released(e)
              /\ error = "NO_ERROR" /\ e = waiting[t] =>
                   Released(e)' = Released(e) \cup {t}
              /\ ~(error = "NO_ERROR" /\ e = waiting[t]) =>
                   Released(e)' = Released(e)
  <1>1. WaitsForEvent'
    BY DEF EventIInv, WaitsForEvent, Woke
  <1>2. ASSUME NEW e \in WaitQueue, NEW u \in Thread
        PROVE  /\ t \notin Released(e)
               /\ u \in Released(e)' <=>
                    \/ u \in Released(e)
                    \/ u = t /\ error = "NO_ERROR" /\ e = waiting[t]
    <2>1. t \notin Released(e)
      BY DEF Woke, Released
    <2>2. CASE u = t
      <3>1. state'[t] # "BLOCKED" /\ wait_queue_block_ret'[t] = error
              /\ waiting' = waiting
        BY DEF Woke
      <3>2. t \in Released(e)' <=> waiting[t] = e /\ error = "NO_ERROR"
        BY <3>1 DEF Released
      <3> QED BY <2>1, <2>2, <3>2
    <2>3. CASE u # t
      <3>1. /\ wait_queue_block_ret'[u] = wait_queue_block_ret[u]
            /\ state'[u] = "BLOCKED" <=> state[u] = "BLOCKED"
            /\ waiting' = waiting
        BY <2>3 DEF Woke
      <3> QED BY <2>1, <2>3, <3>1 DEF Released
    <2> QED BY <2>1, <2>2, <2>3
  <1>3. ASSUME NEW e \in WaitQueue, error = "NO_ERROR", e = waiting[t]
        PROVE  Released(e)' = Released(e) \cup {t}
    BY <1>2, <1>3, ReleasedFinite
  <1>4. ASSUME NEW e \in WaitQueue, ~(error = "NO_ERROR" /\ e = waiting[t])
        PROVE  Released(e)' = Released(e)
    BY <1>2, <1>4, ReleasedFinite
  <1> QED BY <1>1, <1>2, <1>3, <1>4

\* The running thread blocks on w.
LEMMA BlockedWaits ==
  ASSUME EventIInv, NEW w \in WaitQueue, NEW timeout, Blocked(w, timeout),
         waiting' = [waiting EXCEPT ![current_thread] = w]
  PROVE  /\ WaitsForEvent'
         /\ \A e \in WaitQueue : Released(e)' = Released(e)
  <1>1. /\ current_thread \in Thread /\ waiting[current_thread] = None
        /\ \A u \in Thread : waiting'[u] = IF u = current_thread THEN w
                                           ELSE waiting[u]
    BY EventParts DEF EventIInv, WaitsForEvent, Blocked
  <1>2. WaitsForEvent'
    BY <1>1, EventParts DEF EventIInv, WaitsForEvent, Blocked
  <1>3. \A t \in Thread, e \in WaitQueue :
          t \in Released(e)' <=> t \in Released(e)
    BY <1>1, EventParts DEF Blocked, Released
  <1>4. \A e \in WaitQueue : Released(e)' = Released(e)
    BY <1>3, ReleasedFinite, SMTT(30)
  <1> QED BY <1>2, <1>4

\* The running thread returns from its wait.
LEMMA ReturnedWaits ==
  ASSUME EventIInv, ThreadInv', wait_queue_block_return,
         waiting' = [waiting EXCEPT ![current_thread] = None]
  PROVE  /\ WaitsForEvent'
         /\ waiting[current_thread] \in WaitQueue
         /\ \A e \in WaitQueue :
              /\ Released(e)' = Released(e) \ {current_thread}
              /\ current_thread \in Released(e) <=>
                   /\ wait_queue_block_ret[current_thread] = "NO_ERROR"
                   /\ e = waiting[current_thread]
  <1> DEFINE me == current_thread
  <1>1. ThreadInv /\ ThreadInv'
    BY DEF EventIInv
  <1>2. /\ pc[me] = "wait" /\ pc'[me] # "wait" /\ state[me] # "BLOCKED"
        /\ UNCHANGED <<state, wait_vars>>
        /\ \A u \in Thread : u # me => (pc'[u] = "wait" <=> pc[u] = "wait")
    BY <1>1, BlockReturns
  <1>3. UNCHANGED <<state, blocking_wait_queue, wait_queue_block_ret>>
    BY <1>2 DEF wait_vars
  <1>4. /\ me \in Thread /\ waiting[me] \in WaitQueue
        /\ \A u \in Thread : waiting'[u] = IF u = me THEN None ELSE waiting[u]
    BY <1>2, EventParts DEF EventIInv, WaitsForEvent
  <1>5. WaitsForEvent'
    BY <1>2, <1>3, <1>4, EventParts DEF EventIInv, WaitsForEvent
  <1>6. \A t \in Thread, e \in WaitQueue :
          t \in Released(e)' <=> t \in Released(e) /\ t # me
    BY <1>3, <1>4, EventParts DEF Released
  <1>7. \A e \in WaitQueue : Released(e)' = Released(e) \ {me}
    BY <1>6, ReleasedFinite
  <1>8. \A e \in WaitQueue :
          me \in Released(e) <=>
            wait_queue_block_ret[me] = "NO_ERROR" /\ e = waiting[me]
    BY <1>2, <1>4 DEF Released
  <1> QED BY <1>4, <1>5, <1>7, <1>8

-----------------------------------------------------------------------------
(* Steps that leave the events themselves alone.                           *)

\* During a wake-up of all nothing else happens.
LEMMA OnlyWakes ==
  ASSUME ThreadInv, KernelNext, pc[current_thread] = "wake_all"
  PROVE  WakeAllStep \/ WakeAllEnd
  BY DEF KernelNext, ThreadCalls, KernelSteps, ThreadCreate, ThreadResume,
         ThreadYield, ThreadSleep, ThreadSetPriority, BootDone, BecomeIdle,
         ThreadReturn, unwind, IrqEnter, SleepTimer, WaitTimer, IrqExit,
         Calling, ThreadInv, ThreadTypeOK

\* A turn of its loop, as the events see it.
LEMMA WakeAllTurn ==
  ASSUME EventIInv, ThreadInv', WakeAllStep
  PROVE  /\ \E t \in Thread : /\ Woke(t, waking.error)
                              /\ waiting[t] = waking.queue
         /\ waking.queue \in WaitQueue /\ ~e_flags[waking.queue]
         /\ pc[current_thread] = "wake_all"
         /\ pc'[current_thread'] = "wake_all" /\ waking'.queue = waking.queue
         /\ wait_list' = [wait_list EXCEPT ![waking.queue] = Tail(@)]
  <1> DEFINE t == Head(wait_list[waking.queue])
  <1>1. /\ pc[current_thread] = "wake_all" /\ waking.queue \in WaitQueue
        /\ Woke(t, waking.error) /\ t \in Thread
        /\ blocking_wait_queue[t] = waking.queue
        /\ wait_list' = [wait_list EXCEPT ![waking.queue] = Tail(@)]
    BY EventParts, WakeAllWakes
  <1>2. /\ UNCHANGED <<pc, current_thread>>
        /\ waking' = [waking EXCEPT !.ret = TRUE]
    BY DEF WakeAllStep
  <1>3. waking'.queue = waking.queue
    BY <1>2, EventParts, Parts DEF OthersTyped
  <1> HIDE DEF t
  <1>4. waiting[t] = waking.queue
    BY <1>1 DEF EventIInv, WaitsForEvent, Woke
  <1>5. ~e_flags[waking.queue]
    BY <1>1, EventParts DEF EventIInv, WakesAllOfPlain
  <1> QED BY <1>1, <1>2, <1>3, <1>4, <1>5

\* A timer that expires for a thread that is BLOCKED.
LEMMA TimerTurn ==
  ASSUME EventIInv, ThreadInv', NEW t \in Thread, WaitTimer(t),
         state[t] = "BLOCKED"
  PROVE  /\ Woke(t, "ERR_TIMED_OUT")
         /\ waiting[t] \in WaitQueue
         /\ wait_list' = [wait_list EXCEPT ![waiting[t]] = list_delete(@, t)]
         /\ IsInjective(wait_list[waiting[t]])
         /\ \E i \in DOMAIN wait_list[waiting[t]] : wait_list[waiting[t]][i] = t
         /\ pc[current_thread] # "wake_all"
  <1>1. /\ Woke(t, "ERR_TIMED_OUT")
        /\ blocking_wait_queue[t] \in WaitQueue
        /\ wait_list' = [wait_list EXCEPT ![blocking_wait_queue[t]] =
                           list_delete(@, t)]
    BY EventParts, TimerWakes
  <1>2. blocking_wait_queue[t] = waiting[t]
    BY DEF EventIInv, WaitsForEvent
  <1>3. /\ IsInjective(wait_list[waiting[t]])
        /\ Range(wait_list[waiting[t]]) =
             {u \in Thread : state[u] = "BLOCKED"
                               /\ blocking_wait_queue[u] = waiting[t]}
    BY <1>1, <1>2, EventParts, Parts DEF Waiting
  <1>4. t \in Range(wait_list[waiting[t]])
    BY <1>2, <1>3
  <1>5. \E i \in DOMAIN wait_list[waiting[t]] : wait_list[waiting[t]][i] = t
    BY <1>4 DEF Range
  <1>6. pc[current_thread] # "wake_all"
    BY DEF WaitTimer
  <1> QED BY <1>1, <1>2, <1>3, <1>5, <1>6

\* What a step of the kernel is to the waits.
LEMMA KernelTurns ==
  ASSUME EventIInv, ThreadInv', KernelNext
  PROVE  \/ /\ Undisturbed
            /\ pc[current_thread] = "wake_all" =>
                 wait_list[waking.queue] = <<>>
         \/ WakeAllStep
         \/ \E t \in Thread : WaitTimer(t) /\ state[t] = "BLOCKED"
  <1>1. ThreadInv /\ WaitersExist
    BY DEF EventIInv, WaitsForEvent, WaitersExist
  <1>2. \/ Undisturbed
        \/ WakeAllStep
        \/ \E t \in Thread : WaitTimer(t) /\ state[t] = "BLOCKED"
    BY <1>1, CallsUndisturbed, StepsUndisturbed DEF KernelNext
  <1>3. ASSUME pc[current_thread] = "wake_all"
        PROVE  WakeAllStep \/ wait_list[waking.queue] = <<>>
    <2>1. WakeAllStep \/ WakeAllEnd
      BY <1>1, <1>3, OnlyWakes
    <2> QED BY <2>1 DEF WakeAllEnd
  <1> QED BY <1>2, <1>3

\* Every call and every step of the kernel keeps the invariant.
LEMMA KernelKeepsEvents ==
  ASSUME EventIInv, KernelNext, UNCHANGED event_vars
  PROVE  EventIInv'
  <1>1. ThreadInv /\ ThreadInv'
    BY KernelStepsInv, ThreadCallsInv DEF EventIInv, KernelNext
  <1>2. UNCHANGED <<e_magic, e_signalled, e_flags, waiting, credit>>
    BY DEF event_vars
  <1>3. EventTypeOK' /\ FlagsAreFixed'
    BY <1>2 DEF EventIInv, EventTypeOK, FlagsAreFixed
  <1>4. WakesAllOfPlain'
    BY <1>1, <1>2, WakeUpSame DEF EventIInv, WakesAllOfPlain, SameWakeUp
  <1>5. /\ WaitsForEvent'
        /\ \A e \in AutoEvents : e_magic[e] => Released(e)' = Released(e)
    <2>1. CASE Undisturbed
      BY <1>2, <2>1, UndisturbedWaits, EventAssumption
    <2>2. CASE WakeAllStep
      <3>1. PICK t \in Thread : /\ Woke(t, waking.error)
                                /\ waiting[t] = waking.queue
        BY <1>1, <2>2, WakeAllTurn
      <3>2. \A e \in AutoEvents : e_magic[e] => e # waiting[t]
        BY <1>1, <2>2, <3>1, WakeAllTurn, EventParts
      <3> QED BY <1>2, <3>1, <3>2, WokenWaits, EventAssumption
    <2>3. ASSUME NEW t \in Thread, WaitTimer(t), state[t] = "BLOCKED"
          PROVE  /\ WaitsForEvent'
                 /\ \A e \in WaitQueue : Released(e)' = Released(e)
      BY <1>1, <1>2, <2>3, TimerTurn, WokenWaits
    <2> QED BY <1>1, <2>1, <2>2, <2>3, KernelTurns, EventAssumption
  <1>6. SignalsConserved'
    BY <1>2, <1>5, CreditSays, CreditKept
  <1>7. NoWaiterLeftBehind'
    <2> SUFFICES ASSUME NEW e \in WaitQueue, e_signalled[e] \/ ~e_magic[e],
                        ~(pc'[current_thread'] = "wake_all"
                            /\ waking'.queue = e)
                 PROVE  wait_list'[e] = <<>>
      BY <1>2 DEF NoWaiterLeftBehind
    <2>1. \/ wait_list[e] = <<>>
          \/ pc[current_thread] = "wake_all" /\ waking.queue = e
      BY DEF EventIInv, NoWaiterLeftBehind
    <2>2. CASE /\ Undisturbed
               /\ pc[current_thread] = "wake_all" =>
                    wait_list[waking.queue] = <<>>
      BY <2>1, <2>2 DEF Undisturbed
    <2>3. CASE WakeAllStep
      BY <1>1, <2>1, <2>3, WakeAllTurn, EventParts
    <2>4. ASSUME NEW t \in Thread, WaitTimer(t), state[t] = "BLOCKED"
          PROVE  wait_list'[e] = <<>>
      <3>1. wait_list[e] = <<>>
        BY <1>1, <2>1, <2>4, TimerTurn
      <3>2. waiting[t] # e
        BY <1>1, <2>4, <3>1, TimerTurn
      <3> QED BY <1>1, <2>4, <3>1, <3>2, TimerTurn, EventParts
    <2> QED BY <1>1, <2>2, <2>3, <2>4, KernelTurns
  <1> QED BY <1>1, <1>3, <1>4, <1>5, <1>6, <1>7 DEF EventIInv

-----------------------------------------------------------------------------
(* The operations of an event.                                             *)

\* A call that blocks and wakes nobody.
LEMMA StillWaits ==
  ASSUME EventIInv, UNCHANGED <<thread_vars, waiting>>
  PROVE  /\ ThreadInv' /\ WaitsForEvent'
         /\ \A e : Released(e)' = Released(e)
         /\ UNCHANGED <<pc, current_thread, waking, wait_list>>
  <1>1. ThreadInv'
    BY NextInv DEF EventIInv
  <1> QED BY <1>1 DEF EventIInv, WaitsForEvent, Released, thread_vars,
                      sched_vars, wait_vars

\* A wait that finds the event signalled, or an unsignal, takes the signal.
LEMMA TakeSignal ==
  ASSUME EventIInv, NEW e \in WaitQueue,
         UNCHANGED <<thread_vars, waiting, e_magic, e_flags>>,
         \/ e_signalled[e] /\ consume(e)
         \/ /\ e_signalled' = [e_signalled EXCEPT ![e] = FALSE]
            /\ credit' = IF e_signalled[e] /\ e_flags[e]
                         THEN [credit EXCEPT ![e] = @ - 1] ELSE credit
  PROVE  EventIInv'
  <1>1. /\ ThreadInv' /\ WaitsForEvent'
        /\ \A n : Released(n)' = Released(n)
        /\ UNCHANGED <<pc, current_thread, waking, wait_list>>
    BY StillWaits
  <1>2. ASSUME NEW n \in WaitQueue
        PROVE  /\ e_signalled'[n] \in BOOLEAN
               /\ e_signalled'[n] => e_signalled[n]
               /\ n # e => /\ e_signalled'[n] = e_signalled[n]
                           /\ credit'[n] = credit[n]
               /\ n = e /\ e_flags[e] =>
                    /\ ~e_signalled'[e]
                    /\ credit'[e] = IF e_signalled[e] THEN credit[e] - 1
                                    ELSE credit[e]
               /\ ~e_flags[n] => credit'[n] = credit[n]
    BY <1>2, EventParts DEF consume
  <1>3. SignalsConserved'
    <2>1. ASSUME NEW n \in AutoEvents, e_magic'[n]
          PROVE  credit'[n] = (IF e_signalled'[n] THEN 1 ELSE 0)
                                + Cardinality(Released(n)')
      <3>1. /\ credit[n] = (IF e_signalled[n] THEN 1 ELSE 0)
                             + Cardinality(Released(n))
            /\ Released(n)' = Released(n)
            /\ Cardinality(Released(n)) \in Nat
            /\ n \in WaitQueue /\ e_flags[n]
        BY <1>1, <2>1, CreditSays, ReleasedFinite
      <3> QED BY <1>2, <3>1
    <2> QED BY <2>1, CreditKept
  <1>4. EventTypeOK'
    <2>0. credit \in [WaitQueue -> Int] /\ credit[e] - 1 \in Int
      BY CreditInt
    <2>1. credit' \in [WaitQueue -> Int]
      BY <2>0 DEF consume
    <2>2. e_signalled' \in [WaitQueue -> BOOLEAN]
      BY EventParts DEF consume
    <2>3. ASSUME NEW n \in WaitQueue PROVE credit'[n] >= 0
      <3>1. CASE n = e /\ e_flags[e] /\ e_signalled[e]
        <4>1. e \in AutoEvents /\ e_magic[e]
          BY <3>1, EventParts
        <4>2. credit[e] = 1 + Cardinality(Released(e))
          BY <3>1, <4>1, CreditSays
        <4>3. Cardinality(Released(e)) \in Nat
          BY ReleasedFinite
        <4> QED BY <1>2, <3>1, <4>2, <4>3
      <3>2. CASE ~(n = e /\ e_flags[e] /\ e_signalled[e])
        BY <1>2, <3>2, EventParts
      <3> QED BY <3>1, <3>2
    <2> QED BY <2>1, <2>2, <2>3, EventParts DEF EventTypeOK
  <1>5. NoWaiterLeftBehind'
    BY <1>1, <1>2 DEF EventIInv, NoWaiterLeftBehind
  <1>6. FlagsAreFixed' /\ WakesAllOfPlain'
    BY <1>1 DEF EventIInv, FlagsAreFixed, WakesAllOfPlain
  <1> QED BY <1>1, <1>3, <1>4, <1>5, <1>6 DEF EventIInv

\* A wait that does not.
LEMMA WaitBlocks ==
  ASSUME EventIInv, NEW e \in WaitQueue, NEW timeout \in Timeout,
         EventWait(e, timeout), ~e_signalled[e]
  PROVE  /\ EventIInv'
         /\ Blocked(e, timeout)
         /\ wait_list' = [wait_list EXCEPT ![e] = Append(@, current_thread)]
         /\ UNCHANGED e_signalled
  <1>1. /\ e_magic[e] /\ WaitQueueBlock(e, timeout)
        /\ waiting' = [waiting EXCEPT ![current_thread] = e]
        /\ UNCHANGED <<e_magic, e_flags, e_signalled, credit>>
        /\ pc[current_thread] = "user"
    BY DEF EventWait, WaitQueueBlock, Calling
  <1>2. ThreadInv /\ ThreadInv'
    BY <1>1, BlockStep DEF EventIInv
  <1>3. /\ Blocked(e, timeout)
        /\ wait_list' = [wait_list EXCEPT ![e] = Append(@, current_thread)]
        /\ \A u \in Thread : pc'[u] # "wake_all"
    BY <1>1, <1>2, BlockBlocks
  <1>4. WaitsForEvent' /\ \A n \in WaitQueue : Released(n)' = Released(n)
    BY <1>1, <1>3, BlockedWaits
  <1>5. waiting' \in [Thread -> WaitQueue \cup {None}]
    BY <1>1, EventParts
  <1>6. EventTypeOK' /\ FlagsAreFixed' /\ WakesAllOfPlain'
    BY <1>1, <1>3, <1>5
       DEF EventIInv, EventTypeOK, FlagsAreFixed, WakesAllOfPlain
  <1>7. SignalsConserved'
    BY <1>1, <1>4, CreditSays, CreditKept
  <1>8. NoWaiterLeftBehind'
    <2> SUFFICES ASSUME NEW n \in WaitQueue, e_signalled[n] \/ ~e_magic[n]
                 PROVE  wait_list'[n] = <<>>
      BY <1>1 DEF NoWaiterLeftBehind
    <2>1. n # e
      BY <1>1
    <2>2. wait_list[n] = <<>>
      BY <1>1 DEF EventIInv, NoWaiterLeftBehind
    <2> QED BY <1>3, <2>1, <2>2, EventParts
  <1> QED BY <1>1, <1>2, <1>3, <1>4, <1>6, <1>7, <1>8 DEF EventIInv

\* A wait that is over takes the signal that released it, if one did.
LEMMA WaitReturns ==
  ASSUME EventIInv, EventWaitReturn
  PROVE  EventIInv' /\ wait_list' = wait_list /\ UNCHANGED e_signalled
  <1> DEFINE me == current_thread
  <1>0. PICK e, ret : e = waiting[me] /\ ret = wait_queue_block_ret[me]
    OBVIOUS
  <1>1. /\ wait_queue_block_return
        /\ waiting' = [waiting EXCEPT ![me] = None]
        /\ credit' = IF ret = "NO_ERROR" /\ e_flags[e]
                     THEN [credit EXCEPT ![e] = @ - 1] ELSE credit
        /\ UNCHANGED <<e_magic, e_signalled, e_flags>>
    BY <1>0 DEF EventWaitReturn
  <1>2. ThreadInv /\ ThreadInv'
    <2>1. /\ unwind("wait")
          /\ timer' = [timer EXCEPT ![current_thread] = "none"]
          /\ UNCHANGED wait_vars
      BY <1>1 DEF wait_queue_block_return
    <2> QED BY <2>1, UnwindStep DEF EventIInv
  <1>3. /\ WaitsForEvent' /\ e \in WaitQueue
        /\ \A n \in WaitQueue :
             /\ Released(n)' = Released(n) \ {me}
             /\ me \in Released(n) <=> ret = "NO_ERROR" /\ n = e
    BY <1>0, <1>1, <1>2, ReturnedWaits
  <1>4. /\ pc[me] = "wait" /\ wait_list' = wait_list
        /\ \A u \in Thread : pc'[u] # "wake_all"
    BY <1>1, <1>2, BlockReturns DEF wait_vars
  <1>5. ASSUME NEW n \in AutoEvents, e_magic[n]
        PROVE  credit'[n] = (IF e_signalled[n] THEN 1 ELSE 0)
                              + Cardinality(Released(n)')
    <2>1. /\ credit[n] = (IF e_signalled[n] THEN 1 ELSE 0)
                           + Cardinality(Released(n))
          /\ n \in WaitQueue /\ e_flags[n]
      BY <1>5, CreditSays
    <2>2. IsFiniteSet(Released(n)) /\ Cardinality(Released(n)) \in Nat
      BY ReleasedFinite
    <2>3. CASE n = e /\ ret = "NO_ERROR"
      <3>1. credit'[n] = credit[n] - 1
        BY <1>1, <1>3, <2>1, <2>3, EventParts
      <3>2. Cardinality(Released(n)') = Cardinality(Released(n)) - 1
        BY <1>3, <2>1, <2>2, <2>3, FS_RemoveElement
      <3> QED BY <2>1, <2>2, <3>1, <3>2
    <2>4. CASE ~(n = e /\ ret = "NO_ERROR")
      <3>1. credit'[n] = credit[n]
        BY <1>1, <1>3, <2>1, <2>4, EventParts
      <3>2. Released(n)' = Released(n)
        BY <1>3, <2>1, <2>4
      <3> QED BY <2>1, <3>1, <3>2
    <2> QED BY <2>3, <2>4
  <1>6. SignalsConserved'
    BY <1>1, <1>5, CreditKept
  <1>7. EventTypeOK'
    <2>0. credit \in [WaitQueue -> Int] /\ credit[e] - 1 \in Int
      BY <1>3, CreditInt
    <2>1. credit' \in [WaitQueue -> Int]
            /\ waiting' \in [Thread -> WaitQueue \cup {None}]
      BY <1>1, <2>0, EventParts
    <2>2. ASSUME NEW n \in WaitQueue PROVE credit'[n] >= 0
      <3>1. CASE n \in AutoEvents /\ e_magic[n]
        <4>1. Cardinality(Released(n)') \in Nat
          BY ReleasedFinite
        <4> QED BY <1>5, <3>1, <4>1
      <3>2. CASE ~(n \in AutoEvents /\ e_magic[n])
        BY <1>1, <3>2, EventParts
      <3> QED BY <3>1, <3>2
    <2> QED BY <1>1, <2>1, <2>2, EventParts DEF EventTypeOK
  <1>8. FlagsAreFixed' /\ WakesAllOfPlain'
    BY <1>1, <1>4 DEF EventIInv, FlagsAreFixed, WakesAllOfPlain
  <1>9. NoWaiterLeftBehind'
    BY <1>1, <1>4 DEF EventIInv, NoWaiterLeftBehind
  <1> QED BY <1>1, <1>2, <1>3, <1>4, <1>6, <1>7, <1>8, <1>9 DEF EventIInv

\* A signal nobody waits for.
LEMMA SignalStays ==
  ASSUME EventIInv, NEW e \in WaitQueue, e_flags[e], signal(e),
         wait_list[e] = <<>>, UNCHANGED thread_vars
  PROVE  EventIInv'
  <1>1. /\ e_magic[e] /\ ~e_signalled[e]
        /\ e_signalled' = [e_signalled EXCEPT ![e] = TRUE]
        /\ credit' = [credit EXCEPT ![e] = @ + 1]
        /\ UNCHANGED <<e_magic, e_flags, waiting>>
    BY EventParts DEF signal
  <1>2. /\ ThreadInv' /\ WaitsForEvent'
        /\ \A n : Released(n)' = Released(n)
        /\ UNCHANGED <<pc, current_thread, waking, wait_list>>
    BY <1>1, StillWaits
  <1>3. EventTypeOK' /\ FlagsAreFixed' /\ WakesAllOfPlain'
    BY <1>1, <1>2, EventParts
       DEF EventIInv, EventTypeOK, FlagsAreFixed, WakesAllOfPlain
  <1>4. \A n \in WaitQueue :
          /\ n # e => e_signalled'[n] = e_signalled[n] /\ credit'[n] = credit[n]
          /\ n = e => e_signalled'[n] /\ credit'[n] = credit[n] + 1
    BY <1>1, EventParts
  <1>5. SignalsConserved'
    <2>1. ASSUME NEW n \in AutoEvents, e_magic'[n]
          PROVE  credit'[n] = (IF e_signalled'[n] THEN 1 ELSE 0)
                                + Cardinality(Released(n)')
      <3>1. /\ credit[n] = (IF e_signalled[n] THEN 1 ELSE 0)
                             + Cardinality(Released(n))
            /\ Released(n)' = Released(n) /\ n \in WaitQueue
            /\ Cardinality(Released(n)) \in Nat
        BY <1>1, <1>2, <2>1, CreditSays, ReleasedFinite
      <3>2. CASE n = e
        <4>1. credit[n] = Cardinality(Released(n))
          BY <1>1, <3>1, <3>2
        <4>2. e_signalled'[n] /\ credit'[n] = credit[n] + 1
          BY <1>4, <3>1, <3>2
        <4> QED BY <3>1, <4>1, <4>2
      <3>3. CASE n # e
        BY <1>4, <3>1, <3>3
      <3> QED BY <3>2, <3>3
    <2> QED BY <2>1, CreditKept
  <1>6. NoWaiterLeftBehind'
    <2> SUFFICES ASSUME NEW n \in WaitQueue, e_signalled'[n] \/ ~e_magic[n],
                        ~(pc[current_thread] = "wake_all" /\ waking.queue = n)
                 PROVE  wait_list[n] = <<>>
      BY <1>1, <1>2 DEF NoWaiterLeftBehind
    <2> QED BY <1>4 DEF EventIInv, NoWaiterLeftBehind
  <1> QED BY <1>2, <1>3, <1>5, <1>6 DEF EventIInv

\* What the two ways to wake the head of the queue have in common.
LEMMA WakesHead ==
  ASSUME EventIInv, NEW e \in WaitQueue, wait_list[e] # <<>>,
         \/ \E reschedule \in BOOLEAN :
              WaitQueueWakeOne(e, reschedule, "NO_ERROR")
         \/ DeviceWakeOne(e)
  PROVE  /\ ThreadInv'
         /\ \E t \in Thread : /\ Woke(t, "NO_ERROR")
                              /\ waiting[t] = e /\ t = Head(wait_list[e])
         /\ wait_list' = [wait_list EXCEPT ![e] = Tail(@)]
         /\ \A u \in Thread : pc[u] # "wake_all" /\ pc'[u] # "wake_all"
  <1> DEFINE t == Head(wait_list[e])
  <1>0. "NO_ERROR" \in Status
    BY DEF Status
  <1>1. ThreadInv /\ ThreadInv'
    BY NextInv DEF EventIInv, ClientNext, ThreadNext
  <1>2. CASE \E reschedule \in BOOLEAN :
               WaitQueueWakeOne(e, reschedule, "NO_ERROR")
    <2>1. PICK reschedule \in BOOLEAN :
            WaitQueueWakeOne(e, reschedule, "NO_ERROR")
      BY <1>2
    <2>2. /\ Woke(t, "NO_ERROR") /\ t \in Thread
          /\ blocking_wait_queue[t] = e
          /\ wait_list' = [wait_list EXCEPT ![e] = Tail(@)]
          /\ \A u \in Thread : pc'[u] # "wake_all"
      BY <1>0, <1>1, <2>1, WakeOneWakes
    <2>3. pc[current_thread] = "user"
      BY <2>1 DEF WaitQueueWakeOne, Calling
    <2>4. \A u \in Thread : pc[u] # "wake_all"
      BY <1>1, <2>3 DEF ThreadInv, WakingUp
    <2> HIDE DEF t
    <2>5. waiting[t] = e
      BY <2>2 DEF EventIInv, WaitsForEvent, Woke
    <2>6. \E u \in Thread : Woke(u, "NO_ERROR") /\ waiting[u] = e /\ u = t
      BY <2>2, <2>5
    <2> QED BY <1>1, <2>2, <2>4, <2>6 DEF t
  <1>3. CASE DeviceWakeOne(e)
    <2>1. /\ pc[current_thread] = "device" /\ take_waiter(e, t, "NO_ERROR")
          /\ state' = [state EXCEPT ![t] = "READY"]
          /\ UNCHANGED <<pc, timer>>
      BY <1>3 DEF DeviceWakeOne, wait_queue_wake_one
    <2> HIDE DEF t
    <2>2. /\ Woke(t, "NO_ERROR") /\ t \in Thread
          /\ blocking_wait_queue[t] = e
          /\ wait_list' = [wait_list EXCEPT ![e] = Tail(@)]
      BY <1>0, <1>1, <2>1, QuietWakeWakes DEF t
    <2>3. \A u \in Thread : pc[u] # "wake_all" /\ pc'[u] # "wake_all"
      BY <1>1, <2>1 DEF ThreadInv, WakingUp
    <2>5. waiting[t] = e
      BY <2>2 DEF EventIInv, WaitsForEvent, Woke
    <2>6. \E u \in Thread : Woke(u, "NO_ERROR") /\ waiting[u] = e /\ u = t
      BY <2>2, <2>5
    <2> QED BY <1>1, <2>2, <2>3, <2>6 DEF t
  <1> QED BY <1>2, <1>3

\* A signal that releases the thread that has waited longest.
LEMMA SignalReleases ==
  ASSUME EventIInv, NEW e \in WaitQueue, e_flags[e], signal(e),
         wait_list[e] # <<>>,
         \/ \E reschedule \in BOOLEAN :
              WaitQueueWakeOne(e, reschedule, "NO_ERROR")
         \/ DeviceWakeOne(e)
  PROVE  EventIInv'
  <1>1. /\ e_magic[e] /\ ~e_signalled[e]
        /\ e_signalled' = [e_signalled EXCEPT ![e] = FALSE]
        /\ credit' = [credit EXCEPT ![e] = @ + 1]
        /\ UNCHANGED <<e_magic, e_flags, waiting>>
    BY EventParts DEF signal
  <1>2. e_signalled' = e_signalled
    BY <1>1, EventParts
  <1>3. /\ ThreadInv'
        /\ wait_list' = [wait_list EXCEPT ![e] = Tail(@)]
        /\ \A u \in Thread : pc[u] # "wake_all" /\ pc'[u] # "wake_all"
    BY WakesHead
  <1>4. PICK t \in Thread : Woke(t, "NO_ERROR") /\ waiting[t] = e
    BY WakesHead
  <1>5. /\ WaitsForEvent'
        /\ t \notin Released(e) /\ Released(e)' = Released(e) \cup {t}
        /\ \A n \in WaitQueue : n # e => Released(n)' = Released(n)
    BY <1>1, <1>4, WokenWaits
  <1>6. EventTypeOK' /\ FlagsAreFixed' /\ WakesAllOfPlain'
    BY <1>1, <1>2, <1>3, EventParts
       DEF EventIInv, EventTypeOK, FlagsAreFixed, WakesAllOfPlain
  <1>7. SignalsConserved'
    <2>1. ASSUME NEW n \in AutoEvents, e_magic[n]
          PROVE  credit'[n] = (IF e_signalled[n] THEN 1 ELSE 0)
                                + Cardinality(Released(n)')
      <3>1. /\ credit[n] = (IF e_signalled[n] THEN 1 ELSE 0)
                             + Cardinality(Released(n))
            /\ n \in WaitQueue /\ Cardinality(Released(n)) \in Nat
            /\ IsFiniteSet(Released(n))
        BY <2>1, CreditSays, ReleasedFinite
      <3>2. CASE n = e
        <4>1. Cardinality(Released(e)') = Cardinality(Released(e)) + 1
          BY <1>5, <3>1, <3>2, FS_AddElement
        <4>2. credit'[e] = credit[e] + 1
          BY <1>1, EventParts
        <4> QED BY <1>1, <3>1, <3>2, <4>1, <4>2
      <3>3. CASE n # e
        BY <1>1, <1>5, <3>1, <3>3, EventParts
      <3> QED BY <3>2, <3>3
    <2> QED BY <1>1, <1>2, <2>1, CreditKept
  <1>8. NoWaiterLeftBehind'
    <2> SUFFICES ASSUME NEW n \in WaitQueue, e_signalled[n] \/ ~e_magic[n]
                 PROVE  wait_list'[n] = <<>>
      BY <1>1, <1>2 DEF NoWaiterLeftBehind
    <2>1. n # e
      BY <1>1
    <2>2. wait_list[n] = <<>>
      BY <1>3, EventParts DEF EventIInv, NoWaiterLeftBehind
    <2> QED BY <1>3, <2>1, <2>2, EventParts
  <1> QED BY <1>3, <1>5, <1>6, <1>7, <1>8 DEF EventIInv

\* A call that begins to wake all waiters, and changes only a plain event or
\* one that it destroys.
LEMMA WakeAllStarts ==
  ASSUME EventIInv, NEW e \in WaitQueue, NEW reschedule \in BOOLEAN,
         NEW error \in {"NO_ERROR", "ERR_OBJECT_DESTROYED"},
         WaitQueueWakeAll(e, reschedule, error), UNCHANGED <<waiting, credit>>,
         e_magic' \in [WaitQueue -> BOOLEAN],
         e_signalled' \in [WaitQueue -> BOOLEAN],
         e_flags' \in [WaitQueue -> BOOLEAN], ~e_flags'[e],
         FlagsAreFixed',
         \A n \in WaitQueue : n # e => /\ e_magic'[n] = e_magic[n]
                                       /\ e_signalled'[n] = e_signalled[n]
                                       /\ e_flags'[n] = e_flags[n]
  PROVE  EventIInv' /\ Undisturbed
  <1>1. ThreadInv /\ ThreadInv'
    BY NextInv DEF EventIInv, ClientNext, ThreadNext
  <1>2. error \in Status
    BY DEF Status
  <1>3. /\ Undisturbed /\ waking'.queue = e
        /\ current_thread' = current_thread
        /\ pc'[current_thread] = "wake_all"
    BY <1>1, <1>2, WakeAllBegins
  <1>4. pc[current_thread] = "user"
    BY DEF WaitQueueWakeAll, Calling
  <1>5. WaitsForEvent' /\ \A n \in WaitQueue : Released(n)' = Released(n)
    BY <1>3, UndisturbedWaits
  <1>6. EventTypeOK'
    BY EventParts DEF EventTypeOK
  <1>7. WakesAllOfPlain'
    BY <1>3 DEF WakesAllOfPlain
  <1>8. SignalsConserved'
    <2>1. ASSUME NEW n \in AutoEvents, e_magic'[n]
          PROVE  credit'[n] = (IF e_signalled'[n] THEN 1 ELSE 0)
                                + Cardinality(Released(n)')
      <3>1. n \in WaitQueue /\ n # e
        BY <2>1, EventAssumption DEF FlagsAreFixed
      <3> QED BY <1>5, <2>1, <3>1, CreditSays
    <2> QED BY <2>1, CreditKept
  <1>9. NoWaiterLeftBehind'
    <2> SUFFICES ASSUME NEW n \in WaitQueue, e_signalled'[n] \/ ~e_magic'[n],
                        n # e
                 PROVE  wait_list'[n] = <<>>
      BY <1>3 DEF NoWaiterLeftBehind
    <2>1. wait_list[n] = <<>>
      BY <1>4 DEF EventIInv, NoWaiterLeftBehind
    <2> QED BY <1>3, <2>1 DEF Undisturbed
  <1> QED BY <1>1, <1>3, <1>5, <1>6, <1>7, <1>8, <1>9 DEF EventIInv

\* event_signal of a plain event.
LEMMA SignalAllStep ==
  ASSUME EventIInv, NEW e \in WaitQueue, NEW reschedule \in BOOLEAN,
         EventSignalAll(e, reschedule)
  PROVE  EventIInv' /\ Undisturbed
  <1>1. /\ ~e_flags[e] /\ WaitQueueWakeAll(e, reschedule, "NO_ERROR")
        /\ e_signalled' = [e_signalled EXCEPT ![e] = TRUE]
        /\ credit' = [credit EXCEPT ![e] = @]
        /\ UNCHANGED <<e_magic, e_flags, waiting>>
    BY EventParts DEF EventSignalAll, signal
  <1>2. /\ credit' = credit /\ e_signalled' \in [WaitQueue -> BOOLEAN]
        /\ \A n \in WaitQueue : n # e => e_signalled'[n] = e_signalled[n]
    BY <1>1, EventParts
  <1>3. FlagsAreFixed'
    BY <1>1 DEF EventIInv, FlagsAreFixed
  <1> QED BY <1>1, <1>2, <1>3, EventParts, WakeAllStarts, ZenonT(60)

\* event_destroy
LEMMA EventDestroyStep ==
  ASSUME EventIInv, NEW e \in WaitQueue, EventDestroy(e)
  PROVE  EventIInv' /\ Undisturbed
  <1>1. /\ e_magic' = [e_magic EXCEPT ![e] = FALSE]
        /\ e_signalled' = [e_signalled EXCEPT ![e] = FALSE]
        /\ e_flags' = [e_flags EXCEPT ![e] = FALSE]
        /\ WaitQueueWakeAll(e, TRUE, "ERR_OBJECT_DESTROYED")
        /\ UNCHANGED <<waiting, credit>>
    BY DEF EventDestroy
  <1>2. /\ e_magic' \in [WaitQueue -> BOOLEAN]
        /\ e_signalled' \in [WaitQueue -> BOOLEAN]
        /\ e_flags' \in [WaitQueue -> BOOLEAN] /\ ~e_flags'[e] /\ ~e_magic'[e]
        /\ \A n \in WaitQueue : n # e => /\ e_magic'[n] = e_magic[n]
                                         /\ e_signalled'[n] = e_signalled[n]
                                         /\ e_flags'[n] = e_flags[n]
    BY <1>1, EventParts
  <1>3. FlagsAreFixed'
    BY <1>2, EventParts DEF FlagsAreFixed
  <1> QED BY <1>1, <1>2, <1>3, WakeAllStarts

-----------------------------------------------------------------------------
(* The invariant.                                                          *)

\* In the beginning no event is signalled and nobody waits.
LEMMA EventInitInv == EventInit => EventIInv
  <1> SUFFICES ASSUME EventInit PROVE EventIInv
    OBVIOUS
  <1>1. ThreadInv
    BY InitInv DEF EventInit
  <1>2. \A t \in Thread : /\ waiting[t] = None
                          /\ pc[t] \in {"boot", "new"}
                          /\ state[t] \in {"RUNNING", "FREE"}
    BY DEF EventInit, ThreadInit
  <1>3. \A e \in WaitQueue : /\ e_magic[e] /\ e_signalled[e] \in BOOLEAN
                             /\ credit[e] = IF e \in AutoEvents /\ e_signalled[e]
                                            THEN 1 ELSE 0
                             /\ e_flags[e] <=> e \in AutoEvents
                             /\ wait_list[e] = <<>>
    BY DEF EventInit, ThreadInit
  <1>4. EventTypeOK
    BY DEF EventInit, EventTypeOK
  <1>5. FlagsAreFixed /\ WaitsForEvent /\ WakesAllOfPlain /\ NoWaiterLeftBehind
    BY <1>2, <1>3
       DEF FlagsAreFixed, WaitsForEvent, WakesAllOfPlain, NoWaiterLeftBehind
  <1>6. SignalsConserved
    <2>1. ASSUME NEW e \in WaitQueue PROVE Cardinality(Released(e)) = 0
      <3>1. Released(e) = {}
        BY <1>2, ThreadAssumption DEF Released
      <3> QED BY <3>1, FS_EmptySet
    <2> QED BY <1>3, <2>1, EventAssumption DEF SignalsConserved
  <1> QED BY <1>1, <1>4, <1>5, <1>6 DEF EventIInv

\* Every operation of an event keeps the invariant.
LEMMA EventCallsInv ==
  ASSUME EventIInv, NEW e \in WaitQueue,
         \/ \E timeout \in WaitTimeouts : EventWait(e, timeout)
         \/ \E reschedule \in BOOLEAN :
              EventSignalAuto(e, reschedule) \/ EventSignalAll(e, reschedule)
         \/ EventUnsignal(e)
         \/ e \in DeviceEvents /\ DeviceSignal(e)
         \/ EventDestroy(e)
  PROVE  EventIInv'
  <1>1. ASSUME NEW timeout \in WaitTimeouts, EventWait(e, timeout)
        PROVE  EventIInv'
    <2>1. timeout \in Timeout
      BY EventAssumption
    <2>2. CASE e_signalled[e]
      BY <1>1, <2>2, TakeSignal DEF EventWait
    <2>3. CASE ~e_signalled[e]
      BY <1>1, <2>1, <2>3, WaitBlocks
    <2> QED BY <2>2, <2>3
  <1>2. ASSUME NEW reschedule \in BOOLEAN, EventSignalAuto(e, reschedule)
        PROVE  EventIInv'
    <2>1. e_flags[e] /\ signal(e)
      BY <1>2 DEF EventSignalAuto
    <2>2. CASE wait_list[e] = <<>>
      BY <1>2, <2>1, <2>2, SignalStays DEF EventSignalAuto
    <2>3. CASE wait_list[e] # <<>>
      BY <1>2, <2>1, <2>3, SignalReleases DEF EventSignalAuto
    <2> QED BY <2>2, <2>3
  <1>3. ASSUME NEW reschedule \in BOOLEAN, EventSignalAll(e, reschedule)
        PROVE  EventIInv'
    BY <1>3, SignalAllStep
  <1>4. CASE EventUnsignal(e)
    BY <1>4, TakeSignal DEF EventUnsignal
  <1>5. CASE e \in DeviceEvents /\ DeviceSignal(e)
    <2>1. signal(e) /\ e_magic[e]
      BY <1>5 DEF DeviceSignal, signal
    <2>2. e_flags[e]
      BY <1>5, <2>1, EventParts, EventAssumption
    <2>3. CASE wait_list[e] = <<>>
      BY <1>5, <2>1, <2>2, <2>3, SignalStays DEF DeviceSignal
    <2>4. CASE wait_list[e] # <<>>
      BY <1>5, <2>1, <2>2, <2>4, SignalReleases DEF DeviceSignal
    <2> QED BY <2>3, <2>4
  <1>6. CASE EventDestroy(e)
    BY <1>6, EventDestroyStep
  <1> QED BY <1>1, <1>2, <1>3, <1>4, <1>5, <1>6

\* Every step does.
LEMMA EventNextInv == EventIInv /\ [EventNext]_event_all_vars => EventIInv'
  <1> SUFFICES ASSUME EventIInv, [EventNext]_event_all_vars
               PROVE  EventIInv'
    OBVIOUS
  <1>1. CASE KernelNext /\ UNCHANGED event_vars
    BY <1>1, KernelKeepsEvents
  <1>2. CASE EventWaitReturn
    BY <1>2, WaitReturns
  <1>3. CASE UNCHANGED event_all_vars
    <2>1. UNCHANGED <<thread_vars, waiting>>
            /\ UNCHANGED <<e_magic, e_signalled, e_flags, credit>>
      BY <1>3 DEF event_all_vars, event_vars
    <2>2. /\ ThreadInv' /\ WaitsForEvent'
          /\ \A e : Released(e)' = Released(e)
          /\ UNCHANGED <<pc, current_thread, waking, wait_list>>
      BY <2>1, StillWaits
    <2>3. SignalsConserved'
      BY <2>1, <2>2, CreditSays, CreditKept
    <2> QED BY <2>1, <2>2, <2>3
            DEF EventIInv, EventTypeOK, FlagsAreFixed, WakesAllOfPlain,
                NoWaiterLeftBehind
  <1> QED BY <1>1, <1>2, <1>3, EventCallsInv, EventAssumption DEF EventNext

\* The code of an event moves threads only through the functions of the
\* scheduler and the wait queues.
LEMMA EventsAreClients ==
  ASSUME [EventNext]_event_all_vars
  PROVE  [ClientNext]_thread_vars
  <1>1. CASE KernelNext \/ EventWaitReturn
    BY <1>1 DEF ClientNext, ThreadNext, EventWaitReturn
  <1>2. ASSUME NEW e \in WaitQueue, NEW timeout \in WaitTimeouts,
               EventWait(e, timeout)
        PROVE  [ClientNext]_thread_vars
    <2>1. timeout \in Timeout
      BY EventAssumption
    <2>2. WaitQueueBlock(e, timeout) \/ UNCHANGED thread_vars
      BY <1>2 DEF EventWait, WaitQueueBlock
    <2> QED BY <2>1, <2>2 DEF ClientNext
  <1>3. ASSUME NEW e \in WaitQueue, NEW reschedule \in BOOLEAN,
               EventSignalAuto(e, reschedule) \/ EventSignalAll(e, reschedule)
        PROVE  [ClientNext]_thread_vars
    BY <1>3 DEF EventSignalAuto, EventSignalAll, ClientNext, ThreadNext
  <1>4. ASSUME NEW e \in WaitQueue,
               EventUnsignal(e) \/ DeviceSignal(e) \/ EventDestroy(e)
        PROVE  [ClientNext]_thread_vars
    BY <1>4 DEF EventUnsignal, DeviceSignal, EventDestroy, ClientNext,
                ThreadNext
  <1>5. CASE UNCHANGED event_all_vars
    BY <1>5 DEF event_all_vars
  <1> QED BY <1>1, <1>2, <1>3, <1>4, <1>5, EventAssumption DEF EventNext

\* The strengthening is an invariant: the theorems follow from it.
LEMMA EventKeeps == EventSpec => []EventIInv
  BY EventInitInv, EventNextInv, PTL DEF EventSpec

\* The invariant holds, whatever threads and devices do with the events and
\* however timers and interrupts fall, up to the first call by a thread that
\* holds a leaked section: the steps of EventSpec are those of the code.
THEOREM EventInvariant ==
  ASSUME ~LeakersCall
  PROVE  EventSpec => [](EventIInv /\ CallsAreMasked)
  <1>1. EventInit => CallsAreMasked
    BY InitMasked DEF EventInit
  <1>2. EventIInv /\ CallsAreMasked /\ [EventNext]_event_all_vars
          => CallsAreMasked'
    BY EventsAreClients, NextMasked DEF EventIInv
  <1> QED BY <1>1, <1>2, EventInitInv, EventNextInv, PTL DEF EventSpec

\* No wake-up is lost: event_signal and event_destroy leave nobody on the wait
\* queue of an event that is signalled or gone.
THEOREM NoWakeUpIsLost ==
  ASSUME ~LeakersCall
  PROVE  EventSpec => []EventInv
  <1>1. EventIInv => EventInv
    BY DEF EventIInv, EventInv
  <1> QED BY <1>1, EventKeeps, PTL

\* Every signal an auto-unsignal event accepts ends in one successful wait or
\* in event_unsignal, however late the released thread runs.
THEOREM SignalsAreConserved ==
  ASSUME ~LeakersCall
  PROVE  EventSpec => []SignalsConserved
  <1>1. EventIInv => SignalsConserved
    BY DEF EventIInv
  <1> QED BY <1>1, EventKeeps, PTL

-----------------------------------------------------------------------------
(* The waiters of a destroyed event.                                       *)

\* A wake-up of all the waiters of an event that is gone is that by
\* event_destroy.
WakesWithError ==
  \A t \in Thread : pc[t] = "wake_all" /\ ~e_magic[waking.queue] =>
                      waking.error = "ERR_OBJECT_DESTROYED"

\* Whom a step takes off the queue of a destroyed event it gives the error.
FailsDestroyed ==
  \A t \in Thread :
    ( /\ state[t] = "BLOCKED" /\ state'[t] # "BLOCKED"
      /\ waiting[t] # None /\ ~e_magic'[waiting[t]] )
      => wait_queue_block_ret'[t] = "ERR_OBJECT_DESTROYED"

\* A step of the kernel: the loop of event_destroy goes on, and no timer is
\* left to expire for a waiter of an event that is gone.
LEMMA KernelFailsDestroyed ==
  ASSUME EventIInv, WakesWithError, KernelNext, UNCHANGED event_vars
  PROVE  WakesWithError' /\ FailsDestroyed
  <1>1. /\ ThreadInv /\ ThreadInv' /\ SameWakeUp /\ UNCHANGED <<e_magic, waiting>>
    BY KernelStepsInv, ThreadCallsInv, WakeUpSame
       DEF EventIInv, KernelNext, event_vars
  <1>2. WakesWithError'
    BY <1>1 DEF WakesWithError, SameWakeUp
  <1>3. ASSUME Undisturbed PROVE FailsDestroyed
    BY <1>3 DEF Undisturbed, FailsDestroyed
  <1>4. ASSUME WakeAllStep PROVE FailsDestroyed
    <2>1. PICK t \in Thread : /\ Woke(t, waking.error)
                              /\ waiting[t] = waking.queue
      BY <1>1, <1>4, WakeAllTurn
    <2>2. pc[current_thread] = "wake_all" /\ current_thread \in Thread
      BY <1>1, <1>4, WakeAllTurn, EventParts
    <2> QED BY <1>1, <2>1, <2>2 DEF Woke, WakesWithError, FailsDestroyed
  <1>5. ASSUME NEW t \in Thread, WaitTimer(t), state[t] = "BLOCKED"
        PROVE  FailsDestroyed
    <2>1. /\ Woke(t, "ERR_TIMED_OUT") /\ waiting[t] \in WaitQueue
          /\ wait_list[waiting[t]] # <<>> /\ pc[current_thread] # "wake_all"
      BY <1>1, <1>5, TimerTurn
    <2>2. e_magic[waiting[t]]
      BY <2>1 DEF EventIInv, NoWaiterLeftBehind
    <2> QED BY <1>1, <2>1, <2>2 DEF Woke, FailsDestroyed
  <1> QED BY <1>1, <1>2, <1>3, <1>4, <1>5, KernelTurns

\* An operation of an event: it releases a thread of an event that lasts, or
\* begins to release all.
LEMMA EventCallsFailDestroyed ==
  ASSUME EventIInv, WakesWithError, NEW e \in WaitQueue,
         \/ \E timeout \in WaitTimeouts : EventWait(e, timeout)
         \/ \E reschedule \in BOOLEAN :
              EventSignalAuto(e, reschedule) \/ EventSignalAll(e, reschedule)
         \/ EventUnsignal(e) \/ DeviceSignal(e) \/ EventDestroy(e)
  PROVE  WakesWithError' /\ FailsDestroyed
  <1>1. CASE UNCHANGED <<thread_vars, e_magic, waiting>>
    <2>1. UNCHANGED <<pc, state, waking, e_magic>>
      BY <1>1 DEF thread_vars, sched_vars
    <2> QED BY <2>1 DEF WakesWithError, FailsDestroyed
  <1>2. ASSUME NEW timeout \in WaitTimeouts, EventWait(e, timeout),
               ~e_signalled[e]
        PROVE  WakesWithError' /\ FailsDestroyed
    <2>1. timeout \in Timeout /\ ThreadInv /\ ThreadInv'
      BY <1>2, EventAssumption, WaitBlocks DEF EventIInv
    <2>2. WaitQueueBlock(e, timeout)
      BY <1>2 DEF EventWait, WaitQueueBlock
    <2>3. Blocked(e, timeout) /\ \A u \in Thread : pc'[u] # "wake_all"
      BY <2>1, <2>2, BlockBlocks
    <2> QED BY <2>3 DEF Blocked, WakesWithError, FailsDestroyed
  <1>3. ASSUME signal(e), wait_list[e] # <<>>,
               \/ \E reschedule \in BOOLEAN :
                    WaitQueueWakeOne(e, reschedule, "NO_ERROR")
               \/ DeviceWakeOne(e)
        PROVE  WakesWithError' /\ FailsDestroyed
    <2>1. e_magic'[e] /\ waiting' = waiting
      BY <1>3 DEF signal
    <2>2. \A u \in Thread : pc'[u] # "wake_all"
      BY <1>3, WakesHead
    <2>3. PICK t \in Thread : Woke(t, "NO_ERROR") /\ waiting[t] = e
      BY <1>3, WakesHead
    <2> QED BY <2>1, <2>2, <2>3 DEF Woke, WakesWithError, FailsDestroyed
  <1>4. ASSUME NEW reschedule \in BOOLEAN,
               NEW error \in {"NO_ERROR", "ERR_OBJECT_DESTROYED"},
               WaitQueueWakeAll(e, reschedule, error),
               e_magic'[e] \/ error = "ERR_OBJECT_DESTROYED"
        PROVE  WakesWithError' /\ FailsDestroyed
    <2>1. ThreadInv /\ ThreadInv'
      BY <1>4, NextInv DEF EventIInv, ClientNext, ThreadNext
    <2>2. Undisturbed /\ waking'.queue = e /\ waking'.error = error
      BY <1>4, <2>1, WakeAllBegins DEF Status
    <2> QED BY <1>4, <2>2 DEF Undisturbed, WakesWithError, FailsDestroyed
  <1>5. ASSUME NEW timeout \in WaitTimeouts, EventWait(e, timeout)
        PROVE  WakesWithError' /\ FailsDestroyed
    <2>1. CASE e_signalled[e]
      BY <1>1, <1>5, <2>1 DEF EventWait
    <2> QED BY <1>2, <1>5, <2>1
  <1>6. ASSUME NEW reschedule \in BOOLEAN, EventSignalAuto(e, reschedule)
        PROVE  WakesWithError' /\ FailsDestroyed
    BY <1>1, <1>3, <1>6 DEF EventSignalAuto, signal
  <1>7. ASSUME NEW reschedule \in BOOLEAN, EventSignalAll(e, reschedule)
        PROVE  WakesWithError' /\ FailsDestroyed
    BY <1>4, <1>7 DEF EventSignalAll, signal
  <1>8. CASE EventUnsignal(e)
    BY <1>1, <1>8 DEF EventUnsignal
  <1>9. CASE DeviceSignal(e)
    BY <1>1, <1>3, <1>9 DEF DeviceSignal, signal
  <1>10. CASE EventDestroy(e)
    BY <1>4, <1>10 DEF EventDestroy
  <1> QED BY <1>5, <1>6, <1>7, <1>8, <1>9, <1>10

\* Every step.
LEMMA NextFailsDestroyed ==
  ASSUME EventIInv, WakesWithError, [EventNext]_event_all_vars
  PROVE  WakesWithError' /\ [FailsDestroyed]_event_all_vars
  <1>1. CASE KernelNext /\ UNCHANGED event_vars
    BY <1>1, KernelFailsDestroyed
  <1>2. CASE EventWaitReturn
    <2>1. /\ wait_queue_block_return /\ UNCHANGED <<wait_vars, e_magic>>
          /\ ThreadInv /\ ThreadInv'
      BY <1>2, WaitReturns
         DEF EventWaitReturn, wait_queue_block_return, EventIInv
    <2>2. \A t \in Thread : state'[t] = "BLOCKED" <=> state[t] = "BLOCKED"
      BY <2>1, BlockedSame
    <2>3. \A u \in Thread : pc'[u] # "wake_all"
      BY <2>1, BlockReturns
    <2> QED BY <2>2, <2>3 DEF WakesWithError, FailsDestroyed
  <1>3. CASE UNCHANGED event_all_vars
    <2>1. UNCHANGED <<pc, waking, e_magic>>
      BY <1>3 DEF event_all_vars, event_vars, thread_vars, sched_vars
    <2> QED BY <1>3, <2>1 DEF WakesWithError
  <1> QED BY <1>1, <1>2, <1>3, EventCallsFailDestroyed, EventAssumption
          DEF EventNext

\* Whoever waits for an event when it is destroyed comes back with an error,
\* whatever timers, interrupts and other threads do meanwhile.
THEOREM DestroyedWaitsFail ==
  ASSUME ~LeakersCall
  PROVE  EventSpec => DestroyedWaitFails
  <1>1. EventInit => WakesWithError
    BY DEF EventInit, ThreadInit, WakesWithError
  <1>2. EventIInv /\ WakesWithError /\ [EventNext]_event_all_vars =>
          WakesWithError'
    BY NextFailsDestroyed
  <1>3. EventIInv /\ WakesWithError /\ [EventNext]_event_all_vars =>
          [\A t \in Thread :
             ( /\ state[t] = "BLOCKED" /\ state'[t] # "BLOCKED"
               /\ waiting[t] # None /\ ~e_magic'[waiting[t]] )
               => wait_queue_block_ret'[t] = "ERR_OBJECT_DESTROYED"
          ]_event_all_vars
    BY NextFailsDestroyed DEF FailsDestroyed
  <1> QED BY <1>1, <1>2, <1>3, EventKeeps, PTL DEF EventSpec, DestroyedWaitFails

-----------------------------------------------------------------------------
(* Events on the scheduler, and as semaphores.                             *)

\* So whatever holds of the scheduler under any clients holds under events:
\* the order of dispatch, and results of waits that do not change.
THEOREM EventsKeepTheScheduler ==
  ASSUME ~LeakersCall
  PROVE  EventSpec => []KernelInv /\ DispatchesHighest /\ WakeResultSettled
  <1>1. EventInit => ThreadInit
    BY DEF EventInit
  <1> QED BY <1>1, EventsAreClients, SchedulerServesClients, PTL DEF EventSpec

\* What the clients of the auto-unsignal events see, as Event maps it.
sem_signalled == [e \in AutoEvents |-> e_signalled[e]]
sem_queue == [e \in AutoEvents |-> wait_list[e]]
SemaphoresQuiet == UNCHANGED <<sem_signalled, sem_queue>>

\* The invariant, if no auto-unsignal event is ever destroyed.
LastingInv == EventIInv /\ \A e \in AutoEvents : e_magic[e]

\* The variables of the semaphores, in a step that changes the lists of w at
\* most, and in one that changes one event at most.
LEMMA SemaphoreVars ==
  ASSUME EventIInv
  PROVE  /\ UNCHANGED e_signalled => UNCHANGED sem_signalled
         /\ UNCHANGED wait_list => UNCHANGED sem_queue
         /\ \A w \in WaitQueue : \A list :
              wait_list' = [wait_list EXCEPT ![w] = list] =>
                /\ w \in AutoEvents =>
                     sem_queue' = [sem_queue EXCEPT ![w] = list]
                /\ w \notin AutoEvents => UNCHANGED sem_queue
         /\ \A w \in WaitQueue : \A on :
              e_signalled' = [e_signalled EXCEPT ![w] = on] =>
                /\ w \in AutoEvents =>
                     sem_signalled' = [sem_signalled EXCEPT ![w] = on]
                /\ w \notin AutoEvents => UNCHANGED sem_signalled
         /\ \A e \in AutoEvents : /\ sem_signalled[e] = e_signalled[e]
                                  /\ sem_queue[e] = wait_list[e]
                                  /\ e \in WaitQueue
  <1>1. /\ AutoEvents \subseteq WaitQueue
        /\ wait_list \in [WaitQueue -> Seq(Thread)]
        /\ e_signalled \in [WaitQueue -> BOOLEAN]
    BY EventParts, EventAssumption
  <1>2. ASSUME NEW w \in WaitQueue, NEW list,
               wait_list' = [wait_list EXCEPT ![w] = list]
        PROVE  /\ w \in AutoEvents =>
                    sem_queue' = [sem_queue EXCEPT ![w] = list]
               /\ w \notin AutoEvents => UNCHANGED sem_queue
    BY <1>1, <1>2 DEF sem_queue
  <1>3. ASSUME NEW w \in WaitQueue, NEW on,
               e_signalled' = [e_signalled EXCEPT ![w] = on]
        PROVE  /\ w \in AutoEvents =>
                    sem_signalled' = [sem_signalled EXCEPT ![w] = on]
               /\ w \notin AutoEvents => UNCHANGED sem_signalled
    BY <1>1, <1>3 DEF sem_signalled
  <1>4. /\ UNCHANGED e_signalled => UNCHANGED sem_signalled
        /\ UNCHANGED wait_list => UNCHANGED sem_queue
        /\ \A e \in AutoEvents : /\ sem_signalled[e] = e_signalled[e]
                                 /\ sem_queue[e] = wait_list[e]
                                 /\ e \in WaitQueue
    BY <1>1 DEF sem_signalled, sem_queue
  <1> QED BY <1>2, <1>3, <1>4

\* The actions of the semaphores on these variables.
LEMMA SemaphoreActions ==
  ASSUME NEW e, NEW c
  PROVE  /\ Semaphores!Asleep(c) <=>
              \E n \in AutoEvents : \E i \in DOMAIN sem_queue[n] :
                sem_queue[n][i] = c
         /\ Semaphores!Wait(e, c) <=>
              IF sem_signalled[e]
              THEN /\ sem_signalled' = [sem_signalled EXCEPT ![e] = FALSE]
                   /\ UNCHANGED sem_queue
              ELSE /\ sem_queue' = [sem_queue EXCEPT ![e] = Append(@, c)]
                   /\ UNCHANGED sem_signalled
         /\ Semaphores!Signal(e) <=>
              IF sem_signalled[e] THEN SemaphoresQuiet
              ELSE IF sem_queue[e] = <<>>
              THEN /\ sem_signalled' = [sem_signalled EXCEPT ![e] = TRUE]
                   /\ UNCHANGED sem_queue
              ELSE /\ sem_queue' = [sem_queue EXCEPT ![e] = Tail(@)]
                   /\ UNCHANGED sem_signalled
         /\ Semaphores!Unsignal(e) <=>
              /\ sem_signalled' = [sem_signalled EXCEPT ![e] = FALSE]
              /\ UNCHANGED sem_queue
         /\ \A i : Semaphores!TimeOut(e, i) <=>
              /\ i \in DOMAIN sem_queue[e]
              /\ sem_queue' = [sem_queue EXCEPT ![e] =
                                 SubSeq(@, 1, i - 1)
                                   \o SubSeq(@, i + 1, Len(@))]
              /\ UNCHANGED sem_signalled
  BY DEF Semaphores!Asleep, Semaphores!Wait, Semaphores!Signal,
         Semaphores!Unsignal, Semaphores!TimeOut, Semaphores!auto_event_vars,
         sem_signalled, sem_queue, SemaphoresQuiet

\* The running thread is in no queue.
LEMMA RunningIsAwake ==
  ASSUME EventIInv, pc[current_thread] = "user"
  PROVE  ~Semaphores!Asleep(current_thread)
  <1> PICK me \in Thread : me = current_thread
    BY EventParts
  <1>1. state[me] # "BLOCKED"
    BY DEF EventIInv, WaitsForEvent
  <1>2. ASSUME NEW e \in AutoEvents, NEW i \in DOMAIN wait_list[e],
               wait_list[e][i] = me
        PROVE  FALSE
    <2>1. /\ e \in WaitQueue
          /\ Range(wait_list[e]) =
               {u \in Thread : state[u] = "BLOCKED"
                                 /\ blocking_wait_queue[u] = e}
      BY EventParts, EventAssumption, Parts DEF Waiting
    <2>2. me \in Range(wait_list[e])
      BY <1>2 DEF Range
    <2> QED BY <1>1, <2>1, <2>2
  <1> QED BY <1>2 DEF Semaphores!Asleep

\* The kernel moves a semaphore only when a wait times out.
LEMMA KernelSemaphores ==
  ASSUME LastingInv, EventIInv', KernelNext, UNCHANGED event_vars
  PROVE  \/ SemaphoresQuiet
         \/ \E e \in AutoEvents : \E i \in DOMAIN sem_queue[e] :
              Semaphores!TimeOut(e, i)
  <1>1. EventIInv /\ ThreadInv' /\ UNCHANGED <<e_signalled, sem_signalled>>
    BY SemaphoreVars DEF LastingInv, EventIInv, event_vars
  <1>2. CASE Undisturbed
    BY <1>1, <1>2, SemaphoreVars DEF Undisturbed, SemaphoresQuiet
  <1>3. CASE WakeAllStep
    <2>1. PICK w \in WaitQueue :
            /\ ~e_flags[w]
            /\ wait_list' = [wait_list EXCEPT ![w] = Tail(wait_list[w])]
      BY <1>1, <1>3, WakeAllTurn
    <2>2. w \notin AutoEvents
      BY <1>1, <2>1, EventParts DEF LastingInv
    <2> QED BY <1>1, <2>1, <2>2, SemaphoreVars DEF SemaphoresQuiet
  <1>4. ASSUME NEW t \in Thread, WaitTimer(t), state[t] = "BLOCKED"
        PROVE  \/ SemaphoresQuiet
               \/ \E e \in AutoEvents : \E i \in DOMAIN sem_queue[e] :
                    Semaphores!TimeOut(e, i)
    <2>1. PICK w \in WaitQueue :
            /\ wait_list' = [wait_list EXCEPT ![w] = list_delete(@, t)]
            /\ IsInjective(wait_list[w])
            /\ \E i \in DOMAIN wait_list[w] : wait_list[w][i] = t
      BY <1>1, <1>4, TimerTurn
    <2>2. PICK i \in DOMAIN wait_list[w] : wait_list[w][i] = t
      BY <2>1
    <2>3. list_delete(wait_list[w], t)
            = SubSeq(wait_list[w], 1, i - 1)
                \o SubSeq(wait_list[w], i + 1, Len(wait_list[w]))
      BY <1>1, <2>1, <2>2, DeleteCuts, EventParts
    <2>4. CASE w \in AutoEvents
      <3>1. sem_queue[w] = wait_list[w]
        BY <1>1, <2>4, SemaphoreVars
      <3>2. sem_queue' = [sem_queue EXCEPT ![w] =
                            SubSeq(wait_list[w], 1, i - 1)
                              \o SubSeq(wait_list[w], i + 1,
                                        Len(wait_list[w]))]
        BY <1>1, <2>1, <2>3, <2>4, SemaphoreVars
      <3>3. Semaphores!TimeOut(w, i) /\ i \in DOMAIN sem_queue[w]
        BY <1>1, <2>2, <3>1, <3>2, SemaphoreActions
      <3> QED BY <2>4, <3>3
    <2>5. CASE w \notin AutoEvents
      BY <1>1, <2>1, <2>5, SemaphoreVars DEF SemaphoresQuiet
    <2> QED BY <2>4, <2>5
  <1> QED BY <1>1, <1>2, <1>3, <1>4, KernelTurns DEF LastingInv

\* event_signal, of a thread or of a handler.
LEMMA SemaphoreSignal ==
  ASSUME LastingInv, NEW e \in WaitQueue, e_flags[e], signal(e),
         \/ wait_list[e] = <<>> /\ UNCHANGED thread_vars
         \/ /\ wait_list[e] # <<>>
            /\ \/ \E reschedule \in BOOLEAN :
                    WaitQueueWakeOne(e, reschedule, "NO_ERROR")
               \/ DeviceWakeOne(e)
  PROVE  e \in AutoEvents /\ Semaphores!Signal(e)
  <1>1. /\ EventIInv /\ e \in AutoEvents /\ ~e_signalled[e]
        /\ e_signalled' = [e_signalled EXCEPT ![e] = (wait_list[e] = <<>>)]
    BY EventParts DEF LastingInv, signal
  <1>2. /\ sem_signalled[e] = e_signalled[e] /\ sem_queue[e] = wait_list[e]
        /\ sem_signalled' =
             [sem_signalled EXCEPT ![e] = (wait_list[e] = <<>>)]
    BY <1>1, SemaphoreVars
  <1>3. CASE wait_list[e] = <<>>
    <2>1. UNCHANGED wait_list
      BY <1>3 DEF thread_vars, wait_vars
    <2>2. UNCHANGED sem_queue
            /\ sem_signalled' = [sem_signalled EXCEPT ![e] = TRUE]
      BY <1>1, <1>2, <1>3, <2>1, SemaphoreVars
    <2> QED BY <1>1, <1>2, <1>3, <2>2, SemaphoreActions
  <1>4. CASE wait_list[e] # <<>>
    <2>1. wait_list' = [wait_list EXCEPT ![e] = Tail(wait_list[e])]
      BY <1>1, <1>4, WakesHead
    <2>2. sem_queue' = [sem_queue EXCEPT ![e] = Tail(wait_list[e])]
      BY <1>1, <2>1, SemaphoreVars
    <2>3. e_signalled' = e_signalled
      BY <1>1, <1>4, EventParts
    <2>4. UNCHANGED sem_signalled
      BY <1>1, <2>3, SemaphoreVars
    <2> QED BY <1>1, <1>2, <1>4, <2>2, <2>4, SemaphoreActions
  <1> QED BY <1>3, <1>4

\* event_wait
LEMMA SemaphoreWait ==
  ASSUME LastingInv, NEW e \in WaitQueue, NEW timeout \in Timeout,
         EventWait(e, timeout)
  PROVE  \/ SemaphoresQuiet
         \/ /\ e \in AutoEvents
            /\ \E t \in Thread : ~Semaphores!Asleep(t) /\ Semaphores!Wait(e, t)
  <1>1. EventIInv /\ pc[current_thread] = "user"
    BY DEF LastingInv, EventWait, Calling
  <1> PICK me \in Thread : me = current_thread
    BY <1>1, EventParts
  <1>2. ~Semaphores!Asleep(me)
    BY <1>1, RunningIsAwake DEF Semaphores!Asleep
  <1>3. CASE e_signalled[e]
    <2>1. /\ e_signalled' = [e_signalled EXCEPT ![e] = ~e_flags[e]]
          /\ UNCHANGED wait_list
      BY <1>3 DEF EventWait, consume, thread_vars, wait_vars
    <2>2. CASE e \in AutoEvents
      <3>1. e_flags[e] = TRUE /\ sem_signalled[e]
        BY <1>1, <1>3, <2>2, EventParts, SemaphoreVars DEF LastingInv
      <3>2. sem_signalled' = [sem_signalled EXCEPT ![e] = FALSE]
              /\ UNCHANGED sem_queue
        BY <1>1, <2>1, <2>2, <3>1, SemaphoreVars
      <3> QED BY <1>2, <2>2, <3>1, <3>2, SemaphoreActions
    <2>3. CASE e \notin AutoEvents
      BY <1>1, <2>1, <2>3, SemaphoreVars DEF SemaphoresQuiet
    <2> QED BY <2>2, <2>3
  <1>4. CASE ~e_signalled[e]
    <2>1. /\ wait_list' = [wait_list EXCEPT ![e] = Append(wait_list[e], me)]
          /\ UNCHANGED e_signalled
      BY <1>1, <1>4, WaitBlocks
    <2>2. CASE e \in AutoEvents
      <3>1. ~sem_signalled[e] /\ sem_queue[e] = wait_list[e]
        BY <1>1, <1>4, <2>2, SemaphoreVars
      <3>2. sem_queue' = [sem_queue EXCEPT ![e] = Append(wait_list[e], me)]
              /\ UNCHANGED sem_signalled
        BY <1>1, <2>1, <2>2, SemaphoreVars
      <3> QED BY <1>2, <2>2, <3>1, <3>2, SemaphoreActions
    <2>3. CASE e \notin AutoEvents
      BY <1>1, <2>1, <2>3, SemaphoreVars DEF SemaphoresQuiet
    <2> QED BY <2>2, <2>3
  <1> QED BY <1>3, <1>4

\* Every step is one of a semaphore, or nothing to its clients.
LEMMA SemaphoresMove ==
  ASSUME LastingInv, EventIInv', [EventNext]_event_all_vars,
         AutoEvents \cap DestroyedEvents = {}
  PROVE  SemaphoresQuiet \/ Semaphores!AutoEventNext
  <1>1. EventIInv
    BY DEF LastingInv
  <1>2. CASE KernelNext /\ UNCHANGED event_vars
    BY <1>2, KernelSemaphores DEF Semaphores!AutoEventNext, sem_queue
  <1>3. ASSUME NEW e \in WaitQueue, NEW timeout \in WaitTimeouts,
               EventWait(e, timeout)
        PROVE  SemaphoresQuiet \/ Semaphores!AutoEventNext
    <2>1. timeout \in Timeout
      BY EventAssumption
    <2> QED BY <1>3, <2>1, SemaphoreWait DEF Semaphores!AutoEventNext
  <1>4. ASSUME NEW e \in WaitQueue,
               \/ \E reschedule \in BOOLEAN : EventSignalAuto(e, reschedule)
               \/ e \in DeviceEvents /\ DeviceSignal(e)
        PROVE  Semaphores!AutoEventNext
    <2>1. e_flags[e] /\ signal(e)
      BY <1>1, <1>4, EventParts, EventAssumption
         DEF EventSignalAuto, DeviceSignal, signal
    <2>2. \/ wait_list[e] = <<>> /\ UNCHANGED thread_vars
          \/ /\ wait_list[e] # <<>>
             /\ \/ \E reschedule \in BOOLEAN :
                     WaitQueueWakeOne(e, reschedule, "NO_ERROR")
                \/ DeviceWakeOne(e)
      BY <1>4 DEF EventSignalAuto, DeviceSignal
    <2> QED BY <2>1, <2>2, SemaphoreSignal DEF Semaphores!AutoEventNext
  <1>5. ASSUME NEW e \in WaitQueue, NEW reschedule \in BOOLEAN,
               EventSignalAll(e, reschedule)
        PROVE  SemaphoresQuiet
    <2>1. Undisturbed /\ ~e_flags[e]
            /\ e_signalled' = [e_signalled EXCEPT ![e] = TRUE]
      BY <1>1, <1>5, SignalAllStep DEF EventSignalAll, signal
    <2>2. e \notin AutoEvents
      BY <1>1, <2>1, EventParts DEF LastingInv
    <2> QED BY <1>1, <2>1, <2>2, SemaphoreVars DEF Undisturbed, SemaphoresQuiet
  <1>6. ASSUME NEW e \in WaitQueue, EventUnsignal(e)
        PROVE  SemaphoresQuiet \/ Semaphores!AutoEventNext
    <2>1. /\ e_signalled' = [e_signalled EXCEPT ![e] = FALSE]
          /\ UNCHANGED wait_list
      BY <1>6 DEF EventUnsignal, thread_vars, wait_vars
    <2>2. CASE e \in AutoEvents
      <3>1. /\ sem_signalled' = [sem_signalled EXCEPT ![e] = FALSE]
            /\ UNCHANGED sem_queue
        BY <1>1, <2>1, <2>2, SemaphoreVars
      <3> QED BY <2>2, <3>1, SemaphoreActions DEF Semaphores!AutoEventNext
    <2>3. CASE e \notin AutoEvents
      BY <1>1, <2>1, <2>3, SemaphoreVars DEF SemaphoresQuiet
    <2> QED BY <2>2, <2>3
  <1>7. CASE EventWaitReturn
    BY <1>1, <1>7, WaitReturns, SemaphoreVars DEF SemaphoresQuiet
  <1>8. ASSUME NEW e \in DestroyedEvents, EventDestroy(e)
        PROVE  SemaphoresQuiet
    <2>1. e \in WaitQueue /\ e \notin AutoEvents
      BY EventAssumption
    <2>2. Undisturbed /\ e_signalled' = [e_signalled EXCEPT ![e] = FALSE]
      BY <1>1, <1>8, <2>1, EventDestroyStep DEF EventDestroy
    <2> QED BY <1>1, <2>1, <2>2, SemaphoreVars DEF Undisturbed, SemaphoresQuiet
  <1>9. CASE UNCHANGED event_all_vars
    BY <1>9 DEF event_all_vars, event_vars, thread_vars, wait_vars,
                SemaphoresQuiet, sem_signalled, sem_queue
  <1> QED BY <1>2, <1>3, <1>4, <1>5, <1>6, <1>7, <1>8, <1>9, EventAssumption
          DEF EventNext

\* No step destroys an auto-unsignal event that nobody may destroy.
LEMMA AutoEventsLast ==
  ASSUME LastingInv, [EventNext]_event_all_vars,
         AutoEvents \cap DestroyedEvents = {}
  PROVE  LastingInv'
  <1>1. EventIInv'
    BY EventNextInv DEF LastingInv
  <1>2. UNCHANGED e_magic \/ \E e \in DestroyedEvents : EventDestroy(e)
    BY DEF EventNext, EventWait, EventSignalAuto, EventSignalAll, signal,
           EventUnsignal, EventWaitReturn, DeviceSignal, event_all_vars,
           event_vars
  <1>3. ASSUME NEW e \in DestroyedEvents, EventDestroy(e)
        PROVE  \A n \in AutoEvents : e_magic'[n] = e_magic[n]
    BY <1>3, EventParts, EventAssumption DEF EventDestroy, LastingInv
  <1> QED BY <1>1, <1>2, <1>3 DEF LastingInv

\* To the code that uses them, auto-unsignal events that are never destroyed
\* are semaphores: a signal lets through the client that has waited longest,
\* or the next one to come, and a wait that times out takes none.
THEOREM AutoEventsAreSemaphores ==
  ASSUME ~LeakersCall, AutoEvents \cap DestroyedEvents = {}
  PROVE  EventSpec => ImplementsAutoEvent
  <1>1. EventInit => LastingInv /\ Semaphores!AutoEventInit
    <2> SUFFICES ASSUME EventInit
                 PROVE  LastingInv /\ Semaphores!AutoEventInit
      OBVIOUS
    <2>1. \A e \in AutoEvents : /\ e_magic[e] /\ e_signalled[e] \in BOOLEAN
                                /\ wait_list[e] = <<>>
      BY EventAssumption DEF EventInit, ThreadInit
    <2> QED BY <2>1, EventInitInv DEF LastingInv, Semaphores!AutoEventInit
  <1>2. LastingInv /\ [EventNext]_event_all_vars => LastingInv'
    BY AutoEventsLast
  <1>3. LastingInv /\ LastingInv' /\ [EventNext]_event_all_vars =>
          [Semaphores!AutoEventNext]_Semaphores!auto_event_vars
    <2> SUFFICES ASSUME LastingInv, LastingInv', [EventNext]_event_all_vars
                 PROVE  [Semaphores!AutoEventNext]_Semaphores!auto_event_vars
      OBVIOUS
    <2>1. EventIInv'
      BY DEF LastingInv
    <2>2. SemaphoresQuiet \/ Semaphores!AutoEventNext
      BY <2>1, SemaphoresMove
    <2>3. SemaphoresQuiet => UNCHANGED Semaphores!auto_event_vars
      BY DEF SemaphoresQuiet, Semaphores!auto_event_vars, sem_signalled,
             sem_queue
    <2> QED BY <2>2, <2>3
  <1> QED BY <1>1, <1>2, <1>3, PTL
          DEF EventSpec, ImplementsAutoEvent, Semaphores!AutoEventSpec
=============================================================================
