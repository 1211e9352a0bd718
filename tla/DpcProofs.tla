----------------------------- MODULE DpcProofs -----------------------------
(***************************************************************************)
(* A thread that ends is cleaned up once and not before it has left its    *)
(* stack: proofs about module Dpc, for every set of threads, with the      *)
(* scheduler and the event of the dpc thread underneath.                   *)
(***************************************************************************)
EXTENDS Dpc, ThreadProofs

-----------------------------------------------------------------------------
(* The inductive invariant.                                                *)

\* Only the dpc thread waits for anything, and only for dpc_event.
OnlyDpcWaits ==
  \A t \in Thread :
    /\ pc[t] = "wait" => t = DpcThread /\ state[t] # "FREE"
    /\ state[t] = "BLOCKED" =>
         pc[t] = "wait" /\ blocking_wait_queue[t] = DpcEvent

\* dpc_event is a plain event, and signalled while there is work.
WorkIsSignalled ==
  /\ e_signalled \in [WaitQueue -> BOOLEAN]
  /\ ~e_flags[DpcEvent]
  /\ dpc_list # <<>> => e_signalled[DpcEvent]

\* The dpc thread does not sleep on a signalled event, other than while
\* dpc_queue is waking it.
SleepsUnsignalled ==
  (state[DpcThread] = "BLOCKED" /\ e_signalled[DpcEvent])
    => pc[current_thread] = "wake_all" /\ waking.queue = DpcEvent

\* Every part of the invariant of the dpc thread.
DpcIInv ==
  /\ ThreadInv
  /\ DpcTypeOK
  /\ DeadAwaitsCleanup
  /\ OnlyDpcWaits
  /\ WorkIsSignalled
  /\ SleepsUnsignalled

-----------------------------------------------------------------------------
(* What the steps of the scheduler leave alone.                            *)

\* Nobody ends and nobody is freed.
NobodyEnds ==
  \A t \in Thread : /\ state'[t] = "DEATH" <=> state[t] = "DEATH"
                    /\ state'[t] = "FREE" => state[t] = "FREE"

\* A switch ends nobody, if its caller did not.
LEMMA SwitchEndsNobody ==
  ASSUME ThreadInv, ThreadInv', NEW label, label # "exit",
         pc[current_thread] \notin {"exit", "wake_all"},
         pc' = [pc EXCEPT ![current_thread] = label],
         NEW st \in [Thread -> State],
         \E rq, rem, count : thread_resched(st, rq, rem, count),
         \A t \in Thread : st[t] \in {"DEATH", "FREE"} => state[t] = st[t]
  PROVE  NobodyEnds
  <1>1. \A t \in Thread : state'[t] = st[t] \/ state'[t] = "RUNNING"
    BY ReschedStates
  <1>2. \A t \in Thread : state'[t] \in {"DEATH", "FREE"} => state[t] = state'[t]
    BY <1>1
  <1>3. ASSUME NEW t \in Thread, state[t] = "DEATH"
        PROVE  state'[t] = "DEATH"
    <2>1. pc[t] = "exit"
      BY <1>3, Parts DEF ThreadInv, Ended, WakingUp
    <2>2. pc'[t] = "exit"
      BY <2>1, Parts
    <2>3. state'[t] \in {"DEATH", "FREE"}
      BY <2>2 DEF ThreadInv, Ended
    <2> QED BY <1>2, <1>3, <2>3
  <1> QED BY <1>2, <1>3 DEF NobodyEnds

\* Making a thread READY that sleeps or waits ends nobody.
LEMMA ReadyEndsNobody ==
  ASSUME ThreadInv, NEW t \in Thread, state[t] \in {"SLEEPING", "BLOCKED"},
         state' = [state EXCEPT ![t] = "READY"]
  PROVE  NobodyEnds
  BY Parts DEF NobodyEnds

\* The calls a thread may make end nobody.
LEMMA CallsEndNobody ==
  ASSUME ThreadInv, ThreadInv', ThreadCalls
  PROVE  NobodyEnds /\ pc[current_thread] # "wake_all"
  <1> DEFINE me == current_thread
  <1>1. me \in Thread /\ state \in [Thread -> State]
    BY Parts
  <1>2. pc[me] \in {"user", "boot"}
    BY DEF ThreadCalls, ThreadCreate, ThreadResume, ThreadYield, ThreadSleep,
           ThreadSetPriority, Calling
  <1>3. state[me] = "RUNNING"
    BY <1>2 DEF ThreadInv, OnCPU
  <1>4. ASSUME NEW t \in Thread, NEW prio, ThreadCreate(t, prio)
        PROVE  NobodyEnds
    BY <1>1, <1>4 DEF ThreadCreate, NobodyEnds
  <1>5. ASSUME NEW t \in Thread, ThreadResume(t) PROVE NobodyEnds
    <2> DEFINE label == IF pc[me] = "boot" THEN "boot_resume" ELSE "resume"
               st == [[state EXCEPT ![t] = "READY"] EXCEPT ![me] = "READY"]
    <2>1. pc' = [pc EXCEPT ![me] = label] /\ label # "exit"
      BY <1>5 DEF ThreadResume, goto
    <2>2. st \in [Thread -> State] /\ \A u \in Thread :
            st[u] \in {"DEATH", "FREE"} => state[u] = st[u]
      BY <1>1 DEF State
    <2>3. \E rq, rem, count : thread_resched(st, rq, rem, count)
      BY <1>5 DEF ThreadResume, thread_yield
    <2> HIDE DEF st, label
    <2> QED BY <1>2, <2>1, <2>2, <2>3, SwitchEndsNobody
  <1>6. CASE ThreadYield
    <2> DEFINE st == [state EXCEPT ![me] = "READY"]
    <2>1. pc' = [pc EXCEPT ![me] = "yield"]
      BY <1>6 DEF ThreadYield, goto
    <2>2. st \in [Thread -> State] /\ \A u \in Thread :
            st[u] \in {"DEATH", "FREE"} => state[u] = st[u]
      BY <1>1 DEF State
    <2>3. \E rq, rem, count : thread_resched(st, rq, rem, count)
      BY <1>6 DEF ThreadYield, thread_yield
    <2> HIDE DEF st
    <2> QED BY <1>2, <2>1, <2>2, <2>3, SwitchEndsNobody
  <1>7. CASE ThreadSleep
    <2> DEFINE st == [state EXCEPT ![me] = "SLEEPING"]
    <2>1. pc' = [pc EXCEPT ![me] = "sleep"]
      BY <1>7 DEF ThreadSleep, goto
    <2>2. st \in [Thread -> State] /\ \A u \in Thread :
            st[u] \in {"DEATH", "FREE"} => state[u] = st[u]
      BY <1>1 DEF State
    <2>3. \E rq, rem, count : thread_resched(st, rq, rem, count)
      BY <1>7 DEF ThreadSleep
    <2> HIDE DEF st
    <2> QED BY <1>2, <2>1, <2>2, <2>3, SwitchEndsNobody
  <1>8. CASE \E prio \in SetPrios : ThreadSetPriority(prio)
    <2>1. UNCHANGED state
      BY <1>8 DEF ThreadSetPriority, sched_vars
    <2> QED BY <1>2, <2>1 DEF NobodyEnds
  <1> QED BY <1>2, <1>4, <1>5, <1>6, <1>7, <1>8 DEF ThreadCalls

\* Nor do the steps of the kernel.
LEMMA StepsEndNobody ==
  ASSUME ThreadInv, ThreadInv', KernelSteps
  PROVE  NobodyEnds
  <1> DEFINE me == current_thread
  <1>1. me \in Thread /\ state \in [Thread -> State]
    BY Parts
  <1>2. CASE UNCHANGED state
    BY <1>2 DEF NobodyEnds
  <1>3. CASE BecomeIdle
    <2> DEFINE st == [state EXCEPT ![Boot] = "READY"]
    <2>1. pc[me] = "user" /\ pc' = [pc EXCEPT ![me] = "yield"] /\ me = Boot
      BY <1>3 DEF BecomeIdle, goto
    <2>2. st \in [Thread -> State] /\ \A u \in Thread :
            st[u] \in {"DEATH", "FREE"} => state[u] = st[u]
      BY <1>1 DEF State
    <2>3. \E rq, rem, count : thread_resched(st, rq, rem, count)
      BY <1>3 DEF BecomeIdle
    <2> HIDE DEF st
    <2> QED BY <2>1, <2>2, <2>3, SwitchEndsNobody
  <1>4. CASE IrqExit
    <2> DEFINE st == [state EXCEPT ![me] = "READY"]
    <2>1. /\ pc[me] \in {"irq", "device"}
          /\ pc' = [pc EXCEPT ![me] = "preempt"]
      BY <1>4 DEF IrqExit, goto
    <2>2. st \in [Thread -> State] /\ \A u \in Thread :
            st[u] \in {"DEATH", "FREE"} => state[u] = st[u]
      BY <1>1 DEF State
    <2>3. \E rq, rem, count : thread_resched(st, rq, rem, count)
      BY <1>4 DEF IrqExit, thread_preempt
    <2> HIDE DEF st
    <2> QED BY <2>1, <2>2, <2>3, SwitchEndsNobody
  <1>5. ASSUME NEW t \in Thread, SleepTimer(t) PROVE NobodyEnds
    <2>1. state[t] = "SLEEPING" /\ state' = [state EXCEPT ![t] = "READY"]
      BY <1>5 DEF SleepTimer, ThreadInv, TimersOnLiveStacks
    <2> QED BY <2>1, ReadyEndsNobody
  <1>6. ASSUME NEW t \in Thread, WaitTimer(t) PROVE NobodyEnds
    <2>1. CASE state[t] = "BLOCKED"
      <3>1. state' = [state EXCEPT ![t] = "READY"]
        BY <1>6, <2>1 DEF WaitTimer, unblock
      <3> QED BY <2>1, <3>1, ReadyEndsNobody
    <2>2. CASE state[t] # "BLOCKED"
      BY <1>6, <1>2, <2>2 DEF WaitTimer, not_blocked
    <2> QED BY <2>1, <2>2
  <1>7. CASE WakeAllStep
    <2>1. PICK t : t = Head(wait_list[waking.queue])
      OBVIOUS
    <2>2. t \in Thread /\ state[t] = "BLOCKED"
      BY <1>7, <2>1, WakeAllWakes DEF Woke
    <2>3. state' = [state EXCEPT ![t] = "READY"]
      BY <1>7, <2>1 DEF WakeAllStep
    <2> QED BY <2>2, <2>3, ReadyEndsNobody
  <1>8. CASE WakeAllEnd
    <2>1. CASE waking.reschedule /\ waking.ret
      <3>1. waking.then = "wake" /\ pc[me] = "wake_all"
        BY <1>8, <2>1 DEF WakeAllEnd, ThreadInv, WakingUp
      <3>2. pc' = [pc EXCEPT ![me] = "wake"] /\ state[me] = "READY"
              /\ \E rq, rem, count : thread_resched(state, rq, rem, count)
        BY <1>8, <2>1, <3>1 DEF WakeAllEnd, goto, ThreadInv, WakingUp
      <3>3. \A t \in Thread : state'[t] = state[t] \/ state'[t] = "RUNNING"
        BY <1>1, <3>2, ReschedStates
      <3>4. ASSUME NEW t \in Thread, state[t] = "DEATH"
            PROVE  state'[t] = "DEATH"
        <4>1. t # me /\ pc[t] = "exit"
          BY <3>1, <3>2, <3>4 DEF ThreadInv, Ended, WakingUp
        <4>2. pc'[t] = "exit"
          BY <3>2, <4>1, Parts
        <4> QED BY <3>3, <3>4, <4>2 DEF ThreadInv, Ended
      <3> QED BY <3>3, <3>4 DEF NobodyEnds
    <2>2. CASE ~(waking.reschedule /\ waking.ret)
      BY <1>2, <1>8, <2>2 DEF WakeAllEnd, sched_vars
    <2> QED BY <2>1, <2>2
  <1>9. CASE BootDone \/ ThreadReturn
             \/ \E source \in {"irq", "device"} : IrqEnter(source)
    BY <1>2, <1>9 DEF BootDone, ThreadReturn, unwind, IrqEnter
  <1> QED BY <1>3, <1>4, <1>5, <1>6, <1>7, <1>8, <1>9 DEF KernelSteps

-----------------------------------------------------------------------------
(* The scheduler's invariant in the steps of thread_exit and of the dpc     *)
(* thread.                                                                 *)

\* The part of thread_exit before the switch, whether or not it wakes the
\* dpc thread.
LEMMA DeadStep ==
  ASSUME ThreadInv, Calling, EnterMasks,
         state' = [state EXCEPT ![current_thread] = "DEATH"],
         critical_section_count' = critical_section_count + 1,
         NEW label \in {"exit", "wake_all"},
         pc' = [pc EXCEPT ![current_thread] = label],
         waking' \in [queue : WaitQueue \cup {None}, reschedule : BOOLEAN,
                      error : Status, ret : BOOLEAN, then : Label],
         waking'.then \in {"user", "wake", "exit"},
         label = "wake_all" =>
           /\ waking'.queue \in WaitQueue /\ waking'.then = "exit"
           /\ ~waking'.reschedule,
         UNCHANGED <<remaining_quantum, saved_critical_section_count,
                     run_queue, current_thread, wait_vars, priority,
                     idle_thread, timer>>
  PROVE  ThreadInv'
  <1> DEFINE t == current_thread
  <1>1. /\ t \in Thread /\ t # Boot /\ pc[t] = "user"
        /\ state[t] = "RUNNING" /\ timer[t] = "none"
    BY Parts, NoTimerInUser DEF Calling, ThreadInv, OnCPU
  <1>2. \A u \in Thread : state'[u] = IF u = t THEN "DEATH" ELSE state[u]
    BY Parts
  <1>3. label \in Label /\ pc'[t] = label
          /\ \A u \in Thread \ {t} : pc'[u] = pc[u] /\ pc[u] # "wake_all"
    BY <1>1, Parts DEF Label, ThreadInv, WakingUp
  <1>4. critical_section_count' \in Nat
          /\ Pays(critical_section_count', Depth(current_thread)')
          /\ ints' \in BOOLEAN
          /\ (LeakBound = 0 => (ints' <=> critical_section_count' = 0))
    <2>1. Depth(current_thread)' = 1 /\ Depth(t) = 0
      BY <1>1, <1>3 DEF Depth, Exits
    <2>2. /\ ints' \in BOOLEAN /\ (LeakBound = 0 => ~ints')
          /\ Pays(critical_section_count + 1, 0 + 1)
      BY <2>1, Enter
    <2>3. critical_section_count' \in Nat /\ critical_section_count' # 0
      BY Parts
    <2> QED BY <2>1, <2>2, <2>3
  <1>5. ThreadTypeOK'
    <2>1. pc' \in [Thread -> Label] /\ state' \in [Thread -> State]
      BY <1>1, <1>3, Parts DEF State
    <2> QED BY <2>1, <1>4, Parts
            DEF ThreadTypeOK, OthersTyped, RunQueues, WaitLists, WaitCounts,
                wait_vars
  <1>6. RunQueueExact'
    <2>1. \A u \in Thread : state[u] = "READY" <=> state'[u] = "READY"
      BY <1>1, <1>2
    <2> QED BY <2>1, Parts, QueueSame DEF RunQueueExact
  <1>7. WaitQueueExact'
    <2>1. \A u \in Thread : state[u] = "BLOCKED" <=> state'[u] = "BLOCKED"
      BY <1>1, <1>2
    <2> QED BY <2>1, Parts, WaitSame DEF WaitQueueExact, wait_vars
  <1>8. TimersOnLiveStacks'
    BY <1>1, <1>2, <1>3 DEF ThreadInv, TimersOnLiveStacks
  <1>9. \A u \in Thread : state'[u] = "FREE" => timer'[u] = "none"
    BY <1>2 DEF ThreadInv
  <1>10. OnCPU' /\ BootCanRun'
    BY <1>1, <1>2, <1>3, ThreadAssumption DEF ThreadInv, OnCPU, BootCanRun
  <1>11. WakingUp'
    BY <1>1, <1>2, <1>3 DEF WakingUp
  <1>12. Ended'
    BY <1>1, <1>2, <1>3 DEF ThreadInv, Ended
  <1>13. CountsCover'
    <2>1. \A u \in Thread : state'[u] = "FREE" <=> state[u] = "FREE"
      BY <1>1, <1>2
    <2> QED BY <2>1, <1>3, <1>4, OthersCovered
  <1> QED BY <1>5, <1>6, <1>7, <1>8, <1>9, <1>10, <1>11, <1>12, <1>13
          DEF ThreadInv

\* thread_exit up to its switch.
LEMMA ExitStep ==
  ASSUME ThreadInv, ThreadExit
  PROVE  /\ ThreadInv'
         /\ pc' = [pc EXCEPT ![current_thread] =
                     IF e_signalled[DpcEvent] THEN "exit" ELSE "wake_all"]
         /\ ~e_signalled[DpcEvent] => waking'.queue = DpcEvent
         /\ current_thread' = current_thread /\ UNCHANGED wait_vars
         /\ state' = [state EXCEPT ![current_thread] = "DEATH"]
  <1>1. /\ Calling /\ EnterMasks
        /\ UNCHANGED <<priority, idle_thread>>
    BY DEF ThreadExit
  <1>2. CASE e_signalled[DpcEvent]
    <2>1. /\ state' = [state EXCEPT ![current_thread] = "DEATH"]
          /\ critical_section_count' = critical_section_count + 1
          /\ pc' = [pc EXCEPT ![current_thread] = "exit"]
          /\ UNCHANGED <<remaining_quantum, saved_critical_section_count,
                         run_queue, current_thread, wait_vars, timer, waking>>
      BY <1>2 DEF ThreadExit, goto
    <2>2. /\ waking \in [queue : WaitQueue \cup {None}, reschedule : BOOLEAN,
                         error : Status, ret : BOOLEAN, then : Label]
          /\ waking.then \in {"user", "wake", "exit"}
      BY Parts DEF OthersTyped
    <2> QED BY <1>1, <1>2, <2>1, <2>2, DeadStep
  <1>3. CASE ~e_signalled[DpcEvent]
    <2>1. /\ state' = [state EXCEPT ![current_thread] = "DEATH"]
          /\ critical_section_count' = critical_section_count + 1
          /\ pc' = [pc EXCEPT ![current_thread] = "wake_all"]
          /\ waking' = [queue |-> DpcEvent, reschedule |-> FALSE,
                        error |-> "NO_ERROR", ret |-> FALSE, then |-> "exit"]
          /\ UNCHANGED <<remaining_quantum, saved_critical_section_count,
                         run_queue, current_thread, wait_vars, timer>>
      BY <1>3 DEF ThreadExit, dpc_wake, wake_all_begin, goto
    <2>2. /\ waking' \in [queue : WaitQueue \cup {None}, reschedule : BOOLEAN,
                          error : Status, ret : BOOLEAN, then : Label]
          /\ waking'.then = "exit" /\ ~waking'.reschedule
          /\ waking'.queue = DpcEvent /\ DpcEvent \in WaitQueue
      BY <2>1, DpcAssumption DEF Status, Label
    <2> QED BY <1>1, <1>3, <2>1, <2>2, DeadStep
  <1> QED BY <1>2, <1>3

\* The switch at the end of thread_exit.
LEMMA ExitReschedStep ==
  ASSUME ThreadInv, ThreadExitResched
  PROVE  /\ ThreadInv' /\ NobodyEnds
         /\ \A t \in Thread : state'[t] = "BLOCKED" => state[t] = "BLOCKED"
  <1> DEFINE t == current_thread
  <1>1. /\ pc[t] = "exit" /\ t \in Thread
        /\ thread_resched(state, run_queue, remaining_quantum,
                          critical_section_count)
        /\ UNCHANGED <<wait_vars, priority, idle_thread, ints, timer, pc,
                       waking>>
    BY Parts DEF ThreadExitResched
  <1>2. state[t] = "DEATH"
    BY <1>1 DEF ThreadInv, OnCPU
  <1>3. /\ \A u \in Thread : state[u] # "RUNNING"
        /\ state[Boot] = "READY"
    <2>1. Boot \in Thread
      BY ThreadAssumption
    <2> QED BY <2>1, <1>2 DEF ThreadInv, OnCPU, BootCanRun
  <1>4. OthersTyped'
    BY <1>1, Parts DEF OthersTyped, wait_vars
  <1>5. goto("exit") /\ "exit" \in SwitchLabel
    BY <1>1, Parts DEF goto, SwitchLabel
  <1>6. Pays(critical_section_count, Owed("exit"))
          /\ (LeakBound = 0 => ~ints')
    <2>1. Depth(t) = 1 /\ Owed("exit") = 1
      BY <1>1 DEF Depth, Owed, Exits
    <2>2. Pays(critical_section_count, 1)
            /\ (LeakBound = 0 => (ints <=> critical_section_count = 0))
      BY <2>1 DEF ThreadInv, CountsCover
    <2> QED BY <2>1, <2>2, <1>1 DEF Pays
  <1>7. \A u \in Thread :
          /\ timer'[u] = "wait" => pc'[u] = "wait"
          /\ timer'[u] = "sleep" <=> state[u] = "SLEEPING"
          /\ state[u] = "FREE" => timer'[u] = "none"
    BY <1>1 DEF ThreadInv, TimersOnLiveStacks
  <1>8. /\ Queued(state, run_queue, priority')
        /\ Waiting(state, wait_list', wait_count', blocking_wait_queue')
    BY <1>1, Parts DEF wait_vars
  <1>9. ThreadInv'
    BY <1>1, <1>2, <1>3, <1>4, <1>5, <1>6, <1>7, <1>8, Parts, Resched
  <1>10. \A u \in Thread : state'[u] = state[u] \/ state'[u] = "RUNNING"
    BY <1>1, Parts, ReschedStates
  <1>11. ASSUME NEW u \in Thread, state[u] = "DEATH"
         PROVE  state'[u] = "DEATH"
    <2>1. pc'[u] = "exit"
      BY <1>1, <1>11 DEF ThreadInv, Ended, WakingUp
    <2> QED BY <2>1, <1>9, <1>10, <1>11 DEF ThreadInv, Ended
  <1> QED BY <1>9, <1>10, <1>11 DEF NobodyEnds

\* Freeing a thread that is dead and has left the CPU.
LEMMA FreeStep ==
  ASSUME ThreadInv, NEW t \in Thread, state[t] = "DEATH",
         pc[current_thread] = "user",
         state' = [state EXCEPT ![t] = "FREE"],
         UNCHANGED <<remaining_quantum, saved_critical_section_count,
                     run_queue, current_thread, critical_section_count,
                     wait_vars, priority, idle_thread, ints, timer, pc,
                     waking>>
  PROVE  ThreadInv' /\ pc[t] = "exit" /\ t # current_thread
  <1>1. t # current_thread /\ state[current_thread] = "RUNNING"
    BY DEF ThreadInv, OnCPU
  <1>2. \A u \in Thread : state'[u] = IF u = t THEN "FREE" ELSE state[u]
    BY Parts
  <1>3. pc[t] = "exit" /\ timer[t] = "none"
    BY <1>1, Parts
       DEF ThreadInv, Ended, WakingUp, TimersOnLiveStacks, OthersTyped
  <1>4. ThreadTypeOK'
    <2>1. state' \in [Thread -> State]
      BY Parts DEF State
    <2> QED BY <2>1 DEF ThreadInv, ThreadTypeOK, wait_vars
  <1>5. RunQueueExact'
    <2>1. \A u \in Thread : state[u] = "READY" <=> state'[u] = "READY"
      BY <1>2
    <2> QED BY <2>1, Parts, QueueSame DEF RunQueueExact
  <1>6. WaitQueueExact'
    <2>1. \A u \in Thread : state[u] = "BLOCKED" <=> state'[u] = "BLOCKED"
      BY <1>2
    <2> QED BY <2>1, Parts, WaitSame DEF WaitQueueExact, wait_vars
  <1>7. TimersOnLiveStacks'
    BY <1>2 DEF ThreadInv, TimersOnLiveStacks
  <1>8. \A u \in Thread : state'[u] = "FREE" => timer'[u] = "none"
    BY <1>2, <1>3 DEF ThreadInv
  <1>9. OnCPU' /\ BootCanRun'
    BY <1>1, <1>2, ThreadAssumption DEF ThreadInv, OnCPU, BootCanRun
  <1>10. WakingUp'
    BY <1>1, <1>2, Parts DEF ThreadInv, WakingUp, wait_vars
  <1>11. Ended'
    BY <1>2, <1>3 DEF ThreadInv, Ended
  <1>12. CountsCover'
    <2>1. \A u \in Thread : Depth(u)' = Depth(u)
      BY DEF Depth
    <2>2. Depth(current_thread)' = Depth(current_thread)
      BY DEF Depth
    <2> QED BY <1>2, <2>1, <2>2 DEF ThreadInv, CountsCover
  <1> QED BY <1>1, <1>3, <1>4, <1>5, <1>6, <1>7, <1>8, <1>9, <1>10, <1>11,
             <1>12
          DEF ThreadInv

-----------------------------------------------------------------------------
(* The invariant holds in every step.                                      *)

\* What the proofs below use of it.
LEMMA DpcParts ==
  ASSUME DpcIInv
  PROVE  /\ ThreadInv /\ current_thread \in Thread
         /\ state \in [Thread -> State] /\ pc \in [Thread -> Label]
         /\ blocking_wait_queue \in [Thread -> WaitQueue \cup {None}]
         /\ dpc_list \in Seq(Thread) /\ dpc_arg \in Thread \cup {None}
         /\ None \notin Thread
         /\ DpcThread \in Thread /\ DpcThread # Boot /\ DpcEvent \in WaitQueue
  BY Parts, DpcAssumption, ThreadAssumption
     DEF DpcIInv, DpcTypeOK, OthersTyped

\* A step that ends nobody and leaves the list alone.
LEMMA CleanupKept ==
  ASSUME DpcIInv, NobodyEnds, UNCHANGED dpc_vars
  PROVE  DpcTypeOK' /\ DeadAwaitsCleanup'
  BY DEF DpcIInv, NobodyEnds, DpcTypeOK, DeadAwaitsCleanup, dpc_vars

\* What leaves the scheduler alone keeps its invariant.
LEMMA IdleScheduler ==
  ASSUME DpcIInv, UNCHANGED thread_vars
  PROVE  /\ ThreadInv' /\ NobodyEnds /\ OnlyDpcWaits'
         /\ UNCHANGED <<state, pc, current_thread, waking>>
  <1>1. ThreadInv'
    BY NextInv DEF DpcIInv
  <1>2. UNCHANGED <<state, pc, current_thread, waking, blocking_wait_queue>>
    BY DEF thread_vars, sched_vars, wait_vars
  <1> QED BY <1>1, <1>2 DEF DpcIInv, NobodyEnds, OnlyDpcWaits

\* A thread that waits is on the list of dpc_event.
LEMMA SleeperIsListed ==
  ASSUME DpcIInv, state[DpcThread] = "BLOCKED"
  PROVE  wait_list[DpcEvent] # <<>>
  <1>1. blocking_wait_queue[DpcThread] = DpcEvent
    BY DpcParts DEF DpcIInv, OnlyDpcWaits
  <1>2. DpcThread \in Range(wait_list[DpcEvent])
    BY <1>1, DpcParts, Parts DEF Waiting
  <1> QED BY <1>2 DEF Range

\* A call of a thread or a step of the kernel.
LEMMA SchedulerKeeps ==
  ASSUME DpcIInv, ThreadCalls \/ KernelSteps,
         UNCHANGED <<event_vars, dpc_vars>>
  PROVE  DpcIInv'
  <1>1. ThreadInv /\ ThreadInv' /\ DpcThread \in Thread
    BY DpcParts, ThreadCallsInv, KernelStepsInv
  <1>2. NobodyEnds
    BY <1>1, CallsEndNobody, StepsEndNobody
  <1>3. WaitersExist
    BY DEF DpcIInv, OnlyDpcWaits, WaitersExist
  <1>4. Undisturbed \/ \E t \in Thread, error \in Status : Woke(t, error)
    <2>1. CASE ThreadCalls
      BY <2>1, <1>1, <1>3, CallsUndisturbed
    <2>2. CASE WakeAllStep
      <3>1. waking.error \in Status
        BY <1>1, Parts DEF OthersTyped
      <3> QED BY <2>2, <3>1, <1>1, WakeAllWakes
    <2>3. CASE \E t \in Thread : state[t] = "BLOCKED" /\ WaitTimer(t)
      <3>1. "ERR_TIMED_OUT" \in Status
        BY DEF Status
      <3> QED BY <2>3, <3>1, <1>1, TimerWakes
    <2> QED BY <2>1, <2>2, <2>3, <1>1, StepsUndisturbed
  <1>5. \A t \in Thread :
          /\ pc'[t] = "wait" <=> pc[t] = "wait"
          /\ state'[t] = "BLOCKED" =>
               /\ state[t] = "BLOCKED"
               /\ blocking_wait_queue'[t] = blocking_wait_queue[t]
    BY <1>4 DEF Undisturbed, Woke, DpcIInv, OnlyDpcWaits
  <1>6. OnlyDpcWaits'
    BY <1>2, <1>5 DEF NobodyEnds, DpcIInv, OnlyDpcWaits
  <1>7. WorkIsSignalled'
    BY DEF DpcIInv, WorkIsSignalled, event_vars, dpc_vars
  <1>8. SleepsUnsignalled'
    <2> SUFFICES ASSUME state'[DpcThread] = "BLOCKED", e_signalled'[DpcEvent]
                 PROVE  /\ pc'[current_thread'] = "wake_all"
                        /\ waking'.queue = DpcEvent
      BY DEF SleepsUnsignalled
    <2>1. /\ state[DpcThread] = "BLOCKED" /\ pc[current_thread] = "wake_all"
          /\ waking.queue = DpcEvent
      BY <1>1, <1>5 DEF event_vars, DpcIInv, SleepsUnsignalled
    <2>2. ~ThreadCalls
      BY <1>1, <2>1, CallsEndNobody
    <2>3. ~WakeAllEnd
      BY <2>1, SleeperIsListed DEF WakeAllEnd
    <2>4. WakeAllStep
      BY <2>1, <2>2, <2>3
         DEF KernelSteps, BootDone, BecomeIdle, ThreadReturn, unwind,
             IrqEnter, SleepTimer, WaitTimer, IrqExit
    <2>5. UNCHANGED <<pc, current_thread>>
            /\ waking' = [waking EXCEPT !.ret = TRUE]
      BY <2>4 DEF WakeAllStep
    <2> QED BY <2>1, <2>5, <1>1, Parts DEF OthersTyped
  <1> QED BY <1>1, <1>2, <1>6, <1>7, <1>8, CleanupKept DEF DpcIInv

\* The dpc thread comes back from event_wait.
LEMMA ReturnKeeps ==
  ASSUME DpcIInv, EventWaitReturn, UNCHANGED dpc_vars
  PROVE  DpcIInv'
  <1>1. wait_queue_block_return /\ UNCHANGED <<e_signalled, e_flags>>
    BY DEF EventWaitReturn
  <1>2. ThreadInv /\ ThreadInv'
    BY <1>1, NextInv DEF DpcIInv, ClientNext, ThreadNext
  <1>3. /\ pc[current_thread] = "wait" /\ pc'[current_thread] # "wait"
        /\ state[current_thread] # "BLOCKED"
        /\ UNCHANGED <<state, wait_vars>>
        /\ \A u \in Thread :
             u # current_thread => (pc'[u] = "wait" <=> pc[u] = "wait")
    BY <1>1, <1>2, BlockReturns
  <1>4. NobodyEnds
    BY <1>3 DEF NobodyEnds
  <1>5. OnlyDpcWaits'
    BY <1>3 DEF DpcIInv, OnlyDpcWaits, wait_vars
  <1>6. WorkIsSignalled'
    BY <1>1 DEF DpcIInv, WorkIsSignalled, dpc_vars
  <1>7. SleepsUnsignalled'
    BY <1>1, <1>3 DEF DpcIInv, SleepsUnsignalled
  <1> QED BY <1>2, <1>4, <1>5, <1>6, <1>7, CleanupKept DEF DpcIInv

\* dpc_init creates the dpc thread and starts it.
LEMMA StartKeeps ==
  ASSUME DpcIInv, DpcStart
  PROVE  DpcIInv'
  <1>1. CASE state[DpcThread] # "FREE"
    BY <1>1, DpcParts, SchedulerKeeps DEF DpcStart, ThreadCalls
  <1>2. CASE state[DpcThread] = "FREE"
    <2>1. ThreadCreate(DpcThread, HighestPrio)
            /\ UNCHANGED <<event_vars, dpc_vars>>
      BY <1>2 DEF DpcStart
    <2>2. ThreadInv'
      <3>1. HighestPrio \in Prio
        BY ThreadAssumption DEF Prio
      <3> QED BY <2>1, <3>1, DpcParts, CreateStep
    <2>3. /\ state' = [state EXCEPT ![DpcThread] = "SUSPENDED"]
          /\ pc' = [pc EXCEPT ![DpcThread] = "new"]
          /\ blocking_wait_queue' =
               [blocking_wait_queue EXCEPT ![DpcThread] = None]
      BY <2>1 DEF ThreadCreate
    <2>4. NobodyEnds
      BY <1>2, <2>3, DpcParts DEF NobodyEnds
    <2>5. OnlyDpcWaits'
      BY <1>2, <2>3, DpcParts DEF DpcIInv, OnlyDpcWaits
    <2>6. WorkIsSignalled'
      BY <2>1 DEF DpcIInv, WorkIsSignalled, event_vars, dpc_vars
    <2>7. SleepsUnsignalled'
      BY <2>3, DpcParts DEF SleepsUnsignalled
    <2> QED BY <2>1, <2>2, <2>4, <2>5, <2>6, <2>7, CleanupKept DEF DpcIInv
  <1> QED BY <1>1, <1>2

\* A thread ends: it goes to the end of the list and somebody is awake for it.
LEMMA ExitKeeps ==
  ASSUME DpcIInv, ThreadExit
  PROVE  DpcIInv'
  <1> DEFINE t == current_thread
             n == Len(dpc_list)
  <1>1. /\ t \in Thread /\ t # Boot /\ t # DpcThread /\ pc[t] = "user"
        /\ dpc_list' = Append(dpc_list, t)
        /\ UNCHANGED <<dpc_pc, dpc_arg>>
    BY DpcParts DEF ThreadExit, Calling, list_add_tail
  <1>2. state[t] = "RUNNING"
    BY <1>1, DpcParts DEF ThreadInv, OnCPU
  <1>3. /\ ThreadInv'
        /\ pc' = [pc EXCEPT ![t] =
                    IF e_signalled[DpcEvent] THEN "exit" ELSE "wake_all"]
        /\ ~e_signalled[DpcEvent] => waking'.queue = DpcEvent
        /\ current_thread' = t /\ UNCHANGED wait_vars
        /\ state' = [state EXCEPT ![t] = "DEATH"]
    BY DpcParts, ExitStep
  <1>4. DpcTypeOK'
    BY <1>1 DEF DpcIInv, DpcTypeOK
  <1>5. DeadAwaitsCleanup'
    <2>1. dpc_list \in Seq(Thread) /\ DeadAwaitsCleanup
      BY DEF DpcIInv, DpcTypeOK
    <2>2. t # dpc_arg /\ \A i \in 1..n : dpc_list[i] # t
      BY <1>1, <1>2, <2>1 DEF DeadAwaitsCleanup
    <2>3. /\ n \in Nat /\ DOMAIN dpc_list = 1..n
          /\ DOMAIN dpc_list' = 1..(n + 1) /\ dpc_list'[n + 1] = t
          /\ \A i \in 1..n : dpc_list'[i] = dpc_list[i]
      BY <1>1, <2>1
    <2> HIDE DEF n, t
    <2>4. \A u \in Thread : (\E i \in 1..(n + 1) : dpc_list'[i] = u) <=>
            u = t \/ \E i \in 1..n : dpc_list[i] = u
      <3>1. ASSUME NEW u \in Thread, NEW i \in 1..(n + 1), dpc_list'[i] = u
            PROVE  u = t \/ \E j \in 1..n : dpc_list[j] = u
        <4>1. i = n + 1 \/ i \in 1..n
          BY <2>3
        <4> QED BY <3>1, <4>1, <2>3
      <3>2. ASSUME NEW u \in Thread, u = t \/ \E i \in 1..n : dpc_list[i] = u
            PROVE  \E i \in 1..(n + 1) : dpc_list'[i] = u
        <4>1. n + 1 \in 1..(n + 1) /\ \A i \in 1..n : i \in 1..(n + 1)
          BY <2>3
        <4> QED BY <3>2, <4>1, <2>3
      <3> QED BY <3>1, <3>2
    <2>5. \A u \in Thread : state'[u] = "DEATH" <=> u = t \/ state[u] = "DEATH"
      BY <1>3, DpcParts
    <2>6. \A u \in Thread : state'[u] = "DEATH" <=>
            u = dpc_arg' \/ \E i \in DOMAIN dpc_list' : dpc_list'[i] = u
      BY <1>1, <2>1, <2>3, <2>4, <2>5 DEF DeadAwaitsCleanup
    <2>7. ASSUME NEW i \in 1..(n + 1), NEW j \in 1..(n + 1),
                 dpc_list'[i] = dpc_list'[j]
          PROVE  i = j
      <3>1. (i = n + 1 \/ i \in 1..n) /\ (j = n + 1 \/ j \in 1..n)
        BY <2>3
      <3> QED BY <3>1, <2>1, <2>2, <2>3, <2>7 DEF DeadAwaitsCleanup
    <2>8. ASSUME NEW i \in 1..(n + 1) PROVE dpc_list'[i] # dpc_arg'
      <3>1. i = n + 1 \/ i \in 1..n
        BY <2>3
      <3> QED BY <3>1, <1>1, <2>1, <2>2, <2>3 DEF DeadAwaitsCleanup
    <2> QED BY <2>3, <2>6, <2>7, <2>8 DEF DeadAwaitsCleanup
  <1>6. OnlyDpcWaits'
    BY <1>1, <1>3, DpcParts DEF DpcIInv, OnlyDpcWaits, wait_vars
  <1>7. WorkIsSignalled' /\ e_signalled'[DpcEvent]
    <2>1. e_signalled \in [WaitQueue -> BOOLEAN] /\ ~e_flags[DpcEvent]
      BY DEF DpcIInv, WorkIsSignalled
    <2>2. CASE e_signalled[DpcEvent]
      BY <2>1, <2>2 DEF ThreadExit, event_vars, WorkIsSignalled
    <2>3. CASE ~e_signalled[DpcEvent]
      <3>1. signal(DpcEvent)
        BY <2>3 DEF ThreadExit, dpc_wake
      <3>2. e_signalled' = [e_signalled EXCEPT ![DpcEvent] = TRUE]
              /\ UNCHANGED e_flags
        BY <2>1, <3>1 DEF signal
      <3> QED BY <2>1, <3>2, DpcParts DEF WorkIsSignalled
    <2> QED BY <2>2, <2>3
  <1>8. SleepsUnsignalled'
    <2>1. CASE e_signalled[DpcEvent]
      <3>1. state[DpcThread] # "BLOCKED"
        BY <1>1, <2>1 DEF DpcIInv, SleepsUnsignalled
      <3> QED BY <1>1, <1>3, <3>1, DpcParts DEF SleepsUnsignalled
    <2>2. CASE ~e_signalled[DpcEvent]
      BY <1>1, <1>3, <2>2, DpcParts DEF SleepsUnsignalled
    <2> QED BY <2>1, <2>2
  <1> QED BY <1>3, <1>4, <1>5, <1>6, <1>7, <1>8 DEF DpcIInv

\* The last switch of a thread.
LEMMA ExitReschedKeeps ==
  ASSUME DpcIInv, ThreadExitResched
  PROVE  DpcIInv'
  <1>1. /\ pc[current_thread] = "exit"
        /\ UNCHANGED <<wait_vars, pc, waking, event_vars, dpc_vars>>
    BY DEF ThreadExitResched
  <1>2. /\ ThreadInv' /\ NobodyEnds
        /\ \A t \in Thread : state'[t] = "BLOCKED" => state[t] = "BLOCKED"
    BY DpcParts, ExitReschedStep
  <1>3. OnlyDpcWaits'
    BY <1>1, <1>2 DEF NobodyEnds, DpcIInv, OnlyDpcWaits, wait_vars
  <1>4. WorkIsSignalled'
    BY <1>1 DEF DpcIInv, WorkIsSignalled, event_vars, dpc_vars
  <1>5. SleepsUnsignalled'
    BY <1>1, <1>2, DpcParts DEF DpcIInv, SleepsUnsignalled, event_vars
  <1> QED BY <1>1, <1>2, <1>3, <1>4, <1>5, CleanupKept DEF DpcIInv

\* The dpc thread waits for dpc_event, unless it is signalled.
LEMMA WaitKeeps ==
  ASSUME DpcIInv, DpcWait
  PROVE  DpcIInv' /\ NobodyEnds
  <1>1. /\ current_thread = DpcThread /\ dpc_pc = "wait" /\ dpc_pc' = "pop"
        /\ pc[DpcThread] = "user" /\ EventWait(DpcEvent, "INFINITE")
        /\ UNCHANGED <<dpc_list, dpc_arg, e_flags>>
    BY DEF DpcWait, EventWait, Calling
  <1>2. /\ ThreadInv /\ DpcThread \in Thread /\ DpcEvent \in WaitQueue
        /\ e_signalled \in [WaitQueue -> BOOLEAN] /\ ~e_flags[DpcEvent]
    BY DpcParts DEF DpcIInv, WorkIsSignalled
  <1>3. DpcTypeOK'
    BY <1>1 DEF DpcIInv, DpcTypeOK
  <1>4. CASE e_signalled[DpcEvent]
    <2>1. UNCHANGED thread_vars /\ consume(DpcEvent)
      BY <1>1, <1>4 DEF EventWait
    <2>2. e_signalled' = e_signalled
      BY <1>2, <1>4, <2>1 DEF consume
    <2>3. /\ ThreadInv' /\ NobodyEnds /\ OnlyDpcWaits'
          /\ UNCHANGED <<state, pc, current_thread, waking>>
      BY <2>1, IdleScheduler
    <2>4. DeadAwaitsCleanup'
      BY <1>1, <2>3 DEF DpcIInv, DeadAwaitsCleanup
    <2>5. WorkIsSignalled' /\ SleepsUnsignalled'
      BY <1>1, <2>2, <2>3 DEF DpcIInv, WorkIsSignalled, SleepsUnsignalled
    <2> QED BY <1>3, <2>3, <2>4, <2>5 DEF DpcIInv
  <1>5. CASE ~e_signalled[DpcEvent]
    <2> DEFINE st == [state EXCEPT ![current_thread] = "BLOCKED"]
    <2>1. /\ WaitQueueBlock(DpcEvent, "INFINITE")
          /\ UNCHANGED e_signalled
      BY <1>1, <1>5 DEF EventWait, WaitQueueBlock
    <2>2. "INFINITE" \in Timeout
      BY DEF Timeout
    <2>3. ThreadInv'
      BY <1>2, <2>1, <2>2, NextInv DEF ClientNext
    <2>4. Blocked(DpcEvent, "INFINITE")
      BY <1>2, <2>1, <2>2, <2>3, BlockBlocks
    <2>5. /\ \E rq, rem, count : thread_resched(st, rq, rem, count)
          /\ pc' = [pc EXCEPT ![current_thread] = "wait"]
      BY <2>1 DEF WaitQueueBlock, wait_queue_block, goto
    <2>6. st \in [Thread -> State] /\ \A u \in Thread :
            st[u] \in {"DEATH", "FREE"} => state[u] = st[u]
      BY DpcParts DEF State
    <2> HIDE DEF st
    <2>7. NobodyEnds
      BY <1>1, <1>2, <2>3, <2>5, <2>6, SwitchEndsNobody
    <2>8. DeadAwaitsCleanup'
      BY <1>1, <2>7 DEF NobodyEnds, DpcIInv, DeadAwaitsCleanup
    <2>9. state[DpcThread] = "RUNNING"
      BY <1>1, <2>4 DEF Blocked
    <2>10. OnlyDpcWaits'
      BY <1>1, <2>4, <2>7, <2>9
         DEF Blocked, NobodyEnds, DpcIInv, OnlyDpcWaits
    <2>11. WorkIsSignalled' /\ SleepsUnsignalled'
      BY <1>1, <1>5, <2>1 DEF DpcIInv, WorkIsSignalled, SleepsUnsignalled
    <2> QED BY <1>3, <2>3, <2>7, <2>8, <2>10, <2>11 DEF DpcIInv
  <1> QED BY <1>4, <1>5

\* The dpc thread takes the head of the list, or finds it empty.
LEMMA PopKeeps ==
  ASSUME DpcIInv, DpcPop
  PROVE  DpcIInv' /\ NobodyEnds
  <1> DEFINE n == Len(dpc_list)
  <1>1. /\ dpc_pc = "pop" /\ UNCHANGED <<thread_vars, e_flags>>
        /\ pc[current_thread] = "user"
    BY DEF DpcPop, take_dpc, EventUnsignal, event_all_vars, event_vars
  <1>2. /\ ThreadInv' /\ NobodyEnds /\ OnlyDpcWaits'
        /\ UNCHANGED <<state, pc, current_thread, waking>>
    BY <1>1, IdleScheduler
  <1>3. dpc_list \in Seq(Thread) /\ dpc_arg = None /\ DeadAwaitsCleanup
          /\ None \notin Thread
    BY <1>1, DpcParts DEF DpcIInv, DpcTypeOK
  <1>4. CASE take_dpc
    <2>1. /\ dpc_list # <<>> /\ dpc_list' = Tail(dpc_list)
          /\ dpc_arg' = Head(dpc_list) /\ dpc_pc' = "call"
          /\ UNCHANGED <<e_signalled, e_flags>>
      BY <1>4 DEF take_dpc, event_all_vars, event_vars
    <2>2. /\ n \in Nat \ {0} /\ DOMAIN dpc_list = 1..n
          /\ dpc_arg' = dpc_list[1] /\ dpc_arg' \in Thread
          /\ dpc_list' \in Seq(Thread) /\ DOMAIN dpc_list' = 1..(n - 1)
          /\ \A i \in 1..(n - 1) : dpc_list'[i] = dpc_list[i + 1]
      BY <2>1, <1>3
    <2> HIDE DEF n
    <2>3. DpcTypeOK'
      BY <1>3, <2>1, <2>2 DEF DpcTypeOK
    <2>4. \A u \in Thread : (\E i \in 1..n : dpc_list[i] = u) <=>
            u = dpc_arg' \/ \E i \in 1..(n - 1) : dpc_list'[i] = u
      <3>1. ASSUME NEW u \in Thread, NEW i \in 1..n, dpc_list[i] = u
            PROVE  u = dpc_arg' \/ \E j \in 1..(n - 1) : dpc_list'[j] = u
        <4>1. CASE i = 1
          BY <3>1, <4>1, <2>2
        <4>2. CASE i # 1
          <5>1. i - 1 \in 1..(n - 1) /\ (i - 1) + 1 = i
            BY <4>2, <2>2
          <5> QED BY <3>1, <5>1, <2>2
        <4> QED BY <4>1, <4>2
      <3>2. ASSUME NEW u \in Thread,
                   u = dpc_arg' \/ \E j \in 1..(n - 1) : dpc_list'[j] = u
            PROVE  \E i \in 1..n : dpc_list[i] = u
        <4>1. 1 \in 1..n /\ \A j \in 1..(n - 1) : j + 1 \in 1..n
          BY <2>2
        <4> QED BY <3>2, <4>1, <2>2
      <3> QED BY <3>1, <3>2
    <2>5. \A i, j \in 1..(n - 1) :
            /\ i + 1 \in 1..n /\ i + 1 # 1
            /\ i + 1 = j + 1 => i = j
      BY <2>2
    <2>6. /\ \A i, j \in 1..(n - 1) : dpc_list'[i] = dpc_list'[j] => i = j
          /\ \A i \in 1..(n - 1) : dpc_list'[i] # dpc_arg'
      <3>1. /\ 1 \in 1..n
            /\ \A i, j \in 1..n : dpc_list[i] = dpc_list[j] => i = j
        <4>1. 1 \in 1..n BY <2>2
        <4>2. \A i, j \in DOMAIN dpc_list : dpc_list[i] = dpc_list[j] => i = j
          BY <1>3 DEF DeadAwaitsCleanup
        <4> QED BY <4>1, <4>2, <2>2
      <3> QED BY <3>1, <2>2, <2>5
    <2>7. \A u \in Thread : state'[u] = "DEATH" <=>
            u = dpc_arg' \/ \E i \in 1..(n - 1) : dpc_list'[i] = u
      BY <1>2, <1>3, <2>2, <2>4, ZenonT(60) DEF DeadAwaitsCleanup
    <2>8. DeadAwaitsCleanup'
      BY <2>2, <2>6, <2>7 DEF DeadAwaitsCleanup
    <2>9. WorkIsSignalled' /\ SleepsUnsignalled'
      BY <2>1, <1>2 DEF DpcIInv, WorkIsSignalled, SleepsUnsignalled
    <2> QED BY <1>2, <2>3, <2>8, <2>9 DEF DpcIInv
  <1>5. CASE ~take_dpc
    <2>1. /\ dpc_list = <<>> /\ EventUnsignal(DpcEvent) /\ dpc_pc' = "wait"
          /\ UNCHANGED <<dpc_list, dpc_arg>>
      BY <1>5 DEF DpcPop
    <2>2. e_signalled' = [e_signalled EXCEPT ![DpcEvent] = FALSE]
            /\ UNCHANGED e_flags
      BY <2>1 DEF EventUnsignal
    <2>3. DpcTypeOK' /\ DeadAwaitsCleanup'
      BY <1>1, <1>2, <1>3, <2>1 DEF DpcTypeOK, DeadAwaitsCleanup
    <2>4. WorkIsSignalled' /\ SleepsUnsignalled'
      BY <2>1, <2>2, DpcParts
         DEF DpcIInv, WorkIsSignalled, SleepsUnsignalled
    <2> QED BY <1>2, <2>3, <2>4 DEF DpcIInv
  <1> QED BY <1>4, <1>5

\* The dpc thread frees the thread it took: it is dead and off its stack.
LEMMA CallKeeps ==
  ASSUME DpcIInv, DpcCall
  PROVE  /\ DpcIInv'
         /\ dpc_arg \in Thread /\ state[dpc_arg] = "DEATH"
         /\ pc[dpc_arg] = "exit" /\ dpc_arg # current_thread
         /\ state' = [state EXCEPT ![dpc_arg] = "FREE"]
  <1>1. /\ dpc_pc = "call" /\ dpc_pc' = "wait" /\ dpc_arg' = None
        /\ pc[current_thread] = "user"
        /\ state' = [state EXCEPT ![dpc_arg] = "FREE"]
        /\ UNCHANGED <<remaining_quantum, saved_critical_section_count,
                       run_queue, current_thread, critical_section_count,
                       wait_vars, priority, idle_thread, ints, timer, pc,
                       waking, event_vars, dpc_list>>
    BY DEF DpcCall, next_round
  <1>2. /\ dpc_arg \in Thread /\ DeadAwaitsCleanup
        /\ dpc_list \in Seq(Thread)
    BY <1>1, DpcParts DEF DpcIInv, DpcTypeOK
  <1>3. state[dpc_arg] = "DEATH"
    BY <1>2 DEF DeadAwaitsCleanup
  <1>4. ThreadInv' /\ pc[dpc_arg] = "exit" /\ dpc_arg # current_thread
    BY <1>1, <1>2, <1>3, DpcParts, FreeStep
  <1>5. DpcTypeOK'
    BY <1>1, <1>2 DEF DpcTypeOK
  <1>6. DeadAwaitsCleanup'
    BY <1>1, <1>2, DpcParts DEF DeadAwaitsCleanup
  <1>7. OnlyDpcWaits'
    BY <1>1, <1>2, <1>4, DpcParts DEF DpcIInv, OnlyDpcWaits, wait_vars
  <1>8. WorkIsSignalled'
    BY <1>1 DEF DpcIInv, WorkIsSignalled, event_vars
  <1>9. SleepsUnsignalled'
    BY <1>1, <1>2, DpcParts DEF DpcIInv, SleepsUnsignalled, event_vars
  <1> QED BY <1>1, <1>2, <1>3, <1>4, <1>5, <1>6, <1>7, <1>8, <1>9 DEF DpcIInv

-----------------------------------------------------------------------------
(* The theorems.                                                           *)

\* The dpc thread starts with nothing to do.
LEMMA DpcInitInv == DpcInit => DpcIInv
  <1> SUFFICES ASSUME DpcInit PROVE DpcIInv
    OBVIOUS
  <1>1. /\ ThreadInit /\ ~e_signalled[DpcEvent]
        /\ e_signalled \in [WaitQueue -> BOOLEAN]
        /\ e_flags = [e \in WaitQueue |-> e \in AutoEvents]
        /\ dpc_list = <<>> /\ dpc_pc = "wait" /\ dpc_arg = None
    BY DEF DpcInit, EventInit
  <1>2. ThreadInv
    BY <1>1, InitInv
  <1>3. \A t \in Thread : /\ state[t] \in {"FREE", "RUNNING"}
                          /\ pc[t] \in {"boot", "new"}
    BY <1>1 DEF ThreadInit
  <1>4. DpcTypeOK /\ DeadAwaitsCleanup
    BY <1>1, <1>3, ThreadAssumption DEF DpcTypeOK, DeadAwaitsCleanup
  <1>5. OnlyDpcWaits
    BY <1>3 DEF OnlyDpcWaits
  <1>6. WorkIsSignalled
    BY <1>1, DpcAssumption DEF WorkIsSignalled
  <1>7. SleepsUnsignalled
    BY <1>1, DpcAssumption DEF SleepsUnsignalled
  <1> QED BY <1>2, <1>4, <1>5, <1>6, <1>7 DEF DpcIInv

\* Every step keeps the invariant.
LEMMA DpcNextInv == DpcIInv /\ [DpcNext]_dpc_all_vars => DpcIInv'
  <1> SUFFICES ASSUME DpcIInv, [DpcNext]_dpc_all_vars PROVE DpcIInv'
    OBVIOUS
  <1>1. CASE DpcStart
    BY <1>1, StartKeeps
  <1>2. CASE (ThreadCalls \/ KernelSteps) /\ UNCHANGED <<event_vars, dpc_vars>>
    BY <1>2, SchedulerKeeps
  <1>3. CASE EventWaitReturn /\ UNCHANGED dpc_vars
    BY <1>3, ReturnKeeps
  <1>4. CASE ThreadExit
    BY <1>4, ExitKeeps
  <1>5. CASE ThreadExitResched
    BY <1>5, ExitReschedKeeps
  <1>6. CASE DpcRoutine
    BY <1>6, WaitKeeps, PopKeeps, CallKeeps DEF DpcRoutine
  <1>7. CASE UNCHANGED dpc_all_vars
    <2>1. UNCHANGED thread_vars /\ UNCHANGED <<event_vars, dpc_vars>>
      BY <1>7 DEF dpc_all_vars, event_all_vars
    <2>2. /\ ThreadInv' /\ NobodyEnds /\ OnlyDpcWaits'
          /\ UNCHANGED <<state, pc, current_thread, waking>>
      BY <2>1, IdleScheduler
    <2>3. WorkIsSignalled' /\ SleepsUnsignalled'
      BY <2>1, <2>2 DEF DpcIInv, WorkIsSignalled, SleepsUnsignalled,
                        event_vars, dpc_vars
    <2> QED BY <2>1, <2>2, <2>3, CleanupKept DEF DpcIInv
  <1> QED BY <1>1, <1>2, <1>3, <1>4, <1>5, <1>6, <1>7 DEF DpcNext

\* The strengthening is an invariant.
LEMMA DpcIInvariant == DpcSpec => []DpcIInv
  BY DpcInitInv, DpcNextInv, PTL DEF DpcSpec

\* Each thread that ended is queued for its cleanup exactly once, nothing that
\* lives is, the dpc thread never sleeps while one waits for it, and the run
\* queue and the critical sections stay exact while threads end.
THEOREM EndedThreadsAreCleanedUp ==
  ASSUME LeakBound = 0
  PROVE  DpcSpec => []DpcInv
  <1>1. DpcIInv => DpcInv
    <2> SUFFICES ASSUME DpcIInv PROVE DpcInv
      OBVIOUS
    <2>1. DpcTypeOK /\ DeadAwaitsCleanup /\ RunQueueExact
      BY DEF DpcIInv, ThreadInv
    <2>2. NoDpcForgotten
      BY DEF DpcIInv, WorkIsSignalled, SleepsUnsignalled, NoDpcForgotten
    <2>3. CriticalSectionsBalanced
      BY DEF DpcIInv, ThreadInv, CountsCover, Pays, CriticalSectionsBalanced
    <2> QED BY <2>1, <2>2, <2>3 DEF DpcInv
  <1> QED BY <1>1, DpcIInvariant, PTL

\* The stack of a thread is freed only when the thread is past its last
\* switch: dead, at the end of thread_exit and not on the CPU.
THEOREM StacksAreFreedUnused ==
  ASSUME LeakBound = 0
  PROVE  DpcSpec => NoStackFreedInUse
  <1>1. DpcIInv /\ [DpcNext]_dpc_all_vars =>
          [\A t \in Thread : (state[t] # "FREE" /\ state'[t] = "FREE") =>
             state[t] = "DEATH" /\ pc[t] = "exit"
               /\ t # current_thread]_dpc_all_vars
    <2> SUFFICES ASSUME DpcIInv, DpcNext, NEW t \in Thread,
                        state[t] # "FREE", state'[t] = "FREE"
                 PROVE  /\ state[t] = "DEATH" /\ pc[t] = "exit"
                        /\ t # current_thread
      OBVIOUS
    <2>1. CASE DpcCall
      BY <2>1, CallKeeps, DpcParts
    <2>2. CASE DpcWait \/ DpcPop
      BY <2>2, WaitKeeps, PopKeeps DEF NobodyEnds
    <2>3. CASE ThreadCalls \/ KernelSteps
      BY <2>3, DpcParts, ThreadCallsInv, KernelStepsInv, CallsEndNobody,
         StepsEndNobody DEF NobodyEnds
    <2>4. CASE DpcStart
      <3>1. CASE ThreadCreate(DpcThread, HighestPrio)
        BY <3>1, DpcParts DEF ThreadCreate
      <3>2. CASE ThreadResume(DpcThread)
        <4>1. ThreadCalls
          BY <3>2, DpcParts DEF ThreadCalls
        <4> QED BY <4>1, DpcParts, ThreadCallsInv, CallsEndNobody
                DEF NobodyEnds
      <3> QED BY <2>4, <3>1, <3>2 DEF DpcStart
    <2>5. CASE EventWaitReturn
      BY <2>5 DEF EventWaitReturn, wait_queue_block_return, unwind
    <2>6. CASE ThreadExit
      BY <2>6, ExitStep, DpcParts
    <2>7. CASE ThreadExitResched
      BY <2>7, ExitReschedStep, DpcParts DEF NobodyEnds
    <2> QED BY <2>1, <2>2, <2>3, <2>4, <2>5, <2>6, <2>7
            DEF DpcNext, DpcRoutine
  <1> QED BY <1>1, DpcIInvariant, PTL DEF DpcSpec, NoStackFreedInUse

=============================================================================
