--------------------------------- MODULE Dpc ---------------------------------
(***************************************************************************)
(* kernel/dpc.c and thread_exit: a thread that ends cannot free the stack  *)
(* it runs on, so it queues a deferred procedure call, thread_cleanup_dpc, *)
(* which the dpc thread makes for it.  thread_exit is the only caller of   *)
(* dpc_queue in the tree.                                                  *)
(***************************************************************************)
EXTENDS Event

CONSTANTS
  DpcThread,   \* the thread of dpc_thread_routine
  DpcEvent     \* dpc_event, a plain event

ASSUME DpcAssumption ==
  /\ DpcThread \in Thread \ {Boot}
  /\ DpcEvent \in WaitQueue \ AutoEvents

VARIABLES
  dpc_list,   \* dpc_list: the threads to clean up, oldest first
  dpc_pc,     \* where dpc_thread_routine is in its loop
  dpc_arg     \* its local variable dpc, as the thread to clean up

dpc_vars == <<dpc_list, dpc_pc, dpc_arg>>
dpc_all_vars == <<event_all_vars, dpc_vars>>

\* dpc_init has created the dpc thread, at DPC_PRIORITY = HIGHEST_PRIORITY.
DpcInit ==
  /\ EventInit
  /\ ~e_signalled[DpcEvent]
  /\ dpc_list = <<>>
  /\ dpc_pc = "wait"
  /\ dpc_arg = None

\* thread_create in dpc_init comes before every other thread_create, and
\* thread_resume right after it.
DpcStart ==
  /\ IF state[DpcThread] = "FREE" THEN ThreadCreate(DpcThread, HighestPrio)
     ELSE ThreadResume(DpcThread)
  /\ UNCHANGED <<event_vars, dpc_vars>>

DpcStarted == state[DpcThread] \notin {"FREE", "SUSPENDED"}

\* Variant: the flags are not looked at, the wake-up reschedules.
dpc_wake_reschedules(st, reschedule) ==
  /\ signal(DpcEvent)
  /\ wake_all_begin(st, DpcEvent, TRUE, "NO_ERROR",
                    critical_section_count + 1, "exit")

\* The event_signal of dpc_queue.
dpc_wake(st, reschedule) ==
  /\ signal(DpcEvent)
  /\ wake_all_begin(st, DpcEvent, reschedule, "NO_ERROR",
                    critical_section_count + 1, "exit")

\* thread_exit up to thread_resched: dpc_queue with DPC_FLAG_NORESCHED adds
\* to the list and signals the event, unless it is signalled already.
ThreadExit ==
  LET t    == current_thread
      dead == [state EXCEPT ![t] = "DEATH"]
  IN  /\ Calling /\ t # DpcThread
      /\ dpc_list' = list_add_tail(dpc_list, t)
      /\ EnterMasks
      /\ IF e_signalled[DpcEvent]
         THEN /\ state' = dead
              /\ critical_section_count' = critical_section_count + 1
              /\ goto("exit")
              /\ UNCHANGED <<remaining_quantum, saved_critical_section_count,
                             run_queue, current_thread, wait_vars, timer,
                             waking, event_vars>>
         ELSE dpc_wake(dead, FALSE)
      /\ UNCHANGED <<priority, idle_thread, dpc_pc, dpc_arg>>

\* thread_resched at the end of thread_exit.
ThreadExitResched ==
  /\ pc[current_thread] = "exit"
  /\ thread_resched(state, run_queue, remaining_quantum,
                    critical_section_count)
  /\ UNCHANGED <<wait_vars, priority, idle_thread, ints, timer, pc, waking,
                 event_vars, dpc_vars>>

\* The loop of dpc_thread_routine: event_wait, then the head of the list or,
\* if it is empty, event_unsignal, then the call.
DpcWait ==
  /\ current_thread = DpcThread /\ dpc_pc = "wait"
  /\ EventWait(DpcEvent, "INFINITE")
  /\ dpc_pc' = "pop"
  /\ UNCHANGED <<dpc_list, dpc_arg>>

\* Variants of the step after the wait: the head is looked at and not taken;
\* the event is unsignalled whether or not the list is empty.
peek_keeps_head ==
  /\ dpc_list # <<>>
  /\ dpc_arg' = Head(dpc_list)
  /\ dpc_pc' = "call"
  /\ UNCHANGED <<event_all_vars, dpc_list>>
take_and_unsignal ==
  /\ dpc_list # <<>>
  /\ dpc_list' = Tail(dpc_list)
  /\ dpc_arg' = Head(dpc_list)
  /\ dpc_pc' = "call"
  /\ EventUnsignal(DpcEvent)

take_dpc ==
  /\ dpc_list # <<>>
  /\ dpc_list' = Tail(dpc_list)
  /\ dpc_arg' = Head(dpc_list)
  /\ dpc_pc' = "call"
  /\ UNCHANGED event_all_vars

DpcPop ==
  /\ current_thread = DpcThread /\ pc[DpcThread] = "user" /\ dpc_pc = "pop"
  /\ \/ take_dpc
     \/ /\ dpc_list = <<>>
        /\ EventUnsignal(DpcEvent)
        /\ dpc_pc' = "wait"
        /\ UNCHANGED <<dpc_list, dpc_arg>>

next_round == dpc_pc' = "wait" /\ dpc_arg' = None

\* thread_cleanup_dpc frees the stack and the thread.
DpcCall ==
  /\ current_thread = DpcThread /\ pc[DpcThread] = "user" /\ dpc_pc = "call"
  /\ state' = [state EXCEPT ![dpc_arg] = "FREE"]
  /\ next_round
  /\ UNCHANGED <<remaining_quantum, saved_critical_section_count, run_queue,
                 current_thread, critical_section_count, wait_vars, priority,
                 idle_thread, ints, timer, pc, waking, event_vars, dpc_list>>

DpcRoutine == DpcWait \/ DpcPop \/ DpcCall

DpcNext ==
  \/ ~DpcStarted /\ DpcStart
  \/ /\ DpcStarted
     /\ \/ /\ current_thread # DpcThread
           /\ ThreadCalls
           /\ UNCHANGED <<event_vars, dpc_vars>>
        \/ KernelSteps /\ UNCHANGED <<event_vars, dpc_vars>>
        \/ EventWaitReturn /\ UNCHANGED dpc_vars
        \/ ThreadExit
        \/ ThreadExitResched
        \/ DpcRoutine

DpcSpec == DpcInit /\ [][DpcNext]_dpc_all_vars

(***************************************************************************)
(* Fairness of the dpc thread: it has nothing to do but its loop, and goes *)
(* on whenever it keeps getting the CPU.                                   *)
(***************************************************************************)
DpcFairSpec ==
  /\ DpcSpec
  /\ SchedulerFairness
  /\ WF_dpc_all_vars(EventWaitReturn /\ UNCHANGED dpc_vars)
  /\ WF_dpc_all_vars(ThreadExitResched)
  /\ SF_dpc_all_vars(DpcRoutine)

-----------------------------------------------------------------------------
(* Properties.                                                             *)

\* Every variable has its type, and dpc names a thread from the pop to the
\* call.
DpcTypeOK ==
  /\ dpc_list \in Seq(Thread)
  /\ dpc_pc \in {"wait", "pop", "call"}
  /\ dpc_arg \in Thread \cup {None}
  /\ dpc_arg # None <=> dpc_pc = "call"

\* A thread that ended is queued for cleanup exactly once until it is freed:
\* it is not freed twice, not forgotten, and nothing that lives is freed.
DeadAwaitsCleanup ==
  /\ \A t \in Thread : state[t] = "DEATH" <=>
       t = dpc_arg \/ \E i \in DOMAIN dpc_list : dpc_list[i] = t
  /\ \A i, j \in DOMAIN dpc_list : dpc_list[i] = dpc_list[j] => i = j
  /\ \A i \in DOMAIN dpc_list : dpc_list[i] # dpc_arg

\* The dpc thread does not sleep on a list that is not empty, other than
\* while dpc_queue is waking it.
NoDpcForgotten ==
  (dpc_list # <<>> /\ state[DpcThread] = "BLOCKED")
    => pc[current_thread] = "wake_all" /\ waking.queue = DpcEvent

\* What holds between thread_exit and the dpc thread: each thread that ended
\* is in dpc_list once and somebody is awake for it; and the run queue and
\* the critical sections stay exact while threads end and are created anew.
DpcInv ==
  /\ DpcTypeOK /\ DeadAwaitsCleanup /\ NoDpcForgotten
  /\ RunQueueExact /\ CriticalSectionsBalanced

\* A stack is freed only after the thread has left it for the last time: it
\* is past the wake-up in thread_exit, cannot be dispatched again, and the
\* CPU is on another stack.
NoStackFreedInUse ==
  [][\A t \in Thread : (state[t] # "FREE" /\ state'[t] = "FREE") =>
       state[t] = "DEATH" /\ pc[t] = "exit" /\ t # current_thread]_dpc_all_vars

\* Every thread that ends is cleaned up in the end.
DeadIsFreed ==
  \A t \in Thread : state[t] = "DEATH" ~> state[t] = "FREE"
=============================================================================
