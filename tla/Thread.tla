------------------------------- MODULE Thread -------------------------------
(***************************************************************************)
(* The scheduler and the wait queues of the kernel (kernel/thread.c), with *)
(* the two pieces of glue a switch goes through: the IRQ entry of          *)
(* arch/arm/exceptions.S and the first instructions of a new thread        *)
(* (arch/arm/thread.c).                                                    *)
(*                                                                         *)
(* There is one CPU.  While interrupts are masked a call is atomic up to   *)
(* the point where thread_resched switches stacks, so an operation that    *)
(* switches is two actions: the call up to and including thread_resched,   *)
(* and the code after it, which runs when the thread is dispatched again.  *)
(* pc[t] says which code that is.                                          *)
(*                                                                         *)
(* One kind of call is not masked.  A timer that expires late leaks a      *)
(* critical section (not_blocked); its holder then has a count of 1 with   *)
(* interrupts on, what it enters next takes the count from 1 to 2, and     *)
(* interrupts come at every instruction of the call.  Such calls are not   *)
(* modelled: with LeakersCall = FALSE a behaviour goes on only as long as  *)
(* no thread makes one, and CallsAreMasked shows that every other call is  *)
(* one step.  With LeakersCall = TRUE those calls are made too, without    *)
(* the interrupts the code could take meanwhile: some of what it can do,   *)
(* enough to find an error and never to exclude one.                       *)
(***************************************************************************)
EXTENDS Integers, Sequences, FiniteSets, Functions

CONSTANTS
  Thread,          \* every thread_t, allocated or not
  Boot,            \* bootstrap_thread, which becomes the idle thread
  HighestPrio,     \* HIGHEST_PRIORITY (31 in the code)
  CreatePrios,     \* the priorities thread_create is called with
  SetPrios,        \* the priorities thread_set_priority is called with
  Quantum,         \* quantum: 1 with ENABLE_IO_THREAD, else 5
  WaitQueue,       \* every wait_queue_t
  Timeouts,        \* kinds of timeout given to wait_queue_block
  LeakBound,       \* bound: critical sections that may be leaked per thread
  LeakersCall,     \* whether the holder of a leaked one goes on calling
  None             \* NULL

Prio == 0..HighestPrio
IDLE_PRIORITY == 0
Timeout == {"FINITE", "INFINITE"}
Status == {"NO_ERROR", "ERR_TIMED_OUT", "ERR_OBJECT_DESTROYED"}

ASSUME ThreadAssumption ==
  /\ Boot \in Thread
  /\ HighestPrio \in Nat
  /\ CreatePrios \subseteq Prio
  /\ SetPrios \subseteq Prio
  /\ Quantum \in Nat \ {0}
  /\ Timeouts \subseteq Timeout
  /\ LeakBound \in Nat
  /\ LeakersCall \in BOOLEAN
  /\ None \notin Thread
  /\ None \notin WaitQueue

\* Every thread_t lies in memory.
ASSUME ThreadFinite == IsFiniteSet(Thread)

VARIABLES
  state,                  \* thread_t.state; "FREE" before thread_create
  priority,               \* thread_t.priority
  remaining_quantum,      \* thread_t.remaining_quantum, 0 for "<= 0"
  saved_critical_section_count,
  blocking_wait_queue,    \* thread_t.blocking_wait_queue
  wait_queue_block_ret,   \* thread_t.wait_queue_block_ret
  run_queue,              \* run_queue[] and run_queue_bitmap
  current_thread,
  idle_thread,
  critical_section_count,
  ints,                   \* TRUE iff the CPU takes interrupts
  wait_list,              \* wait_queue_t.list
  wait_count,             \* wait_queue_t.count
  timer,                  \* the timer on t's stack: pending for what, if any
  pc,                     \* the code t runs when it next runs
  waking                  \* locals of the wait_queue_wake_all in progress

sched_vars == <<state, remaining_quantum, saved_critical_section_count,
                run_queue, current_thread, critical_section_count>>
wait_vars == <<wait_list, wait_count, blocking_wait_queue,
               wait_queue_block_ret>>
thread_vars == <<sched_vars, wait_vars, priority, idle_thread, ints, timer,
                 pc, waking>>

-----------------------------------------------------------------------------
(* include/list.h: lists as sequences, head first.                         *)

list_add_head(s, x) == <<x>> \o s
list_add_tail(s, x) == Append(s, x)
list_delete(s, x) ==
  LET i == CHOOSE i \in DOMAIN s : s[i] = x
  IN  [j \in 1..(Len(s) - 1) |-> IF j < i THEN s[j] ELSE s[j + 1]]

\* Variant: the bit of the list is not set.
insert_forgets_bit(rq, t, p) ==
  [rq EXCEPT !.list[p] = list_add_head(@, t)]

insert_in_run_queue_head(rq, t, p) ==
  [list   |-> [rq.list EXCEPT ![p] = list_add_head(@, t)],
   bitmap |-> rq.bitmap \cup {p}]

insert_in_run_queue_tail(rq, t, p) ==
  [list   |-> [rq.list EXCEPT ![p] = list_add_tail(@, t)],
   bitmap |-> rq.bitmap \cup {p}]

\* list_remove_head_type and the clearing of the bit in thread_resched.
remove_run_queue_head(rq, p) ==
  [list   |-> [rq.list EXCEPT ![p] = Tail(@)],
   bitmap |-> IF Len(rq.list[p]) = 1 THEN rq.bitmap \ {p} ELSE rq.bitmap]

\* Variant: the trailing zeroes are counted instead.
lowest(bitmap) == CHOOSE p \in bitmap : \A q \in bitmap : p <= q

\* HIGHEST_PRIORITY - clz(run_queue_bitmap)
highest(bitmap) == CHOOSE p \in bitmap : \A q \in bitmap : q <= p

(***************************************************************************)
(* thread_resched, called with critical_section_count = count after its    *)
(* caller turned state into st, run_queue into rq and remaining_quantum    *)
(* into rem.  When it picks the current thread again it returns before     *)
(* the quantum is refilled.                                                *)
(***************************************************************************)
thread_resched(st, rq, rem, count) ==
  LET next_queue == highest(rq.bitmap)
      newthread  == Head(rq.list[next_queue])
      same       == newthread = current_thread
  IN  /\ state' = [st EXCEPT ![newthread] = "RUNNING"]
      /\ run_queue' = remove_run_queue_head(rq, next_queue)
      /\ current_thread' = newthread
      /\ remaining_quantum' =
           IF ~same /\ rem[newthread] = 0
           THEN [rem EXCEPT ![newthread] = Quantum] ELSE rem
      /\ saved_critical_section_count' =
           IF same THEN saved_critical_section_count
           ELSE [saved_critical_section_count EXCEPT ![current_thread] = count]
      /\ critical_section_count' =
           IF same THEN count ELSE saved_critical_section_count[newthread]

\* Variant: the count is compared before it is incremented.
enter_compares_first == ints' = (ints /\ critical_section_count # 1)

\* enter_critical_section disables interrupts only when the count becomes 1.
EnterMasks == ints' = (ints /\ critical_section_count # 0)

\* The next enter_critical_section of the current thread masks interrupts, or
\* they are masked: it holds no leaked critical section.
CallIsMasked == ints /\ critical_section_count > 0 => LeakersCall

\* The current thread runs code outside the kernel and may call it.  After
\* boot the bootstrap thread calls nothing: it sits in idle_thread_routine.
Calling ==
  pc[current_thread] = "user" /\ current_thread # Boot /\ CallIsMasked

goto(label) == pc' = [pc EXCEPT ![current_thread] = label]

\* Variant: thread_yield leaves its critical section twice.
exits_yield_twice(label) ==
  CASE label \in {"new", "sleep", "wake", "exit", "irq", "device"} -> 1
    [] label \in {"yield", "resume", "boot_resume", "wait", "preempt"} -> 2
    [] OTHER -> 0

\* Calls of exit_critical_section (and dec_critical_section) in the code
\* that a label stands for.
Exits(label) ==
  CASE label \in {"new", "yield", "sleep", "wake", "exit", "irq", "device"} -> 1
    [] label \in {"resume", "boot_resume", "wait", "preempt"} -> 2
    [] OTHER -> 0

-----------------------------------------------------------------------------
(* Start-up: kmain after thread_init_early.                                *)

NotWaking == [queue |-> None, reschedule |-> FALSE, error |-> "NO_ERROR",
              ret |-> FALSE, then |-> "user"]

ThreadInit ==
  /\ state = [t \in Thread |-> IF t = Boot THEN "RUNNING" ELSE "FREE"]
  /\ priority = [t \in Thread |-> IF t = Boot THEN HighestPrio ELSE 0]
  /\ remaining_quantum = [t \in Thread |-> 0]
  /\ saved_critical_section_count = [t \in Thread |-> 1]
  /\ blocking_wait_queue = [t \in Thread |-> None]
  /\ wait_queue_block_ret = [t \in Thread |-> "NO_ERROR"]
  /\ run_queue = [list |-> [p \in Prio |-> <<>>], bitmap |-> {}]
  /\ current_thread = Boot
  /\ idle_thread = None
  /\ critical_section_count = 1
  /\ ints = FALSE
  /\ wait_list = [w \in WaitQueue |-> <<>>]
  /\ wait_count = [w \in WaitQueue |-> 0]
  /\ timer = [t \in Thread |-> "none"]
  /\ pc = [t \in Thread |-> IF t = Boot THEN "boot" ELSE "new"]
  /\ waking = NotWaking

\* kmain leaves its critical section, with whatever threads it has started.
BootDone ==
  /\ pc[current_thread] = "boot"
  /\ critical_section_count' = critical_section_count - 1
  /\ ints' = (critical_section_count = 1)
  /\ goto("user")
  /\ UNCHANGED <<state, remaining_quantum, saved_critical_section_count,
                 run_queue, current_thread, wait_vars, priority, idle_thread,
                 timer, waking>>

\* thread_become_idle, its thread_yield included.
BecomeIdle ==
  LET rq == insert_in_run_queue_tail(run_queue, Boot, IDLE_PRIORITY)
  IN  /\ current_thread = Boot /\ pc[Boot] = "user" /\ idle_thread = None
      /\ CallIsMasked
      /\ idle_thread' = Boot
      /\ priority' = [priority EXCEPT ![Boot] = IDLE_PRIORITY]
      /\ EnterMasks
      /\ goto("yield")
      /\ thread_resched([state EXCEPT ![Boot] = "READY"], rq,
                        [remaining_quantum EXCEPT ![Boot] = 0],
                        critical_section_count + 1)
      /\ UNCHANGED <<wait_vars, timer, waking>>

-----------------------------------------------------------------------------
(* Calls of a thread.                                                      *)

\* thread_create, when the two allocations succeed.
ThreadCreate(t, prio) ==
  /\ Calling \/ pc[current_thread] = "boot"
  /\ state[t] = "FREE"
  /\ state' = [state EXCEPT ![t] = "SUSPENDED"]
  /\ priority' = [priority EXCEPT ![t] = prio]
  /\ remaining_quantum' = [remaining_quantum EXCEPT ![t] = 0]
  /\ saved_critical_section_count' =
       [saved_critical_section_count EXCEPT ![t] = 1]
  /\ blocking_wait_queue' = [blocking_wait_queue EXCEPT ![t] = None]
  /\ wait_queue_block_ret' = [wait_queue_block_ret EXCEPT ![t] = "NO_ERROR"]
  /\ pc' = [pc EXCEPT ![t] = "new"]
  /\ UNCHANGED <<run_queue, current_thread, critical_section_count, wait_list,
                 wait_count, idle_thread, ints, timer, waking>>

\* thread_yield by a caller that holds count critical sections, after st and
\* rq were set.
thread_yield(st, rq, count) ==
  thread_resched([st EXCEPT ![current_thread] = "READY"],
                 insert_in_run_queue_tail(rq, current_thread,
                                          priority[current_thread]),
                 [remaining_quantum EXCEPT ![current_thread] = 0],
                 count + 1)

\* thread_resume of a thread its creator has not started yet.
ThreadResume(t) ==
  /\ Calling \/ pc[current_thread] = "boot"
  /\ state[t] = "SUSPENDED"
  /\ EnterMasks
  /\ goto(IF pc[current_thread] = "boot" THEN "boot_resume" ELSE "resume")
  /\ thread_yield([state EXCEPT ![t] = "READY"],
                  insert_in_run_queue_head(run_queue, t, priority[t]),
                  critical_section_count + 1)
  /\ UNCHANGED <<wait_vars, priority, idle_thread, timer, waking>>

ThreadYield ==
  /\ Calling
  /\ EnterMasks
  /\ goto("yield")
  /\ thread_yield(state, run_queue, critical_section_count)
  /\ UNCHANGED <<wait_vars, priority, idle_thread, timer, waking>>

\* thread_sleep: the timer lives on the stack of the sleeper.
ThreadSleep ==
  /\ Calling
  /\ EnterMasks
  /\ timer' = [timer EXCEPT ![current_thread] = "sleep"]
  /\ goto("sleep")
  /\ thread_resched([state EXCEPT ![current_thread] = "SLEEPING"], run_queue,
                    remaining_quantum, critical_section_count + 1)
  /\ UNCHANGED <<wait_vars, priority, idle_thread, waking>>

\* thread_set_priority changes the field and nothing else.
ThreadSetPriority(prio) ==
  /\ Calling
  /\ priority' = [priority EXCEPT ![current_thread] = prio]
  /\ UNCHANGED <<sched_vars, wait_vars, idle_thread, ints, timer, pc, waking>>

\* What follows the switch in an operation: every exit_critical_section it
\* still owes.  The return from an interrupt restores the spsr, in which
\* interrupts are on.
unwind(label) ==
  /\ pc[current_thread] = label
  /\ critical_section_count' = critical_section_count - Exits(label)
  /\ ints' = (ints \/ critical_section_count = Exits(label)
                   \/ label = "preempt")
  /\ goto(IF label = "boot_resume" THEN "boot" ELSE "user")
  /\ UNCHANGED <<state, remaining_quantum, saved_critical_section_count,
                 run_queue, current_thread, priority, idle_thread, waking>>

ThreadReturn ==
  /\ \E label \in {"new", "yield", "sleep", "wake", "resume", "boot_resume",
                   "preempt"} : unwind(label)
  /\ UNCHANGED <<wait_vars, timer>>

-----------------------------------------------------------------------------
(* Interrupts: arm_irq, platform_irq; for the tick lk_scheduler, timer_tick.*)

\* source is "irq" for the tick and "device" for any other interrupt.  That
\* the thread is in no call excludes nothing unless LeakersCall
\* (CallsAreMasked).
IrqEnter(source) ==
  /\ ints /\ pc[current_thread] = "user"
  /\ ints' = FALSE
  /\ critical_section_count' = critical_section_count + 1
  /\ goto(source)
  /\ UNCHANGED <<state, remaining_quantum, saved_critical_section_count,
                 run_queue, current_thread, wait_vars, priority, idle_thread,
                 timer, waking>>

\* timer_tick finds the timer of a sleeper expired: thread_sleep_handler.
SleepTimer(t) ==
  /\ pc[current_thread] = "irq" /\ timer[t] = "sleep"
  /\ timer' = [timer EXCEPT ![t] = "none"]
  /\ state' = [state EXCEPT ![t] = "READY"]
  /\ run_queue' = insert_in_run_queue_head(run_queue, t, priority[t])
  /\ UNCHANGED <<remaining_quantum, saved_critical_section_count,
                 current_thread, critical_section_count, wait_vars, priority,
                 idle_thread, ints, pc, waking>>

\* Variant: the result is written before the state is looked at.
not_blocked_overwrites(t) ==
  /\ critical_section_count <= LeakBound
  /\ critical_section_count' = critical_section_count + 1
  /\ wait_queue_block_ret' =
       [wait_queue_block_ret EXCEPT ![t] = "ERR_TIMED_OUT"]
  /\ UNCHANGED <<state, run_queue, wait_list, wait_count,
                 blocking_wait_queue>>

\* thread_unblock_from_wait_queue(t, false, ERR_TIMED_OUT) for a thread that
\* is no longer blocked: it returns without leaving the critical section it
\* entered.
not_blocked(t) ==
  /\ critical_section_count <= LeakBound
  /\ critical_section_count' = critical_section_count + 1
  /\ UNCHANGED <<state, run_queue, wait_vars>>

\* The same call for a thread that is blocked.
unblock(t) ==
  LET w == blocking_wait_queue[t]
  IN  /\ wait_list' = [wait_list EXCEPT ![w] = list_delete(@, t)]
      /\ wait_count' = [wait_count EXCEPT ![w] = @ - 1]
      /\ blocking_wait_queue' = [blocking_wait_queue EXCEPT ![t] = None]
      /\ wait_queue_block_ret' =
           [wait_queue_block_ret EXCEPT ![t] = "ERR_TIMED_OUT"]
      /\ state' = [state EXCEPT ![t] = "READY"]
      /\ run_queue' = insert_in_run_queue_head(run_queue, t, priority[t])
      /\ UNCHANGED critical_section_count

\* timer_tick finds the timer of a wait expired: wait_queue_timeout_handler.
WaitTimer(t) ==
  /\ pc[current_thread] = "irq" /\ timer[t] = "wait"
  /\ timer' = [timer EXCEPT ![t] = "none"]
  /\ IF state[t] = "BLOCKED" THEN unblock(t) ELSE not_blocked(t)
  /\ UNCHANGED <<remaining_quantum, saved_critical_section_count,
                 current_thread, priority, idle_thread, ints, pc, waking>>

\* Variant: the tick does not use up the quantum.
tick_spares_quantum == remaining_quantum

\* thread_timer_tick, the last call of timer_tick.
thread_timer_tick ==
  IF current_thread = idle_thread \/ remaining_quantum[current_thread] = 0
  THEN remaining_quantum
  ELSE [remaining_quantum EXCEPT ![current_thread] = @ - 1]

\* Variant: the critical section is not entered.
preempt_unprotected(st, rq, rem, count) ==
  LET t == current_thread
  IN  thread_resched([st EXCEPT ![t] = "READY"],
                     IF rem[t] > 0
                     THEN insert_in_run_queue_head(rq, t, priority[t])
                     ELSE insert_in_run_queue_tail(rq, t, priority[t]),
                     rem, count)

\* thread_preempt, by a caller that holds count critical sections.
thread_preempt(st, rq, rem, count) ==
  LET t == current_thread
  IN  thread_resched([st EXCEPT ![t] = "READY"],
                     IF rem[t] > 0
                     THEN insert_in_run_queue_head(rq, t, priority[t])
                     ELSE insert_in_run_queue_tail(rq, t, priority[t]),
                     rem, count + 1)

\* The end of an interrupt.  platform_irq returns INT_RESCHEDULE whatever the
\* handlers said, so arm_irq always preempts.
IrqExit ==
  /\ pc[current_thread] \in {"irq", "device"}
  /\ goto("preempt")
  /\ thread_preempt(state, run_queue,
                    IF pc[current_thread] = "irq" THEN thread_timer_tick
                    ELSE remaining_quantum,
                    critical_section_count)
  /\ UNCHANGED <<wait_vars, priority, idle_thread, ints, timer, waking>>

-----------------------------------------------------------------------------
(* Wait queues.  Every function is called inside a critical section.       *)

\* wait_queue_block with a timeout other than 0 (which returns at once):
\* thread_block enters a second critical section.
wait_queue_block(w, timeout, count) ==
  LET t == current_thread
  IN  /\ wait_list' = [wait_list EXCEPT ![w] = list_add_tail(@, t)]
      /\ wait_count' = [wait_count EXCEPT ![w] = @ + 1]
      /\ blocking_wait_queue' = [blocking_wait_queue EXCEPT ![t] = w]
      /\ wait_queue_block_ret' =
           [wait_queue_block_ret EXCEPT ![t] = "NO_ERROR"]
      /\ timer' = IF timeout = "FINITE"
                  THEN [timer EXCEPT ![t] = "wait"] ELSE timer
      /\ goto("wait")
      /\ thread_resched([state EXCEPT ![t] = "BLOCKED"], run_queue,
                        remaining_quantum, count + 1)

\* Variant: the timer is left pending.
block_return_keeps_timer == unwind("wait") /\ UNCHANGED <<wait_vars, timer>>

\* The rest of wait_queue_block and of a caller that then leaves its critical
\* section: the timer, if it is still pending, is cancelled.
wait_queue_block_return ==
  /\ unwind("wait")
  /\ timer' = [timer EXCEPT ![current_thread] = "none"]
  /\ UNCHANGED wait_vars

\* Variant: the count is forgotten.
take_keeps_count(w, t, error) ==
  /\ wait_list' = [wait_list EXCEPT ![w] = Tail(@)]
  /\ blocking_wait_queue' = [blocking_wait_queue EXCEPT ![t] = None]
  /\ wait_queue_block_ret' = [wait_queue_block_ret EXCEPT ![t] = error]
  /\ UNCHANGED wait_count

\* A wake-up takes t, the head of w, off the list.
take_waiter(w, t, error) ==
  /\ wait_list' = [wait_list EXCEPT ![w] = Tail(@)]
  /\ wait_count' = [wait_count EXCEPT ![w] = @ - 1]
  /\ blocking_wait_queue' = [blocking_wait_queue EXCEPT ![t] = None]
  /\ wait_queue_block_ret' = [wait_queue_block_ret EXCEPT ![t] = error]

\* wait_queue_wake_one on a queue that is not empty.
wait_queue_wake_one(w, reschedule, error, count) ==
  LET t     == Head(wait_list[w])
      self  == current_thread
      woken == [state EXCEPT ![t] = "READY"]
  IN  /\ take_waiter(w, t, error)
      /\ IF reschedule
         THEN thread_resched([woken EXCEPT ![self] = "READY"],
                insert_in_run_queue_head(
                  insert_in_run_queue_head(run_queue, self, priority[self]),
                  t, priority[t]),
                remaining_quantum, count)
         ELSE /\ state' = woken
              /\ run_queue' =
                   insert_in_run_queue_head(run_queue, t, priority[t])
              /\ critical_section_count' = count
              /\ UNCHANGED <<remaining_quantum, saved_critical_section_count,
                             current_thread>>

\* wait_queue_wake_all up to its loop, after st was set.
wake_all_begin(st, w, reschedule, error, count, then) ==
  LET self  == current_thread
      stick == reschedule /\ wait_count[w] > 0
  IN  /\ waking' = [queue |-> w, reschedule |-> reschedule, error |-> error,
                    ret |-> FALSE, then |-> then]
      /\ state' = IF stick THEN [st EXCEPT ![self] = "READY"] ELSE st
      /\ run_queue' =
           IF stick
           THEN insert_in_run_queue_head(run_queue, self, priority[self])
           ELSE run_queue
      /\ critical_section_count' = count
      /\ goto("wake_all")
      /\ UNCHANGED <<remaining_quantum, saved_critical_section_count,
                     current_thread, wait_vars, timer>>

\* One turn of the loop.
WakeAllStep ==
  LET w == waking.queue
      t == Head(wait_list[w])
  IN  /\ pc[current_thread] = "wake_all"
      /\ wait_list[w] # <<>>
      /\ take_waiter(w, t, waking.error)
      /\ state' = [state EXCEPT ![t] = "READY"]
      /\ run_queue' = insert_in_run_queue_head(run_queue, t, priority[t])
      /\ waking' = [waking EXCEPT !.ret = TRUE]
      /\ UNCHANGED <<remaining_quantum, saved_critical_section_count,
                     current_thread, critical_section_count, priority,
                     idle_thread, ints, timer, pc>>

\* The code after the loop.
WakeAllEnd ==
  /\ pc[current_thread] = "wake_all"
  /\ wait_list[waking.queue] = <<>>
  /\ goto(waking.then)
  /\ waking' = NotWaking
  /\ IF waking.reschedule /\ waking.ret
     THEN thread_resched(state, run_queue, remaining_quantum,
                         critical_section_count)
     ELSE UNCHANGED sched_vars
  /\ UNCHANGED <<wait_vars, priority, idle_thread, ints, timer>>

-----------------------------------------------------------------------------
(* Threads that use wait queues the way mutexes and events do: each call   *)
(* inside a critical section of the caller.                                *)

WaitQueueBlock(w, timeout) ==
  /\ Calling
  /\ EnterMasks
  /\ wait_queue_block(w, timeout, critical_section_count + 1)
  /\ UNCHANGED <<priority, idle_thread, waking>>

WaitQueueWakeOne(w, reschedule, error) ==
  /\ Calling
  /\ wait_list[w] # <<>>
  /\ IF reschedule
     THEN /\ EnterMasks
          /\ goto("wake")
          /\ wait_queue_wake_one(w, TRUE, error, critical_section_count + 1)
     ELSE /\ wait_queue_wake_one(w, FALSE, error, critical_section_count)
          /\ UNCHANGED <<ints, pc>>
  /\ UNCHANGED <<priority, idle_thread, timer, waking>>

WaitQueueWakeAll(w, reschedule, error) ==
  /\ Calling
  /\ EnterMasks
  /\ wake_all_begin(state, w, reschedule, error, critical_section_count + 1,
                    "wake")
  /\ UNCHANGED <<priority, idle_thread>>

\* A device handler that wakes a waiter, as event_signal(e, false) does.
DeviceWakeOne(w) ==
  /\ pc[current_thread] = "device"
  /\ wait_list[w] # <<>>
  /\ wait_queue_wake_one(w, FALSE, "NO_ERROR", critical_section_count)
  /\ UNCHANGED <<priority, idle_thread, ints, timer, pc, waking>>

-----------------------------------------------------------------------------
(* The specification.  The modules above this one share KernelNext; the     *)
(* wait-queue calls of this module are those of any client.                *)

\* Calls any thread may make, whatever it is for.
ThreadCalls ==
  \/ \E t \in Thread, prio \in CreatePrios : ThreadCreate(t, prio)
  \/ \E t \in Thread : ThreadResume(t)
  \/ ThreadYield
  \/ ThreadSleep
  \/ \E prio \in SetPrios : ThreadSetPriority(prio)

\* Steps of the kernel itself.
KernelSteps ==
  \/ BootDone
  \/ BecomeIdle
  \/ ThreadReturn
  \/ \E source \in {"irq", "device"} : IrqEnter(source)
  \/ \E t \in Thread : SleepTimer(t)
  \/ \E t \in Thread : WaitTimer(t)
  \/ IrqExit
  \/ WakeAllStep
  \/ WakeAllEnd

KernelNext == ThreadCalls \/ KernelSteps

ThreadNext ==
  \/ KernelNext
  \/ \E w \in WaitQueue, timeout \in Timeouts : WaitQueueBlock(w, timeout)
  \/ wait_queue_block_return
  \/ \E w \in WaitQueue, reschedule \in BOOLEAN :
       \/ WaitQueueWakeOne(w, reschedule, "NO_ERROR")
       \/ \E error \in {"NO_ERROR", "ERR_OBJECT_DESTROYED"} :
            WaitQueueWakeAll(w, reschedule, error)
  \/ \E w \in WaitQueue : DeviceWakeOne(w)

ThreadSpec == ThreadInit /\ [][ThreadNext]_thread_vars

(***************************************************************************)
(* Fairness.  The kernel runs on.  The tick comes again and again: the     *)
(* interrupt stays pending until the CPU takes it, so it is taken if       *)
(* interrupts are on infinitely often.  A timer that is pending expires at *)
(* some tick.  Nothing is assumed of the threads' own code.                *)
(***************************************************************************)
SchedulerFairness ==
  /\ WF_thread_vars(BootDone)
  /\ WF_thread_vars(BecomeIdle)
  /\ WF_thread_vars(ThreadReturn)
  /\ WF_thread_vars(WakeAllStep)
  /\ WF_thread_vars(WakeAllEnd)
  /\ SF_thread_vars(IrqEnter("irq"))
  /\ WF_thread_vars(IrqExit)

TimerFairness ==
  \A t \in Thread :
    SF_thread_vars(SleepTimer(t)) /\ SF_thread_vars(WaitTimer(t))

KernelFairness == SchedulerFairness /\ TimerFairness

ThreadFairSpec ==
  ThreadSpec /\ KernelFairness /\ WF_thread_vars(wait_queue_block_return)

-----------------------------------------------------------------------------
(* Properties.                                                             *)

State == {"FREE", "SUSPENDED", "READY", "RUNNING", "BLOCKED", "SLEEPING",
          "DEATH"}
Label == {"boot", "boot_resume", "new", "user", "yield", "resume", "sleep",
          "wait", "wake", "wake_all", "exit", "irq", "device", "preempt"}

\* Every field has its type.
ThreadTypeOK ==
  /\ state \in [Thread -> State]
  /\ priority \in [Thread -> Prio]
  /\ remaining_quantum \in [Thread -> 0..Quantum]
  /\ saved_critical_section_count \in [Thread -> Nat]
  /\ blocking_wait_queue \in [Thread -> WaitQueue \cup {None}]
  /\ wait_queue_block_ret \in [Thread -> Status]
  /\ run_queue \in [list : [Prio -> Seq(Thread)], bitmap : SUBSET Prio]
  /\ current_thread \in Thread
  /\ idle_thread \in {None, Boot}
  /\ critical_section_count \in Nat
  /\ ints \in BOOLEAN
  /\ wait_list \in [WaitQueue -> Seq(Thread)]
  /\ wait_count \in [WaitQueue -> Int]
  /\ timer \in [Thread -> {"none", "sleep", "wait"}]
  /\ pc \in [Thread -> Label]
  /\ waking \in [queue : WaitQueue \cup {None}, reschedule : BOOLEAN,
                 error : Status, ret : BOOLEAN, then : Label]

\* The run queue rq holds exactly the READY threads, each once, in the list
\* of its priority; the bitmap names exactly the lists that are not empty.
Queued(st, rq, prio) ==
  /\ \A p \in Prio :
       /\ IsInjective(rq.list[p])
       /\ Range(rq.list[p]) =
            {t \in Thread : st[t] = "READY" /\ prio[t] = p}
  /\ rq.bitmap = {p \in Prio : rq.list[p] # <<>>}

\* A wait queue holds exactly the threads BLOCKED on it, each once, and its
\* count is the length of its list.
Waiting(st, list, count, blocking) ==
  /\ \A w \in WaitQueue :
       /\ IsInjective(list[w])
       /\ Range(list[w]) =
            {t \in Thread : st[t] = "BLOCKED" /\ blocking[t] = w}
       /\ count[w] = Len(list[w])
  /\ \A t \in Thread : st[t] = "BLOCKED" => blocking[t] \in WaitQueue

\* No thread is lost or queued twice: the intrusive node of a thread is in
\* one list at most, and it is the one its state says (thread.c inserts and
\* removes it in twelve places).
RunQueueExact == Queued(state, run_queue, priority)
WaitQueueExact ==
  Waiting(state, wait_list, wait_count, blocking_wait_queue)

\* A timer that is pending belongs to a call that has not returned: the
\* timer_t is on the stack of that call.  A sleeper always has one.
TimersOnLiveStacks ==
  \A t \in Thread :
    /\ timer[t] = "wait" => pc[t] = "wait"
    /\ timer[t] = "sleep" <=> state[t] = "SLEEPING"

\* The critical sections t has entered and not left, by what it is doing.
Depth(t) ==
  CASE pc[t] = "boot" -> 1
    [] pc[t] = "boot_resume" -> 3
    [] pc[t] = "wake_all" -> Exits(waking.then)
    [] OTHER -> Exits(pc[t])

\* The count the CPU carries, and the one saved for every thread that is
\* switched out, is exactly what the code still has to leave; interrupts are
\* on outside critical sections and masked inside.
CriticalSectionsBalanced ==
  /\ critical_section_count = Depth(current_thread)
  /\ ints <=> critical_section_count = 0
  /\ \A t \in Thread \ {current_thread} :
       state[t] # "FREE" => saved_critical_section_count[t] = Depth(t)

\* The parts of the inductive invariant that are not properties above.

\* One thread is on the CPU; only a wake-up of all can have put it back in the
\* run queue while it still runs, and only thread_exit runs on when the thread
\* is dead.
OnCPU ==
  /\ \A t \in Thread : state[t] = "RUNNING" => t = current_thread
  /\ pc[current_thread] # "wake_all" =>
       state[current_thread] =
         IF pc[current_thread] = "exit" THEN "DEATH" ELSE "RUNNING"

\* A wake-up of all is the CPU's business, and it has put its caller in the
\* run queue exactly when it will call thread_resched; that of thread_exit
\* never does.
WakingUp ==
  /\ waking.then \in {"user", "wake", "exit"}
  /\ \A t \in Thread : pc[t] = "wake_all" => t = current_thread
  /\ pc[current_thread] = "wake_all" =>
       /\ waking.queue \in WaitQueue /\ waking.then # "user"
       /\ waking.then = "exit" =>
            ~waking.reschedule /\ state[current_thread] = "DEATH"
       /\ waking.then = "wake" =>
            state[current_thread] =
              IF waking.reschedule
                   /\ (waking.ret \/ wait_list[waking.queue] # <<>>)
              THEN "READY" ELSE "RUNNING"

\* A thread is dead once thread_exit says so, and what it has left to run is
\* the end of thread_exit.
Ended ==
  \A t \in Thread :
    /\ pc[t] = "exit" => state[t] \in {"DEATH", "FREE"}
    /\ state[t] = "DEATH" =>
         pc[t] = "exit" \/ (pc[t] = "wake_all" /\ waking.then = "exit")

\* There is always a thread to run.
BootCanRun == state[Boot] \in {"READY", "RUNNING"}

\* count pays for depth exits, and for no more unless sections may leak.
Pays(count, depth) == count >= depth /\ (LeakBound = 0 => count = depth)

\* No thread leaves more critical sections than it entered, and none is
\* switched out outside of a critical section.
CountsCover ==
  /\ Pays(critical_section_count, Depth(current_thread))
  /\ LeakBound = 0 => (ints <=> critical_section_count = 0)
  /\ \A t \in Thread \ {current_thread} :
       /\ pc[t] # "user"
       /\ state[t] # "FREE" => Pays(saved_critical_section_count[t], Depth(t))

ThreadInv ==
  /\ ThreadTypeOK
  /\ RunQueueExact
  /\ WaitQueueExact
  /\ TimersOnLiveStacks
  /\ \A t \in Thread : state[t] = "FREE" => timer[t] = "none"
  /\ OnCPU
  /\ WakingUp
  /\ Ended
  /\ BootCanRun
  /\ CountsCover

\* The steps of the model are the steps of the code: interrupts are on only
\* while the current thread is in no kernel function, whatever was switched
\* to and from and whatever sections other threads have leaked.
CallsAreMasked == ints => pc[current_thread] = "user"

\* What holds of the scheduler and the wait queues after every step.
KernelInv == ThreadInv /\ CallsAreMasked

\* A switch always goes to a thread of the highest priority that can run.
DispatchesHighest ==
  [][current_thread' # current_thread =>
       \A t \in Thread : state'[t] = "READY" =>
         priority'[t] <= priority'[current_thread']]_thread_vars

\* Once a thread is woken, its result is settled: a timer that expires before
\* it runs again does not change what wait_queue_block returns.
WakeResultSettled ==
  [][\A t \in Thread :
       (pc[t] = "wait" /\ state[t] # "BLOCKED" /\ pc'[t] = "wait") =>
         wait_queue_block_ret'[t] = wait_queue_block_ret[t]]_thread_vars

\* A thread none has a higher priority than, once READY, runs: threads of the
\* same priority that are woken to the head of the list cannot starve it.
Top(t) == \A u \in Thread : state[u] # "FREE" => priority[u] <= priority[t]
TopReadyRuns ==
  \A t \in Thread : (state[t] = "READY" /\ Top(t)) ~>
                      (state[t] = "RUNNING" \/ ~Top(t))

\* A wait with a finite timeout ends, for a thread of the highest priority.
TopWaitEnds ==
  \A t \in Thread : (timer[t] = "wait" /\ Top(t)) ~>
                      (state[t] = "RUNNING" \/ ~Top(t))

=============================================================================
