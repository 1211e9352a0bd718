-------------------------------- MODULE Event --------------------------------
(***************************************************************************)
(* kernel/event.c on top of the scheduler.  An event is named by its wait  *)
(* queue.  Threads call every function; device interrupt handlers call     *)
(* event_signal without rescheduling (msdc_irq.c, ufs_aio_hcd.c,           *)
(* fastboot.c).                                                            *)
(***************************************************************************)
EXTENDS Thread

CONSTANTS
  AutoEvents,       \* the events with EVENT_FLAG_AUTOUNSIGNAL
  DeviceEvents,     \* the events a device interrupt signals: all of them auto
  WaitTimeouts,     \* timeouts given to event_wait_timeout
  DestroyedEvents   \* the events some thread may destroy

ASSUME EventAssumption ==
  /\ AutoEvents \subseteq WaitQueue
  /\ DeviceEvents \subseteq AutoEvents
  /\ WaitTimeouts \subseteq Timeout
  /\ DestroyedEvents \subseteq WaitQueue

VARIABLES
  e_magic,       \* event_t.magic = EVENT_MAGIC
  e_signalled,   \* event_t.signalled
  e_flags,       \* event_t.flags has EVENT_FLAG_AUTOUNSIGNAL
  waiting,       \* the event t waits for in event_wait_timeout
  credit         \* history: signals accepted that no wait has consumed yet

event_vars == <<e_magic, e_signalled, e_flags, waiting, credit>>
event_all_vars == <<thread_vars, event_vars>>

EventInit ==
  /\ ThreadInit
  /\ e_magic = [e \in WaitQueue |-> TRUE]
  /\ e_signalled \in [WaitQueue -> BOOLEAN]       \* initial
  /\ e_flags = [e \in WaitQueue |-> e \in AutoEvents]
  /\ waiting = [t \in Thread |-> None]
  /\ credit = [e \in WaitQueue |->
                 IF e \in AutoEvents /\ e_signalled[e] THEN 1 ELSE 0]

\* The event is signalled: an auto-unsignal event lets one thread through.
consume(e) ==
  /\ e_signalled' = [e_signalled EXCEPT ![e] = ~e_flags[e]]
  /\ credit' = [credit EXCEPT ![e] = IF e_flags[e] THEN @ - 1 ELSE @]

\* event_wait_timeout; with a timeout of 0 an unsignalled event changes
\* nothing.
EventWait(e, timeout) ==
  LET t == current_thread
  IN  /\ Calling /\ e_magic[e]
      /\ IF e_signalled[e]
         THEN /\ consume(e)
              /\ UNCHANGED <<thread_vars, waiting>>
         ELSE /\ waiting' = [waiting EXCEPT ![t] = e]
              /\ EnterMasks
              /\ wait_queue_block(e, timeout, critical_section_count + 1)
              /\ UNCHANGED <<priority, idle_thread, waking, e_signalled,
                             credit>>
      /\ UNCHANGED <<e_magic, e_flags>>

\* The code after wait_queue_block: the result goes to the caller.
EventWaitReturn ==
  LET t == current_thread
      e == waiting[t]
  IN  /\ wait_queue_block_return
      /\ waiting' = [waiting EXCEPT ![t] = None]
      /\ credit' = IF wait_queue_block_ret[t] = "NO_ERROR" /\ e_flags[e]
                   THEN [credit EXCEPT ![e] = @ - 1] ELSE credit
      /\ UNCHANGED <<e_magic, e_signalled, e_flags>>

\* Variants: an auto-unsignal event stays signalled whether or not a thread
\* was released; it is never left signalled.
signal_stays(e) ==
  /\ e_magic[e] /\ ~e_signalled[e]
  /\ e_signalled' = [e_signalled EXCEPT ![e] = TRUE]
  /\ credit' = [credit EXCEPT ![e] = IF e_flags[e] THEN @ + 1 ELSE @]
  /\ UNCHANGED <<e_magic, e_flags, waiting>>
signal_lost(e) ==
  /\ e_magic[e] /\ ~e_signalled[e]
  /\ e_signalled' = [e_signalled EXCEPT ![e] = ~e_flags[e]]
  /\ credit' = [credit EXCEPT ![e] = IF e_flags[e] THEN @ + 1 ELSE @]
  /\ UNCHANGED <<e_magic, e_flags, waiting>>

\* The state of the event after event_signal: an auto-unsignal event that
\* releases a thread stays unsignalled.
signal(e) ==
  /\ e_magic[e] /\ ~e_signalled[e]
  /\ e_signalled' = [e_signalled EXCEPT ![e] =
                       ~e_flags[e] \/ wait_list[e] = <<>>]
  /\ credit' = [credit EXCEPT ![e] = IF e_flags[e] THEN @ + 1 ELSE @]
  /\ UNCHANGED <<e_magic, e_flags, waiting>>

\* event_signal of an auto-unsignal event by a thread.
EventSignalAuto(e, reschedule) ==
  /\ Calling
  /\ e_flags[e]
  /\ signal(e)
  /\ IF wait_list[e] = <<>>
     THEN UNCHANGED thread_vars
     ELSE WaitQueueWakeOne(e, reschedule, "NO_ERROR")

\* event_signal of any other event: it stays signalled, all waiters go.
EventSignalAll(e, reschedule) ==
  /\ ~e_flags[e]
  /\ signal(e)
  /\ WaitQueueWakeAll(e, reschedule, "NO_ERROR")

\* event_signal(e, false) in the handler of a device interrupt.
DeviceSignal(e) ==
  /\ pc[current_thread] = "device"
  /\ signal(e)
  /\ IF wait_list[e] = <<>>
     THEN UNCHANGED thread_vars
     ELSE DeviceWakeOne(e)

EventUnsignal(e) ==
  /\ Calling /\ e_magic[e]
  /\ e_signalled' = [e_signalled EXCEPT ![e] = FALSE]
  /\ credit' = IF e_signalled[e] /\ e_flags[e]
               THEN [credit EXCEPT ![e] = @ - 1] ELSE credit
  /\ UNCHANGED <<thread_vars, e_magic, e_flags, waiting>>

\* Variant: the waiters are told that the event was signalled.
destroy_as_signal(e) ==
  /\ e_magic[e]
  /\ e_magic' = [e_magic EXCEPT ![e] = FALSE]
  /\ e_signalled' = [e_signalled EXCEPT ![e] = FALSE]
  /\ e_flags' = [e_flags EXCEPT ![e] = FALSE]
  /\ WaitQueueWakeAll(e, TRUE, "NO_ERROR")
  /\ UNCHANGED <<waiting, credit>>

EventDestroy(e) ==
  /\ e_magic[e]
  /\ e_magic' = [e_magic EXCEPT ![e] = FALSE]
  /\ e_signalled' = [e_signalled EXCEPT ![e] = FALSE]
  /\ e_flags' = [e_flags EXCEPT ![e] = FALSE]
  /\ WaitQueueWakeAll(e, TRUE, "ERR_OBJECT_DESTROYED")
  /\ UNCHANGED <<waiting, credit>>

EventNext ==
  \/ KernelNext /\ UNCHANGED event_vars
  \/ \E e \in WaitQueue :
       \/ \E timeout \in WaitTimeouts : EventWait(e, timeout)
       \/ \E reschedule \in BOOLEAN :
            EventSignalAuto(e, reschedule) \/ EventSignalAll(e, reschedule)
       \/ EventUnsignal(e)
  \/ EventWaitReturn
  \/ \E e \in DeviceEvents : DeviceSignal(e)
  \/ \E e \in DestroyedEvents : EventDestroy(e)

EventSpec == EventInit /\ [][EventNext]_event_all_vars

(***************************************************************************)
(* Fairness of a device: while somebody waits for its interrupt, it keeps  *)
(* coming and its handler signals.                                         *)
(***************************************************************************)
EventFairSpec ==
  /\ EventSpec
  /\ SchedulerFairness
  /\ WF_event_all_vars(EventWaitReturn)
  /\ SF_event_all_vars(IrqEnter("device") /\ UNCHANGED event_vars)
  /\ \A e \in DeviceEvents : SF_event_all_vars(DeviceSignal(e))

-----------------------------------------------------------------------------
(* Properties.                                                             *)

\* Every field has its type; no more waits succeed than signals were accepted.
EventTypeOK ==
  /\ e_magic \in [WaitQueue -> BOOLEAN]
  /\ e_signalled \in [WaitQueue -> BOOLEAN]
  /\ e_flags \in [WaitQueue -> BOOLEAN]
  /\ waiting \in [Thread -> WaitQueue \cup {None}]
  /\ credit \in [WaitQueue -> Nat]

\* No wake-up is lost: nobody is left on the wait queue of an event that is
\* signalled or destroyed, other than while the call is emptying it.
NoWaiterLeftBehind ==
  \A e \in WaitQueue :
    ( /\ e_signalled[e] \/ ~e_magic[e]
      /\ ~(pc[current_thread] = "wake_all" /\ waking.queue = e) )
      => wait_list[e] = <<>>

\* What holds of every event between two steps: its fields keep their types
\* and event_signal and event_destroy leave nobody behind.
EventInv == EventTypeOK /\ NoWaiterLeftBehind

\* A thread that is on the wait queue of an event when it is destroyed comes
\* back from event_wait with an error of its own: no timer and no signal gets
\* between event_destroy and the last waiter it releases.
DestroyedWaitFails ==
  [][\A t \in Thread :
       ( /\ state[t] = "BLOCKED" /\ state'[t] # "BLOCKED"
         /\ waiting[t] # None /\ ~e_magic'[waiting[t]] )
         => wait_queue_block_ret'[t] = "ERR_OBJECT_DESTROYED"]_event_all_vars

\* Threads released by e that have not returned from event_wait yet.
Released(e) ==
  {t \in Thread : waiting[t] = e /\ state[t] # "BLOCKED"
                    /\ wait_queue_block_ret[t] = "NO_ERROR"}

\* Each signal an auto-unsignal event accepts ends in exactly one successful
\* wait (or one event_unsignal): not lost to a timeout that expires while the
\* released thread has not run, not consumed twice.
SignalsConserved ==
  \A e \in AutoEvents : e_magic[e] =>
    credit[e] = (IF e_signalled[e] THEN 1 ELSE 0) + Cardinality(Released(e))

\* Threads that wait for a device are served in order: if its interrupt keeps
\* coming, every wait ends.
DeviceWaitEnds ==
  \A t \in Thread :
    (waiting[t] \in DeviceEvents /\ Top(t)) ~> (state[t] = "RUNNING" \/ ~Top(t))

\* What the clients of auto-unsignal events build on: with the scheduler, its
\* interrupts and its timers underneath, such an event is a semaphore whose
\* signals release the clients in the order they came.  (None is destroyed.)
Semaphores == INSTANCE AutoEvent WITH
  Event <- AutoEvents, Client <- Thread,
  signalled <- [e \in AutoEvents |-> e_signalled[e]],
  queue <- [e \in AutoEvents |-> wait_list[e]]
ImplementsAutoEvent == Semaphores!AutoEventSpec
=============================================================================
