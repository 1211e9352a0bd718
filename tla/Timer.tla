-------------------------------- MODULE Timer --------------------------------
(***************************************************************************)
(* The timer queue (kernel/timer.c).  Times are unsigned numbers of a      *)
(* fixed width that wrap; the queue is kept in the order of their signed   *)
(* differences.  Threads set and cancel timers, the tick interrupt fires   *)
(* those that have expired, and a callback may set or cancel the timer it  *)
(* was called for.                                                         *)
(***************************************************************************)
EXTENDS Integers, Sequences

CONSTANTS
  Timers,         \* every timer_t
  NoTimer,        \* NULL
  TimeRange,      \* number of values of time_t: 2^32 or 2^64
  Delays,         \* delays given to timer_set_oneshot
  Periods,        \* periods given to timer_set_periodic
  MaxLate         \* bound: how late the tick may come after a timer is due

Half == TimeRange \div 2

\* No delay may come near half the range of time_t.
ASSUME TimerAssumption ==
  /\ NoTimer \notin Timers
  /\ TimeRange \in Nat /\ MaxLate \in Nat
  /\ Delays \cup Periods \subseteq Nat
  /\ \A d \in Delays \cup Periods \cup {1} : d + MaxLate < Half

VARIABLES
  now,             \* current_time()
  timer_queue,
  scheduled_time, periodic_time,
  callback,        \* timer_t.callback # NULL
  setting,         \* timers a thread is setting, not in the queue yet
  ticking,         \* timer_tick runs
  tick_now,        \* its argument now
  firing,          \* the timer whose callback it is calling
  periodic,        \* its local of that name
  left,            \* history: the true time until a timer is due
  fired            \* history: the timers this tick has fired

field_vars == <<scheduled_time, periodic_time, callback, left>>
tick_vars == <<ticking, tick_now, firing, periodic, fired>>
timer_vars == <<now, timer_queue, setting, field_vars, tick_vars>>

Plus(a, b) == (a + b) % TimeRange
Minus(a, b) == (a - b) % TimeRange

\* Variant: compared as unsigned numbers.
unsigned_gt(a, b) == a > b

\* TIME_GT: the difference, taken as a signed number, is positive.
TIME_GT(a, b) == LET d == Minus(a, b) IN 0 < d /\ d < Half
TIME_LT(a, b) == TIME_GT(b, a)

Queued(t) == \E i \in DOMAIN timer_queue : timer_queue[i] = t

TimersInit ==
  /\ now = 0
  /\ timer_queue = <<>>
  /\ scheduled_time = [t \in Timers |-> 0]
  /\ periodic_time = [t \in Timers |-> 0]
  /\ callback = [t \in Timers |-> FALSE]
  /\ setting = {}
  /\ ticking = FALSE /\ tick_now = 0 /\ firing = NoTimer /\ periodic = FALSE
  /\ left = [t \in Timers |-> 0]
  /\ fired = {}

\* insert_timer_in_queue, when t is to be scheduled at time: in front of the
\* first entry that is later.
insert_timer_in_queue(q, t, time) ==
  LET later(i) == TIME_GT(scheduled_time[q[i]], time)
      n == CHOOSE n \in 0..Len(q) :
             /\ \A i \in 1..n : ~later(i)
             /\ n < Len(q) => later(n + 1)
  IN  SubSeq(q, 1, n) \o <<t>> \o SubSeq(q, n + 1, Len(q))

without(q, t) ==
  LET at == {i \in DOMAIN q : q[i] = t}
      k  == CHOOSE i \in at : TRUE
  IN  IF at = {} THEN q ELSE SubSeq(q, 1, k - 1) \o SubSeq(q, k + 1, Len(q))

\* Variant: a delay of 0 is taken as it is.
delay_as_given(delay) == delay

\* A delay or period of 0 becomes 1.
at_least_one(delay) == IF delay = 0 THEN 1 ELSE delay

\* The assignments of timer_set.
set_fields(t, delay, period) ==
  /\ scheduled_time' = [scheduled_time EXCEPT ![t] = Plus(now, delay)]
  /\ periodic_time' = [periodic_time EXCEPT ![t] = period]
  /\ callback' = [callback EXCEPT ![t] = TRUE]
  /\ left' = [left EXCEPT ![t] = delay]

\* The delay and the period of a timer_set_oneshot or timer_set_periodic.
Requests ==
  {<<at_least_one(d), 0>> : d \in Delays}
    \cup {<<at_least_one(p), at_least_one(p)>> : p \in Periods}

\* timer_set by a thread, up to its critical section: the clock is read and
\* the fields are written with interrupts on.
TimerSetPrepare(t, delay, period) ==
  /\ ~ticking
  /\ ~Queued(t) /\ t \notin setting
  /\ set_fields(t, delay, period)
  /\ setting' = setting \cup {t}
  /\ UNCHANGED <<now, timer_queue, tick_vars>>

TimerSetInsert(t) ==
  /\ ~ticking
  /\ t \in setting
  /\ timer_queue' = insert_timer_in_queue(timer_queue, t, scheduled_time[t])
  /\ setting' = setting \ {t}
  /\ UNCHANGED <<now, field_vars, tick_vars>>

\* The time of a timer that leaves the queue is not read again before it is
\* set: it is forgotten.
forget_time(t) ==
  /\ scheduled_time' = [scheduled_time EXCEPT ![t] = 0]
  /\ left' = [left EXCEPT ![t] = 0]

clear_fields(t) ==
  /\ periodic_time' = [periodic_time EXCEPT ![t] = 0]
  /\ callback' = [callback EXCEPT ![t] = FALSE]
  /\ forget_time(t)

cancel(t) == clear_fields(t) /\ timer_queue' = without(timer_queue, t)

\* timer_cancel by a thread, of a timer it is not setting.
TimerCancel(t) ==
  /\ ~ticking
  /\ t \notin setting
  /\ cancel(t)
  /\ UNCHANGED <<now, setting, tick_vars>>

-----------------------------------------------------------------------------
(* The tick.                                                               *)

TickBegin ==
  /\ ~ticking
  /\ ticking' = TRUE
  /\ tick_now' = now
  /\ fired' = {}
  /\ UNCHANGED <<now, timer_queue, setting, field_vars, firing, periodic>>

Expired(q) == q # <<>> /\ ~TIME_LT(tick_now, scheduled_time[q[1]])

\* The head of the queue has expired: it leaves the queue and its callback is
\* called.
TickFire ==
  LET t == timer_queue[1]
  IN  /\ ticking /\ firing = NoTimer
      /\ Expired(timer_queue)
      /\ timer_queue' = Tail(timer_queue)
      /\ firing' = t
      /\ periodic' = (periodic_time[t] > 0)
      /\ fired' = fired \cup {t}
      /\ forget_time(t)
      /\ UNCHANGED <<now, setting, periodic_time, callback, ticking, tick_now>>

\* What a callback does with its own timer: nothing, cancel it, or set it
\* again (only a one-shot: the node of a periodic one is in no list either).
CallbackSets(delay, period) ==
  /\ ticking /\ firing # NoTimer /\ ~Queued(firing)
  /\ set_fields(firing, delay, period)
  /\ timer_queue' = insert_timer_in_queue(timer_queue, firing, Plus(now, delay))
  /\ UNCHANGED <<now, setting, tick_vars>>

CallbackCancels ==
  /\ ticking /\ firing # NoTimer
  /\ cancel(firing)
  /\ UNCHANGED <<now, setting, tick_vars>>

\* Variant: the local is all that is looked at.
put_back_unasked(t) == periodic

\* A periodic timer the callback has neither cancelled nor set again.
put_back(t) == periodic /\ ~Queued(t) /\ periodic_time[t] > 0

CallbackReturns ==
  LET t    == firing
      time == Plus(tick_now, periodic_time[t])
  IN  /\ ticking /\ t # NoTimer
      /\ IF put_back(t)
         THEN /\ scheduled_time' = [scheduled_time EXCEPT ![t] = time]
              /\ left' = [left EXCEPT
                   ![t] = periodic_time[t] - Minus(now, tick_now)]
              /\ timer_queue' = insert_timer_in_queue(timer_queue, t, time)
         ELSE UNCHANGED <<scheduled_time, left, timer_queue>>
      /\ firing' = NoTimer /\ periodic' = FALSE
      /\ UNCHANGED <<now, setting, periodic_time, callback, ticking, tick_now,
                     fired>>

\* The rest of timer_tick, thread_timer_tick, is in module Thread.
TickEnd ==
  /\ ticking /\ firing = NoTimer
  /\ ~Expired(timer_queue)
  /\ ticking' = FALSE /\ tick_now' = 0 /\ fired' = {}
  /\ UNCHANGED <<now, timer_queue, setting, field_vars, firing, periodic>>

\* Time goes on; the tick does not come later than MaxLate after a timer is
\* due, nor is a thread kept that long inside timer_set, nor a tick.
Advance ==
  /\ \A t \in Timers : (Queued(t) \/ t \in setting) => left[t] > -MaxLate
  /\ ticking => Minus(now, tick_now) < MaxLate
  /\ now' = Plus(now, 1)
  /\ left' = [t \in Timers |-> IF Queued(t) \/ t \in setting
                               THEN left[t] - 1 ELSE left[t]]
  /\ UNCHANGED <<timer_queue, setting, scheduled_time, periodic_time, callback,
                 tick_vars>>

TimersNext ==
  \/ \E t \in Timers :
       \/ \E r \in Requests : TimerSetPrepare(t, r[1], r[2])
       \/ TimerSetInsert(t)
       \/ TimerCancel(t)
  \/ TickBegin \/ TickFire \/ TickEnd
  \/ \E r \in Requests : CallbackSets(r[1], r[2])
  \/ CallbackCancels \/ CallbackReturns
  \/ Advance

TimersSpec == TimersInit /\ [][TimersNext]_timer_vars

-----------------------------------------------------------------------------
(* Properties.                                                             *)

\* Every variable has its type, and the fields of a queued timer say when it
\* is due.
TimersTypeOK ==
  /\ {now, tick_now} \subseteq 0..(TimeRange - 1)
  /\ {timer_queue[i] : i \in DOMAIN timer_queue} \subseteq Timers
  /\ setting \subseteq Timers /\ firing \in Timers \cup {NoTimer}
  /\ \A t \in Timers : Queued(t) \/ t \in setting =>
       scheduled_time[t] = (now + left[t]) % TimeRange

\* The queue is in the order in which its timers are due, each once, across
\* any number of wraps of the clock and however late they were inserted.
QueueInOrder ==
  \A i, j \in DOMAIN timer_queue : i < j =>
    /\ timer_queue[i] # timer_queue[j]
    /\ left[timer_queue[i]] <= left[timer_queue[j]]

\* A callback is never NULL: not even for a timer cancelled by its own
\* callback, which timer_tick would otherwise put back.
NoNullCallback == \A t \in Timers : Queued(t) => callback[t]

\* A periodic timer keeps firing until it is cancelled.
PeriodicStays ==
  \A t \in Timers :
    (periodic_time[t] > 0 /\ t \notin setting /\ firing # t) => Queued(t)

\* What timer_tick finds whenever it looks at the queue: it is in order, each
\* of its timers has a callback, and no periodic timer is missing.
TimersInv ==
  TimersTypeOK /\ QueueInOrder /\ NoNullCallback /\ PeriodicStays

\* No callback is called before its timer is due, nor twice in one tick: the
\* tick ends, even with a delay of 0.
FiresWhenDue ==
  [][(firing' # firing /\ firing' # NoTimer) =>
       left[firing'] <= 0 /\ firing' \notin fired]_timer_vars

\* A tick leaves no timer behind that was due when it began.
TickFiresAll ==
  [][(ticking /\ ~ticking') =>
       \A t \in Timers : Queued(t) =>
         left[t] + Minus(now, tick_now) > 0]_timer_vars
=============================================================================
