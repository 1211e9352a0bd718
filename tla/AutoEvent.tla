------------------------------ MODULE AutoEvent ------------------------------
(***************************************************************************)
(* What events with EVENT_FLAG_AUTOUNSIGNAL promise the code that uses     *)
(* them (kernel/event.c, without the scheduler under it): a binary         *)
(* semaphore with a queue.  A client in a queue cannot run.  Event shows   *)
(* that the kernel implements this module; the download engine, the        *)
(* fastboot transactions and whoever else waits for a device build on it.  *)
(***************************************************************************)
EXTENDS Integers, Sequences

CONSTANTS Event, Client

VARIABLES
  signalled,   \* event_t.signalled
  queue        \* event_t.wait: the clients that wait, first come first

auto_event_vars == <<signalled, queue>>

AutoEventInit ==
  /\ signalled \in [Event -> BOOLEAN]
  /\ queue = [e \in Event |-> <<>>]

\* c is in event_wait and has not been released.
Asleep(c) == \E e \in Event : \E i \in DOMAIN queue[e] : queue[e][i] = c

\* event_wait(e) by c: a signal lets c through and is gone, else c waits.
Wait(e, c) ==
  IF signalled[e]
  THEN signalled' = [signalled EXCEPT ![e] = FALSE] /\ UNCHANGED queue
  ELSE queue' = [queue EXCEPT ![e] = Append(@, c)] /\ UNCHANGED signalled

\* event_signal(e): releases the client that came first; the event becomes
\* signalled only if there is none.  A signalled event stays as it is.
Signal(e) ==
  IF signalled[e] THEN UNCHANGED auto_event_vars
  ELSE IF queue[e] = <<>>
  THEN signalled' = [signalled EXCEPT ![e] = TRUE] /\ UNCHANGED queue
  ELSE queue' = [queue EXCEPT ![e] = Tail(@)] /\ UNCHANGED signalled

\* event_unsignal(e)
Unsignal(e) ==
  signalled' = [signalled EXCEPT ![e] = FALSE] /\ UNCHANGED queue

\* The timeout of the i-th client of e's queue.
TimeOut(e, i) ==
  /\ i \in DOMAIN queue[e]
  /\ queue' = [queue EXCEPT ![e] = SubSeq(@, 1, i - 1)
                                     \o SubSeq(@, i + 1, Len(@))]
  /\ UNCHANGED signalled

AutoEventNext ==
  \E e \in Event :
    \/ \E c \in Client : ~Asleep(c) /\ Wait(e, c)
    \/ Signal(e)
    \/ Unsignal(e)
    \/ \E i \in DOMAIN queue[e] : TimeOut(e, i)

AutoEventSpec == AutoEventInit /\ [][AutoEventNext]_auto_event_vars
=============================================================================
