------------------------------ MODULE FifoLock ------------------------------
(***************************************************************************)
(* What a set of mutexes promises to the threads that use them: a lock     *)
(* nobody has a stake in is free, a release hands the lock to the client   *)
(* that has waited longest, and nobody gets in between.  A client that     *)
(* gives up leaves the queue at once but keeps its stake until it has run. *)
(***************************************************************************)
EXTENDS Integers, Sequences

CONSTANTS Lock, Client, Nobody

VARIABLES
  owner,     \* the client each lock is owned by or has been handed to
  queue,     \* the clients waiting for each lock, in order of arrival
  leaving    \* the clients that have given up and not run since

lock_vars == <<owner, queue, leaving>>

Init ==
  /\ owner = [l \in Lock |-> Nobody]
  /\ queue = [l \in Lock |-> <<>>]
  /\ leaving = [l \in Lock |-> {}]

Free(l) == owner[l] = Nobody /\ queue[l] = <<>> /\ leaving[l] = {}

InQueue(l, c) == \E i \in DOMAIN queue[l] : queue[l][i] = c

Take(l, c) ==
  /\ Free(l)
  /\ owner' = [owner EXCEPT ![l] = c]
  /\ UNCHANGED <<queue, leaving>>

Enqueue(l, c) ==
  /\ ~Free(l) /\ owner[l] # c /\ ~InQueue(l, c) /\ c \notin leaving[l]
  /\ queue' = [queue EXCEPT ![l] = Append(@, c)]
  /\ UNCHANGED <<owner, leaving>>

GiveUp(l, c) ==
  /\ \E i \in DOMAIN queue[l] :
       /\ queue[l][i] = c
       /\ queue' = [queue EXCEPT ![l] = SubSeq(@, 1, i - 1)
                                          \o SubSeq(@, i + 1, Len(@))]
  /\ leaving' = [leaving EXCEPT ![l] = @ \cup {c}]
  /\ UNCHANGED owner

Leave(l, c) ==
  /\ c \in leaving[l]
  /\ leaving' = [leaving EXCEPT ![l] = @ \ {c}]
  /\ UNCHANGED <<owner, queue>>

Release(l) ==
  /\ owner[l] # Nobody
  /\ IF queue[l] = <<>>
     THEN owner' = [owner EXCEPT ![l] = Nobody] /\ UNCHANGED queue
     ELSE /\ owner' = [owner EXCEPT ![l] = Head(queue[l])]
          /\ queue' = [queue EXCEPT ![l] = Tail(@)]
  /\ UNCHANGED leaving

\* The lock is gone, for whoever had a stake in it.
Destroy(l) ==
  /\ owner' = [owner EXCEPT ![l] = Nobody]
  /\ queue' = [queue EXCEPT ![l] = <<>>]
  /\ leaving' = [leaving EXCEPT ![l] = {}]

Next ==
  \E l \in Lock :
    \/ Release(l)
    \/ Destroy(l)
    \/ \E c \in Client :
         Take(l, c) \/ Enqueue(l, c) \/ GiveUp(l, c) \/ Leave(l, c)

Spec == Init /\ [][Next]_lock_vars
=============================================================================
