---------------------------- MODULE ThreadProofs ----------------------------
(***************************************************************************)
(* The scheduler keeps its queues and its critical sections in order:      *)
(* proofs about module Thread, for every set of threads, priorities and    *)
(* wait queues.                                                            *)
(***************************************************************************)
EXTENDS Thread, TLAPS, SequenceTheorems, WellFoundedInduction

-----------------------------------------------------------------------------
(* Lists.                                                                  *)

\* Adding to the front of a list adds one element.
LEMMA AddHead ==
  ASSUME NEW S, NEW s \in Seq(S), NEW x \in S
  PROVE  /\ list_add_head(s, x) \in Seq(S)
         /\ list_add_head(s, x) # <<>>
         /\ Range(list_add_head(s, x)) = Range(s) \cup {x}
         /\ (IsInjective(s) /\ x \notin Range(s)) =>
              IsInjective(list_add_head(s, x))
  <1> DEFINE h == list_add_head(s, x)
  <1>1. /\ h \in Seq(S)
        /\ Len(h) = Len(s) + 1
        /\ h[1] = x
        /\ \A i \in 1..Len(s) : h[i + 1] = s[i]
        /\ \A i \in 2..Len(h) : h[i] = s[i - 1]
    BY DEF list_add_head
  <1>2. DOMAIN h = 1..(Len(s) + 1) /\ DOMAIN s = 1..Len(s) /\ Len(s) \in Nat
    BY <1>1
  <1>3. Range(h) = Range(s) \cup {x}
    <2>1. ASSUME NEW y \in Range(h) PROVE y \in Range(s) \cup {x}
      <3>1. PICK i \in 1..(Len(s) + 1) : y = h[i]
        BY <1>2 DEF Range
      <3>2. CASE i = 1
        BY <1>1, <3>1, <3>2
      <3>3. CASE i # 1
        <4>1. i - 1 \in DOMAIN s /\ i \in 2..Len(h)
          BY <1>1, <1>2, <3>3
        <4>2. y = s[i - 1]
          BY <1>1, <3>1, <4>1
        <4> QED BY <4>1, <4>2 DEF Range
      <3> QED BY <3>2, <3>3
    <2>2. x \in Range(h)
      BY <1>1, <1>2 DEF Range
    <2>3. ASSUME NEW y \in Range(s) PROVE y \in Range(h)
      <3>1. PICK i \in 1..Len(s) : y = s[i]
        BY <1>2 DEF Range
      <3>2. h[i + 1] = y /\ i + 1 \in DOMAIN h
        BY <1>1, <1>2, <3>1
      <3> QED BY <3>2 DEF Range
    <2> QED BY <2>1, <2>2, <2>3
  <1>4. ASSUME IsInjective(s), x \notin Range(s) PROVE IsInjective(h)
    <2> SUFFICES ASSUME NEW i \in DOMAIN h, NEW j \in DOMAIN h, h[i] = h[j]
                 PROVE  i = j
      BY DEF IsInjective
    <2>1. ASSUME NEW k \in 2..Len(h) PROVE h[k] # x
      <3>1. h[k] = s[k - 1] /\ k - 1 \in DOMAIN s
        BY <1>1, <1>2
      <3>2. s[k - 1] \in Range(s)
        BY <3>1 DEF Range
      <3> QED BY <3>1, <3>2, <1>4
    <2>2. CASE i = 1 \/ j = 1
      BY <2>1, <2>2, <1>1, <1>2
    <2>3. CASE i # 1 /\ j # 1
      <3>1. s[i - 1] = s[j - 1] /\ i - 1 \in DOMAIN s /\ j - 1 \in DOMAIN s
        BY <1>1, <1>2, <2>3
      <3>2. i - 1 = j - 1
        BY <3>1, <1>4 DEF IsInjective
      <3> QED BY <3>2, <1>2
    <2> QED BY <2>2, <2>3
  <1>5. h # <<>>
    BY <1>1, <1>2
  <1> QED BY <1>1, <1>3, <1>4, <1>5

\* So does adding to the end.
LEMMA AddTail ==
  ASSUME NEW S, NEW s \in Seq(S), NEW x \in S
  PROVE  /\ list_add_tail(s, x) \in Seq(S)
         /\ list_add_tail(s, x) # <<>>
         /\ Len(list_add_tail(s, x)) = Len(s) + 1
         /\ Range(list_add_tail(s, x)) = Range(s) \cup {x}
         /\ (IsInjective(s) /\ x \notin Range(s)) =>
              IsInjective(list_add_tail(s, x))
  <1> DEFINE h == list_add_tail(s, x)
  <1>1. /\ h \in Seq(S)
        /\ Len(h) = Len(s) + 1
        /\ h[Len(s) + 1] = x
        /\ \A i \in 1..Len(s) : h[i] = s[i]
    BY DEF list_add_tail
  <1>2. DOMAIN h = 1..(Len(s) + 1) /\ DOMAIN s = 1..Len(s) /\ Len(s) \in Nat
    BY <1>1
  <1>3. Range(h) = Range(s) \cup {x}
    <2>1. ASSUME NEW y \in Range(h) PROVE y \in Range(s) \cup {x}
      BY <1>1, <1>2 DEF Range
    <2>2. x \in Range(h)
      BY <1>1, <1>2 DEF Range
    <2>3. ASSUME NEW y \in Range(s) PROVE y \in Range(h)
      <3>1. PICK i \in 1..Len(s) : y = s[i]
        BY <1>2 DEF Range
      <3>2. h[i] = y /\ i \in DOMAIN h
        BY <1>1, <1>2, <3>1
      <3> QED BY <3>2 DEF Range
    <2> QED BY <2>1, <2>2, <2>3
  <1>4. ASSUME IsInjective(s), x \notin Range(s) PROVE IsInjective(h)
    <2>1. \A k \in 1..Len(s) : h[k] # x
      BY <1>1, <1>2, <1>4 DEF Range
    <2> QED BY <2>1, <1>1, <1>2, <1>4 DEF IsInjective
  <1>5. h # <<>>
    BY <1>1, <1>2
  <1> QED BY <1>1, <1>3, <1>4, <1>5

\* Taking the head off a list without duplicates removes that element.
LEMMA RemoveHead ==
  ASSUME NEW S, NEW s \in Seq(S), s # <<>>, IsInjective(s)
  PROVE  /\ Tail(s) \in Seq(S)
         /\ Len(Tail(s)) = Len(s) - 1
         /\ Head(s) \in S
         /\ Head(s) \in Range(s)
         /\ Range(Tail(s)) = Range(s) \ {Head(s)}
         /\ IsInjective(Tail(s))
         /\ Tail(s) = <<>> <=> Len(s) = 1
  <1> DEFINE r == Tail(s)
  <1>1. /\ r \in Seq(S)
        /\ Len(r) = Len(s) - 1
        /\ Head(s) = s[1]
        /\ Len(s) \in Nat \ {0}
        /\ \A i \in 1..Len(r) : r[i] = s[i + 1]
        /\ DOMAIN s = 1..Len(s)
        /\ DOMAIN r = 1..(Len(s) - 1)
    OBVIOUS
  <1>2. Head(s) \in S /\ Head(s) \in Range(s)
    BY <1>1 DEF Range
  <1>3. Range(r) = Range(s) \ {Head(s)}
    <2>1. ASSUME NEW y \in Range(r) PROVE y \in Range(s) \ {Head(s)}
      <3>1. PICK i \in 1..Len(r) : y = s[i + 1]
        BY <1>1 DEF Range
      <3>2. i + 1 \in DOMAIN s /\ 1 \in DOMAIN s /\ i + 1 # 1
        BY <1>1, <3>1
      <3> QED BY <1>1, <3>1, <3>2 DEF Range, IsInjective
    <2>2. ASSUME NEW y \in Range(s) \ {Head(s)} PROVE y \in Range(r)
      <3>1. PICK i \in 1..Len(s) : y = s[i]
        BY <1>1 DEF Range
      <3>2. i # 1
        BY <1>1, <3>1
      <3>3. i - 1 \in DOMAIN r /\ r[i - 1] = y
        BY <1>1, <3>1, <3>2
      <3> QED BY <3>3 DEF Range
    <2> QED BY <2>1, <2>2
  <1>4. IsInjective(r)
    <2> SUFFICES ASSUME NEW i \in DOMAIN r, NEW j \in DOMAIN r, r[i] = r[j]
                 PROVE  i = j
      BY DEF IsInjective
    <2>1. s[i + 1] = s[j + 1] /\ i + 1 \in DOMAIN s /\ j + 1 \in DOMAIN s
      BY <1>1
    <2>2. i + 1 = j + 1
      BY <2>1 DEF IsInjective
    <2> QED BY <2>2, <1>1
  <1>5. r = <<>> <=> Len(s) = 1
    BY <1>1
  <1> QED BY <1>1, <1>2, <1>3, <1>4, <1>5

\* Deleting an element of a list without duplicates removes it and no other.
LEMMA Delete ==
  ASSUME NEW S, NEW s \in Seq(S), NEW x \in Range(s), IsInjective(s)
  PROVE  /\ list_delete(s, x) \in Seq(S)
         /\ Len(list_delete(s, x)) = Len(s) - 1
         /\ Range(list_delete(s, x)) = Range(s) \ {x}
         /\ IsInjective(list_delete(s, x))
  <1> DEFINE k == CHOOSE i \in DOMAIN s : s[i] = x
             r == [j \in 1..(Len(s) - 1) |-> IF j < k THEN s[j] ELSE s[j + 1]]
  <1>1. DOMAIN s = 1..Len(s) /\ Len(s) \in Nat
    OBVIOUS
  <1>2. k \in 1..Len(s) /\ s[k] = x
    BY <1>1 DEF Range
  <1>3. list_delete(s, x) = r
    BY DEF list_delete
  <1> HIDE DEF k
  <1>4. \A j \in 1..(Len(s) - 1) : r[j] \in S
    BY <1>1, <1>2
  <1>5. r \in Seq(S) /\ Len(r) = Len(s) - 1 /\ DOMAIN r = 1..(Len(s) - 1)
    <2>1. Len(s) - 1 \in Nat
      BY <1>1, <1>2
    <2>2. r \in [1..(Len(s) - 1) -> S]
      BY <1>4
    <2> QED BY <2>1, <2>2, IsASeq
  <1>6. \A j \in 1..(Len(s) - 1) : r[j] = IF j < k THEN s[j] ELSE s[j + 1]
    OBVIOUS
  <1> HIDE DEF r
  <1>7. Range(r) = Range(s) \ {x}
    <2>1. ASSUME NEW y \in Range(r) PROVE y \in Range(s) \ {x}
      <3>1. PICK j \in 1..(Len(s) - 1) : y = r[j]
        BY <1>5 DEF Range
      <3>2. PICK i \in 1..Len(s) : y = s[i] /\ i # k
        BY <1>1, <1>2, <1>6, <3>1
      <3> QED BY <1>1, <1>2, <3>2 DEF Range, IsInjective
    <2>2. ASSUME NEW y \in Range(s) \ {x} PROVE y \in Range(r)
      <3>1. PICK i \in 1..Len(s) : y = s[i]
        BY <1>1 DEF Range
      <3>2. i # k
        BY <1>2, <3>1
      <3>3. CASE i < k
        <4>1. i \in DOMAIN r /\ r[i] = y
          BY <1>1, <1>2, <1>5, <1>6, <3>1, <3>3
        <4> QED BY <4>1 DEF Range
      <3>4. CASE i > k
        <4>1. i - 1 \in DOMAIN r /\ r[i - 1] = y
          BY <1>1, <1>2, <1>5, <1>6, <3>1, <3>4
        <4> QED BY <4>1 DEF Range
      <3> QED BY <3>2, <3>3, <3>4, <1>2
    <2> QED BY <2>1, <2>2
  <1>8. IsInjective(r)
    <2> SUFFICES ASSUME NEW i \in 1..(Len(s) - 1), NEW j \in 1..(Len(s) - 1),
                        r[i] = r[j]
                 PROVE  i = j
      BY <1>5 DEF IsInjective
    <2> DEFINE at(n) == IF n < k THEN n ELSE n + 1
    <2>1. /\ at(i) \in DOMAIN s /\ at(j) \in DOMAIN s
          /\ s[at(i)] = s[at(j)]
      BY <1>1, <1>2, <1>6
    <2>2. at(i) = at(j)
      BY <2>1 DEF IsInjective
    <2> QED BY <2>2, <1>1, <1>2
  <1> QED BY <1>3, <1>5, <1>7, <1>8

-----------------------------------------------------------------------------
(* The run queue.                                                          *)

RunQueues == [list : [Prio -> Seq(Thread)], bitmap : SUBSET Prio]

\* A thread that becomes READY is put in at the head of its list.
LEMMA QueueHead ==
  ASSUME NEW rq \in RunQueues, NEW st \in [Thread -> State],
         NEW prio \in [Thread -> Prio], NEW t \in Thread, NEW p,
         p = prio[t], Queued(st, rq, prio), st[t] # "READY"
  PROVE  /\ insert_in_run_queue_head(rq, t, p) \in RunQueues
         /\ Queued([st EXCEPT ![t] = "READY"],
                   insert_in_run_queue_head(rq, t, p), prio)
  <1> DEFINE new == insert_in_run_queue_head(rq, t, p)
             st2 == [st EXCEPT ![t] = "READY"]
             old == rq.list[p]
  <1>1. p \in Prio /\ rq.list \in [Prio -> Seq(Thread)]
          /\ rq.bitmap \in SUBSET Prio /\ old \in Seq(Thread)
    BY DEF RunQueues
  <1>2. /\ new.list = [rq.list EXCEPT ![p] = list_add_head(old, t)]
        /\ new.bitmap = rq.bitmap \cup {p}
        /\ new = [list |-> new.list, bitmap |-> new.bitmap]
    BY DEF insert_in_run_queue_head
  <1>3. t \notin Range(old) /\ IsInjective(old)
    BY <1>1 DEF Queued
  <1>4. /\ list_add_head(old, t) \in Seq(Thread)
        /\ list_add_head(old, t) # <<>>
        /\ Range(list_add_head(old, t)) = Range(old) \cup {t}
        /\ IsInjective(list_add_head(old, t))
    <2> HIDE DEF old
    <2> QED BY <1>1, <1>3, AddHead
  <1>5. new \in RunQueues
    <2>1. [rq.list EXCEPT ![p] = list_add_head(old, t)] \in [Prio -> Seq(Thread)]
      BY <1>1, <1>4
    <2>2. rq.bitmap \cup {p} \in SUBSET Prio
      BY <1>1
    <2> QED BY <2>1, <2>2, <1>2 DEF RunQueues
  <1>6. /\ \A q \in Prio \ {p} : new.list[q] = rq.list[q]
        /\ new.list[p] = list_add_head(old, t)
    BY <1>1, <1>2
  <1>7. ASSUME NEW q \in Prio
        PROVE  /\ IsInjective(new.list[q])
               /\ Range(new.list[q]) =
                    {u \in Thread : st2[u] = "READY" /\ prio[u] = q}
    <2>1. CASE q = p
      BY <2>1, <1>1, <1>3, <1>4, <1>6 DEF Queued
    <2>2. CASE q # p
      BY <2>2, <1>1, <1>6 DEF Queued
    <2> QED BY <2>1, <2>2
  <1>8. new.bitmap = {q \in Prio : new.list[q] # <<>>}
    BY <1>1, <1>2, <1>4, <1>6 DEF Queued
  <1> QED BY <1>5, <1>7, <1>8 DEF Queued

\* The same at the tail.
LEMMA QueueTail ==
  ASSUME NEW rq \in RunQueues, NEW st \in [Thread -> State],
         NEW prio \in [Thread -> Prio], NEW t \in Thread, NEW p,
         p = prio[t], Queued(st, rq, prio), st[t] # "READY"
  PROVE  /\ insert_in_run_queue_tail(rq, t, p) \in RunQueues
         /\ Queued([st EXCEPT ![t] = "READY"],
                   insert_in_run_queue_tail(rq, t, p), prio)
  <1> DEFINE new == insert_in_run_queue_tail(rq, t, p)
             st2 == [st EXCEPT ![t] = "READY"]
             old == rq.list[p]
  <1>1. p \in Prio /\ rq.list \in [Prio -> Seq(Thread)]
          /\ rq.bitmap \in SUBSET Prio /\ old \in Seq(Thread)
    BY DEF RunQueues
  <1>2. /\ new.list = [rq.list EXCEPT ![p] = list_add_tail(old, t)]
        /\ new.bitmap = rq.bitmap \cup {p}
        /\ new = [list |-> new.list, bitmap |-> new.bitmap]
    BY DEF insert_in_run_queue_tail
  <1>3. t \notin Range(old) /\ IsInjective(old)
    BY <1>1 DEF Queued
  <1>4. /\ list_add_tail(old, t) \in Seq(Thread)
        /\ list_add_tail(old, t) # <<>>
        /\ Range(list_add_tail(old, t)) = Range(old) \cup {t}
        /\ IsInjective(list_add_tail(old, t))
    <2> HIDE DEF old
    <2> QED BY <1>1, <1>3, AddTail
  <1>5. new \in RunQueues
    <2>1. [rq.list EXCEPT ![p] = list_add_tail(old, t)] \in [Prio -> Seq(Thread)]
      BY <1>1, <1>4
    <2>2. rq.bitmap \cup {p} \in SUBSET Prio
      BY <1>1
    <2> QED BY <2>1, <2>2, <1>2 DEF RunQueues
  <1>6. /\ \A q \in Prio \ {p} : new.list[q] = rq.list[q]
        /\ new.list[p] = list_add_tail(old, t)
    BY <1>1, <1>2
  <1>7. ASSUME NEW q \in Prio
        PROVE  /\ IsInjective(new.list[q])
               /\ Range(new.list[q]) =
                    {u \in Thread : st2[u] = "READY" /\ prio[u] = q}
    <2>1. CASE q = p
      BY <2>1, <1>1, <1>3, <1>4, <1>6 DEF Queued
    <2>2. CASE q # p
      BY <2>2, <1>1, <1>6 DEF Queued
    <2> QED BY <2>1, <2>2
  <1>8. new.bitmap = {q \in Prio : new.list[q] # <<>>}
    BY <1>1, <1>2, <1>4, <1>6 DEF Queued
  <1> QED BY <1>5, <1>7, <1>8 DEF Queued

\* Nothing changes for the run queue while the READY threads and their
\* priorities stay what they are.
LEMMA QueueSame ==
  ASSUME NEW rq, NEW st1, NEW st2, NEW prio1, NEW prio2,
         Queued(st1, rq, prio1),
         \A t \in Thread : st1[t] = "READY" <=> st2[t] = "READY",
         \A t \in Thread : st1[t] = "READY" => prio1[t] = prio2[t]
  PROVE  Queued(st2, rq, prio2)
  BY DEF Queued

\* The thread thread_resched takes off is a READY one of its list.
LEMMA QueueRemove ==
  ASSUME NEW rq \in RunQueues, NEW st \in [Thread -> State],
         NEW prio \in [Thread -> Prio], NEW p \in rq.bitmap,
         Queued(st, rq, prio)
  PROVE  LET t == Head(rq.list[p])
         IN  /\ t \in Thread /\ st[t] = "READY" /\ prio[t] = p
             /\ remove_run_queue_head(rq, p) \in RunQueues
             /\ Queued([st EXCEPT ![t] = "RUNNING"],
                       remove_run_queue_head(rq, p), prio)
  <1> DEFINE old == rq.list[p]
             t   == Head(old)
             new == remove_run_queue_head(rq, p)
             st2 == [st EXCEPT ![t] = "RUNNING"]
  <1>1. p \in Prio /\ rq.list \in [Prio -> Seq(Thread)]
          /\ rq.bitmap \in SUBSET Prio /\ old \in Seq(Thread)
    BY DEF RunQueues
  <1>2. old # <<>> /\ IsInjective(old)
    BY <1>1 DEF Queued
  <1>3. /\ Tail(old) \in Seq(Thread) /\ t \in Thread /\ t \in Range(old)
        /\ Range(Tail(old)) = Range(old) \ {t} /\ IsInjective(Tail(old))
        /\ Tail(old) = <<>> <=> Len(old) = 1
    BY <1>1, <1>2, RemoveHead
  <1>4. st[t] = "READY" /\ prio[t] = p
    BY <1>1, <1>3 DEF Queued
  <1>5. /\ new.list = [rq.list EXCEPT ![p] = Tail(old)]
        /\ new.bitmap = IF Len(old) = 1 THEN rq.bitmap \ {p} ELSE rq.bitmap
        /\ new = [list |-> new.list, bitmap |-> new.bitmap]
    BY DEF remove_run_queue_head
  <1> HIDE DEF t, new
  <1>6. new \in RunQueues
    <2>1. [rq.list EXCEPT ![p] = Tail(old)] \in [Prio -> Seq(Thread)]
      BY <1>1, <1>3
    <2>2. new.bitmap \in SUBSET Prio
      BY <1>1, <1>5
    <2> QED BY <2>1, <2>2, <1>5 DEF RunQueues
  <1>7. /\ \A q \in Prio \ {p} : new.list[q] = rq.list[q]
        /\ new.list[p] = Tail(old)
    BY <1>1, <1>5
  <1>8. ASSUME NEW q \in Prio
        PROVE  /\ IsInjective(new.list[q])
               /\ Range(new.list[q]) =
                    {u \in Thread : st2[u] = "READY" /\ prio[u] = q}
    <2>1. CASE q = p
      BY <2>1, <1>1, <1>3, <1>7 DEF Queued
    <2>2. CASE q # p
      BY <2>2, <1>1, <1>3, <1>4, <1>7 DEF Queued
    <2> QED BY <2>1, <2>2
  <1>9. new.bitmap = {q \in Prio : new.list[q] # <<>>}
    BY <1>1, <1>3, <1>5, <1>7 DEF Queued
  <1>10. Queued(st2, new, prio)
    BY <1>8, <1>9 DEF Queued
  <1> QED BY <1>3, <1>4, <1>6, <1>10 DEF t, new

-----------------------------------------------------------------------------
(* The wait queues.                                                        *)

WaitLists == [WaitQueue -> Seq(Thread)]
WaitCounts == [WaitQueue -> Int]

\* Nothing changes for the wait queues while the BLOCKED threads are the same.
LEMMA WaitSame ==
  ASSUME NEW st1, NEW st2, NEW list, NEW count, NEW blocking,
         Waiting(st1, list, count, blocking),
         \A t \in Thread : st1[t] = "BLOCKED" <=> st2[t] = "BLOCKED"
  PROVE  Waiting(st2, list, count, blocking)
  BY DEF Waiting

\* A thread that blocks is added at the end.
LEMMA WaitAdd ==
  ASSUME NEW st \in [Thread -> State], NEW list \in WaitLists,
         NEW count \in WaitCounts,
         NEW blocking \in [Thread -> WaitQueue \cup {None}],
         NEW w \in WaitQueue, NEW t \in Thread,
         Waiting(st, list, count, blocking), st[t] # "BLOCKED"
  PROVE  /\ [list EXCEPT ![w] = list_add_tail(@, t)] \in WaitLists
         /\ Waiting([st EXCEPT ![t] = "BLOCKED"],
                    [list EXCEPT ![w] = list_add_tail(@, t)],
                    [count EXCEPT ![w] = @ + 1],
                    [blocking EXCEPT ![t] = w])
  <1> DEFINE old   == list[w]
             list2 == [list EXCEPT ![w] = list_add_tail(old, t)]
             st2   == [st EXCEPT ![t] = "BLOCKED"]
             cnt2  == [count EXCEPT ![w] = @ + 1]
             blk2  == [blocking EXCEPT ![t] = w]
  <1>1. old \in Seq(Thread) /\ IsInjective(old) /\ t \notin Range(old)
          /\ count[w] = Len(old)
    BY DEF Waiting, WaitLists
  <1>2. /\ list_add_tail(old, t) \in Seq(Thread)
        /\ Len(list_add_tail(old, t)) = Len(old) + 1
        /\ Range(list_add_tail(old, t)) = Range(old) \cup {t}
        /\ IsInjective(list_add_tail(old, t))
    <2> HIDE DEF old
    <2> QED BY <1>1, AddTail
  <1>3. list2 \in WaitLists
    BY <1>2 DEF WaitLists
  <1>4. ASSUME NEW v \in WaitQueue
        PROVE  /\ IsInjective(list2[v])
               /\ Range(list2[v]) =
                    {u \in Thread : st2[u] = "BLOCKED" /\ blk2[u] = v}
               /\ cnt2[v] = Len(list2[v])
    <2>1. CASE v = w
      <3>1. list2[v] = list_add_tail(old, t) /\ cnt2[v] = count[w] + 1
        BY <2>1 DEF WaitLists, WaitCounts
      <3>2. Range(old) = {u \in Thread : st[u] = "BLOCKED" /\ blocking[u] = w}
        BY DEF Waiting
      <3> HIDE DEF list2, cnt2, old
      <3> QED BY <2>1, <3>1, <3>2, <1>1, <1>2
    <2>2. CASE v # w
      <3>1. list2[v] = list[v] /\ cnt2[v] = count[v]
        BY <2>2 DEF WaitLists, WaitCounts
      <3> QED BY <2>2, <3>1 DEF Waiting
    <2> QED BY <2>1, <2>2
  <1>5. \A u \in Thread : st2[u] = "BLOCKED" => blk2[u] \in WaitQueue
    BY DEF Waiting
  <1>6. Waiting(st2, list2, cnt2, blk2)
    <2> HIDE DEF st2, list2, cnt2, blk2
    <2> QED BY <1>4, <1>5 DEF Waiting
  <1> QED BY <1>3, <1>6

\* A thread that is waiting can be taken off its queue if the list that is
\* left has everybody else.
LEMMA WaitTake ==
  ASSUME NEW st \in [Thread -> State], NEW list \in WaitLists,
         NEW count \in WaitCounts,
         NEW blocking \in [Thread -> WaitQueue \cup {None}],
         NEW w \in WaitQueue, NEW t \in Thread, NEW rest \in Seq(Thread),
         Waiting(st, list, count, blocking),
         st[t] = "BLOCKED", blocking[t] = w,
         IsInjective(rest), Range(rest) = Range(list[w]) \ {t},
         Len(rest) = Len(list[w]) - 1
  PROVE  /\ [list EXCEPT ![w] = rest] \in WaitLists
         /\ Waiting([st EXCEPT ![t] = "READY"],
                    [list EXCEPT ![w] = rest],
                    [count EXCEPT ![w] = @ - 1],
                    [blocking EXCEPT ![t] = None])
  <1> DEFINE list2 == [list EXCEPT ![w] = rest]
             st2   == [st EXCEPT ![t] = "READY"]
             cnt2  == [count EXCEPT ![w] = @ - 1]
             blk2  == [blocking EXCEPT ![t] = None]
  <1>1. count[w] = Len(list[w])
          /\ Range(list[w]) =
               {u \in Thread : st[u] = "BLOCKED" /\ blocking[u] = w}
    BY DEF Waiting
  <1>2. list2 \in WaitLists
    BY DEF WaitLists
  <1>3. ASSUME NEW v \in WaitQueue
        PROVE  /\ IsInjective(list2[v])
               /\ Range(list2[v]) =
                    {u \in Thread : st2[u] = "BLOCKED" /\ blk2[u] = v}
               /\ cnt2[v] = Len(list2[v])
    <2>1. CASE v = w
      <3>1. list2[v] = rest /\ cnt2[v] = count[w] - 1
        BY <2>1 DEF WaitLists, WaitCounts
      <3>2. {u \in Thread : st2[u] = "BLOCKED" /\ blk2[u] = v} =
              {u \in Thread : st[u] = "BLOCKED" /\ blocking[u] = w} \ {t}
        BY <2>1
      <3> HIDE DEF list2, cnt2, st2, blk2
      <3> QED BY <3>1, <3>2, <1>1
    <2>2. CASE v # w
      <3>1. list2[v] = list[v] /\ cnt2[v] = count[v]
        BY <2>2 DEF WaitLists, WaitCounts
      <3>2. {u \in Thread : st2[u] = "BLOCKED" /\ blk2[u] = v} =
              {u \in Thread : st[u] = "BLOCKED" /\ blocking[u] = v}
        BY <2>2
      <3> HIDE DEF list2, cnt2, st2, blk2
      <3> QED BY <3>1, <3>2 DEF Waiting
    <2> QED BY <2>1, <2>2
  <1>4. \A u \in Thread : st2[u] = "BLOCKED" => blk2[u] \in WaitQueue
    BY DEF Waiting
  <1>5. Waiting(st2, list2, cnt2, blk2)
    <2> HIDE DEF st2, list2, cnt2, blk2
    <2> QED BY <1>3, <1>4 DEF Waiting
  <1> QED BY <1>2, <1>5

\* From anywhere, by a timeout.
LEMMA WaitTakeOut ==
  ASSUME NEW st \in [Thread -> State], NEW list \in WaitLists,
         NEW count \in WaitCounts,
         NEW blocking \in [Thread -> WaitQueue \cup {None}],
         NEW t \in Thread, NEW w, st[t] = "BLOCKED", blocking[t] = w,
         Waiting(st, list, count, blocking)
  PROVE  /\ w \in WaitQueue
         /\ [list EXCEPT ![w] = list_delete(@, t)] \in WaitLists
         /\ Waiting([st EXCEPT ![t] = "READY"],
                    [list EXCEPT ![w] = list_delete(@, t)],
                    [count EXCEPT ![w] = @ - 1],
                    [blocking EXCEPT ![t] = None])
  <1>1. w \in WaitQueue
    BY DEF Waiting
  <1>2. list[w] \in Seq(Thread) /\ IsInjective(list[w]) /\ t \in Range(list[w])
    BY <1>1 DEF Waiting, WaitLists
  <1>3. /\ list_delete(list[w], t) \in Seq(Thread)
        /\ Len(list_delete(list[w], t)) = Len(list[w]) - 1
        /\ Range(list_delete(list[w], t)) = Range(list[w]) \ {t}
        /\ IsInjective(list_delete(list[w], t))
    BY <1>2, Delete
  <1> DEFINE rest == list_delete(list[w], t)
  <1> HIDE DEF rest
  <1>4. /\ [list EXCEPT ![w] = rest] \in WaitLists
        /\ Waiting([st EXCEPT ![t] = "READY"], [list EXCEPT ![w] = rest],
                   [count EXCEPT ![w] = @ - 1],
                   [blocking EXCEPT ![t] = None])
    BY <1>1, <1>3, WaitTake DEF rest
  <1> QED BY <1>1, <1>4 DEF rest

\* list_delete cuts the element out where it is.
LEMMA DeleteCuts ==
  ASSUME NEW S, NEW s \in Seq(S), IsInjective(s), NEW i \in DOMAIN s
  PROVE  list_delete(s, s[i]) = SubSeq(s, 1, i - 1) \o SubSeq(s, i + 1, Len(s))
  <1> DEFINE x == s[i]
             k == CHOOSE j \in DOMAIN s : s[j] = x
  <1>1. DOMAIN s = 1..Len(s) /\ Len(s) \in Nat /\ i \in 1..Len(s)
    OBVIOUS
  <1>2. k = i
    BY <1>1 DEF IsInjective
  <1>3. list_delete(s, x) = [j \in 1..(Len(s) - 1) |-> IF j < i THEN s[j]
                                                        ELSE s[j + 1]]
    BY <1>2 DEF list_delete
  <1> DEFINE a == SubSeq(s, 1, i - 1)
             b == SubSeq(s, i + 1, Len(s))
  <1>4. /\ a \in Seq(S) /\ Len(a) = i - 1
        /\ \A j \in 1..(i - 1) : a[j] = s[j]
    <2>1. 1 \in Int /\ i - 1 \in Int /\ \A j \in 1..(i - 1) : s[j] \in S
      BY <1>1
    <2>2. /\ a \in Seq(S) /\ Len(a) = IF 1 <= i - 1 THEN i - 1 - 1 + 1 ELSE 0
          /\ \A j \in 1..(i - 1 - 1 + 1) : a[j] = s[1 + j - 1]
      BY <2>1, SubSeqProperties
    <2> HIDE DEF a
    <2> QED BY <1>1, <2>2
  <1>5. /\ b \in Seq(S) /\ Len(b) = Len(s) - i
        /\ \A j \in 1..(Len(s) - i) : b[j] = s[i + j]
    <2>1. /\ i + 1 \in Int /\ Len(s) \in Int
          /\ \A j \in (i + 1)..Len(s) : s[j] \in S
      BY <1>1
    <2>2. /\ b \in Seq(S)
          /\ Len(b) = IF i + 1 <= Len(s) THEN Len(s) - (i + 1) + 1 ELSE 0
          /\ \A j \in 1..(Len(s) - (i + 1) + 1) : b[j] = s[i + 1 + j - 1]
      BY <2>1, SubSeqProperties
    <2> HIDE DEF b
    <2>3. Len(b) = Len(s) - i
      BY <1>1, <2>2
    <2>4. ASSUME NEW j \in 1..(Len(s) - i) PROVE b[j] = s[i + j]
      <3>1. j \in 1..(Len(s) - (i + 1) + 1) /\ i + 1 + j - 1 = i + j
        BY <1>1
      <3>2. b[j] = s[i + 1 + j - 1]
        BY <2>2, <3>1
      <3> QED BY <3>1, <3>2
    <2> QED BY <2>2, <2>3, <2>4
  <1> DEFINE c == a \o b
  <1> HIDE DEF a, b
  <1>6. /\ c \in Seq(S) /\ Len(c) = Len(a) + Len(b)
        /\ \A j \in 1..(Len(a) + Len(b)) :
             c[j] = IF j <= Len(a) THEN a[j] ELSE b[j - Len(a)]
    BY <1>4, <1>5, ConcatProperties
  <1> HIDE DEF c
  <1>7. ASSUME NEW j \in 1..(Len(s) - 1)
        PROVE  c[j] = IF j < i THEN s[j] ELSE s[j + 1]
    <2> DEFINE p == Len(a)
               q == Len(b)
    <2>0. /\ p = i - 1 /\ q = Len(s) - i /\ Len(s) \in Nat /\ i \in 1..Len(s)
          /\ \A l \in 1..(p + q) : c[l] = IF l <= p THEN a[l] ELSE b[l - p]
      BY <1>1, <1>4, <1>5, <1>6
    <2> HIDE DEF p, q
    <2>a. j \in 1..(p + q) /\ (j <= p <=> j < i)
      BY <2>0
    <2>1. CASE j < i
      <3>1. c[j] = a[j] /\ j \in 1..(i - 1)
        BY <2>0, <2>a, <2>1
      <3> QED BY <3>1, <2>1, <1>4
    <2>2. CASE ~(j < i)
      <3>1. j - (i - 1) \in 1..(Len(s) - i) /\ i + (j - (i - 1)) = j + 1
        BY <1>1, <2>2
      <3>2. c[j] = b[j - (i - 1)]
        BY <2>0, <2>a, <2>2
      <3> QED BY <1>5, <2>2, <3>1, <3>2
    <2> QED BY <2>1, <2>2
  <1>8. c \in [1..(Len(s) - 1) -> S]
    <2>1. Len(c) = Len(s) - 1
      BY <1>1, <1>4, <1>5, <1>6
    <2> QED BY <1>6, <2>1, LenProperties
  <1>9. c = [j \in 1..(Len(s) - 1) |-> c[j]]
    BY <1>8
  <1>10. c = list_delete(s, x)
    BY <1>3, <1>7, <1>9
  <1> QED BY <1>10 DEF a, b, c

-----------------------------------------------------------------------------
(* A set of priorities that is not empty has a highest one.                *)

Below == {xy \in Nat \X Nat : xy[1] < xy[2]}

\* The order of the naturals is well-founded.
LEMMA NatWellFounded == IsWellFoundedOn(Below, Nat)
  <1>1. Below = OpToRel(<, Nat)
    BY DEF Below, OpToRel
  <1> QED BY <1>1, NatLessThanWellFounded

\* A bitmap that is not empty has a highest bit, and highest() finds it.
LEMMA HighestIsMax ==
  ASSUME NEW bitmap \in SUBSET Prio, bitmap # {}
  PROVE  /\ highest(bitmap) \in bitmap
         /\ \A q \in bitmap : q <= highest(bitmap)
  <1> DEFINE T == {HighestPrio - q : q \in bitmap}
  <1>1. HighestPrio \in Nat /\ \A q \in bitmap : q \in 0..HighestPrio
    BY ThreadAssumption DEF Prio
  <1>2. T \subseteq Nat /\ T # {}
    BY <1>1
  <1>3. PICK x \in T : \A y \in T : ~(<<y, x>> \in Below)
    <2> HIDE DEF T
    <2> QED BY <1>2, NatWellFounded, WFMin
  <1>4. PICK p \in bitmap : x = HighestPrio - p
    BY <1>3
  <1>5. ASSUME NEW q \in bitmap PROVE q <= p
    <2>1. HighestPrio - q \in T /\ HighestPrio - q \in Nat
            /\ HighestPrio - p \in Nat
      BY <1>1
    <2>2. ~(HighestPrio - q < HighestPrio - p)
      BY <2>1, <1>3, <1>4 DEF Below
    <2> QED BY <2>2, <1>1
  <1>6. \E h \in bitmap : \A q \in bitmap : q <= h
    BY <1>5
  <1> QED BY <1>6 DEF highest

-----------------------------------------------------------------------------
(* A switch.  The lemma says what thread_resched needs to find so that the *)
(* invariant holds after it; every operation that switches cites it.       *)

\* The variables thread_resched does not assign have their types after the
\* step.
OthersTyped ==
  /\ priority \in [Thread -> Prio]
  /\ blocking_wait_queue \in [Thread -> WaitQueue \cup {None}]
  /\ wait_queue_block_ret \in [Thread -> Status]
  /\ idle_thread \in {None, Boot}
  /\ ints \in BOOLEAN
  /\ wait_list \in WaitLists
  /\ wait_count \in WaitCounts
  /\ timer \in [Thread -> {"none", "sleep", "wait"}]
  /\ waking \in [queue : WaitQueue \cup {None}, reschedule : BOOLEAN,
                 error : Status, ret : BOOLEAN, then : Label]
  /\ waking.then \in {"user", "wake", "exit"}

\* The labels of code that follows a switch, and the sections it is in.
SwitchLabel == {"boot_resume", "yield", "resume", "sleep", "wait", "wake",
                "preempt", "exit"}
Owed(label) == IF label = "boot_resume" THEN 3 ELSE Exits(label)

\* After the step no thread that is READY has a higher priority than the one
\* that runs.
Switched ==
  \A t \in Thread : state'[t] = "READY" =>
    priority'[t] <= priority'[current_thread']

\* thread_resched keeps the invariant and picks a thread of the highest
\* priority, if its caller left every thread but the
\* running one as the invariant wants it.
LEMMA Resched ==
  ASSUME ThreadInv,
         NEW st \in [Thread -> State], NEW rq \in RunQueues,
         NEW rem \in [Thread -> 0..Quantum], NEW count \in Nat,
         NEW label \in SwitchLabel,
         thread_resched(st, rq, rem, count),
         goto(label),
         OthersTyped',
         Queued(st, rq, priority'),
         Waiting(st, wait_list', wait_count', blocking_wait_queue'),
         \A t \in Thread :
           /\ st[t] # "RUNNING"
           /\ st[t] = "FREE" <=> state[t] = "FREE"
           /\ st[t] = "DEATH" <=> state[t] = "DEATH"
           /\ timer'[t] = "wait" => pc'[t] = "wait"
           /\ timer'[t] = "sleep" <=> st[t] = "SLEEPING"
           /\ st[t] = "FREE" => timer'[t] = "none",
         st[Boot] = "READY",
         label = "exit" <=> state[current_thread] = "DEATH",
         Pays(count, Owed(label)),
         LeakBound = 0 => ~ints'
  PROVE  ThreadInv' /\ Switched
  <1> DEFINE p == highest(rq.bitmap)
             n == Head(rq.list[p])
             old == current_thread
  <1>1. Boot \in Thread /\ Quantum \in Nat \ {0} /\ LeakBound \in Nat
    BY ThreadAssumption
  <1>2. old \in Thread /\ pc \in [Thread -> Label]
          /\ saved_critical_section_count \in [Thread -> Nat]
    BY DEF ThreadInv, ThreadTypeOK
  <1>3. p \in rq.bitmap
    <2>1. priority'[Boot] \in Prio /\ rq.bitmap \in SUBSET Prio
      BY <1>1 DEF OthersTyped, RunQueues
    <2>2. Boot \in Range(rq.list[priority'[Boot]])
      BY <1>1, <2>1 DEF Queued
    <2>3. rq.list[priority'[Boot]] # <<>>
      BY <2>2 DEF Range
    <2>4. rq.bitmap # {}
      BY <2>1, <2>3 DEF Queued
    <2> QED BY <2>1, <2>4, HighestIsMax
  <1>4. /\ n \in Thread /\ st[n] = "READY"
        /\ remove_run_queue_head(rq, p) \in RunQueues
        /\ Queued([st EXCEPT ![n] = "RUNNING"],
                  remove_run_queue_head(rq, p), priority')
    <2>1. priority' \in [Thread -> Prio]
      BY DEF OthersTyped
    <2> HIDE DEF p
    <2> QED BY <1>3, <2>1, QueueRemove
  <1>5. /\ state' = [st EXCEPT ![n] = "RUNNING"]
        /\ run_queue' = remove_run_queue_head(rq, p)
        /\ current_thread' = n
        /\ remaining_quantum' =
             IF n # old /\ rem[n] = 0
             THEN [rem EXCEPT ![n] = Quantum] ELSE rem
        /\ saved_critical_section_count' =
             IF n = old THEN saved_critical_section_count
             ELSE [saved_critical_section_count EXCEPT ![old] = count]
        /\ critical_section_count' =
             IF n = old THEN count ELSE saved_critical_section_count[n]
    BY DEF thread_resched
  <1> HIDE DEF n, p
  <1>6. pc' = [pc EXCEPT ![old] = label] /\ label \in Label
    BY DEF goto, SwitchLabel, Label
  <1>7. \A t \in Thread : state'[t] = IF t = n THEN "RUNNING" ELSE st[t]
    BY <1>5
  <1>8. ThreadTypeOK'
    <2>1. state' \in [Thread -> State]
      BY <1>4, <1>5 DEF State
    <2>2. run_queue' \in RunQueues /\ current_thread' \in Thread
      BY <1>4, <1>5
    <2>3. remaining_quantum' \in [Thread -> 0..Quantum]
      BY <1>1, <1>4, <1>5
    <2>4. /\ saved_critical_section_count' \in [Thread -> Nat]
          /\ critical_section_count' \in Nat
      BY <1>2, <1>4, <1>5
    <2>5. pc' \in [Thread -> Label]
      BY <1>2, <1>6
    <2> QED BY <2>1, <2>2, <2>3, <2>4, <2>5
            DEF ThreadTypeOK, OthersTyped, RunQueues, WaitLists, WaitCounts
  <1>9. RunQueueExact'
    BY <1>4, <1>5 DEF RunQueueExact
  <1>10. WaitQueueExact'
    <2>1. \A t \in Thread : st[t] = "BLOCKED" <=> state'[t] = "BLOCKED"
      BY <1>4, <1>7
    <2> QED BY <2>1, WaitSame DEF WaitQueueExact
  <1>11. TimersOnLiveStacks'
    BY <1>4, <1>7 DEF TimersOnLiveStacks
  <1>12. \A t \in Thread : state'[t] = "FREE" => timer'[t] = "none"
    BY <1>4, <1>7
  <1>13. \A t \in Thread : pc'[t] # "wake_all"
    BY <1>2, <1>6 DEF ThreadInv, WakingUp, SwitchLabel
  <1>14. Ended'
    <2>1. ASSUME NEW t \in Thread, t = old
          PROVE  /\ pc'[t] = "exit" => state'[t] \in {"DEATH", "FREE"}
                 /\ state'[t] = "DEATH" => pc'[t] = "exit"
      BY <2>1, <1>2, <1>4, <1>6, <1>7
    <2>2. ASSUME NEW t \in Thread, t # old
          PROVE  /\ pc'[t] = "exit" => state'[t] \in {"DEATH", "FREE"}
                 /\ state'[t] = "DEATH" => pc'[t] = "exit"
      <3>1. pc'[t] = pc[t] /\ pc[t] # "wake_all"
        BY <2>2, <1>2, <1>6 DEF ThreadInv, WakingUp
      <3>2. /\ pc[t] = "exit" => state[t] \in {"DEATH", "FREE"}
            /\ state[t] = "DEATH" => pc[t] = "exit"
        BY <3>1 DEF ThreadInv, Ended
      <3> QED BY <3>1, <3>2, <1>4, <1>7
    <2> QED BY <2>1, <2>2 DEF Ended
  <1>15. OnCPU'
    BY <1>4, <1>5, <1>7, <1>13, <1>14 DEF OnCPU, Ended
  <1>16. WakingUp'
    BY <1>4, <1>5, <1>13 DEF WakingUp, OthersTyped
  <1>17. BootCanRun'
    BY <1>1, <1>7 DEF BootCanRun
  <1>18. CountsCover'
    <2>1. ASSUME NEW t \in Thread, t = old PROVE Depth(t)' = Owed(label)
      BY <2>1, <1>2, <1>6 DEF Depth, Owed, SwitchLabel, Exits
    <2>2. ASSUME NEW t \in Thread, t # old, pc[t] # "user", state[t] # "FREE"
          PROVE  Depth(t)' = Depth(t) /\ Depth(t) > 0
      <3>1. pc'[t] = pc[t] /\ pc[t] # "wake_all" /\ pc[t] \in Label
        BY <2>2, <1>2, <1>6 DEF ThreadInv, WakingUp
      <3> QED BY <2>2, <3>1 DEF Depth, Exits, Label
    <2>3. Pays(critical_section_count', Depth(n)')
            /\ (LeakBound = 0 => critical_section_count' # 0)
      <3>1. CASE n = old
        <4>1. Owed(label) > 0
          BY DEF Owed, SwitchLabel, Exits
        <4> QED BY <3>1, <4>1, <2>1, <1>4, <1>5 DEF Pays
      <3>2. CASE n # old
        <4>1. pc[n] # "user" /\ state[n] # "FREE"
                /\ Pays(saved_critical_section_count[n], Depth(n))
          BY <3>2, <1>4 DEF ThreadInv, CountsCover
        <4>2. Depth(n)' = Depth(n) /\ Depth(n) > 0
          BY <3>2, <4>1, <1>4, <2>2
        <4> QED BY <3>2, <4>1, <4>2, <1>5 DEF Pays
      <3> QED BY <3>1, <3>2
    <2>4. ASSUME NEW t \in Thread, t # n
          PROVE  /\ pc'[t] # "user"
                 /\ state'[t] # "FREE" =>
                      Pays(saved_critical_section_count'[t], Depth(t)')
      <3>1. CASE t = old
        <4>1. pc'[t] = label /\ saved_critical_section_count'[t] = count
          BY <2>4, <3>1, <1>2, <1>5, <1>6
        <4> QED BY <3>1, <4>1, <2>1, <1>4 DEF SwitchLabel
      <3>2. CASE t # old
        <4>1. pc'[t] = pc[t] /\ pc[t] # "user"
                /\ saved_critical_section_count'[t] =
                     saved_critical_section_count[t]
          BY <3>2, <1>2, <1>5, <1>6 DEF ThreadInv, CountsCover
        <4>2. ASSUME state'[t] # "FREE"
              PROVE  Pays(saved_critical_section_count'[t], Depth(t)')
          <5>1. state[t] # "FREE"
            BY <4>2, <2>4, <1>7
          <5>2. Depth(t)' = Depth(t)
            BY <3>2, <4>1, <5>1, <2>2
          <5>3. Pays(saved_critical_section_count[t], Depth(t))
            BY <3>2, <5>1 DEF ThreadInv, CountsCover
          <5> QED BY <4>1, <5>2, <5>3
        <4> QED BY <4>1, <4>2
      <3> QED BY <3>1, <3>2
    <2>5. Depth(current_thread)' = Depth(n)'
      BY <1>5 DEF Depth
    <2>6. LeakBound = 0 => (ints' <=> critical_section_count' = 0)
      BY <2>3
    <2> QED BY <2>3, <2>4, <2>5, <2>6, <1>5 DEF CountsCover
  <1>19. Switched
    <2>1. priority' \in [Thread -> Prio]
      BY DEF OthersTyped
    <2>2. priority'[n] = p
      <3>1. rq.list[p] \in Seq(Thread) /\ rq.list[p] # <<>>
              /\ IsInjective(rq.list[p])
        BY <1>3 DEF Queued, RunQueues
      <3>2. n \in Range(rq.list[p])
        BY <3>1, RemoveHead DEF n
      <3> QED BY <1>3, <3>2 DEF Queued, RunQueues
    <2>3. ASSUME NEW t \in Thread, state'[t] = "READY"
          PROVE  priority'[t] <= p
      <3>1. st[t] = "READY"
        BY <2>3, <1>7
      <3>2. t \in Range(rq.list[priority'[t]])
        BY <2>1, <3>1 DEF Queued
      <3>3. rq.list[priority'[t]] # <<>>
        BY <3>2 DEF Range
      <3>4. priority'[t] \in rq.bitmap
        BY <2>1, <3>3 DEF Queued
      <3> QED BY <3>4, HighestIsMax DEF RunQueues, p
    <2> QED BY <2>2, <2>3, <1>5 DEF Switched
  <1> QED BY <1>8, <1>9, <1>10, <1>11, <1>12, <1>14, <1>15, <1>16, <1>17,
             <1>18, <1>19
          DEF ThreadInv

-----------------------------------------------------------------------------
(* Facts the proofs about single operations share.                         *)

\* What the invariant says of the parts an operation hands to the lemmas.
LEMMA Parts ==
  ASSUME ThreadInv
  PROVE  /\ OthersTyped
         /\ state \in [Thread -> State] /\ run_queue \in RunQueues
         /\ remaining_quantum \in [Thread -> 0..Quantum]
         /\ saved_critical_section_count \in [Thread -> Nat]
         /\ critical_section_count \in Nat
         /\ current_thread \in Thread /\ pc \in [Thread -> Label]
         /\ Queued(state, run_queue, priority)
         /\ Waiting(state, wait_list, wait_count, blocking_wait_queue)
  BY DEF ThreadInv, ThreadTypeOK, OthersTyped, RunQueues, WaitLists,
         WaitCounts, RunQueueExact, WaitQueueExact, WakingUp

\* The running thread leaves the CPU for state s.
LEMMA OffCPU ==
  ASSUME ThreadInv, state[current_thread] = "RUNNING", NEW s \in State,
         s # "RUNNING", s = "READY" \/ current_thread # Boot
  PROVE  LET st == [state EXCEPT ![current_thread] = s]
         IN  /\ st \in [Thread -> State]
             /\ \A t \in Thread : st[t] = IF t = current_thread THEN s
                                          ELSE state[t]
             /\ \A t \in Thread : st[t] # "RUNNING"
             /\ st[Boot] = "READY"
  <1>1. state \in [Thread -> State] /\ Boot \in Thread
    BY Parts, ThreadAssumption
  <1> QED BY <1>1 DEF ThreadInv, OnCPU, BootCanRun

\* Entering a critical section masks interrupts and adds one to what is owed.
LEMMA Enter ==
  ASSUME ThreadInv, EnterMasks
  PROVE  /\ ints' \in BOOLEAN
         /\ LeakBound = 0 => ~ints'
         /\ \A k \in Nat : Pays(critical_section_count + k,
                                Depth(current_thread) + k)
         /\ Depth(current_thread) \in Nat
  <1>1. Depth(current_thread) \in Nat
    BY DEF Depth, Exits
  <1>2. /\ Pays(critical_section_count, Depth(current_thread))
        /\ LeakBound = 0 => (ints <=> critical_section_count = 0)
        /\ ints \in BOOLEAN
    BY DEF ThreadInv, ThreadTypeOK, CountsCover
  <1>3. ints' \in BOOLEAN /\ (LeakBound = 0 => ~ints')
    BY <1>2 DEF EnterMasks
  <1>4. ASSUME NEW k \in Nat
        PROVE  Pays(critical_section_count + k, Depth(current_thread) + k)
    BY <1>1, <1>2, Parts DEF Pays
  <1> QED BY <1>1, <1>3, <1>4

\* A timer that is pending is not the business of a thread that is running
\* its own code.
LEMMA NoTimerInUser ==
  ASSUME ThreadInv, state[current_thread] = "RUNNING",
         pc[current_thread] # "wait"
  PROVE  timer[current_thread] = "none"
  BY Parts DEF ThreadInv, TimersOnLiveStacks, OthersTyped

-----------------------------------------------------------------------------
(* Operations that switch.                                                 *)

\* thread_yield keeps the invariant.
LEMMA YieldStep ==
  ASSUME ThreadInv, ThreadYield
  PROVE  ThreadInv' /\ Switched
  <1> DEFINE t  == current_thread
             st == [state EXCEPT ![t] = "READY"]
             rq == insert_in_run_queue_tail(run_queue, t, priority[t])
             rm == [remaining_quantum EXCEPT ![t] = 0]
  <1>1. /\ pc[t] = "user" /\ state[t] = "RUNNING" /\ t \in Thread
        /\ timer[t] = "none"
    BY Parts, NoTimerInUser DEF ThreadYield, Calling, ThreadInv, OnCPU
  <1>2. /\ thread_resched(st, rq, rm, critical_section_count + 1)
        /\ goto("yield") /\ EnterMasks
        /\ UNCHANGED <<wait_vars, priority, idle_thread, timer, waking>>
    BY DEF ThreadYield, thread_yield
  <1>3. /\ st \in [Thread -> State]
        /\ \A u \in Thread : st[u] = IF u = t THEN "READY" ELSE state[u]
        /\ \A u \in Thread : st[u] # "RUNNING"
        /\ st[Boot] = "READY"
    BY <1>1, OffCPU DEF State
  <1>4. rq \in RunQueues /\ Queued(st, rq, priority)
    BY <1>1, Parts, QueueTail DEF OthersTyped
  <1>5. rm \in [Thread -> 0..Quantum]
    BY <1>1, Parts, ThreadAssumption
  <1>6. OthersTyped'
    BY <1>2, Parts, Enter DEF OthersTyped, wait_vars
  <1>7. Waiting(st, wait_list, wait_count, blocking_wait_queue)
    BY <1>1, <1>3, Parts, WaitSame
  <1>8. Pays(critical_section_count + 1, Owed("yield"))
    BY <1>1, <1>2, Enter DEF Depth, Owed, Exits
  <1>9. \A u \in Thread :
          /\ st[u] = "FREE" <=> state[u] = "FREE"
          /\ st[u] = "DEATH" <=> state[u] = "DEATH"
          /\ timer'[u] = "wait" => pc'[u] = "wait"
          /\ timer'[u] = "sleep" <=> st[u] = "SLEEPING"
          /\ st[u] = "FREE" => timer'[u] = "none"
    BY <1>1, <1>2, <1>3, Parts DEF ThreadInv, TimersOnLiveStacks, goto
  <1> HIDE DEF st, rq, rm
  <1> QED
    BY <1>1, <1>2, <1>3, <1>4, <1>5, <1>6, <1>7, <1>8, <1>9, Parts, Enter,
       Resched, SMTT(30)
       DEF SwitchLabel, wait_vars

\* thread_become_idle keeps the invariant.
LEMMA BecomeIdleStep ==
  ASSUME ThreadInv, BecomeIdle
  PROVE  ThreadInv' /\ Switched
  <1> DEFINE t  == current_thread
             st == [state EXCEPT ![t] = "READY"]
             rq == insert_in_run_queue_tail(run_queue, t, IDLE_PRIORITY)
             rm == [remaining_quantum EXCEPT ![t] = 0]
  <1>1. /\ pc[t] = "user" /\ state[t] = "RUNNING" /\ t \in Thread
        /\ timer[t] = "none" /\ t = Boot
    BY Parts, NoTimerInUser DEF BecomeIdle, ThreadInv, OnCPU
  <1>2. /\ thread_resched(st, rq, rm, critical_section_count + 1)
        /\ goto("yield") /\ EnterMasks
        /\ UNCHANGED <<wait_vars, timer, waking>>
        /\ idle_thread' = Boot
        /\ priority' = [priority EXCEPT ![t] = IDLE_PRIORITY]
    BY <1>1 DEF BecomeIdle
  <1>3. /\ st \in [Thread -> State]
        /\ \A u \in Thread : st[u] = IF u = t THEN "READY" ELSE state[u]
        /\ \A u \in Thread : st[u] # "RUNNING"
        /\ st[Boot] = "READY"
    BY <1>1, OffCPU DEF State
  <1>4. priority' \in [Thread -> Prio] /\ priority'[t] = IDLE_PRIORITY
    BY <1>1, <1>2, Parts, ThreadAssumption DEF OthersTyped, Prio, IDLE_PRIORITY
  <1>5. rq \in RunQueues /\ Queued(st, rq, priority')
    <2>1. \A u \in Thread : state[u] = "READY" => priority[u] = priority'[u]
      BY <1>1, <1>2, Parts DEF OthersTyped
    <2>2. Queued(state, run_queue, priority')
      BY <2>1, Parts, QueueSame
    <2> QED BY <1>1, <1>4, <2>2, Parts, QueueTail
  <1>6. rm \in [Thread -> 0..Quantum]
    BY <1>1, Parts, ThreadAssumption
  <1>7. OthersTyped'
    BY <1>2, <1>4, Parts, Enter DEF OthersTyped, wait_vars
  <1>8. Waiting(st, wait_list', wait_count', blocking_wait_queue')
    BY <1>1, <1>2, <1>3, Parts, WaitSame DEF wait_vars
  <1>9. Pays(critical_section_count + 1, Owed("yield"))
    BY <1>1, <1>2, Enter DEF Depth, Owed, Exits
  <1>10. \A u \in Thread :
          /\ st[u] = "FREE" <=> state[u] = "FREE"
          /\ st[u] = "DEATH" <=> state[u] = "DEATH"
          /\ timer'[u] = "wait" => pc'[u] = "wait"
          /\ timer'[u] = "sleep" <=> st[u] = "SLEEPING"
          /\ st[u] = "FREE" => timer'[u] = "none"
    BY <1>1, <1>2, <1>3, Parts DEF ThreadInv, TimersOnLiveStacks, goto
  <1> HIDE DEF st, rq, rm
  <1>11. /\ critical_section_count + 1 \in Nat /\ "yield" \in SwitchLabel
         /\ LeakBound = 0 => ~ints'
    BY <1>2, Parts, Enter DEF SwitchLabel
  <1> QED
    BY <1>1, <1>2, <1>3, <1>5, <1>6, <1>7, <1>8, <1>9, <1>10, <1>11, Resched

\* thread_resume keeps the invariant.
LEMMA ResumeStep ==
  ASSUME ThreadInv, NEW v \in Thread, ThreadResume(v)
  PROVE  ThreadInv' /\ Switched
  <1> DEFINE t  == current_thread
             s1 == [state EXCEPT ![v] = "READY"]
             q1 == insert_in_run_queue_head(run_queue, v, priority[v])
             st == [s1 EXCEPT ![t] = "READY"]
             rq == insert_in_run_queue_tail(q1, t, priority[t])
             rm == [remaining_quantum EXCEPT ![t] = 0]
             label == IF pc[t] = "boot" THEN "boot_resume" ELSE "resume"
  <1>1. /\ pc[t] \in {"user", "boot"} /\ state[t] = "RUNNING" /\ t \in Thread
        /\ timer[t] = "none"
    BY Parts, NoTimerInUser DEF ThreadResume, Calling, ThreadInv, OnCPU
  <1>2. /\ thread_resched(st, rq, rm, critical_section_count + 1 + 1)
        /\ goto(label) /\ EnterMasks
        /\ UNCHANGED <<wait_vars, priority, idle_thread, timer, waking>>
        /\ state[v] = "SUSPENDED"
    BY DEF ThreadResume, thread_yield
  <1>3. /\ st \in [Thread -> State]
        /\ \A u \in Thread : st[u] = IF u \in {t, v} THEN "READY"
                                     ELSE state[u]
        /\ \A u \in Thread : st[u] # "RUNNING"
        /\ st[Boot] = "READY"
    BY <1>1, Parts, ThreadAssumption DEF State, ThreadInv, OnCPU, BootCanRun
  <1>4. s1 \in [Thread -> State] /\ s1[t] = "RUNNING"
    BY <1>1, <1>2, Parts DEF State
  <1>5. q1 \in RunQueues /\ Queued(s1, q1, priority)
    BY <1>2, Parts, QueueHead DEF OthersTyped
  <1>6. rq \in RunQueues /\ Queued(st, rq, priority)
    <2> HIDE DEF s1, q1
    <2> QED BY <1>1, <1>4, <1>5, Parts, QueueTail DEF OthersTyped
  <1>7. rm \in [Thread -> 0..Quantum]
    BY <1>1, Parts, ThreadAssumption
  <1>8. OthersTyped'
    BY <1>2, Parts, Enter DEF OthersTyped, wait_vars
  <1>9. Waiting(st, wait_list, wait_count, blocking_wait_queue)
    BY <1>1, <1>2, <1>3, Parts, WaitSame
  <1>10. Pays(critical_section_count + 1 + 1, Owed(label))
            /\ critical_section_count + 1 + 1 \in Nat
    <2>1. Owed(label) = Depth(t) + 2
      BY <1>1 DEF Depth, Owed, Exits
    <2>2. Pays(critical_section_count + 2, Depth(t) + 2)
      BY <1>2, Enter
    <2> QED BY <2>1, <2>2, Parts DEF Pays
  <1>11. \A u \in Thread :
          /\ st[u] = "FREE" <=> state[u] = "FREE"
          /\ st[u] = "DEATH" <=> state[u] = "DEATH"
          /\ timer'[u] = "wait" => pc'[u] = "wait"
          /\ timer'[u] = "sleep" <=> st[u] = "SLEEPING"
          /\ st[u] = "FREE" => timer'[u] = "none"
    BY <1>1, <1>2, <1>3, Parts DEF ThreadInv, TimersOnLiveStacks, goto
  <1>12. label \in SwitchLabel /\ label # "exit" /\ state[t] # "DEATH"
    BY <1>1 DEF SwitchLabel
  <1> HIDE DEF st, rq, rm, label
  <1> QED
    BY <1>2, <1>3, <1>6, <1>7, <1>8, <1>9, <1>10, <1>11, <1>12, Enter, Resched
       DEF wait_vars

\* thread_sleep keeps the invariant.
LEMMA SleepStep ==
  ASSUME ThreadInv, ThreadSleep
  PROVE  ThreadInv' /\ Switched
  <1> DEFINE t  == current_thread
             st == [state EXCEPT ![t] = "SLEEPING"]
  <1>1. /\ pc[t] = "user" /\ state[t] = "RUNNING" /\ t \in Thread
        /\ timer[t] = "none" /\ t # Boot
    BY Parts, NoTimerInUser DEF ThreadSleep, Calling, ThreadInv, OnCPU
  <1>2. /\ thread_resched(st, run_queue, remaining_quantum,
                          critical_section_count + 1)
        /\ goto("sleep") /\ EnterMasks
        /\ UNCHANGED <<wait_vars, priority, idle_thread, waking>>
        /\ timer' = [timer EXCEPT ![t] = "sleep"]
    BY DEF ThreadSleep
  <1>3. /\ st \in [Thread -> State]
        /\ \A u \in Thread : st[u] = IF u = t THEN "SLEEPING" ELSE state[u]
        /\ \A u \in Thread : st[u] # "RUNNING"
        /\ st[Boot] = "READY"
    BY <1>1, OffCPU DEF State
  <1>4. Queued(st, run_queue, priority)
    BY <1>1, <1>3, Parts, QueueSame
  <1>5. OthersTyped'
    BY <1>1, <1>2, Parts, Enter DEF OthersTyped, wait_vars
  <1>6. Waiting(st, wait_list, wait_count, blocking_wait_queue)
    BY <1>1, <1>3, Parts, WaitSame
  <1>7. Pays(critical_section_count + 1, Owed("sleep"))
    BY <1>1, <1>2, Enter DEF Depth, Owed, Exits
  <1>8. \A u \in Thread :
          /\ st[u] = "FREE" <=> state[u] = "FREE"
          /\ st[u] = "DEATH" <=> state[u] = "DEATH"
          /\ timer'[u] = "wait" => pc'[u] = "wait"
          /\ timer'[u] = "sleep" <=> st[u] = "SLEEPING"
          /\ st[u] = "FREE" => timer'[u] = "none"
    BY <1>1, <1>2, <1>3, Parts
       DEF ThreadInv, TimersOnLiveStacks, goto, OthersTyped
  <1>9. /\ critical_section_count + 1 \in Nat /\ "sleep" \in SwitchLabel
        /\ state[t] # "DEATH"
        /\ LeakBound = 0 => ~ints'
    BY <1>1, <1>2, Parts, Enter DEF SwitchLabel
  <1>10. /\ Queued(st, run_queue, priority')
         /\ Waiting(st, wait_list', wait_count', blocking_wait_queue')
    BY <1>2, <1>4, <1>6 DEF wait_vars
  <1> HIDE DEF st
  <1> QED
    BY <1>2, <1>3, <1>5, <1>7, <1>8, <1>9, <1>10, Parts, Resched

\* The preemption at the end of an interrupt keeps the invariant.
LEMMA IrqExitStep ==
  ASSUME ThreadInv, IrqExit
  PROVE  ThreadInv' /\ Switched
  <1> DEFINE t  == current_thread
             rm == IF pc[t] = "irq" THEN thread_timer_tick
                   ELSE remaining_quantum
             st == [state EXCEPT ![t] = "READY"]
             rq == IF rm[t] > 0
                   THEN insert_in_run_queue_head(run_queue, t, priority[t])
                   ELSE insert_in_run_queue_tail(run_queue, t, priority[t])
  <1>1. /\ pc[t] \in {"irq", "device"} /\ state[t] = "RUNNING" /\ t \in Thread
        /\ timer[t] = "none"
    BY Parts, NoTimerInUser DEF IrqExit, ThreadInv, OnCPU
  <1>2. /\ thread_resched(st, rq, rm, critical_section_count + 1)
        /\ goto("preempt")
        /\ UNCHANGED <<wait_vars, priority, idle_thread, ints, timer, waking>>
    BY DEF IrqExit, thread_preempt
  <1>3. /\ st \in [Thread -> State]
        /\ \A u \in Thread : st[u] = IF u = t THEN "READY" ELSE state[u]
        /\ \A u \in Thread : st[u] # "RUNNING"
        /\ st[Boot] = "READY"
    BY <1>1, OffCPU DEF State
  <1>4. rq \in RunQueues /\ Queued(st, rq, priority)
    BY <1>1, Parts, QueueTail, QueueHead DEF OthersTyped
  <1>5. rm \in [Thread -> 0..Quantum]
    BY <1>1, Parts, ThreadAssumption DEF thread_timer_tick
  <1>6. OthersTyped'
    BY <1>2, Parts DEF OthersTyped, wait_vars
  <1>7. Waiting(st, wait_list, wait_count, blocking_wait_queue)
    BY <1>1, <1>3, Parts, WaitSame
  <1>8. Pays(critical_section_count, Depth(t)) /\ Depth(t) = 1
          /\ (LeakBound = 0 => (ints <=> critical_section_count = 0))
    BY <1>1 DEF Depth, Exits, ThreadInv, CountsCover
  <1>9. Pays(critical_section_count + 1, Owed("preempt"))
    BY <1>8, Parts DEF Owed, Exits, Pays
  <1>10. LeakBound = 0 => ~ints'
    <2>1. LeakBound = 0 => critical_section_count # 0
      BY <1>8 DEF Pays
    <2> QED BY <2>1, <1>2, <1>8
  <1>11. \A u \in Thread :
          /\ st[u] = "FREE" <=> state[u] = "FREE"
          /\ st[u] = "DEATH" <=> state[u] = "DEATH"
          /\ timer'[u] = "wait" => pc'[u] = "wait"
          /\ timer'[u] = "sleep" <=> st[u] = "SLEEPING"
          /\ st[u] = "FREE" => timer'[u] = "none"
    BY <1>1, <1>2, <1>3, Parts DEF ThreadInv, TimersOnLiveStacks, goto
  <1> HIDE DEF st, rq, rm
  <1> QED
    BY <1>1, <1>2, <1>3, <1>4, <1>5, <1>6, <1>7, <1>9, <1>10, <1>11, Parts,
       Resched
       DEF SwitchLabel, wait_vars

\* wait_queue_block, up to the switch, keeps the invariant.
LEMMA BlockStep ==
  ASSUME ThreadInv, NEW w \in WaitQueue, NEW timeout \in Timeout,
         WaitQueueBlock(w, timeout)
  PROVE  ThreadInv' /\ Switched
  <1> DEFINE t  == current_thread
             st == [state EXCEPT ![t] = "BLOCKED"]
  <1>1. /\ pc[t] = "user" /\ state[t] = "RUNNING" /\ t \in Thread
        /\ timer[t] = "none" /\ t # Boot
    BY Parts, NoTimerInUser DEF WaitQueueBlock, Calling, ThreadInv, OnCPU
  <1>2. /\ thread_resched(st, run_queue, remaining_quantum,
                          critical_section_count + 1 + 1)
        /\ goto("wait") /\ EnterMasks
        /\ UNCHANGED <<priority, idle_thread, waking>>
        /\ wait_list' = [wait_list EXCEPT ![w] = list_add_tail(@, t)]
        /\ wait_count' = [wait_count EXCEPT ![w] = @ + 1]
        /\ blocking_wait_queue' = [blocking_wait_queue EXCEPT ![t] = w]
        /\ wait_queue_block_ret' =
             [wait_queue_block_ret EXCEPT ![t] = "NO_ERROR"]
        /\ timer' = IF timeout = "FINITE"
                    THEN [timer EXCEPT ![t] = "wait"] ELSE timer
    BY DEF WaitQueueBlock, wait_queue_block
  <1>3. /\ st \in [Thread -> State]
        /\ \A u \in Thread : st[u] = IF u = t THEN "BLOCKED" ELSE state[u]
        /\ \A u \in Thread : st[u] # "RUNNING"
        /\ st[Boot] = "READY"
    BY <1>1, OffCPU DEF State
  <1>4. Queued(st, run_queue, priority')
    BY <1>1, <1>2, <1>3, Parts, QueueSame
  <1>5. wait_list' \in WaitLists
          /\ Waiting(st, wait_list', wait_count', blocking_wait_queue')
    <2>1. state[t] # "BLOCKED"
      BY <1>1
    <2> QED BY <2>1, <1>1, <1>2, Parts, WaitAdd DEF OthersTyped
  <1>6. OthersTyped'
    <2>1. /\ wait_count' \in WaitCounts
          /\ blocking_wait_queue' \in [Thread -> WaitQueue \cup {None}]
          /\ wait_queue_block_ret' \in [Thread -> Status]
          /\ timer' \in [Thread -> {"none", "sleep", "wait"}]
      BY <1>1, <1>2, Parts DEF OthersTyped, WaitCounts, Status
    <2> QED BY <2>1, <1>2, <1>5, Parts, Enter DEF OthersTyped
  <1>7. Pays(critical_section_count + 1 + 1, Owed("wait"))
    <2>1. Owed("wait") = Depth(t) + 2
      BY <1>1 DEF Depth, Owed, Exits
    <2>2. Pays(critical_section_count + 2, Depth(t) + 2)
      BY <1>2, Enter
    <2> QED BY <2>1, <2>2, Parts DEF Pays
  <1>8. \A u \in Thread :
          /\ st[u] = "FREE" <=> state[u] = "FREE"
          /\ st[u] = "DEATH" <=> state[u] = "DEATH"
          /\ timer'[u] = "wait" => pc'[u] = "wait"
          /\ timer'[u] = "sleep" <=> st[u] = "SLEEPING"
          /\ st[u] = "FREE" => timer'[u] = "none"
    BY <1>1, <1>2, <1>3, Parts
       DEF ThreadInv, TimersOnLiveStacks, goto, OthersTyped
  <1>9. /\ critical_section_count + 1 + 1 \in Nat /\ "wait" \in SwitchLabel
        /\ LeakBound = 0 => ~ints'
    BY <1>2, Parts, Enter DEF SwitchLabel
  <1> HIDE DEF st
  <1> QED
    BY <1>1, <1>2, <1>3, <1>4, <1>5, <1>6, <1>7, <1>8, <1>9, Parts, Resched

\* A wake-up takes the head of w out of the wait queue, whatever the caller
\* does next.
LEMMA TakeWaiter ==
  ASSUME ThreadInv, NEW w \in WaitQueue, wait_list[w] # <<>>,
         NEW error \in Status, NEW t, t = Head(wait_list[w]),
         take_waiter(w, t, error)
  PROVE  /\ t \in Thread /\ state[t] = "BLOCKED"
         /\ wait_list' \in WaitLists /\ wait_count' \in WaitCounts
         /\ blocking_wait_queue' \in [Thread -> WaitQueue \cup {None}]
         /\ wait_queue_block_ret' \in [Thread -> Status]
         /\ Waiting([state EXCEPT ![t] = "READY"], wait_list', wait_count',
                    blocking_wait_queue')
  <1>1. /\ wait_list' = [wait_list EXCEPT ![w] = Tail(@)]
        /\ wait_count' = [wait_count EXCEPT ![w] = @ - 1]
        /\ blocking_wait_queue' = [blocking_wait_queue EXCEPT ![t] = None]
        /\ wait_queue_block_ret' = [wait_queue_block_ret EXCEPT ![t] = error]
    BY DEF take_waiter
  <1>2. /\ t \in Thread /\ state[t] = "BLOCKED"
        /\ wait_list' \in WaitLists
        /\ Waiting([state EXCEPT ![t] = "READY"], wait_list', wait_count',
                   blocking_wait_queue')
    <2> DEFINE rest == Tail(wait_list[w])
    <2>1. /\ state \in [Thread -> State] /\ wait_list \in WaitLists
          /\ wait_count \in WaitCounts
          /\ blocking_wait_queue \in [Thread -> WaitQueue \cup {None}]
          /\ Waiting(state, wait_list, wait_count, blocking_wait_queue)
      BY Parts DEF OthersTyped
    <2>2. wait_list[w] \in Seq(Thread) /\ IsInjective(wait_list[w])
            /\ Range(wait_list[w]) =
                 {u \in Thread : state[u] = "BLOCKED"
                                   /\ blocking_wait_queue[u] = w}
      BY <2>1 DEF Waiting, WaitLists
    <2>3. /\ rest \in Seq(Thread)
          /\ Len(rest) = Len(wait_list[w]) - 1
          /\ t \in Thread /\ t \in Range(wait_list[w])
          /\ Range(rest) = Range(wait_list[w]) \ {t}
          /\ IsInjective(rest)
      BY <2>2, RemoveHead
    <2>4. state[t] = "BLOCKED" /\ blocking_wait_queue[t] = w
      BY <2>2, <2>3
    <2>5. wait_list' = [wait_list EXCEPT ![w] = rest]
      BY <1>1
    <2> HIDE DEF rest
    <2>6. /\ [wait_list EXCEPT ![w] = rest] \in WaitLists
          /\ Waiting([state EXCEPT ![t] = "READY"],
                     [wait_list EXCEPT ![w] = rest],
                     [wait_count EXCEPT ![w] = @ - 1],
                     [blocking_wait_queue EXCEPT ![t] = None])
      BY <2>1, <2>3, <2>4, WaitTake
    <2> QED BY <1>1, <2>3, <2>4, <2>5, <2>6
  <1>3. /\ wait_count' \in WaitCounts
        /\ blocking_wait_queue' \in [Thread -> WaitQueue \cup {None}]
        /\ wait_queue_block_ret' \in [Thread -> Status]
    BY <1>1, <1>2, Parts DEF OthersTyped, WaitCounts
  <1> QED BY <1>2, <1>3

\* wait_queue_wake_one with a switch keeps the invariant.
LEMMA WakeOneRescheduleStep ==
  ASSUME ThreadInv, NEW w \in WaitQueue, NEW error \in Status,
         WaitQueueWakeOne(w, TRUE, error)
  PROVE  ThreadInv' /\ Switched
  <1> DEFINE t  == current_thread
             v  == Head(wait_list[w])
             s1 == [state EXCEPT ![v] = "READY"]
             st == [s1 EXCEPT ![t] = "READY"]
             s2 == [state EXCEPT ![t] = "READY"]
             q1 == insert_in_run_queue_head(run_queue, t, priority[t])
             rq == insert_in_run_queue_head(q1, v, priority[v])
  <1>1. /\ pc[t] = "user" /\ state[t] = "RUNNING" /\ t \in Thread
        /\ timer[t] = "none" /\ t # Boot
    BY Parts, NoTimerInUser DEF WaitQueueWakeOne, Calling, ThreadInv, OnCPU
  <1>2. /\ thread_resched(st, rq, remaining_quantum,
                          critical_section_count + 1)
        /\ goto("wake") /\ EnterMasks /\ wait_list[w] # <<>>
        /\ take_waiter(w, v, error)
        /\ UNCHANGED <<priority, idle_thread, timer, waking>>
    BY DEF WaitQueueWakeOne, wait_queue_wake_one
  <1>3. /\ v \in Thread /\ state[v] = "BLOCKED"
        /\ wait_list' \in WaitLists /\ wait_count' \in WaitCounts
        /\ blocking_wait_queue' \in [Thread -> WaitQueue \cup {None}]
        /\ wait_queue_block_ret' \in [Thread -> Status]
        /\ Waiting(s1, wait_list', wait_count', blocking_wait_queue')
    BY <1>2, TakeWaiter
  <1> HIDE DEF v
  <1>4. /\ st \in [Thread -> State]
        /\ \A u \in Thread : st[u] = IF u \in {t, v} THEN "READY"
                                     ELSE state[u]
        /\ \A u \in Thread : st[u] # "RUNNING"
        /\ st[Boot] = "READY"
    BY <1>1, <1>3, Parts, ThreadAssumption
       DEF State, ThreadInv, OnCPU, BootCanRun
  <1>5. rq \in RunQueues /\ Queued(st, rq, priority')
    <2>1. q1 \in RunQueues /\ Queued(s2, q1, priority)
      BY <1>1, Parts, QueueHead DEF OthersTyped
    <2>2. s2 \in [Thread -> State] /\ s2[v] = "BLOCKED"
            /\ st = [s2 EXCEPT ![v] = "READY"]
      BY <1>1, <1>3, Parts DEF State
    <2> HIDE DEF q1, s2, st
    <2> QED BY <1>2, <1>3, <2>1, <2>2, Parts, QueueHead DEF OthersTyped
  <1>6. Waiting(st, wait_list', wait_count', blocking_wait_queue')
    <2>1. \A u \in Thread : s1[u] = "BLOCKED" <=> st[u] = "BLOCKED"
      BY <1>1, <1>3, <1>4, Parts
    <2> HIDE DEF s1, st
    <2> QED BY <2>1, <1>3, WaitSame
  <1>7. OthersTyped'
    BY <1>2, <1>3, Parts, Enter DEF OthersTyped
  <1>8. Pays(critical_section_count + 1, Owed("wake"))
    BY <1>1, <1>2, Enter DEF Depth, Owed, Exits
  <1>9. \A u \in Thread :
          /\ st[u] = "FREE" <=> state[u] = "FREE"
          /\ st[u] = "DEATH" <=> state[u] = "DEATH"
          /\ timer'[u] = "wait" => pc'[u] = "wait"
          /\ timer'[u] = "sleep" <=> st[u] = "SLEEPING"
          /\ st[u] = "FREE" => timer'[u] = "none"
    BY <1>1, <1>2, <1>3, <1>4, Parts DEF ThreadInv, TimersOnLiveStacks, goto
  <1>10. /\ critical_section_count + 1 \in Nat /\ "wake" \in SwitchLabel
         /\ LeakBound = 0 => ~ints'
         /\ remaining_quantum \in [Thread -> 0..Quantum]
    <2>1. EnterMasks
      BY <1>2
    <2> QED BY <2>1, Parts, Enter DEF SwitchLabel
  <1> HIDE DEF st, rq, s1, q1, s2
  <1> QED
    BY <1>1, <1>2, <1>4, <1>5, <1>6, <1>7, <1>8, <1>9, <1>10, Resched

\* The switch at the end of wait_queue_wake_all keeps the invariant.
LEMMA WakeAllReschedStep ==
  ASSUME ThreadInv, WakeAllEnd, waking.reschedule, waking.ret
  PROVE  ThreadInv' /\ Switched
  <1> DEFINE t == current_thread
  <1>1. /\ pc[t] = "wake_all" /\ wait_list[waking.queue] = <<>>
        /\ thread_resched(state, run_queue, remaining_quantum,
                          critical_section_count)
        /\ goto(waking.then) /\ waking' = NotWaking
        /\ UNCHANGED <<wait_vars, priority, idle_thread, ints, timer>>
    BY DEF WakeAllEnd
  <1>2. state[t] = "READY" /\ t \in Thread /\ waking.then = "wake"
    BY <1>1, Parts DEF ThreadInv, WakingUp
  <1>3. /\ \A u \in Thread : state[u] # "RUNNING"
        /\ state[Boot] = "READY"
    BY <1>2, Parts, ThreadAssumption DEF ThreadInv, OnCPU, BootCanRun
  <1>4. NotWaking \in [queue : WaitQueue \cup {None}, reschedule : BOOLEAN,
                       error : Status, ret : BOOLEAN, then : Label]
          /\ NotWaking.then = "user"
    BY DEF NotWaking, Status, Label
  <1>5. OthersTyped'
    BY <1>1, <1>4, Parts DEF OthersTyped, wait_vars
  <1>6. Pays(critical_section_count, 1)
          /\ (LeakBound = 0 => (ints <=> critical_section_count = 0))
    BY <1>1, <1>2 DEF ThreadInv, CountsCover, Depth, Exits
  <1>7. Pays(critical_section_count, Owed("wake"))
    BY <1>6 DEF Owed, Exits
  <1>8. LeakBound = 0 => ~ints'
    <2>1. LeakBound = 0 => critical_section_count # 0
      BY <1>6 DEF Pays
    <2> QED BY <2>1, <1>1, <1>6
  <1>9. \A u \in Thread :
          /\ timer'[u] = "wait" => pc'[u] = "wait"
          /\ timer'[u] = "sleep" <=> state[u] = "SLEEPING"
          /\ state[u] = "FREE" => timer'[u] = "none"
    BY <1>1, <1>2, Parts DEF ThreadInv, TimersOnLiveStacks, goto
  <1>10. Queued(state, run_queue, priority')
           /\ Waiting(state, wait_list', wait_count', blocking_wait_queue')
           /\ goto("wake") /\ "wake" \in SwitchLabel
    BY <1>1, <1>2, Parts DEF wait_vars, SwitchLabel
  <1> QED
    BY <1>1, <1>2, <1>3, <1>5, <1>7, <1>8, <1>9, <1>10, Parts, Resched

-----------------------------------------------------------------------------
(* Operations that make one thread READY and do not switch.                *)

\* A step that makes t READY and switches nothing keeps the invariant.
LEMMA MadeReady ==
  ASSUME ThreadInv, NEW t \in Thread, state[t] \in {"SLEEPING", "BLOCKED"},
         state' = [state EXCEPT ![t] = "READY"],
         run_queue' = insert_in_run_queue_head(run_queue, t, priority[t]),
         UNCHANGED <<remaining_quantum, saved_critical_section_count,
                     current_thread, critical_section_count, priority,
                     idle_thread, ints, pc>>,
         OthersTyped', WaitQueueExact', TimersOnLiveStacks',
         \A u \in Thread : timer[u] = "none" => timer'[u] = "none",
         WakingUp', waking'.then = waking.then
  PROVE  ThreadInv'
  <1>1. \A u \in Thread : state'[u] = IF u = t THEN "READY" ELSE state[u]
    BY Parts
  <1>2. run_queue' \in RunQueues /\ Queued(state', run_queue', priority)
    <2>1. state[t] # "READY" /\ priority \in [Thread -> Prio]
      BY Parts DEF OthersTyped
    <2> QED BY <2>1, Parts, QueueHead
  <1>3. ThreadTypeOK'
    <2>1. state' \in [Thread -> State]
      BY Parts DEF State
    <2> QED BY <2>1, <1>2, Parts
            DEF ThreadTypeOK, OthersTyped, RunQueues, WaitLists, WaitCounts
  <1>4. RunQueueExact'
    BY <1>2 DEF RunQueueExact
  <1>5. \A u \in Thread : state'[u] = "FREE" => timer'[u] = "none"
    BY <1>1 DEF ThreadInv
  <1>6. OnCPU'
    BY <1>1, Parts DEF ThreadInv, OnCPU
  <1>7. BootCanRun'
    BY <1>1, ThreadAssumption DEF ThreadInv, BootCanRun
  <1>8. CountsCover'
    <2>1. \A u \in Thread : Depth(u)' = Depth(u)
      BY DEF Depth
    <2>2. Depth(current_thread)' = Depth(current_thread)
      BY DEF Depth
    <2>3. \A u \in Thread : state'[u] = "FREE" <=> state[u] = "FREE"
      BY <1>1
    <2> QED BY <2>1, <2>2, <2>3 DEF ThreadInv, CountsCover
  <1>9. Ended'
    BY <1>1 DEF ThreadInv, Ended
  <1> QED BY <1>3, <1>4, <1>5, <1>6, <1>7, <1>8, <1>9 DEF ThreadInv

\* The end of a sleep keeps the invariant.
LEMMA SleepTimerStep ==
  ASSUME ThreadInv, NEW t \in Thread, SleepTimer(t)
  PROVE  ThreadInv'
  <1>1. /\ pc[current_thread] = "irq" /\ timer[t] = "sleep"
        /\ timer' = [timer EXCEPT ![t] = "none"]
        /\ state' = [state EXCEPT ![t] = "READY"]
        /\ run_queue' = insert_in_run_queue_head(run_queue, t, priority[t])
        /\ UNCHANGED <<remaining_quantum, saved_critical_section_count,
                       current_thread, critical_section_count, wait_vars,
                       priority, idle_thread, ints, pc, waking>>
    BY DEF SleepTimer
  <1>2. state[t] = "SLEEPING"
    BY <1>1 DEF ThreadInv, TimersOnLiveStacks
  <1>3. OthersTyped'
    BY <1>1, Parts DEF OthersTyped, wait_vars
  <1>4. WaitQueueExact'
    <2>1. \A u \in Thread : state[u] = "BLOCKED" <=> state'[u] = "BLOCKED"
      BY <1>1, <1>2, Parts
    <2> QED BY <1>1, <2>1, Parts, WaitSame DEF WaitQueueExact, wait_vars
  <1>5. TimersOnLiveStacks'
    BY <1>1, Parts DEF ThreadInv, TimersOnLiveStacks, OthersTyped
  <1>6. \A u \in Thread : timer[u] = "none" => timer'[u] = "none"
    BY <1>1, Parts DEF OthersTyped
  <1>7. WakingUp'
    BY <1>1, Parts DEF ThreadInv, WakingUp
  <1> QED
    BY <1>1, <1>2, <1>3, <1>4, <1>5, <1>6, <1>7, MadeReady DEF wait_vars

\* A timeout keeps the invariant, late or in time.
LEMMA WaitTimerStep ==
  ASSUME ThreadInv, NEW t \in Thread, WaitTimer(t)
  PROVE  ThreadInv'
  <1>1. /\ pc[current_thread] = "irq" /\ timer[t] = "wait"
        /\ timer' = [timer EXCEPT ![t] = "none"]
        /\ UNCHANGED <<remaining_quantum, saved_critical_section_count,
                       current_thread, priority, idle_thread, ints, pc,
                       waking>>
    BY DEF WaitTimer
  <1>2. \A u \in Thread : timer[u] = "none" => timer'[u] = "none"
    BY <1>1, Parts DEF OthersTyped
  <1>3. CASE state[t] = "BLOCKED"
    <2> DEFINE w == blocking_wait_queue[t]
    <2>1. /\ wait_list' = [wait_list EXCEPT ![w] = list_delete(@, t)]
          /\ wait_count' = [wait_count EXCEPT ![w] = @ - 1]
          /\ blocking_wait_queue' = [blocking_wait_queue EXCEPT ![t] = None]
          /\ wait_queue_block_ret' =
               [wait_queue_block_ret EXCEPT ![t] = "ERR_TIMED_OUT"]
          /\ state' = [state EXCEPT ![t] = "READY"]
          /\ run_queue' = insert_in_run_queue_head(run_queue, t, priority[t])
          /\ UNCHANGED critical_section_count
      BY <1>3 DEF WaitTimer, unblock
    <2>2. wait_list' \in WaitLists
            /\ Waiting(state', wait_list', wait_count', blocking_wait_queue')
      <3>1. /\ [wait_list EXCEPT ![w] = list_delete(@, t)] \in WaitLists
            /\ Waiting([state EXCEPT ![t] = "READY"],
                       [wait_list EXCEPT ![w] = list_delete(@, t)],
                       [wait_count EXCEPT ![w] = @ - 1],
                       [blocking_wait_queue EXCEPT ![t] = None])
        <4>1. /\ state \in [Thread -> State] /\ wait_list \in WaitLists
              /\ wait_count \in WaitCounts
              /\ blocking_wait_queue \in [Thread -> WaitQueue \cup {None}]
              /\ Waiting(state, wait_list, wait_count, blocking_wait_queue)
          BY Parts DEF OthersTyped
        <4> HIDE DEF w
        <4>2. w = blocking_wait_queue[t]
          BY DEF w
        <4> QED BY <1>3, <4>1, <4>2, WaitTakeOut
      <3> QED BY <2>1, <3>1
    <2>3. OthersTyped'
      <3>1. /\ wait_count' \in WaitCounts
            /\ blocking_wait_queue' \in [Thread -> WaitQueue \cup {None}]
            /\ wait_queue_block_ret' \in [Thread -> Status]
            /\ timer' \in [Thread -> {"none", "sleep", "wait"}]
        <4>1. w \in WaitQueue
          BY <1>3, Parts DEF Waiting
        <4> HIDE DEF w
        <4> QED BY <4>1, <1>1, <2>1, Parts DEF OthersTyped, WaitCounts, Status
      <3> QED BY <3>1, <1>1, <2>2, Parts DEF OthersTyped
    <2>4. WaitQueueExact'
      BY <2>2 DEF WaitQueueExact
    <2>5. TimersOnLiveStacks'
      BY <1>1, <1>3, <2>1, Parts DEF ThreadInv, TimersOnLiveStacks, OthersTyped
    <2>6. WakingUp'
      <3>1. pc'[current_thread'] # "wake_all" /\ \A u \in Thread :
              pc'[u] = "wake_all" => u = current_thread'
        BY <1>1 DEF ThreadInv, WakingUp
      <3> QED BY <1>1, <3>1 DEF ThreadInv, WakingUp
    <2> HIDE DEF w
    <2> QED BY <1>1, <1>2, <1>3, <2>1, <2>3, <2>4, <2>5, <2>6, MadeReady
  <1>4. CASE state[t] # "BLOCKED"
    <2>1. /\ critical_section_count <= LeakBound
          /\ critical_section_count' = critical_section_count + 1
          /\ UNCHANGED <<state, run_queue, wait_vars>>
      BY <1>4 DEF WaitTimer, not_blocked
    <2>2. timer' \in [Thread -> {"none", "sleep", "wait"}]
      BY <1>1, Parts DEF OthersTyped
    <2>3. ThreadTypeOK'
      BY <1>1, <2>1, <2>2, Parts
         DEF ThreadTypeOK, OthersTyped, RunQueues, WaitLists, WaitCounts,
             wait_vars
    <2>4. RunQueueExact' /\ WaitQueueExact'
      BY <1>1, <2>1, Parts DEF RunQueueExact, WaitQueueExact, wait_vars
    <2>5. TimersOnLiveStacks'
      <3>1. state[t] # "SLEEPING"
        BY <1>1 DEF ThreadInv, TimersOnLiveStacks
      <3> QED BY <3>1, <1>1, <2>1, Parts
              DEF ThreadInv, TimersOnLiveStacks, OthersTyped
    <2>6. \A u \in Thread : state'[u] = "FREE" => timer'[u] = "none"
      BY <1>2, <2>1 DEF ThreadInv
    <2>7. OnCPU' /\ WakingUp' /\ Ended' /\ BootCanRun'
      BY <1>1, <2>1
         DEF ThreadInv, OnCPU, WakingUp, Ended, BootCanRun, wait_vars
    <2>8. CountsCover'
      <3>1. \A u \in Thread : Depth(u)' = Depth(u)
        BY <1>1 DEF Depth
      <3>2. Depth(current_thread)' = 1 /\ Depth(current_thread) = 1
        BY <1>1 DEF Depth, Exits
      <3>3. critical_section_count \in Nat /\ LeakBound \in Nat
              /\ Pays(critical_section_count, 1)
        BY <3>2, Parts, ThreadAssumption DEF ThreadInv, CountsCover
      <3>4. LeakBound # 0 /\ Pays(critical_section_count', 1)
        BY <3>3, <2>1 DEF Pays
      <3> QED BY <1>1, <2>1, <3>1, <3>2, <3>4 DEF ThreadInv, CountsCover
    <2> QED BY <2>3, <2>4, <2>5, <2>6, <2>7, <2>8 DEF ThreadInv
  <1> QED BY <1>3, <1>4

\* wait_queue_wake_one without rescheduling, by a thread or by a handler.
LEMMA WakeOneQuiet ==
  ASSUME ThreadInv, NEW w \in WaitQueue, wait_list[w] # <<>>,
         NEW error \in Status, pc[current_thread] # "wake_all",
         wait_queue_wake_one(w, FALSE, error, critical_section_count),
         UNCHANGED <<priority, idle_thread, ints, timer, pc, waking>>
  PROVE  ThreadInv'
  <1> DEFINE t == Head(wait_list[w])
  <1>1. /\ take_waiter(w, t, error)
        /\ state' = [state EXCEPT ![t] = "READY"]
        /\ run_queue' = insert_in_run_queue_head(run_queue, t, priority[t])
        /\ critical_section_count' = critical_section_count
        /\ UNCHANGED <<remaining_quantum, saved_critical_section_count,
                       current_thread>>
    BY DEF wait_queue_wake_one
  <1>2. /\ t \in Thread /\ state[t] = "BLOCKED"
        /\ wait_list' \in WaitLists /\ wait_count' \in WaitCounts
        /\ blocking_wait_queue' \in [Thread -> WaitQueue \cup {None}]
        /\ wait_queue_block_ret' \in [Thread -> Status]
        /\ Waiting([state EXCEPT ![t] = "READY"], wait_list', wait_count',
                   blocking_wait_queue')
    BY <1>1, TakeWaiter
  <1> HIDE DEF t
  <1>3. OthersTyped'
    BY <1>2, Parts DEF OthersTyped
  <1>4. WaitQueueExact'
    BY <1>1, <1>2 DEF WaitQueueExact
  <1>5. TimersOnLiveStacks'
    BY <1>1, <1>2, Parts DEF ThreadInv, TimersOnLiveStacks
  <1>6. WakingUp'
    BY <1>1 DEF ThreadInv, WakingUp
  <1> QED BY <1>1, <1>2, <1>3, <1>4, <1>5, <1>6, MadeReady

\* One turn of the loop of wait_queue_wake_all.
LEMMA WakeAllStepStep ==
  ASSUME ThreadInv, WakeAllStep
  PROVE  ThreadInv'
  <1> DEFINE w == waking.queue
             t == Head(wait_list[w])
  <1>1. /\ pc[current_thread] = "wake_all"
        /\ wait_list[w] # <<>>
        /\ take_waiter(w, t, waking.error)
        /\ state' = [state EXCEPT ![t] = "READY"]
        /\ run_queue' = insert_in_run_queue_head(run_queue, t, priority[t])
        /\ waking' = [waking EXCEPT !.ret = TRUE]
        /\ UNCHANGED <<remaining_quantum, saved_critical_section_count,
                       current_thread, critical_section_count, priority,
                       idle_thread, ints, timer, pc>>
    BY DEF WakeAllStep
  <1>2. w \in WaitQueue /\ waking.error \in Status
    BY <1>1, Parts DEF ThreadInv, WakingUp, OthersTyped
  <1>3. /\ t \in Thread /\ state[t] = "BLOCKED"
        /\ wait_list' \in WaitLists /\ wait_count' \in WaitCounts
        /\ blocking_wait_queue' \in [Thread -> WaitQueue \cup {None}]
        /\ wait_queue_block_ret' \in [Thread -> Status]
        /\ Waiting([state EXCEPT ![t] = "READY"], wait_list', wait_count',
                   blocking_wait_queue')
    <2> HIDE DEF w
    <2> QED BY <1>1, <1>2, TakeWaiter
  <1>4. /\ waking'.queue = w /\ waking'.then = waking.then /\ waking'.ret
        /\ waking'.reschedule = waking.reschedule
        /\ waking' \in [queue : WaitQueue \cup {None}, reschedule : BOOLEAN,
                        error : Status, ret : BOOLEAN, then : Label]
    BY <1>1, Parts DEF OthersTyped
  <1>5. OthersTyped'
    <2> HIDE DEF w, t
    <2> QED BY <1>1, <1>3, <1>4, Parts DEF OthersTyped
  <1>6. /\ waking.then # "user"
        /\ waking.then = "exit" =>
             ~waking.reschedule /\ state[current_thread] = "DEATH"
        /\ waking.then = "wake" =>
             state[current_thread] =
               IF waking.reschedule THEN "READY" ELSE "RUNNING"
    BY <1>1 DEF ThreadInv, WakingUp
  <1> HIDE DEF w, t
  <1>7. WaitQueueExact'
    BY <1>1, <1>3 DEF WaitQueueExact
  <1>8. TimersOnLiveStacks'
    BY <1>1, <1>3, Parts DEF ThreadInv, TimersOnLiveStacks
  <1>9. WakingUp'
    <2>1. /\ waking.then = "exit" => state'[current_thread] = "DEATH"
          /\ waking.then = "wake" =>
               state'[current_thread] =
                 IF waking.reschedule THEN "READY" ELSE "RUNNING"
      BY <1>1, <1>3, <1>6, Parts
    <2> QED BY <2>1, <1>1, <1>2, <1>4, <1>6 DEF ThreadInv, WakingUp
  <1> QED BY <1>1, <1>3, <1>4, <1>5, <1>7, <1>8, <1>9, MadeReady

-----------------------------------------------------------------------------
(* Operations that only move the thread that runs.                         *)

\* Whatever the running thread does to its own pc and count leaves what the
\* invariant says of the counts of the others.
LEMMA OthersCovered ==
  ASSUME ThreadInv, NEW label \in Label, pc' = [pc EXCEPT ![current_thread] = label],
         UNCHANGED <<saved_critical_section_count, current_thread>>,
         \A u \in Thread : state'[u] = "FREE" <=> state[u] = "FREE",
         Pays(critical_section_count', Depth(current_thread)'),
         LeakBound = 0 => (ints' <=> critical_section_count' = 0)
  PROVE  CountsCover'
  <1>1. ASSUME NEW u \in Thread \ {current_thread}
        PROVE  /\ pc'[u] # "user"
               /\ state'[u] # "FREE" =>
                    Pays(saved_critical_section_count[u], Depth(u)')
    <2>1. pc'[u] = pc[u] /\ pc[u] # "wake_all"
      BY <1>1, Parts DEF ThreadInv, WakingUp
    <2>2. Depth(u)' = Depth(u)
      BY <2>1 DEF Depth
    <2> QED BY <2>1, <2>2 DEF ThreadInv, CountsCover
  <1> QED BY <1>1 DEF CountsCover

\* Nothing a running thread does outside of thread_exit ends a thread.
LEMMA EndedKept ==
  ASSUME ThreadInv, NEW label \in Label \ {"exit"},
         pc' = [pc EXCEPT ![current_thread] = label],
         state[current_thread] = "RUNNING",
         \A u \in Thread : /\ state'[u] = "FREE" <=> state[u] = "FREE"
                           /\ state'[u] = "DEATH" <=> state[u] = "DEATH"
  PROVE  Ended'
  <1>1. ASSUME NEW u \in Thread
        PROVE  /\ pc'[u] = "exit" => state'[u] \in {"DEATH", "FREE"}
               /\ state'[u] = "DEATH" => pc'[u] = "exit"
    <2>1. CASE u = current_thread
      BY <2>1, Parts
    <2>2. CASE u # current_thread
      <3>1. pc'[u] = pc[u] /\ pc[u] # "wake_all"
        BY <2>2, Parts DEF ThreadInv, WakingUp
      <3> QED BY <3>1 DEF ThreadInv, Ended
    <2> QED BY <2>1, <2>2
  <1> QED BY <1>1 DEF Ended

\* The end of an operation, cancelling of a wait's timer or not.
LEMMA UnwindStep ==
  ASSUME ThreadInv, NEW label, unwind(label),
         label \in {"new", "yield", "sleep", "wake", "resume", "boot_resume",
                    "preempt", "wait"},
         (timer' = timer /\ label # "wait")
           \/ timer' = [timer EXCEPT ![current_thread] = "none"],
         UNCHANGED wait_vars
  PROVE  ThreadInv'
  <1> DEFINE t    == current_thread
             next == IF label = "boot_resume" THEN "boot" ELSE "user"
  <1>1. /\ pc[t] = label
        /\ critical_section_count' = critical_section_count - Exits(label)
        /\ ints' = (ints \/ critical_section_count = Exits(label)
                         \/ label = "preempt")
        /\ pc' = [pc EXCEPT ![t] = next]
        /\ UNCHANGED <<state, remaining_quantum, saved_critical_section_count,
                       run_queue, current_thread, priority, idle_thread,
                       waking>>
    BY DEF unwind, goto
  <1>2. t \in Thread /\ state[t] = "RUNNING" /\ next \in Label
    BY <1>1, Parts DEF ThreadInv, OnCPU, Label
  <1>3. /\ Exits(label) \in {1, 2}
        /\ Depth(t) = IF label = "boot_resume" THEN 3 ELSE Exits(label)
        /\ Depth(t)' = IF label = "boot_resume" THEN 1 ELSE 0
        /\ label = "boot_resume" => Exits(label) = 2
        /\ label = "preempt" => Exits(label) = 2
    <2>1. pc'[t] = next
      BY <1>1, Parts
    <2> QED BY <1>1, <2>1 DEF Depth, Exits
  <1>4. /\ Pays(critical_section_count, Depth(t))
        /\ critical_section_count \in Nat
        /\ LeakBound = 0 => (ints <=> critical_section_count = 0)
        /\ ints \in BOOLEAN
    BY Parts DEF ThreadInv, CountsCover, OthersTyped
  <1>5. critical_section_count' \in Nat
          /\ Pays(critical_section_count', Depth(t)')
    BY <1>1, <1>3, <1>4 DEF Pays
  <1>6. LeakBound = 0 => (ints' <=> critical_section_count' = 0)
    <2>1. CASE label = "boot_resume"
      <3>1. LeakBound = 0 => /\ critical_section_count # 0
                             /\ critical_section_count # Exits(label)
                             /\ critical_section_count' # 0
        BY <2>1, <1>1, <1>3, <1>4 DEF Pays
      <3> QED BY <2>1, <3>1, <1>1, <1>4
    <2>2. CASE label # "boot_resume"
      <3>1. LeakBound = 0 => /\ critical_section_count = Exits(label)
                             /\ critical_section_count' = 0
        BY <2>2, <1>1, <1>3, <1>4 DEF Pays
      <3> QED BY <3>1, <1>1
    <2> QED BY <2>1, <2>2
  <1>7. timer' \in [Thread -> {"none", "sleep", "wait"}]
          /\ \A u \in Thread : timer[u] = "none" => timer'[u] = "none"
    BY Parts DEF OthersTyped
  <1>8. ints' \in BOOLEAN
    BY <1>1
  <1>9. ThreadTypeOK'
    <2>1. pc' \in [Thread -> Label]
      BY <1>1, <1>2, Parts
    <2> HIDE DEF next
    <2> QED BY <2>1, <1>1, <1>5, <1>7, <1>8, Parts
            DEF ThreadTypeOK, OthersTyped, RunQueues, WaitLists, WaitCounts,
                wait_vars
  <1>10. RunQueueExact' /\ WaitQueueExact'
    BY <1>1, Parts DEF RunQueueExact, WaitQueueExact, wait_vars
  <1>11. TimersOnLiveStacks'
    <2>1. ASSUME NEW u \in Thread
          PROVE  /\ timer'[u] = "wait" => pc'[u] = "wait"
                 /\ timer'[u] = "sleep" <=> state[u] = "SLEEPING"
      <3>1. CASE u = t
        <4>1. timer[t] # "sleep"
          BY <1>2 DEF ThreadInv, TimersOnLiveStacks
        <4>2. timer'[t] = "none"
          BY <1>1, <1>2, <1>7, <4>1, Parts
             DEF ThreadInv, TimersOnLiveStacks, OthersTyped
        <4> QED BY <3>1, <1>2, <4>2
      <3>2. CASE u # t
        BY <3>2, <1>1, Parts DEF ThreadInv, TimersOnLiveStacks, OthersTyped
      <3> QED BY <3>1, <3>2
    <2> QED BY <2>1, <1>1 DEF TimersOnLiveStacks
  <1>12. \A u \in Thread : state'[u] = "FREE" => timer'[u] = "none"
    BY <1>1, <1>7 DEF ThreadInv
  <1>13. OnCPU' /\ BootCanRun'
    BY <1>1, <1>2 DEF ThreadInv, OnCPU, BootCanRun
  <1>14. WakingUp'
    <2>1. \A u \in Thread : pc'[u] # "wake_all"
      BY <1>1, <1>2, Parts DEF ThreadInv, WakingUp
    <2> QED BY <2>1, <1>1, <1>2 DEF ThreadInv, WakingUp
  <1>15. CountsCover'
    <2>1. Depth(current_thread)' = Depth(t)'
      BY DEF Depth
    <2> HIDE DEF next
    <2> QED BY <2>1, <1>1, <1>2, <1>5, <1>6, OthersCovered
  <1>16. Ended'
    <2>1. next # "exit"
      OBVIOUS
    <2> HIDE DEF next
    <2> QED BY <2>1, <1>1, <1>2, EndedKept
  <1> QED
    BY <1>9, <1>10, <1>11, <1>12, <1>13, <1>14, <1>15, <1>16 DEF ThreadInv

\* The end of kmain's critical section keeps the invariant.
LEMMA BootDoneStep ==
  ASSUME ThreadInv, BootDone
  PROVE  ThreadInv'
  <1> DEFINE t == current_thread
  <1>1. /\ pc[t] = "boot"
        /\ critical_section_count' = critical_section_count - 1
        /\ ints' = (critical_section_count = 1)
        /\ pc' = [pc EXCEPT ![t] = "user"]
        /\ UNCHANGED <<state, remaining_quantum, saved_critical_section_count,
                       run_queue, current_thread, wait_vars, priority,
                       idle_thread, timer, waking>>
    BY DEF BootDone, goto
  <1>2. t \in Thread /\ state[t] = "RUNNING" /\ timer[t] = "none"
    BY <1>1, Parts, NoTimerInUser DEF ThreadInv, OnCPU
  <1>3. Depth(t) = 1 /\ Depth(current_thread)' = 0
    <2>1. pc'[t] = "user"
      BY <1>1, <1>2, Parts
    <2> QED BY <1>1, <2>1 DEF Depth, Exits
  <1>4. /\ critical_section_count' \in Nat
        /\ Pays(critical_section_count', Depth(current_thread)')
        /\ LeakBound = 0 => critical_section_count = 1
        /\ LeakBound = 0 => critical_section_count' = 0
    BY <1>1, <1>3, Parts DEF ThreadInv, CountsCover, Pays
  <1>5. ints' \in BOOLEAN
          /\ (LeakBound = 0 => (ints' <=> critical_section_count' = 0))
    BY <1>1, <1>4
  <1>6. ThreadTypeOK'
    <2>1. pc' \in [Thread -> Label]
      BY <1>1, <1>2, Parts DEF Label
    <2> QED BY <2>1, <1>1, <1>4, <1>5, Parts
            DEF ThreadTypeOK, OthersTyped, RunQueues, WaitLists, WaitCounts,
                wait_vars
  <1>7. RunQueueExact' /\ WaitQueueExact'
    BY <1>1, Parts DEF RunQueueExact, WaitQueueExact, wait_vars
  <1>8. TimersOnLiveStacks'
    BY <1>1, <1>2, Parts DEF ThreadInv, TimersOnLiveStacks
  <1>9. \A u \in Thread : state'[u] = "FREE" => timer'[u] = "none"
    BY <1>1 DEF ThreadInv
  <1>10. OnCPU' /\ BootCanRun'
    BY <1>1, <1>2 DEF ThreadInv, OnCPU, BootCanRun
  <1>11. WakingUp'
    <2>1. \A u \in Thread : pc'[u] # "wake_all"
      BY <1>1, <1>2, Parts DEF ThreadInv, WakingUp
    <2> QED BY <2>1, <1>1, <1>2 DEF ThreadInv, WakingUp
  <1>12. CountsCover'
    <2>1. "user" \in Label
      BY DEF Label
    <2> QED BY <2>1, <1>1, <1>4, <1>5, OthersCovered
  <1>13. Ended'
    BY <1>1, <1>2, EndedKept DEF Label
  <1> QED BY <1>6, <1>7, <1>8, <1>9, <1>10, <1>11, <1>12, <1>13 DEF ThreadInv

\* thread_create keeps the invariant.
LEMMA CreateStep ==
  ASSUME ThreadInv, NEW t \in Thread, NEW prio \in Prio, ThreadCreate(t, prio)
  PROVE  ThreadInv'
  <1>1. /\ pc[current_thread] \in {"user", "boot"}
        /\ state[t] = "FREE"
        /\ state' = [state EXCEPT ![t] = "SUSPENDED"]
        /\ priority' = [priority EXCEPT ![t] = prio]
        /\ remaining_quantum' = [remaining_quantum EXCEPT ![t] = 0]
        /\ saved_critical_section_count' =
             [saved_critical_section_count EXCEPT ![t] = 1]
        /\ blocking_wait_queue' = [blocking_wait_queue EXCEPT ![t] = None]
        /\ wait_queue_block_ret' =
             [wait_queue_block_ret EXCEPT ![t] = "NO_ERROR"]
        /\ pc' = [pc EXCEPT ![t] = "new"]
        /\ UNCHANGED <<run_queue, current_thread, critical_section_count,
                       wait_list, wait_count, idle_thread, ints, timer,
                       waking>>
    BY DEF ThreadCreate, Calling
  <1>2. /\ state[current_thread] = "RUNNING" /\ t # current_thread
        /\ timer[t] = "none" /\ pc[t] # "wake_all"
    BY <1>1, Parts DEF ThreadInv, OnCPU, WakingUp
  <1>3. \A u \in Thread : state'[u] = IF u = t THEN "SUSPENDED" ELSE state[u]
    BY <1>1, Parts
  <1>4. ThreadTypeOK'
    <2>1. /\ state' \in [Thread -> State]
          /\ pc' \in [Thread -> Label]
          /\ priority' \in [Thread -> Prio]
          /\ remaining_quantum' \in [Thread -> 0..Quantum]
          /\ saved_critical_section_count' \in [Thread -> Nat]
      BY <1>1, Parts, ThreadAssumption DEF State, Label, OthersTyped
    <2>2. /\ blocking_wait_queue' \in [Thread -> WaitQueue \cup {None}]
          /\ wait_queue_block_ret' \in [Thread -> Status]
      BY <1>1, Parts DEF OthersTyped, Status
    <2> QED BY <2>1, <2>2, <1>1, Parts
            DEF ThreadTypeOK, OthersTyped, RunQueues, WaitLists, WaitCounts
  <1>5. RunQueueExact'
    <2>1. \A u \in Thread : state[u] = "READY" => priority[u] = priority'[u]
      BY <1>1, Parts DEF OthersTyped
    <2>2. \A u \in Thread : state[u] = "READY" <=> state'[u] = "READY"
      BY <1>1, <1>3
    <2>3. Queued(state', run_queue, priority')
      BY <2>1, <2>2, Parts, QueueSame
    <2> QED BY <2>3, <1>1 DEF RunQueueExact
  <1>6. WaitQueueExact'
    <2>1. \A u \in Thread : state[u] = "BLOCKED" =>
            u # t /\ blocking_wait_queue'[u] = blocking_wait_queue[u]
      BY <1>1, Parts DEF OthersTyped
    <2>2. \A u \in Thread : state[u] = "BLOCKED" <=> state'[u] = "BLOCKED"
      BY <1>1, <1>3
    <2> QED BY <2>1, <2>2, <1>1, Parts DEF WaitQueueExact, Waiting
  <1>7. TimersOnLiveStacks'
    BY <1>1, <1>2, <1>3, Parts DEF ThreadInv, TimersOnLiveStacks
  <1>8. \A u \in Thread : state'[u] = "FREE" => timer'[u] = "none"
    BY <1>1, <1>3 DEF ThreadInv
  <1>9. OnCPU'
    BY <1>1, <1>2, <1>3, Parts DEF ThreadInv, OnCPU
  <1>10. BootCanRun'
    BY <1>1, <1>3, ThreadAssumption DEF ThreadInv, BootCanRun
  <1>11. WakingUp'
    <2>1. pc'[current_thread] # "wake_all"
            /\ \A u \in Thread : pc'[u] = "wake_all" => u = current_thread
      BY <1>1, <1>2, Parts DEF ThreadInv, WakingUp
    <2> QED BY <2>1, <1>1 DEF ThreadInv, WakingUp
  <1>12. CountsCover'
    <2>1. pc'[current_thread] = pc[current_thread]
      BY <1>1, <1>2, Parts
    <2>2. Depth(current_thread)' = Depth(current_thread)
      BY <2>1, <1>1 DEF Depth
    <2>3. ASSUME NEW u \in Thread \ {current_thread}
          PROVE  /\ pc'[u] # "user"
                 /\ state'[u] # "FREE" =>
                      Pays(saved_critical_section_count'[u], Depth(u)')
      <3>1. CASE u = t
        <4>1. pc'[u] = "new" /\ saved_critical_section_count'[u] = 1
          BY <3>1, <1>1, Parts
        <4>2. Depth(u)' = 1
          BY <4>1 DEF Depth, Exits
        <4> QED BY <4>1, <4>2 DEF Pays
      <3>2. CASE u # t
        <4>1. pc'[u] = pc[u] /\ state'[u] = state[u]
                /\ saved_critical_section_count'[u] =
                     saved_critical_section_count[u]
          BY <3>2, <1>1, <1>3, Parts
        <4>2. Depth(u)' = Depth(u)
          BY <4>1, <1>1 DEF Depth
        <4>3. /\ pc[u] # "user"
              /\ state[u] # "FREE" =>
                   Pays(saved_critical_section_count[u], Depth(u))
          BY DEF ThreadInv, CountsCover
        <4> QED BY <4>1, <4>2, <4>3
      <3> QED BY <3>1, <3>2
    <2> QED BY <2>2, <2>3, <1>1 DEF ThreadInv, CountsCover
  <1>13. Ended'
    BY <1>1, <1>3, Parts DEF ThreadInv, Ended
  <1> QED BY <1>4, <1>5, <1>6, <1>7, <1>8, <1>9, <1>10, <1>11, <1>12, <1>13
          DEF ThreadInv

\* thread_set_priority keeps the invariant.
LEMMA SetPriorityStep ==
  ASSUME ThreadInv, NEW prio \in Prio, ThreadSetPriority(prio)
  PROVE  ThreadInv'
  <1>1. /\ pc[current_thread] = "user"
        /\ priority' = [priority EXCEPT ![current_thread] = prio]
        /\ UNCHANGED <<sched_vars, wait_vars, idle_thread, ints, timer, pc,
                       waking>>
    BY DEF ThreadSetPriority, Calling
  <1>2. state[current_thread] = "RUNNING"
    BY <1>1 DEF ThreadInv, OnCPU
  <1>3. ThreadTypeOK'
    <2>1. priority' \in [Thread -> Prio]
      BY <1>1, Parts DEF OthersTyped
    <2> QED BY <2>1, <1>1 DEF ThreadInv, ThreadTypeOK, sched_vars, wait_vars
  <1>4. RunQueueExact'
    <2>1. \A u \in Thread : state[u] = "READY" => priority[u] = priority'[u]
      BY <1>1, <1>2, Parts DEF OthersTyped
    <2>2. Queued(state, run_queue, priority')
      BY <2>1, Parts, QueueSame
    <2> QED BY <1>1, <2>2 DEF RunQueueExact, sched_vars
  <1>5. WaitQueueExact' /\ TimersOnLiveStacks'
    BY <1>1 DEF ThreadInv, WaitQueueExact, TimersOnLiveStacks, sched_vars,
                wait_vars
  <1>6. \A u \in Thread : state'[u] = "FREE" => timer'[u] = "none"
    BY <1>1 DEF ThreadInv, sched_vars
  <1>7. OnCPU' /\ WakingUp' /\ Ended' /\ BootCanRun'
    BY <1>1 DEF ThreadInv, OnCPU, WakingUp, Ended, BootCanRun, sched_vars,
                wait_vars
  <1>8. CountsCover'
    <2>1. \A u \in Thread : Depth(u)' = Depth(u)
      BY <1>1 DEF Depth
    <2>2. Depth(current_thread)' = Depth(current_thread)
      BY <1>1 DEF Depth, sched_vars
    <2> QED BY <2>1, <2>2, <1>1 DEF ThreadInv, CountsCover, sched_vars
  <1> QED BY <1>3, <1>4, <1>5, <1>6, <1>7, <1>8 DEF ThreadInv

\* The entry of an interrupt keeps the invariant.
LEMMA IrqEnterStep ==
  ASSUME ThreadInv, NEW source \in {"irq", "device"}, IrqEnter(source)
  PROVE  ThreadInv'
  <1> DEFINE t == current_thread
  <1>1. /\ ints /\ pc[t] = "user" /\ ints' = FALSE
        /\ critical_section_count' = critical_section_count + 1
        /\ pc' = [pc EXCEPT ![t] = source]
        /\ UNCHANGED <<state, remaining_quantum, saved_critical_section_count,
                       run_queue, current_thread, wait_vars, priority,
                       idle_thread, timer, waking>>
    BY DEF IrqEnter, goto
  <1>2. t \in Thread /\ state[t] = "RUNNING" /\ timer[t] = "none"
    BY <1>1, Parts, NoTimerInUser DEF ThreadInv, OnCPU
  <1>3. Depth(t) = 0 /\ Depth(current_thread)' = 1 /\ source \in Label
    <2>1. pc'[t] = source
      BY <1>1, <1>2, Parts
    <2> QED BY <1>1, <2>1 DEF Depth, Exits, Label
  <1>4. /\ critical_section_count' \in Nat /\ critical_section_count' # 0
        /\ Pays(critical_section_count', Depth(current_thread)')
    BY <1>1, <1>3, Parts DEF ThreadInv, CountsCover, Pays
  <1>5. ints' \in BOOLEAN
          /\ (LeakBound = 0 => (ints' <=> critical_section_count' = 0))
    BY <1>1, <1>4
  <1>6. ThreadTypeOK'
    <2>1. pc' \in [Thread -> Label]
      BY <1>1, <1>2, <1>3, Parts
    <2> QED BY <2>1, <1>1, <1>4, <1>5, Parts
            DEF ThreadTypeOK, OthersTyped, RunQueues, WaitLists, WaitCounts,
                wait_vars
  <1>7. RunQueueExact' /\ WaitQueueExact'
    BY <1>1, Parts DEF RunQueueExact, WaitQueueExact, wait_vars
  <1>8. TimersOnLiveStacks'
    BY <1>1, <1>2, Parts DEF ThreadInv, TimersOnLiveStacks
  <1>9. \A u \in Thread : state'[u] = "FREE" => timer'[u] = "none"
    BY <1>1 DEF ThreadInv
  <1>10. OnCPU' /\ BootCanRun'
    BY <1>1, <1>2 DEF ThreadInv, OnCPU, BootCanRun
  <1>11. WakingUp'
    <2>1. \A u \in Thread : pc'[u] # "wake_all"
      BY <1>1, <1>2, Parts DEF ThreadInv, WakingUp
    <2> QED BY <2>1, <1>1, <1>2 DEF ThreadInv, WakingUp
  <1>12. CountsCover'
    BY <1>1, <1>3, <1>4, <1>5, OthersCovered
  <1>13. Ended'
    BY <1>1, <1>2, <1>3, EndedKept
  <1> QED BY <1>6, <1>7, <1>8, <1>9, <1>10, <1>11, <1>12, <1>13 DEF ThreadInv

\* The start of wait_queue_wake_all keeps the invariant.
LEMMA WakeAllBeginStep ==
  ASSUME ThreadInv, NEW w \in WaitQueue, NEW reschedule \in BOOLEAN,
         NEW error \in Status, WaitQueueWakeAll(w, reschedule, error)
  PROVE  ThreadInv'
  <1> DEFINE t     == current_thread
             stick == reschedule /\ wait_count[w] > 0
             st    == [state EXCEPT ![t] = "READY"]
             rq    == insert_in_run_queue_head(run_queue, t, priority[t])
  <1>1. /\ pc[t] = "user" /\ t # Boot /\ EnterMasks
        /\ waking' = [queue |-> w, reschedule |-> reschedule, error |-> error,
                      ret |-> FALSE, then |-> "wake"]
        /\ state' = IF stick THEN st ELSE state
        /\ run_queue' = IF stick THEN rq ELSE run_queue
        /\ critical_section_count' = critical_section_count + 1
        /\ pc' = [pc EXCEPT ![t] = "wake_all"]
        /\ UNCHANGED <<remaining_quantum, saved_critical_section_count,
                       current_thread, wait_vars, timer, priority,
                       idle_thread>>
    BY DEF WaitQueueWakeAll, Calling, wake_all_begin, goto
  <1>2. t \in Thread /\ state[t] = "RUNNING" /\ timer[t] = "none"
    BY <1>1, Parts, NoTimerInUser DEF ThreadInv, OnCPU
  <1>3. stick <=> reschedule /\ wait_list[w] # <<>>
    <2>1. wait_count[w] = Len(wait_list[w]) /\ wait_list[w] \in Seq(Thread)
      BY Parts DEF Waiting, OthersTyped, WaitLists
    <2> QED BY <2>1
  <1>4. \A u \in Thread : state'[u] = IF u = t /\ stick THEN "READY"
                                      ELSE state[u]
    BY <1>1, Parts
  <1>5. run_queue' \in RunQueues /\ Queued(state', run_queue', priority)
    <2>1. rq \in RunQueues /\ Queued(st, rq, priority)
      BY <1>2, Parts, QueueHead DEF OthersTyped
    <2> HIDE DEF rq, st, stick
    <2> QED BY <2>1, <1>1, Parts
  <1> HIDE DEF stick, st, rq
  <1>6. critical_section_count' \in Nat
          /\ Pays(critical_section_count', Depth(current_thread)')
          /\ ints' \in BOOLEAN
          /\ (LeakBound = 0 => (ints' <=> critical_section_count' = 0))
    <2>1. pc'[t] = "wake_all" /\ waking'.then = "wake"
      BY <1>1, <1>2, Parts
    <2>2. Depth(current_thread)' = 1 /\ Depth(t) = 0
      BY <1>1, <2>1 DEF Depth, Exits
    <2>3. /\ ints' \in BOOLEAN /\ (LeakBound = 0 => ~ints')
          /\ Pays(critical_section_count + 1, 0 + 1)
      BY <1>1, <2>2, Enter
    <2>4. critical_section_count' \in Nat /\ critical_section_count' # 0
      BY <1>1, Parts
    <2> QED BY <2>2, <2>3, <2>4, <1>1
  <1>7. ThreadTypeOK'
    <2>1. pc' \in [Thread -> Label] /\ state' \in [Thread -> State]
      BY <1>1, <1>2, Parts DEF Label, State, st
    <2>2. waking' \in [queue : WaitQueue \cup {None}, reschedule : BOOLEAN,
                      error : Status, ret : BOOLEAN, then : Label]
      BY <1>1 DEF Label
    <2> QED BY <2>1, <2>2, <1>1, <1>5, <1>6, Parts
            DEF ThreadTypeOK, OthersTyped, RunQueues, WaitLists, WaitCounts,
                wait_vars
  <1>8. RunQueueExact'
    BY <1>1, <1>5 DEF RunQueueExact
  <1>9. WaitQueueExact'
    <2>1. \A u \in Thread : state[u] = "BLOCKED" <=> state'[u] = "BLOCKED"
      BY <1>2, <1>4
    <2> QED BY <2>1, <1>1, Parts, WaitSame DEF WaitQueueExact, wait_vars
  <1>10. TimersOnLiveStacks'
    BY <1>1, <1>2, <1>4, Parts DEF ThreadInv, TimersOnLiveStacks
  <1>11. \A u \in Thread : state'[u] = "FREE" => timer'[u] = "none"
    BY <1>1, <1>4 DEF ThreadInv
  <1>12. OnCPU'
    BY <1>1, <1>2, <1>4, Parts DEF ThreadInv, OnCPU
  <1>13. BootCanRun'
    BY <1>1, <1>4, ThreadAssumption DEF ThreadInv, BootCanRun
  <1>14. WakingUp'
    <2>1. \A u \in Thread : pc'[u] = "wake_all" => u = t
      BY <1>1, Parts DEF ThreadInv, WakingUp
    <2>2. state'[t] = IF reschedule /\ wait_list[w] # <<>>
                      THEN "READY" ELSE "RUNNING"
      BY <1>2, <1>3, <1>4
    <2> QED BY <2>1, <2>2, <1>1 DEF WakingUp, wait_vars
  <1>15. CountsCover'
    <2>1. "wake_all" \in Label
      BY DEF Label
    <2>2. \A u \in Thread : state'[u] = "FREE" <=> state[u] = "FREE"
      BY <1>2, <1>4
    <2> QED BY <2>1, <2>2, <1>1, <1>6, OthersCovered
  <1>16. Ended'
    BY <1>1, <1>2, <1>4, EndedKept DEF Label
  <1> QED BY <1>7, <1>8, <1>9, <1>10, <1>11, <1>12, <1>13, <1>14, <1>15,
             <1>16
          DEF ThreadInv

\* The end of wait_queue_wake_all without a switch keeps the invariant.
LEMMA WakeAllQuietEndStep ==
  ASSUME ThreadInv, WakeAllEnd, ~(waking.reschedule /\ waking.ret)
  PROVE  ThreadInv'
  <1> DEFINE t == current_thread
  <1>1. /\ pc[t] = "wake_all" /\ wait_list[waking.queue] = <<>>
        /\ pc' = [pc EXCEPT ![t] = waking.then] /\ waking' = NotWaking
        /\ UNCHANGED <<sched_vars, wait_vars, priority, idle_thread, ints,
                       timer>>
    BY DEF WakeAllEnd, goto
  <1>2. /\ t \in Thread /\ waking.then \in {"wake", "exit"}
        /\ waking.then = "wake" => state[t] = "RUNNING"
        /\ waking.then = "exit" => state[t] = "DEATH"
    BY <1>1, Parts DEF ThreadInv, WakingUp
  <1>3. timer[t] = "none"
    BY <1>1, <1>2, Parts DEF ThreadInv, TimersOnLiveStacks, OthersTyped
  <1>4. NotWaking \in [queue : WaitQueue \cup {None}, reschedule : BOOLEAN,
                       error : Status, ret : BOOLEAN, then : Label]
          /\ NotWaking.then = "user"
    BY DEF NotWaking, Status, Label
  <1>5. pc'[t] = waking.then /\ waking.then \in Label
          /\ \A u \in Thread \ {t} : pc'[u] = pc[u] /\ pc[u] # "wake_all"
    BY <1>1, <1>2, Parts DEF Label, ThreadInv, WakingUp
  <1>6. ThreadTypeOK'
    <2>1. pc' \in [Thread -> Label]
      BY <1>1, <1>5, Parts
    <2> QED BY <2>1, <1>1, <1>4 DEF ThreadInv, ThreadTypeOK, sched_vars,
                                    wait_vars
  <1>7. RunQueueExact' /\ WaitQueueExact'
    BY <1>1 DEF ThreadInv, RunQueueExact, WaitQueueExact, sched_vars, wait_vars
  <1>8. TimersOnLiveStacks'
    BY <1>1, <1>2, <1>3, <1>5
       DEF ThreadInv, TimersOnLiveStacks, sched_vars
  <1>9. \A u \in Thread : state'[u] = "FREE" => timer'[u] = "none"
    BY <1>1 DEF ThreadInv, sched_vars
  <1>10. OnCPU' /\ BootCanRun'
    BY <1>1, <1>2, <1>5 DEF ThreadInv, OnCPU, BootCanRun, sched_vars
  <1>11. WakingUp'
    <2>1. \A u \in Thread : pc'[u] # "wake_all"
      BY <1>2, <1>5
    <2> QED BY <2>1, <1>1, <1>2, <1>4 DEF WakingUp, sched_vars
  <1>12. CountsCover'
    <2>1. Depth(current_thread)' = Depth(t)
      BY <1>1, <1>2, <1>5 DEF Depth, Exits, sched_vars
    <2> QED BY <2>1, <1>1, <1>5, OthersCovered
            DEF ThreadInv, CountsCover, sched_vars
  <1>13. Ended'
    BY <1>1, <1>2, <1>5 DEF ThreadInv, Ended, sched_vars
  <1> QED BY <1>6, <1>7, <1>8, <1>9, <1>10, <1>11, <1>12, <1>13 DEF ThreadInv
-----------------------------------------------------------------------------
(* The invariant.                                                          *)

\* The invariant holds when the kernel starts.
LEMMA InitInv == ThreadInit => ThreadInv
  <1> SUFFICES ASSUME ThreadInit PROVE ThreadInv
    OBVIOUS
  <1> USE DEF ThreadInit
  <1>1. /\ Boot \in Thread /\ HighestPrio \in Nat /\ Quantum \in Nat \ {0}
        /\ None \notin Thread /\ LeakBound \in Nat
    BY ThreadAssumption
  <1>2. ThreadTypeOK
    <2>1. /\ state \in [Thread -> State]
          /\ priority \in [Thread -> Prio]
          /\ remaining_quantum \in [Thread -> 0..Quantum]
          /\ pc \in [Thread -> Label]
      BY <1>1 DEF State, Prio, Label
    <2>2. /\ wait_queue_block_ret \in [Thread -> Status]
          /\ waking \in [queue : WaitQueue \cup {None}, reschedule : BOOLEAN,
                         error : Status, ret : BOOLEAN, then : Label]
      BY DEF Status, NotWaking, Label
    <2>3. run_queue \in [list : [Prio -> Seq(Thread)], bitmap : SUBSET Prio]
      OBVIOUS
    <2>4. /\ saved_critical_section_count \in [Thread -> Nat]
          /\ blocking_wait_queue \in [Thread -> WaitQueue \cup {None}]
          /\ timer \in [Thread -> {"none", "sleep", "wait"}]
      OBVIOUS
    <2>5. /\ wait_list \in [WaitQueue -> Seq(Thread)]
          /\ wait_count \in [WaitQueue -> Int]
      OBVIOUS
    <2>6. /\ current_thread \in Thread /\ idle_thread \in {None, Boot}
          /\ critical_section_count \in Nat /\ ints \in BOOLEAN
      BY <1>1
    <2> HIDE DEF ThreadInit
    <2> QED BY <2>1, <2>2, <2>3, <2>4, <2>5, <2>6 DEF ThreadTypeOK
  <1>3. RunQueueExact
    <2>1. \A p \in Prio : run_queue.list[p] = <<>>
      OBVIOUS
    <2>2. IsInjective(<<>>) /\ Range(<<>>) = {}
      BY DEF IsInjective, Range
    <2>3. \A t \in Thread : state[t] # "READY"
      OBVIOUS
    <2> QED BY <2>1, <2>2, <2>3 DEF RunQueueExact, Queued
  <1>4. WaitQueueExact
    <2>1. \A w \in WaitQueue : wait_list[w] = <<>> /\ wait_count[w] = 0
      OBVIOUS
    <2>2. IsInjective(<<>>) /\ Range(<<>>) = {} /\ Len(<<>>) = 0
      BY DEF IsInjective, Range
    <2>3. \A t \in Thread : state[t] # "BLOCKED"
      OBVIOUS
    <2> QED BY <2>1, <2>2, <2>3 DEF WaitQueueExact, Waiting
  <1>5. TimersOnLiveStacks /\ \A t \in Thread : timer[t] = "none"
    BY DEF TimersOnLiveStacks
  <1>6. OnCPU /\ BootCanRun
    BY <1>1 DEF OnCPU, BootCanRun
  <1>7. WakingUp
    BY <1>1 DEF WakingUp, NotWaking
  <1>8. CountsCover
    BY <1>1 DEF CountsCover, Pays, Depth
  <1>9. Ended
    BY DEF Ended
  <1> QED BY <1>2, <1>3, <1>4, <1>5, <1>6, <1>7, <1>8, <1>9 DEF ThreadInv

\* Every step of the kernel keeps the invariant.
LEMMA KernelStepsInv == ThreadInv /\ KernelSteps => ThreadInv'
  <1> SUFFICES ASSUME ThreadInv, KernelSteps PROVE ThreadInv'
    OBVIOUS
  <1>1. CASE BootDone
    BY <1>1, BootDoneStep
  <1>2. CASE BecomeIdle
    BY <1>2, BecomeIdleStep
  <1>3. CASE ThreadReturn
    <2>1. PICK label \in {"new", "yield", "sleep", "wake", "resume",
                          "boot_resume", "preempt"} : unwind(label)
      BY <1>3 DEF ThreadReturn
    <2>2. UNCHANGED <<wait_vars, timer>> /\ label # "wait"
      BY <1>3 DEF ThreadReturn
    <2> QED BY <2>1, <2>2, UnwindStep
  <1>4. CASE \E source \in {"irq", "device"} : IrqEnter(source)
    BY <1>4, IrqEnterStep
  <1>5. CASE \E t \in Thread : SleepTimer(t)
    BY <1>5, SleepTimerStep
  <1>6. CASE \E t \in Thread : WaitTimer(t)
    BY <1>6, WaitTimerStep
  <1>7. CASE IrqExit
    BY <1>7, IrqExitStep
  <1>8. CASE WakeAllStep
    BY <1>8, WakeAllStepStep
  <1>9. CASE WakeAllEnd
    BY <1>9, WakeAllReschedStep, WakeAllQuietEndStep
  <1> QED BY <1>1, <1>2, <1>3, <1>4, <1>5, <1>6, <1>7, <1>8, <1>9
          DEF KernelSteps

\* Every call a thread may make keeps the invariant.
LEMMA ThreadCallsInv == ThreadInv /\ ThreadCalls => ThreadInv'
  <1> SUFFICES ASSUME ThreadInv, ThreadCalls PROVE ThreadInv'
    OBVIOUS
  <1>1. CreatePrios \subseteq Prio /\ SetPrios \subseteq Prio
    BY ThreadAssumption
  <1>2. CASE \E t \in Thread, prio \in CreatePrios : ThreadCreate(t, prio)
    BY <1>1, <1>2, CreateStep
  <1>3. CASE \E t \in Thread : ThreadResume(t)
    BY <1>3, ResumeStep
  <1>4. CASE ThreadYield
    BY <1>4, YieldStep
  <1>5. CASE ThreadSleep
    BY <1>5, SleepStep
  <1>6. CASE \E prio \in SetPrios : ThreadSetPriority(prio)
    BY <1>1, <1>6, SetPriorityStep
  <1> QED BY <1>2, <1>3, <1>4, <1>5, <1>6 DEF ThreadCalls

\* A step of the scheduler under any clients: Timeouts bounds only what the
\* threads of module Thread ask for.
ClientNext ==
  \/ ThreadNext
  \/ \E w \in WaitQueue, timeout \in Timeout : WaitQueueBlock(w, timeout)

\* Every step keeps the invariant.
LEMMA NextInv == ThreadInv /\ [ClientNext]_thread_vars => ThreadInv'
  <1> SUFFICES ASSUME ThreadInv, [ClientNext]_thread_vars PROVE ThreadInv'
    OBVIOUS
  <1>1. CASE KernelNext
    BY <1>1, KernelStepsInv, ThreadCallsInv DEF KernelNext
  <1>2. CASE \E w \in WaitQueue, timeout \in Timeout :
               WaitQueueBlock(w, timeout)
    BY <1>2, BlockStep
  <1>3. CASE wait_queue_block_return
    <2>1. /\ unwind("wait")
          /\ timer' = [timer EXCEPT ![current_thread] = "none"]
          /\ UNCHANGED wait_vars
      BY <1>3 DEF wait_queue_block_return
    <2> QED BY <2>1, UnwindStep
  <1>4. ASSUME NEW w \in WaitQueue, NEW reschedule \in BOOLEAN,
               WaitQueueWakeOne(w, reschedule, "NO_ERROR")
        PROVE  ThreadInv'
    <2>1. "NO_ERROR" \in Status
      BY DEF Status
    <2>2. CASE reschedule = TRUE
      BY <1>4, <2>1, <2>2, WakeOneRescheduleStep
    <2>3. CASE reschedule = FALSE
      <3>1. /\ wait_list[w] # <<>> /\ pc[current_thread] # "wake_all"
            /\ wait_queue_wake_one(w, FALSE, "NO_ERROR",
                                   critical_section_count)
            /\ UNCHANGED <<priority, idle_thread, ints, timer, pc, waking>>
        BY <1>4, <2>3 DEF WaitQueueWakeOne, Calling
      <3> QED BY <2>1, <3>1, WakeOneQuiet
    <2> QED BY <2>2, <2>3
  <1>5. ASSUME NEW w \in WaitQueue, NEW reschedule \in BOOLEAN,
               NEW error \in {"NO_ERROR", "ERR_OBJECT_DESTROYED"},
               WaitQueueWakeAll(w, reschedule, error)
        PROVE  ThreadInv'
    <2>1. error \in Status
      BY DEF Status
    <2> QED BY <1>5, <2>1, WakeAllBeginStep
  <1>6. ASSUME NEW w \in WaitQueue, DeviceWakeOne(w) PROVE ThreadInv'
    <2>1. /\ wait_list[w] # <<>> /\ pc[current_thread] # "wake_all"
          /\ wait_queue_wake_one(w, FALSE, "NO_ERROR", critical_section_count)
          /\ UNCHANGED <<priority, idle_thread, ints, timer, pc, waking>>
          /\ "NO_ERROR" \in Status
      BY <1>6 DEF DeviceWakeOne, Status
    <2> QED BY <2>1, WakeOneQuiet
  <1>7. CASE UNCHANGED thread_vars
    <2>1. UNCHANGED <<sched_vars, wait_vars>> /\ ThreadInv
      BY <1>7 DEF thread_vars, sched_vars, wait_vars
    <2>2. ThreadTypeOK' /\ RunQueueExact' /\ WaitQueueExact'
      BY <1>7, <2>1
      DEF thread_vars, sched_vars, wait_vars, ThreadInv, ThreadTypeOK,
          RunQueueExact, WaitQueueExact
    <2>3. TimersOnLiveStacks' /\ OnCPU' /\ WakingUp' /\ Ended' /\ BootCanRun'
          /\ \A t \in Thread : state'[t] = "FREE" => timer'[t] = "none"
      BY <1>7, <2>1
      DEF thread_vars, sched_vars, wait_vars, ThreadInv, TimersOnLiveStacks,
          OnCPU, WakingUp, Ended, BootCanRun
    <2>4. CountsCover'
      BY <1>7, <2>1
      DEF thread_vars, sched_vars, wait_vars, ThreadInv, CountsCover, Depth
    <2> QED BY <2>2, <2>3, <2>4 DEF ThreadInv
  <1> QED BY <1>1, <1>2, <1>3, <1>4, <1>5, <1>6, <1>7, ThreadAssumption
          DEF ClientNext, ThreadNext

\* What a call enters masks interrupts, unless its caller holds a leaked
\* section.
LEMMA CallMasks ==
  ASSUME ThreadInv, CallsAreMasked, ~LeakersCall, EnterMasks,
         CallIsMasked \/ pc[current_thread] # "user"
  PROVE  ~ints'
  <1>1. critical_section_count \in Nat BY Parts
  <1>2. CASE CallIsMasked
    <2>1. ~ints \/ ~(critical_section_count > 0)
      BY <1>2 DEF CallIsMasked
    <2>2. ~ints \/ critical_section_count = 0
      BY <1>1, <2>1
    <2> QED BY <2>2 DEF EnterMasks
  <1>3. CASE pc[current_thread] # "user"
    BY <1>3 DEF CallsAreMasked, EnterMasks
  <1> QED BY <1>2, <1>3

\* Interrupts come on only when a thread leaves its last critical section or
\* an interrupt returns, and it is then in no function of the kernel.
LEMMA NextMasked ==
  ASSUME ThreadInv, CallsAreMasked, ~LeakersCall, [ClientNext]_thread_vars
  PROVE  CallsAreMasked'
  <1>1. ASSUME ~ints' PROVE CallsAreMasked'
    BY <1>1 DEF CallsAreMasked
  <1>2. CASE BecomeIdle \/ ThreadYield \/ ThreadSleep
             \/ \E t \in Thread : ThreadResume(t)
    <2>1. EnterMasks BY <1>2 DEF BecomeIdle, ThreadYield, ThreadSleep, ThreadResume
    <2>2. CallIsMasked \/ pc[current_thread] # "user"
      BY <1>2 DEF BecomeIdle, ThreadYield, ThreadSleep, ThreadResume, Calling
    <2> QED BY <1>1, <2>1, <2>2, CallMasks
  <1>3. CASE \/ \E w \in WaitQueue, timeout \in Timeout :
                  WaitQueueBlock(w, timeout)
             \/ \E w \in WaitQueue : WaitQueueWakeOne(w, TRUE, "NO_ERROR")
             \/ \E w \in WaitQueue, reschedule \in BOOLEAN,
                  error \in {"NO_ERROR", "ERR_OBJECT_DESTROYED"} :
                    WaitQueueWakeAll(w, reschedule, error)
    <2>1. EnterMasks /\ CallIsMasked
      BY <1>3 DEF WaitQueueBlock, WaitQueueWakeOne, WaitQueueWakeAll, Calling
    <2> QED BY <1>1, <2>1, CallMasks
  <1>4. CASE \E source \in {"irq", "device"} : IrqEnter(source)
    BY <1>1, <1>4 DEF IrqEnter
  <1>5. CASE \/ \E t \in Thread : SleepTimer(t) \/ WaitTimer(t)
             \/ IrqExit \/ WakeAllStep \/ WakeAllEnd
             \/ \E w \in WaitQueue : DeviceWakeOne(w)
    <2>1. pc[current_thread] # "user" /\ ints' = ints
      BY <1>5 DEF SleepTimer, WaitTimer, IrqExit, WakeAllStep, WakeAllEnd,
                  DeviceWakeOne
    <2> QED BY <1>1, <2>1 DEF CallsAreMasked
  <1>6. CASE BootDone
    <2>1. pc' = [pc EXCEPT ![current_thread] = "user"]
          /\ current_thread' = current_thread
      BY <1>6 DEF BootDone, goto
    <2> QED BY <2>1, Parts DEF CallsAreMasked
  <1>7. CASE ThreadReturn \/ wait_queue_block_return
    <2>1. PICK label \in {"new", "yield", "sleep", "wake", "resume",
                          "boot_resume", "preempt", "wait"} : unwind(label)
      BY <1>7 DEF ThreadReturn, wait_queue_block_return
    <2>2. /\ pc[current_thread] = label /\ current_thread' = current_thread
          /\ ints' = (ints \/ critical_section_count = Exits(label)
                           \/ label = "preempt")
          /\ pc' = [pc EXCEPT ![current_thread] =
                      IF label = "boot_resume" THEN "boot" ELSE "user"]
      BY <2>1 DEF unwind, goto
    <2>3. CASE label = "boot_resume"
      <3>1. Depth(current_thread) = 3 /\ Exits(label) = 2
        BY <2>2, <2>3 DEF Depth, Exits
      <3>2. critical_section_count # Exits(label)
        BY <3>1, Parts DEF ThreadInv, CountsCover, Pays
      <3>3. ~ints BY <2>2, <2>3 DEF CallsAreMasked
      <3> QED BY <1>1, <2>2, <2>3, <3>2, <3>3
    <2>4. CASE label # "boot_resume"
      BY <2>2, <2>4, Parts DEF CallsAreMasked
    <2> QED BY <2>3, <2>4
  <1>8. ASSUME NEW t \in Thread, NEW prio, ThreadCreate(t, prio)
        PROVE  CallsAreMasked'
    <2>1. /\ pc[current_thread] # "exit" /\ pc[current_thread] # "wake_all"
          /\ state[t] = "FREE" /\ pc' = [pc EXCEPT ![t] = "new"]
          /\ UNCHANGED <<current_thread, ints>>
      BY <1>8 DEF ThreadCreate, Calling
    <2>2. t # current_thread
      BY <2>1 DEF ThreadInv, OnCPU
    <2> QED BY <2>1, <2>2, Parts DEF CallsAreMasked
  <1>9. CASE \/ \E prio \in SetPrios : ThreadSetPriority(prio)
             \/ \E w \in WaitQueue : WaitQueueWakeOne(w, FALSE, "NO_ERROR")
             \/ UNCHANGED thread_vars
    <2>1. UNCHANGED <<ints, pc, current_thread>>
      BY <1>9 DEF ThreadSetPriority, WaitQueueWakeOne, wait_queue_wake_one,
                  sched_vars, thread_vars
    <2> QED BY <2>1 DEF CallsAreMasked
  <1> QED BY <1>2, <1>3, <1>4, <1>5, <1>6, <1>7, <1>8, <1>9, ThreadAssumption
          DEF ClientNext, ThreadNext, KernelNext, KernelSteps, ThreadCalls

LEMMA InitMasked == ThreadInit => CallsAreMasked
  BY DEF ThreadInit, CallsAreMasked

\* The strengthening is an invariant: everything below follows from it.
LEMMA ThreadKeeps == ThreadSpec => []ThreadInv
  <1>1. ThreadNext => ClientNext
    BY DEF ClientNext
  <1> QED BY <1>1, InitInv, NextInv, PTL DEF ThreadSpec

\* The queues, timers and critical sections stay in order with however many
\* sections that expired timers have leaked, as long as no thread that holds
\* one calls the kernel; and every other call is one step of the code, no
\* interrupt comes within it.
THEOREM ThreadInvariant ==
  ASSUME ~LeakersCall
  PROVE  ThreadSpec => []KernelInv
  <1>1. ThreadNext => ClientNext
    BY DEF ClientNext
  <1>2. ThreadInit => CallsAreMasked
    BY InitMasked
  <1>3. ThreadInv /\ CallsAreMasked /\ [ClientNext]_thread_vars =>
          CallsAreMasked'
    BY NextMasked
  <1>4. ThreadInv /\ CallsAreMasked => KernelInv
    BY DEF KernelInv
  <1> QED BY <1>1, <1>2, <1>3, <1>4, InitInv, NextInv, PTL DEF ThreadSpec

\* Type correctness; in particular critical_section_count and the saved
\* counts never become negative.
THEOREM TypeCorrect ==
  ASSUME ~LeakersCall
  PROVE  ThreadSpec => []ThreadTypeOK
  <1>1. ThreadInv => ThreadTypeOK
    BY DEF ThreadInv
  <1> QED BY <1>1, ThreadKeeps, PTL

\* Every READY thread is in the run queue once, at its priority, no other
\* thread is, and the bitmap is right.
THEOREM RunQueueIsExact ==
  ASSUME ~LeakersCall
  PROVE  ThreadSpec => []RunQueueExact
  <1>1. ThreadInv => RunQueueExact
    BY DEF ThreadInv
  <1> QED BY <1>1, ThreadKeeps, PTL

\* Every BLOCKED thread is in its wait queue once, no other thread is, and
\* the count of the queue is right.
THEOREM WaitQueueIsExact ==
  ASSUME ~LeakersCall
  PROVE  ThreadSpec => []WaitQueueExact
  <1>1. ThreadInv => WaitQueueExact
    BY DEF ThreadInv
  <1> QED BY <1>1, ThreadKeeps, PTL

\* No timer is pending on a stack whose call has returned.
THEOREM TimersAreLive ==
  ASSUME ~LeakersCall
  PROVE  ThreadSpec => []TimersOnLiveStacks
  <1>1. ThreadInv => TimersOnLiveStacks
    BY DEF ThreadInv
  <1> QED BY <1>1, ThreadKeeps, PTL

\* Without leaks the counts are exactly what the code will leave, and
\* interrupts are masked exactly inside critical sections.
THEOREM SectionsBalanced ==
  ASSUME LeakBound = 0
  PROVE  ThreadSpec => []CriticalSectionsBalanced
  <1>1. ThreadInv => CriticalSectionsBalanced
    BY Parts DEF ThreadInv, CountsCover, CriticalSectionsBalanced, Pays
  <1> QED BY <1>1, ThreadKeeps, PTL

-----------------------------------------------------------------------------
(* The steps.                                                              *)

\* A step that changes the thread on the CPU is one that switches.
LEMMA NextSwitch ==
  ASSUME ThreadInv, [ClientNext]_thread_vars, current_thread' # current_thread
  PROVE  Switched
  <1>1. CASE BecomeIdle \/ ThreadYield \/ ThreadSleep \/ IrqExit
    BY <1>1, BecomeIdleStep, YieldStep, SleepStep, IrqExitStep
  <1>2. CASE \E t \in Thread : ThreadResume(t)
    BY <1>2, ResumeStep
  <1>3. CASE WakeAllEnd
    <2>1. waking.reschedule /\ waking.ret
      BY <1>3 DEF WakeAllEnd, sched_vars
    <2> QED BY <1>3, <2>1, WakeAllReschedStep
  <1>4. CASE \E w \in WaitQueue, timeout \in Timeout :
               WaitQueueBlock(w, timeout)
    BY <1>4, BlockStep
  <1>5. ASSUME NEW w \in WaitQueue, NEW reschedule \in BOOLEAN,
               WaitQueueWakeOne(w, reschedule, "NO_ERROR")
        PROVE  Switched
    <2>1. "NO_ERROR" \in Status
      BY DEF Status
    <2>2. reschedule = TRUE
      BY <1>5 DEF WaitQueueWakeOne, wait_queue_wake_one
    <2> QED BY <1>5, <2>1, <2>2, WakeOneRescheduleStep
  <1>6. ASSUME NEW w \in WaitQueue, NEW reschedule \in BOOLEAN, NEW error,
               WaitQueueWakeAll(w, reschedule, error)
        PROVE  FALSE
    BY <1>6 DEF WaitQueueWakeAll, wake_all_begin
  <1>7. CASE \E w \in WaitQueue : DeviceWakeOne(w)
    BY <1>7 DEF DeviceWakeOne, wait_queue_wake_one
  <1>8. CASE BootDone \/ ThreadReturn \/ wait_queue_block_return
    BY <1>8 DEF BootDone, ThreadReturn, wait_queue_block_return, unwind
  <1>9. CASE \/ \E source \in {"irq", "device"} : IrqEnter(source)
             \/ \E t \in Thread : SleepTimer(t) \/ WaitTimer(t)
             \/ WakeAllStep
    BY <1>9 DEF IrqEnter, SleepTimer, WaitTimer, WakeAllStep
  <1>10. CASE \/ \E t \in Thread, prio \in CreatePrios : ThreadCreate(t, prio)
              \/ \E prio \in SetPrios : ThreadSetPriority(prio)
    BY <1>10 DEF ThreadCreate, ThreadSetPriority, sched_vars
  <1>11. CASE UNCHANGED thread_vars
    BY <1>11 DEF thread_vars, sched_vars
  <1> QED BY <1>1, <1>2, <1>3, <1>4, <1>5, <1>6, <1>7, <1>8, <1>9, <1>10,
             <1>11, ThreadAssumption
          DEF ClientNext, ThreadNext, KernelNext, KernelSteps, ThreadCalls

\* A switch goes to a thread of the highest priority that can run.
THEOREM DispatchIsByPriority ==
  ASSUME ~LeakersCall
  PROVE  ThreadSpec => DispatchesHighest
  <1>1. ThreadInv /\ [ClientNext]_thread_vars =>
          [current_thread' # current_thread =>
             \A t \in Thread : state'[t] = "READY" =>
               priority'[t] <= priority'[current_thread']]_thread_vars
    BY NextSwitch DEF Switched
  <1>2. ThreadNext => ClientNext
    BY DEF ClientNext
  <1> QED BY <1>1, <1>2, ThreadKeeps, PTL DEF ThreadSpec, DispatchesHighest

\* The result of t's wait, once t has been woken, stays as it is.
Settled(t) ==
  (pc[t] = "wait" /\ state[t] # "BLOCKED" /\ pc'[t] = "wait") =>
    wait_queue_block_ret'[t] = wait_queue_block_ret[t]

\* Only a thread that is still BLOCKED is given a result by a wake-up.
LEMMA TakeSettled ==
  ASSUME ThreadInv, NEW w \in WaitQueue, wait_list[w] # <<>>,
         NEW error \in Status, take_waiter(w, Head(wait_list[w]), error),
         NEW t \in Thread
  PROVE  Settled(t)
  <1>1. state[Head(wait_list[w])] = "BLOCKED"
    BY TakeWaiter
  <1>2. wait_queue_block_ret' =
          [wait_queue_block_ret EXCEPT ![Head(wait_list[w])] = error]
    BY DEF take_waiter
  <1> QED BY <1>1, <1>2, Parts DEF Settled, OthersTyped

\* No step changes the result of a thread that has been woken.
LEMMA NextSettled ==
  ASSUME ThreadInv, [ClientNext]_thread_vars, NEW t \in Thread
  PROVE  Settled(t)
  <1>1. CASE UNCHANGED wait_queue_block_ret
    BY <1>1 DEF Settled
  <1>2. CASE BootDone \/ BecomeIdle \/ ThreadReturn \/ IrqExit \/ WakeAllEnd
    BY <1>1, <1>2
       DEF BootDone, BecomeIdle, ThreadReturn, IrqExit, WakeAllEnd, wait_vars
  <1>3. CASE \/ \E source \in {"irq", "device"} : IrqEnter(source)
             \/ \E u \in Thread : SleepTimer(u)
    BY <1>1, <1>3 DEF IrqEnter, SleepTimer, wait_vars
  <1>4. CASE \/ \E u \in Thread : ThreadResume(u)
             \/ ThreadYield \/ ThreadSleep
             \/ \E prio \in SetPrios : ThreadSetPriority(prio)
             \/ wait_queue_block_return
    BY <1>1, <1>4
       DEF ThreadResume, ThreadYield, ThreadSleep, ThreadSetPriority,
           wait_queue_block_return, wait_vars
  <1>5. ASSUME NEW u \in Thread, NEW prio, ThreadCreate(u, prio)
        PROVE  Settled(t)
    <2>1. /\ pc' = [pc EXCEPT ![u] = "new"]
          /\ wait_queue_block_ret' =
               [wait_queue_block_ret EXCEPT ![u] = "NO_ERROR"]
      BY <1>5 DEF ThreadCreate
    <2> QED BY <2>1, Parts DEF Settled, OthersTyped
  <1>6. ASSUME NEW u \in Thread, WaitTimer(u) PROVE Settled(t)
    <2>1. CASE state[u] = "BLOCKED"
      <3>1. wait_queue_block_ret' =
              [wait_queue_block_ret EXCEPT ![u] = "ERR_TIMED_OUT"]
        BY <1>6, <2>1 DEF WaitTimer, unblock
      <3> QED BY <2>1, <3>1, Parts DEF Settled, OthersTyped
    <2>2. CASE state[u] # "BLOCKED"
      BY <1>1, <1>6, <2>2 DEF WaitTimer, not_blocked, wait_vars
    <2> QED BY <2>1, <2>2
  <1>7. CASE WakeAllStep
    <2>1. /\ waking.queue \in WaitQueue /\ waking.error \in Status
          /\ wait_list[waking.queue] # <<>>
          /\ take_waiter(waking.queue, Head(wait_list[waking.queue]),
                         waking.error)
      BY <1>7, Parts DEF WakeAllStep, ThreadInv, WakingUp, OthersTyped
    <2> QED BY <2>1, TakeSettled
  <1>8. ASSUME NEW w \in WaitQueue, NEW timeout, WaitQueueBlock(w, timeout)
        PROVE  Settled(t)
    <2>1. /\ wait_queue_block_ret' =
               [wait_queue_block_ret EXCEPT ![current_thread] = "NO_ERROR"]
          /\ pc[current_thread] = "user"
      BY <1>8 DEF WaitQueueBlock, wait_queue_block, Calling
    <2> QED BY <2>1, Parts DEF Settled, OthersTyped
  <1>9. ASSUME NEW w \in WaitQueue, NEW reschedule \in BOOLEAN,
               WaitQueueWakeOne(w, reschedule, "NO_ERROR")
        PROVE  Settled(t)
    <2>1. /\ wait_list[w] # <<>> /\ "NO_ERROR" \in Status
          /\ take_waiter(w, Head(wait_list[w]), "NO_ERROR")
      BY <1>9 DEF WaitQueueWakeOne, wait_queue_wake_one, Status
    <2> QED BY <2>1, TakeSettled
  <1>10. ASSUME NEW w \in WaitQueue, NEW reschedule \in BOOLEAN, NEW error,
                WaitQueueWakeAll(w, reschedule, error)
         PROVE  Settled(t)
    BY <1>1, <1>10 DEF WaitQueueWakeAll, wake_all_begin, wait_vars
  <1>11. ASSUME NEW w \in WaitQueue, DeviceWakeOne(w) PROVE Settled(t)
    <2>1. /\ wait_list[w] # <<>> /\ "NO_ERROR" \in Status
          /\ take_waiter(w, Head(wait_list[w]), "NO_ERROR")
      BY <1>11 DEF DeviceWakeOne, wait_queue_wake_one, Status
    <2> QED BY <2>1, TakeSettled
  <1>12. CASE UNCHANGED thread_vars
    BY <1>1, <1>12 DEF thread_vars, wait_vars
  <1> QED BY <1>2, <1>3, <1>4, <1>5, <1>6, <1>7, <1>8, <1>9, <1>10, <1>11,
             <1>12
          DEF ClientNext, ThreadNext, KernelNext, KernelSteps, ThreadCalls

\* A timer that expires after its thread was woken, and any other late event,
\* leaves the result of the wait alone.
THEOREM WakeIsFinal ==
  ASSUME ~LeakersCall
  PROVE  ThreadSpec => WakeResultSettled
  <1>1. ThreadInv /\ [ClientNext]_thread_vars =>
          [\A t \in Thread :
             (pc[t] = "wait" /\ state[t] # "BLOCKED" /\ pc'[t] = "wait") =>
               wait_queue_block_ret'[t] = wait_queue_block_ret[t]]_thread_vars
    BY NextSettled DEF Settled
  <1>2. ThreadNext => ClientNext
    BY DEF ClientNext
  <1> QED BY <1>1, <1>2, ThreadKeeps, PTL DEF ThreadSpec, WakeResultSettled

\* The same of any clients: what module Thread promises them.
THEOREM SchedulerServesClients ==
  ASSUME ~LeakersCall
  PROVE  ThreadInit /\ [][ClientNext]_thread_vars =>
           []KernelInv /\ DispatchesHighest /\ WakeResultSettled
  <1>1. ThreadInv /\ [ClientNext]_thread_vars =>
          [current_thread' # current_thread =>
             \A t \in Thread : state'[t] = "READY" =>
               priority'[t] <= priority'[current_thread']]_thread_vars
    BY NextSwitch DEF Switched
  <1>2. ThreadInv /\ [ClientNext]_thread_vars =>
          [\A t \in Thread :
             (pc[t] = "wait" /\ state[t] # "BLOCKED" /\ pc'[t] = "wait") =>
               wait_queue_block_ret'[t] = wait_queue_block_ret[t]]_thread_vars
    BY NextSettled DEF Settled
  <1>3. ThreadInit => CallsAreMasked
    BY InitMasked
  <1>4. ThreadInv /\ CallsAreMasked /\ [ClientNext]_thread_vars =>
          CallsAreMasked'
    BY NextMasked
  <1>5. ThreadInv /\ CallsAreMasked => KernelInv
    BY DEF KernelInv
  <1> QED BY <1>1, <1>2, <1>3, <1>4, <1>5, InitInv, NextInv, PTL
          DEF DispatchesHighest, WakeResultSettled

-----------------------------------------------------------------------------
(* What the steps of the kernel do to threads in a wait.  The modules of   *)
(* the clients of wait queues keep a record per waiter; these lemmas say   *)
(* when it may go stale.                                                   *)

\* A thread inside wait_queue_block exists.
WaitersExist == \A t \in Thread : pc[t] = "wait" => state[t] # "FREE"

\* A step that leaves the waits of all threads as they are.
Undisturbed ==
  /\ wait_list' = wait_list
  /\ \A t \in Thread :
       /\ pc'[t] = "wait" <=> pc[t] = "wait"
       /\ state'[t] = "BLOCKED" <=> state[t] = "BLOCKED"
       /\ state'[t] = "FREE" => state[t] = "FREE"
       /\ pc[t] = "wait" =>
            /\ blocking_wait_queue'[t] = blocking_wait_queue[t]
            /\ wait_queue_block_ret'[t] = wait_queue_block_ret[t]
       /\ timer'[t] = "wait" => timer[t] = "wait"

\* No step starts a wake-up of all, and one in progress stays what it is.
SameWakeUp ==
  \A t \in Thread : pc'[t] = "wake_all" =>
    /\ pc[t] = "wake_all"
    /\ waking'.queue = waking.queue /\ waking'.error = waking.error
    /\ waking'.then = waking.then

\* Without a change of the lists the same threads are BLOCKED.
LEMMA BlockedSame ==
  ASSUME ThreadInv, ThreadInv', UNCHANGED wait_vars
  PROVE  \A t \in Thread : state'[t] = "BLOCKED" <=> state[t] = "BLOCKED"
  <1>1. Waiting(state, wait_list, wait_count, blocking_wait_queue)
    BY Parts
  <1>2. Waiting(state', wait_list, wait_count, blocking_wait_queue)
    BY DEF ThreadInv, WaitQueueExact, wait_vars
  <1> QED BY <1>1, <1>2 DEF Waiting

\* Which thread thread_resched picks is no matter here.
LEMMA ReschedStates ==
  ASSUME NEW st \in [Thread -> State], NEW rq, NEW rem, NEW count,
         thread_resched(st, rq, rem, count), NEW t \in Thread
  PROVE  state'[t] = st[t] \/ state'[t] = "RUNNING"
  BY DEF thread_resched

\* A step of the thread u, or none, that leaves the wait queues alone.
LEMMA QuietStep ==
  ASSUME ThreadInv, ThreadInv', UNCHANGED wait_vars,
         NEW u \in Thread, pc[u] # "wait", NEW label, label # "wait",
         pc' = pc \/ pc' = [pc EXCEPT ![u] = label],
         \A t \in Thread : state'[t] = "FREE" => state[t] = "FREE",
         timer' = timer \/ timer' = [timer EXCEPT ![u] = "sleep"]
           \/ \E t \in Thread : timer' = [timer EXCEPT ![t] = "none"]
  PROVE  Undisturbed
  <1>1. \A t \in Thread : state'[t] = "BLOCKED" <=> state[t] = "BLOCKED"
    BY BlockedSame
  <1>2. \A t \in Thread : pc'[t] = "wait" <=> pc[t] = "wait"
    BY Parts
  <1>3. \A t \in Thread : timer'[t] = "wait" => timer[t] = "wait"
    BY Parts DEF OthersTyped
  <1> QED BY <1>1, <1>2, <1>3 DEF Undisturbed, wait_vars

\* Calls of the kernel that are no business of the wait queues.
LEMMA CallsUndisturbed ==
  ASSUME ThreadInv, ThreadInv', WaitersExist, ThreadCalls
  PROVE  Undisturbed
  <1> DEFINE me == current_thread
  <1>1. me \in Thread /\ state \in [Thread -> State]
    BY Parts
  <1>2. ASSUME NEW t \in Thread, NEW prio, ThreadCreate(t, prio)
        PROVE  Undisturbed
    <2>1. /\ state[t] = "FREE" /\ pc[t] # "wait"
          /\ state' = [state EXCEPT ![t] = "SUSPENDED"]
          /\ blocking_wait_queue' = [blocking_wait_queue EXCEPT ![t] = None]
          /\ wait_queue_block_ret' =
               [wait_queue_block_ret EXCEPT ![t] = "NO_ERROR"]
          /\ pc' = [pc EXCEPT ![t] = "new"]
          /\ UNCHANGED <<wait_list, timer>>
      BY <1>2 DEF ThreadCreate, WaitersExist
    <2> QED BY <2>1, Parts DEF Undisturbed, OthersTyped
  <1>3. ASSUME NEW t \in Thread, ThreadResume(t) PROVE Undisturbed
    <2> DEFINE label == IF pc[me] = "boot" THEN "boot_resume" ELSE "resume"
               st == [[state EXCEPT ![t] = "READY"] EXCEPT ![me] = "READY"]
    <2>1. /\ pc[me] # "wait" /\ pc' = [pc EXCEPT ![me] = label]
          /\ label # "wait" /\ UNCHANGED <<wait_vars, timer>>
      BY <1>3 DEF ThreadResume, Calling, goto
    <2>2. st \in [Thread -> State]
            /\ \A u \in Thread : st[u] = "FREE" => state[u] = "FREE"
      BY <1>1 DEF State
    <2>3. \E rq, rem, count : thread_resched(st, rq, rem, count)
      BY <1>3 DEF ThreadResume, thread_yield
    <2> HIDE DEF st, label
    <2>4. \A u \in Thread : state'[u] = "FREE" => state[u] = "FREE"
      BY <2>2, <2>3, ReschedStates
    <2> QED BY <1>1, <2>1, <2>4, QuietStep
  <1>4. CASE ThreadYield
    <2> DEFINE st == [state EXCEPT ![me] = "READY"]
    <2>1. /\ pc[me] # "wait" /\ pc' = [pc EXCEPT ![me] = "yield"]
          /\ UNCHANGED <<wait_vars, timer>>
      BY <1>4 DEF ThreadYield, Calling, goto
    <2>2. st \in [Thread -> State]
            /\ \A u \in Thread : st[u] = "FREE" => state[u] = "FREE"
      BY <1>1 DEF State
    <2>3. \E rq, rem, count : thread_resched(st, rq, rem, count)
      BY <1>4 DEF ThreadYield, thread_yield
    <2> HIDE DEF st
    <2>4. \A u \in Thread : state'[u] = "FREE" => state[u] = "FREE"
      BY <2>2, <2>3, ReschedStates
    <2> QED BY <1>1, <2>1, <2>4, QuietStep
  <1>5. CASE ThreadSleep
    <2> DEFINE st == [state EXCEPT ![me] = "SLEEPING"]
    <2>1. /\ pc[me] # "wait" /\ pc' = [pc EXCEPT ![me] = "sleep"]
          /\ timer' = [timer EXCEPT ![me] = "sleep"] /\ UNCHANGED wait_vars
      BY <1>5 DEF ThreadSleep, Calling, goto
    <2>2. st \in [Thread -> State]
            /\ \A u \in Thread : st[u] = "FREE" => state[u] = "FREE"
      BY <1>1 DEF State
    <2>3. \E rq, rem, count : thread_resched(st, rq, rem, count)
      BY <1>5 DEF ThreadSleep
    <2> HIDE DEF st
    <2>4. \A u \in Thread : state'[u] = "FREE" => state[u] = "FREE"
      BY <2>2, <2>3, ReschedStates
    <2> QED BY <1>1, <2>1, <2>4, QuietStep
  <1>6. CASE \E prio \in SetPrios : ThreadSetPriority(prio)
    <2>1. /\ pc[me] # "wait" /\ UNCHANGED <<pc, state, timer, wait_vars>>
      BY <1>6 DEF ThreadSetPriority, Calling, sched_vars
    <2> QED BY <1>1, <2>1, QuietStep
  <1> QED BY <1>2, <1>3, <1>4, <1>5, <1>6 DEF ThreadCalls

\* Steps of the kernel disturb a wait in two cases: a timer that expires for
\* a thread that is BLOCKED, and a turn of the loop of wait_queue_wake_all.
LEMMA StepsUndisturbed ==
  ASSUME ThreadInv, ThreadInv', KernelSteps, ~WakeAllStep,
         ~ \E t \in Thread : state[t] = "BLOCKED" /\ WaitTimer(t)
  PROVE  Undisturbed
  <1> DEFINE me == current_thread
  <1>1. me \in Thread /\ state \in [Thread -> State]
    BY Parts
  <1>2. CASE BootDone \/ \E source \in {"irq", "device"} : IrqEnter(source)
    <2>1. PICK label : /\ pc' = [pc EXCEPT ![me] = label] /\ label # "wait"
                       /\ pc[me] # "wait"
                       /\ UNCHANGED <<state, timer, wait_vars>>
      BY <1>2 DEF BootDone, IrqEnter, goto
    <2> QED BY <1>1, <2>1, QuietStep
  <1>3. CASE ThreadReturn
    <2>1. PICK label \in {"new", "yield", "sleep", "wake", "resume",
                          "boot_resume", "preempt"} : unwind(label)
      BY <1>3 DEF ThreadReturn
    <2>2. /\ pc' = [pc EXCEPT ![me] = IF label = "boot_resume" THEN "boot"
                                      ELSE "user"]
          /\ pc[me] # "wait" /\ UNCHANGED <<state, timer, wait_vars>>
      BY <1>3, <2>1 DEF ThreadReturn, unwind, goto
    <2> QED BY <1>1, <2>2, QuietStep
  <1>4. CASE BecomeIdle
    <2> DEFINE st == [state EXCEPT ![Boot] = "READY"]
    <2>1. /\ pc[me] # "wait" /\ pc' = [pc EXCEPT ![me] = "yield"]
          /\ UNCHANGED <<wait_vars, timer>>
      BY <1>4 DEF BecomeIdle, goto
    <2>2. st \in [Thread -> State]
            /\ \A u \in Thread : st[u] = "FREE" => state[u] = "FREE"
      BY <1>1 DEF State
    <2>3. \E rq, rem, count : thread_resched(st, rq, rem, count)
      BY <1>4 DEF BecomeIdle
    <2> HIDE DEF st
    <2>4. \A u \in Thread : state'[u] = "FREE" => state[u] = "FREE"
      BY <2>2, <2>3, ReschedStates
    <2> QED BY <1>1, <2>1, <2>4, QuietStep
  <1>5. CASE IrqExit
    <2> DEFINE st == [state EXCEPT ![me] = "READY"]
    <2>1. /\ pc[me] # "wait" /\ pc' = [pc EXCEPT ![me] = "preempt"]
          /\ UNCHANGED <<wait_vars, timer>>
      BY <1>5 DEF IrqExit, goto
    <2>2. st \in [Thread -> State]
            /\ \A u \in Thread : st[u] = "FREE" => state[u] = "FREE"
      BY <1>1 DEF State
    <2>3. \E rq, rem, count : thread_resched(st, rq, rem, count)
      BY <1>5 DEF IrqExit, thread_preempt
    <2> HIDE DEF st
    <2>4. \A u \in Thread : state'[u] = "FREE" => state[u] = "FREE"
      BY <2>2, <2>3, ReschedStates
    <2> QED BY <1>1, <2>1, <2>4, QuietStep
  <1>6. ASSUME NEW t \in Thread, SleepTimer(t) PROVE Undisturbed
    <2>1. /\ pc[me] # "wait" /\ pc' = pc
          /\ timer' = [timer EXCEPT ![t] = "none"]
          /\ state' = [state EXCEPT ![t] = "READY"] /\ UNCHANGED wait_vars
      BY <1>6 DEF SleepTimer
    <2>2. \A u \in Thread : state'[u] = "FREE" => state[u] = "FREE"
      BY <1>1, <2>1
    <2> QED BY <1>1, <2>1, <2>2, QuietStep
  <1>7. ASSUME NEW t \in Thread, WaitTimer(t) PROVE Undisturbed
    <2>1. state[t] # "BLOCKED"
      BY <1>7
    <2>2. pc[me] # "wait" /\ pc' = pc
            /\ timer' = [timer EXCEPT ![t] = "none"]
      BY <1>7 DEF WaitTimer
    <2>3. not_blocked(t)
      BY <1>7, <2>1 DEF WaitTimer
    <2>4. /\ \A u \in Thread : state'[u] = "FREE" => state[u] = "FREE"
          /\ UNCHANGED wait_vars
      BY <2>3 DEF not_blocked
    <2> QED BY <1>1, <2>2, <2>4, QuietStep
  <1>8. CASE WakeAllEnd
    <2>1. /\ pc[me] # "wait" /\ pc' = [pc EXCEPT ![me] = waking.then]
          /\ waking.then # "wait" /\ UNCHANGED <<wait_vars, timer>>
      BY <1>8, Parts DEF WakeAllEnd, goto, OthersTyped
    <2>2. \A u \in Thread : state'[u] = "FREE" => state[u] = "FREE"
      <3>1. CASE UNCHANGED sched_vars
        BY <3>1 DEF sched_vars
      <3>2. CASE thread_resched(state, run_queue, remaining_quantum,
                                critical_section_count)
        BY <1>1, <3>2, ReschedStates
      <3> QED BY <1>8, <3>1, <3>2 DEF WakeAllEnd
    <2> QED BY <1>1, <2>1, <2>2, QuietStep
  <1> QED BY <1>2, <1>3, <1>4, <1>5, <1>6, <1>7, <1>8 DEF KernelSteps

\* No call and no other step of the kernel starts a wake-up of all.
LEMMA WakeUpSame ==
  ASSUME ThreadInv, KernelNext
  PROVE  SameWakeUp
  <1>1. current_thread \in Thread /\ pc \in [Thread -> Label]
          /\ waking.then # "wake_all"
    BY Parts DEF OthersTyped
  <1>2. CASE WakeAllStep
    <2>1. pc' = pc /\ waking' = [waking EXCEPT !.ret = TRUE]
      BY <1>2 DEF WakeAllStep
    <2>2. /\ waking'.queue = waking.queue /\ waking'.error = waking.error
          /\ waking'.then = waking.then
      BY <2>1, Parts DEF OthersTyped
    <2> QED BY <2>1, <2>2 DEF SameWakeUp
  <1>3. CASE \E t \in Thread, prio \in CreatePrios : ThreadCreate(t, prio)
    BY <1>1, <1>3 DEF ThreadCreate, SameWakeUp
  <1>4. CASE \/ \E t \in Thread : ThreadResume(t) \/ SleepTimer(t)
                                    \/ WaitTimer(t)
             \/ ThreadYield \/ ThreadSleep
             \/ \E prio \in SetPrios : ThreadSetPriority(prio)
             \/ BootDone \/ BecomeIdle
             \/ \E source \in {"irq", "device"} : IrqEnter(source)
             \/ IrqExit
    BY <1>1, <1>4
       DEF ThreadResume, SleepTimer, WaitTimer, ThreadYield, ThreadSleep,
           ThreadSetPriority, BootDone, BecomeIdle, IrqEnter, IrqExit, goto,
           SameWakeUp
  <1>5. CASE ThreadReturn
    BY <1>1, <1>5 DEF ThreadReturn, unwind, goto, SameWakeUp
  <1>6. CASE WakeAllEnd
    BY <1>1, <1>6 DEF WakeAllEnd, goto, ThreadInv, WakingUp, SameWakeUp
  <1> QED BY <1>2, <1>3, <1>4, <1>5, <1>6
          DEF KernelNext, KernelSteps, ThreadCalls

\* The same lists and fields stand for the same threads.
LEMMA SameLists ==
  ASSUME NEW st1, NEW st2, NEW list, NEW count, NEW blocking,
         Waiting(st1, list, count, blocking),
         Waiting(st2, list, count, blocking)
  PROVE  \A t \in Thread : st1[t] = "BLOCKED" <=> st2[t] = "BLOCKED"
  BY DEF Waiting

\* A step that takes t out of its wait with the given result and leaves the
\* waits of all other threads as they are.
Woke(t, error) ==
  /\ state[t] = "BLOCKED"
  /\ wait_queue_block_ret'[t] = error
  /\ \A u \in Thread :
       /\ pc'[u] = "wait" <=> pc[u] = "wait"
       /\ state'[u] = "BLOCKED" <=> state[u] = "BLOCKED" /\ u # t
       /\ state'[u] = "FREE" => state[u] = "FREE"
       /\ u # t => /\ blocking_wait_queue'[u] = blocking_wait_queue[u]
                   /\ wait_queue_block_ret'[u] = wait_queue_block_ret[u]
       /\ timer'[u] = "wait" => timer[u] = "wait"

\* The threads that are BLOCKED when the head of w has been woken.
LEMMA TakeBlocked ==
  ASSUME ThreadInv, ThreadInv', NEW w \in WaitQueue, wait_list[w] # <<>>,
         NEW error \in Status, NEW t, t = Head(wait_list[w]),
         take_waiter(w, t, error)
  PROVE  /\ t \in Thread /\ state[t] = "BLOCKED"
         /\ blocking_wait_queue[t] = w
         /\ wait_list' = [wait_list EXCEPT ![w] = Tail(@)]
         /\ wait_queue_block_ret'[t] = error
         /\ \A u \in Thread :
              /\ state'[u] = "BLOCKED" <=> state[u] = "BLOCKED" /\ u # t
              /\ u # t => /\ blocking_wait_queue'[u] = blocking_wait_queue[u]
                          /\ wait_queue_block_ret'[u] = wait_queue_block_ret[u]
  <1> DEFINE st == [state EXCEPT ![t] = "READY"]
  <1>1. /\ t \in Thread /\ state[t] = "BLOCKED"
        /\ Waiting(st, wait_list', wait_count', blocking_wait_queue')
    BY TakeWaiter
  <1>2. Waiting(state', wait_list', wait_count', blocking_wait_queue')
    BY DEF ThreadInv, WaitQueueExact
  <1>3. \A u \in Thread : state'[u] = "BLOCKED" <=> st[u] = "BLOCKED"
    <2> HIDE DEF st
    <2> QED BY <1>1, <1>2, SameLists
  <1>4. \A u \in Thread : state'[u] = "BLOCKED" <=> state[u] = "BLOCKED" /\ u # t
    BY <1>1, <1>3, Parts
  <1>5. blocking_wait_queue[t] = w
    <2>1. /\ wait_list[w] \in Seq(Thread) /\ IsInjective(wait_list[w])
          /\ Range(wait_list[w]) =
               {u \in Thread : state[u] = "BLOCKED"
                                 /\ blocking_wait_queue[u] = w}
      BY Parts DEF Waiting, OthersTyped, WaitLists
    <2>2. t \in Range(wait_list[w])
      BY <2>1, RemoveHead
    <2> QED BY <2>1, <2>2
  <1>6. /\ wait_list' = [wait_list EXCEPT ![w] = Tail(@)]
        /\ blocking_wait_queue' = [blocking_wait_queue EXCEPT ![t] = None]
        /\ wait_queue_block_ret' = [wait_queue_block_ret EXCEPT ![t] = error]
    BY DEF take_waiter
  <1> QED BY <1>1, <1>4, <1>5, <1>6, Parts DEF OthersTyped

\* A wake-up without a switch: of a handler, of a thread that asked for none,
\* or a turn of the loop of wait_queue_wake_all.
LEMMA QuietWakeWakes ==
  ASSUME ThreadInv, ThreadInv', NEW w \in WaitQueue, wait_list[w] # <<>>,
         NEW error \in Status, NEW t, t = Head(wait_list[w]),
         take_waiter(w, t, error), state' = [state EXCEPT ![t] = "READY"],
         UNCHANGED <<pc, timer>>
  PROVE  /\ Woke(t, error)
         /\ t \in Thread /\ blocking_wait_queue[t] = w
         /\ wait_list' = [wait_list EXCEPT ![w] = Tail(@)]
  <1>1. \A u \in Thread : state'[u] = "FREE" => state[u] = "FREE"
    BY Parts
  <1> QED BY <1>1, TakeBlocked DEF Woke

\* One turn of the loop of wait_queue_wake_all.
LEMMA WakeAllWakes ==
  ASSUME ThreadInv, ThreadInv', WakeAllStep
  PROVE  /\ pc[current_thread] = "wake_all" /\ waking.queue \in WaitQueue
         /\ wait_list[waking.queue] # <<>>
         /\ Woke(Head(wait_list[waking.queue]), waking.error)
         /\ Head(wait_list[waking.queue]) \in Thread
         /\ blocking_wait_queue[Head(wait_list[waking.queue])] = waking.queue
         /\ wait_list' = [wait_list EXCEPT ![waking.queue] = Tail(@)]
  <1> DEFINE w == waking.queue
             t == Head(wait_list[w])
  <1>1. /\ pc[current_thread] = "wake_all" /\ wait_list[w] # <<>>
        /\ take_waiter(w, t, waking.error)
        /\ state' = [state EXCEPT ![t] = "READY"]
        /\ UNCHANGED <<pc, timer>>
    BY DEF WakeAllStep
  <1>2. w \in WaitQueue /\ waking.error \in Status
    BY <1>1, Parts DEF ThreadInv, WakingUp, OthersTyped
  <1> HIDE DEF w, t
  <1>3. t = Head(wait_list[w]) /\ w = waking.queue
    BY DEF w, t
  <1>4. /\ Woke(t, waking.error) /\ t \in Thread
        /\ blocking_wait_queue[t] = w
        /\ wait_list' = [wait_list EXCEPT ![w] = Tail(@)]
    BY <1>1, <1>2, <1>3, QuietWakeWakes
  <1> QED BY <1>1, <1>2, <1>3, <1>4

\* wait_queue_wake_one by a thread that calls it, with a switch or without.
LEMMA WakeOneWakes ==
  ASSUME ThreadInv, ThreadInv', NEW w \in WaitQueue,
         NEW reschedule \in BOOLEAN, NEW error \in Status,
         WaitQueueWakeOne(w, reschedule, error)
  PROVE  /\ Woke(Head(wait_list[w]), error)
         /\ Head(wait_list[w]) \in Thread /\ wait_list[w] # <<>>
         /\ blocking_wait_queue[Head(wait_list[w])] = w
         /\ wait_list' = [wait_list EXCEPT ![w] = Tail(@)]
         /\ \A t \in Thread : pc'[t] # "wake_all"
  <1> DEFINE t  == Head(wait_list[w])
             me == current_thread
             st == [[state EXCEPT ![t] = "READY"] EXCEPT ![me] = "READY"]
  <1>1. /\ wait_list[w] # <<>> /\ take_waiter(w, t, error)
        /\ pc[me] = "user" /\ UNCHANGED timer
    BY DEF WaitQueueWakeOne, wait_queue_wake_one, Calling
  <1>2. \A u \in Thread : pc[u] # "wake_all"
    BY <1>1, Parts DEF ThreadInv, WakingUp
  <1>3. CASE reschedule = FALSE
    <2>1. state' = [state EXCEPT ![t] = "READY"] /\ UNCHANGED pc
      BY <1>3 DEF WaitQueueWakeOne, wait_queue_wake_one
    <2> HIDE DEF t
    <2>2. t = Head(wait_list[w])
      BY DEF t
    <2> QED BY <1>1, <1>2, <2>1, <2>2, QuietWakeWakes
  <1>4. CASE reschedule = TRUE
    <2>1. /\ \E rq, rem, count : thread_resched(st, rq, rem, count)
          /\ pc' = [pc EXCEPT ![me] = "wake"]
      BY <1>4 DEF WaitQueueWakeOne, wait_queue_wake_one, goto
    <2>2. st \in [Thread -> State]
            /\ \A u \in Thread : st[u] = "FREE" => state[u] = "FREE"
      BY Parts DEF State
    <2> HIDE DEF st, t
    <2>3. t = Head(wait_list[w])
      BY DEF t
    <2>4. \A u \in Thread : state'[u] = "FREE" => state[u] = "FREE"
      BY <2>1, <2>2, ReschedStates
    <2>5. /\ t \in Thread /\ state[t] = "BLOCKED"
          /\ blocking_wait_queue[t] = w
          /\ wait_list' = [wait_list EXCEPT ![w] = Tail(@)]
          /\ wait_queue_block_ret'[t] = error
          /\ \A u \in Thread :
               /\ state'[u] = "BLOCKED" <=> state[u] = "BLOCKED" /\ u # t
               /\ u # t =>
                    /\ blocking_wait_queue'[u] = blocking_wait_queue[u]
                    /\ wait_queue_block_ret'[u] = wait_queue_block_ret[u]
      BY <1>1, <2>3, TakeBlocked
    <2>6. \A u \in Thread : (pc'[u] = "wait" <=> pc[u] = "wait")
                              /\ pc'[u] # "wake_all"
      BY <1>1, <1>2, <2>1, Parts
    <2>7. Woke(t, error)
      BY <1>1, <2>4, <2>5, <2>6 DEF Woke
    <2> QED BY <1>1, <2>3, <2>5, <2>6, <2>7
  <1> QED BY <1>3, <1>4

\* A timer that expires for a thread that is BLOCKED.
LEMMA TimerWakes ==
  ASSUME ThreadInv, ThreadInv', NEW t \in Thread, WaitTimer(t),
         state[t] = "BLOCKED"
  PROVE  /\ Woke(t, "ERR_TIMED_OUT") /\ timer[t] = "wait"
         /\ blocking_wait_queue[t] \in WaitQueue
         /\ wait_list' = [wait_list EXCEPT ![blocking_wait_queue[t]] =
                            list_delete(@, t)]
         /\ \A u \in Thread : pc'[u] # "wake_all"
  <1>1. /\ pc[current_thread] = "irq" /\ timer[t] = "wait"
        /\ timer' = [timer EXCEPT ![t] = "none"] /\ UNCHANGED pc
    BY DEF WaitTimer
  <1>2. unblock(t)
    BY DEF WaitTimer
  <1>3. /\ wait_list' = [wait_list EXCEPT ![blocking_wait_queue[t]] =
                           list_delete(@, t)]
        /\ blocking_wait_queue' = [blocking_wait_queue EXCEPT ![t] = None]
        /\ wait_queue_block_ret' =
             [wait_queue_block_ret EXCEPT ![t] = "ERR_TIMED_OUT"]
        /\ state' = [state EXCEPT ![t] = "READY"]
    BY <1>2 DEF unblock
  <1>4. blocking_wait_queue[t] \in WaitQueue
    BY Parts DEF Waiting
  <1>5. Woke(t, "ERR_TIMED_OUT")
    BY <1>1, <1>3, Parts DEF Woke, OthersTyped
  <1>6. \A u \in Thread : pc[u] # "wake_all"
    BY <1>1, Parts DEF ThreadInv, WakingUp
  <1> QED BY <1>1, <1>3, <1>4, <1>5, <1>6

\* A step in which the running thread goes into a wait on w.
Blocked(w, timeout) ==
  /\ state[current_thread] = "RUNNING" /\ pc[current_thread] = "user"
  /\ timer'[current_thread] = "wait" => timeout = "FINITE"
  /\ \A u \in Thread :
       /\ pc'[u] = "wait" <=> pc[u] = "wait" \/ u = current_thread
       /\ state'[u] = "BLOCKED" <=>
            state[u] = "BLOCKED" \/ u = current_thread
       /\ state'[u] = "FREE" => state[u] = "FREE"
       /\ blocking_wait_queue'[u] =
            IF u = current_thread THEN w ELSE blocking_wait_queue[u]
       /\ u # current_thread =>
            wait_queue_block_ret'[u] = wait_queue_block_ret[u]
       /\ u # current_thread /\ timer'[u] = "wait" => timer[u] = "wait"

\* wait_queue_block up to the switch.
LEMMA BlockBlocks ==
  ASSUME ThreadInv, ThreadInv', NEW w \in WaitQueue, NEW timeout \in Timeout,
         WaitQueueBlock(w, timeout)
  PROVE  /\ Blocked(w, timeout)
         /\ wait_list' = [wait_list EXCEPT ![w] = Append(@, current_thread)]
         /\ \A u \in Thread : pc'[u] # "wake_all"
  <1> DEFINE me == current_thread
             st == [state EXCEPT ![me] = "BLOCKED"]
  <1>1. /\ pc[me] = "user" /\ state[me] = "RUNNING" /\ me \in Thread
        /\ timer[me] = "none"
    BY Parts, NoTimerInUser DEF WaitQueueBlock, Calling, ThreadInv, OnCPU
  <1>2. /\ \E rq, rem, count : thread_resched(st, rq, rem, count)
        /\ pc' = [pc EXCEPT ![me] = "wait"]
        /\ wait_list' = [wait_list EXCEPT ![w] = Append(@, me)]
        /\ wait_count' = [wait_count EXCEPT ![w] = @ + 1]
        /\ blocking_wait_queue' = [blocking_wait_queue EXCEPT ![me] = w]
        /\ wait_queue_block_ret' =
             [wait_queue_block_ret EXCEPT ![me] = "NO_ERROR"]
        /\ timer' = IF timeout = "FINITE"
                    THEN [timer EXCEPT ![me] = "wait"] ELSE timer
    BY DEF WaitQueueBlock, wait_queue_block, goto, list_add_tail
  <1>3. st \in [Thread -> State]
          /\ \A u \in Thread : st[u] = IF u = me THEN "BLOCKED" ELSE state[u]
    BY <1>1, Parts DEF State
  <1>4. Waiting(st, wait_list', wait_count', blocking_wait_queue')
    BY <1>1, <1>2, Parts, WaitAdd DEF OthersTyped, list_add_tail
  <1> HIDE DEF st
  <1>5. \A u \in Thread : state'[u] = "BLOCKED" <=> st[u] = "BLOCKED"
    BY <1>4, SameLists DEF ThreadInv, WaitQueueExact
  <1>6. \A u \in Thread : state'[u] = "FREE" => state[u] = "FREE"
    BY <1>2, <1>3, ReschedStates
  <1>7. \A u \in Thread : pc[u] # "wake_all"
    BY <1>1, Parts DEF ThreadInv, WakingUp
  <1>8. \A u \in Thread :
          /\ pc'[u] = IF u = me THEN "wait" ELSE pc[u]
          /\ blocking_wait_queue'[u] = IF u = me THEN w
                                       ELSE blocking_wait_queue[u]
          /\ u # me => /\ wait_queue_block_ret'[u] = wait_queue_block_ret[u]
                       /\ timer'[u] = timer[u]
          /\ timer'[me] = "wait" => timeout = "FINITE"
    BY <1>1, <1>2, Parts DEF OthersTyped
  <1>9. Blocked(w, timeout)
    BY <1>1, <1>3, <1>5, <1>6, <1>8 DEF Blocked
  <1> QED BY <1>1, <1>2, <1>7, <1>8, <1>9

\* A step in which the running thread comes out of its wait.
LEMMA BlockReturns ==
  ASSUME ThreadInv, ThreadInv', wait_queue_block_return
  PROVE  /\ pc[current_thread] = "wait" /\ pc'[current_thread] # "wait"
         /\ state[current_thread] # "BLOCKED"
         /\ UNCHANGED <<state, wait_vars>>
         /\ \A u \in Thread :
              /\ u # current_thread => (pc'[u] = "wait" <=> pc[u] = "wait")
              /\ timer'[u] = "wait" => timer[u] = "wait"
              /\ pc'[u] # "wake_all"
  <1>1. /\ pc[current_thread] = "wait"
        /\ pc' = [pc EXCEPT ![current_thread] = "user"]
        /\ UNCHANGED <<state, wait_vars>>
        /\ timer' = [timer EXCEPT ![current_thread] = "none"]
    BY DEF wait_queue_block_return, unwind, goto
  <1>2. \A u \in Thread : pc[u] # "wake_all"
    BY <1>1, Parts DEF ThreadInv, WakingUp
  <1>3. state[current_thread] = "RUNNING"
    BY <1>1 DEF ThreadInv, OnCPU
  <1> QED BY <1>1, <1>2, <1>3, Parts DEF OthersTyped

\* The start of wait_queue_wake_all takes nobody out of a wait yet.
LEMMA WakeAllBegins ==
  ASSUME ThreadInv, ThreadInv', NEW w \in WaitQueue, NEW reschedule \in BOOLEAN,
         NEW error \in Status, WaitQueueWakeAll(w, reschedule, error)
  PROVE  /\ Undisturbed
         /\ waking'.queue = w /\ waking'.error = error
         /\ current_thread' = current_thread
         /\ pc'[current_thread] = "wake_all"
  <1> DEFINE me == current_thread
  <1>1. /\ pc[me] = "user" /\ pc' = [pc EXCEPT ![me] = "wake_all"]
        /\ UNCHANGED <<wait_vars, timer, current_thread>>
        /\ state' = state \/ state' = [state EXCEPT ![me] = "READY"]
        /\ waking'.queue = w /\ waking'.error = error
    BY DEF WaitQueueWakeAll, Calling, wake_all_begin, goto
  <1>2. \A u \in Thread : state'[u] = "FREE" => state[u] = "FREE"
    BY <1>1, Parts
  <1>3. me \in Thread
    BY Parts
  <1>4. Undisturbed
    BY <1>1, <1>2, <1>3, QuietStep
  <1> QED BY <1>1, <1>3, <1>4, Parts
=============================================================================
