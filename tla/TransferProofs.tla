--------------------------- MODULE TransferProofs ---------------------------
(***************************************************************************)
(* The download engine keeps its two threads apart, puts every package     *)
(* where it belongs and tells the truth about it: proofs about module      *)
(* Transfer, for images of any length and with failures at any step.       *)
(***************************************************************************)
EXTENDS Transfer, FiniteSetTheorems, SequenceTheorems, TLAPS

-----------------------------------------------------------------------------
(* The invariant of the control: who may touch which cache, and when.      *)

Label ==
  [reader |-> {"idle", "fill", "read", "reading", "publish", "last", "stop0",
               "stop1", "stop2", "join_writer", "join_reader", "destroy"},
   writer |-> {"wait", "take", "write", "give_back", "stop0", "stop1",
               "stop2", "exited"}]

\* Neither part has begun to stop the engine.
ReaderRuns == pc["reader"] \in {"fill", "read", "reading", "publish", "last"}
WriterRuns == pc["writer"] \in {"wait", "take", "write", "give_back"}

\* A part that has been let through to cache i and not given it away.
ReaderHas(i) ==
  /\ pc["reader"] \in {"read", "reading", "publish", "last"} /\ flipIdxW = i
  /\ queue[cache_available(i)] = <<>>
WriterHas(i) ==
  /\ pc["writer"] \in {"take", "write", "give_back"} /\ flipIdxR = i
  /\ queue[content_available(i)] = <<>>

\* Every variable but the data has its type.
ControlTypes ==
  /\ pc \in [Part -> Label["reader"] \cup Label["writer"]]
  /\ pc["reader"] \in Label["reader"] /\ pc["writer"] \in Label["writer"]
  /\ signalled \in [{"content", "cache", "end"} \X Cache -> BOOLEAN]
  /\ queue \in [{"content", "cache", "end"} \X Cache -> Seq(Part)]
  /\ image \in Image /\ IsImage(image)
  /\ content \in [Cache -> 0..MaxPackages]
  /\ flipIdxR \in Cache /\ flipIdxW \in Cache
  /\ status_usb \in {"STATUS_OK", "STATUS_USB_ERR"}
  /\ status_storage \in {"STATUS_OK", "STATUS_EMMC_ERR", "STATUS_TOO_LARGE"}
  /\ bytes_already_read \in 0..image.length
  /\ {unsparse_status, bulk_status} \subseteq {"STATUS_OK", "STATUS_EMMC_ERR"}
  /\ {first_run, is_sparse, alive, trouble} \subseteq BOOLEAN

\* A part is in at most one queue, and only while it is at that wait.
QueuedAt(p, e, here) ==
  queue[e] = <<>> \/ (queue[e] = <<p>> /\ ~signalled[e] /\ here)
QueuesMatch ==
  /\ \A i \in Cache :
       /\ QueuedAt("writer", content_available(i),
                   pc["writer"] = "take" /\ flipIdxR = i)
       /\ QueuedAt("reader", cache_available(i),
                   pc["reader"] \in {"read", "last"} /\ flipIdxW = i)
  /\ QueuedAt("reader", thrR_end_ev, pc["reader"] = "join_reader")
  /\ QueuedAt("reader", thrW_end_ev, pc["reader"] = "destroy")

\* While both parts run, a cache is free, full, or in the hands of one part.
HandsApart(i) ==
  /\ signalled[cache_available(i)] =>
       ~ReaderHas(i) /\ ~WriterHas(i) /\ ~signalled[content_available(i)]
  /\ ReaderHas(i) => ~WriterHas(i) /\ ~signalled[content_available(i)]
  /\ WriterHas(i) => ~signalled[content_available(i)]
OneHand == (ReaderRuns /\ WriterRuns) => \A i \in Cache : HandsApart(i)

\* The end of the writer is what lets the reader end.
EndsInOrder ==
  /\ alive <=> pc["reader"] # "idle"
  /\ \/ signalled[thrR_end_ev]
     \/ pc["reader"] \in {"idle", "destroy"}
     \/ pc["reader"] = "join_reader" /\ queue[thrR_end_ev] = <<>>
     => pc["writer"] = "exited"

\* A part that has failed does not go on; how far the reader has come.
StatusStops ==
  /\ ReaderRuns => status_usb = "STATUS_OK"
  /\ WriterRuns => status_storage = "STATUS_OK"
  /\ pc["reader"] \in {"read", "reading"} => bytes_already_read < image.length
  /\ pc["reader"] = "publish" => bytes_already_read > 0
  /\ pc["reader"] = "last" => bytes_already_read = image.length

ControlInv ==
  /\ ControlTypes
  /\ QueuesMatch
  /\ OneHand
  /\ EndsInOrder
  /\ StatusStops

-----------------------------------------------------------------------------
(* The events of the engine.                                               *)

EventSet == {"content", "cache", "end"} \X Cache

\* They are six.
LEMMA EventNames ==
  /\ \A i \in Cache : /\ content_available(i) \in EventSet
                      /\ cache_available(i) \in EventSet
  /\ thrR_end_ev \in EventSet /\ thrW_end_ev \in EventSet
  /\ thrR_end_ev # thrW_end_ev
  /\ \A i, j \in Cache :
       /\ content_available(i) # cache_available(j)
       /\ content_available(i) = content_available(j) <=> i = j
       /\ cache_available(i) = cache_available(j) <=> i = j
       /\ content_available(i) # thrR_end_ev /\ content_available(i) # thrW_end_ev
       /\ cache_available(i) # thrR_end_ev /\ cache_available(i) # thrW_end_ev
  BY DEF EventSet, Cache, content_available, cache_available, thrR_end_ev,
         thrW_end_ev

\* A part that runs is in no queue.
LEMMA AwakeMeans ==
  ASSUME ControlInv
  PROVE  /\ ~Events!Asleep("reader") =>
              /\ \A i \in Cache : queue[cache_available(i)] = <<>>
              /\ queue[thrR_end_ev] = <<>> /\ queue[thrW_end_ev] = <<>>
         /\ ~Events!Asleep("writer") =>
              \A i \in Cache : queue[content_available(i)] = <<>>
  <1>1. ASSUME NEW p \in Part, NEW e \in EventSet, queue[e] = <<p>>
        PROVE  Events!Asleep(p)
    <2>1. 1 \in DOMAIN queue[e] /\ queue[e][1] = p
      BY <1>1
    <2> QED BY <2>1 DEF Events!Asleep, EventSet
  <1> QED BY <1>1, EventNames DEF ControlInv, QueuesMatch, QueuedAt, Part

\* event_wait by a part that runs.
LEMMA WaitEffect ==
  ASSUME ControlInv, NEW p \in Part, NEW e \in EventSet, queue[e] = <<>>,
         Events!Wait(e, p)
  PROVE  /\ signalled' \in [EventSet -> BOOLEAN]
         /\ queue' \in [EventSet -> Seq(Part)]
         /\ \A f \in EventSet : f # e => /\ signalled'[f] = signalled[f]
                                         /\ queue'[f] = queue[f]
         /\ ~signalled'[e]
         /\ queue'[e] = IF signalled[e] THEN <<>> ELSE <<p>>
  <1>1. /\ signalled \in [EventSet -> BOOLEAN]
        /\ queue \in [EventSet -> Seq(Part)]
    BY DEF ControlInv, ControlTypes, EventSet
  <1>2. CASE signalled[e]
    BY <1>1, <1>2 DEF Events!Wait
  <1>3. CASE ~signalled[e]
    <2>1. queue' = [queue EXCEPT ![e] = Append(queue[e], p)]
            /\ signalled' = signalled
      BY <1>3 DEF Events!Wait
    <2>2. Append(queue[e], p) = <<p>> /\ <<p>> \in Seq(Part)
      OBVIOUS
    <2> QED BY <1>1, <1>3, <2>1, <2>2
  <1> QED BY <1>2, <1>3

\* event_signal: it may be for a part in the queue.
LEMMA SignalEffect ==
  ASSUME ControlInv, NEW e \in EventSet, Events!Signal(e),
         queue[e] = <<>> \/ \E p \in Part : queue[e] = <<p>>
  PROVE  /\ signalled' \in [EventSet -> BOOLEAN]
         /\ queue' \in [EventSet -> Seq(Part)]
         /\ \A f \in EventSet : f # e => /\ signalled'[f] = signalled[f]
                                         /\ queue'[f] = queue[f]
         /\ signalled[e] => signalled'[e] /\ queue'[e] = queue[e]
         /\ ~signalled[e] =>
              /\ queue'[e] = <<>>
              /\ signalled'[e] <=> queue[e] = <<>>
  <1>1. /\ signalled \in [EventSet -> BOOLEAN]
        /\ queue \in [EventSet -> Seq(Part)]
    BY DEF ControlInv, ControlTypes, EventSet
  <1>2. CASE signalled[e]
    BY <1>1, <1>2 DEF Events!Signal, Events!auto_event_vars
  <1>3. CASE ~signalled[e] /\ queue[e] = <<>>
    BY <1>1, <1>3 DEF Events!Signal
  <1>4. CASE ~signalled[e] /\ queue[e] # <<>>
    <2>1. queue' = [queue EXCEPT ![e] = Tail(queue[e])]
            /\ signalled' = signalled
      BY <1>4 DEF Events!Signal
    <2>2. PICK p \in Part : queue[e] = <<p>>
      BY <1>4
    <2>3. Tail(<<p>>) = <<>> /\ <<>> \in Seq(Part)
      OBVIOUS
    <2> QED BY <1>1, <1>4, <2>1, <2>2, <2>3
  <1> QED BY <1>2, <1>3, <1>4

\* No queue is longer.
LEMMA ShortQueues ==
  ASSUME ControlInv, NEW e \in EventSet
  PROVE  queue[e] = <<>> \/ \E p \in Part : queue[e] = <<p>>
  <1>1. \/ \E i \in Cache : e = content_available(i) \/ e = cache_available(i)
        \/ e = thrR_end_ev \/ e = thrW_end_ev
    BY DEF EventSet, Cache, content_available, cache_available, thrR_end_ev,
           thrW_end_ev
  <1> QED BY <1>1 DEF ControlInv, QueuesMatch, QueuedAt, Part

-----------------------------------------------------------------------------
(* Each step keeps the threads apart.                                      *)

\* What the steps may rely on, by name.
LEMMA ControlParts ==
  ASSUME ControlInv
  PROVE  /\ pc \in [Part -> Label["reader"] \cup Label["writer"]]
         /\ pc["reader"] \in Label["reader"] /\ pc["writer"] \in Label["writer"]
         /\ flipIdxR \in Cache /\ flipIdxW \in Cache
         /\ image.length \in 1..MaxPackages /\ MaxPackages \in Nat \ {0}
         /\ bytes_already_read \in 0..image.length
         /\ content \in [Cache -> 0..MaxPackages]
         /\ signalled \in [EventSet -> BOOLEAN]
         /\ queue \in [EventSet -> Seq(Part)]
  BY TransferAssumption DEF ControlInv, ControlTypes, Image, EventSet

\* Where a part goes, the other stays.
LEMMA GoneTo ==
  ASSUME ControlInv, NEW p \in Part, NEW next \in Label[p], Goto(p, next)
  PROVE  /\ pc' \in [Part -> Label["reader"] \cup Label["writer"]]
         /\ pc'["reader"] \in Label["reader"] /\ pc'["writer"] \in Label["writer"]
         /\ pc'[p] = next
         /\ \A q \in Part : q # p => pc'[q] = pc[q]
  <1>1. p = "reader" \/ p = "writer"
    BY DEF Part
  <1>2. next \in Label["reader"] \cup Label["writer"]
    BY <1>1
  <1>3. pc' = [pc EXCEPT ![p] = next]
    BY DEF Goto
  <1>4. pc' \in [Part -> Label["reader"] \cup Label["writer"]]
          /\ pc'[p] = next /\ \A q \in Part : q # p => pc'[q] = pc[q]
    BY <1>2, <1>3, ControlParts
  <1> QED BY <1>1, <1>4, ControlParts DEF Part

LEMMA WaitForCacheStep ==
  ASSUME ControlInv, WaitForCache
  PROVE  ControlInv'
  <1> DEFINE w == flipIdxW
             e == cache_available(w)
             next == IF bytes_already_read < image.length THEN "read" ELSE "last"
  <1>1. /\ pc["reader"] = "fill" /\ ~Events!Asleep("reader")
        /\ Events!Wait(e, "reader") /\ Goto("reader", next)
        /\ UNCHANGED <<image, engine_vars, write_vars, trouble, verdict>>
    BY DEF WaitForCache, At
  <1>2. /\ w \in Cache /\ e \in EventSet /\ "reader" \in Part
        /\ next \in Label["reader"]
    BY ControlParts, EventNames DEF Part, Label
  <1>3. queue[e] = <<>>
    BY <1>1, <1>2, AwakeMeans
  <1>4. /\ pc' \in [Part -> Label["reader"] \cup Label["writer"]]
        /\ pc'["reader"] = next /\ pc'["writer"] = pc["writer"]
    BY <1>1, <1>2, GoneTo DEF Part
  <1>5. /\ signalled' \in [EventSet -> BOOLEAN]
        /\ queue' \in [EventSet -> Seq(Part)]
        /\ \A f \in EventSet : f # e => /\ signalled'[f] = signalled[f]
                                        /\ queue'[f] = queue[f]
        /\ ~signalled'[e]
        /\ queue'[e] = IF signalled[e] THEN <<>> ELSE <<"reader">>
    BY <1>1, <1>2, <1>3, WaitEffect
  <1>6. ControlTypes'
    BY <1>1, <1>2, <1>4, <1>5, ControlParts
       DEF ControlInv, ControlTypes, EventSet, engine_vars, write_vars
  <1>7. UNCHANGED <<flipIdxR, flipIdxW, status_usb, status_storage,
                    bytes_already_read, alive, image>>
    BY <1>1 DEF engine_vars
  <1>8. QueuesMatch'
    BY <1>1, <1>2, <1>3, <1>4, <1>5, <1>7, EventNames
       DEF ControlInv, QueuesMatch, QueuedAt
  <1>9. OneHand'
    <2> SUFFICES ASSUME ReaderRuns', WriterRuns', NEW i \in Cache
                 PROVE  HandsApart(i)'
      BY DEF OneHand
    <2>1. ReaderRuns /\ WriterRuns
      BY <1>1, <1>4 DEF ReaderRuns, WriterRuns
    <2>2. /\ WriterHas(i)' <=> WriterHas(i)
          /\ signalled'[content_available(i)] = signalled[content_available(i)]
      BY <1>2, <1>4, <1>5, <1>7, EventNames
         DEF WriterHas, content_available, cache_available
    <2>3. ReaderHas(i)' => i = w /\ signalled[e]
      <3>1. <<"reader">> # <<>>
        OBVIOUS
      <3>2. ReaderHas(i)' => flipIdxW' = i /\ queue'[cache_available(i)] = <<>>
        BY DEF ReaderHas, cache_available
      <3> QED BY <1>5, <1>7, <3>1, <3>2
    <2>5. signalled'[cache_available(i)] =>
            i # w /\ signalled[cache_available(i)]
      BY <1>2, <1>5, EventNames
    <2>4. ~ReaderHas(i)
      BY <1>1 DEF ReaderHas
    <2> QED BY <2>1, <2>2, <2>3, <2>4, <2>5
            DEF ControlInv, OneHand, HandsApart, cache_available,
                content_available
  <1>10. EndsInOrder'
    BY <1>1, <1>2, <1>4, <1>5, <1>7, EventNames DEF ControlInv, EndsInOrder
  <1>11. StatusStops'
    BY <1>1, <1>4, <1>7, ControlParts
       DEF ControlInv, StatusStops, ReaderRuns, WriterRuns
  <1> QED BY <1>6, <1>8, <1>9, <1>10, <1>11 DEF ControlInv

\* A step of one part that leaves the events alone, and whatever the other
\* may look at.
LEMMA QuietStep ==
  ASSUME ControlInv, NEW p \in Part, NEW next \in Label[p], Goto(p, next),
         ~Events!Asleep(p),
         UNCHANGED <<event_vars, image, flipIdxR, flipIdxW, alive>>,
         p = "reader" => /\ pc[p] \in {"read", "reading"}
                         /\ next \in {"reading", "publish", "stop0"},
         p = "writer" => /\ pc[p] \in {"take", "write"}
                         /\ next \in {"write", "give_back", "stop0"},
         content' \in [Cache -> 0..MaxPackages],
         status_usb' \in {"STATUS_OK", "STATUS_USB_ERR"},
         status_storage' \in {"STATUS_OK", "STATUS_EMMC_ERR",
                              "STATUS_TOO_LARGE"},
         bytes_already_read' \in 0..image.length,
         {unsparse_status', bulk_status'}
           \subseteq {"STATUS_OK", "STATUS_EMMC_ERR"},
         {first_run', is_sparse', trouble'} \subseteq BOOLEAN,
         p = "reader" => status_storage' = status_storage,
         p = "writer" => status_usb' = status_usb
                           /\ bytes_already_read' = bytes_already_read,
         next \in {"reading", "publish"} => status_usb' = "STATUS_OK",
         next \in {"write", "give_back"} => status_storage' = "STATUS_OK",
         next = "reading" => bytes_already_read' < image.length,
         next = "publish" => bytes_already_read' > 0
  PROVE  ControlInv'
  <1>1. /\ pc' \in [Part -> Label["reader"] \cup Label["writer"]]
        /\ pc'["reader"] \in Label["reader"] /\ pc'["writer"] \in Label["writer"]
        /\ pc'[p] = next
        /\ \A q \in Part : q # p => pc'[q] = pc[q]
    BY GoneTo
  <1>2. UNCHANGED <<signalled, queue, image, flipIdxR, flipIdxW, alive>>
    BY DEF event_vars
  <1>3. ControlTypes'
    BY <1>1, <1>2 DEF ControlInv, ControlTypes
  <1>4. QueuesMatch'
    <2>1. CASE p = "reader"
      <3>1. /\ \A i \in Cache : queue[cache_available(i)] = <<>>
            /\ queue[thrR_end_ev] = <<>> /\ queue[thrW_end_ev] = <<>>
        BY <2>1, AwakeMeans
      <3> QED BY <1>1, <1>2, <2>1, <3>1
              DEF ControlInv, QueuesMatch, QueuedAt, Part
    <2>2. CASE p = "writer"
      <3>1. \A i \in Cache : queue[content_available(i)] = <<>>
        BY <2>2, AwakeMeans
      <3> QED BY <1>1, <1>2, <2>2, <3>1
              DEF ControlInv, QueuesMatch, QueuedAt, Part
    <2> QED BY <2>1, <2>2 DEF Part
  <1>5. OneHand'
    <2> SUFFICES ASSUME ReaderRuns', WriterRuns', NEW i \in Cache
                 PROVE  HandsApart(i)'
      BY DEF OneHand
    <2>1. /\ p = "reader" \/ p = "writer"
          /\ p = "reader" => queue[cache_available(i)] = <<>>
          /\ p = "writer" => queue[content_available(i)] = <<>>
      BY AwakeMeans DEF Part
    <2>2. ReaderRuns /\ WriterRuns
      BY <1>1, <2>1 DEF ReaderRuns, WriterRuns, Part
    <2>3. (ReaderHas(i)' => ReaderHas(i)) /\ (WriterHas(i)' => WriterHas(i))
      BY <1>1, <1>2, <2>1
         DEF ReaderHas, WriterHas, cache_available, content_available, Part
    <2> QED BY <1>2, <2>2, <2>3
            DEF ControlInv, OneHand, HandsApart, cache_available,
                content_available
  <1>6. EndsInOrder'
    BY <1>1, <1>2 DEF ControlInv, EndsInOrder, Part, thrR_end_ev
  <1>7. StatusStops'
    BY <1>1, <1>2 DEF ControlInv, StatusStops, ReaderRuns, WriterRuns, Part
  <1> QED BY <1>3, <1>4, <1>5, <1>6, <1>7 DEF ControlInv

\* Steps inside a cache.
LEMMA StartReadStep ==
  ASSUME ControlInv, StartRead
  PROVE  ControlInv'
  <1>1. /\ pc["reader"] = "read" /\ ~Events!Asleep("reader")
        /\ content' = [content EXCEPT ![flipIdxW] = 0]
        /\ Goto("reader", "reading")
        /\ UNCHANGED <<event_vars, image, flipIdxR, flipIdxW, status_usb,
                       status_storage, bytes_already_read, unsparse_status,
                       bulk_status, first_run, is_sparse, alive, trouble>>
    BY DEF StartRead, At, write_vars
  <1>2. content' \in [Cache -> 0..MaxPackages] /\ "reading" \in Label["reader"]
    BY <1>1, ControlParts DEF Label
  <1>3. status_usb = "STATUS_OK" /\ bytes_already_read < image.length
    BY <1>1 DEF ControlInv, StatusStops, ReaderRuns
  <1> QED BY <1>1, <1>2, <1>3, QuietStep DEF ControlInv, ControlTypes, Part

LEMMA UsbReadStep ==
  ASSUME ControlInv, UsbRead
  PROVE  ControlInv'
  <1> DEFINE n == bytes_already_read
  <1>1. /\ pc["reader"] = "reading" /\ ~Events!Asleep("reader")
        /\ UNCHANGED <<event_vars, image, flipIdxR, flipIdxW, status_storage,
                       unsparse_status, bulk_status, first_run, is_sparse,
                       alive>>
    BY DEF UsbRead, At, write_vars
  <1>2. status_usb = "STATUS_OK" /\ n < image.length /\ n \in Nat
    BY <1>1, ControlParts DEF ControlInv, StatusStops, ReaderRuns
  <1>3. CASE /\ content' = [content EXCEPT ![flipIdxW] = n + 1]
             /\ bytes_already_read' = count(n)
             /\ Goto("reader", IF FAIL(status_usb) \/ FAIL(status_storage)
                               THEN "stop0" ELSE "publish")
             /\ UNCHANGED <<status_usb, trouble>>
    <2>1. /\ content' \in [Cache -> 0..MaxPackages]
          /\ bytes_already_read' \in 0..image.length /\ bytes_already_read' > 0
      BY <1>2, <1>3, ControlParts DEF count
    <2>2. \E next \in {"publish", "stop0"} : Goto("reader", next)
      BY <1>3
    <2>3. {"publish", "stop0"} \subseteq Label["reader"]
      BY DEF Label
    <2> QED BY <1>1, <1>2, <1>3, <2>1, <2>2, <2>3, QuietStep
            DEF ControlInv, ControlTypes, Part
  <1>4. CASE /\ status_usb' = "STATUS_USB_ERR" /\ trouble' = TRUE
             /\ Goto("reader", "stop0")
             /\ UNCHANGED <<content, bytes_already_read>>
    <2>1. "stop0" \in Label["reader"]
      BY DEF Label
    <2> QED BY <1>1, <1>4, <2>1, QuietStep DEF ControlInv, ControlTypes, Part
  <1> QED BY <1>3, <1>4 DEF UsbRead

LEMMA TakeContentStep ==
  ASSUME ControlInv, TakeContent
  PROVE  ControlInv'
  <1>1. /\ pc["writer"] = "take" /\ ~Events!Asleep("writer")
        /\ \E next \in {"write", "stop0"} : Goto("writer", next)
        /\ UNCHANGED <<event_vars, image, content, flipIdxR, flipIdxW,
                       status_usb, status_storage, bytes_already_read,
                       unsparse_status, bulk_status, first_run, is_sparse,
                       alive, trouble>>
    BY DEF TakeContent, At, write_vars, engine_vars
  <1>2. {"write", "stop0"} \subseteq Label["writer"]
    BY DEF Label
  <1>3. status_storage = "STATUS_OK"
    BY <1>1 DEF ControlInv, StatusStops, WriterRuns
  <1> QED BY <1>1, <1>2, <1>3, QuietStep DEF ControlInv, ControlTypes, Part

LEMMA WriteDataStep ==
  ASSUME ControlInv, NEW ok \in BOOLEAN, WriteData(ok)
  PROVE  ControlInv'
  <1>1. PICK sparse, i, too_large :
          /\ pc["writer"] = "write" /\ ~Events!Asleep("writer")
          /\ sparse \in BOOLEAN /\ is_sparse' = sparse
          /\ IF too_large
             THEN /\ unsparse_status' = IF sparse THEN "STATUS_OK"
                                        ELSE unsparse_status
                  /\ UNCHANGED <<first_run, bulk_status>>
             ELSE /\ first_run' = FALSE
                  /\ \/ \E offset : write_bulk(Body(i), offset, ok)
                     \/ \E units, rest, offset :
                          write_sparse(units, rest, offset, ok)
          /\ status_storage' = IF too_large THEN "STATUS_TOO_LARGE"
                               ELSE unsparse_status'
          /\ trouble' \in BOOLEAN
          /\ Goto("writer", after_write(status_storage', i))
          /\ UNCHANGED <<event_vars, image, content, flipIdxR, flipIdxW,
                         status_usb, bytes_already_read, alive>>
    BY DEF WriteData, At, ControlInv, ControlTypes
  <1>2. /\ unsparse_status' \in {"STATUS_OK", "STATUS_EMMC_ERR"}
        /\ bulk_status' \in {"STATUS_OK", "STATUS_EMMC_ERR"}
        /\ first_run' \in BOOLEAN
    BY <1>1 DEF ControlInv, ControlTypes, write_bulk, write_sparse
  <1>3. PICK next \in {"stop0", "give_back"} :
          /\ Goto("writer", next)
          /\ next = "give_back" => status_storage' = "STATUS_OK"
    BY <1>1 DEF after_write, FAIL
  <1>4. {"give_back", "stop0"} \subseteq Label["writer"]
    BY DEF Label
  <1>5. status_storage' \in {"STATUS_OK", "STATUS_EMMC_ERR",
                             "STATUS_TOO_LARGE"}
    BY <1>1, <1>2
  <1> QED BY <1>1, <1>2, <1>3, <1>4, <1>5, QuietStep
          DEF ControlInv, ControlTypes, Part

\* A part gives the cache it has to the other, who may be waiting for it.
LEMMA PublishStep ==
  ASSUME ControlInv, Publish
  PROVE  ControlInv'
  <1> PICK w \in Cache : w = flipIdxW
    BY ControlParts
  <1> DEFINE e == content_available(w)
  <1>1. /\ pc["reader"] = "publish" /\ ~Events!Asleep("reader")
        /\ Events!Signal(e) /\ Goto("reader", "fill")
        /\ flipIdxW' = cache_shift(flipIdxW)
        /\ UNCHANGED <<image, content, flipIdxR, status_usb, status_storage,
                       bytes_already_read, write_vars, alive, trouble>>
    BY DEF Publish, At
  <1>2. /\ w \in Cache /\ e \in EventSet /\ "reader" \in Part
        /\ "fill" \in Label["reader"] /\ flipIdxW' \in Cache
    BY <1>1, ControlParts, EventNames DEF Part, Label, Cache, cache_shift
  <1>3. /\ pc' \in [Part -> Label["reader"] \cup Label["writer"]]
        /\ pc'["reader"] = "fill" /\ pc'["writer"] = pc["writer"]
    BY <1>1, <1>2, GoneTo DEF Part
  <1>4. /\ signalled' \in [EventSet -> BOOLEAN]
        /\ queue' \in [EventSet -> Seq(Part)]
        /\ \A f \in EventSet : f # e => /\ signalled'[f] = signalled[f]
                                        /\ queue'[f] = queue[f]
        /\ signalled[e] => signalled'[e] /\ queue'[e] = queue[e]
        /\ ~signalled[e] => /\ queue'[e] = <<>>
                            /\ signalled'[e] <=> queue[e] = <<>>
    BY <1>1, <1>2, SignalEffect, ShortQueues
  <1>5. ControlTypes'
    BY <1>1, <1>2, <1>3, <1>4, ControlParts
       DEF ControlInv, ControlTypes, EventSet, write_vars
  <1>6. /\ \A i \in Cache : queue[cache_available(i)] = <<>>
        /\ queue[thrR_end_ev] = <<>> /\ queue[thrW_end_ev] = <<>>
    BY <1>1, AwakeMeans
  <1>7. \A i \in Cache : QueuedAt("writer", content_available(i),
                                  pc["writer"] = "take" /\ flipIdxR = i)
    BY DEF ControlInv, QueuesMatch
  <1>8. QueuesMatch'
    <2>1. ASSUME NEW i \in Cache
          PROVE  /\ \/ queue'[content_available(i)] = <<>>
                    \/ /\ queue'[content_available(i)] = <<"writer">>
                       /\ ~signalled'[content_available(i)]
                       /\ pc'["writer"] = "take" /\ flipIdxR' = i
                 /\ queue'[cache_available(i)] = <<>>
      <3>1. queue'[cache_available(i)] = <<>>
        BY <1>2, <1>4, <1>6, EventNames
      <3>2. CASE i = w
        BY <1>1, <1>3, <1>4, <1>7, <3>1, <3>2 DEF QueuedAt
      <3>3. CASE i # w
        BY <1>1, <1>2, <1>3, <1>4, <1>7, <3>1, <3>3, EventNames DEF QueuedAt
      <3> QED BY <3>2, <3>3
    <2>2. queue'[thrR_end_ev] = <<>> /\ queue'[thrW_end_ev] = <<>>
      BY <1>2, <1>4, <1>6, EventNames
    <2> QED BY <2>1, <2>2 DEF QueuesMatch, QueuedAt, cache_available,
                              content_available, thrR_end_ev, thrW_end_ev
  <1>9. OneHand'
    <2> SUFFICES ASSUME ReaderRuns', WriterRuns', NEW i \in Cache
                 PROVE  HandsApart(i)'
      BY DEF OneHand
    <2>1. ReaderRuns /\ WriterRuns
      BY <1>1, <1>3 DEF ReaderRuns, WriterRuns
    <2>2. HandsApart(i) /\ ~ReaderHas(i)'
      BY <1>3, <2>1 DEF ControlInv, OneHand, ReaderHas
    <2>3. signalled'[cache_available(i)] = signalled[cache_available(i)]
      BY <1>2, <1>4, EventNames
    <2>4. CASE i # w
      <3>1. /\ WriterHas(i)' <=> WriterHas(i)
            /\ signalled'[content_available(i)] = signalled[content_available(i)]
        BY <1>1, <1>2, <1>3, <1>4, <2>4, EventNames
           DEF WriterHas, content_available
      <3> QED BY <2>2, <2>3, <3>1
              DEF HandsApart, cache_available, content_available
    <2>5. CASE i = w
      <3>1. ReaderHas(w)
        BY <1>1, <1>2, <1>6 DEF ReaderHas
      <3>2. ~signalled[cache_available(w)] /\ ~WriterHas(w) /\ ~signalled[e]
        BY <2>2, <2>5, <3>1 DEF HandsApart
      <3>3. WriterHas(w)' => ~signalled'[e]
        <4>1. ASSUME WriterHas(w)', queue[e] = <<>> PROVE FALSE
          <5>1. /\ pc["writer"] \in {"take", "write", "give_back"}
                /\ flipIdxR = w
            BY <1>1, <1>3, <4>1 DEF WriterHas
          <5> QED BY <3>2, <4>1, <5>1 DEF WriterHas
        <4> QED BY <1>4, <3>2, <4>1
      <3> QED BY <2>2, <2>3, <2>5, <3>2, <3>3
              DEF HandsApart, cache_available, content_available
    <2> QED BY <2>4, <2>5
  <1>10. EndsInOrder'
    BY <1>1, <1>2, <1>3, <1>4, EventNames DEF ControlInv, EndsInOrder
  <1>11. StatusStops'
    BY <1>1, <1>3 DEF ControlInv, StatusStops, ReaderRuns, WriterRuns
  <1> QED BY <1>5, <1>8, <1>9, <1>10, <1>11 DEF ControlInv

LEMMA GiveBackStep ==
  ASSUME ControlInv, GiveBack
  PROVE  ControlInv'
  <1> PICK w \in Cache : w = flipIdxR
    BY ControlParts
  <1> DEFINE e == cache_available(w)
  <1>1. /\ pc["writer"] = "give_back" /\ ~Events!Asleep("writer")
        /\ Events!Signal(e) /\ Goto("writer", "wait")
        /\ flipIdxR' = cache_shift(flipIdxR)
        /\ UNCHANGED <<image, content, flipIdxW, status_usb, status_storage,
                       bytes_already_read, write_vars, alive, trouble>>
    BY DEF GiveBack, At
  <1>2. /\ w \in Cache /\ e \in EventSet /\ "writer" \in Part
        /\ "wait" \in Label["writer"] /\ flipIdxR' \in Cache
    BY <1>1, ControlParts, EventNames DEF Part, Label, Cache, cache_shift
  <1>3. /\ pc' \in [Part -> Label["reader"] \cup Label["writer"]]
        /\ pc'["writer"] = "wait" /\ pc'["reader"] = pc["reader"]
    BY <1>1, <1>2, GoneTo DEF Part
  <1>4. /\ signalled' \in [EventSet -> BOOLEAN]
        /\ queue' \in [EventSet -> Seq(Part)]
        /\ \A f \in EventSet : f # e => /\ signalled'[f] = signalled[f]
                                        /\ queue'[f] = queue[f]
        /\ signalled[e] => signalled'[e] /\ queue'[e] = queue[e]
        /\ ~signalled[e] => /\ queue'[e] = <<>>
                            /\ signalled'[e] <=> queue[e] = <<>>
    BY <1>1, <1>2, SignalEffect, ShortQueues
  <1>5. ControlTypes'
    BY <1>1, <1>2, <1>3, <1>4, ControlParts
       DEF ControlInv, ControlTypes, EventSet, write_vars
  <1>6. \A i \in Cache : queue[content_available(i)] = <<>>
    BY <1>1, AwakeMeans
  <1>7. /\ \A i \in Cache :
             QueuedAt("reader", cache_available(i),
                      pc["reader"] \in {"read", "last"} /\ flipIdxW = i)
        /\ QueuedAt("reader", thrR_end_ev, pc["reader"] = "join_reader")
        /\ QueuedAt("reader", thrW_end_ev, pc["reader"] = "destroy")
    BY DEF ControlInv, QueuesMatch
  <1>8. QueuesMatch'
    <2>1. ASSUME NEW i \in Cache
          PROVE  /\ \/ queue'[cache_available(i)] = <<>>
                    \/ /\ queue'[cache_available(i)] = <<"reader">>
                       /\ ~signalled'[cache_available(i)]
                       /\ pc'["reader"] \in {"read", "last"} /\ flipIdxW' = i
                 /\ queue'[content_available(i)] = <<>>
      <3>0. content_available(i) \in EventSet /\ content_available(i) # e
        BY EventNames
      <3>1. queue'[content_available(i)] = <<>>
        BY <1>4, <1>6, <3>0
      <3>2. CASE i = w
        BY <1>1, <1>3, <1>4, <1>7, <3>1, <3>2 DEF QueuedAt
      <3>3. CASE i # w
        BY <1>1, <1>2, <1>3, <1>4, <1>7, <3>1, <3>3, EventNames DEF QueuedAt
      <3> QED BY <3>2, <3>3
    <2>2. \A f \in {thrR_end_ev, thrW_end_ev} :
            queue'[f] = queue[f] /\ signalled'[f] = signalled[f]
      BY <1>2, <1>4, EventNames
    <2> QED BY <1>3, <1>7, <2>1, <2>2
            DEF QueuesMatch, QueuedAt, cache_available, content_available,
                thrR_end_ev, thrW_end_ev
  <1>9. OneHand'
    <2> SUFFICES ASSUME ReaderRuns', WriterRuns', NEW i \in Cache
                 PROVE  HandsApart(i)'
      BY DEF OneHand
    <2>1. ReaderRuns /\ WriterRuns
      BY <1>1, <1>3 DEF ReaderRuns, WriterRuns
    <2>2. HandsApart(i) /\ ~WriterHas(i)'
      BY <1>3, <2>1 DEF ControlInv, OneHand, WriterHas
    <2>3. signalled'[content_available(i)] = signalled[content_available(i)]
      BY <1>2, <1>4, EventNames
    <2>4. CASE i # w
      <3>1. /\ ReaderHas(i)' <=> ReaderHas(i)
            /\ signalled'[cache_available(i)] = signalled[cache_available(i)]
        BY <1>1, <1>2, <1>3, <1>4, <2>4, EventNames
           DEF ReaderHas, cache_available
      <3> QED BY <2>2, <2>3, <3>1
              DEF HandsApart, cache_available, content_available
    <2>5. CASE i = w
      <3>1. WriterHas(w)
        BY <1>1, <1>2, <1>6 DEF WriterHas
      <3>2. /\ ~signalled[cache_available(w)] /\ ~ReaderHas(w)
            /\ ~signalled[content_available(w)]
        BY <2>2, <2>5, <3>1 DEF HandsApart
      <3>3. ReaderHas(w)' => ~signalled'[e]
        <4>1. ASSUME ReaderHas(w)', queue[e] = <<>> PROVE FALSE
          <5>1. /\ pc["reader"] \in {"read", "reading", "publish", "last"}
                /\ flipIdxW = w
            BY <1>1, <1>3, <4>1 DEF ReaderHas
          <5> QED BY <3>2, <4>1, <5>1 DEF ReaderHas
        <4> QED BY <1>4, <3>2, <4>1
      <3> QED BY <2>2, <2>3, <2>5, <3>2, <3>3
              DEF HandsApart, cache_available, content_available
    <2> QED BY <2>4, <2>5
  <1>10. EndsInOrder'
    BY <1>1, <1>2, <1>3, <1>4, EventNames
       DEF ControlInv, EndsInOrder, thrR_end_ev
  <1>11. StatusStops'
    BY <1>1, <1>3 DEF ControlInv, StatusStops, ReaderRuns, WriterRuns
  <1> QED BY <1>5, <1>8, <1>9, <1>10, <1>11 DEF ControlInv

LEMMA WaitForContentStep ==
  ASSUME ControlInv, WaitForContent
  PROVE  ControlInv'
  <1> PICK w \in Cache : w = flipIdxR
    BY ControlParts
  <1> DEFINE e == content_available(w)
  <1>1. /\ pc["writer"] = "wait" /\ ~Events!Asleep("writer")
        /\ Events!Wait(e, "writer") /\ Goto("writer", "take")
        /\ UNCHANGED <<image, engine_vars, write_vars, trouble>>
    BY DEF WaitForContent, At
  <1>2. /\ e \in EventSet /\ "writer" \in Part /\ "take" \in Label["writer"]
    BY EventNames DEF Part, Label
  <1>3. \A i \in Cache : queue[content_available(i)] = <<>>
    BY <1>1, AwakeMeans
  <1>4. /\ pc' \in [Part -> Label["reader"] \cup Label["writer"]]
        /\ pc'["writer"] = "take" /\ pc'["reader"] = pc["reader"]
    BY <1>1, <1>2, GoneTo DEF Part
  <1>5. /\ signalled' \in [EventSet -> BOOLEAN]
        /\ queue' \in [EventSet -> Seq(Part)]
        /\ \A f \in EventSet : f # e => /\ signalled'[f] = signalled[f]
                                        /\ queue'[f] = queue[f]
        /\ ~signalled'[e]
        /\ queue'[e] = IF signalled[e] THEN <<>> ELSE <<"writer">>
    BY <1>1, <1>2, <1>3, WaitEffect
  <1>6. UNCHANGED <<flipIdxR, flipIdxW, status_usb, status_storage, content,
                    bytes_already_read, alive, image>>
    BY <1>1 DEF engine_vars
  <1>7. ControlTypes'
    BY <1>1, <1>2, <1>4, <1>5, <1>6, ControlParts
       DEF ControlInv, ControlTypes, EventSet, write_vars
  <1>8. QueuesMatch'
    BY <1>1, <1>2, <1>3, <1>4, <1>5, <1>6, EventNames, ZenonT(60)
       DEF ControlInv, QueuesMatch, QueuedAt
  <1>9. OneHand'
    <2> SUFFICES ASSUME ReaderRuns', WriterRuns', NEW i \in Cache
                 PROVE  HandsApart(i)'
      BY DEF OneHand
    <2>1. ReaderRuns /\ WriterRuns
      BY <1>1, <1>4 DEF ReaderRuns, WriterRuns
    <2>2. /\ ReaderHas(i)' <=> ReaderHas(i)
          /\ signalled'[cache_available(i)] = signalled[cache_available(i)]
      BY <1>2, <1>4, <1>5, <1>6, EventNames DEF ReaderHas, cache_available
    <2>3. WriterHas(i)' => i = w /\ signalled[e]
      <3>1. <<"writer">> # <<>>
        OBVIOUS
      <3>2. WriterHas(i)' => flipIdxR' = i /\ queue'[content_available(i)] = <<>>
        BY DEF WriterHas, content_available
      <3> QED BY <1>5, <1>6, <3>1, <3>2
    <2>4. ~WriterHas(i)
      BY <1>1 DEF WriterHas
    <2>5. signalled'[content_available(i)] =>
            i # w /\ signalled[content_available(i)]
      BY <1>2, <1>5, EventNames
    <2> QED BY <2>1, <2>2, <2>3, <2>4, <2>5
            DEF ControlInv, OneHand, HandsApart, cache_available,
                content_available
  <1>10. EndsInOrder'
    BY <1>1, <1>2, <1>4, <1>5, <1>6, EventNames
       DEF ControlInv, EndsInOrder, thrR_end_ev
  <1>11. StatusStops'
    BY <1>1, <1>4, <1>6 DEF ControlInv, StatusStops, ReaderRuns, WriterRuns
  <1> QED BY <1>7, <1>8, <1>9, <1>10, <1>11 DEF ControlInv

\* A part on its way out signals, and whoever waits may go on.
LEMMA SignalStep ==
  ASSUME ControlInv, NEW p \in Part, NEW next \in Label[p], NEW e \in EventSet,
         Events!Signal(e), Goto(p, next), ~Events!Asleep(p),
         pc[p] \notin {"idle", "exited"},
         next \in {"stop0", "stop1", "stop2", "join_writer", "exited"},
         e = thrR_end_ev => next = "exited",
         content' \in [Cache -> 0..MaxPackages],
         UNCHANGED <<image, flipIdxR, flipIdxW, status_usb, status_storage,
                     bytes_already_read, write_vars, alive, trouble>>
  PROVE  ControlInv'
  <1>1. /\ pc' \in [Part -> Label["reader"] \cup Label["writer"]]
        /\ pc'["reader"] \in Label["reader"] /\ pc'["writer"] \in Label["writer"]
        /\ pc'[p] = next
        /\ \A q \in Part : q # p => pc'[q] = pc[q]
    BY GoneTo
  <1>2. /\ signalled' \in [EventSet -> BOOLEAN]
        /\ queue' \in [EventSet -> Seq(Part)]
        /\ \A f \in EventSet : f # e => /\ signalled'[f] = signalled[f]
                                        /\ queue'[f] = queue[f]
        /\ signalled[e] => signalled'[e] /\ queue'[e] = queue[e]
        /\ ~signalled[e] => /\ queue'[e] = <<>>
                            /\ signalled'[e] <=> queue[e] = <<>>
    BY SignalEffect, ShortQueues
  <1>3. ControlTypes'
    BY <1>1, <1>2 DEF ControlInv, ControlTypes, EventSet, write_vars
  <1>4. \A f \in EventSet :
          \/ queue'[f] = <<>>
          \/ queue'[f] = queue[f] /\ (~signalled[f] => ~signalled'[f])
    BY <1>2
  <1>5. CASE p = "reader"
    <2>1. /\ pc'["writer"] = pc["writer"] /\ e # thrR_end_ev
          /\ pc'["reader"] \in {"stop0", "stop1", "stop2", "join_writer"}
      BY <1>1, <1>5 DEF Part, Label
    <2>2. /\ \A i \in Cache : queue[cache_available(i)] = <<>>
          /\ queue[thrR_end_ev] = <<>> /\ queue[thrW_end_ev] = <<>>
      BY <1>5, AwakeMeans
    <2>3. QueuesMatch'
      <3>1. /\ \A i \in Cache : queue'[cache_available(i)] = <<>>
            /\ queue'[thrR_end_ev] = <<>> /\ queue'[thrW_end_ev] = <<>>
        BY <1>4, <2>2, EventNames
      <3>2. \A i \in Cache :
              QueuedAt("writer", content_available(i),
                       pc["writer"] = "take" /\ flipIdxR = i)'
        <4> TAKE i \in Cache
        <4>1. QueuedAt("writer", content_available(i),
                       pc["writer"] = "take" /\ flipIdxR = i)
          BY DEF ControlInv, QueuesMatch
        <4>2. content_available(i) \in EventSet
          BY EventNames
        <4> QED BY <1>4, <2>1, <4>1, <4>2 DEF QueuedAt, content_available
      <3> QED BY <3>1, <3>2 DEF QueuesMatch, QueuedAt, cache_available,
                                thrR_end_ev, thrW_end_ev
    <2>4. signalled'[thrR_end_ev] = signalled[thrR_end_ev]
      BY <1>2, <2>1, EventNames
    <2>5. EndsInOrder'
      BY <1>5, <2>1, <2>4 DEF ControlInv, EndsInOrder, thrR_end_ev
    <2>6. OneHand' /\ StatusStops'
      BY <2>1 DEF ControlInv, OneHand, StatusStops, ReaderRuns, WriterRuns
    <2> QED BY <1>3, <2>3, <2>5, <2>6 DEF ControlInv
  <1>6. CASE p = "writer"
    <2>1. /\ pc'["reader"] = pc["reader"]
          /\ pc'["writer"] \in {"stop0", "stop1", "stop2", "exited"}
      BY <1>1, <1>6 DEF Part, Label
    <2>2. \A i \in Cache : queue[content_available(i)] = <<>>
      BY <1>6, AwakeMeans
    <2>3. QueuesMatch'
      <3>1. \A i \in Cache : queue'[content_available(i)] = <<>>
        BY <1>4, <2>2, EventNames
      <3>2. \A i \in Cache :
              QueuedAt("reader", cache_available(i),
                       pc["reader"] \in {"read", "last"} /\ flipIdxW = i)'
        <4> TAKE i \in Cache
        <4>1. QueuedAt("reader", cache_available(i),
                       pc["reader"] \in {"read", "last"} /\ flipIdxW = i)
          BY DEF ControlInv, QueuesMatch
        <4>2. cache_available(i) \in EventSet
          BY EventNames
        <4> QED BY <1>4, <2>1, <4>1, <4>2 DEF QueuedAt, cache_available
      <3>3. /\ QueuedAt("reader", thrR_end_ev, pc["reader"] = "join_reader")'
            /\ QueuedAt("reader", thrW_end_ev, pc["reader"] = "destroy")'
        BY <1>4, <2>1, EventNames
           DEF ControlInv, QueuesMatch, QueuedAt, thrR_end_ev, thrW_end_ev
      <3> QED BY <3>1, <3>2, <3>3 DEF QueuesMatch, QueuedAt, content_available
    <2>4. ~ \/ signalled[thrR_end_ev]
            \/ pc["reader"] \in {"idle", "destroy"}
            \/ pc["reader"] = "join_reader" /\ queue[thrR_end_ev] = <<>>
      BY <1>6 DEF ControlInv, EndsInOrder
    <2>5. EndsInOrder'
      <3>1. CASE e = thrR_end_ev
        BY <1>1, <1>6, <2>1, <3>1 DEF ControlInv, EndsInOrder
      <3>2. CASE e # thrR_end_ev
        <4>1. /\ signalled'[thrR_end_ev] = signalled[thrR_end_ev]
              /\ queue'[thrR_end_ev] = queue[thrR_end_ev]
          BY <1>2, <3>2, EventNames
        <4> QED BY <2>1, <2>4, <4>1 DEF ControlInv, EndsInOrder, thrR_end_ev
      <3> QED BY <3>1, <3>2
    <2>6. OneHand' /\ StatusStops'
      BY <2>1 DEF ControlInv, OneHand, StatusStops, ReaderRuns, WriterRuns
    <2> QED BY <1>3, <2>3, <2>5, <2>6 DEF ControlInv
  <1> QED BY <1>5, <1>6 DEF Part

LEMMA LastPackageStep ==
  ASSUME ControlInv, LastPackage
  PROVE  ControlInv'
  <1> PICK w \in Cache : w = flipIdxW
    BY ControlParts
  <1>1. /\ pc["reader"] = "last" /\ ~Events!Asleep("reader")
        /\ content' = [content EXCEPT ![w] = 0]
        /\ Events!Signal(content_available(w)) /\ Goto("reader", "stop0")
        /\ UNCHANGED <<image, flipIdxR, flipIdxW, status_usb, status_storage,
                       bytes_already_read, write_vars, alive, trouble>>
    BY DEF LastPackage, At
  <1>2. /\ content_available(w) \in EventSet
        /\ content_available(w) # thrR_end_ev
        /\ "reader" \in Part /\ "stop0" \in Label["reader"]
    BY EventNames DEF Part, Label
  <1>3. content' \in [Cache -> 0..MaxPackages]
    BY <1>1, ControlParts
  <1> QED BY <1>1, <1>2, <1>3, SignalStep

LEMMA StopEngineStep ==
  ASSUME ControlInv, NEW p \in Part, StopEngine(p)
  PROVE  ControlInv'
  <1>1. PICK n \in 0..2 :
          /\ At(p, <<"stop0", "stop1", "stop2">>[n + 1])
          /\ Events!Signal(stop_event(p, n))
          /\ Goto(p, CASE n = 0 -> "stop1"
                       [] n = 1 -> "stop2"
                       [] n = 2 -> IF p = "reader" THEN "join_writer"
                                   ELSE "exited")
          /\ UNCHANGED <<image, engine_vars, write_vars, trouble, verdict>>
    BY DEF StopEngine
  <1>2. n = 0 \/ n = 1 \/ n = 2
    OBVIOUS
  <1>3. pc[p] \in {"stop0", "stop1", "stop2"} /\ ~Events!Asleep(p)
    BY <1>1, <1>2 DEF At
  <1>4. PICK next \in Label[p] :
          /\ Goto(p, next)
          /\ next \in {"stop1", "stop2", "join_writer", "exited"}
          /\ (n = 2 /\ p = "writer") => next = "exited"
    BY <1>1, <1>2 DEF Part, Label
  <1>5. PICK e \in EventSet :
          e = stop_event(p, n) /\ (e = thrR_end_ev => n = 2 /\ p = "writer")
    BY <1>2, EventNames DEF stop_event, Cache, Part
  <1>6. UNCHANGED <<image, flipIdxR, flipIdxW, status_usb, status_storage,
                    bytes_already_read, write_vars, alive, trouble>>
        /\ content' \in [Cache -> 0..MaxPackages]
    BY <1>1, ControlParts DEF engine_vars
  <1>7. Events!Signal(e)
    BY <1>1, <1>5
  <1> QED BY <1>3, <1>4, <1>5, <1>6, <1>7, SignalStep

LEMMA JoinStep ==
  ASSUME ControlInv, Join
  PROVE  ControlInv'
  <1>1. PICK e \in {thrR_end_ev, thrW_end_ev},
             next \in {"join_reader", "destroy"} :
          /\ \/ /\ pc["reader"] = "join_writer"
                /\ e = thrR_end_ev /\ next = "join_reader"
             \/ /\ pc["reader"] = "join_reader"
                /\ e = thrW_end_ev /\ next = "destroy"
          /\ ~Events!Asleep("reader")
          /\ Events!Wait(e, "reader") /\ Goto("reader", next)
          /\ UNCHANGED <<image, engine_vars, write_vars, trouble>>
    BY DEF Join, At
  <1>2. e \in EventSet /\ "reader" \in Part /\ next \in Label["reader"]
    BY EventNames DEF Part, Label
  <1>3. /\ \A i \in Cache : queue[cache_available(i)] = <<>>
        /\ queue[thrR_end_ev] = <<>> /\ queue[thrW_end_ev] = <<>>
    BY <1>1, AwakeMeans
  <1>4. /\ pc' \in [Part -> Label["reader"] \cup Label["writer"]]
        /\ pc'["reader"] = next /\ pc'["writer"] = pc["writer"]
    BY <1>1, <1>2, GoneTo DEF Part
  <1>5. /\ signalled' \in [EventSet -> BOOLEAN]
        /\ queue' \in [EventSet -> Seq(Part)]
        /\ \A f \in EventSet : f # e => /\ signalled'[f] = signalled[f]
                                        /\ queue'[f] = queue[f]
        /\ ~signalled'[e]
        /\ queue'[e] = IF signalled[e] THEN <<>> ELSE <<"reader">>
    BY <1>1, <1>2, <1>3, WaitEffect
  <1>6. UNCHANGED <<flipIdxR, flipIdxW, status_usb, status_storage, content,
                    bytes_already_read, alive, image>>
    BY <1>1 DEF engine_vars
  <1>7. ControlTypes'
    BY <1>1, <1>2, <1>4, <1>5, <1>6, ControlParts
       DEF ControlInv, ControlTypes, EventSet, write_vars
  <1>8. \A i \in Cache :
          /\ queue'[cache_available(i)] = queue[cache_available(i)]
          /\ queue'[content_available(i)] = queue[content_available(i)]
          /\ signalled'[content_available(i)] = signalled[content_available(i)]
    BY <1>1, <1>5, EventNames
  <1>9. QueuesMatch'
    <2>1. \A i \in Cache :
            QueuedAt("writer", content_available(i),
                     pc["writer"] = "take" /\ flipIdxR = i)'
      BY <1>4, <1>6, <1>8
         DEF ControlInv, QueuesMatch, QueuedAt, content_available
    <2>2. \A f \in {thrR_end_ev, thrW_end_ev} \ {e} : queue'[f] = <<>>
      BY <1>3, <1>5, EventNames
    <2>3. /\ QueuedAt("reader", thrR_end_ev, pc["reader"] = "join_reader")'
          /\ QueuedAt("reader", thrW_end_ev, pc["reader"] = "destroy")'
      BY <1>1, <1>4, <1>5, <2>2, EventNames
         DEF QueuedAt, thrR_end_ev, thrW_end_ev
    <2> QED BY <1>3, <1>8, <2>1, <2>3
            DEF QueuesMatch, QueuedAt, cache_available
  <1>10. EndsInOrder'
    <2>1. <<"reader">> # <<>>
      OBVIOUS
    <2>2. CASE e = thrR_end_ev
      BY <1>1, <1>4, <1>5, <1>6, <2>1, <2>2, EventNames
         DEF ControlInv, EndsInOrder, thrR_end_ev
    <2>3. CASE e = thrW_end_ev
      <3>1. pc["writer"] = "exited"
        BY <1>1, <1>3, <2>3, EventNames DEF ControlInv, EndsInOrder
      <3> QED BY <1>1, <1>4, <1>6, <2>3, <3>1, EventNames
              DEF ControlInv, EndsInOrder
    <2> QED BY <2>2, <2>3
  <1>11. OneHand' /\ StatusStops'
    BY <1>1, <1>4, <1>6
       DEF ControlInv, OneHand, StatusStops, ReaderRuns, WriterRuns
  <1> QED BY <1>7, <1>9, <1>10, <1>11 DEF ControlInv

LEMMA DestroyEngineStep ==
  ASSUME ControlInv, DestroyEngine
  PROVE  ControlInv'
  <1>1. /\ pc["reader"] = "destroy" /\ ~Events!Asleep("reader")
        /\ Goto("reader", "idle") /\ alive' = FALSE
        /\ UNCHANGED <<event_vars, image, content, flipIdxR, flipIdxW,
                       status_usb, status_storage, bytes_already_read,
                       write_vars, trouble>>
    BY DEF DestroyEngine, At
  <1>2. /\ pc' \in [Part -> Label["reader"] \cup Label["writer"]]
        /\ pc'["reader"] = "idle" /\ pc'["writer"] = pc["writer"]
    <2>1. "reader" \in Part /\ "writer" \in Part /\ "idle" \in Label["reader"]
      BY DEF Part, Label
    <2> QED BY <1>1, <2>1, GoneTo
  <1>3. ControlTypes'
    <2>1. "idle" \in Label["reader"]
      BY DEF Label
    <2> QED BY <1>1, <1>2, <2>1
            DEF ControlInv, ControlTypes, event_vars, write_vars
  <1>4. QueuesMatch'
    <2>1. /\ \A i \in Cache : queue[cache_available(i)] = <<>>
          /\ queue[thrR_end_ev] = <<>> /\ queue[thrW_end_ev] = <<>>
      BY <1>1, AwakeMeans
    <2> QED BY <1>1, <1>2, <2>1
            DEF ControlInv, QueuesMatch, QueuedAt, event_vars
  <1>5. EndsInOrder'
    BY <1>1, <1>2 DEF ControlInv, EndsInOrder
  <1>6. OneHand' /\ StatusStops'
    BY <1>1, <1>2 DEF ControlInv, OneHand, StatusStops, ReaderRuns, WriterRuns
  <1> QED BY <1>3, <1>4, <1>5, <1>6 DEF ControlInv

\* A download starts when the writer thread of the last one is gone, or fails
\* to start.
LEMMA DownloadDataStep ==
  ASSUME ControlInv, NEW img \in Image, IsImage(img), DownloadData(img)
  PROVE  ControlInv'
  <1>1. /\ pc["reader"] = "idle" /\ image' = img
        /\ signalled' = [e \in DOMAIN signalled |-> e[1] = "cache"]
        /\ queue' = [e \in DOMAIN queue |-> <<>>]
        /\ flipIdxR' = 0 /\ flipIdxW' = 0
        /\ status_usb' = "STATUS_OK" /\ status_storage' = "STATUS_OK"
        /\ bytes_already_read' = 0 /\ first_run' = TRUE
        /\ UNCHANGED <<content, is_sparse, unsparse_status, bulk_status>>
        /\ \/ /\ pc' = [reader |-> "fill", writer |-> "wait"]
              /\ alive' = TRUE /\ trouble' = FALSE
           \/ trouble' = TRUE /\ UNCHANGED <<pc, alive>>
    BY DEF DownloadData, At
  <1>2. \/ pc'["reader"] = "idle" /\ pc'["writer"] = "exited" /\ alive' = FALSE
        \/ pc'["reader"] = "fill" /\ pc'["writer"] = "wait" /\ alive' = TRUE
    BY <1>1 DEF ControlInv, EndsInOrder, ControlTypes
  <1>3. /\ pc' \in [Part -> Label["reader"] \cup Label["writer"]]
        /\ pc'["reader"] \in Label["reader"] /\ pc'["writer"] \in Label["writer"]
    <2>1. CASE UNCHANGED pc
      BY <2>1, ControlParts
    <2>2. CASE pc' = [reader |-> "fill", writer |-> "wait"]
      BY <2>2 DEF Part, Label
    <2> QED BY <1>1, <2>1, <2>2
  <1>4. /\ signalled' \in [EventSet -> BOOLEAN]
        /\ queue' \in [EventSet -> Seq(Part)]
        /\ \A e \in EventSet : /\ queue'[e] = <<>>
                               /\ signalled'[e] <=> e[1] = "cache"
    <2>1. DOMAIN signalled = EventSet /\ DOMAIN queue = EventSet
      BY ControlParts
    <2>2. queue' = [e \in EventSet |-> <<>>] /\ <<>> \in Seq(Part)
      BY <1>1, <2>1
    <2>3. signalled' = [e \in EventSet |-> e[1] = "cache"]
      BY <1>1, <2>1
    <2>4. \A e \in EventSet : (e[1] = "cache") \in BOOLEAN
      OBVIOUS
    <2>5. signalled' \in [EventSet -> BOOLEAN]
      BY ONLY <2>3, <2>4, Zenon
    <2>6. \A e \in EventSet : signalled'[e] <=> e[1] = "cache"
      BY ONLY <2>3, Zenon
    <2> QED BY <2>2, <2>5, <2>6
  <1>5. ControlTypes'
    <2>1. flipIdxR' \in Cache /\ bytes_already_read' \in 0..image'.length
      BY <1>1, TransferAssumption DEF Cache, Image
    <2> QED BY <1>1, <1>3, <1>4, <2>1
            DEF ControlInv, ControlTypes, EventSet, Cache
  <1>6. QueuesMatch'
    <2>1. /\ \A i \in Cache : /\ queue'[content_available(i)] = <<>>
                              /\ queue'[cache_available(i)] = <<>>
          /\ queue'[thrR_end_ev] = <<>> /\ queue'[thrW_end_ev] = <<>>
      BY <1>4, EventNames
    <2> QED BY <2>1 DEF QueuesMatch, QueuedAt, content_available,
                        cache_available, thrR_end_ev, thrW_end_ev
  <1>7. OneHand'
    <2>1. \A i \in Cache : ~signalled'[content_available(i)]
      BY <1>4, EventNames DEF content_available
    <2>2. \A i \in Cache : ~ReaderHas(i)' /\ ~WriterHas(i)'
      BY <1>2 DEF ReaderHas, WriterHas
    <2> QED BY <2>1, <2>2 DEF OneHand, HandsApart, content_available
  <1>8. EndsInOrder'
    <2>1. ~signalled'[thrR_end_ev]
      BY <1>4, EventNames DEF thrR_end_ev
    <2> QED BY <1>2, <2>1 DEF EndsInOrder, thrR_end_ev
  <1>9. StatusStops'
    BY <1>1, <1>2 DEF StatusStops
  <1> QED BY <1>5, <1>6, <1>7, <1>8, <1>9 DEF ControlInv

LEMMA ControlStart ==
  ASSUME TransferInit
  PROVE  ControlInv
  <1>1. /\ signalled \in [EventSet -> BOOLEAN]
        /\ queue \in [EventSet -> Seq(Part)]
        /\ \A e \in EventSet : ~signalled[e] /\ queue[e] = <<>>
    <2>1. /\ signalled \in [EventSet -> BOOLEAN]
          /\ queue = [e \in EventSet |-> <<>>]
      BY DEF TransferInit, Events!AutoEventInit, EventSet
    <2>2. DOMAIN signalled = EventSet
      BY <2>1
    <2> QED BY <2>1, <2>2 DEF TransferInit
  <1>2. /\ pc["reader"] = "idle" /\ pc["writer"] = "exited"
        /\ pc \in [Part -> Label["reader"] \cup Label["writer"]]
    BY DEF TransferInit, Part, Label
  <1>3. /\ \A i \in Cache : /\ queue[content_available(i)] = <<>>
                            /\ queue[cache_available(i)] = <<>>
        /\ queue[thrR_end_ev] = <<>> /\ queue[thrW_end_ev] = <<>>
        /\ ~signalled[thrR_end_ev]
    BY <1>1, EventNames
  <1>4. /\ QueuesMatch /\ OneHand /\ StatusStops
        /\ EndsInOrder
    BY <1>2, <1>3 DEF QueuesMatch, QueuedAt, OneHand, ReaderRuns, StatusStops,
                      EndsInOrder, WriterRuns, TransferInit
  <1>5. ControlTypes
    <2>1. /\ bytes_already_read \in 0..image.length
          /\ content \in [Cache -> 0..MaxPackages]
          /\ flipIdxR \in Cache /\ flipIdxW \in Cache
      BY TransferAssumption DEF TransferInit, Image, Cache
    <2>2. image \in Image /\ IsImage(image)
      BY DEF TransferInit
    <2>3. /\ status_usb = "STATUS_OK" /\ status_storage = "STATUS_OK"
          /\ unsparse_status = "STATUS_OK" /\ bulk_status = "STATUS_OK"
          /\ {first_run, is_sparse, alive, trouble} \subseteq BOOLEAN
      BY DEF TransferInit
    <2>4. pc["reader"] \in Label["reader"] /\ pc["writer"] \in Label["writer"]
      BY <1>2 DEF Label
    <2> QED BY <1>1, <1>2, <2>1, <2>2, <2>3, <2>4 DEF ControlTypes, EventSet
  <1> QED BY <1>4, <1>5 DEF ControlInv

LEMMA ControlNext ==
  ASSUME ControlInv, [TransferNext]_transfer_vars
  PROVE  ControlInv'
  <1>1. ASSUME NEW img \in Image, IsImage(img), DownloadData(img)
        PROVE  ControlInv'
    BY <1>1, DownloadDataStep
  <1>2. CASE Reader
    BY <1>2, WaitForCacheStep, StartReadStep, UsbReadStep, PublishStep,
       LastPackageStep, StopEngineStep, JoinStep, DestroyEngineStep
       DEF Reader, Part
  <1>3. CASE Writer
    BY <1>3, WaitForContentStep, TakeContentStep, GiveBackStep,
       StopEngineStep, WriteDataStep DEF Writer, Part
  <1>4. CASE UNCHANGED transfer_vars
    BY <1>4
       DEF ControlInv, ControlTypes, QueuesMatch, QueuedAt, OneHand, HandsApart,
           ReaderRuns, WriterRuns, ReaderHas, WriterHas, EndsInOrder,
           StatusStops, transfer_vars, event_vars, engine_vars, write_vars,
           content_available, cache_available, thrR_end_ev, thrW_end_ev
  <1> QED BY <1>1, <1>2, <1>3, <1>4 DEF TransferNext

\* The control of the engine is as ControlInv says, whatever fails.
THEOREM EngineControl == TransferSpec => []ControlInv
  <1> QED BY ControlStart, ControlNext, PTL DEF TransferSpec

\* What the invariant is for: a part that is awake at a cache has it.
LEMMA ControlSuffices ==
  ASSUME ControlInv
  PROVE  CachesExclusive /\ ContextOutlivesWriter
  <1>1. ContextOutlivesWriter
    BY DEF ControlInv, EndsInOrder, ContextOutlivesWriter
  <1>2. ASSUME pc["writer"] = "write", ~Events!Asleep("writer"),
               pc["reader"] \in {"read", "reading", "last"},
               ~Events!Asleep("reader"), flipIdxR = flipIdxW
        PROVE  FALSE
    <2> PICK i \in Cache : i = flipIdxR /\ i = flipIdxW
      BY <1>2, ControlParts
    <2>1. ReaderHas(i) /\ WriterHas(i)
      BY <1>2, AwakeMeans DEF ReaderHas, WriterHas
    <2>2. ReaderRuns /\ WriterRuns
      BY <1>2 DEF ReaderRuns, WriterRuns
    <2> QED BY <2>1, <2>2 DEF ControlInv, OneHand, HandsApart
  <1> QED BY <1>1, <1>2 DEF CachesExclusive

-----------------------------------------------------------------------------
(* The invariant of the data: w packages of the image have been written.   *)

\* The cache that package i goes through.
CacheOf(i) == (i - 1) % 2

\* What the first w packages leave on the eMMC: all of them but the rest of
\* the last; and how many units that is.
WrittenUnits(w) == {u \in Units(image) : u[1] < w \/ u = <<w, "body">>}
LeavesBefore(img, n) == Cardinality({i \in img.leaves : i < n})
Size(w) == w + LeavesBefore(image, w)

HoldsPrefix(w) ==
  /\ \A p \in Place : flash[p] # None =>
       flash[p] \in WrittenUnits(w) /\ PlaceOf(image, flash[p]) = p
  /\ \A u \in WrittenUnits(w) : flash[PlaceOf(image, u)] = u

\* The packages that have been given to the writer, and whether cache i holds
\* one that it has not written.
Published ==
  bytes_already_read - (IF pc["reader"] = "publish" THEN 1 ELSE 0)
Full(i) ==
  \/ signalled[content_available(i)]
  \/ WriterHas(i) /\ pc["writer"] # "give_back"

\* While both parts run, the packages after the w-th are in the caches, in
\* turn.
BothGoOn(w) ==
  (ReaderRuns /\ WriterRuns) =>
    /\ Published \in w..(w + 2)
    /\ flipIdxW = CacheOf(Published + 1)
    /\ \A i \in {w + 1, w + 2} :
         /\ Full(CacheOf(i)) <=> i <= Published
         /\ i <= Published => content[CacheOf(i)] = i
    /\ pc["reader"] = "publish" => content[flipIdxW] = bytes_already_read

\* When the reader has stopped, the caches hold the rest of the image and the
\* empty package; or the writer is to stop as well.
WriterGoesOn(w) ==
  (~ReaderRuns /\ WriterRuns) =>
    IF FAIL(status_usb)
    THEN /\ w <= bytes_already_read /\ bytes_already_read < image.length
         /\ pc["writer"] = "write" => /\ w < bytes_already_read
                                      /\ content[flipIdxR] = w + 1
    ELSE /\ image.length <= w + 1
         /\ \A i \in (w + 1)..(image.length + 1) :
              content[CacheOf(i)] = IF i <= image.length THEN i ELSE 0

\* What the writer keeps from one package to the next.
WriterKeeps(w) ==
  WriterRuns =>
    /\ IF pc["writer"] = "give_back" THEN w > 0 /\ flipIdxR = CacheOf(w)
                                     ELSE flipIdxR = CacheOf(w + 1)
    /\ first_run <=> w = 0
    /\ w > 0 => /\ is_sparse <=> image.kind = "sparse"
                /\ image_offset \in 0..Size(w)
                /\ Sound => image_offset = Size(w)
    /\ image.kind = "sparse" => padding[CacheOf(w + 1)] = Rest(image, w)

\* What has come of it.
Outcome(w) ==
  Sound => /\ HoldsPrefix(w)
           /\ trouble => w < image.length
           /\ (~WriterRuns /\ (alive \/ verdict # None) /\ ~trouble)
                => w = image.length
           /\ alive => (trouble <=> FAIL(status_usb) \/ FAIL(status_storage))
           /\ verdict # None => (verdict = "STATUS_OK" <=> ~trouble)

DataTypes ==
  /\ image_offset \in 0..(2 * MaxPackages)
  /\ DOMAIN padding = Cache
  /\ alive => verdict = None
  /\ (ReaderRuns /\ ~WriterRuns) => FAIL(status_storage)

Data(w) ==
  BothGoOn(w) /\ WriterGoesOn(w) /\ WriterKeeps(w) /\ Outcome(w)

DataInv == DataTypes /\ \E w \in 0..image.length : Data(w)

-----------------------------------------------------------------------------
(* Numbers: which cache, how many units, at which place.                   *)

\* Packages take the caches in turn.
LEMMA CachesInTurn ==
  ASSUME NEW n \in Nat
  PROVE  /\ CacheOf(1) = 0
         /\ CacheOf(n + 1) \in Cache
         /\ cache_shift(CacheOf(n + 1)) = CacheOf(n + 2)
         /\ CacheOf(n + 1) # CacheOf(n + 2)
         /\ CacheOf(n + 3) = CacheOf(n + 1)
         /\ \A i \in Cache : i = CacheOf(n + 1) \/ i = CacheOf(n + 2)
  BY DEF CacheOf, cache_shift, Cache

LEMMA CacheOfPackage == \A i \in Nat \ {0} : CacheOf(i) \in Cache
  BY DEF CacheOf, Cache

\* Every boundary adds a unit.
LEMMA LeavesCounted ==
  ASSUME NEW img \in Image, IsImage(img)
  PROVE  /\ \A n \in Nat : LeavesBefore(img, n) \in Nat
         /\ \A n \in Nat : LeavesBefore(img, n + 1) =
              LeavesBefore(img, n) + (IF n \in img.leaves THEN 1 ELSE 0)
         /\ \A m, n \in Nat :
              m <= n => LeavesBefore(img, m) <= LeavesBefore(img, n)
         /\ \A n \in Nat \ {0} : LeavesBefore(img, n) <= n - 1
         /\ LeavesBefore(img, 0) = 0
  <1> DEFINE Below(n) == {i \in img.leaves : i < n}
  <1>1. /\ img.length \in Nat /\ img.leaves \subseteq 1..img.length
        /\ 0 \notin img.leaves
    BY TransferAssumption DEF Image, IsImage
  <1>2. \A n \in Nat : IsFiniteSet(Below(n)) /\ Cardinality(Below(n)) \in Nat
    <2>1. IsFiniteSet(1..img.length)
      BY <1>1, FS_Interval
    <2>2. IsFiniteSet(img.leaves)
      BY <1>1, <2>1, FS_Subset
    <2> QED BY <2>2, FS_Subset, FS_CardinalityType
  <1>3. \A m, n \in Nat :
          m <= n => Cardinality(Below(m)) <= Cardinality(Below(n))
    <2> TAKE m, n \in Nat
    <2> HAVE m <= n
    <2>1. Below(m) \subseteq Below(n)
      BY <1>1
    <2> QED BY <1>2, <2>1, FS_Subset
  <1>4. \A n \in Nat : Cardinality(Below(n + 1)) =
          Cardinality(Below(n)) + (IF n \in img.leaves THEN 1 ELSE 0)
    <2> TAKE n \in Nat
    <2>1. CASE n \in img.leaves
      <3>1. Below(n + 1) = Below(n) \cup {n} /\ n \notin Below(n)
        BY <1>1, <2>1
      <3> QED BY <1>2, <2>1, <3>1, FS_AddElement
    <2>2. CASE n \notin img.leaves
      <3>1. Below(n + 1) = Below(n)
        BY <1>1, <2>2
      <3> DEFINE c == Cardinality(Below(n))
      <3>2. c \in Nat /\ Cardinality(Below(n + 1)) = c BY <1>2, <3>1
      <3> HIDE DEF c
      <3>3. c + 0 = c BY <3>2
      <3> QED BY <2>2, <3>2, <3>3 DEF c
    <2> QED BY <2>1, <2>2
  <1>5. \A n \in Nat \ {0} : Cardinality(Below(n)) <= n - 1
    <2> TAKE n \in Nat \ {0}
    <2>1. Below(n) \subseteq 1..(n - 1)
      BY <1>1
    <2>2. IsFiniteSet(1..(n - 1)) /\ Cardinality(1..(n - 1)) = n - 1
      BY FS_Interval
    <2> QED BY <2>1, <2>2, FS_Subset
  <1>6. Cardinality(Below(0)) = 0
    <2>1. Below(0) = {}
      BY <1>1
    <2> QED BY <2>1, FS_EmptySet
  <1> QED BY <1>2, <1>3, <1>4, <1>5, <1>6 DEF LeavesBefore

\* Units have their place on the eMMC, those that are written below the place
\* of the next.
LEMMA UnitsBelow ==
  ASSUME image \in Image, IsImage(image), NEW w \in 0..image.length
  PROVE  /\ Size(w) \in Nat /\ Size(w) <= 2 * image.length
         /\ image.length \in 1..MaxPackages
         /\ \A u \in Units(image) : PlaceOf(image, u) \in Place
         /\ \A u \in WrittenUnits(w) : PlaceOf(image, u) < Size(w)
  <1>1. /\ image.length \in 1..MaxPackages /\ MaxPackages \in Nat
        /\ image.leaves \subseteq 1..image.length
    BY TransferAssumption DEF Image, IsImage
  <1>2. ASSUME NEW u \in Units(image)
        PROVE  /\ u[1] \in 1..image.length /\ u[2] \in {"body", "rest"}
               /\ u[2] = "rest" => u[1] \in image.leaves
               /\ u = <<u[1], u[2]>>
    BY <1>1, <1>2 DEF Units
  <1>3. ASSUME NEW u \in Units(image)
        PROVE  PlaceOf(image, u) = (u[1] - 1) + LeavesBefore(image, u[1])
                                   + (IF u[2] = "rest" THEN 1 ELSE 0)
    BY DEF PlaceOf, LeavesBefore
  <1>4. /\ Size(w) \in Nat /\ Size(w) <= 2 * image.length
    <2>1. /\ LeavesBefore(image, w) \in Nat
          /\ w # 0 => LeavesBefore(image, w) <= w - 1
          /\ w = 0 => LeavesBefore(image, w) = 0
      BY <1>1, LeavesCounted
    <2> QED BY <1>1, <2>1 DEF Size
  <1>5. ASSUME NEW u \in Units(image)
        PROVE  PlaceOf(image, u) \in Place
    <2>1. /\ LeavesBefore(image, u[1]) \in Nat
          /\ LeavesBefore(image, u[1]) <= u[1] - 1
      BY <1>1, <1>2, <1>5, LeavesCounted
    <2> QED BY <1>1, <1>2, <1>3, <1>5, <2>1 DEF Place
  <1>6. ASSUME NEW u \in WrittenUnits(w)
        PROVE  PlaceOf(image, u) < Size(w)
    <2>1. u \in Units(image) /\ (u[1] < w \/ u = <<w, "body">>)
      BY <1>6 DEF WrittenUnits
    <2> PICK k \in 1..image.length : k = u[1]
      BY <1>2, <2>1
    <2>2. /\ LeavesBefore(image, k) \in Nat /\ LeavesBefore(image, w) \in Nat
          /\ LeavesBefore(image, k + 1) =
               LeavesBefore(image, k) + (IF k \in image.leaves THEN 1 ELSE 0)
          /\ k < w => LeavesBefore(image, k + 1) <= LeavesBefore(image, w)
      BY <1>1, LeavesCounted, SMTT(30)
    <2>3. CASE k < w
      BY <1>1, <1>2, <1>3, <2>1, <2>2, <2>3 DEF Size
    <2>4. CASE u = <<w, "body">>
      BY <1>1, <1>3, <2>1, <2>2, <2>4 DEF Size
    <2> QED BY <2>1, <2>3, <2>4
  <1> QED BY <1>1, <1>4, <1>5, <1>6

-----------------------------------------------------------------------------
(* What a step leaves alone.                                               *)

\* The facts about the control that the steps of the data use.
LEMMA ControlGives ==
  ASSUME ControlInv
  PROVE  /\ image \in Image /\ IsImage(image)
         /\ image.length \in 1..MaxPackages /\ MaxPackages \in Nat
         /\ bytes_already_read \in 0..image.length
         /\ content \in [Cache -> 0..MaxPackages]
         /\ flipIdxR \in Cache /\ flipIdxW \in Cache
         /\ pc["reader"] = "publish" => bytes_already_read > 0
         /\ alive <=> pc["reader"] # "idle"
         /\ ReaderRuns => ~FAIL(status_usb)
         /\ WriterRuns => ~FAIL(status_storage)
         /\ (ReaderRuns /\ WriterRuns) => \A i \in Cache : HandsApart(i)
         /\ ~alive => ~WriterRuns
         /\ ~Events!Asleep("reader") =>
              \A i \in Cache : queue[cache_available(i)] = <<>>
         /\ ~Events!Asleep("writer") =>
              \A i \in Cache : queue[content_available(i)] = <<>>
  BY AwakeMeans, TransferAssumption
     DEF ControlInv, ControlTypes, OneHand, StatusStops, FAIL, Image,
         EndsInOrder, ContextOutlivesWriter, WriterRuns

LEMMA PrefixKept ==
  ASSUME NEW w, HoldsPrefix(w), UNCHANGED <<flash, image>>
  PROVE  HoldsPrefix(w)'
  BY DEF HoldsPrefix, WrittenUnits

\* A step that neither writes nor reads packages nor fails.
LEMMA OutcomeKept ==
  ASSUME NEW w, Outcome(w), WriterRuns' <=> WriterRuns,
         UNCHANGED <<image, write_vars, status_usb, status_storage, alive,
                     trouble, verdict>>
  PROVE  Outcome(w)'
  <1>1. Sound' <=> Sound
    BY DEF Sound, write_vars
  <1>2. HoldsPrefix(w) => HoldsPrefix(w)'
    BY PrefixKept DEF write_vars
  <1> QED BY <1>1, <1>2 DEF Outcome

LEMMA KeepsKept ==
  ASSUME NEW w, WriterKeeps(w), pc'["writer"] = pc["writer"],
         UNCHANGED <<image, flipIdxR, padding, write_vars>>
  PROVE  WriterKeeps(w)'
  BY DEF WriterKeeps, WriterRuns, Sound, Size, Rest, write_vars

LEMMA DataTypesKept ==
  ASSUME DataTypes, ReaderRuns' => ReaderRuns, WriterRuns' <=> WriterRuns,
         UNCHANGED <<image_offset, padding, alive, verdict, status_storage>>
  PROVE  DataTypes'
  BY DEF DataTypes

\* A step of a part that is on its way out.
LEMMA AfterwardsStep ==
  ASSUME DataInv, ReaderRuns' <=> ReaderRuns, WriterRuns' <=> WriterRuns,
         ~(ReaderRuns /\ WriterRuns), WriterRuns => pc'["writer"] = pc["writer"],
         UNCHANGED <<image, engine_vars, write_vars, trouble, verdict>>
  PROVE  DataInv'
  <1>1. PICK w \in 0..image.length : Data(w)
    BY DEF DataInv
  <1>2. Outcome(w)' /\ DataTypes'
    BY <1>1, OutcomeKept, DataTypesKept
       DEF DataInv, Data, engine_vars, write_vars
  <1>3. WriterKeeps(w)'
    BY <1>1 DEF Data, WriterKeeps, WriterRuns, Sound, Size, Rest, write_vars,
                engine_vars
  <1>4. BothGoOn(w)'
    BY DEF BothGoOn
  <1>5. WriterGoesOn(w)'
    <2>1. WriterGoesOn(w) /\ UNCHANGED <<content, flipIdxR, status_usb,
                                         bytes_already_read, image>>
      BY <1>1 DEF Data, engine_vars
    <2>2. WriterRuns' => pc'["writer"] = pc["writer"]
      OBVIOUS
    <2> QED BY <2>1, <2>2 DEF WriterGoesOn
  <1>6. w \in 0..image'.length
    BY <1>1
  <1> QED BY <1>2, <1>3, <1>4, <1>5, <1>6 DEF Data, DataInv

\* A step that gives no package to the writer and takes none from it.
LEMMA BothKept ==
  ASSUME NEW w \in Nat, BothGoOn(w),
         UNCHANGED <<content, flipIdxW, bytes_already_read>>,
         ReaderRuns' => ReaderRuns, WriterRuns' => WriterRuns,
         pc'["reader"] = "publish" <=> pc["reader"] = "publish",
         \A i \in Cache : Full(i)' <=> Full(i)
  PROVE  BothGoOn(w)'
  <1> SUFFICES ASSUME ReaderRuns', WriterRuns'
               PROVE  BothGoOn(w)'
    BY DEF BothGoOn
  <1>1. ReaderRuns /\ WriterRuns /\ Published' = Published
    BY DEF Published
  <1>2. Full(CacheOf(w + 1))' <=> Full(CacheOf(w + 1))
    BY CachesInTurn DEF CacheOf
  <1>3. Full(CacheOf(w + 2))' <=> Full(CacheOf(w + 2))
    BY CachesInTurn DEF CacheOf
  <1> QED BY <1>1, <1>2, <1>3 DEF BothGoOn, CacheOf

-----------------------------------------------------------------------------
(* Each step keeps the data.                                               *)

LEMMA WaitForCacheData ==
  ASSUME ControlInv, DataInv, WaitForCache
  PROVE  DataInv'
  <1> PICK c \in Cache : c = flipIdxW
    BY ControlGives
  <1> DEFINE e == cache_available(c)
  <1>1. PICK next \in {"read", "last"} :
          /\ pc["reader"] = "fill" /\ ~Events!Asleep("reader")
          /\ Events!Wait(e, "reader") /\ Goto("reader", next)
          /\ UNCHANGED <<image, engine_vars, write_vars, trouble, verdict>>
    BY DEF WaitForCache, At
  <1>2. pc'["reader"] = next /\ pc'["writer"] = pc["writer"]
    BY <1>1, ControlParts DEF Goto, Part
  <1>3. \A f \in EventSet : f # e => /\ signalled'[f] = signalled[f]
                                     /\ queue'[f] = queue[f]
    <2>1. e \in EventSet /\ queue[e] = <<>> /\ "reader" \in Part
      BY <1>1, EventNames, ControlGives DEF Part
    <2> QED BY <1>1, <2>1, WaitEffect
  <1>4. \A i \in Cache : Full(i)' <=> Full(i)
    BY <1>1, <1>2, <1>3, EventNames
       DEF Full, WriterHas, engine_vars, content_available
  <1>5. (ReaderRuns' <=> ReaderRuns) /\ (WriterRuns' <=> WriterRuns)
    BY <1>1, <1>2 DEF ReaderRuns, WriterRuns
  <1>6. PICK w \in 0..image.length : Data(w)
    BY DEF DataInv
  <1>7. BothGoOn(w)'
    <2>1. w \in Nat /\ UNCHANGED <<content, flipIdxW, bytes_already_read>>
      BY <1>1, ControlGives DEF engine_vars
    <2>2. pc'["reader"] = "publish" <=> pc["reader"] = "publish"
      BY <1>1, <1>2
    <2> QED BY <1>4, <1>5, <1>6, <2>1, <2>2, BothKept DEF Data
  <1>8. WriterKeeps(w)'
    BY <1>1, <1>2, <1>6, KeepsKept DEF Data, engine_vars
  <1>9. Outcome(w)' /\ DataTypes'
    BY <1>1, <1>5, <1>6, OutcomeKept, DataTypesKept
       DEF Data, DataInv, engine_vars, write_vars
  <1>10. WriterGoesOn(w)'
    BY <1>1, <1>2 DEF WriterGoesOn, ReaderRuns
  <1> QED BY <1>1, <1>6, <1>7, <1>8, <1>9, <1>10 DEF Data, DataInv

LEMMA WaitForContentData ==
  ASSUME ControlInv, DataInv, WaitForContent
  PROVE  DataInv'
  <1> PICK c \in Cache : c = flipIdxR
    BY ControlGives
  <1> DEFINE e == content_available(c)
  <1>1. /\ pc["writer"] = "wait" /\ ~Events!Asleep("writer")
        /\ Events!Wait(e, "writer") /\ Goto("writer", "take")
        /\ UNCHANGED <<image, engine_vars, write_vars, trouble, verdict>>
    BY DEF WaitForContent, At
  <1>2. pc'["reader"] = pc["reader"] /\ pc'["writer"] = "take"
    BY <1>1, ControlParts DEF Goto, Part
  <1>3. /\ \A f \in EventSet : f # e => /\ signalled'[f] = signalled[f]
                                        /\ queue'[f] = queue[f]
        /\ ~signalled'[e]
        /\ queue'[e] = IF signalled[e] THEN <<>> ELSE <<"writer">>
    <2>1. e \in EventSet /\ queue[e] = <<>> /\ "writer" \in Part
      BY <1>1, EventNames, ControlGives DEF Part
    <2> QED BY <1>1, <2>1, WaitEffect
  <1>4. ASSUME NEW i \in Cache PROVE Full(i)' <=> Full(i)
    <2>1. Full(i) <=> signalled[content_available(i)]
      BY <1>1 DEF Full, WriterHas
    <2>2. /\ flipIdxR' = c
          /\ Full(i)' <=> \/ signalled'[content_available(i)]
                          \/ c = i /\ queue'[content_available(i)] = <<>>
      BY <1>1, <1>2 DEF Full, WriterHas, engine_vars, content_available
    <2>3. CASE i = c
      <3>1. <<"writer">> # <<>>
        OBVIOUS
      <3> QED BY <1>3, <2>1, <2>2, <2>3, <3>1
    <2>4. CASE i # c
      BY <1>3, <2>1, <2>2, <2>4, EventNames
    <2> QED BY <2>3, <2>4
  <1>5. (ReaderRuns' <=> ReaderRuns) /\ (WriterRuns' <=> WriterRuns)
    BY <1>1, <1>2 DEF ReaderRuns, WriterRuns
  <1>6. PICK w \in 0..image.length : Data(w)
    BY DEF DataInv
  <1>7. BothGoOn(w)'
    <2>1. w \in Nat /\ UNCHANGED <<content, flipIdxW, bytes_already_read>>
      BY <1>1, ControlGives DEF engine_vars
    <2>2. pc'["reader"] = "publish" <=> pc["reader"] = "publish"
      BY <1>1, <1>2
    <2> QED BY <1>4, <1>5, <1>6, <2>1, <2>2, BothKept DEF Data
  <1>8. WriterKeeps(w)'
    BY <1>1, <1>2, <1>6
       DEF Data, WriterKeeps, WriterRuns, Sound, Size, Rest, engine_vars,
           write_vars
  <1>9. Outcome(w)' /\ DataTypes'
    BY <1>1, <1>5, <1>6, OutcomeKept, DataTypesKept
       DEF Data, DataInv, engine_vars, write_vars
  <1>10. WriterGoesOn(w)'
    BY <1>1, <1>2, <1>5, <1>6 DEF Data, WriterGoesOn, engine_vars
  <1> QED BY <1>1, <1>6, <1>7, <1>8, <1>9, <1>10 DEF Data, DataInv

LEMMA TakeContentData ==
  ASSUME ControlInv, DataInv, TakeContent
  PROVE  DataInv'
  <1>1. /\ pc["writer"] = "take"
        /\ Goto("writer", IF FAIL(status_usb) THEN "stop0" ELSE "write")
        /\ UNCHANGED <<event_vars, image, engine_vars, write_vars, trouble,
                       verdict>>
    BY DEF TakeContent, At
  <1>2. /\ pc'["reader"] = pc["reader"]
        /\ pc'["writer"] = IF FAIL(status_usb) THEN "stop0" ELSE "write"
    BY <1>1, ControlParts DEF Goto, Part
  <1>3. /\ UNCHANGED <<signalled, queue, content, padding, flipIdxR, flipIdxW,
                       status_usb, status_storage, bytes_already_read, alive>>
        /\ ReaderRuns' <=> ReaderRuns
    BY <1>1, <1>2 DEF event_vars, engine_vars, ReaderRuns
  <1>4. PICK w \in 0..image.length : Data(w)
    BY DEF DataInv
  <1>5. CASE ~FAIL(status_usb)
    <2>1. WriterRuns' <=> WriterRuns
      BY <1>1, <1>2, <1>5 DEF WriterRuns
    <2>2. \A i \in Cache : Full(i)' <=> Full(i)
      BY <1>1, <1>2, <1>3, <1>5 DEF Full, WriterHas, content_available
    <2>3. BothGoOn(w)'
      <3>1. w \in Nat
        BY ControlGives
      <3> QED BY <1>2, <1>3, <1>4, <2>1, <2>2, <3>1, BothKept DEF Data
    <2>4. WriterKeeps(w)'
      BY <1>1, <1>2, <1>3, <1>4, <1>5
         DEF Data, WriterKeeps, WriterRuns, Sound, Size, Rest, write_vars
    <2>5. Outcome(w)' /\ DataTypes'
      BY <1>1, <1>3, <1>4, <2>1, OutcomeKept, DataTypesKept
         DEF Data, DataInv, write_vars
    <2>6. WriterGoesOn(w)'
      BY <1>1, <1>3, <1>4, <1>5, <2>1 DEF Data, WriterGoesOn
    <2> QED BY <1>1, <1>4, <2>3, <2>4, <2>5, <2>6 DEF Data, DataInv
  <1>6. CASE FAIL(status_usb)
    <2>1. WriterRuns /\ ~WriterRuns' /\ alive /\ ~ReaderRuns
      BY <1>1, <1>2, <1>6, ControlGives DEF WriterRuns
    <2>2. BothGoOn(w)' /\ WriterKeeps(w)' /\ WriterGoesOn(w)'
      BY <2>1 DEF BothGoOn, WriterKeeps, WriterGoesOn
    <2>3. HoldsPrefix(w) => HoldsPrefix(w)'
      BY <1>1, PrefixKept DEF write_vars
    <2>4. Sound' <=> Sound
      BY <1>1 DEF Sound, write_vars
    <2>5. Outcome(w)'
      BY <1>1, <1>3, <1>4, <1>6, <2>1, <2>3, <2>4 DEF Data, Outcome
    <2>6. DataTypes'
      BY <1>1, <1>3, <2>1 DEF DataInv, DataTypes, write_vars
    <2> QED BY <1>1, <1>4, <2>2, <2>5, <2>6 DEF Data, DataInv
  <1> QED BY <1>5, <1>6

LEMMA GiveBackData ==
  ASSUME ControlInv, DataInv, GiveBack
  PROVE  DataInv'
  <1> PICK c \in Cache : c = flipIdxR
    BY ControlGives
  <1> DEFINE e == cache_available(c)
  <1>1. /\ pc["writer"] = "give_back" /\ Events!Signal(e)
        /\ flipIdxR' = cache_shift(flipIdxR) /\ Goto("writer", "wait")
        /\ UNCHANGED <<image, content, padding, flipIdxW, status_usb,
                       status_storage, bytes_already_read, write_vars, alive,
                       trouble, verdict>>
    BY DEF GiveBack, At
  <1>2. pc'["reader"] = pc["reader"] /\ pc'["writer"] = "wait"
    BY <1>1, ControlParts DEF Goto, Part
  <1>3. \A f \in EventSet : f # e => signalled'[f] = signalled[f]
    BY <1>1, EventNames, SignalEffect, ShortQueues
  <1>4. ASSUME NEW i \in Cache PROVE Full(i)' <=> Full(i)
    <2>1. Full(i) <=> signalled[content_available(i)]
      BY <1>1 DEF Full
    <2>2. Full(i)' <=> signalled'[content_available(i)]
      BY <1>2 DEF Full, WriterHas, content_available
    <2> QED BY <1>3, <2>1, <2>2, EventNames
  <1>5. (ReaderRuns' <=> ReaderRuns) /\ (WriterRuns' <=> WriterRuns)
    BY <1>1, <1>2 DEF ReaderRuns, WriterRuns
  <1>6. PICK w \in 0..image.length : Data(w)
    BY DEF DataInv
  <1>7. BothGoOn(w)'
    <2>1. w \in Nat
      BY ControlGives
    <2> QED BY <1>1, <1>2, <1>4, <1>5, <1>6, <2>1, BothKept DEF Data
  <1>8. WriterKeeps(w)'
    <2>1. /\ w > 0 /\ flipIdxR = CacheOf(w)
          /\ first_run <=> w = 0
          /\ w > 0 => /\ is_sparse <=> image.kind = "sparse"
                      /\ image_offset \in 0..Size(w)
                      /\ Sound => image_offset = Size(w)
          /\ image.kind = "sparse" => padding[CacheOf(w + 1)] = Rest(image, w)
      BY <1>1, <1>6 DEF Data, WriterKeeps, WriterRuns
    <2>2. cache_shift(CacheOf(w)) = CacheOf(w + 1)
      <3>1. w - 1 \in Nat /\ (w - 1) + 1 = w /\ (w - 1) + 2 = w + 1
        BY <2>1, ControlGives
      <3> QED BY <3>1, CachesInTurn
    <2>3. Sound' <=> Sound
      BY <1>1 DEF Sound, write_vars
    <2> QED BY <1>1, <1>2, <2>1, <2>2, <2>3
            DEF WriterKeeps, Size, Rest, write_vars
  <1>9. Outcome(w)' /\ DataTypes'
    BY <1>1, <1>5, <1>6, OutcomeKept, DataTypesKept
       DEF Data, DataInv, write_vars
  <1>10. WriterGoesOn(w)'
    BY <1>1, <1>2, <1>5, <1>6 DEF Data, WriterGoesOn
  <1> QED BY <1>1, <1>6, <1>7, <1>8, <1>9, <1>10 DEF Data, DataInv

\* The reader has a cache that is not full.
LEMMA ReaderAlone ==
  ASSUME ControlInv, WriterRuns, ~Events!Asleep("reader"),
         pc["reader"] \in {"read", "reading", "publish", "last"}
  PROVE  ~Full(flipIdxW)
  <1> PICK c \in Cache : c = flipIdxW
    BY ControlGives
  <1>1. ReaderHas(c) /\ ReaderRuns
    BY ControlGives DEF ReaderHas, ReaderRuns
  <1>2. ~WriterHas(c) /\ ~signalled[content_available(c)]
    BY <1>1, ControlGives DEF HandsApart
  <1> QED BY <1>2 DEF Full

\* Filling it leaves the packages of the writer alone.
LEMMA FillKeepsBoth ==
  ASSUME ControlInv, NEW w \in Nat, BothGoOn(w), ~Events!Asleep("reader"),
         pc["reader"] \in {"read", "reading"}, pc'["writer"] = pc["writer"],
         pc'["reader"] \in {"reading", "publish"},
         UNCHANGED <<event_vars, flipIdxR, flipIdxW>>, Published' = Published,
         content' \in [Cache -> 0..MaxPackages],
         \A c \in Cache : c # flipIdxW => content'[c] = content[c],
         pc'["reader"] = "publish" => content'[flipIdxW] = bytes_already_read'
  PROVE  BothGoOn(w)'
  <1> SUFFICES ASSUME WriterRuns'
               PROVE  BothGoOn(w)'
    BY DEF BothGoOn
  <1>1. WriterRuns /\ ReaderRuns
    BY DEF WriterRuns, ReaderRuns
  <1>2. ~Full(flipIdxW)
    BY <1>1, ReaderAlone
  <1>3. /\ Published \in w..(w + 2)
        /\ flipIdxW = CacheOf(Published + 1)
        /\ \A i \in {w + 1, w + 2} :
             /\ Full(CacheOf(i)) <=> i <= Published
             /\ i <= Published => content[CacheOf(i)] = i
    BY <1>1 DEF BothGoOn
  <1>4. \A i \in {w + 1, w + 2} : CacheOf(i) \in Cache
    BY CachesInTurn
  <1>5. \A i \in {w + 1, w + 2} : i <= Published => content'[CacheOf(i)] = i
    BY <1>2, <1>3, <1>4
  <1>6. \A i \in {w + 1, w + 2} : Full(CacheOf(i))' <=> Full(CacheOf(i))
    BY DEF Full, WriterHas, content_available, event_vars, CacheOf
  <1> QED BY <1>3, <1>5, <1>6 DEF BothGoOn, CacheOf

LEMMA StartReadData ==
  ASSUME ControlInv, DataInv, StartRead
  PROVE  DataInv'
  <1>1. /\ pc["reader"] = "read" /\ ~Events!Asleep("reader")
        /\ content' = [content EXCEPT ![flipIdxW] = 0]
        /\ Goto("reader", "reading")
        /\ UNCHANGED <<event_vars, image, padding, flipIdxR, flipIdxW,
                       status_usb, status_storage, bytes_already_read,
                       write_vars, alive, trouble, verdict>>
    BY DEF StartRead, At
  <1>2. pc'["reader"] = "reading" /\ pc'["writer"] = pc["writer"]
    BY <1>1, ControlParts DEF Goto, Part
  <1>3. (ReaderRuns' <=> ReaderRuns) /\ (WriterRuns' <=> WriterRuns)
    BY <1>1, <1>2 DEF ReaderRuns, WriterRuns
  <1>4. PICK w \in 0..image.length : Data(w)
    BY DEF DataInv
  <1>5. BothGoOn(w)'
    <2>1. w \in Nat /\ Published' = Published
      BY <1>1, <1>2, ControlGives DEF Published
    <2>2. /\ content' \in [Cache -> 0..MaxPackages]
          /\ \A c \in Cache : c # flipIdxW => content'[c] = content[c]
      BY <1>1, ControlGives
    <2> QED BY <1>1, <1>2, <1>4, <2>1, <2>2, FillKeepsBoth DEF Data
  <1>6. WriterKeeps(w)'
    BY <1>1, <1>2, <1>4, KeepsKept DEF Data
  <1>7. Outcome(w)' /\ DataTypes'
    BY <1>1, <1>3, <1>4, OutcomeKept, DataTypesKept
       DEF Data, DataInv, write_vars
  <1>8. WriterGoesOn(w)'
    BY <1>2 DEF WriterGoesOn, ReaderRuns
  <1> QED BY <1>1, <1>4, <1>5, <1>6, <1>7, <1>8 DEF Data, DataInv

\* The writer works on the next package.
LEMMA WriterInHand ==
  ASSUME ControlInv, NEW w \in 0..image.length, Data(w), ReaderRuns,
         pc["writer"] = "write"
  PROVE  /\ flipIdxR = CacheOf(w + 1) /\ content[flipIdxR] = w + 1
         /\ w + 1 <= Published
  <1> PICK c \in Cache : c = flipIdxR
    BY ControlGives
  <1>1. queue[content_available(c)] = <<>>
    BY DEF ControlInv, QueuesMatch, QueuedAt
  <1>2. WriterRuns /\ Full(c)
    BY <1>1 DEF WriterRuns, Full, WriterHas
  <1>3. c = CacheOf(w + 1)
    BY <1>2 DEF Data, WriterKeeps
  <1>4. w + 1 <= Published => content[c] = w + 1
    BY <1>2, <1>3 DEF Data, BothGoOn
  <1>5. w + 1 <= Published
    BY <1>2, <1>3 DEF Data, BothGoOn
  <1> QED BY <1>3, <1>4, <1>5

LEMMA UsbReadData ==
  ASSUME ControlInv, DataInv, UsbRead
  PROVE  DataInv'
  <1>1. /\ pc["reader"] = "reading" /\ ~Events!Asleep("reader")
        /\ UNCHANGED <<event_vars, image, padding, flipIdxR, flipIdxW,
                       status_storage, write_vars, alive, verdict>>
    BY DEF UsbRead, At
  <1>2. /\ ReaderRuns /\ ~FAIL(status_usb) /\ bytes_already_read < image.length
        /\ alive
    BY <1>1, ControlGives DEF ReaderRuns, ControlInv, StatusStops
  <1>3. PICK w \in 0..image.length : Data(w)
    BY DEF DataInv
  <1>4. CASE /\ content' = [content EXCEPT ![flipIdxW] = bytes_already_read + 1]
             /\ bytes_already_read' = count(bytes_already_read)
             /\ Goto("reader", IF FAIL(status_usb) \/ FAIL(status_storage)
                               THEN "stop0" ELSE "publish")
             /\ UNCHANGED <<status_usb, trouble>>
    <2>1. /\ pc'["reader"] = IF FAIL(status_storage) THEN "stop0" ELSE "publish"
          /\ pc'["writer"] = pc["writer"]
      BY <1>2, <1>4, ControlParts DEF Goto, Part
    <2>2. /\ WriterRuns' <=> WriterRuns
          /\ WriterRuns => pc'["reader"] = "publish"
          /\ pc'["reader"] = "publish" => ReaderRuns'
      BY <2>1, ControlGives DEF WriterRuns, ReaderRuns
    <2>3. BothGoOn(w)'
      <3> SUFFICES ASSUME WriterRuns'
                   PROVE  BothGoOn(w)'
        BY DEF BothGoOn
      <3>1. w \in Nat /\ Published' = Published
        BY <1>1, <1>4, <2>2, ControlGives DEF Published, count
      <3>2. /\ content' \in [Cache -> 0..MaxPackages]
            /\ \A c \in Cache : c # flipIdxW => content'[c] = content[c]
            /\ content'[flipIdxW] = bytes_already_read'
        BY <1>2, <1>4, ControlGives DEF count
      <3> QED BY <1>1, <1>3, <2>1, <2>2, <3>1, <3>2, FillKeepsBoth DEF Data
    <2>4. WriterKeeps(w)'
      BY <1>1, <1>3, <2>1, KeepsKept DEF Data
    <2>5. Outcome(w)' /\ DataTypes'
      BY <1>1, <1>2, <1>3, <1>4, <2>2, OutcomeKept, DataTypesKept
         DEF Data, DataInv, write_vars
    <2>6. WriterGoesOn(w)'
      BY <2>2 DEF WriterGoesOn
    <2> QED BY <1>1, <1>3, <2>3, <2>4, <2>5, <2>6 DEF Data, DataInv
  <1>5. CASE /\ status_usb' = "STATUS_USB_ERR" /\ trouble' = TRUE
             /\ Goto("reader", "stop0")
             /\ UNCHANGED <<content, bytes_already_read>>
    <2>1. pc'["reader"] = "stop0" /\ pc'["writer"] = pc["writer"]
      BY <1>5, ControlParts DEF Goto, Part
    <2>2. (WriterRuns' <=> WriterRuns) /\ ~ReaderRuns'
      BY <2>1 DEF WriterRuns, ReaderRuns
    <2>3. WriterRuns => w <= bytes_already_read
      BY <1>1, <1>2, <1>3, ControlGives DEF Data, BothGoOn, Published
    <2>4. BothGoOn(w)'
      BY <2>2 DEF BothGoOn
    <2>5. WriterGoesOn(w)'
      <3>1. pc["writer"] = "write" =>
              content[flipIdxR] = w + 1 /\ w < bytes_already_read
        BY <1>1, <1>2, <1>3, WriterInHand, ControlGives DEF Published
      <3> QED BY <1>1, <1>2, <1>5, <2>1, <2>2, <2>3, <3>1
              DEF WriterGoesOn, FAIL
    <2>6. WriterKeeps(w)'
      BY <1>1, <1>3, <2>1, KeepsKept DEF Data
    <2>7. Sound' <=> Sound
      BY <1>1 DEF Sound, write_vars
    <2>8. HoldsPrefix(w) => HoldsPrefix(w)'
      BY <1>1, PrefixKept DEF write_vars
    <2>9. Sound => w < image.length
      <3>1. CASE WriterRuns
        BY <1>2, <2>3, <3>1, ControlGives
      <3>2. CASE ~WriterRuns
        BY <1>2, <1>3, <3>2 DEF Data, DataInv, DataTypes, Outcome
      <3> QED BY <3>1, <3>2
    <2>10. Outcome(w)'
      BY <1>1, <1>2, <1>3, <1>5, <2>7, <2>8, <2>9
         DEF Data, DataInv, DataTypes, Outcome, FAIL
    <2>11. DataTypes'
      BY <1>1, <2>2 DEF DataInv, DataTypes, write_vars
    <2> QED BY <1>1, <1>3, <2>4, <2>5, <2>6, <2>10, <2>11 DEF Data, DataInv
  <1> QED BY <1>4, <1>5 DEF UsbRead

\* The reader is at most two packages ahead; at the second it has no cache.
LEMMA ReaderAhead ==
  ASSUME ControlInv, NEW w \in Nat, BothGoOn(w), WriterRuns,
         ~Events!Asleep("reader"), pc["reader"] \in {"publish", "last"}
  PROVE  /\ Published \in w..(w + 1) /\ flipIdxW = CacheOf(Published + 1)
         /\ \A i \in {w + 1, w + 2} :
              /\ Full(CacheOf(i)) <=> i <= Published
              /\ i <= Published => content[CacheOf(i)] = i
              /\ i # Published + 1 => CacheOf(i) # flipIdxW
  <1>1. ReaderRuns /\ ~Full(flipIdxW)
    BY ReaderAlone DEF ReaderRuns
  <1>2. /\ Published \in w..(w + 2)
        /\ flipIdxW = CacheOf(Published + 1)
        /\ \A i \in {w + 1, w + 2} :
             /\ Full(CacheOf(i)) <=> i <= Published
             /\ i <= Published => content[CacheOf(i)] = i
    BY <1>1 DEF BothGoOn
  <1>3. CacheOf(w + 3) = CacheOf(w + 1) /\ CacheOf(w + 1) # CacheOf(w + 2)
    BY CachesInTurn
  <1>4. ASSUME Published = w + 2 PROVE FALSE
    <2>1. flipIdxW = CacheOf(w + 1) /\ Full(CacheOf(w + 1))
      BY <1>2, <1>3, <1>4
    <2> QED BY <1>1, <2>1
  <1>5. Published = w \/ Published = w + 1
    BY <1>2, <1>4
  <1> QED BY <1>2, <1>3, <1>5

LEMMA PublishData ==
  ASSUME ControlInv, DataInv, Publish
  PROVE  DataInv'
  <1> PICK c \in Cache : c = flipIdxW
    BY ControlGives
  <1> DEFINE e == content_available(c)
  <1>1. /\ pc["reader"] = "publish" /\ ~Events!Asleep("reader")
        /\ Events!Signal(e) /\ flipIdxW' = cache_shift(flipIdxW)
        /\ Goto("reader", "fill")
        /\ UNCHANGED <<image, content, padding, flipIdxR, status_usb,
                       status_storage, bytes_already_read, write_vars, alive,
                       trouble, verdict>>
    BY DEF Publish, At
  <1>2. pc'["reader"] = "fill" /\ pc'["writer"] = pc["writer"]
    BY <1>1, ControlParts DEF Goto, Part
  <1>3. /\ \A f \in EventSet : f # e => /\ signalled'[f] = signalled[f]
                                        /\ queue'[f] = queue[f]
        /\ ~signalled[e] => /\ queue'[e] = <<>>
                            /\ signalled'[e] <=> queue[e] = <<>>
    BY <1>1, EventNames, SignalEffect, ShortQueues
  <1>4. (ReaderRuns' <=> ReaderRuns) /\ (WriterRuns' <=> WriterRuns)
    BY <1>1, <1>2 DEF ReaderRuns, WriterRuns
  <1>5. PICK w \in 0..image.length : Data(w)
    BY DEF DataInv
  <1>6. BothGoOn(w)'
    <2> SUFFICES ASSUME WriterRuns'
                 PROVE  BothGoOn(w)'
      BY DEF BothGoOn
    <2>1. PICK p \in w..(w + 1) :
            /\ p = Published /\ bytes_already_read = p + 1 /\ Published' = p + 1
            /\ c = CacheOf(p + 1) /\ content[c] = p + 1
      <3>1. ReaderRuns /\ WriterRuns
        BY <1>1, <1>4 DEF ReaderRuns
      <3>2. content[flipIdxW] = bytes_already_read
        BY <1>1, <1>5, <3>1 DEF Data, BothGoOn
      <3>3. Published \in w..(w + 1) /\ flipIdxW = CacheOf(Published + 1)
        BY <1>1, <1>5, <3>1, ReaderAhead, ControlGives DEF Data
      <3>4. /\ bytes_already_read = Published + 1
            /\ Published' = bytes_already_read
        BY <1>1, <1>2, ControlGives DEF Published
      <3> QED BY <3>2, <3>3, <3>4
    <2>2. \A i \in {w + 1, w + 2} :
            /\ Full(CacheOf(i)) <=> i <= p
            /\ i <= p => content[CacheOf(i)] = i
            /\ i # p + 1 => CacheOf(i) # c
      BY <1>1, <1>4, <1>5, <2>1, ReaderAhead, ControlGives DEF Data
    <2>3. Full(c)'
      <3>1. ~signalled[e]
        BY <1>1, <1>4, ReaderAlone DEF Full
      <3>2. CASE queue[e] = <<>>
        BY <1>3, <3>1, <3>2 DEF Full, content_available
      <3>3. CASE queue[e] # <<>>
        <4>1. pc["writer"] = "take" /\ flipIdxR = c
          BY <3>3 DEF ControlInv, QueuesMatch, QueuedAt
        <4>2. queue'[e] = <<>>
          BY <1>3, <3>1
        <4> QED BY <1>1, <1>2, <4>1, <4>2 DEF Full, WriterHas, content_available
      <3> QED BY <3>2, <3>3
    <2>4. \A d \in Cache : d # c => (Full(d)' <=> Full(d))
      BY <1>1, <1>2, <1>3, EventNames DEF Full, WriterHas, content_available
    <2>5. ASSUME NEW i \in {w + 1, w + 2}
          PROVE  /\ Full(CacheOf(i))' <=> i <= p + 1
                 /\ i <= p + 1 => content[CacheOf(i)] = i
      <3>1. CASE i = p + 1
        BY <2>1, <2>3, <3>1, ControlGives DEF CacheOf
      <3>2. CASE i # p + 1
        <4>1. CacheOf(i) \in Cache
          BY CacheOfPackage, ControlGives
        <4>2. PICK d \in Cache : d = CacheOf(i)
          BY <4>1
        <4>3. Full(d)' <=> Full(d)
          BY <2>2, <2>4, <3>2, <4>2
        <4>4. i <= p <=> i <= p + 1
          BY <3>2, ControlGives
        <4>5. Full(CacheOf(i))' <=> Full(d)'
          BY <4>2 DEF CacheOf
        <4> QED BY <2>2, <4>2, <4>3, <4>4, <4>5
      <3> QED BY <3>1, <3>2
    <2>6. flipIdxW' = CacheOf(p + 2)
      <3>1. p \in Nat
        BY ControlGives
      <3>2. cache_shift(CacheOf(p + 1)) = CacheOf(p + 2)
        BY <3>1, CachesInTurn
      <3> QED BY <1>1, <2>1, <3>2
    <2>7. \A i \in {w + 1, w + 2} :
            /\ Full(CacheOf(i))' <=> i <= Published'
            /\ i <= Published' => content'[CacheOf(i)] = i
      BY <1>1, <2>1, <2>5
    <2>8. Published' \in w..(w + 2) /\ flipIdxW' = CacheOf(Published' + 1)
      BY <2>1, <2>6, ControlGives
    <2> QED BY <1>2, <2>7, <2>8 DEF BothGoOn, CacheOf
  <1>7. WriterKeeps(w)'
    BY <1>1, <1>2, <1>5, KeepsKept DEF Data
  <1>8. Outcome(w)' /\ DataTypes'
    BY <1>1, <1>4, <1>5, OutcomeKept, DataTypesKept
       DEF Data, DataInv, write_vars
  <1>9. WriterGoesOn(w)'
    BY <1>2 DEF WriterGoesOn, ReaderRuns
  <1> QED BY <1>1, <1>5, <1>6, <1>7, <1>8, <1>9 DEF Data, DataInv

LEMMA LastPackageData ==
  ASSUME ControlInv, DataInv, LastPackage
  PROVE  DataInv'
  <1> PICK c \in Cache : c = flipIdxW
    BY ControlGives
  <1>1. /\ pc["reader"] = "last" /\ ~Events!Asleep("reader")
        /\ content' = [content EXCEPT ![c] = 0] /\ Goto("reader", "stop0")
        /\ UNCHANGED <<image, padding, flipIdxR, flipIdxW, status_usb,
                       status_storage, bytes_already_read, write_vars, alive,
                       trouble, verdict>>
    BY DEF LastPackage, At
  <1>2. pc'["reader"] = "stop0" /\ pc'["writer"] = pc["writer"]
    BY <1>1, ControlParts DEF Goto, Part
  <1>3. ReaderRuns /\ ~ReaderRuns' /\ (WriterRuns' <=> WriterRuns)
    BY <1>1, <1>2 DEF ReaderRuns, WriterRuns
  <1>4. PICK w \in 0..image.length : Data(w)
    BY DEF DataInv
  <1>5. WriterGoesOn(w)'
    <2> SUFFICES ASSUME WriterRuns
                 PROVE  WriterGoesOn(w)'
      BY <1>3 DEF WriterGoesOn
    <2>1. image.length = bytes_already_read /\ Published = bytes_already_read
      BY <1>1, ControlGives DEF ControlInv, StatusStops, Published
    <2>2. /\ image.length \in w..(w + 1) /\ c = CacheOf(image.length + 1)
          /\ \A i \in {w + 1, w + 2} :
               /\ i <= image.length => content[CacheOf(i)] = i
               /\ i # image.length + 1 => CacheOf(i) # c
      BY <1>1, <1>4, <2>1, ReaderAhead, ControlGives DEF Data
    <2>3. ASSUME NEW i \in (w + 1)..(image.length + 1)
          PROVE  content'[CacheOf(i)] = IF i <= image.length THEN i ELSE 0
      <3>1. i \in {w + 1, w + 2} /\ CacheOf(i) \in Cache
        BY <2>2, CacheOfPackage, ControlGives
      <3>2. CASE i = image.length + 1
        BY <1>1, <2>2, <3>1, <3>2, ControlGives
      <3>3. CASE i # image.length + 1
        BY <1>1, <2>2, <3>1, <3>3, ControlGives
      <3> QED BY <3>2, <3>3
    <2>4. ~FAIL(status_usb')
      BY <1>1, <1>3, ControlGives
    <2>5. image.length <= w + 1
      BY <2>2, ControlGives
    <2> QED BY <1>1, <2>3, <2>4, <2>5 DEF WriterGoesOn, CacheOf
  <1>6. BothGoOn(w)'
    BY <1>3 DEF BothGoOn
  <1>7. WriterKeeps(w)'
    BY <1>1, <1>2, <1>4, KeepsKept DEF Data
  <1>8. Outcome(w)' /\ DataTypes'
    BY <1>1, <1>3, <1>4, OutcomeKept, DataTypesKept
       DEF Data, DataInv, write_vars
  <1> QED BY <1>1, <1>4, <1>5, <1>6, <1>7, <1>8 DEF Data, DataInv

LEMMA StopEngineData ==
  ASSUME ControlInv, DataInv, NEW p \in Part, StopEngine(p)
  PROVE  DataInv'
  <1>1. PICK n \in 0..2 :
          /\ At(p, <<"stop0", "stop1", "stop2">>[n + 1])
          /\ Goto(p, CASE n = 0 -> "stop1"
                       [] n = 1 -> "stop2"
                       [] n = 2 -> IF p = "reader" THEN "join_writer"
                                   ELSE "exited")
          /\ UNCHANGED <<image, engine_vars, write_vars, trouble, verdict>>
    BY DEF StopEngine
  <1>2. n = 0 \/ n = 1 \/ n = 2
    OBVIOUS
  <1>3. pc[p] \in {"stop0", "stop1", "stop2"}
    BY <1>1, <1>2 DEF At
  <1>4. /\ pc'[p] \in {"stop1", "stop2", "join_writer", "exited"}
        /\ \A q \in Part : q # p => pc'[q] = pc[q]
    BY <1>1, <1>2, ControlParts DEF Goto
  <1>5. /\ ReaderRuns' <=> ReaderRuns
        /\ WriterRuns' <=> WriterRuns
        /\ ~(ReaderRuns /\ WriterRuns)
        /\ WriterRuns => pc'["writer"] = pc["writer"]
    BY <1>3, <1>4 DEF ReaderRuns, WriterRuns, Part
  <1> QED BY <1>1, <1>5, AfterwardsStep

LEMMA JoinData ==
  ASSUME ControlInv, DataInv, Join
  PROVE  DataInv'
  <1>1. /\ pc["reader"] \in {"join_writer", "join_reader"}
        /\ Goto("reader", "join_reader") \/ Goto("reader", "destroy")
        /\ UNCHANGED <<image, engine_vars, write_vars, trouble, verdict>>
    BY DEF Join, At
  <1>2. /\ pc'["reader"] \in {"join_reader", "destroy"}
        /\ pc'["writer"] = pc["writer"]
    BY <1>1, ControlParts DEF Goto, Part
  <1>3. /\ ReaderRuns' <=> ReaderRuns
        /\ WriterRuns' <=> WriterRuns
        /\ ~(ReaderRuns /\ WriterRuns)
    BY <1>1, <1>2 DEF ReaderRuns, WriterRuns
  <1> QED BY <1>1, <1>2, <1>3, AfterwardsStep

\* The end: what is reported is what has come of it.
LEMMA DestroyEngineData ==
  ASSUME ControlInv, DataInv, DestroyEngine
  PROVE  DataInv'
  <1>1. /\ pc["reader"] = "destroy" /\ Goto("reader", "idle")
        /\ alive' = FALSE
        /\ verdict' = IF FAIL(status_storage) THEN status_storage ELSE status_usb
        /\ UNCHANGED <<image, padding, status_storage, write_vars, trouble>>
    BY DEF DestroyEngine, At
  <1>2. /\ pc'["reader"] = "idle" /\ pc'["writer"] = pc["writer"]
        /\ pc["writer"] = "exited"
    BY <1>1, ControlParts DEF Goto, Part, ControlInv, EndsInOrder
  <1>3. ~WriterRuns /\ ~WriterRuns' /\ ~ReaderRuns' /\ alive
    BY <1>1, <1>2, ControlGives DEF WriterRuns, ReaderRuns
  <1>4. PICK w \in 0..image.length : Data(w)
    BY DEF DataInv
  <1>5. BothGoOn(w)' /\ WriterGoesOn(w)' /\ WriterKeeps(w)'
    BY <1>3 DEF BothGoOn, WriterGoesOn, WriterKeeps
  <1>6. Sound' <=> Sound
    BY <1>1 DEF Sound, write_vars
  <1>7. HoldsPrefix(w) => HoldsPrefix(w)'
    BY <1>1, PrefixKept DEF write_vars
  <1>8. verdict' = "STATUS_OK" <=> ~(FAIL(status_usb) \/ FAIL(status_storage))
    BY <1>1 DEF FAIL
  <1>9. Outcome(w)'
    BY <1>1, <1>3, <1>4, <1>6, <1>7, <1>8 DEF Data, Outcome
  <1>10. DataTypes'
    BY <1>1, <1>3 DEF DataInv, DataTypes, write_vars
  <1> QED BY <1>1, <1>4, <1>5, <1>9, <1>10 DEF Data, DataInv

\* What is written of package w + 1, with the rest of the one before it.
NextUnits(w) ==
  IF w \in image.leaves THEN <<<<w, "rest">>, <<w + 1, "body">>>>
                        ELSE <<<<w + 1, "body">>>>

\* Such units, one after the other.
LEMMA OneAfterOne ==
  ASSUME NEW S, NEW a \in S, NEW b \in S
  PROVE  <<a>> \o <<b>> = <<a, b>>
  <1>1. <<a>> \in Seq(S) /\ <<b>> \in Seq(S) /\ <<a, b>> \in Seq(S)
    OBVIOUS
  <1>2. <<a>> \o <<b>> \in Seq(S) /\ Len(<<a>> \o <<b>>) = 2
    BY <1>1
  <1>3. (<<a>> \o <<b>>)[1] = a
    BY <1>1
  <1>4. (<<a>> \o <<b>>)[2] = b
    BY <1>1
  <1>5. Len(<<a, b>>) = 2 /\ <<a, b>>[1] = a /\ <<a, b>>[2] = b
    OBVIOUS
  <1>6. \A i \in 1..2 : (<<a>> \o <<b>>)[i] = <<a, b>>[i]
    BY <1>3, <1>4, <1>5
  <1>7. Len(<<a>> \o <<b>>) = Len(<<a, b>>)
    BY <1>2, <1>5
  <1>8. \A i \in 1..Len(<<a>> \o <<b>>) : (<<a>> \o <<b>>)[i] = <<a, b>>[i]
    BY <1>2, <1>6
  <1> QED BY <1>1, <1>2, <1>7, <1>8, SeqEqual, Zenon

\* Put at the end it makes the prefix longer by a package.
LEMMA PutNext ==
  ASSUME image \in Image, IsImage(image), NEW w \in Nat, w < image.length,
         HoldsPrefix(w), image' = image, flash' = Put(NextUnits(w), Size(w))
  PROVE  /\ HoldsPrefix(w + 1)'
         /\ Size(w) + Len(NextUnits(w)) = Size(w + 1)
  <1>1. /\ image.length \in 1..MaxPackages /\ MaxPackages \in Nat
        /\ image.leaves \subseteq 1..image.length
    BY TransferAssumption DEF Image, IsImage
  <1> PICK s \in Nat : s = Size(w)
    BY <1>1, UnitsBelow
  <1> DEFINE body == <<w + 1, "body">>
             rest == <<w, "rest">>
             leaves == w \in image.leaves
             one == IF leaves THEN 1 ELSE 0
  <1>2. /\ LeavesBefore(image, w) \in Nat /\ s = w + LeavesBefore(image, w)
        /\ LeavesBefore(image, w + 1) = LeavesBefore(image, w) + one
    BY <1>1, LeavesCounted DEF Size
  <1>3. Size(w) + Len(NextUnits(w)) = Size(w + 1)
    <2>1. Len(NextUnits(w)) = 1 + one
      BY DEF NextUnits
    <2> QED BY <1>2, <2>1 DEF Size
  <1>4. /\ body \in Units(image) /\ body[1] = w + 1
        /\ PlaceOf(image, body) = s + one
    <2>1. body \in Units(image)
      BY <1>1 DEF Units
    <2>2. PlaceOf(image, body) = w + LeavesBefore(image, w + 1)
      BY <1>2 DEF PlaceOf, LeavesBefore
    <2> QED BY <1>2, <2>1, <2>2
  <1>5. leaves => /\ rest \in Units(image) /\ rest[1] = w
                  /\ PlaceOf(image, rest) = s
    <2>1. leaves => rest \in Units(image)
      BY DEF Units
    <2>2. PlaceOf(image, rest) = (w - 1) + LeavesBefore(image, w) + 1
      BY DEF PlaceOf, LeavesBefore
    <2> QED BY <1>2, <2>1, <2>2
  <1>6. \A p \in Place :
          flash'[p] = IF p = s + one THEN body
                      ELSE IF leaves /\ p = s THEN rest ELSE flash[p]
    <2> TAKE p \in Place
    <2>1. p \in Nat
      BY <1>1 DEF Place
    <2>2. flash'[p] = IF p \in s..(s + Len(NextUnits(w)) - 1)
                      THEN NextUnits(w)[p - s + 1] ELSE flash[p]
      BY DEF Put
    <2>3. CASE leaves
      <3>1. /\ Len(NextUnits(w)) = 2
            /\ NextUnits(w)[1] = rest /\ NextUnits(w)[2] = body
        BY <2>3 DEF NextUnits
      <3>2. CASE p = s
        BY <2>2, <2>3, <3>1, <3>2
      <3>3. CASE p = s + 1
        BY <2>2, <2>3, <3>1, <3>3
      <3>4. CASE p # s /\ p # s + 1
        BY <2>1, <2>2, <2>3, <3>1, <3>4
      <3> QED BY <3>2, <3>3, <3>4
    <2>4. CASE ~leaves
      <3>1. Len(NextUnits(w)) = 1 /\ NextUnits(w)[1] = body
        BY <2>4 DEF NextUnits
      <3> QED BY <2>1, <2>2, <2>4, <3>1
    <2> QED BY <2>3, <2>4
  <1>7. WrittenUnits(w + 1) =
          WrittenUnits(w) \cup {body} \cup (IF leaves THEN {rest} ELSE {})
    <2>1. ASSUME NEW u \in WrittenUnits(w + 1), u \notin WrittenUnits(w),
                 u # body
          PROVE  leaves /\ u = rest
      <3>1. /\ u \in Units(image) /\ u[1] < w + 1 /\ ~(u[1] < w)
            /\ u # <<w, "body">>
        BY <2>1 DEF WrittenUnits
      <3>2. u[1] \in Nat
        BY <1>1, <3>1 DEF Units
      <3>3. u[1] = w
        BY <3>1, <3>2
      <3> QED BY <1>1, <3>1, <3>3 DEF Units
    <2>2. ASSUME NEW u \in WrittenUnits(w)
          PROVE  u \in WrittenUnits(w + 1)
      <3>1. u \in Units(image) /\ (u[1] < w \/ u = <<w, "body">>)
        BY DEF WrittenUnits
      <3>2. u[1] \in Nat /\ (u = <<w, "body">> => u[1] = w)
        BY <1>1, <3>1 DEF Units
      <3> QED BY <3>1, <3>2 DEF WrittenUnits
    <2>3. body \in WrittenUnits(w + 1)
      BY <1>4 DEF WrittenUnits
    <2>4. leaves => rest \in WrittenUnits(w + 1)
      BY <1>5 DEF WrittenUnits
    <2> QED BY <2>1, <2>2, <2>3, <2>4
  <1>8. ASSUME NEW p \in Place, flash'[p] # None
        PROVE  flash'[p] \in WrittenUnits(w + 1) /\ PlaceOf(image, flash'[p]) = p
    <2>1. CASE p = s + one
      BY <1>4, <1>6, <1>7, <2>1
    <2>2. CASE leaves /\ p = s
      BY <1>2, <1>5, <1>6, <1>7, <2>2
    <2>3. CASE p # s + one /\ ~(leaves /\ p = s)
      BY <1>6, <1>7, <1>8, <2>3 DEF HoldsPrefix
    <2> QED BY <2>1, <2>2, <2>3
  <1>9. ASSUME NEW u \in WrittenUnits(w + 1)
        PROVE  flash'[PlaceOf(image, u)] = u
    <2>1. PlaceOf(image, u) \in Place
      BY <1>1, UnitsBelow DEF WrittenUnits
    <2>2. CASE u = body
      BY <1>4, <1>6, <2>1, <2>2
    <2>3. CASE leaves /\ u = rest
      BY <1>2, <1>5, <1>6, <2>1, <2>3
    <2>4. CASE u \in WrittenUnits(w)
      <3>1. PlaceOf(image, u) < s /\ flash[PlaceOf(image, u)] = u
        BY <1>1, <2>4, UnitsBelow DEF HoldsPrefix
      <3> QED BY <1>1, <1>6, <2>1, <3>1 DEF Place
    <2> QED BY <1>7, <2>2, <2>3, <2>4
  <1> QED BY <1>3, <1>8, <1>9 DEF HoldsPrefix, WrittenUnits

\* What the writer finds in the cache: the next package, or the end.
LEMMA PackageInHand ==
  ASSUME ControlInv, NEW w \in 0..image.length, Data(w), pc["writer"] = "write"
  PROVE  /\ flipIdxR = CacheOf(w + 1)
         /\ \/ w < image.length /\ content[flipIdxR] = w + 1
            \/ /\ w = image.length /\ content[flipIdxR] = 0
               /\ ~ReaderRuns /\ ~FAIL(status_usb)
  <1>1. WriterRuns
    BY DEF WriterRuns
  <1>2. flipIdxR = CacheOf(w + 1)
    BY <1>1 DEF Data, WriterKeeps
  <1>3. CASE ReaderRuns
    BY <1>2, <1>3, WriterInHand, ControlGives DEF Published
  <1>4. CASE ~ReaderRuns /\ FAIL(status_usb)
    BY <1>1, <1>2, <1>4, ControlGives DEF Data, WriterGoesOn
  <1>5. CASE ~ReaderRuns /\ ~FAIL(status_usb)
    <2>1. w + 1 \in (w + 1)..(image.length + 1)
      BY ControlGives
    <2>2. content[CacheOf(w + 1)] = IF w + 1 <= image.length THEN w + 1 ELSE 0
      BY <1>1, <1>5, <2>1 DEF Data, WriterGoesOn
    <2> QED BY <1>2, <1>5, <2>2, ControlGives
  <1> QED BY <1>2, <1>3, <1>4, <1>5

\* The writer stops with the w packages it has written.
LEMMA WriterStops ==
  ASSUME ControlInv, DataTypes, NEW w \in 0..image.length,
         WriterRuns, ~WriterRuns', pc'["reader"] = pc["reader"],
         UNCHANGED <<image, status_usb, alive, verdict>>,
         image_offset' \in 0..(2 * MaxPackages), DOMAIN padding' = Cache,
         ReaderRuns => FAIL(status_storage)',
         Sound' => /\ HoldsPrefix(w)'
                   /\ trouble' => w < image.length
                   /\ ~trouble' => w = image.length
                   /\ trouble' <=> FAIL(status_usb) \/ FAIL(status_storage)'
  PROVE  DataInv'
  <1>1. (ReaderRuns' <=> ReaderRuns) /\ alive /\ verdict = None
    BY ControlGives DEF ReaderRuns, DataTypes
  <1>2. BothGoOn(w)' /\ WriterGoesOn(w)' /\ WriterKeeps(w)'
    BY DEF BothGoOn, WriterGoesOn, WriterKeeps
  <1>3. Outcome(w)'
    BY <1>1 DEF Outcome, FAIL
  <1>4. DataTypes'
    BY <1>1 DEF DataTypes, FAIL
  <1> QED BY <1>2, <1>3, <1>4 DEF Data, DataInv

\* The writer goes on to the next package.
LEMMA WriterTakesNext ==
  ASSUME ControlInv, DataTypes, NEW w \in 0..image.length, Data(w),
         w < image.length,
         pc["writer"] = "write", ~Events!Asleep("writer"),
         pc'["writer"] = "give_back", pc'["reader"] = pc["reader"],
         UNCHANGED <<event_vars, image, content, flipIdxR, flipIdxW, status_usb,
                     bytes_already_read, alive, verdict>>,
         ~first_run', is_sparse' <=> image.kind = "sparse",
         image_offset' \in 0..(Size(w) + Len(NextUnits(w))),
         DOMAIN padding' = Cache,
         image.kind = "sparse" => padding'[CacheOf(w + 2)] = Rest(image, w + 1),
         ~FAIL(status_storage)',
         Sound' => /\ Sound /\ trouble' = trouble
                   /\ flash' = Put(NextUnits(w), Size(w))
                   /\ image_offset' = Size(w) + Len(NextUnits(w))
  PROVE  DataInv'
  <1> DEFINE v == w + 1
  <1>1. /\ v \in 0..image'.length /\ v > 0 /\ w \in Nat /\ v \in 0..image.length
        /\ image.length \in 1..MaxPackages /\ MaxPackages \in Nat
    BY ControlGives
  <1>2. /\ WriterRuns /\ WriterRuns' /\ (ReaderRuns' <=> ReaderRuns)
        /\ alive /\ verdict = None
    BY ControlGives DEF WriterRuns, ReaderRuns, DataTypes
  <1>3. /\ Size(w) + Len(NextUnits(w)) = Size(v)
        /\ Size(v) \in Nat /\ Size(v) <= 2 * MaxPackages
    <2>1. Size(w) + Len(NextUnits(w)) = Size(v)
      <3>1. /\ LeavesBefore(image, v) = LeavesBefore(image, w)
                 + (IF w \in image.leaves THEN 1 ELSE 0)
            /\ LeavesBefore(image, w) \in Nat
        BY <1>1, LeavesCounted, ControlGives
      <3>2. Len(NextUnits(w)) = IF w \in image.leaves THEN 2 ELSE 1
        BY DEF NextUnits
      <3> QED BY <1>1, <3>1, <3>2 DEF Size
    <2>2. Size(v) \in Nat /\ Size(v) <= 2 * image.length
      BY <1>1, UnitsBelow, ControlGives
    <2> QED BY <1>1, <2>1, <2>2
  <1>4. flipIdxR = CacheOf(v)
    BY PackageInHand
  <1>5. WriterKeeps(v)'
    <2>1. Size(v)' = Size(v)
      BY DEF Size, LeavesBefore
    <2>2. image_offset' \in 0..Size(v) /\ (Sound' => image_offset' = Size(v))
      BY <1>3
    <2>3. v + 1 = w + 2
      BY <1>1
    <2>4. image.kind = "sparse" => padding'[CacheOf(v + 1)] = Rest(image, v)
      BY <2>3
    <2> QED BY <1>1, <1>4, <2>1, <2>2, <2>4 DEF WriterKeeps, CacheOf, Rest
  <1>6. BothGoOn(v)'
    <2> SUFFICES ASSUME ReaderRuns
                 PROVE  BothGoOn(v)'
      BY <1>2 DEF BothGoOn
    <2>1. PICK p \in w..(w + 2) :
            /\ p = Published /\ p = Published'
            /\ flipIdxW = CacheOf(p + 1)
            /\ \A i \in {w + 1, w + 2} :
                 /\ Full(CacheOf(i)) <=> i <= p
                 /\ i <= p => content[CacheOf(i)] = i
            /\ pc["reader"] = "publish" => content[flipIdxW] = bytes_already_read
      BY <1>2 DEF Data, BothGoOn, Published
    <2>2. v <= p
      BY WriterInHand, <2>1
    <2> PICK c \in Cache : c = flipIdxR
      BY ControlGives
    <2>3. ~signalled[content_available(c)]
      <3>1. WriterHas(c)
        BY ControlGives DEF WriterHas
      <3> QED BY <1>2, <3>1, ControlGives DEF HandsApart
    <2>4. CacheOf(w + 3) = c /\ CacheOf(w + 2) # c
      BY <1>1, <1>4, CachesInTurn
    <2>5. ~Full(CacheOf(w + 3))'
      BY <2>3, <2>4
         DEF Full, WriterHas, content_available, CacheOf, event_vars
    <2>6. Full(CacheOf(w + 2))' <=> Full(CacheOf(w + 2))
      <3>1. PICK d \in Cache : d = CacheOf(w + 2) /\ d # c
        BY <1>1, <2>4, CacheOfPackage
      <3>2. Full(d)' <=> Full(d)
        BY <3>1 DEF Full, WriterHas, content_available, event_vars
      <3> QED BY <3>1, <3>2 DEF CacheOf
    <2>7. ASSUME NEW i \in {v + 1, v + 2}
          PROVE  /\ Full(CacheOf(i))' <=> i <= p
                 /\ i <= p => content[CacheOf(i)] = i
      <3>1. CASE i = w + 2
        BY <2>1, <2>6, <3>1 DEF CacheOf
      <3>2. CASE i = w + 3
        BY <1>1, <2>1, <2>5, <3>2 DEF CacheOf
      <3> QED BY <1>1, <3>1, <3>2
    <2>8. p \in v..(v + 2)
      BY <1>1, <2>1, <2>2
    <2> QED BY <2>1, <2>7, <2>8 DEF BothGoOn, CacheOf
  <1>7. WriterGoesOn(v)'
    <2> SUFFICES ASSUME ~ReaderRuns
                 PROVE  WriterGoesOn(v)'
      BY <1>2 DEF WriterGoesOn
    <2>1. CASE FAIL(status_usb)
      <3>1. w < bytes_already_read /\ bytes_already_read < image.length
        BY <1>2, <2>1 DEF Data, WriterGoesOn
      <3> QED BY <1>1, <2>1, <3>1, ControlGives DEF WriterGoesOn, FAIL
    <2>2. CASE ~FAIL(status_usb)
      <3>1. /\ image.length <= w + 1
            /\ \A i \in (w + 1)..(image.length + 1) :
                 content[CacheOf(i)] = IF i <= image.length THEN i ELSE 0
        BY <1>2, <2>2 DEF Data, WriterGoesOn
      <3>2. \A i \in (v + 1)..(image.length + 1) :
              i \in (w + 1)..(image.length + 1)
        BY <1>1
      <3>3. image.length <= v + 1
        BY <1>1, <3>1
      <3> QED BY <2>2, <3>1, <3>2, <3>3 DEF WriterGoesOn, FAIL, CacheOf
    <2> QED BY <2>1, <2>2
  <1>8. Outcome(v)'
    <2> SUFFICES ASSUME Sound'
                 PROVE  Outcome(v)'
      BY DEF Outcome
    <2>1. HoldsPrefix(w) /\ (trouble <=> FAIL(status_usb) \/ FAIL(status_storage))
      BY <1>2 DEF Data, Outcome
    <2>2. HoldsPrefix(v)'
      BY <1>1, <2>1, PutNext, ControlGives
    <2>3. ~FAIL(status_storage)
      BY <1>2, ControlGives
    <2>4. trouble => v < image.length
      <3>1. ASSUME FAIL(status_usb) PROVE v < image.length
        <4>1. ~ReaderRuns
          BY <3>1, ControlGives
        <4>2. w < bytes_already_read /\ bytes_already_read < image.length
          BY <1>2, <3>1, <4>1 DEF Data, WriterGoesOn
        <4> QED BY <1>1, <4>2, ControlGives
      <3> QED BY <2>1, <2>3, <3>1
    <2> QED BY <1>2, <2>1, <2>2, <2>3, <2>4 DEF Outcome, FAIL
  <1>9. DataTypes'
    <2>1. image_offset' \in 0..(2 * MaxPackages)
      BY <1>1, <1>3
    <2> QED BY <1>2, <2>1 DEF DataTypes
  <1>10. v \in 0..image'.length
    BY <1>1
  <1>11. \E x \in 0..image'.length : Data(x)'
    BY <1>5, <1>6, <1>7, <1>8, <1>10 DEF Data
  <1> QED BY <1>9, <1>11 DEF DataInv

LEMMA WriteDataData ==
  ASSUME ControlInv, DataInv, NEW ok \in BOOLEAN, WriteData(ok)
  PROVE  DataInv'
  <1> PICK w \in 0..image.length : Data(w)
    BY DEF DataInv
  <1> PICK c \in Cache : c = flipIdxR
    BY ControlGives
  <1> PICK i \in 0..MaxPackages : i = content[c]
    BY ControlGives
  <1> PICK sparse \in BOOLEAN : sparse <=> image.kind = "sparse"
    OBVIOUS
  <1>1. /\ pc["writer"] = "write" /\ ~Events!Asleep("writer")
        /\ WriterRuns /\ alive /\ w \in Nat /\ ~FAIL(status_storage)
        /\ image.length \in 1..MaxPackages /\ MaxPackages \in Nat
    BY ControlGives DEF WriteData, At, WriterRuns
  <1>2. /\ c = CacheOf(w + 1)
        /\ \/ w < image.length /\ i = w + 1
           \/ w = image.length /\ i = 0 /\ ~ReaderRuns /\ ~FAIL(status_usb)
    BY <1>1, PackageInHand
  <1>3. /\ first_run <=> w = 0
        /\ w > 0 => /\ is_sparse <=> sparse
                    /\ image_offset \in 0..Size(w)
                    /\ Sound => image_offset = Size(w)
        /\ sparse => padding[c] = Rest(image, w)
    BY <1>1, <1>2 DEF Data, WriterKeeps
  <1>4. Size(w) \in Nat /\ Size(w) <= 2 * image.length /\ (w = 0 => Size(w) = 0)
    <2>1. w = 0 => Size(w) = 0
      BY LeavesCounted, ControlGives DEF Size
    <2> QED BY <2>1, UnitsBelow, ControlGives
  <1> PICK offset \in 0..Size(w) :
        /\ offset = IF first_run THEN 0 ELSE image_offset
        /\ Sound => offset = Size(w)
    BY <1>1, <1>3, <1>4
  <1>5. sparse = IF first_run THEN image.kind = "sparse" ELSE is_sparse
    <2>1. is_sparse \in BOOLEAN /\ first_run \in BOOLEAN
      BY DEF ControlInv, ControlTypes
    <2>2. CASE first_run
      BY <2>2, Zenon
    <2>3. CASE ~first_run
      <3>1. w > 0
        BY <1>1, <1>3, <2>3
      <3>2. is_sparse <=> sparse
        BY <1>3, <3>1
      <3> QED BY <2>1, <2>3, <3>2, Zenon
    <2> QED BY <2>2, <2>3
  <1>6. /\ Sound => /\ HoldsPrefix(w)
                    /\ trouble => w < image.length
                    /\ trouble <=> FAIL(status_usb)
    BY <1>1 DEF Data, Outcome
  <1>7. /\ DataTypes /\ DOMAIN padding = Cache
        /\ image_offset \in 0..(2 * MaxPackages)
        /\ offset \in 0..(2 * MaxPackages)
    BY <1>1, <1>4 DEF DataInv, DataTypes
  <1>8. /\ ok \/ (i # 0 /\ ~(first_run /\ ~image.fits))
        /\ is_sparse' = sparse
        /\ UNCHANGED <<event_vars, image, content, flipIdxR, flipIdxW,
                       status_usb, bytes_already_read, alive, verdict>>
    BY <1>5 DEF WriteData
  <1>9. Goto("writer", after_write(status_storage', i))
    BY DEF WriteData
  <1>10. /\ pc'["reader"] = pc["reader"]
         /\ pc'["writer"] = after_write(status_storage', i)
    BY <1>9, ControlParts DEF Goto, Part
  <1>11. pc'["writer"] = "stop0" => ~WriterRuns'
    BY DEF WriterRuns
  <1>12. CASE first_run /\ ~image.fits
    <2>1. /\ unsparse_status' = IF sparse THEN "STATUS_OK" ELSE unsparse_status
          /\ image_offset' = 0
          /\ UNCHANGED <<first_run, bulk_status, flash, padding>>
          /\ status_storage' = "STATUS_TOO_LARGE"
          /\ trouble' = TRUE
      BY <1>5, <1>12 DEF WriteData
    <2>2. Sound' <=> Sound
      BY <1>8, <2>1 DEF Sound
    <2>3. /\ pc'["writer"] = "stop0" /\ FAIL(status_storage)'
      BY <1>10, <2>1 DEF after_write, FAIL
    <2>4. HoldsPrefix(w) => HoldsPrefix(w)'
      BY <1>8, <2>1, PrefixKept
    <2>5. w < image.length
      BY <1>1, <1>2, <1>3, <1>12
    <2> QED BY <1>1, <1>6, <1>7, <1>8, <1>10, <1>11, <2>1, <2>2, <2>3, <2>4,
               <2>5, WriterStops
  <1>13. CASE ~(first_run /\ ~image.fits) /\ ~sparse
    <2>1. /\ first_run' = FALSE
          /\ write_bulk(Body(i), offset, ok)
          /\ status_storage' = unsparse_status'
          /\ trouble' = (trouble \/ ~ok)
      BY <1>5, <1>13 DEF WriteData
    <2>2. /\ bulk_status' = IF ok THEN bulk_status ELSE "STATUS_EMMC_ERR"
          /\ flash' = IF ok THEN Put(Body(i), offset) ELSE flash
          /\ image_offset' = IF FAIL(bulk_status') THEN offset
                             ELSE offset + Len(Body(i))
          /\ UNCHANGED <<padding, unsparse_status>>
      BY <2>1 DEF write_bulk
    <2>3. Sound' <=> /\ ok /\ bulk_status = "STATUS_OK"
                     /\ unsparse_status = "STATUS_OK"
      BY <1>8, <1>13, <2>2 DEF Sound
    <2>4. Sound <=> /\ bulk_status = "STATUS_OK" /\ unsparse_status = "STATUS_OK"
      BY <1>13 DEF Sound
    <2>5. /\ Body(i) = NextUnits(w) \/ i = 0
          /\ i = 0 => Len(Body(i)) = 0
          /\ i # 0 => Len(Body(i)) = 1
      <3>1. image.kind = "plain" /\ image.leaves = {}
        BY <1>13, TransferAssumption, ControlGives DEF Image, IsImage
      <3> QED BY <1>2, <3>1 DEF Body, NextUnits
    <2>6. image_offset' \in 0..(Size(w) + Len(Body(i)))
      BY <1>4, <2>2, <2>5
    <2>7. CASE i = 0
      <3>1. ok /\ w = image.length /\ ~ReaderRuns /\ ~FAIL(status_usb)
        BY <1>1, <1>2, <1>8, <2>7
      <3>2. pc'["writer"] = "stop0"
        BY <1>10, <2>7 DEF after_write
      <3>3. \A p \in Place : flash'[p] = flash[p]
        <4>1. offset \in Nat
          BY <1>4
        <4>2. flash' = [p \in Place |-> IF p \in offset..(offset + 0 - 1)
                                        THEN Body(i)[p - offset + 1]
                                        ELSE flash[p]]
          BY <2>2, <2>5, <2>7, <3>1 DEF Put
        <4>3. \A p \in Place : p \notin offset..(offset + 0 - 1)
          BY <4>1, <1>1 DEF Place
        <4> QED BY <4>2, <4>3
      <3>4. HoldsPrefix(w) => HoldsPrefix(w)'
        <4>1. \A u \in WrittenUnits(w) : PlaceOf(image, u) \in Place
          BY UnitsBelow, ControlGives DEF WrittenUnits
        <4> QED BY <1>8, <3>3, <4>1 DEF HoldsPrefix, WrittenUnits
      <3>5. image_offset' \in 0..(2 * MaxPackages)
        BY <1>1, <1>4, <2>5, <2>6, <2>7
      <3>6. Sound' => /\ HoldsPrefix(w)'
                      /\ trouble' => w < image.length
                      /\ ~trouble' => w = image.length
                      /\ trouble' <=> FAIL(status_usb) \/ FAIL(status_storage)'
        BY <1>6, <2>1, <2>2, <2>3, <2>4, <3>1, <3>4 DEF FAIL
      <3> QED BY <1>1, <1>7, <1>8, <1>10, <1>11, <2>2, <3>1, <3>2, <3>5, <3>6,
                 WriterStops
    <2>8. CASE i # 0 /\ FAIL(status_storage)'
      <3>1. pc'["writer"] = "stop0"
        BY <1>10, <2>8 DEF after_write, FAIL
      <3>2. ~Sound'
        BY <2>1, <2>2, <2>3, <2>8 DEF FAIL
      <3>3. image_offset' \in 0..(2 * MaxPackages)
        <4>1. w < image.length /\ Size(w) <= 2 * w
          <5>1. w < image.length
            BY <1>1, <1>2, <2>8
          <5>2. /\ LeavesBefore(image, w) \in Nat
                /\ w # 0 => LeavesBefore(image, w) <= w - 1
                /\ w = 0 => LeavesBefore(image, w) = 0
            BY <1>1, LeavesCounted, ControlGives
          <5> QED BY <1>1, <5>1, <5>2 DEF Size
        <4>2. image_offset' \in 0..(Size(w) + 1)
          BY <2>5, <2>6, <2>8
        <4>3. Size(w) + 1 <= 2 * MaxPackages
          BY <1>1, <1>4, <4>1
        <4> QED BY <1>1, <1>4, <4>2, <4>3
      <3> QED BY <1>1, <1>7, <1>8, <1>10, <1>11, <2>2, <2>8, <3>1, <3>2, <3>3,
                 WriterStops
    <2>9. CASE i # 0 /\ ~FAIL(status_storage)'
      <3>1. pc'["writer"] = "give_back" /\ w < image.length
        BY <1>1, <1>2, <1>10, <2>9 DEF after_write, FAIL
      <3>2. Body(i) = NextUnits(w)
        BY <2>5, <2>9
      <3>3. Sound' => /\ Sound /\ trouble' = trouble
                      /\ flash' = Put(NextUnits(w), Size(w))
                      /\ image_offset' = Size(w) + Len(NextUnits(w))
        <4>1. trouble \in BOOLEAN
          BY DEF ControlInv, ControlTypes
        <4> QED BY <2>1, <2>2, <2>3, <2>4, <3>2, <4>1 DEF FAIL
      <3>4. is_sparse' <=> image.kind = "sparse"
        BY <1>8
      <3> QED BY <1>1, <1>7, <1>8, <1>10, <1>13, <2>1, <2>2, <2>6, <2>9, <3>1,
                 <3>2, <3>3, <3>4, WriterTakesNext
    <2> QED BY <2>7, <2>8, <2>9
  <1>14. CASE ~(first_run /\ ~image.fits) /\ sparse
    <2>1. /\ first_run' = FALSE
          /\ status_storage' = unsparse_status'
          /\ trouble' = (trouble \/ ~ok)
          /\ IF i = 0 THEN write_sparse(<<>>, padding[c], offset, ok)
             ELSE write_sparse(padding[c] \o Body(i), Rest(image, i), offset, ok)
      BY <1>5, <1>14 DEF WriteData
    <2>2. Sound /\ Sound' /\ offset = Size(w) /\ padding[c] = Rest(image, w)
      BY <1>3, <1>8, <1>14 DEF Sound
    <2>3. CASE i = 0
      <3>1. ok /\ w = image.length /\ ~ReaderRuns /\ ~FAIL(status_usb)
        BY <1>1, <1>2, <1>8, <2>3
      <3>2. /\ unsparse_status' = "STATUS_OK"
            /\ flash' = Put(<<>>, offset)
            /\ image_offset' = offset + Len(<<>>)
            /\ \/ padding' = padding
               \/ padding' = [padding EXCEPT ![cache_shift(flipIdxR)]
                                               = padding[c]]
        BY <2>1, <2>3, <3>1 DEF write_sparse
      <3>3. pc'["writer"] = "stop0"
        BY <1>10, <2>3 DEF after_write
      <3>4. \A p \in Place : flash'[p] = flash[p]
        <4>1. offset \in Nat /\ Len(<<>>) = 0
          BY <1>4
        <4>2. flash' = [p \in Place |-> IF p \in offset..(offset + 0 - 1)
                                        THEN <<>>[p - offset + 1]
                                        ELSE flash[p]]
          BY <3>2, <4>1 DEF Put
        <4>3. \A p \in Place : p \notin offset..(offset + 0 - 1)
          BY <4>1, <1>1 DEF Place
        <4> QED BY <4>2, <4>3
      <3>5. HoldsPrefix(w) => HoldsPrefix(w)'
        <4>1. \A u \in WrittenUnits(w) : PlaceOf(image, u) \in Place
          BY UnitsBelow, ControlGives DEF WrittenUnits
        <4> QED BY <1>8, <3>4, <4>1 DEF HoldsPrefix, WrittenUnits
      <3>6. image_offset' \in 0..(2 * MaxPackages) /\ DOMAIN padding' = Cache
        BY <1>1, <1>4, <1>7, <3>2
      <3>7. Sound' => /\ HoldsPrefix(w)'
                      /\ trouble' => w < image.length
                      /\ ~trouble' => w = image.length
                      /\ trouble' <=> FAIL(status_usb) \/ FAIL(status_storage)'
        BY <1>6, <2>1, <2>2, <3>1, <3>2, <3>5 DEF FAIL
      <3> QED BY <1>1, <1>7, <1>8, <1>10, <1>11, <3>1, <3>3, <3>6, <3>7,
                 WriterStops
    <2>4. CASE i # 0 /\ ~ok
      <3>1. /\ unsparse_status' = "STATUS_EMMC_ERR"
            /\ UNCHANGED <<flash, padding>> /\ image_offset' = offset
        BY <2>1, <2>4 DEF write_sparse
      <3>2. pc'["writer"] = "stop0" /\ FAIL(status_storage)'
        BY <1>10, <2>1, <3>1 DEF after_write, FAIL
      <3>3. w < image.length
        BY <1>1, <1>2, <2>4
      <3>4. HoldsPrefix(w) => HoldsPrefix(w)'
        BY <1>8, <3>1, PrefixKept
      <3> QED BY <1>1, <1>6, <1>7, <1>8, <1>10, <1>11, <2>1, <2>2, <2>4, <3>1,
                 <3>2, <3>3, <3>4, WriterStops
    <2>5. CASE i # 0 /\ ok
      <3>1. w < image.length /\ i = w + 1
        BY <1>1, <1>2, <2>5
      <3>2. padding[c] \o Body(i) = NextUnits(w)
        <4>1. /\ \A a, b : <<a>> \o <<b>> = <<a, b>>
              /\ \A b : <<>> \o <<b>> = <<b>>
          <5>1. ASSUME NEW a, NEW b PROVE <<a>> \o <<b>> = <<a, b>>
            <6>1. a \in {a, b} /\ b \in {a, b}
              OBVIOUS
            <6> QED BY <6>1, OneAfterOne
          <5>2. ASSUME NEW b PROVE <<>> \o <<b>> = <<b>>
            OBVIOUS
          <5> QED BY <5>1, <5>2
        <4>2. Body(i) = <<<<w + 1, "body">>>>
          BY <1>1, <3>1 DEF Body
        <4> QED BY <2>2, <4>1, <4>2 DEF Rest, NextUnits
      <3>3. NextUnits(w) \o Rest(image, i) # <<>>
        BY <3>1 DEF Rest, NextUnits
      <3>4. /\ unsparse_status' = "STATUS_OK" /\ bulk_status' = bulk_status
            /\ flash' = Put(NextUnits(w), Size(w))
            /\ image_offset' = Size(w) + Len(NextUnits(w))
            /\ padding' = [padding EXCEPT ![cache_shift(flipIdxR)]
                                            = Rest(image, i)]
        BY <2>1, <2>2, <2>5, <3>2, <3>3 DEF write_sparse
      <3>5. cache_shift(c) = CacheOf(w + 2) /\ cache_shift(c) \in Cache
        BY <1>1, <1>2, CachesInTurn DEF Cache, cache_shift
      <3>6. DOMAIN padding' = Cache /\ padding'[CacheOf(w + 2)] = Rest(image, w + 1)
        BY <1>7, <3>1, <3>4, <3>5
      <3>7. pc'["writer"] = "give_back" /\ ~FAIL(status_storage)'
        BY <1>10, <2>1, <2>5, <3>4 DEF after_write, FAIL
      <3>8. image_offset' \in 0..(Size(w) + Len(NextUnits(w)))
        <4>1. Len(NextUnits(w)) \in Nat
          BY DEF NextUnits
        <4> QED BY <1>4, <3>4, <4>1
      <3>9. trouble' = trouble
        <4>1. trouble \in BOOLEAN
          BY DEF ControlInv, ControlTypes
        <4> QED BY <2>1, <2>5, <4>1
      <3> QED BY <1>1, <1>7, <1>8, <1>10, <1>14, <2>1, <2>2, <3>1, <3>4, <3>6,
                 <3>7, <3>8, <3>9, WriterTakesNext
    <2> QED BY <2>3, <2>4, <2>5
  <1> QED BY <1>12, <1>13, <1>14

LEMMA DownloadDataData ==
  ASSUME ControlInv, DataInv, NEW img \in Image, IsImage(img), DownloadData(img)
  PROVE  DataInv'
  <1>1. /\ pc["reader"] = "idle" /\ image' = img
        /\ signalled' = [e \in DOMAIN signalled |-> e[1] = "cache"]
        /\ padding' = [i \in Cache |-> <<>>]
        /\ flipIdxR' = 0 /\ flipIdxW' = 0
        /\ status_usb' = "STATUS_OK" /\ status_storage' = "STATUS_OK"
        /\ bytes_already_read' = 0 /\ first_run' = TRUE
        /\ flash' = [p \in Place |-> None]
        /\ UNCHANGED image_offset
        /\ \/ /\ pc' = [reader |-> "fill", writer |-> "wait"]
              /\ alive' = TRUE /\ trouble' = FALSE /\ verdict' = None
           \/ /\ verdict' = "STATUS_THREAD" /\ trouble' = TRUE
              /\ UNCHANGED <<pc, alive>>
    BY DEF DownloadData, At
  <1>2. /\ img.length \in Nat \ {0} /\ 0 \notin img.leaves
        /\ \A u \in Units(img) : u[1] \in 1..img.length
    BY TransferAssumption DEF Image, IsImage, Units
  <1>3. \A i \in Cache : ~signalled'[content_available(i)]
    <2>1. DOMAIN signalled = EventSet
      BY ControlParts
    <2>2. signalled' = [e \in EventSet |-> e[1] = "cache"]
      BY <1>1, <2>1
    <2>3. \A i \in Cache : content_available(i)[1] # "cache"
      BY DEF content_available
    <2>4. \A e \in EventSet : signalled'[e] <=> e[1] = "cache"
      BY ONLY <2>2, Zenon
    <2> QED BY <2>3, <2>4, EventNames
  <1>4. HoldsPrefix(0)'
    <2>1. \A u \in Units(img) : u[1] \in Nat \ {0}
      BY <1>2
    <2>2. \A u \in Units(img) : ~(u[1] < 0) /\ u # <<0, "body">>
      BY <2>1
    <2>3. WrittenUnits(0)' = {}
      BY <1>1, <2>2 DEF WrittenUnits
    <2> QED BY <1>1, <2>3 DEF HoldsPrefix
  <1>5. CASE pc' = [reader |-> "fill", writer |-> "wait"] /\ alive' = TRUE
             /\ trouble' = FALSE /\ verdict' = None
    <2>1. /\ pc'["reader"] = "fill" /\ pc'["writer"] = "wait"
          /\ ReaderRuns' /\ WriterRuns' /\ ~FAIL(status_usb)'
          /\ ~FAIL(status_storage)'
      BY <1>1, <1>5 DEF ReaderRuns, WriterRuns, FAIL
    <2>2. BothGoOn(0)'
      <3>1. Published' = 0
        BY <1>1, <2>1 DEF Published
      <3>2. \A i \in Cache : ~Full(i)'
        BY <1>3, <2>1 DEF Full, WriterHas, content_available
      <3>3. CacheOf(1) = 0 /\ CacheOf(2) = 1
        BY DEF CacheOf
      <3>4. ~Full(0)' /\ ~Full(1)'
        BY <3>2 DEF Cache
      <3>5. ~Full(CacheOf(1))' /\ ~Full(CacheOf(2))'
        BY <3>3, <3>4
      <3> QED BY <1>1, <2>1, <3>1, <3>3, <3>5 DEF BothGoOn, CacheOf
    <2>3. WriterGoesOn(0)'
      BY <2>1 DEF WriterGoesOn
    <2>4. WriterKeeps(0)'
      <3>1. CacheOf(1) = 0 /\ CacheOf(1) \in Cache
        BY DEF CacheOf, Cache
      <3>2. padding'[CacheOf(1)] = <<>> /\ Rest(image', 0) = <<>>
        BY <1>1, <1>2, <3>1 DEF Rest
      <3> QED BY <1>1, <2>1, <3>1, <3>2 DEF WriterKeeps, CacheOf, Rest
    <2>5. Outcome(0)'
      BY <1>4, <1>5, <2>1 DEF Outcome, FAIL
    <2>6. DataTypes'
      BY <1>1, <1>5, <2>1 DEF DataInv, DataTypes
    <2>7. 0 \in 0..image'.length
      BY <1>1, <1>2
    <2> QED BY <2>2, <2>3, <2>4, <2>5, <2>6, <2>7 DEF Data, DataInv
  <1>6. CASE verdict' = "STATUS_THREAD" /\ trouble' = TRUE
             /\ UNCHANGED <<pc, alive>>
    <2>1. ~alive' /\ ~ReaderRuns' /\ ~WriterRuns'
      BY <1>1, <1>6, ControlGives DEF ReaderRuns, WriterRuns
    <2>2. BothGoOn(0)' /\ WriterGoesOn(0)' /\ WriterKeeps(0)'
      BY <2>1 DEF BothGoOn, WriterGoesOn, WriterKeeps
    <2>3. Outcome(0)'
      <3>1. 0 < image'.length
        BY <1>1, <1>2
      <3> QED BY <1>4, <1>6, <2>1, <3>1 DEF Outcome
    <2>4. DataTypes'
      BY <1>1, <2>1 DEF DataInv, DataTypes
    <2>5. 0 \in 0..image'.length
      BY <1>1, <1>2
    <2> QED BY <2>2, <2>3, <2>4, <2>5 DEF Data, DataInv
  <1> QED BY <1>1, <1>5, <1>6

LEMMA DataStart ==
  ASSUME TransferInit
  PROVE  DataInv
  <1>1. /\ pc["reader"] = "idle" /\ pc["writer"] = "exited" /\ alive = FALSE
        /\ verdict = None /\ flash = [p \in Place |-> None]
        /\ image \in Image /\ image_offset = 0
        /\ padding = [i \in Cache |-> <<>>] /\ trouble = FALSE
    BY DEF TransferInit, Part
  <1>2. ~ReaderRuns /\ ~WriterRuns
    BY <1>1 DEF ReaderRuns, WriterRuns
  <1>3. /\ image.length \in Nat /\ MaxPackages \in Nat
        /\ \A u \in Units(image) : u[1] \in Nat \ {0}
    BY <1>1, TransferAssumption DEF TransferInit, Image, IsImage, Units
  <1>4. HoldsPrefix(0)
    <2>1. \A u \in Units(image) : ~(u[1] < 0) /\ u # <<0, "body">>
      BY <1>3
    <2>2. WrittenUnits(0) = {}
      BY <2>1 DEF WrittenUnits
    <2> QED BY <1>1, <2>2 DEF HoldsPrefix
  <1>5. Data(0)
    BY <1>1, <1>2, <1>4
       DEF Data, BothGoOn, WriterGoesOn, WriterKeeps, Outcome
  <1>6. DataTypes
    BY <1>1, <1>2, <1>3 DEF DataTypes
  <1> QED BY <1>3, <1>5, <1>6 DEF DataInv

LEMMA DataNext ==
  ASSUME ControlInv, DataInv, [TransferNext]_transfer_vars
  PROVE  DataInv'
  <1>1. ASSUME NEW img \in Image, IsImage(img), DownloadData(img)
        PROVE  DataInv'
    BY <1>1, DownloadDataData
  <1>2. CASE Reader
    BY <1>2, WaitForCacheData, StartReadData, UsbReadData, PublishData,
       LastPackageData, StopEngineData, JoinData, DestroyEngineData
       DEF Reader, Part
  <1>3. CASE Writer
    BY <1>3, WaitForContentData, TakeContentData, GiveBackData, StopEngineData,
       WriteDataData DEF Writer, Part
  <1>4. CASE UNCHANGED transfer_vars
    <2>1. /\ UNCHANGED <<signalled, queue, pc, image, content, padding,
                         flipIdxR, flipIdxW, status_usb, status_storage,
                         bytes_already_read, alive, trouble, verdict>>
          /\ UNCHANGED <<first_run, is_sparse, unsparse_status, bulk_status,
                         image_offset, flash>>
      BY <1>4 DEF transfer_vars, event_vars, engine_vars, write_vars
    <2>2. PICK w \in 0..image.length : Data(w)
      BY DEF DataInv
    <2>3. (ReaderRuns' <=> ReaderRuns) /\ (WriterRuns' <=> WriterRuns)
      BY <2>1 DEF ReaderRuns, WriterRuns
    <2>4. \A i \in Cache : Full(i)' <=> Full(i)
      BY <2>1 DEF Full, WriterHas, content_available
    <2>5. w \in Nat /\ w \in 0..image'.length
      BY <2>1, ControlGives
    <2>6. BothGoOn(w)'
      BY <2>1, <2>2, <2>3, <2>4, <2>5, BothKept DEF Data
    <2>7. WriterKeeps(w)'
      BY <2>1, <2>2, KeepsKept DEF Data, write_vars
    <2>8. Outcome(w)' /\ DataTypes'
      BY <2>1, <2>2, <2>3, OutcomeKept, DataTypesKept
         DEF Data, DataInv, write_vars
    <2>9. WriterGoesOn(w)'
      BY <2>1, <2>2, <2>3 DEF Data, WriterGoesOn
    <2> QED BY <2>5, <2>6, <2>7, <2>8, <2>9 DEF Data, DataInv
  <1> QED BY <1>1, <1>2, <1>3, <1>4 DEF TransferNext

\* Some prefix of the image is on the eMMC, and both threads know which.
THEOREM EngineData == TransferSpec => [](ControlInv /\ DataInv)
  <1>1. TransferInit => ControlInv /\ DataInv
    BY ControlStart, DataStart
  <1>2. ControlInv /\ DataInv /\ [TransferNext]_transfer_vars
          => (ControlInv /\ DataInv)'
    BY ControlNext, DataNext
  <1> QED BY <1>1, <1>2, PTL DEF TransferSpec

-----------------------------------------------------------------------------
(* What it is for.                                                         *)

\* The two threads are never in the same cache, and the context is there as
\* long as the writer thread (transfer_parallel.c, stop_engine and the waits
\* of download_data): for images of any length and failures at any step.
THEOREM CachesAreExclusive == TransferSpec => []TransferInv
  <1>1. ControlInv /\ DataInv => TransferInv
    BY ControlSuffices, TransferAssumption
       DEF TransferInv, TransferTypeOK, ControlInv, ControlTypes, DataInv,
           DataTypes, Image
  <1> QED BY <1>1, EngineData, PTL

\* No package is written twice, out of order or at another's place.
THEOREM NothingIsMisplaced == TransferSpec => []NothingMisplaced
  <1>1. ControlInv /\ DataInv => NothingMisplaced
    BY DEF DataInv, Data, Outcome, HoldsPrefix, NothingMisplaced, WrittenUnits
  <1> QED BY <1>1, EngineData, PTL

\* What download_data returns is the truth about the eMMC.
THEOREM VerdictsAreTrue == TransferSpec => []VerdictExact
  <1>1. ASSUME ControlInv, DataInv PROVE VerdictExact
    <2> SUFFICES ASSUME verdict # None, Sound, Complete(image)
                 PROVE  /\ verdict = "STATUS_OK" <=>
                             \A u \in Units(image) :
                               flash[PlaceOf(image, u)] = u
                        /\ verdict = "STATUS_OK" <=> ~trouble
      BY DEF VerdictExact
    <2> PICK w \in 0..image.length : Data(w)
      BY <1>1 DEF DataInv
    <2>1. ~alive /\ ~WriterRuns
      BY <1>1, ControlGives DEF DataInv, DataTypes
    <2>2. /\ HoldsPrefix(w)
          /\ verdict = "STATUS_OK" <=> ~trouble
          /\ ~trouble => w = image.length
          /\ trouble => w < image.length
      BY <2>1 DEF Data, Outcome
    <2>3. /\ image \in Image /\ IsImage(image)
          /\ image.length \in 1..MaxPackages /\ MaxPackages \in Nat
          /\ image.leaves \subseteq 1..image.length
      BY <1>1, ControlGives DEF IsImage
    <2>4. CASE ~trouble
      <3>1. Units(image) \subseteq WrittenUnits(w)
        <4> SUFFICES ASSUME NEW u \in Units(image)
                     PROVE  u[1] < w \/ u = <<w, "body">>
          BY DEF WrittenUnits
        <4>1. /\ u[1] \in 1..image.length
              /\ u = <<u[1], "body">> \/ u[1] \in image.leaves
          BY <2>3 DEF Units
        <4>2. CASE u[1] = image.length
          BY <2>2, <2>4, <4>1, <4>2 DEF Complete
        <4>3. CASE u[1] # image.length
          BY <2>2, <2>3, <2>4, <4>1, <4>3
        <4> QED BY <4>2, <4>3
      <3> QED BY <2>2, <2>4, <3>1 DEF HoldsPrefix
    <2>5. CASE trouble
      <3> DEFINE last == <<image.length, "body">>
      <3>1. last \in Units(image) /\ last[1] = image.length
        BY <2>3 DEF Units
      <3>2. last \notin WrittenUnits(w)
        BY <2>2, <2>3, <2>5 DEF WrittenUnits
      <3>3. last # None
        BY <2>3, TransferAssumption
      <3>4. PlaceOf(image, last) \in Place
        BY <2>3, <3>1, UnitsBelow
      <3>5. flash[PlaceOf(image, last)] # last
        BY <2>2, <3>2, <3>3, <3>4 DEF HoldsPrefix
      <3> QED BY <2>2, <2>5, <3>1, <3>5
    <2> QED BY <2>4, <2>5
  <1> QED BY <1>1, EngineData, PTL
=============================================================================
