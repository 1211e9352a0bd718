------------------------------- MODULE Transfer -------------------------------
(***************************************************************************)
(* The download engine of fastboot (app/mt_boot/mtransfer): the thread of  *)
(* the command loop reads packages from USB into two caches in turn, the   *)
(* thread write_storage_proc writes them to the eMMC, and six              *)
(* auto-unsignal events keep them apart.  The static variables of          *)
(* write_data live on from one download to the next.                       *)
(*                                                                         *)
(* A package is a number.  What a sparse image makes of package i is the   *)
(* unit <<i, "body">>, and <<i, "rest">> if fewer bytes than a block are   *)
(* left over that the next package has to complete (module Unsparse looks  *)
(* inside).  flash is what this download has put where, in units.          *)
(***************************************************************************)
EXTENDS Integers, Sequences, FiniteSets

CONSTANTS
  MaxPackages,   \* bound: packages of an image
  Kinds,         \* the kinds of image that are downloaded
  None           \* no unit written at a place

ASSUME TransferAssumption ==
  /\ MaxPackages \in Nat \ {0}
  /\ Kinds \subseteq {"sparse", "plain"}
  /\ None \notin (1..MaxPackages) \X {"body", "rest"}

VARIABLES
  signalled, queue,    \* the events (AutoEvent)
  pc,                  \* where the reader and the writer are
  image,               \* the image of the download
  content,             \* dual_cache[].content_length: the package, 0 for none
  padding,             \* dual_cache[].padding_length: the units there
  flipIdxR, flipIdxW,
  status_usb, status_storage,
  bytes_already_read,  \* in packages
  first_run,           \* download_data_context_t.first_run
  is_sparse,           \* static in write_data
  unsparse_status,     \* static in write_data: its handle_status
  bulk_status,         \* static in write_data: its handle_status
  image_offset,        \* image_address_offset of the parser in use, in units
  alive,               \* the engine's context exists
  flash,
  trouble,             \* history: a step of this download failed
  verdict              \* what download_data returned

engine_vars == <<content, padding, flipIdxR, flipIdxW, status_usb,
                 status_storage, bytes_already_read, alive>>
write_vars == <<first_run, is_sparse, unsparse_status, bulk_status,
                image_offset, flash>>
event_vars == <<signalled, queue>>
transfer_vars == <<event_vars, pc, image, engine_vars, write_vars, trouble,
                   verdict>>

Cache == {0, 1}
Part == {"reader", "writer"}
Place == 0..(2 * MaxPackages - 1)

\* <<"end", 0>> is thrR_end_ev, <<"end", 1>> is thrW_end_ev.
content_available(i) == <<"content", i>>
cache_available(i) == <<"cache", i>>
thrR_end_ev == <<"end", 0>>
thrW_end_ev == <<"end", 1>>

Events == INSTANCE AutoEvent WITH
            Event <- {"content", "cache", "end"} \X Cache, Client <- Part

\* Errors are negative, STATUS_OK and STATUS_SPARSE_INCOMPLETE are not.
FAIL(status) == status # "STATUS_OK"

cache_shift(pre) == 1 - pre

Image == [kind : Kinds, length : 1..MaxPackages, fits : BOOLEAN,
          leaves : SUBSET (1..MaxPackages)]

\* A plain image has no boundaries; rests exist within the image only.
IsImage(img) ==
  /\ img.leaves \subseteq 1..img.length
  /\ img.kind = "plain" => img.leaves = {}

\* The image is not cut off inside a chunk.
Complete(img) == img.length \notin img.leaves

\* What package i of img is on the eMMC, first what is written when it comes.
Body(i) == IF i = 0 THEN <<>> ELSE <<<<i, "body">>>>
Rest(img, i) == IF i \in img.leaves THEN <<<<i, "rest">>>> ELSE <<>>

\* p runs with its pc at label, and goes on at next.
At(p, label) == pc[p] = label /\ ~Events!Asleep(p)
Goto(p, next) == pc' = [pc EXCEPT ![p] = next]

TransferInit ==
  /\ Events!AutoEventInit
  /\ \A e \in DOMAIN signalled : ~signalled[e]
  /\ pc = [p \in Part |-> IF p = "reader" THEN "idle" ELSE "exited"]
  /\ image \in {img \in Image : IsImage(img) /\ img.length = 1 /\ img.fits}
  /\ content = [i \in Cache |-> 0]
  /\ padding = [i \in Cache |-> <<>>]
  /\ flipIdxR = 0 /\ flipIdxW = 0
  /\ status_usb = "STATUS_OK" /\ status_storage = "STATUS_OK"
  /\ bytes_already_read = 0
  /\ first_run = TRUE
  /\ is_sparse = FALSE
  /\ unsparse_status = "STATUS_OK" /\ bulk_status = "STATUS_OK"
  /\ image_offset = 0
  /\ alive = FALSE
  /\ flash = [p \in Place |-> None]
  /\ trouble = FALSE
  /\ verdict = None

-----------------------------------------------------------------------------
(* The thread of the command loop: download_data and read_usb_proc.        *)

\* init_engine_context and init_download_data_context; the writer thread is
\* created and resumed, or cannot be created.
DownloadData(img) ==
  /\ At("reader", "idle")
  /\ image' = img
  /\ signalled' = [e \in DOMAIN signalled |-> e[1] = "cache"]
  /\ queue' = [e \in DOMAIN queue |-> <<>>]
  /\ padding' = [i \in Cache |-> <<>>]
  /\ flipIdxR' = 0 /\ flipIdxW' = 0
  /\ status_usb' = "STATUS_OK" /\ status_storage' = "STATUS_OK"
  /\ bytes_already_read' = 0
  /\ first_run' = TRUE
  /\ flash' = [p \in Place |-> None]
  /\ \/ /\ pc' = [reader |-> "fill", writer |-> "wait"]
        /\ alive' = TRUE /\ trouble' = FALSE /\ verdict' = None
     \/ /\ verdict' = "STATUS_THREAD" /\ trouble' = TRUE
        /\ UNCHANGED <<pc, alive>>
  /\ UNCHANGED <<content, is_sparse, unsparse_status, bulk_status,
                 image_offset>>

\* The head of the outer loop: wait for a cache, for another package or for
\* the marker of the end.
WaitForCache ==
  /\ At("reader", "fill")
  /\ Events!Wait(cache_available(flipIdxW), "reader")
  /\ Goto("reader",
          IF bytes_already_read < image.length THEN "read" ELSE "last")
  /\ UNCHANGED <<image, engine_vars, write_vars, trouble, verdict>>

StartRead ==
  /\ At("reader", "read")
  /\ content' = [content EXCEPT ![flipIdxW] = 0]
  /\ Goto("reader", "reading")
  /\ UNCHANGED <<event_vars, image, padding, flipIdxR, flipIdxW, status_usb,
                 status_storage, bytes_already_read, write_vars, alive,
                 trouble, verdict>>

\* Variant: the package is not counted.
count_never(n) == n

\* bytes_already_read += bytes_to_read
count(n) == n + 1

\* usb_read into the cache: it is filled, or the transfer fails.  The engine
\* looks at the statuses only after a transfer that succeeded.
UsbRead ==
  /\ At("reader", "reading")
  /\ \/ /\ content' = [content EXCEPT ![flipIdxW] = bytes_already_read + 1]
        /\ bytes_already_read' = count(bytes_already_read)
        /\ Goto("reader", IF FAIL(status_usb) \/ FAIL(status_storage)
                          THEN "stop0" ELSE "publish")
        /\ UNCHANGED <<status_usb, trouble>>
     \/ /\ status_usb' = "STATUS_USB_ERR"
        /\ trouble' = TRUE
        /\ Goto("reader", "stop0")
        /\ UNCHANGED <<content, bytes_already_read>>
  /\ UNCHANGED <<event_vars, image, padding, flipIdxR, flipIdxW,
                 status_storage, write_vars, alive, verdict>>

\* The cache goes to the writer; so does the empty package that ends the
\* image.  The index moves after the event was signalled; nobody but the
\* reader looks at it, so the two are one step.
Publish ==
  /\ At("reader", "publish")
  /\ Events!Signal(content_available(flipIdxW))
  /\ flipIdxW' = cache_shift(flipIdxW)
  /\ Goto("reader", "fill")
  /\ UNCHANGED <<image, content, padding, flipIdxR, status_usb,
                 status_storage, bytes_already_read, write_vars, alive,
                 trouble, verdict>>

LastPackage ==
  /\ At("reader", "last")
  /\ content' = [content EXCEPT ![flipIdxW] = 0]
  /\ Events!Signal(content_available(flipIdxW))
  /\ Goto("reader", "stop0")
  /\ UNCHANGED <<image, padding, flipIdxR, flipIdxW, status_usb,
                 status_storage, bytes_already_read, write_vars, alive,
                 trouble, verdict>>

\* The n-th event stop_engine signals, for the provider and the consumer.
stop_event(p, n) ==
  IF p = "reader"
  THEN IF n < 2 THEN content_available(n) ELSE thrW_end_ev
  ELSE IF n < 2 THEN cache_available(n) ELSE thrR_end_ev

\* stop_engine, one event_signal at a time.
StopEngine(p) ==
  \E n \in 0..2 :
    /\ At(p, <<"stop0", "stop1", "stop2">>[n + 1])
    /\ Events!Signal(stop_event(p, n))
    /\ Goto(p, CASE n = 0 -> "stop1"
                 [] n = 1 -> "stop2"
                 [] n = 2 -> IF p = "reader" THEN "join_writer" ELSE "exited")
    /\ UNCHANGED <<image, engine_vars, write_vars, trouble, verdict>>

\* download_data waits for both ends.
Join ==
  /\ \/ /\ At("reader", "join_writer")
        /\ Events!Wait(thrR_end_ev, "reader")
        /\ Goto("reader", "join_reader")
     \/ /\ At("reader", "join_reader")
        /\ Events!Wait(thrW_end_ev, "reader")
        /\ Goto("reader", "destroy")
  /\ UNCHANGED <<image, engine_vars, write_vars, trouble, verdict>>

\* destroy_engine, and the context leaves the stack.
DestroyEngine ==
  /\ At("reader", "destroy")
  /\ alive' = FALSE
  /\ verdict' = IF FAIL(status_storage) THEN status_storage ELSE status_usb
  /\ Goto("reader", "idle")
  /\ UNCHANGED <<event_vars, image, content, padding, flipIdxR, flipIdxW,
                 status_usb, status_storage, bytes_already_read, write_vars,
                 trouble>>

Reader ==
  \/ WaitForCache \/ StartRead \/ UsbRead \/ Publish \/ LastPackage
  \/ StopEngine("reader") \/ Join \/ DestroyEngine

-----------------------------------------------------------------------------
(* The writer thread: write_storage_proc and write_data.                   *)

WaitForContent ==
  /\ At("writer", "wait")
  /\ Events!Wait(content_available(flipIdxR), "writer")
  /\ Goto("writer", "take")
  /\ UNCHANGED <<image, engine_vars, write_vars, trouble, verdict>>

\* Variant: the cache is given back before it is written.
take_gives_back ==
  /\ At("writer", "take")
  /\ Goto("writer", IF FAIL(status_usb) THEN "stop0" ELSE "write")
  /\ Events!Signal(cache_available(flipIdxR))
  /\ UNCHANGED <<image, engine_vars, write_vars, trouble, verdict>>

TakeContent ==
  /\ At("writer", "take")
  /\ Goto("writer", IF FAIL(status_usb) THEN "stop0" ELSE "write")
  /\ UNCHANGED <<event_vars, image, engine_vars, write_vars, trouble, verdict>>

\* units at place on, the rest of the eMMC as it was.
Put(units, place) ==
  [p \in Place |-> IF p \in place..(place + Len(units) - 1)
                   THEN units[p - place + 1] ELSE flash[p]]

\* Variant: the rest goes in front of the cache it came from.
rest_in_same_cache(units, rest, offset, ok) ==
  /\ unsparse_status' = IF ok THEN "STATUS_OK" ELSE "STATUS_EMMC_ERR"
  /\ flash' = IF ok THEN Put(units, offset) ELSE flash
  /\ image_offset' = IF ok THEN offset + Len(units) ELSE offset
  /\ padding' = IF ok /\ units \o rest # <<>>
                THEN [padding EXCEPT ![flipIdxR] = rest] ELSE padding
  /\ UNCHANGED bulk_status

\* write_sparse_data on units, of which rest is kept for the next package.
\* With nothing to write it is end_write_sparse_data, which does nothing, or a
\* rest that still is no block and stays a rest.
write_sparse(units, rest, offset, ok) ==
  /\ unsparse_status' = IF ok THEN "STATUS_OK" ELSE "STATUS_EMMC_ERR"
  /\ flash' = IF ok THEN Put(units, offset) ELSE flash
  /\ image_offset' = IF ok THEN offset + Len(units) ELSE offset
  /\ padding' = IF ok /\ units \o rest # <<>>
                THEN [padding EXCEPT ![cache_shift(flipIdxR)] = rest]
                ELSE padding
  /\ UNCHANGED bulk_status

\* write_bulk_data on units: once an error is noted the offset stays.  Without
\* units it is end_write_bulk, which does nothing.
write_bulk(units, offset, ok) ==
  /\ bulk_status' = IF ok THEN bulk_status ELSE "STATUS_EMMC_ERR"
  /\ flash' = IF ok THEN Put(units, offset) ELSE flash
  /\ image_offset' = IF FAIL(bulk_status') THEN offset ELSE offset + Len(units)
  /\ UNCHANGED <<padding, unsparse_status>>

\* Variant: the status of the write is not looked at.
after_write_unchecked(status, i) == IF i = 0 THEN "stop0" ELSE "give_back"

\* Where write_storage_proc goes on after write_data.
after_write(status, i) ==
  IF FAIL(status) \/ i = 0 THEN "stop0" ELSE "give_back"

\* write_data on the package in the cache.  Its first run finds out what the
\* image is and starts the parser for it; ok is whether the eMMC takes what is
\* written (a chunk of an unknown type ends a sparse image in the same way).
\* The result is the status of the sparse parser, whatever the image is.
WriteData(ok) ==
  LET i       == content[flipIdxR]
      sparse  == IF first_run THEN image.kind = "sparse" ELSE is_sparse
      offset  == IF first_run THEN 0 ELSE image_offset
      too_large == first_run /\ ~image.fits
      rest    == padding[flipIdxR]
  IN  /\ At("writer", "write")
      /\ ok \/ (i # 0 /\ ~too_large)
      /\ is_sparse' = sparse
      /\ IF too_large
         THEN /\ unsparse_status' = IF sparse THEN "STATUS_OK"
                                    ELSE unsparse_status
              /\ image_offset' = 0
              /\ UNCHANGED <<first_run, bulk_status, flash, padding>>
         ELSE /\ first_run' = FALSE
              /\ IF ~sparse THEN write_bulk(Body(i), offset, ok)
                 ELSE IF i = 0 THEN write_sparse(<<>>, rest, offset, ok)
                 ELSE write_sparse(rest \o Body(i), Rest(image, i), offset, ok)
      /\ status_storage' = IF too_large THEN "STATUS_TOO_LARGE"
                           ELSE unsparse_status'
      /\ trouble' = (trouble \/ too_large \/ ~ok)
      /\ Goto("writer", after_write(status_storage', i))
      /\ UNCHANGED <<event_vars, image, content, flipIdxR, flipIdxW,
                     status_usb, bytes_already_read, alive, verdict>>

\* The cache is writeable again.  The index, which only the writer looks at,
\* moves in the same step.
GiveBack ==
  /\ At("writer", "give_back")
  /\ Events!Signal(cache_available(flipIdxR))
  /\ flipIdxR' = cache_shift(flipIdxR)
  /\ Goto("writer", "wait")
  /\ UNCHANGED <<image, content, padding, flipIdxW, status_usb,
                 status_storage, bytes_already_read, write_vars, alive,
                 trouble, verdict>>

Writer ==
  \/ WaitForContent \/ TakeContent \/ GiveBack \/ StopEngine("writer")
  \/ \E ok \in BOOLEAN : WriteData(ok)

TransferNext ==
  \/ \E img \in Image : IsImage(img) /\ DownloadData(img)
  \/ Reader
  \/ Writer

TransferSpec == TransferInit /\ [][TransferNext]_transfer_vars

\* Both threads go on whenever they are not in a wait, and every transfer
\* over USB and every write to the eMMC ends, well or badly.
TransferFairSpec ==
  TransferSpec /\ WF_transfer_vars(Reader) /\ WF_transfer_vars(Writer)

-----------------------------------------------------------------------------
(* Properties.                                                             *)

\* Every variable has its type.
TransferTypeOK ==
  /\ signalled \in [{"content", "cache", "end"} \X Cache -> BOOLEAN]
  /\ DOMAIN queue = DOMAIN signalled
  /\ image \in Image
  /\ content \in [Cache -> 0..MaxPackages]
  /\ flipIdxR \in Cache /\ flipIdxW \in Cache
  /\ status_usb \in {"STATUS_OK", "STATUS_USB_ERR"}
  /\ status_storage \in {"STATUS_OK", "STATUS_EMMC_ERR", "STATUS_TOO_LARGE"}
  /\ bytes_already_read \in 0..MaxPackages
  /\ {unsparse_status, bulk_status} \subseteq {"STATUS_OK", "STATUS_EMMC_ERR"}
  /\ image_offset \in 0..(2 * MaxPackages)
  /\ {first_run, is_sparse, alive, trouble} \subseteq BOOLEAN

\* The two threads are never in the same cache: the reader fills one while
\* the writer writes from the other, errors and the end of an image included.
CachesExclusive ==
  ~ /\ pc["writer"] = "write" /\ ~Events!Asleep("writer")
    /\ pc["reader"] \in {"read", "reading", "last"} /\ ~Events!Asleep("reader")
    /\ flipIdxR = flipIdxW

\* The context lies on the stack of download_data: when it is gone, the
\* writer thread has touched it for the last time.
ContextOutlivesWriter == ~alive => pc["writer"] = "exited"

\* What holds of the context of the engine between any two of its steps.
TransferInv == TransferTypeOK /\ CachesExclusive /\ ContextOutlivesWriter

\* The parser can be relied on: it is the sparse one, which every image
\* starts afresh, or no error has ever been noted.
Sound ==
  \/ image.kind = "sparse"
  \/ bulk_status = "STATUS_OK" /\ unsparse_status = "STATUS_OK"

\* What the eMMC is to hold of an image, and where: a unit comes after the
\* bodies and the rests of the packages before it, a rest after its body.
Units(img) == ((1..img.length) \X {"body"}) \cup (img.leaves \X {"rest"})
PlaceOf(img, u) ==
  (u[1] - 1) + Cardinality({i \in img.leaves : i < u[1]})
             + (IF u[2] = "rest" THEN 1 ELSE 0)

\* No package is written twice, out of order or at another's place, however
\* reader and writer interleave and whatever fails.
NothingMisplaced ==
  Sound => \A p \in Place : flash[p] # None =>
             flash[p] \in Units(image) /\ PlaceOf(image, flash[p]) = p

\* What download_data returns is the truth: "okay" if and only if every
\* package is where it belongs, and a failure only if something failed.
VerdictExact ==
  (verdict # None /\ Sound /\ Complete(image)) =>
    /\ verdict = "STATUS_OK" <=>
         \A u \in Units(image) : flash[PlaceOf(image, u)] = u
    /\ verdict = "STATUS_OK" <=> ~trouble

\* A download ends, whatever fails: no thread waits for the other for ever.
DownloadEnds == (pc["reader"] # "idle") ~> (pc["reader"] = "idle")
=============================================================================
