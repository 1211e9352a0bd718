------------------------------- MODULE Fastboot -------------------------------
(***************************************************************************)
(* The command loop of fastboot and its USB transactions                   *)
(* (app/mt_boot/fastboot.c) over the endpoints of the USB driver           *)
(* (platform/common/mt_ssusb).  The thread and the interrupt handler share *)
(* one udc_request, txn_status and the two auto-unsignal events usb_online *)
(* and txn_done; only this thread waits for them, so the state of such an  *)
(* event (AutoEvent) is one of three.  Of the data only its length is      *)
(* kept; a transaction is one of five kinds, and what a command does is a  *)
(* choice.  The host is external.                                          *)
(***************************************************************************)
EXTENDS Integers

VARIABLES
  configured,        \* usb_online of mt_ssusb.c
  ep_req,            \* udc_endpoint.req # NULL
  txn_status,
  req_length,        \* udc_request.length: what was asked for, or less
  usb_online, txn_done,
  fastboot_state,
  thread_at,         \* where the thread is
  txn,               \* the transaction it is in
  outcome,           \* history: what ended that transaction's request
  asked,             \* history: the host waits for an answer
  suspended,         \* history: there has been a suspend
  timed_out          \* history: a request was given up while it was queued

driver_vars == <<configured, ep_req, txn_status>>
fastboot_vars == <<driver_vars, req_length, usb_online, txn_done, fastboot_state,
                   thread_at, txn, outcome, asked, suspended, timed_out>>

Event == {"unsignalled", "signalled", "awaited"}
Endpoint == {"in", "out"}
Transaction == {"command", "info", "DATA", "data", "reply"}

\* usb_read or usb_write; usb_write_with_timeout for "INFO", "OKAY", "FAIL".
endpoint(t) == IF t \in {"command", "data"} THEN "out" ELSE "in"
HasTimeout == {"info", "reply"}

FastbootInit ==
  /\ configured = FALSE
  /\ ep_req = [e \in Endpoint |-> FALSE]
  /\ txn_status = 0 /\ req_length = "all"
  /\ usb_online = "unsignalled" /\ txn_done = "unsignalled"
  /\ fastboot_state = "OFFLINE"
  /\ thread_at = "handler" /\ txn = "command"
  /\ outcome = "none" /\ asked = FALSE
  /\ suspended = FALSE /\ timed_out = FALSE

\* event_signal, event_unsignal and event_wait.
signal_event(ev) == IF ev = "awaited" THEN "unsignalled" ELSE "signalled"
unsignal_event(ev) == IF ev = "signalled" THEN "unsignalled" ELSE ev
wait_event(ev) == IF ev = "signalled" THEN "unsignalled" ELSE "awaited"

-----------------------------------------------------------------------------
(* The thread.                                                             *)

thread_frame == UNCHANGED <<driver_vars, usb_online, asked, suspended>>

\* What a step leaves that is about no transaction.
same_txn == UNCHANGED <<txn, req_length, outcome>>

\* fastboot_handler waits to be online.
WaitOnline ==
  \/ /\ thread_at = "handler"
     /\ usb_online' = wait_event(usb_online)
     /\ thread_at' = IF usb_online = "signalled" THEN "loop" ELSE "offline"
     /\ same_txn
     /\ UNCHANGED <<driver_vars, txn_done, fastboot_state, asked, suspended,
                    timed_out>>
  \/ /\ thread_at = "offline" /\ usb_online # "awaited"
     /\ thread_at' = "loop"
     /\ thread_frame /\ same_txn
     /\ UNCHANGED <<txn_done, fastboot_state, timed_out>>

Begin(t) ==
  /\ thread_at' = "check"
  /\ txn' = t /\ req_length' = "all" /\ outcome' = "none"

\* The loop of fastboot_command_loop, which ends in STATE_ERROR.
CommandLoop ==
  /\ thread_at = "loop"
  /\ IF fastboot_state = "ERROR"
     THEN /\ fastboot_state' = "OFFLINE"
          /\ thread_at' = "handler"
          /\ same_txn
     ELSE Begin("command") /\ UNCHANGED fastboot_state
  /\ thread_frame
  /\ UNCHANGED <<txn_done, timed_out>>

\* The transaction failed; a read of a command then ends the loop.
oops ==
  /\ fastboot_state' = "ERROR"
  /\ thread_at' = IF txn = "command" THEN "loop" ELSE "command"

\* udc_request_queue looks at usb_online before its critical section, and
\* returns 0 without queueing anything.
Check ==
  /\ thread_at = "check"
  /\ IF fastboot_state = "ERROR" THEN oops
     ELSE /\ thread_at' = IF configured THEN "queue" ELSE "wait"
          /\ UNCHANGED fastboot_state
  /\ thread_frame /\ same_txn
  /\ UNCHANGED <<txn_done, timed_out>>

Queue ==
  /\ thread_at = "queue"
  /\ ep_req' = [ep_req EXCEPT ![endpoint(txn)] = TRUE]
  /\ thread_at' = "wait"
  /\ same_txn
  /\ UNCHANGED <<configured, txn_status, usb_online, txn_done, fastboot_state,
                 asked, suspended, timed_out>>

WaitDone ==
  \/ /\ thread_at = "wait"
     /\ txn_done' = wait_event(txn_done)
     /\ thread_at' = IF txn_done = "signalled" THEN "done" ELSE "asleep"
     /\ thread_frame /\ same_txn
     /\ UNCHANGED <<fastboot_state, timed_out>>
  \/ /\ thread_at = "asleep" /\ txn_done # "awaited"
     /\ thread_at' = "done"
     /\ thread_frame /\ same_txn
     /\ UNCHANGED <<txn_done, fastboot_state, timed_out>>

\* event_wait_timeout gives up after USB_CMD_TIMEOUT; the request stays with
\* its endpoint.
TimeOutWrite ==
  /\ thread_at = "asleep" /\ txn_done = "awaited"
  /\ txn \in HasTimeout
  /\ txn_done' = "unsignalled"
  /\ oops
  /\ timed_out' = (timed_out \/ ep_req[endpoint(txn)])
  /\ thread_frame /\ same_txn

\* The transaction is over and succeeded: a command is looked up, even an
\* empty one; after "DATA" comes the data, in as many transactions as it
\* takes, of which a short one is the last.
succeeds ==
  \/ /\ txn = "command"
     /\ fastboot_state' = "COMMAND" /\ thread_at' = "command"
     /\ same_txn
  \/ /\ txn = "DATA" \/ (txn = "data" /\ req_length = "all")
     /\ Begin("data")
     /\ UNCHANGED fastboot_state
  \/ /\ txn \in {"info", "reply", "data"}
     /\ thread_at' = "command"
     /\ same_txn /\ UNCHANGED fastboot_state

TransactionDone ==
  /\ thread_at = "done"
  /\ IF txn_status < 0 THEN oops /\ same_txn ELSE succeeds
  /\ thread_frame
  /\ UNCHANGED <<txn_done, timed_out>>

\* Variant: the answer is written in STATE_COMMAND.
ack_later == UNCHANGED fastboot_state

ack == fastboot_state' = "COMPLETE"

\* fastboot_ack and fastboot_info, in STATE_COMMAND only.
Answer(t) ==
  /\ thread_at = "command"
  /\ fastboot_state = "COMMAND"
  /\ IF t = "reply" THEN ack ELSE UNCHANGED fastboot_state
  /\ Begin(t)
  /\ thread_frame
  /\ UNCHANGED <<txn_done, timed_out>>

\* cmd_download_standard or cmd_download_ultra.
Download ==
  /\ thread_at = "command"
  /\ fastboot_state = "COMMAND"
  /\ Begin("DATA")
  /\ thread_frame
  /\ UNCHANGED <<txn_done, fastboot_state, timed_out>>

\* The function of the command returns, for a failed download in
\* STATE_ERROR; a command without an answer gets "unknown reason".
CommandReturns ==
  /\ thread_at = "command"
  /\ fastboot_state # "COMMAND"
  /\ thread_at' = "loop"
  /\ fastboot_state' \in {fastboot_state, "ERROR"}
  /\ thread_frame /\ same_txn
  /\ UNCHANGED <<txn_done, timed_out>>

-----------------------------------------------------------------------------
(* The interrupt handler.                                                  *)

\* Variant: the endpoint keeps its request.
request_kept(es) == ep_req

without_requests(es) == [e \in Endpoint |-> ep_req[e] /\ e \notin es]

\* handle_ept_complete and req_complete for the requests of endpoints es.
complete(es, status, by) ==
  LET mine  == endpoint(txn) \in es
      once  == IF es = {} THEN txn_done ELSE signal_event(txn_done)
      twice == IF es = Endpoint THEN signal_event(once) ELSE once
  IN  /\ ep_req' = without_requests(es)
      /\ txn_status' = status
      /\ req_length' = IF es = {} \/ by = "host" THEN req_length ELSE "none"
      /\ txn_done' = twice
      /\ outcome' = IF mine THEN by ELSE outcome

\* The host sends a command or data, or takes what there is to read.
HostTransfers(e) ==
  /\ configured /\ ep_req[e]
  /\ complete({e}, 0, "host")
  /\ asked' = CASE e = endpoint(txn) /\ txn = "command" -> TRUE
                [] e = endpoint(txn) /\ txn = "reply"   -> FALSE
                [] OTHER -> asked
  /\ UNCHANGED <<configured, usb_online, fastboot_state, thread_at, txn,
                 suspended, timed_out>>

\* The host stalls the endpoint.
HostStalls ==
  /\ configured /\ ep_req["in"]
  /\ complete({"in"}, -1, "error")
  /\ UNCHANGED <<configured, usb_online, fastboot_state, thread_at, txn, asked,
                 suspended, timed_out>>

\* Variant: every endpoint is completed, with a request or without.
all_endpoints == Endpoint

\* The endpoints whose request mt_udc_suspend errors out.
with_request == {e \in Endpoint : ep_req[e]}

\* mt_udc_suspend leaves -1, but mt_udc_reset, in the same interrupt, clears
\* it.
status_after_suspend == 0

\* The cable is pulled: SUSPEND_INTR.
Suspend ==
  /\ configured' = FALSE
  /\ usb_online' = unsignal_event(usb_online)
  /\ complete(with_request, status_after_suspend, "error")
  /\ suspended' = TRUE
  /\ UNCHANGED <<fastboot_state, thread_at, txn, asked, timed_out>>

\* SET_CONFIGURATION, to 1 or to 0.
SetConfiguration(value) ==
  /\ configured' = (value = 1)
  /\ usb_online' = IF value = 1 THEN signal_event(usb_online)
                   ELSE unsignal_event(usb_online)
  /\ same_txn
  /\ UNCHANGED <<ep_req, txn_status, txn_done, fastboot_state, thread_at, asked,
                 suspended, timed_out>>

FastbootNext ==
  \/ WaitOnline \/ CommandLoop
  \/ Check \/ Queue \/ WaitDone \/ TimeOutWrite \/ TransactionDone
  \/ \E t \in {"info", "reply"} : Answer(t)
  \/ Download \/ CommandReturns
  \/ \E e \in Endpoint : HostTransfers(e)
  \/ HostStalls \/ Suspend
  \/ \E value \in {0, 1} : SetConfiguration(value)

FastbootSpec == FastbootInit /\ [][FastbootNext]_fastboot_vars

-----------------------------------------------------------------------------
(* Properties.                                                             *)

\* Every variable has its type; the thread sleeps only where it waits.
FastbootTypeOK ==
  /\ configured \in BOOLEAN /\ ep_req \in [Endpoint -> BOOLEAN]
  /\ txn_status \in {-1, 0} /\ req_length \in {"all", "none"}
  /\ {usb_online, txn_done} \subseteq Event
  /\ txn \in Transaction /\ outcome \in {"none", "host", "error"}
  /\ fastboot_state \in {"OFFLINE", "COMMAND", "COMPLETE", "ERROR"}
  /\ usb_online = "awaited" => thread_at = "offline"
  /\ txn_done = "awaited" => thread_at = "asleep"

\* The one udc_request is with at most one endpoint, and when it is about to
\* be filled in again with none, unless a write was given up: whoever
\* completes it completes the transaction the thread is in.
RequestNotShared ==
  ~timed_out =>
    \A e \in Endpoint : ep_req[e] =>
      e = endpoint(txn) /\ thread_at \in {"wait", "asleep"}

\* What holds of the one transaction between any two steps.
FastbootInv == FastbootTypeOK /\ RequestNotShared

\* txn_done is signalled only for the transaction that is about to wait for
\* it, however suspends and completions fall: unless a write was given up no
\* completion is left over for the next transaction, which would take it for
\* its own.
NoStaleCompletion ==
  ~timed_out => (txn_done = "signalled" => thread_at = "wait" /\ outcome # "none")

\* The host gets one answer to a command, never a second, while it stays
\* connected and takes what is written to it.
OneAnswer ==
  [][(/\ ~suspended /\ ~timed_out
      /\ txn = "reply" /\ ep_req["in"] /\ ~ep_req'["in"]) => asked]_fastboot_vars

\* mt_ssusb.c:402 says of the assignment of -1 to txn_status in
\* mt_udc_suspend: "this is required for error handling during data
\* transfer".  So a transaction of a download cut short by a suspend is not
\* taken for one that succeeded.
InterruptedTransactionFails ==
  [][(/\ thread_at = "done" /\ thread_at' # "done"
      /\ txn \in {"DATA", "data"} /\ outcome = "error" /\ ~timed_out)
     => fastboot_state' = "ERROR"]_fastboot_vars
=============================================================================
