---------------------------- MODULE SyncTransfer ----------------------------
(***************************************************************************)
(* What a client reads in a transfer after a request: libusby_fill_...,    *)
(* libusby_perform_transfer, submit and wait, libusby_control_transfer and *)
(* libusby_bulk_transfer of src/src/libusby.c, with what both backends put *)
(* into status and actual_length.  One client uses one transfer again and  *)
(* again.  How requests are reaped and called back is the business of      *)
(* UsbfsLoop and Win32Reaper; here the reaper is one step.                 *)
(***************************************************************************)
EXTENDS Integers

CONSTANTS
  MaxBytes,       \* the bytes a request can move
  MaxRequests     \* bound on the requests of a behaviour

ASSUME TransferAssumption == MaxBytes \in Nat /\ MaxRequests \in Nat

VARIABLES
  backend,        \* "linux" or "win32"
  loop_runs,      \* whether some thread runs the event loop
  owner_of_tran,  \* who allocated the transfer: the client or a function
  tran,           \* the transfer
  urb,            \* the last request
  place,          \* where the client is: idle, or in a wait
  returned,       \* what the last call returned
  requests

transferVars == <<backend, loop_runs, owner_of_tran, tran, urb, place, returned,
                  requests>>

Types == {"control", "bulk", "isochronous"}
Statuses == {"COMPLETED", "ERROR", "CANCELLED", "STALL", "NO_DEVICE", "ERROR_IO"}
Outcomes == {"ok", "stall", "gone", "cancelled", "other"}

\* out: a control transfer to the device; payload: what the data part of the
\* buffer holds for the device to read.
Transfer == [type : Types, out : BOOLEAN, status : Statuses, actual_length : Nat,
             active : BOOLEAN, payload : {"callers", "uninitialised"}]

\* old: the status of the transfer when the request was made.
Request == [state : {"none", "pending", "done"}, blocking : BOOLEAN,
            cancelled : BOOLEAN, old : Statuses,
            outcome : Outcomes, bytes : Nat]

Calls == {"none", "perform", "submit", "wait", "control", "bulk"}

TransferTypeOK ==
  /\ backend \in {"linux", "win32"}
  /\ loop_runs \in BOOLEAN
  /\ owner_of_tran \in {"client", "control", "bulk"}
  /\ tran \in Transfer
  /\ urb \in Request
  /\ place \in {"idle", "wait"}
  /\ returned \in [call : Calls, ok : BOOLEAN, value : Int]
  /\ requests \in 0 .. MaxRequests

\* libusby_alloc_transfer clears the structure.
Cleared == [type |-> "control", out |-> FALSE, status |-> "COMPLETED", actual_length |-> 0,
            active |-> FALSE, payload |-> "callers"]

NoRequest == [state |-> "none", blocking |-> FALSE, cancelled |-> FALSE,
              old |-> "COMPLETED", outcome |-> "ok", bytes |-> 0]

Nothing == [call |-> "none", ok |-> FALSE, value |-> 0]
Returns(c, ok, v) == returned' = [call |-> c, ok |-> ok, value |-> v]

-----------------------------------------------------------------------------
(* Filling a transfer.                                                     *)

FilledControl(x) == [x EXCEPT !.type = "control"]

FilledBulk(x) ==
  [x EXCEPT !.type = "bulk", !.status = "COMPLETED", !.actual_length = 0]

-----------------------------------------------------------------------------
(* What the backends write into a transfer.                                *)

\* The eight bytes of the setup packet.
Header(x) == IF x.type = "control" THEN 8 ELSE 0

\* Mutant: the setup packet is not counted.
ReapedNoHeader(x, o, n) ==
  [x EXCEPT !.actual_length = n, !.status = IF o = "ok" THEN @ ELSE "ERROR_IO",
            !.active = FALSE]

\* usbfs_run_event_loop_impl: a status is written for a failure only, and it
\* is an error code.
Reaped(x, o, n) ==
  [x EXCEPT !.actual_length = n + Header(x),
            !.status = IF o = "ok" THEN @ ELSE "ERROR_IO",
            !.active = FALSE]

\* USBDEVFS_CONTROL of usbyb_perform_transfer.
Controlled(x, o, n) ==
  CASE o = "ok"    -> [x EXCEPT !.actual_length = n + 8, !.status = "COMPLETED"]
    [] o = "gone"  -> [x EXCEPT !.status = "NO_DEVICE"]
    [] o = "stall" -> [x EXCEPT !.status = "STALL"]
    [] OTHER       -> [x EXCEPT !.status = "ERROR"]

\* usbyb_update_finished_transfer
Finished(x, o, n) ==
  [x EXCEPT !.actual_length = IF o = "ok" THEN n + Header(x) ELSE 0,
            !.status = CASE o = "ok"        -> "COMPLETED"
                         [] o = "cancelled" -> "CANCELLED"
                         [] OTHER           -> "ERROR",
            !.active = FALSE]

\* The result of libusby_control_transfer, negative for an error.
ControlResult(x) == IF x.status = "COMPLETED" THEN x.actual_length - 8 ELSE -1

-----------------------------------------------------------------------------
(* Requests.                                                               *)

\* The requests that usbyb_perform_transfer itself waits for.
Blocks(x) == backend = "win32" \/ x.type = "control"

Supported(x) == x.type # "isochronous"

NewRequest(x, blocking) ==
  [NoRequest EXCEPT !.state = "pending", !.blocking = blocking, !.old = x.status]

Answer(u, o, n) == [u EXCEPT !.state = "done", !.outcome = o, !.bytes = n]

Counted == requests < MaxRequests /\ requests' = requests + 1

\* A blocking request of transfer x, made by c.
PerformBlocking(c, x) ==
  \E o \in Outcomes \ {"cancelled"}, n \in 0 .. MaxBytes :
    LET y == IF backend = "linux" THEN Controlled(x, o, n) ELSE Finished(x, o, n)
    IN  /\ Counted
        /\ tran' = y
        /\ urb' = Answer(NewRequest(x, TRUE), o, n)
        /\ CASE c = "control" -> Returns(c, ControlResult(y) >= 0, ControlResult(y))
             [] c = "bulk"    -> Returns(c, TRUE, y.actual_length)
             [] OTHER         -> Returns(c, TRUE, 0)
        /\ place' = "idle"

\* A request that is submitted.  Linux marks it active only for a running loop.
Send(c, x, then) ==
  /\ Counted
  /\ \/ /\ tran' = [x EXCEPT !.active = (backend = "win32" \/ loop_runs)]
        /\ urb' = NewRequest(x, FALSE)
        /\ IF then = "wait" THEN returned' = Nothing ELSE Returns(c, TRUE, 0)
        /\ place' = then
     \/ /\ tran' = x
        /\ urb' = NoRequest
        /\ Returns(c, FALSE, -1)
        /\ place' = "idle"

\* libusby_perform_transfer
Perform(c, x) ==
  \/ Supported(x) /\ Blocks(x) /\ PerformBlocking(c, x)
  \/ Supported(x) /\ ~Blocks(x) /\ Send(c, x, "wait")
  \/ /\ ~Supported(x)
     /\ Returns(c, FALSE, -1)
     /\ UNCHANGED <<tran, urb, place, requests>>

-----------------------------------------------------------------------------
(* The client.                                                             *)

\* Outside calls, with nothing pending that a new call would disturb.
Free == place = "idle" /\ urb.state # "pending"
Mine == Free /\ owner_of_tran = "client"

Fixed == UNCHANGED <<backend, loop_runs, owner_of_tran>>

Alloc ==
  /\ Free /\ owner_of_tran # "client"
  /\ owner_of_tran' = "client"
  /\ tran' = Cleared /\ urb' = NoRequest /\ returned' = Nothing
  /\ UNCHANGED <<backend, loop_runs, place, requests>>

Fill ==
  /\ Mine
  /\ tran' \in {FilledControl(tran), FilledBulk(tran), [tran EXCEPT !.type = "isochronous"]}
  /\ urb' = NoRequest /\ returned' = Nothing
  /\ Fixed /\ UNCHANGED <<place, requests>>

PerformTransfer == Mine /\ Perform("perform", tran) /\ Fixed

SubmitTransfer == Mine /\ Supported(tran) /\ Send("submit", tran, "idle") /\ Fixed

CancelTransfer ==
  /\ place = "idle" /\ urb.state = "pending" /\ owner_of_tran = "client"
  /\ urb' = [urb EXCEPT !.cancelled = TRUE]
  /\ Fixed /\ UNCHANGED <<tran, place, returned, requests>>

WaitForTransfer ==
  /\ place = "idle" /\ owner_of_tran = "client"
  /\ place' = "wait" /\ returned' = Nothing
  /\ Fixed /\ UNCHANGED <<tran, urb, requests>>

\* libusby_control_transfer copies no data into the buffer it allocates.
ControlTransfer ==
  /\ Free
  /\ owner_of_tran' = "control"
  /\ \E out \in BOOLEAN :
       Perform("control",
               [FilledControl(Cleared) EXCEPT !.out = out, !.payload = "uninitialised"])
  /\ UNCHANGED <<backend, loop_runs>>

BulkTransfer ==
  /\ Free
  /\ owner_of_tran' = "bulk"
  /\ Perform("bulk", FilledBulk(Cleared))
  /\ UNCHANGED <<backend, loop_runs>>

\* No memory for the transfer or the buffer.
CallFails ==
  /\ Free
  /\ \E c \in {"control", "bulk"} :
       owner_of_tran' = c /\ Returns(c, FALSE, -1)
  /\ tran' = Cleared /\ urb' = NoRequest
  /\ UNCHANGED <<backend, loop_runs, place, requests>>

-----------------------------------------------------------------------------
(* The reaper.                                                             *)

\* Somebody reaps: the event loop, or on Windows the thread that waits.
IsReaped == loop_runs \/ (backend = "win32" /\ place = "wait")

Reap ==
  /\ urb.state = "pending" /\ IsReaped
  /\ \E o \in Outcomes, n \in 0 .. MaxBytes :
       /\ o = "cancelled" => urb.cancelled
       /\ urb' = Answer(urb, o, n)
       /\ tran' = IF backend = "linux" THEN Reaped(tran, o, n) ELSE Finished(tran, o, n)
  /\ Fixed /\ UNCHANGED <<place, returned, requests>>

\* usbyb_wait_for_transfer returns, to the client or to libusby_bulk_transfer.
WaitReturns ==
  /\ place = "wait" /\ ~tran.active
  /\ place' = "idle"
  /\ IF owner_of_tran = "bulk" THEN Returns("bulk", TRUE, tran.actual_length)
                               ELSE Returns("wait", TRUE, 0)
  /\ Fixed /\ UNCHANGED <<tran, urb, requests>>

TransferInit ==
  /\ backend \in {"linux", "win32"}
  /\ loop_runs \in BOOLEAN
  /\ owner_of_tran = "client"
  /\ tran = Cleared
  /\ urb = NoRequest
  /\ place = "idle"
  /\ returned = Nothing
  /\ requests = 0

TransferStep ==
  \/ Alloc \/ Fill \/ PerformTransfer \/ SubmitTransfer \/ CancelTransfer
  \/ WaitForTransfer \/ ControlTransfer \/ BulkTransfer \/ CallFails
  \/ Reap \/ WaitReturns

TransferSpec == TransferInit /\ [][TransferStep]_transferVars

-----------------------------------------------------------------------------
(* Properties.                                                             *)

\* On Linux nobody reaps the request, and a wait does not wait for it.
Unwatched == backend = "linux" /\ ~urb.blocking /\ ~loop_runs

\* On Linux a submission does not clear the failure of an earlier request.
KeepsOldFailure == backend = "linux" /\ ~urb.blocking /\ urb.old # "COMPLETED"

\* After a call that waits, the transfer tells of its last request: completed
\* means that it succeeded, and gives its length; success is seen as completed,
\* except for a transfer with an old failure on Linux.  The functions that
\* wait return a length if and only if there is one, and bulk never more than
\* was moved.
StatusTellsOutcome ==
  /\ (returned.call \in {"perform", "wait"} /\ returned.ok /\ urb.state # "none" /\ ~Unwatched) =>
       /\ tran.status = "COMPLETED" =>
            urb.outcome = "ok" /\ tran.actual_length = urb.bytes + Header(tran)
       /\ urb.outcome = "ok" /\ ~KeepsOldFailure => tran.status = "COMPLETED"
  /\ (returned.call = "control" /\ urb.state = "done") =>
       /\ returned.ok <=> urb.outcome = "ok"
       /\ returned.ok => returned.value = urb.bytes
  /\ (returned.call = "bulk" /\ returned.ok) => returned.value <= urb.bytes

\* The data of a control transfer to the device is the caller's, as with the
\* function of libusb-1.0 that libusb.h puts this one in the place of.
OutDataIsSent ==
  urb.state = "done" /\ tran.out /\ urb.bytes > 0 => tran.payload = "callers"

=============================================================================
