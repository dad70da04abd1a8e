-------------------------- MODULE SyncTransferProofs --------------------------
(***************************************************************************)
(* Theorems about SyncTransfer: what a client reads in its transfer after a *)
(* call that waited, for any number of requests of any length.             *)
(***************************************************************************)
EXTENDS SyncTransfer, TLAPS

\* A request that is out is nobody's answer yet, and the transfer is as it was
\* when the request was made.
PendingIsNew ==
  /\ tran.active => urb.state = "pending"
  /\ urb.state = "pending" =>
       /\ ~urb.blocking /\ urb.bytes = 0
       /\ urb.old = tran.status
       /\ tran.active <=> (backend = "win32" \/ loop_runs)
       /\ tran.active => returned.call \notin {"perform", "wait"}
       /\ returned.call # "control"

\* A request that was answered is what the transfer tells of.
DoneIsTold ==
  urb.state = "done" =>
    /\ tran.status = "COMPLETED" => urb.outcome = "ok" /\ tran.actual_length = urb.bytes + Header(tran)
    /\ urb.outcome = "ok" /\ ~KeepsOldFailure => tran.status = "COMPLETED"
    /\ returned.call = "control" =>
         /\ returned.ok <=> urb.outcome = "ok"
         /\ returned.ok => returned.value = urb.bytes

\* The transfer of libusby_bulk_transfer never has a length it did not move.
BulkLength ==
  /\ owner_of_tran = "bulk" =>
       /\ tran.actual_length <= urb.bytes
       /\ urb.state # "none" => tran.type = "bulk"
  /\ returned.call = "bulk" /\ returned.ok => returned.value <= urb.bytes

TransferInv == TransferTypeOK /\ PendingIsNew /\ DoneIsTold /\ BulkLength

-----------------------------------------------------------------------------

\* Results of calls.
Results == [call : Calls, ok : BOOLEAN, value : Int]

\* A result that is good if its value is not negative.
LEMMA ReturnedValue ==
  ASSUME NEW c, NEW v \in Int, Returns(c, v >= 0, v)
  PROVE  (returned'.ok <=> v >= 0) /\ returned'.value = v
<1>1. returned' = [call |-> c, ok |-> v >= 0, value |-> v]
  BY DEF Returns
<1> QED
  BY <1>1, Zenon

\* The fields a backend writes.
LEMMA Update ==
  ASSUME NEW x \in Transfer, NEW n \in Nat, NEW s \in Statuses, NEW b \in BOOLEAN
  PROVE  /\ [x EXCEPT !.actual_length = n, !.status = s, !.active = b] \in Transfer
         /\ [x EXCEPT !.actual_length = n, !.status = s] \in Transfer
         /\ [x EXCEPT !.status = s] \in Transfer
BY DEF Transfer

\* What the backends write keeps the types of a transfer, and the kind of
\* transfer it is.
LEMMA Written ==
  ASSUME NEW x \in Transfer, NEW o \in Outcomes, NEW n \in Nat,
         NEW y \in {Reaped(x, o, n), Controlled(x, o, n), Finished(x, o, n)}
  PROVE  /\ y \in Transfer
         /\ y.type = x.type
<1>1. {"COMPLETED", "CANCELLED", "ERROR", "ERROR_IO", "NO_DEVICE", "STALL"} \subseteq Statuses
  BY DEF Statuses
<1>2. x.status \in Statuses
  BY DEF Transfer
<1>3. y \in Transfer
  <2>1. CASE y = Reaped(x, o, n)
    <3>1. PICK l \in Nat : l = n + Header(x)
      BY DEF Header
    <3>2. PICK s \in Statuses : s = IF o = "ok" THEN x.status ELSE "ERROR_IO"
      BY <1>1, <1>2
    <3> QED
      BY <2>1, <3>1, <3>2, Update DEF Reaped
  <2>2. CASE y = Controlled(x, o, n)
    <3>1. n + 8 \in Nat
      OBVIOUS
    <3> QED
      BY <1>1, <2>2, <3>1, Update DEF Controlled, Outcomes
  <2>3. CASE y = Finished(x, o, n)
    <3>1. PICK l \in Nat : l = IF o = "ok" THEN n + Header(x) ELSE 0
      BY DEF Header
    <3>2. PICK s \in Statuses : s = CASE o = "ok"        -> "COMPLETED"
                                      [] o = "cancelled" -> "CANCELLED"
                                      [] OTHER           -> "ERROR"
      BY <1>1
    <3> QED
      BY <2>3, <3>1, <3>2, Update DEF Finished
  <2> QED
    BY <2>1, <2>2, <2>3
<1>4. y.type = x.type
  BY DEF Transfer, Outcomes, Reaped, Controlled, Finished
<1> QED
  BY <1>3, <1>4

\* A blocking request is told of at once.
LEMMA BlockingIsTold ==
  ASSUME NEW x \in Transfer, NEW o \in Outcomes \ {"cancelled"}, NEW n \in Nat,
         NEW y, y = IF backend = "linux" THEN Controlled(x, o, n) ELSE Finished(x, o, n),
         backend = "linux" => x.type = "control"
  PROVE  /\ y.status = "COMPLETED" <=> o = "ok"
         /\ o = "ok" => y.actual_length = n + Header(y)
BY DEF Transfer, Outcomes, Controlled, Finished, Header

\* PerformBlocking: the request is made and answered in one step.
LEMMA PerformBlockingInv ==
  ASSUME TransferAssumption, TransferInv, NEW c \in {"perform", "control", "bulk"}, NEW x \in Transfer,
         ~x.active, Blocks(x), PerformBlocking(c, x), UNCHANGED <<backend, loop_runs>>,
         owner_of_tran' \in {"client", "control", "bulk"},
         c = "control" => x.type = "control",
         (owner_of_tran' = "bulk" \/ c = "bulk") => x.type = "bulk" /\ x.actual_length = 0
  PROVE  TransferInv'
<1> USE DEF TransferInv
<1>1. PICK o \in Outcomes \ {"cancelled"}, n \in 0 .. MaxBytes :
        LET y == IF backend = "linux" THEN Controlled(x, o, n) ELSE Finished(x, o, n)
        IN  /\ Counted
            /\ tran' = y
            /\ urb' = Answer(NewRequest(x, TRUE), o, n)
            /\ CASE c = "control" -> Returns(c, ControlResult(y) >= 0, ControlResult(y))
                 [] c = "bulk"    -> Returns(c, TRUE, y.actual_length)
                 [] OTHER         -> Returns(c, TRUE, 0)
            /\ place' = "idle"
  BY DEF PerformBlocking
<1> DEFINE y == IF backend = "linux" THEN Controlled(x, o, n) ELSE Finished(x, o, n)
<1>2. n \in Nat /\ o \in Outcomes /\ y \in {Reaped(x, o, n), Controlled(x, o, n), Finished(x, o, n)}
  BY DEF TransferAssumption
<1>3. y \in Transfer /\ y.type = x.type
  BY <1>2, Written
<1>4. backend = "linux" => x.type = "control"
  BY DEF Blocks, TransferTypeOK
<1>5. /\ y.status = "COMPLETED" <=> o = "ok"
      /\ o = "ok" => y.actual_length = n + Header(y)
  BY <1>2, <1>4, BlockingIsTold DEF TransferTypeOK
<1>6. ~y.active
  BY DEF Controlled, Finished, Transfer
<1>7. /\ urb' \in Request
      /\ urb'.state = "done" /\ urb'.blocking /\ urb'.outcome = o /\ urb'.bytes = n
  BY <1>1, <1>2 DEF Answer, NewRequest, NoRequest, Request, Transfer, Outcomes, Statuses
<1>8. tran' = y /\ place' = "idle"
  BY <1>1
<1>9. /\ c = "control" => returned' = [call |-> c, ok |-> ControlResult(y) >= 0, value |-> ControlResult(y)]
      /\ c = "bulk" => returned' = [call |-> c, ok |-> TRUE, value |-> y.actual_length]
      /\ c = "perform" => returned' = [call |-> c, ok |-> TRUE, value |-> 0]
  BY <1>1 DEF Returns
<1>10. Header(y) \in {0, 8} /\ (x.type = "control" => Header(y) = 8) /\ (x.type = "bulk" => Header(y) = 0)
  BY <1>3 DEF Header
<1>11. ControlResult(y) \in Int /\ y.actual_length \in Nat
  BY <1>3 DEF ControlResult, Transfer
<1>12. x.type = "control" =>
         /\ ControlResult(y) >= 0 <=> o = "ok"
         /\ o = "ok" => ControlResult(y) = n
  BY <1>2, <1>5, <1>10 DEF ControlResult
<1>13. (owner_of_tran' = "bulk" \/ c = "bulk") => y.actual_length <= n
  BY <1>2, <1>4 DEF Finished, Header, TransferTypeOK, Transfer
<1> HIDE DEF y
<1>14. TransferTypeOK'
  <2>1. requests' \in 0 .. MaxRequests
    BY <1>1 DEF TransferTypeOK, Counted, TransferAssumption
  <2>2. returned' \in Results
    <3>1. CASE c = "control"
      <4>1. [call |-> "control", ok |-> ControlResult(y) >= 0, value |-> ControlResult(y)] \in Results
        BY <1>11 DEF Results, Calls
      <4> QED
        BY <1>9, <3>1, <4>1
    <3>2. CASE c = "bulk"
      <4>1. [call |-> "bulk", ok |-> TRUE, value |-> y.actual_length] \in Results
        BY <1>11 DEF Results, Calls
      <4> QED
        BY <1>9, <3>2, <4>1
    <3>3. CASE c = "perform"
      <4>1. [call |-> "perform", ok |-> TRUE, value |-> 0] \in Results
        BY DEF Results, Calls
      <4> QED
        BY <1>9, <3>3, <4>1
    <3> QED
      BY <3>1, <3>2, <3>3
  <2> QED
    BY <1>3, <1>7, <1>8, <2>1, <2>2 DEF TransferTypeOK, Results
<1>15. PendingIsNew'
  BY <1>6, <1>7, <1>8 DEF PendingIsNew
<1>16. DoneIsTold'
  <2>1. tran'.status = "COMPLETED" <=> urb'.outcome = "ok"
    BY <1>5, <1>7, <1>8
  <2>2. urb'.outcome = "ok" => tran'.actual_length = urb'.bytes + Header(tran')
    BY <1>5, <1>7, <1>8 DEF Header
  <2>3. returned'.call = "control" =>
          /\ returned'.ok <=> urb'.outcome = "ok"
          /\ returned'.ok => returned'.value = urb'.bytes
    <3>1. returned'.call = c
      BY <1>9
    <3>2. CASE c = "control"
      <4>1. (returned'.ok <=> ControlResult(y) >= 0) /\ returned'.value = ControlResult(y)
        <5>1. Returns(c, ControlResult(y) >= 0, ControlResult(y))
          BY <1>9, <3>2 DEF Returns
        <5> QED
          BY <1>11, <5>1, ReturnedValue
      <4> QED
        BY <1>7, <1>12, <3>2, <4>1
    <3> QED
      BY <3>1, <3>2
  <2> QED
    BY <2>1, <2>2, <2>3 DEF DoneIsTold, Header
<1>17. BulkLength'
  BY <1>3, <1>7, <1>8, <1>9, <1>13 DEF BulkLength
<1> QED
  BY <1>14, <1>15, <1>16, <1>17

\* Send: the request is made, or it is refused and there is none.
LEMMA SendInv ==
  ASSUME TransferAssumption, TransferInv, NEW c \in {"perform", "submit", "bulk"}, NEW x \in Transfer,
         NEW then \in {"wait", "idle"}, ~x.active, Send(c, x, then),
         UNCHANGED <<backend, loop_runs>>,
         owner_of_tran' \in {"client", "control", "bulk"},
         then = "idle" => c = "submit",
         owner_of_tran' = "bulk" => x.type = "bulk" /\ x.actual_length = 0
  PROVE  TransferInv'
<1> USE DEF TransferInv
<1>1. requests' \in 0 .. MaxRequests
  BY DEF Send, Counted, TransferTypeOK, TransferAssumption
<1>2. CASE /\ tran' = [x EXCEPT !.active = (backend = "win32" \/ loop_runs)]
           /\ urb' = NewRequest(x, FALSE)
           /\ IF then = "wait" THEN returned' = Nothing ELSE Returns(c, TRUE, 0)
           /\ place' = then
  <2>1. /\ urb' \in Request /\ urb'.state = "pending" /\ ~urb'.blocking
        /\ urb'.bytes = 0 /\ urb'.old = x.status
    BY <1>2 DEF NewRequest, NoRequest, Request, Transfer, Outcomes, Statuses
  <2>2. /\ tran' \in Transfer /\ tran'.status = x.status /\ tran'.type = x.type
        /\ tran'.actual_length = x.actual_length
        /\ tran'.active <=> (backend = "win32" \/ loop_runs)
    BY <1>2 DEF Transfer, TransferTypeOK
  <2>3. /\ returned' \in Results
        /\ returned'.call \in {"none", "submit"}
    <3>1. CASE then = "wait"
      <4>1. returned' = Nothing
        BY <1>2, <3>1
      <4>2. Nothing \in Results /\ Nothing.call = "none"
        BY DEF Nothing, Results, Calls
      <4> QED
        BY <4>1, <4>2
    <3>2. CASE then = "idle"
      <4>1. returned' = [call |-> "submit", ok |-> TRUE, value |-> 0]
        BY <1>2, <3>2 DEF Returns
      <4>2. [call |-> "submit", ok |-> TRUE, value |-> 0] \in Results
        BY DEF Results, Calls
      <4> QED
        BY <4>1, <4>2
    <3> QED
      BY <3>1, <3>2
  <2>4. TransferTypeOK'
    <3>1. place' \in {"wait", "idle"}
      BY <1>2
    <3>2. backend' \in {"linux", "win32"} /\ loop_runs' \in BOOLEAN
      BY DEF TransferTypeOK
    <3> QED
      BY <1>1, <2>1, <2>2, <2>3, <3>1, <3>2 DEF TransferTypeOK, Results
  <2>5. PendingIsNew'
    BY <1>2, <2>1, <2>2, <2>3 DEF PendingIsNew
  <2>6. DoneIsTold'
    BY <2>1 DEF DoneIsTold
  <2>7. BulkLength'
    BY <2>1, <2>2, <2>3 DEF BulkLength
  <2> QED
    BY <2>4, <2>5, <2>6, <2>7
<1>3. CASE /\ tran' = x
           /\ urb' = NoRequest
           /\ Returns(c, FALSE, -1)
           /\ place' = "idle"
  <2>1. urb' \in Request /\ urb'.state = "none" /\ urb'.bytes = 0
    BY <1>3 DEF NoRequest, Request, Outcomes, Statuses
  <2>2. returned' \in Results /\ ~returned'.ok
    BY <1>3 DEF Returns, Calls, Results
  <2>3. TransferTypeOK'
    BY <1>1, <1>3, <2>1, <2>2 DEF TransferTypeOK, Results
  <2> QED
    BY <1>3, <2>1, <2>2, <2>3 DEF PendingIsNew, DoneIsTold, BulkLength, Transfer
<1> QED
  BY <1>2, <1>3 DEF Send

\* libusby_perform_transfer
LEMMA PerformInv ==
  ASSUME TransferAssumption, TransferInv, NEW c \in {"perform", "control", "bulk"}, NEW x \in Transfer,
         ~x.active, Perform(c, x), UNCHANGED <<backend, loop_runs>>,
         owner_of_tran' \in {"client", "control", "bulk"},
         c = "control" => x.type = "control",
         (owner_of_tran' = "bulk" \/ c = "bulk") => x.type = "bulk" /\ x.actual_length = 0,
         c = "perform" => owner_of_tran' = owner_of_tran /\ urb.state # "pending"
  PROVE  TransferInv'
<1>1. CASE Supported(x) /\ Blocks(x) /\ PerformBlocking(c, x)
  BY <1>1, PerformBlockingInv
<1>2. CASE Supported(x) /\ ~Blocks(x) /\ Send(c, x, "wait")
  <2>1. c \in {"perform", "bulk"}
    BY <1>2 DEF Blocks
  <2> QED
    BY <1>2, <2>1, SendInv
<1>3. CASE /\ ~Supported(x)
           /\ Returns(c, FALSE, -1)
           /\ UNCHANGED <<tran, urb, place, requests>>
  <2>1. c = "perform"
    BY <1>3 DEF Supported
  <2>2. returned' \in Results /\ ~returned'.ok /\ returned'.call = "perform"
    BY <1>3, <2>1 DEF Returns, Calls, Results
  <2> QED
    BY <1>3, <2>1, <2>2 DEF TransferInv, TransferTypeOK, Results, PendingIsNew, DoneIsTold, BulkLength, Header,
       KeepsOldFailure
<1> QED
  BY <1>1, <1>2, <1>3 DEF Perform

\* Transfers as they are allocated and filled.
LEMMA Fillings ==
  ASSUME NEW x \in Transfer
  PROVE  /\ Cleared \in Transfer /\ ~Cleared.active /\ Cleared.actual_length = 0
         /\ FilledControl(x) \in Transfer
         /\ FilledControl(x).type = "control" /\ FilledControl(x).active = x.active
         /\ FilledBulk(x) \in Transfer
         /\ FilledBulk(x).type = "bulk" /\ FilledBulk(x).active = x.active
         /\ FilledBulk(x).actual_length = 0
BY DEF Transfer, Cleared, FilledControl, FilledBulk, Types, Statuses

\* The calls that make a request.
LEMMA CallInv ==
  ASSUME TransferAssumption, TransferInv,
         PerformTransfer \/ SubmitTransfer \/ ControlTransfer \/ BulkTransfer
  PROVE  TransferInv'
<1>1. tran \in Transfer /\ (urb.state # "pending" => ~tran.active)
  BY DEF TransferInv, TransferTypeOK, PendingIsNew
<1>2. CASE PerformTransfer
  BY <1>1, <1>2, PerformInv DEF PerformTransfer, Mine, Free, Fixed
<1>3. CASE SubmitTransfer
  BY <1>1, <1>3, SendInv DEF SubmitTransfer, Mine, Free, Fixed
<1>4. CASE ControlTransfer
  <2>1. PICK out \in BOOLEAN :
          Perform("control",
                  [FilledControl(Cleared) EXCEPT !.out = out, !.payload = "uninitialised"])
    BY <1>4 DEF ControlTransfer
  <2> DEFINE x == [FilledControl(Cleared) EXCEPT !.out = out, !.payload = "uninitialised"]
  <2>2. x \in Transfer /\ ~x.active /\ x.type = "control"
    BY DEF FilledControl, Cleared, Transfer, Types, Statuses
  <2> HIDE DEF x
  <2>3. Perform("control", x)
    BY <2>1 DEF x
  <2> QED
    BY <1>4, <2>2, <2>3, PerformInv DEF ControlTransfer
<1>5. CASE BulkTransfer
  <2>1. /\ FilledBulk(Cleared) \in Transfer /\ FilledBulk(Cleared).type = "bulk"
        /\ ~FilledBulk(Cleared).active /\ FilledBulk(Cleared).actual_length = 0
    BY <1>1, Fillings
  <2> QED
    BY <1>5, <2>1, PerformInv DEF BulkTransfer
<1> QED
  BY <1>2, <1>3, <1>4, <1>5

\* The calls that do not.
LEMMA PreparationInv ==
  ASSUME TransferAssumption, TransferInv,
         Alloc \/ Fill \/ CallFails \/ CancelTransfer \/ WaitForTransfer
  PROVE  TransferInv'
<1> USE DEF TransferInv
<1>1. /\ NoRequest \in Request /\ NoRequest.state = "none" /\ NoRequest.bytes = 0
      /\ Nothing \in Results
      /\ Nothing.call = "none" /\ ~Nothing.ok
  BY DEF NoRequest, Request, Outcomes, Statuses, Nothing, Calls, Results
<1>2. CASE Alloc
  <2>1. Cleared \in Transfer /\ ~Cleared.active
    BY Fillings DEF TransferTypeOK
  <2>2. TransferTypeOK'
    BY <1>1, <1>2, <2>1 DEF Alloc, TransferTypeOK, Results
  <2> QED
    BY <1>1, <1>2, <2>1, <2>2 DEF Alloc, PendingIsNew, DoneIsTold, BulkLength
<1>3. CASE Fill
  <2>1. tran' \in Transfer /\ ~tran'.active
    <3>1. tran' \in {FilledControl(tran), FilledBulk(tran), [tran EXCEPT !.type = "isochronous"]}
      BY <1>3 DEF Fill
    <3>2. tran \in Transfer /\ ~tran.active
      BY <1>3 DEF Fill, Mine, Free, PendingIsNew, TransferTypeOK
    <3>3. [tran EXCEPT !.type = "isochronous"] \in Transfer /\ ~[tran EXCEPT !.type = "isochronous"].active
      BY <3>2 DEF Transfer, Types
    <3> QED
      <4>1. CASE tran' = FilledControl(tran)
        BY <3>2, <4>1, Fillings
      <4>2. CASE tran' = FilledBulk(tran)
        BY <3>2, <4>2, Fillings
      <4> QED
        BY <3>1, <3>3, <4>1, <4>2
  <2> QED
    BY <1>1, <1>3, <2>1 DEF Fill, Mine, Fixed, TransferTypeOK, Results, PendingIsNew, DoneIsTold, BulkLength
<1>4. CASE CallFails
  <2>1. PICK c \in {"control", "bulk"} : owner_of_tran' = c /\ Returns(c, FALSE, -1)
    BY <1>4 DEF CallFails
  <2>2. returned' \in Results /\ ~returned'.ok
    BY <2>1 DEF Returns, Calls, Results
  <2> QED
    <3>1. Cleared \in Transfer /\ ~Cleared.active /\ Cleared.actual_length = 0
      BY Fillings DEF TransferTypeOK
    <3>2. TransferTypeOK'
      BY <1>1, <1>4, <2>1, <2>2, <3>1 DEF CallFails, TransferTypeOK, Results
    <3> QED
      BY <1>1, <1>4, <2>1, <2>2, <3>1, <3>2 DEF CallFails, PendingIsNew, DoneIsTold, BulkLength
<1>5. CASE CancelTransfer
  <2>1. /\ urb' \in Request /\ urb'.state = "pending" /\ urb'.bytes = urb.bytes
        /\ urb'.blocking = urb.blocking /\ urb'.old = urb.old
    BY <1>5 DEF CancelTransfer, TransferTypeOK, Request
  <2> QED
    BY <1>5, <2>1 DEF CancelTransfer, Fixed, TransferTypeOK, PendingIsNew, DoneIsTold, BulkLength
<1>6. CASE WaitForTransfer
  BY <1>1, <1>6 DEF WaitForTransfer, Fixed, TransferTypeOK, Results, PendingIsNew, DoneIsTold, BulkLength,
     KeepsOldFailure, Header
<1> QED
  BY <1>2, <1>3, <1>4, <1>5, <1>6

\* The request is reaped, and is told of.
LEMMA ReapInv ==
  ASSUME TransferAssumption, TransferInv, Reap
  PROVE  TransferInv'
<1> USE DEF TransferInv
<1>1. PICK o \in Outcomes, n \in 0 .. MaxBytes :
        /\ urb' = Answer(urb, o, n)
        /\ tran' = IF backend = "linux" THEN Reaped(tran, o, n) ELSE Finished(tran, o, n)
  BY DEF Reap
<1>2. n \in Nat /\ tran \in Transfer /\ urb \in Request
  BY DEF TransferAssumption, TransferTypeOK
<1>3. tran' \in Transfer /\ tran'.type = tran.type
  <2>1. tran' \in {Reaped(tran, o, n), Controlled(tran, o, n), Finished(tran, o, n)}
    BY <1>1
  <2> QED
    BY <1>2, <2>1, Written
<1>4. /\ urb' \in Request /\ urb'.state = "done" /\ urb'.outcome = o /\ urb'.bytes = n
      /\ urb'.blocking = urb.blocking /\ urb'.old = urb.old
  BY <1>1, <1>2 DEF Answer, Request
<1>5. /\ urb.state = "pending" /\ ~urb.blocking /\ urb.old = tran.status /\ urb.bytes = 0
      /\ returned.call # "control"
      /\ UNCHANGED <<backend, loop_runs, owner_of_tran, place, returned, requests>>
  BY DEF Reap, PendingIsNew, Fixed
<1>6. Header(tran') = Header(tran) /\ (tran.type = "bulk" => Header(tran) = 0)
  BY <1>3 DEF Header
<1>7. /\ ~tran'.active
      /\ tran'.status = "COMPLETED" => o = "ok"
      /\ o = "ok" => tran'.actual_length = n + Header(tran)
      /\ o = "ok" => tran'.status = "COMPLETED" \/ (backend = "linux" /\ tran.status # "COMPLETED")
      /\ tran.type = "bulk" => tran'.actual_length <= n
  BY <1>1, <1>2, <1>6 DEF Reaped, Finished, Transfer, TransferTypeOK, Header
<1>8. TransferTypeOK'
  BY <1>3, <1>4, <1>5 DEF TransferTypeOK, Results
<1>9. PendingIsNew' /\ DoneIsTold'
  BY <1>3, <1>4, <1>5, <1>6, <1>7 DEF PendingIsNew, DoneIsTold, KeepsOldFailure
<1>10. BulkLength'
  <2>1. returned.call = "bulk" /\ returned.ok => returned.value <= n
    BY <1>2, <1>5 DEF BulkLength, TransferTypeOK
  <2> QED
    BY <1>3, <1>4, <1>5, <1>7, <2>1 DEF BulkLength
<1> QED
  BY <1>8, <1>9, <1>10

\* A wait that returns changes nothing but what was returned.
LEMMA WaitReturnsInv ==
  ASSUME TransferAssumption, TransferInv, WaitReturns
  PROVE  TransferInv'
<1> USE DEF TransferInv
<1>1. /\ ~tran.active /\ place' = "idle"
      /\ UNCHANGED <<backend, loop_runs, owner_of_tran, tran, urb, requests>>
  BY DEF WaitReturns, Fixed
<1>2. \/ returned' = [call |-> "bulk", ok |-> TRUE, value |-> tran.actual_length] /\ owner_of_tran = "bulk"
      \/ returned' = [call |-> "wait", ok |-> TRUE, value |-> 0]
  BY DEF WaitReturns, Returns
<1>3. returned' \in Results
  <2>1. tran.actual_length \in Int
    BY DEF TransferTypeOK, Transfer
  <2>2. /\ [call |-> "bulk", ok |-> TRUE, value |-> tran.actual_length] \in Results
        /\ [call |-> "wait", ok |-> TRUE, value |-> 0] \in Results
    BY <2>1 DEF Results, Calls
  <2> QED
    BY <1>2, <2>2
<1>4. TransferTypeOK'
  BY <1>1, <1>3 DEF TransferTypeOK, Results
<1>5. PendingIsNew' /\ DoneIsTold' /\ BulkLength'
  BY <1>1, <1>2 DEF PendingIsNew, DoneIsTold, BulkLength, KeepsOldFailure, Header
<1> QED
  BY <1>4, <1>5

\* Every reachable state satisfies the invariant.
LEMMA TransferInvariance == ASSUME TransferAssumption PROVE TransferSpec => []TransferInv
<1>1. TransferInit => TransferInv
  BY DEF TransferInit, TransferInv, TransferTypeOK, PendingIsNew, DoneIsTold, BulkLength, Cleared, NoRequest,
         Nothing, Transfer, Request, Types, Statuses, Outcomes, Calls, TransferAssumption
<1>2. TransferInv /\ [TransferStep]_transferVars => TransferInv'
  <2>1. CASE UNCHANGED transferVars
    BY <2>1 DEF transferVars, TransferInv, TransferTypeOK, PendingIsNew, DoneIsTold, BulkLength,
                KeepsOldFailure, Header
  <2> QED
    BY <2>1, CallInv, PreparationInv, ReapInv, WaitReturnsInv DEF TransferStep
<1> QED
  BY <1>1, <1>2, PTL DEF TransferSpec

-----------------------------------------------------------------------------

\* Transfers, requests and results keep their types.
THEOREM TransferTypeCorrect == TransferSpec => []TransferTypeOK
<1>1. TransferInv => TransferTypeOK
  BY DEF TransferInv
<1> QED
  BY <1>1, TransferInvariance, TransferAssumption, PTL

\* What libusby_wait_for_transfer, libusby_perform_transfer and the synchronous
\* functions report is what became of the last request, whatever the transfer
\* was used for before.
THEOREM StatusIsRight == TransferSpec => []StatusTellsOutcome
<1>1. TransferInv => StatusTellsOutcome
  <2> SUFFICES ASSUME TransferInv PROVE StatusTellsOutcome
    OBVIOUS
  <2>1. urb.state \in {"none", "pending", "done"} /\ backend \in {"linux", "win32"}
    BY DEF TransferInv, TransferTypeOK, Request
  <2> QED
    BY <2>1 DEF TransferInv, PendingIsNew, DoneIsTold, BulkLength, StatusTellsOutcome, Unwatched
<1> QED
  BY <1>1, TransferInvariance, TransferAssumption, PTL

=============================================================================
