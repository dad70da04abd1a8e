---------------------------- MODULE Win32Reaper ----------------------------
(***************************************************************************)
(* The asynchronous transfer engine of the Windows backend                 *)
(* (src/src/os/libusb0_win32.c).                                           *)
(*                                                                         *)
(* Threads that wait for a transfer or run the event loop compete for      *)
(* hReaperLock; its owner waits for the overlapped events of all submitted *)
(* transfers and reaps them until its own target event is signalled.       *)
(* Events are modelled as Windows keeps them: SetEvent on a manual-reset   *)
(* event satisfies every wait in progress at that moment, on the           *)
(* auto-reset hReaperLock exactly one.                                     *)
(***************************************************************************)
EXTENDS Integers, Sequences, FiniteSets

CONSTANTS
  Threads,      \* threads of the application
  Transfers,    \* usbyb_transfer objects
  Endpoint,     \* the endpoint a transfer is filled with
  NoTran,       \* a null usbyb_transfer pointer
  CancelIoEx,   \* whether kernel32.dll exports CancelIoEx
  MaxCalls,     \* bound: submit and perform calls in a behaviour
  MaxObjects,   \* values of limit to look at
  MinHandles,   \* smallest handle array asked for, 4 in the code
  AllocMayFail  \* whether realloc can return NULL

ASSUME ConstantsAssumption ==
  /\ Endpoint \in [Transfers -> Nat]
  /\ NoTran \notin Transfers
  /\ CancelIoEx \in BOOLEAN
  /\ MaxCalls \in Nat
  /\ MaxObjects \subseteq Nat \ {0}
  /\ MinHandles \in Nat \ {0}
  /\ AllocMayFail \in BOOLEAN

VARIABLES
  limit,        \* MAXIMUM_WAIT_OBJECTS, chosen once
  signalled,    \* the events that are signalled
  trani,        \* trani_first .. trani_last, tran_count of them
  capacity,     \* handle_list.capacity
  handles,      \* handle_list.handles, as long as its owner reads them
  submitted,    \* usbyb_transfer.submitted
  status,       \* pub.status
  io,           \* the driver's view of the transfer's request
  client,       \* what the application believes of a transfer
  calls,        \* submit and perform calls so far
  pc, call,
  arg,          \* the transfer the thread's call is about
  reaping,      \* the transfer the thread is reaping
  crash         \* memory of the process was corrupted

listVars   == <<trani, capacity, handles>>
tranVars   == <<submitted, status, io, client>>
threadVars == <<pc, call, arg, reaping>>
vars == <<limit, signalled, listVars, tranVars, calls, threadVars, crash>>

-----------------------------------------------------------------------------
(* Events.                                                                 *)

Lock    == <<"hReaperLock", NoTran>>
Stopped == <<"hEventLoopStopped", NoTran>>
Updated == <<"hTransferListUpdated", NoTran>>
Completion(tr) == <<"hCompletionEvent", tr>>
Overlapped(tr) == <<"overlapped.hEvent", tr>>

Events == {Lock, Stopped, Updated} \cup {Completion(tr) : tr \in Transfers}
                                   \cup {Overlapped(tr) : tr \in Transfers}

PC == {"idle", "enter", "locked", "filled", "wait", "got", "callback",
       "unlock", "return", "perform"}

\* free: not allocated; idle: allocated, and a wait for it returns at once;
\* pending: submitted; cancelled: submitted, then cancelled; called: its
\* callback was called; sync: owned by a synchronous call in progress.
ClientState == {"free", "idle", "pending", "cancelled", "called", "sync"}

TypeOK ==
  /\ signalled \subseteq Events
  /\ trani \in Seq(Transfers)
  /\ capacity \in Nat
  /\ handles \in Seq(Events)
  /\ submitted \in [Transfers -> BOOLEAN]
  /\ status \in [Transfers -> {"completed", "cancelled", "error"}]
  /\ io \in [Transfers -> {"pending", "aborting", "success", "aborted", "failed"}]
  /\ client \in [Transfers -> ClientState]
  /\ calls \in 0 .. MaxCalls
  /\ pc \in [Threads -> PC]
  /\ call \in [Threads -> {"none", "run", "wait", "sync"}]
  /\ arg \in [Threads -> Transfers \cup {NoTran}]
  /\ reaping \in [Threads -> Transfers \cup {NoTran}]
  /\ crash \in BOOLEAN

\* Mutant: the event loop has no event of its own.
TargetAlwaysTransfer(c, tr) == Completion(tr)

\* hTarget of usbyi_win32_reap_until.
Target(c, tr) == IF c = "run" THEN Stopped ELSE Completion(tr)

\* Mutant: a thread queueing for the lock waits for the lock alone.
WaitsForLockOnly(t) ==
  IF pc[t] = "enter" THEN {Lock}
  ELSE IF pc[t] = "wait" THEN {handles[i] : i \in DOMAIN handles}
  ELSE {}

\* The events a blocked thread waits for.
WaitsFor(t) ==
  IF pc[t] = "enter" THEN {Target(call[t], arg[t]), Lock}
  ELSE IF pc[t] = "wait" THEN {handles[i] : i \in DOMAIN handles}
  ELSE {}

\* Mutant: return without giving the lock up.
AfterWaitKeepsLock(t, h) ==
  IF h = Target(call[t], arg[t]) THEN "return"
  ELSE IF h = Updated THEN "locked" ELSE "got"

\* Where a wait on the reaper's handles continues when h satisfied it.
AfterWait(t, h) ==
  IF h = Target(call[t], arg[t]) THEN "unlock"
  ELSE IF h = Updated THEN "locked" ELSE "got"

\* Where any blocked thread continues when h satisfied its wait.
Resume(t, h) == IF pc[t] = "wait" THEN AfterWait(t, h) ELSE "return"

\* SetEvent(h) for a manual-reset event, with the calling thread at at[t].
Wake(h, at) ==
  pc' = [t \in Threads |-> IF h \in WaitsFor(t) THEN Resume(t, h) ELSE at[t]]

Goto(t, l) == pc' = [pc EXCEPT ![t] = l]

\* The thread can enter the library: it is outside it, or in a callback.
Ready(t) == pc[t] \in {"idle", "callback"}

-----------------------------------------------------------------------------
(* Waiting and reaping.                                                    *)

\* usbyi_win32_reap_until: wait for the target or for the reaper lock, the
\* target first if both are signalled.
ReapUntil(t, c, tr) ==
  /\ pc[t] = "idle"
  /\ call' = [call EXCEPT ![t] = c]
  /\ arg' = [arg EXCEPT ![t] = tr]
  /\ \/ /\ Target(c, tr) \in signalled
        /\ Goto(t, "return")
        /\ UNCHANGED signalled
     \/ /\ Target(c, tr) \notin signalled /\ Lock \in signalled
        /\ signalled' = signalled \ {Lock}
        /\ Goto(t, "locked")
     \/ /\ Target(c, tr) \notin signalled /\ Lock \notin signalled
        /\ Goto(t, "enter")
        /\ UNCHANGED signalled
  /\ UNCHANGED <<listVars, tranVars, calls, reaping, crash>>

RunEventLoop(t) == ReapUntil(t, "run", NoTran)

WaitForTransfer(t, tr) ==
  client[tr] \notin {"free", "sync"} /\ ReapUntil(t, "wait", tr)

\* usbyi_reserve_handle_list
Wanted(n) == IF n < MinHandles THEN MinHandles ELSE n

\* Mutant: an array that was allocated never grows.
MustReallocShrinks(n) == capacity \div 4 > Wanted(n) \/ capacity = 0

MustRealloc(n) == capacity \div 4 > Wanted(n) \/ capacity < Wanted(n)

Reserve(n) == IF MustRealloc(n) THEN (Wanted(n) * 3) \div 2 ELSE capacity

HandleCount == 2 + Len(trani)

\* Mutant: the last submitted transfer is missing.
HandleListShort(c, tr) ==
  <<Target(c, tr), Updated>> \o [i \in 1 .. Len(trani) - 1 |-> Overlapped(trani[i])]

\* Mutant: the target is always a transfer's event.
HandleListNoStop(c, tr) ==
  <<Completion(tr), Updated>> \o [i \in 1 .. Len(trani) |-> Overlapped(trani[i])]

HandleList(c, tr) ==
  <<Target(c, tr), Updated>> \o [i \in 1 .. Len(trani) |-> Overlapped(trani[i])]

\* The locked part of usbyi_win32_reap_until_locked.  The error of a failed
\* realloc is lost in an unsigned variable: the old array is used.
FillHandleList(t) ==
  /\ pc[t] = "locked"
  /\ \/ capacity' = Reserve(HandleCount) /\ UNCHANGED crash
     \/ /\ AllocMayFail /\ MustRealloc(HandleCount)
        /\ crash' = (capacity < HandleCount)
        /\ UNCHANGED capacity
  /\ handles' = HandleList(call[t], arg[t])
  /\ signalled' = signalled \ {Updated}
  /\ Goto(t, "filled")
  /\ UNCHANGED <<trani, tranVars, calls, call, arg, reaping>>

\* WaitForMultipleObjects: the first signalled handle, or block.
WaitForHandles(t) ==
  LET sig == {i \in DOMAIN handles : handles[i] \in signalled}
  IN  /\ pc[t] = "filled" /\ Len(handles) <= limit
      /\ \/ sig = {} /\ Goto(t, "wait") /\ UNCHANGED reaping
         \/ \E i \in sig :
              /\ \A j \in sig : i <= j
              /\ Goto(t, AfterWait(t, handles[i]))
              /\ reaping' = [reaping EXCEPT ![t] =
                   IF AfterWait(t, handles[i]) = "got" THEN handles[i][2] ELSE NoTran]
      /\ UNCHANGED <<signalled, listVars, tranVars, calls, call, arg, crash>>

\* More handles than it takes: WAIT_FAILED is used as an index.
WaitFailed(t) ==
  /\ pc[t] = "filled" /\ Len(handles) > limit
  /\ crash' = TRUE
  /\ UNCHANGED <<signalled, listVars, tranVars, calls, threadVars>>

\* The driver still works on the request of tr.
Pending(tr) == io[tr] \in {"pending", "aborting"}

\* Mutant: an aborted request is an error like any other.
StatusOfTwo(r) == IF r = "success" THEN "completed" ELSE "error"

\* usbyb_update_finished_transfer
StatusOf(r) ==
  CASE r = "success" -> "completed"
    [] r = "aborted" -> "cancelled"
    [] OTHER -> "error"

\* Mutant: unlink the first transfer, whichever finished.
WithoutFirst(tr) == Tail(trani)

\* Mutant: a transfer that was reaped stays in the list.
WithoutNothing(tr) == trani

Without(tr) ==
  LET i == CHOOSE i \in DOMAIN trani : trani[i] = tr
  IN  [j \in 1 .. Len(trani) - 1 |-> trani[IF j < i THEN j ELSE j + 1]]

\* usbyb_reap_transfer up to the callback.
ReapTransfer(t) ==
  LET tr == reaping[t]
  IN  /\ pc[t] = "got"
      /\ \E i \in DOMAIN trani : trani[i] = tr
      /\ ~Pending(tr)
      /\ status' = [status EXCEPT ![tr] = StatusOf(io[tr])]
      /\ trani' = Without(tr)
      /\ submitted' = [submitted EXCEPT ![tr] = FALSE]
      /\ client' = [client EXCEPT ![tr] = "called"]
      /\ Goto(t, "callback")
      /\ UNCHANGED <<signalled, capacity, handles, io, calls, call, arg,
                     reaping, crash>>

\* Mutant: signal completion although the callback submitted again.
DoneAlways(tr) == TRUE

\* The transfer is done unless it was submitted again.
Done(tr) == ~submitted[tr]

\* The rest of usbyb_reap_transfer and of the loop body.
CallbackReturns(t) ==
  LET tr == reaping[t]
      at == [pc EXCEPT ![t] = "locked"]
  IN  /\ pc[t] = "callback"
      /\ \/ /\ Done(tr)
            /\ signalled' = signalled \cup {Completion(tr)}
            /\ client' = [client EXCEPT ![tr] = "idle"]
            /\ Wake(Completion(tr), at)
         \/ ~Done(tr) /\ UNCHANGED <<signalled, client>> /\ pc' = at
      /\ reaping' = [reaping EXCEPT ![t] = NoTran]
      /\ UNCHANGED <<listVars, submitted, status, io, calls, call, arg, crash>>

\* SetEvent(hReaperLock): one waiting thread gets the lock, if there is one.
\* Nobody reads the handles before they are filled again.
ReleaseLock(t) ==
  LET waiting == {u \in Threads : pc[u] = "enter"}
  IN  /\ pc[t] = "unlock"
      /\ \/ /\ waiting = {}
            /\ signalled' = signalled \cup {Lock}
            /\ Goto(t, "return")
         \/ \E u \in waiting :
              /\ pc' = [pc EXCEPT ![t] = "return", ![u] = "locked"]
              /\ UNCHANGED signalled
      /\ handles' = <<>>
      /\ UNCHANGED <<trani, capacity, tranVars, calls, call, arg, reaping, crash>>

Return(t) ==
  /\ pc[t] = "return"
  /\ Goto(t, "idle")
  /\ call' = [call EXCEPT ![t] = "none"]
  /\ arg' = [arg EXCEPT ![t] = NoTran]
  /\ UNCHANGED <<signalled, listVars, tranVars, calls, reaping, crash>>

-----------------------------------------------------------------------------
(* Submitting, cancelling, stopping.                                       *)

Call == calls < MaxCalls /\ calls' = calls + 1

\* usbyb_submit_transfer; all of it happens under ctx_mutex.
SubmitTransfer(t, tr) ==
  /\ Ready(t) /\ client[tr] \in {"idle", "called"} /\ Call
  /\ io' = [io EXCEPT ![tr] = "pending"]
  /\ signalled' = (signalled \ {Overlapped(tr), Completion(tr)}) \cup {Updated}
  /\ trani' = Append(trani, tr)
  /\ submitted' = [submitted EXCEPT ![tr] = TRUE]
  /\ client' = [client EXCEPT ![tr] = "pending"]
  /\ Wake(Updated, pc)
  /\ UNCHANGED <<capacity, handles, status, call, arg, reaping, crash>>

\* DeviceIoControl refuses the request.
SubmitFails(t, tr) ==
  /\ Ready(t) /\ client[tr] \in {"idle", "called"} /\ Call
  /\ signalled' = signalled \ {Overlapped(tr)}
  /\ UNCHANGED <<listVars, tranVars, threadVars, crash>>

\* usbyb_perform_transfer for the transfer of libusby_bulk_transfer or
\* libusby_control_transfer: its own request, no list, no callback.
PerformTransfer(t, tr) ==
  /\ pc[t] = "idle" /\ client[tr] = "free" /\ Call
  /\ io' = [io EXCEPT ![tr] = "pending"]
  /\ client' = [client EXCEPT ![tr] = "sync"]
  /\ call' = [call EXCEPT ![t] = "sync"]
  /\ arg' = [arg EXCEPT ![t] = tr]
  /\ Goto(t, "perform")
  /\ UNCHANGED <<signalled, listVars, submitted, status, reaping, crash>>

PerformDone(t) ==
  LET tr == arg[t]
  IN  /\ pc[t] = "perform" /\ ~Pending(tr)
      /\ status' = [status EXCEPT ![tr] = StatusOf(io[tr])]
      /\ client' = [client EXCEPT ![tr] = "free"]
      /\ call' = [call EXCEPT ![t] = "none"]
      /\ arg' = [arg EXCEPT ![t] = NoTran]
      /\ Goto(t, "idle")
      /\ signalled' = signalled \ {Overlapped(tr)}
      /\ UNCHANGED <<listVars, submitted, io, calls, reaping, crash>>

\* The driver finishes the request of a transfer with result r.
Complete(tr, r) ==
  /\ Pending(tr) /\ (r = "aborted" => io[tr] = "aborting")
  /\ io' = [io EXCEPT ![tr] = r]
  /\ signalled' = signalled \cup {Overlapped(tr)}
  /\ Wake(Overlapped(tr), pc)
  /\ reaping' = [t \in Threads |->
                   IF Overlapped(tr) \in WaitsFor(t) THEN tr ELSE reaping[t]]
  /\ UNCHANGED <<listVars, submitted, status, client, calls, call, arg, crash>>

\* Mutant: abort the endpoint even with CancelIoEx.
AbortsEndpoint(tr) == {x \in Transfers : Endpoint[x] = Endpoint[tr]}

\* What usbyb_cancel_transfer aborts: one request, or those of the endpoint.
Aborts(tr) ==
  IF CancelIoEx THEN {tr} ELSE {x \in Transfers : Endpoint[x] = Endpoint[tr]}

CancelTransfer(t, tr) ==
  /\ Ready(t) /\ client[tr] = "pending"
  /\ client' = [client EXCEPT ![tr] = "cancelled"]
  /\ io' = [x \in Transfers |->
              IF submitted[tr] /\ x \in Aborts(tr) /\ Pending(x) THEN "aborting" ELSE io[x]]
  /\ UNCHANGED <<signalled, listVars, submitted, status, calls, threadVars, crash>>

StopEventLoop(t) ==
  /\ Ready(t) /\ Stopped \notin signalled
  /\ signalled' = signalled \cup {Stopped}
  /\ Wake(Stopped, pc)
  /\ UNCHANGED <<listVars, tranVars, calls, call, arg, reaping, crash>>

ResetEventLoop(t) ==
  /\ Ready(t) /\ Stopped \in signalled
  /\ signalled' = signalled \ {Stopped}
  /\ UNCHANGED <<listVars, tranVars, calls, threadVars, crash>>

\* libusby_alloc_transfer with usbyb_init_transfer: both events signalled.
AllocTransfer(t, tr) ==
  /\ pc[t] = "idle" /\ client[tr] = "free"
  /\ client' = [client EXCEPT ![tr] = "idle"]
  /\ status' = [status EXCEPT ![tr] = "completed"]
  /\ io' = [io EXCEPT ![tr] = "success"]
  /\ submitted' = [submitted EXCEPT ![tr] = FALSE]
  /\ signalled' = signalled \cup {Completion(tr), Overlapped(tr)}
  /\ UNCHANGED <<listVars, calls, threadVars, crash>>

\* Clients free a transfer once a wait for it has returned in every thread.
\* Nothing is left of it.
FreeTransfer(t, tr) ==
  /\ pc[t] = "idle" /\ client[tr] = "idle"
  /\ \A u \in Threads : arg[u] # tr
  /\ client' = [client EXCEPT ![tr] = "free"]
  /\ status' = [status EXCEPT ![tr] = "completed"]
  /\ io' = [io EXCEPT ![tr] = "success"]
  /\ signalled' = signalled \ {Completion(tr), Overlapped(tr)}
  /\ UNCHANGED <<listVars, submitted, calls, threadVars, crash>>

-----------------------------------------------------------------------------
Init ==
  /\ limit \in MaxObjects
  /\ signalled = {Lock}
  /\ trani = <<>> /\ handles = <<>> /\ capacity = 0
  /\ submitted = [tr \in Transfers |-> FALSE]
  /\ status = [tr \in Transfers |-> "completed"]
  /\ io = [tr \in Transfers |-> "success"]
  /\ client = [tr \in Transfers |-> "free"]
  /\ calls = 0
  /\ pc = [t \in Threads |-> "idle"]
  /\ call = [t \in Threads |-> "none"]
  /\ arg = [t \in Threads |-> NoTran]
  /\ reaping = [t \in Threads |-> NoTran]
  /\ crash = FALSE

ClientStep(t) ==
  \/ RunEventLoop(t)
  \/ StopEventLoop(t)
  \/ ResetEventLoop(t)
  \/ \E tr \in Transfers :
       \/ WaitForTransfer(t, tr)
       \/ SubmitTransfer(t, tr)
       \/ SubmitFails(t, tr)
       \/ CancelTransfer(t, tr)
       \/ PerformTransfer(t, tr)
       \/ AllocTransfer(t, tr)
       \/ FreeTransfer(t, tr)

LibraryStep(t) ==
  \/ FillHandleList(t)
  \/ WaitForHandles(t)
  \/ WaitFailed(t)
  \/ ReapTransfer(t)
  \/ CallbackReturns(t)
  \/ ReleaseLock(t)
  \/ Return(t)
  \/ PerformDone(t)

DeviceStep(tr) == \E r \in {"success", "aborted", "failed"} : Complete(tr, r)

Next ==
  \/ /\ ~crash
     /\ \/ \E t \in Threads : ClientStep(t) \/ LibraryStep(t)
        \/ \E tr \in Transfers : DeviceStep(tr)
     /\ UNCHANGED limit
  \/ crash /\ UNCHANGED vars

Spec == Init /\ [][Next]_vars

\* Threads inside a call are scheduled, callbacks return, and a request ends:
\* every one of them carries default_timeout.
FairSpec ==
  /\ Spec
  /\ \A t \in Threads : WF_vars(LibraryStep(t) /\ UNCHANGED limit)
  /\ \A tr \in Transfers : WF_vars(DeviceStep(tr) /\ UNCHANGED limit)

-----------------------------------------------------------------------------
(* Properties.                                                             *)

\* The thread owns the reaper lock.
Reaper(t) == pc[t] \in {"locked", "filled", "wait", "got", "callback", "unlock"}

\* hReaperLock is neither lost nor doubled: it is signalled exactly when no
\* thread reaps, and no two threads reap.  handle_list and the search of the
\* transfer list without ctx_mutex depend on it.
OneReaper ==
  /\ Lock \in signalled <=> \A t \in Threads : ~Reaper(t)
  /\ \A t, u \in Threads : Reaper(t) /\ Reaper(u) => t = u

\* The transfer list is the set of submitted transfers, each once, and the
\* transfer whose event ended the reaper's wait is still in it.
ListIsExact ==
  /\ \A i, j \in DOMAIN trani : trani[i] = trani[j] => i = j
  /\ \A tr \in Transfers : submitted[tr] <=> \E i \in DOMAIN trani : trani[i] = tr
  /\ \A t \in Threads : pc[t] = "got" => submitted[reaping[t]] /\ ~Pending(reaping[t])

\* While a thread is blocked with the reaper lock, no submitted transfer is
\* missing from the handles it waits for and none of them is finished.
NothingIsMissed ==
  \A t \in Threads, tr \in Transfers :
    pc[t] = "wait" /\ submitted[tr] => Pending(tr) /\ Overlapped(tr) \in WaitsFor(t)

\* The handles written always fit the array reserved for them.
HandlesFit == ~crash => Len(handles) <= capacity

\* Memory is corrupted only if more transfers are submitted than a wait takes
\* besides its target and the update event, or if there was no memory for
\* their handles.  Up to that limit no order of submissions, callbacks and
\* reaping makes the code use WAIT_FAILED as an index or write behind the
\* array; one transfer more does.
SafeWithinLimits ==
  LET needed == 2 + Cardinality({tr \in Transfers : submitted[tr]})
  IN  crash => needed > limit \/ (AllocMayFail /\ needed > capacity)

\* After a wait the status is that of the last request, not a stale one.
StatusIsFresh ==
  \A tr \in Transfers :
    Completion(tr) \in signalled =>
      /\ status[tr] = "completed" <=> io[tr] = "success"
      /\ status[tr] = "cancelled" <=> io[tr] = "aborted"

\* With CancelIoEx a transfer is aborted only if it was cancelled itself.
CancelIsSelective ==
  \A tr \in Transfers :
    io[tr] \in {"aborting", "aborted"} /\ submitted[tr] => client[tr] = "cancelled"

\* libusby_free_transfer, and the return of a synchronous call, close events
\* and give back memory that nothing uses any more: the driver has no request
\* to finish into its OVERLAPPED, the transfer is not submitted, no thread
\* reaps it or is in a call about it, and none is blocked on its events.
FreedIsUnused ==
  \A tr \in Transfers :
    client[tr] = "free" =>
      /\ ~Pending(tr) /\ ~submitted[tr]
      /\ \A t \in Threads :
           /\ reaping[t] # tr /\ arg[t] # tr
           /\ {Completion(tr), Overlapped(tr)} \cap WaitsFor(t) = {}

\* libusby_wait_for_transfer returns, whoever holds the reaper lock meanwhile
\* and however the lock is handed on.
WaitReturns ==
  \A t \in Threads : call[t] = "wait" ~> call[t] = "none" \/ crash

\* libusby_stop_event_loop ends every event loop, of the reaper and of the
\* threads queueing for the lock.
StopEndsLoop ==
  \A t \in Threads :
    call[t] = "run" /\ Stopped \in signalled ~>
      call[t] = "none" \/ Stopped \notin signalled \/ crash

\* What the application sees of the Windows engine.  A synchronous call has a
\* request of its own that is due until the call returns.
Service ==
  INSTANCE TransferService WITH
    strict <- TRUE,
    phase <- [tr \in Transfers |->
                IF client[tr] \in {"free", "idle"} THEN client[tr] ELSE "busy"],
    due <- [tr \in Transfers |->
              IF submitted[tr] \/ client[tr] = "sync" THEN 1 ELSE 0],
    calling <- {reaping[t] : t \in {u \in Threads : pc[u] = "callback"}},
    blocked <- [t \in Threads |-> IF call[t] = "wait" THEN arg[t] ELSE NoTran],
    over <- [t \in Threads |-> call[t] = "wait" /\ pc[t] \in {"unlock", "return"}]

\* The Windows engine implements the transfer service, with the promise about
\* waiting for every client.
ImplementsService == Service!ServiceSpec

=============================================================================
