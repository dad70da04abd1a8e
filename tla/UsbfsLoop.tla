------------------------------ MODULE UsbfsLoop ------------------------------
(***************************************************************************)
(* The asynchronous transfer engine of the Linux backend                   *)
(* (src/src/os/linux_usbfs.c) with the calls of src/src/libusby.c that     *)
(* drive it.                                                               *)
(*                                                                         *)
(* Threads of the application submit transfers, wait for them and run the  *)
(* event loop.  One thread, the leader, polls the watched descriptors and  *)
(* reaps finished URBs; loop_locked says that there is a leader.  A step   *)
(* of the model is what a thread does between two points where another     *)
(* thread or the kernel can notice it: ctx_mutex is therefore explicit     *)
(* only where it is held across a system call (submit, stop).              *)
(***************************************************************************)
EXTENDS Integers, Sequences, FiniteSets

CONSTANTS
  Threads,      \* threads of the application
  Transfers,    \* usbyb_transfer objects
  Fds,          \* descriptor numbers an open device handle can have (wrfd)
  FdOf,         \* the descriptor of the handle a transfer is filled with
  NoTran,       \* a null usbyb_transfer pointer
  NoThread,     \* owner of a free ctx_mutex
  MaxCalls,     \* bound: submit and stop calls in a behaviour
  PipeCap,      \* bytes the wake-up pipe holds before write() blocks
  QuietReset,   \* client discipline: reset only when no thread is in the loop
  LoopFirst,    \* values of loopFirst to look at
  AllocMayFail  \* whether realloc can return NULL

ASSUME ConstantsAssumption ==
  /\ FdOf \in [Transfers -> Fds]
  /\ NoTran \notin Transfers
  /\ NoThread \notin Threads
  /\ MaxCalls \in Nat
  /\ PipeCap \in Nat \ {0}
  /\ QuietReset \in BOOLEAN
  /\ LoopFirst \subseteq BOOLEAN
  /\ AllocMayFail \in BOOLEAN

VARIABLES
  loopFirst,    \* client discipline, chosen once: submit only while a loop runs
  \* struct libusby_context
  loop_enabled, loop_locked,
  watched,      \* watched_fds[0 .. watched_fd_count-1]
  capacity,     \* watched_fd_capacity
  mutex,        \* holder of ctx_mutex between two steps
  \* usbfs and the pipe
  open,         \* descriptors that are open
  inflight,     \* URBs of a transfer the device has not finished
  completed,    \* finished URBs of a descriptor, first to be reaped first
  pipe,         \* bytes in the wake-up pipe
  \* transfers
  active,       \* usbyb_transfer.active
  client,       \* what the application believes of a transfer
  calls,        \* submit and stop calls so far
  \* threads
  pc, call,
  arg,          \* the transfer the thread's call is about (watch_tran)
  sub,          \* the transfer the thread is submitting
  reaping,      \* the transfer the thread is delivering
  pollfds,      \* the leader's copy of the watched descriptors
  ready,        \* indices of pollfds with POLLOUT still to be handled
  pin,          \* POLLIN on the pipe
  crash         \* memory of the process was corrupted

ctxVars    == <<loop_enabled, loop_locked, watched, capacity, mutex>>
kernelVars == <<open, inflight, completed, pipe>>
tranVars   == <<active, client, calls>>
pollVars   == <<reaping, pollfds, ready, pin>>
threadVars == <<pc, call, arg, sub, pollVars>>
vars == <<loopFirst, ctxVars, kernelVars, tranVars, threadVars, crash>>

-----------------------------------------------------------------------------
(* Types.                                                                  *)

\* free: not allocated; idle: allocated, not submitted or waited for;
\* pending: submitted; called: its callback was called; bulk: owned by a
\* libusby_bulk_transfer call in progress.
ClientState == {"free", "idle", "pending", "called", "bulk"}

PC == {"idle", "submit", "stop", "wait", "ctxwait", "ctxwoken",
       "tranwait", "tranwoken", "poll", "scan", "reaped", "callback",
       "failed", "relock"}

WatchedFd == [fd : Fds, refcount : Int]

TypeOK ==
  /\ loop_enabled \in BOOLEAN
  /\ loop_locked \in BOOLEAN
  /\ watched \in Seq(WatchedFd)
  /\ capacity \in Nat
  /\ mutex \in Threads \cup {NoThread}
  /\ open \subseteq Fds
  /\ inflight \in [Transfers -> Nat]
  /\ completed \in [Fds -> Seq(Transfers)]
  /\ pipe \in 0 .. PipeCap
  /\ active \in [Transfers -> 0 .. 2]
  /\ client \in [Transfers -> ClientState]
  /\ calls \in 0 .. MaxCalls
  /\ pc \in [Threads -> PC]
  /\ call \in [Threads -> {"none", "run", "wait", "bulk"}]
  /\ arg \in [Threads -> Transfers \cup {NoTran}]
  /\ sub \in [Threads -> Transfers \cup {NoTran}]
  /\ reaping \in [Threads -> Transfers \cup {NoTran}]
  /\ pollfds \in [Threads -> Seq(Fds)]
  /\ ready \in [Threads -> SUBSET (Nat \ {0})]
  /\ pin \in [Threads -> BOOLEAN]
  /\ crash \in BOOLEAN

-----------------------------------------------------------------------------
(* The table of watched descriptors.                                       *)

WatchedFds == [i \in 1 .. Len(watched) |-> watched[i].fd]

IsWatched(fd) == \E i \in 1 .. Len(watched) : watched[i].fd = fd

\* Mutant: count the first submission, but none of the later ones.
NewEntryCounted(fd) == [fd |-> fd, refcount |-> 1]

\* A new entry starts with refcount 0 and no code increments it.
NewEntry(fd) == [fd |-> fd, refcount |-> 0]

GrowCapacity(cap) == IF cap = 0 THEN 4 ELSE (cap * 3) \div 2

\* usbyb_submit_transfer: find the descriptor or append it.
Watch(fd) == IF IsWatched(fd) THEN watched ELSE Append(watched, NewEntry(fd))

MustGrow(fd) == ~IsWatched(fd) /\ Len(watched) = capacity

CapacityFor(fd) == IF MustGrow(fd) THEN GrowCapacity(capacity) ELSE capacity

\* usbfs_unwatch_fd: the last entry replaces one whose refcount drops to 0.
Unwatch(w, i) ==
  LET n == w[i].refcount - 1
  IN  IF n = 0
      THEN SubSeq([w EXCEPT ![i] = w[Len(w)]], 1, Len(w) - 1)
      ELSE [w EXCEPT ![i].refcount = n]

-----------------------------------------------------------------------------
(* Pieces of the API calls.                                                *)

\* The thread can enter the library: it is outside it, or in a callback.
Ready(t) == pc[t] \in {"idle", "callback"}

Goto(t, l) == pc' = [pc EXCEPT ![t] = l]

\* Where a thread goes when submit or stop returns.
Caller(t) ==
  IF reaping[t] # NoTran THEN "callback"
  ELSE IF call[t] = "bulk" THEN "wait" ELSE "idle"

\* The thread is between taking and giving up the role of leader.
Leading(t) ==
  \/ pc[t] \in {"poll", "scan", "reaped", "failed", "relock"}
  \/ reaping[t] # NoTran

\* What the application believes once call c about transfer tr returned:
\* libusby_bulk_transfer frees its transfer, after wait it is the client's.
Released(c, tr) ==
  IF c = "run" THEN client
  ELSE [client EXCEPT ![tr] = IF c = "bulk" THEN "free" ELSE "idle"]

Return(t, c, tr) ==
  /\ Goto(t, "idle")
  /\ call' = [call EXCEPT ![t] = "none"]
  /\ arg' = [arg EXCEPT ![t] = NoTran]
  /\ client' = Released(c, tr)

\* pthread_cond_wait on tran->cond for as long as the transfer is active.
AwaitInactive(t, c, tr) ==
  IF c # "run" /\ active[tr] # 0
  THEN /\ Goto(t, "tranwait")
       /\ call' = [call EXCEPT ![t] = c]
       /\ arg' = [arg EXCEPT ![t] = tr]
       /\ UNCHANGED client
  ELSE Return(t, c, tr)

-----------------------------------------------------------------------------
(* The event loop, usbfs_run_event_loop_impl.                              *)

\* Mutant: nobody waits for the leader.
MustWaitForLoopNever == FALSE

\* Another thread runs an enabled loop: wait on ctx_cond.
MustWaitForLoop == loop_enabled /\ loop_locked

\* Mutant: a stopped loop goes on.
LoopCondUnstoppable(c, tr) == c # "run" => active[tr] # 0

\* The condition of the loop.
LoopCond(c, tr) == loop_enabled /\ (c # "run" => active[tr] # 0)

\* After the loop: give up the lock, waking nobody, and return to the caller.
LeaveLoop(t, c, tr) ==
  /\ loop_locked' = FALSE
  /\ AwaitInactive(t, c, tr)
  /\ pollfds' = [pollfds EXCEPT ![t] = <<>>]
  /\ ready' = [ready EXCEPT ![t] = {}]

StartPoll(t, c, tr) ==
  /\ loop_locked' = TRUE
  /\ pollfds' = [pollfds EXCEPT ![t] = WatchedFds]
  /\ ready' = [ready EXCEPT ![t] = {}]
  /\ Goto(t, "poll")
  /\ call' = [call EXCEPT ![t] = c]
  /\ arg' = [arg EXCEPT ![t] = tr]
  /\ UNCHANGED client

\* The leader's array of pollfds starts empty and only grows.
MustGrowPollfds(t) == pc[t] # "relock" \/ Len(watched) > Len(pollfds[t])

\* One evaluation of the loop condition, with the copy of the descriptors.
Iterate(t, c, tr) ==
  /\ \/ LoopCond(c, tr) /\ StartPoll(t, c, tr)
     \/ ~LoopCond(c, tr) /\ LeaveLoop(t, c, tr)
     \/ /\ AllocMayFail /\ MustGrowPollfds(t)
        /\ LoopCond(c, tr) /\ LeaveLoop(t, c, tr)
  /\ UNCHANGED <<loop_enabled, watched, capacity, mutex, kernelVars,
                 active, calls, sub, reaping, pin, crash>>

WaitForLoop(t) ==
  /\ Goto(t, "ctxwait")
  /\ call' = [call EXCEPT ![t] = "run"]
  /\ UNCHANGED <<ctxVars, kernelVars, tranVars, arg, sub, pollVars, crash>>

\* libusby_run_event_loop
RunEventLoop(t) ==
  /\ pc[t] = "idle" /\ mutex = NoThread
  /\ IF MustWaitForLoop THEN WaitForLoop(t) ELSE Iterate(t, "run", NoTran)

\* A thread woken on ctx_cond tests the condition again.
RetryEventLoop(t) ==
  /\ pc[t] = "ctxwoken" /\ mutex = NoThread
  /\ IF MustWaitForLoop THEN WaitForLoop(t) ELSE Iterate(t, "run", NoTran)

\* libusby_wait_for_transfer: lead the loop unless somebody else does.
WaitForTransfer(t, c, tr) ==
  /\ mutex = NoThread
  /\ \/ ~loop_locked /\ Iterate(t, c, tr)
     \/ /\ loop_locked
        /\ AwaitInactive(t, c, tr)
        /\ UNCHANGED <<ctxVars, kernelVars, active, calls, sub, pollVars, crash>>

ClientWait(t, tr) ==
  /\ pc[t] = "idle" /\ client[tr] \in {"idle", "pending", "called"}
  /\ WaitForTransfer(t, "wait", tr)

BulkWait(t) == pc[t] = "wait" /\ WaitForTransfer(t, "bulk", arg[t])

\* A thread woken on tran->cond tests the condition again.
RetryWait(t) ==
  /\ pc[t] = "tranwoken" /\ mutex = NoThread
  /\ AwaitInactive(t, call[t], arg[t])
  /\ UNCHANGED <<ctxVars, kernelVars, active, calls, sub, pollVars, crash>>

\* POSIX lets pthread_cond_wait return without a signal.
SpuriousWake(t) ==
  /\ \/ pc[t] = "ctxwait" /\ Goto(t, "ctxwoken")
     \/ pc[t] = "tranwait" /\ Goto(t, "tranwoken")
  /\ UNCHANGED <<ctxVars, kernelVars, tranVars, call, arg, sub, pollVars, crash>>

\* poll() reports finished URBs, a byte in the pipe or a closed descriptor.
PollReturn(t) ==
  LET fds == pollfds[t]
      out == {i \in DOMAIN fds : fds[i] \in open /\ completed[fds[i]] # <<>>}
  IN  /\ pc[t] = "poll"
      /\ \/ out # {}
         \/ pipe > 0
         \/ \E i \in DOMAIN fds : fds[i] \notin open
      /\ ready' = [ready EXCEPT ![t] = out]
      /\ pin' = [pin EXCEPT ![t] = pipe > 0]
      /\ Goto(t, "scan")
      /\ UNCHANGED <<ctxVars, kernelVars, tranVars, call, arg, sub, reaping,
                     pollfds, crash>>

\* poll() fails, for instance with EINTR.
PollError(t) ==
  /\ pc[t] = "poll" /\ Goto(t, "failed")
  /\ UNCHANGED <<ctxVars, kernelVars, tranVars, call, arg, sub, pollVars, crash>>

\* The first descriptor with POLLOUT that is still to be handled.
Current(t, i) == i \in ready[t] /\ \A j \in ready[t] : i <= j

\* USBDEVFS_REAPURBNDELAY finds nothing, or the descriptor is closed.
ReapNothing(t) ==
  /\ pc[t] = "scan"
  /\ \E i \in ready[t] :
       /\ Current(t, i)
       /\ completed[pollfds[t][i]] = <<>>
       /\ ready' = [ready EXCEPT ![t] = @ \ {i}]
  /\ UNCHANGED <<ctxVars, kernelVars, tranVars, pc, call, arg, sub, reaping,
                 pollfds, pin, crash>>

\* USBDEVFS_REAPURBNDELAY returns a URB and the leader writes the result
\* into its transfer, without the mutex.
Reap(t) ==
  /\ pc[t] = "scan"
  /\ \E i \in ready[t] :
       LET fd == pollfds[t][i]
           tr == Head(completed[fd])
       IN  /\ Current(t, i)
           /\ completed[fd] # <<>>
           /\ completed' = [completed EXCEPT ![fd] = Tail(@)]
           /\ reaping' = [reaping EXCEPT ![t] = tr]
           /\ crash' = (client[tr] = "free")
  /\ Goto(t, "reaped")
  /\ UNCHANGED <<ctxVars, open, inflight, pipe, tranVars, call, arg, sub,
                 pollfds, ready, pin>>

\* Mutant: the transfer stays active.
AfterCallbackStuck(a) == a

\* Mutant: a transfer submitted again by its callback is marked done.
AfterCallbackAlwaysDone(a) == 0

\* The value of active when the callback returned with the given value.
AfterCallback(a) == IF a = 2 THEN 0 ELSE a

\* Mutant: no broadcast.
WakeWaitersNone(t, l, tr) == Goto(t, l)

\* pthread_cond_broadcast(&tran->cond); the leader itself goes to location l.
WakeWaiters(t, l, tr) ==
  pc' = [u \in Threads |->
           IF u = t THEN l
           ELSE IF pc[u] = "tranwait" /\ arg[u] = tr THEN "tranwoken"
           ELSE pc[u]]

\* The tail of the reaping code: wake the waiters unless the transfer was
\* submitted again, drop the watch, go on with the next descriptor.
FinishUrb(t, tr, a) ==
  /\ active' = [active EXCEPT ![tr] = AfterCallback(a)]
  /\ IF a = 2 THEN WakeWaiters(t, "scan", tr) ELSE Goto(t, "scan")
  /\ \E i \in ready[t] :
       /\ Current(t, i)
       /\ watched' = Unwatch(watched, i)
       /\ ready' = [ready EXCEPT ![t] = @ \ {i}]
  /\ reaping' = [reaping EXCEPT ![t] = NoTran]
  /\ crash' = (client[tr] = "free")

\* active = 2 under the mutex, then the callback without it; a transfer of
\* libusby_bulk_transfer has no callback.
Deliver(t) ==
  LET tr == reaping[t]
  IN  /\ pc[t] = "reaped" /\ mutex = NoThread
      /\ \/ /\ client[tr] = "bulk"
            /\ FinishUrb(t, tr, 2)
            /\ UNCHANGED client
         \/ /\ client[tr] # "bulk"
            /\ active' = [active EXCEPT ![tr] = 2]
            /\ client' = [client EXCEPT ![tr] = IF @ = "free" THEN @ ELSE "called"]
            /\ crash' = (client[tr] = "free")
            /\ Goto(t, "callback")
            /\ UNCHANGED <<watched, reaping, ready>>
      /\ UNCHANGED <<loop_enabled, loop_locked, capacity, mutex, kernelVars,
                     calls, call, arg, sub, pollfds, pin>>

CallbackReturns(t) ==
  /\ pc[t] = "callback" /\ mutex = NoThread
  /\ FinishUrb(t, reaping[t], active[reaping[t]])
  /\ UNCHANGED <<loop_enabled, loop_locked, capacity, mutex, kernelVars,
                 client, calls, call, arg, sub, pollfds, pin>>

\* All descriptors handled: take one byte out of the pipe if poll saw one.
\* The pipe is blocking, and the read can fail.  pin is not used again before
\* the next poll.
Drain(t) ==
  /\ pc[t] = "scan" /\ ready[t] = {}
  /\ \/ pin[t] /\ pipe > 0 /\ pipe' = pipe - 1 /\ Goto(t, "relock")
     \/ pin[t] /\ pipe > 0 /\ UNCHANGED pipe /\ Goto(t, "failed")
     \/ ~pin[t] /\ UNCHANGED pipe /\ Goto(t, "relock")
  /\ pin' = [pin EXCEPT ![t] = FALSE]
  /\ UNCHANGED <<ctxVars, open, inflight, completed, tranVars, call, arg, sub,
                 reaping, pollfds, ready, crash>>

\* The end of the loop body: lock again and test the loop condition.
Relock(t) ==
  /\ pc[t] = "relock" /\ mutex = NoThread
  /\ Iterate(t, call[t], arg[t])

\* r < 0 ends the loop whatever its condition says.
LeaveOnError(t) ==
  /\ pc[t] = "failed" /\ mutex = NoThread
  /\ LeaveLoop(t, call[t], arg[t])
  /\ UNCHANGED <<loop_enabled, watched, capacity, mutex, kernelVars, active,
                 calls, sub, reaping, pin, crash>>

-----------------------------------------------------------------------------
(* Submitting.                                                             *)

\* The thread submits tr: with libusby_submit_transfer, also from a callback,
\* or with libusby_bulk_transfer, which allocates and fills a transfer of its
\* own and submits it because usbyb_perform_transfer does not support it.
Submits(t, tr, c) ==
  /\ IF c = "bulk" THEN pc[t] = "idle" /\ client[tr] = "free"
                   ELSE Ready(t) /\ client[tr] \in {"idle", "called"}
  /\ FdOf[tr] \in open
  /\ mutex = NoThread
  /\ loopFirst => loop_locked
  /\ calls < MaxCalls
  /\ calls' = calls + 1
  /\ capacity' = CapacityFor(FdOf[tr])

\* usbyb_submit_transfer up to a successful USBDEVFS_SUBMITURB: the mutex
\* stays held, but kernel and leader can already see the URB.
SubmitUrb(t, tr, c) ==
  /\ Submits(t, tr, c)
  /\ watched' = Watch(FdOf[tr])
  /\ inflight' = [inflight EXCEPT ![tr] = @ + 1]
  /\ client' = [client EXCEPT ![tr] = IF c = "bulk" THEN "bulk" ELSE "pending"]
  /\ mutex' = t
  /\ sub' = [sub EXCEPT ![t] = tr]
  /\ Goto(t, "submit")
  /\ IF c = "bulk" THEN /\ call' = [call EXCEPT ![t] = "bulk"]
                        /\ arg' = [arg EXCEPT ![t] = tr]
                        /\ active' = [active EXCEPT ![tr] = 0]
                   ELSE UNCHANGED <<call, arg, active>>
  /\ UNCHANGED <<loop_enabled, loop_locked, open, completed, pipe, pollVars,
                 crash>>

\* Mutant: active counts submissions.
ActiveAfterSubmitCounts(tr) == active[tr] + 1

\* A submitted transfer is active, and its leader woken, if there is a leader.
ActiveAfterSubmit(tr) == IF loop_locked THEN 1 ELSE active[tr]

\* Mutant: the leader is not woken.
WakeByteNone == 0

WakeByte == IF loop_locked THEN 1 ELSE 0

\* The rest of usbyb_submit_transfer; write() blocks while the pipe is full.
SubmitDone(t) ==
  /\ pc[t] = "submit"
  /\ pipe + WakeByte <= PipeCap
  /\ pipe' = pipe + WakeByte
  /\ active' = [active EXCEPT ![sub[t]] = ActiveAfterSubmit(sub[t])]
  /\ mutex' = NoThread
  /\ sub' = [sub EXCEPT ![t] = NoTran]
  /\ Goto(t, Caller(t))
  /\ UNCHANGED <<loop_enabled, loop_locked, watched, capacity, open, inflight,
                 completed, client, calls, call, arg, pollVars, crash>>

\* USBDEVFS_SUBMITURB fails: drop the watch, return the error.
SubmitFail(t, tr, c) ==
  /\ Submits(t, tr, c)
  /\ \E i \in 1 .. Len(Watch(FdOf[tr])) :
       /\ Watch(FdOf[tr])[i].fd = FdOf[tr]
       /\ watched' = Unwatch(Watch(FdOf[tr]), i)
  /\ UNCHANGED <<loop_enabled, loop_locked, mutex, kernelVars, active, client,
                 threadVars, crash>>

\* realloc fails: the null table is written to before r is looked at.
SubmitNoMem(t, tr, c) ==
  /\ AllocMayFail
  /\ Submits(t, tr, c)
  /\ MustGrow(FdOf[tr])
  /\ crash' = TRUE
  /\ UNCHANGED <<loop_enabled, loop_locked, watched, mutex, kernelVars, active,
                 client, threadVars>>

-----------------------------------------------------------------------------
(* The other calls.                                                        *)

\* usbyb_stop_event_loop: the write to the pipe happens with the mutex held.
StopEventLoop(t) ==
  /\ Ready(t) /\ mutex = NoThread
  /\ calls < MaxCalls
  /\ calls' = calls + 1
  /\ loop_enabled' = FALSE
  /\ mutex' = t
  /\ Goto(t, "stop")
  /\ UNCHANGED <<loop_locked, watched, capacity, kernelVars, active, client,
                 call, arg, sub, pollVars, crash>>

StopDone(t) ==
  /\ pc[t] = "stop"
  /\ pipe + WakeByte <= PipeCap
  /\ pipe' = pipe + WakeByte
  /\ pc' = [u \in Threads |-> IF u = t THEN Caller(t)
                              ELSE IF pc[u] = "ctxwait" THEN "ctxwoken" ELSE pc[u]]
  /\ mutex' = NoThread
  /\ UNCHANGED <<loop_enabled, loop_locked, watched, capacity, open, inflight,
                 completed, tranVars, call, arg, sub, pollVars, crash>>

ResetEventLoop(t) ==
  /\ Ready(t) /\ mutex = NoThread /\ ~loop_enabled
  /\ QuietReset => \A u \in Threads : ~Leading(u)
  /\ loop_enabled' = TRUE
  /\ UNCHANGED <<loop_locked, watched, capacity, mutex, kernelVars, tranVars,
                 threadVars, crash>>

\* The kernel moves a URB of tr to the list of finished ones.
UrbDone(tr) ==
  /\ inflight[tr] > 0
  /\ inflight' = [inflight EXCEPT ![tr] = @ - 1]
  /\ completed' = [completed EXCEPT ![FdOf[tr]] = Append(@, tr)]
  /\ UNCHANGED <<ctxVars, open, pipe, tranVars, threadVars, crash>>

\* libusby_cancel_transfer: USBDEVFS_DISCARDURB, an error without a URB.
CancelTransfer(t, tr) == Ready(t) /\ client[tr] = "pending" /\ UrbDone(tr)

\* The device finishes a URB.
Complete(tr) == UrbDone(tr)

AllocTransfer(t, tr) ==
  /\ pc[t] = "idle" /\ client[tr] = "free"
  /\ client' = [client EXCEPT ![tr] = "idle"]
  /\ active' = [active EXCEPT ![tr] = 0]
  /\ UNCHANGED <<ctxVars, kernelVars, calls, threadVars, crash>>

\* Clients free a transfer they waited for and nobody waits for.
FreeTransfer(t, tr) ==
  /\ pc[t] = "idle" /\ client[tr] = "idle"
  /\ \A u \in Threads : arg[u] # tr
  /\ client' = [client EXCEPT ![tr] = "free"]
  /\ UNCHANGED <<ctxVars, kernelVars, active, calls, threadVars, crash>>

OpenHandle(t, fd) ==
  /\ pc[t] = "idle" /\ fd \notin open
  /\ open' = open \cup {fd}
  /\ UNCHANGED <<ctxVars, inflight, completed, pipe, tranVars, threadVars, crash>>

\* Clients close a handle without pending transfers; the kernel drops its URBs.
CloseHandle(t, fd) ==
  /\ pc[t] = "idle" /\ fd \in open
  /\ \A tr \in Transfers : FdOf[tr] = fd => client[tr] \notin {"pending", "bulk"}
  /\ open' = open \ {fd}
  /\ inflight' = [tr \in Transfers |-> IF FdOf[tr] = fd THEN 0 ELSE inflight[tr]]
  /\ completed' = [completed EXCEPT ![fd] = <<>>]
  /\ UNCHANGED <<ctxVars, pipe, tranVars, threadVars, crash>>

-----------------------------------------------------------------------------
Init ==
  /\ loopFirst \in LoopFirst
  /\ loop_enabled = TRUE
  /\ loop_locked = FALSE
  /\ watched = <<>>
  /\ capacity = 0
  /\ mutex = NoThread
  /\ open = {}
  /\ inflight = [tr \in Transfers |-> 0]
  /\ completed = [fd \in Fds |-> <<>>]
  /\ pipe = 0
  /\ active = [tr \in Transfers |-> 0]
  /\ client = [tr \in Transfers |-> "free"]
  /\ calls = 0
  /\ pc = [t \in Threads |-> "idle"]
  /\ call = [t \in Threads |-> "none"]
  /\ arg = [t \in Threads |-> NoTran]
  /\ sub = [t \in Threads |-> NoTran]
  /\ reaping = [t \in Threads |-> NoTran]
  /\ pollfds = [t \in Threads |-> <<>>]
  /\ ready = [t \in Threads |-> {}]
  /\ pin = [t \in Threads |-> FALSE]
  /\ crash = FALSE

\* Calls the application makes.
ClientStep(t) ==
  \/ RunEventLoop(t)
  \/ StopEventLoop(t)
  \/ ResetEventLoop(t)
  \/ \E tr \in Transfers :
       \/ ClientWait(t, tr)
       \/ \E c \in {"submit", "bulk"} :
            SubmitUrb(t, tr, c) \/ SubmitFail(t, tr, c) \/ SubmitNoMem(t, tr, c)
       \/ CancelTransfer(t, tr)
       \/ AllocTransfer(t, tr)
       \/ FreeTransfer(t, tr)
  \/ \E fd \in Fds : OpenHandle(t, fd) \/ CloseHandle(t, fd)

\* Steps inside a call.
LibraryStep(t) ==
  \/ SubmitDone(t)
  \/ StopDone(t)
  \/ BulkWait(t)
  \/ RetryEventLoop(t)
  \/ RetryWait(t)
  \/ PollReturn(t)
  \/ ReapNothing(t)
  \/ Reap(t)
  \/ Deliver(t)
  \/ CallbackReturns(t)
  \/ Drain(t)
  \/ Relock(t)
  \/ LeaveOnError(t)

\* What the environment does to a call.
Disturbance(t) == SpuriousWake(t) \/ PollError(t)

Next ==
  \/ /\ ~crash
     /\ \/ \E t \in Threads : ClientStep(t) \/ LibraryStep(t) \/ Disturbance(t)
        \/ \E tr \in Transfers : Complete(tr)
     /\ UNCHANGED loopFirst
  \/ crash /\ UNCHANGED vars

Spec == Init /\ [][Next]_vars

\* The scheduler runs every thread inside a call, the mutex is granted and
\* callbacks return.  Nothing is assumed of the device or the application.
FairSpec == Spec /\ \A t \in Threads : WF_vars(LibraryStep(t) /\ UNCHANGED loopFirst)

-----------------------------------------------------------------------------
(* Properties.                                                             *)

\* The URB of tr is with the kernel, or reaped and not yet marked in active.
Outstanding(tr) ==
  \/ inflight[tr] > 0
  \/ \E i \in DOMAIN completed[FdOf[tr]] : completed[FdOf[tr]][i] = tr
  \/ \E t \in Threads : pc[t] = "reaped" /\ reaping[t] = tr

Submitting(tr) == \E t \in Threads : pc[t] = "submit" /\ sub[t] = tr

\* loop_locked does its job: two threads never lead the event loop at once,
\* whatever stops, resets and failed polls came before.  A thread that
\* enters a disabled loop clears loop_locked although another one still
\* leads, so this rests on resetting only when nobody is in the loop.
OneLeader == \A t, u \in Threads : Leading(t) /\ Leading(u) => t = u

\* The leader finds out: while it is blocked in poll with a copy of the
\* descriptors that misses one with URBs in the kernel, or with the loop
\* stopped, there is a byte in the pipe or a call in progress that writes it.
PollIsWoken ==
  \A t \in Threads :
    /\ pc[t] = "poll"
    /\ \/ ~loop_enabled
       \/ \E tr \in Transfers : inflight[tr] > 0 /\
            \A i \in DOMAIN pollfds[t] : pollfds[t][i] # FdOf[tr]
    => pipe > 0 \/ mutex # NoThread

\* A descriptor with URBs in the kernel is in the table the leader polls.
OutstandingIsWatched ==
  \A tr \in Transfers :
    inflight[tr] > 0 \/ completed[FdOf[tr]] # <<>> => IsWatched(FdOf[tr])

\* The index into pollfds that usbfs_unwatch_fd is called with still names
\* the descriptor that was polled, although the mutex was given up between.
IndexStaysValid ==
  \A t \in Threads : \A i \in ready[t] :
    /\ i <= Len(watched)
    /\ pollfds[t][i] = watched[i].fd

\* libusby_bulk_transfer and wait followed by libusby_free_transfer give the
\* memory back only when no URB refers to it and no thread will touch it.
FreedIsUnused ==
  \A tr \in Transfers :
    client[tr] = "free" => ~Outstanding(tr) /\ \A t \in Threads : reaping[t] # tr

\* No broadcast is missed: a thread asleep on ctx_cond waits for the end of a
\* loop that is enabled, or the call that stopped it is still to broadcast; one
\* asleep on tran->cond waits for a transfer whose URB is still to be reaped,
\* or that another thread is delivering.  That somebody leads the loop and will
\* reap it is not said here.
SleepersAreOwed ==
  \A t \in Threads :
    /\ pc[t] = "ctxwait" => loop_enabled \/ \E u \in Threads : pc[u] = "stop"
    /\ pc[t] = "tranwait" =>
         Outstanding(arg[t]) \/ \E u \in Threads \ {t} : reaping[u] = arg[t]

\* libusby.h lists libusby_submit_transfer under "Asynchronous device I/O":
\* a submit from a callback never finds the pipe full.  There write() would
\* block, with ctx_mutex held, the very thread that reads the pipe.
SubmitIsAsynchronous ==
  \A t \in Threads :
    pc[t] = "submit" /\ reaping[t] # NoTran => pipe + WakeByte <= PipeCap

Finished(tr) == \E i \in DOMAIN completed[FdOf[tr]] : completed[FdOf[tr]][i] = tr

LoopEnds == ~loop_enabled \/ \A t \in Threads : ~Leading(t)

\* A finished URB does not stay with the kernel while a thread leads the
\* loop, even if its descriptor was not yet watched when poll was entered.
LoopReaps == \A tr \in Transfers : Finished(tr) ~> ~Finished(tr) \/ LoopEnds \/ crash

\* usbyb_stop_event_loop gets the leader out of poll and out of the loop.
StopEndsLoop ==
  \A t \in Threads :
    ~loop_enabled /\ Leading(t) ~> loop_enabled \/ ~Leading(t) \/ crash

\* A thread that waits for a transfer while another one leads the loop
\* returns once the device is done with the transfer.
FollowerReturns ==
  \A t \in Threads : \A tr \in Transfers :
    pc[t] = "tranwait" /\ arg[t] = tr ~>
      pc[t] = "idle" \/ inflight[tr] > 0 \/ LoopEnds \/ crash

\* URBs of tr that are with the kernel or reaped and not yet delivered.
Due(tr) ==
  inflight[tr]
    + Cardinality({i \in DOMAIN completed[FdOf[tr]] : completed[FdOf[tr]][i] = tr})
    + Cardinality({t \in Threads : pc[t] = "reaped" /\ reaping[t] = tr})

\* What the application sees of the Linux engine.  It keeps the promise about
\* waiting if clients submit only while an event loop runs.
Service ==
  INSTANCE TransferService WITH
    strict <- loopFirst,
    phase <- [tr \in Transfers |->
                IF client[tr] \in {"free", "idle"} THEN client[tr] ELSE "busy"],
    due <- [tr \in Transfers |-> Due(tr)],
    calling <- {reaping[t] : t \in {u \in Threads : pc[u] # "reaped"}} \ {NoTran},
    blocked <- [t \in Threads |-> IF call[t] = "wait" THEN arg[t] ELSE NoTran],
    over <- [t \in Threads |-> FALSE]

\* The Linux engine implements the transfer service: no path through
\* submission, poll, callbacks and waiting loses a callback, calls one twice,
\* or tells the application too early that a transfer is its own.
ImplementsService == Service!ServiceSpec

=============================================================================
