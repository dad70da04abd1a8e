--------------------------- MODULE UsbfsLoopProofs ---------------------------
(***************************************************************************)
(* Theorems about UsbfsLoop that hold for every number of threads,         *)
(* transfers and descriptors.                                              *)
(***************************************************************************)
EXTENDS UsbfsLoop, FiniteSetTheorems, TLAPS

\* A thread that delivers or submits does so for a transfer, and only a
\* thread in the middle of a delivery has one to deliver.
Located ==
  \A t \in Threads :
    /\ pc[t] \in {"reaped", "callback"} => reaping[t] # NoTran
    /\ reaping[t] # NoTran => pc[t] \in {"reaped", "callback", "submit", "stop"}
    /\ pc[t] = "submit" => sub[t] # NoTran

\* The table the leader copied is a prefix of the one it unwatches from:
\* because no refcount is ever positive, usbfs_unwatch_fd removes nothing.
Prefix ==
  /\ \A i \in DOMAIN watched : watched[i].refcount <= 0
  /\ \A t \in Threads :
       /\ Len(pollfds[t]) <= Len(watched)
       /\ \A i \in DOMAIN pollfds[t] : pollfds[t][i] = watched[i].fd
       /\ ready[t] \subseteq DOMAIN pollfds[t]

Inv == TypeOK /\ Located /\ Prefix

LEMMA InitInv == Init => Inv
  <1> SUFFICES ASSUME Init PROVE Inv
    OBVIOUS
  <1> USE ConstantsAssumption DEF Init
  <1>1. TypeOK
    <2>1. watched \in Seq(WatchedFd)
      OBVIOUS
    <2>2. completed \in [Fds -> Seq(Transfers)]
      OBVIOUS
    <2>3. pollfds \in [Threads -> Seq(Fds)]
      OBVIOUS
    <2>4. pipe \in 0 .. PipeCap /\ calls \in 0 .. MaxCalls
      BY DEF ConstantsAssumption
    <2>5. /\ client \in [Transfers -> ClientState]
          /\ pc \in [Threads -> PC]
      BY DEF ClientState, PC
    <2>6. /\ loop_enabled \in BOOLEAN
          /\ loop_locked \in BOOLEAN
          /\ crash \in BOOLEAN
      OBVIOUS
    <2>7. /\ inflight \in [Transfers -> Nat]
          /\ active \in [Transfers -> 0 .. 2]
          /\ capacity \in Nat
      OBVIOUS
    <2>8. /\ mutex \in Threads \cup {NoThread}
          /\ open \subseteq Fds
      OBVIOUS
    <2>9. /\ call \in [Threads -> {"none", "run", "wait", "bulk"}]
          /\ arg \in [Threads -> Transfers \cup {NoTran}]
          /\ sub \in [Threads -> Transfers \cup {NoTran}]
          /\ reaping \in [Threads -> Transfers \cup {NoTran}]
      OBVIOUS
    <2>10. /\ ready \in [Threads -> SUBSET (Nat \ {0})]
           /\ pin \in [Threads -> BOOLEAN]
      OBVIOUS
    <2> HIDE DEF Init
    <2> QED
      BY <2>1, <2>2, <2>3, <2>4, <2>5, <2>6, <2>7, <2>8, <2>9, <2>10 DEF TypeOK
  <1>2. Located
    BY DEF Located
  <1>3. Prefix
    BY DEF Prefix
  <1> QED
    BY <1>1, <1>2, <1>3 DEF Inv

\* Appending to the table keeps it a table and extends it.
LEMMA WatchLemma ==
  ASSUME Inv, NEW fd \in Fds
  PROVE  /\ Watch(fd) \in Seq(WatchedFd)
         /\ Len(watched) <= Len(Watch(fd))
         /\ \A i \in DOMAIN watched : Watch(fd)[i] = watched[i]
         /\ \A i \in DOMAIN Watch(fd) : Watch(fd)[i].refcount <= 0
  <1>1. watched \in Seq(WatchedFd) /\ \A i \in DOMAIN watched : watched[i].refcount <= 0
    BY DEF Inv, TypeOK, Prefix
  <1>2. CASE IsWatched(fd)
    BY <1>1, <1>2 DEF Watch
  <1>3. CASE ~IsWatched(fd)
    <2> DEFINE e == NewEntry(fd)
    <2>1. e \in WatchedFd /\ e.refcount = 0
      BY DEF NewEntry, WatchedFd
    <2>2. Watch(fd) = Append(watched, e)
      BY <1>3 DEF Watch
    <2> HIDE DEF e
    <2> QED
      BY <1>1, <2>1, <2>2
  <1> QED
    BY <1>2, <1>3

\* usbfs_unwatch_fd changes the refcount of an entry and nothing else.
LEMMA UnwatchLemma ==
  ASSUME NEW w \in Seq(WatchedFd), NEW i \in DOMAIN w,
         \A j \in DOMAIN w : w[j].refcount <= 0
  PROVE  /\ Unwatch(w, i) \in Seq(WatchedFd)
         /\ Len(Unwatch(w, i)) = Len(w)
         /\ \A j \in DOMAIN w : Unwatch(w, i)[j].fd = w[j].fd
         /\ \A j \in DOMAIN w : Unwatch(w, i)[j].refcount <= 0
  <1>1. w[i].refcount - 1 # 0
    BY DEF WatchedFd
  <1>2. Unwatch(w, i) = [w EXCEPT ![i].refcount = w[i].refcount - 1]
    BY <1>1 DEF Unwatch
  <1> DEFINE e == [w[i] EXCEPT !.refcount = w[i].refcount - 1]
  <1>3. /\ e \in WatchedFd
        /\ e.fd = w[i].fd
        /\ e.refcount <= 0
    <2> DEFINE r == w[i]
    <2> HIDE DEF e
    <2>1. r \in [fd : Fds, refcount : Int] /\ r.refcount <= 0
      <3>1. w[i] \in WatchedFd /\ w[i].refcount <= 0
        OBVIOUS
      <3> QED
        BY <3>1 DEF WatchedFd
    <2> USE DEF e
    <2>2. e = [r EXCEPT !.refcount = r.refcount - 1]
      OBVIOUS
    <2> HIDE DEF r
    <2>3. e \in [fd : Fds, refcount : Int] /\ e.fd = r.fd /\ e.refcount = r.refcount - 1
      BY <2>1, <2>2
    <2> QED
      BY <2>1, <2>3 DEF r, WatchedFd
  <1>4. Unwatch(w, i) = [w EXCEPT ![i] = e]
    BY <1>2
  <1> HIDE DEF e
  <1> QED
    BY <1>3, <1>4

\* Where a call goes that waits for its transfer, or returns.
LEMMA AwaitType ==
  ASSUME Inv, NEW t \in Threads, NEW c \in {"none", "run", "wait", "bulk"},
         NEW tr \in Transfers \cup {NoTran}, AwaitInactive(t, c, tr)
  PROVE  /\ client' \in [Transfers -> ClientState]
         /\ pc' \in [Threads -> PC]
         /\ call' \in [Threads -> {"none", "run", "wait", "bulk"}]
         /\ arg' \in [Threads -> Transfers \cup {NoTran}]
  <1>1. CASE Return(t, c, tr)
    <2>1. client' \in [Transfers -> ClientState]
      BY <1>1 DEF Inv, TypeOK, Return, Released, ClientState
    <2> QED
      BY <1>1, <2>1 DEF Inv, TypeOK, Return, Goto, PC
  <1>2. CASE ~Return(t, c, tr)
    BY <1>2 DEF Inv, TypeOK, AwaitInactive, Goto, PC
  <1> QED
    BY <1>1, <1>2

\* Leaving the loop.
LEMMA LeaveLoopInv ==
  ASSUME Inv, NEW t \in Threads, NEW c \in {"none", "run", "wait", "bulk"},
         NEW tr \in Transfers \cup {NoTran},
         reaping[t] = NoTran, LeaveLoop(t, c, tr),
         UNCHANGED <<loop_enabled, watched, capacity, mutex, kernelVars,
                     active, calls, sub, reaping, pin, crash>>
  PROVE  Inv'
  <1>1. /\ client' \in [Transfers -> ClientState]
        /\ pc' \in [Threads -> PC]
        /\ call' \in [Threads -> {"none", "run", "wait", "bulk"}]
        /\ arg' \in [Threads -> Transfers \cup {NoTran}]
    BY AwaitType DEF LeaveLoop
  <1>2. pollfds' \in [Threads -> Seq(Fds)]
    <2>1. <<>> \in Seq(Fds)
      OBVIOUS
    <2> QED
      BY <2>1 DEF Inv, TypeOK, LeaveLoop
  <1>3. ready' \in [Threads -> SUBSET (Nat \ {0})]
    <2>1. {} \in SUBSET (Nat \ {0})
      OBVIOUS
    <2> QED
      BY <2>1 DEF Inv, TypeOK, LeaveLoop
  <1>4. loop_locked' \in BOOLEAN
    BY DEF LeaveLoop
  <1>5. TypeOK'
    BY <1>1, <1>2, <1>3, <1>4 DEF Inv, TypeOK, kernelVars
  <1>6. Located'
    BY DEF Inv, TypeOK, Located, LeaveLoop, AwaitInactive, Return, Goto
  <1>7. Prefix'
    BY DEF Inv, TypeOK, Prefix, LeaveLoop
  <1> QED
    BY <1>5, <1>6, <1>7 DEF Inv

\* Leaving the loop or polling again, whoever does it.
LEMMA IterateInv ==
  ASSUME Inv, NEW t \in Threads, NEW c \in {"none", "run", "wait", "bulk"},
         NEW tr \in Transfers \cup {NoTran},
         reaping[t] = NoTran, Iterate(t, c, tr)
  PROVE  Inv'
  <1> USE DEF kernelVars, Iterate
  <1>1. CASE StartPoll(t, c, tr)
    <2>1. WatchedFds \in Seq(Fds) /\ Len(WatchedFds) = Len(watched)
      <3> DEFINE n == Len(watched)
      <3>1. n \in Nat /\ \A i \in 1 .. n : watched[i].fd \in Fds
        <4>1. n \in Nat /\ \A i \in 1 .. n : watched[i] \in WatchedFd
          BY DEF Inv, TypeOK
        <4> QED
          BY <4>1 DEF WatchedFd
      <3>2. WatchedFds = [i \in 1 .. n |-> watched[i].fd]
        BY DEF WatchedFds
      <3> HIDE DEF n
      <3>3. WatchedFds \in [1 .. n -> Fds]
        BY <3>1, <3>2
      <3> QED
        BY <3>1, <3>3 DEF n
    <2>2. \A i \in DOMAIN WatchedFds : WatchedFds[i] = watched[i].fd
      BY DEF WatchedFds
    <2>3. TypeOK'
      BY <1>1, <2>1 DEF Inv, TypeOK, StartPoll, Goto, PC
    <2>4. Located'
      BY <1>1 DEF Inv, TypeOK, Located, StartPoll, Goto
    <2>5. Prefix'
      BY <1>1, <2>1, <2>2 DEF Inv, TypeOK, Prefix, StartPoll, Goto
    <2> QED
      BY <2>3, <2>4, <2>5 DEF Inv
  <1>2. CASE LeaveLoop(t, c, tr)
    BY <1>2, LeaveLoopInv
  <1> QED
    BY <1>1, <1>2

\* Waiting on ctx_cond for the leader to go.
LEMMA WaitForLoopInv ==
  ASSUME Inv, NEW t \in Threads, WaitForLoop(t), reaping[t] = NoTran
  PROVE  Inv'
  <1>1. TypeOK'
    BY DEF Inv, TypeOK, WaitForLoop, Goto, PC, ctxVars, kernelVars, tranVars, pollVars, threadVars
  <1>2. Located'
    BY DEF Inv, TypeOK, Located, WaitForLoop, Goto, PC, ctxVars, kernelVars, tranVars, pollVars, threadVars
  <1>3. Prefix'
    BY DEF Inv, TypeOK, Prefix, WaitForLoop, Goto, PC, ctxVars, kernelVars, tranVars, pollVars, threadVars
  <1> QED
    BY <1>1, <1>2, <1>3 DEF Inv

\* Waiting on tran->cond, or returning.
LEMMA AwaitInv ==
  ASSUME Inv, NEW t \in Threads, NEW c \in {"none", "run", "wait", "bulk"},
         NEW tr \in Transfers \cup {NoTran},
         reaping[t] = NoTran, AwaitInactive(t, c, tr),
         UNCHANGED <<ctxVars, kernelVars, active, calls, sub, pollVars, crash>>
  PROVE  Inv'
  <1>1. TypeOK'
    BY AwaitType DEF Inv, TypeOK, ctxVars, kernelVars, pollVars
  <1>2. Located'
    BY DEF Inv, TypeOK, Located, AwaitInactive, Return, Goto, pollVars
  <1>3. Prefix'
    BY DEF Inv, TypeOK, Prefix, ctxVars, pollVars
  <1> QED
    BY <1>1, <1>2, <1>3 DEF Inv

\* Waiting for a transfer, with or without taking the lead.
LEMMA WaitForTransferInv ==
  ASSUME Inv, NEW t \in Threads, NEW c \in {"none", "run", "wait", "bulk"},
         NEW tr \in Transfers \cup {NoTran},
         reaping[t] = NoTran, WaitForTransfer(t, c, tr)
  PROVE  Inv'
  <1>1. CASE ~loop_locked /\ Iterate(t, c, tr)
    BY <1>1, IterateInv
  <1>2. CASE /\ loop_locked
             /\ AwaitInactive(t, c, tr)
             /\ UNCHANGED <<ctxVars, kernelVars, active, calls, sub, pollVars, crash>>
    BY <1>2, AwaitInv
  <1> QED
    BY <1>1, <1>2 DEF WaitForTransfer

\* A signalled or spurious return from pthread_cond_wait.
LEMMA SpuriousWakeInv ==
  ASSUME Inv, NEW t \in Threads, SpuriousWake(t)
  PROVE  Inv'
  <1>1. TypeOK'
    BY DEF Inv, TypeOK, SpuriousWake, Goto, PC, ctxVars, kernelVars, tranVars, pollVars, threadVars
  <1>2. Located'
    BY DEF Inv, TypeOK, Located, SpuriousWake, Goto, PC, ctxVars, kernelVars, tranVars, pollVars, threadVars
  <1>3. Prefix'
    BY DEF Inv, TypeOK, Prefix, SpuriousWake, Goto, PC, ctxVars, kernelVars, tranVars, pollVars, threadVars
  <1> QED
    BY <1>1, <1>2, <1>3 DEF Inv

\* poll() returns with some of the descriptors it was given.
LEMMA PollReturnInv ==
  ASSUME Inv, NEW t \in Threads, PollReturn(t)
  PROVE  Inv'
  <1>1. TypeOK'
    BY DEF Inv, TypeOK, PollReturn, Goto, PC, ctxVars, kernelVars, tranVars, pollVars, threadVars
  <1>2. Located'
    BY DEF Inv, TypeOK, Located, PollReturn, Goto, PC, ctxVars, kernelVars, tranVars, pollVars, threadVars
  <1>3. Prefix'
    BY DEF Inv, TypeOK, Prefix, PollReturn, Goto, PC, ctxVars, kernelVars, tranVars, pollVars, threadVars
  <1> QED
    BY <1>1, <1>2, <1>3 DEF Inv

\* poll() fails.
LEMMA PollErrorInv ==
  ASSUME Inv, NEW t \in Threads, PollError(t)
  PROVE  Inv'
  <1>1. TypeOK'
    BY DEF Inv, TypeOK, PollError, Goto, PC, ctxVars, kernelVars, tranVars, pollVars, threadVars
  <1>2. Located'
    BY DEF Inv, TypeOK, Located, PollError, Goto, PC, ctxVars, kernelVars, tranVars, pollVars, threadVars
  <1>3. Prefix'
    BY DEF Inv, TypeOK, Prefix, PollError, Goto, PC, ctxVars, kernelVars, tranVars, pollVars, threadVars
  <1> QED
    BY <1>1, <1>2, <1>3 DEF Inv

\* Nothing to reap.
LEMMA ReapNothingInv ==
  ASSUME Inv, NEW t \in Threads, ReapNothing(t)
  PROVE  Inv'
  <1>1. TypeOK'
    BY DEF Inv, TypeOK, ReapNothing, ctxVars, kernelVars, tranVars, pollVars, threadVars
  <1>2. Located'
    BY DEF Inv, TypeOK, Located, ReapNothing, ctxVars, kernelVars, tranVars, pollVars, threadVars
  <1>3. Prefix'
    BY DEF Inv, TypeOK, Prefix, ReapNothing, ctxVars, kernelVars, tranVars, pollVars, threadVars
  <1> QED
    BY <1>1, <1>2, <1>3 DEF Inv

\* A URB is reaped.
LEMMA ReapInv ==
  ASSUME Inv, NEW t \in Threads, Reap(t)
  PROVE  Inv'
  <1>1. PICK i \in ready[t] :
          /\ completed[pollfds[t][i]] # <<>>
          /\ completed' = [completed EXCEPT ![pollfds[t][i]] = Tail(@)]
          /\ reaping' = [reaping EXCEPT ![t] = Head(completed[pollfds[t][i]])]
          /\ crash' = (client[Head(completed[pollfds[t][i]])] = "free")
    BY DEF Reap
  <1>2. pollfds[t][i] \in Fds
    BY DEF Inv, TypeOK, Prefix
  <1>3. /\ Head(completed[pollfds[t][i]]) \in Transfers
        /\ Tail(completed[pollfds[t][i]]) \in Seq(Transfers)
    BY <1>1, <1>2 DEF Inv, TypeOK
  <1>4. TypeOK'
    <2>1. completed' \in [Fds -> Seq(Transfers)]
      BY <1>1, <1>2, <1>3 DEF Inv, TypeOK
    <2>2. reaping' \in [Threads -> Transfers \cup {NoTran}]
      BY <1>1, <1>3 DEF Inv, TypeOK
    <2>3. pc' \in [Threads -> PC]
      BY DEF Inv, TypeOK, Reap, Goto, PC
    <2>4. crash' \in BOOLEAN
      BY <1>1
    <2> QED
      BY <2>1, <2>2, <2>3, <2>4 DEF Inv, TypeOK, Reap, ctxVars, tranVars
  <1>5. Located'
    BY <1>1, <1>3, ConstantsAssumption
       DEF Inv, TypeOK, Located, Reap, Goto, ConstantsAssumption
  <1>6. Prefix'
    BY DEF Inv, TypeOK, Prefix, Reap, Goto, ctxVars
  <1> QED
    BY <1>4, <1>5, <1>6 DEF Inv

\* The wake-up pipe is read.
LEMMA DrainInv ==
  ASSUME Inv, NEW t \in Threads, Drain(t)
  PROVE  Inv'
  <1>1. TypeOK'
    <2>1. pipe' \in 0 .. PipeCap
      BY ConstantsAssumption DEF Inv, TypeOK, Drain, ConstantsAssumption
    <2>2. pc' \in [Threads -> PC]
      BY DEF Inv, TypeOK, Drain, Goto, PC
    <2> QED
      BY <2>1, <2>2 DEF Inv, TypeOK, Drain, ctxVars, tranVars, pollVars
  <1>2. Located'
    BY DEF Inv, TypeOK, Located, Drain, Goto, PC, ctxVars, kernelVars, tranVars, pollVars, threadVars
  <1>3. Prefix'
    BY DEF Inv, TypeOK, Prefix, Drain, Goto, PC, ctxVars, kernelVars, tranVars, pollVars, threadVars
  <1> QED
    BY <1>1, <1>2, <1>3 DEF Inv

\* The tail of the reaping code, for a thread at the code after the callback.
LEMMA FinishUrbInv ==
  ASSUME Inv, NEW t \in Threads, NEW a \in 0 .. 2, reaping[t] # NoTran,
         FinishUrb(t, reaping[t], a),
         UNCHANGED <<loop_enabled, loop_locked, capacity, mutex, kernelVars,
                     client, calls, call, arg, sub, pollfds, pin>>
  PROVE  Inv'
  <1> DEFINE tr == reaping[t]
  <1>1. tr \in Transfers
    BY DEF Inv, TypeOK
  <1>2. PICK i \in ready[t] :
          /\ watched' = Unwatch(watched, i)
          /\ ready' = [ready EXCEPT ![t] = @ \ {i}]
    BY DEF FinishUrb
  <1>3. watched \in Seq(WatchedFd) /\ i \in DOMAIN watched
    BY DEF Inv, TypeOK, Prefix
  <1>4. /\ watched' \in Seq(WatchedFd)
        /\ Len(watched') = Len(watched)
        /\ \A j \in DOMAIN watched : watched'[j].fd = watched[j].fd
        /\ \A j \in DOMAIN watched : watched'[j].refcount <= 0
    BY <1>2, <1>3, UnwatchLemma DEF Inv, Prefix
  <1>5. active' \in [Transfers -> 0 .. 2]
    BY <1>1 DEF Inv, TypeOK, FinishUrb, AfterCallback
  <1>6. /\ pc' \in [Threads -> PC]
        /\ pc'[t] = "scan"
        /\ \A u \in Threads \ {t} :
             pc'[u] = pc[u] \/ (pc[u] = "tranwait" /\ pc'[u] = "tranwoken")
    <2>1. CASE WakeWaiters(t, "scan", tr)
      <3>1. pc' \in [Threads -> PC]
        BY <2>1 DEF Inv, TypeOK, WakeWaiters, PC
      <3> QED
        BY <2>1, <3>1 DEF WakeWaiters
    <2>2. CASE Goto(t, "scan")
      <3>1. pc' \in [Threads -> PC]
        BY <2>2 DEF Inv, TypeOK, Goto, PC
      <3> QED
        BY <2>2, <3>1 DEF Inv, TypeOK, Goto
    <2> QED
      BY <2>1, <2>2 DEF FinishUrb
  <1>7. TypeOK'
    BY <1>2, <1>4, <1>5, <1>6 DEF Inv, TypeOK, FinishUrb, kernelVars
  <1>8. Located'
    <2>1. reaping' = [reaping EXCEPT ![t] = NoTran]
      BY DEF FinishUrb
    <2> QED
      BY <1>6, <2>1 DEF Inv, TypeOK, Located
  <1>9. Prefix'
    <2>1. DOMAIN watched' = DOMAIN watched
      BY <1>3, <1>4
    <2>2. ASSUME NEW u \in Threads
          PROVE  /\ Len(pollfds'[u]) <= Len(watched')
                 /\ \A j \in DOMAIN pollfds'[u] : pollfds'[u][j] = watched'[j].fd
                 /\ ready'[u] \subseteq DOMAIN pollfds'[u]
      <3>1. pollfds[u] \in Seq(Fds) /\ DOMAIN pollfds[u] \subseteq DOMAIN watched
        BY <1>3 DEF Inv, TypeOK, Prefix
      <3>2. ready'[u] \subseteq ready[u]
        BY <1>2 DEF Inv, TypeOK
      <3> QED
        BY <1>4, <3>1, <3>2 DEF Inv, Prefix
    <2> QED
      BY <1>4, <2>1, <2>2 DEF Prefix
  <1> QED
    BY <1>7, <1>8, <1>9 DEF Inv

\* A reaped transfer is delivered.
LEMMA DeliverInv ==
  ASSUME Inv, NEW t \in Threads, Deliver(t)
  PROVE  Inv'
  <1>1. pc[t] = "reaped" /\ reaping[t] # NoTran /\ reaping[t] \in Transfers
    BY DEF Deliver, Inv, TypeOK, Located
  <1>2. CASE client[reaping[t]] = "bulk"
    BY <1>1, <1>2, FinishUrbInv DEF Deliver
  <1>3. CASE client[reaping[t]] # "bulk"
    <2>a. /\ active' = [active EXCEPT ![reaping[t]] = 2]
          /\ client' = [client EXCEPT ![reaping[t]] = IF @ = "free" THEN @ ELSE "called"]
      BY <1>3 DEF Deliver
    <2>1. active' \in [Transfers -> 0 .. 2]
      <3>1. 2 \in 0 .. 2 /\ active \in [Transfers -> 0 .. 2]
        BY DEF Inv, TypeOK
      <3> QED
        BY <2>a, <3>1
    <2>2. client' \in [Transfers -> ClientState]
      BY <2>a DEF Inv, TypeOK, ClientState
    <2>3. pc' \in [Threads -> PC]
      BY <1>3 DEF Deliver, Inv, TypeOK, Goto, PC
    <2>4. TypeOK'
      BY <1>3, <2>1, <2>2, <2>3 DEF Deliver, Inv, TypeOK, kernelVars
    <2>5. Located'
      BY <1>1, <1>3 DEF Deliver, Inv, TypeOK, Located, Goto
    <2>6. Prefix'
      BY <1>3 DEF Deliver, Inv, TypeOK, Prefix
    <2> QED
      BY <2>4, <2>5, <2>6 DEF Inv
  <1> QED
    BY <1>2, <1>3

\* A callback returns.
LEMMA CallbackReturnsInv ==
  ASSUME Inv, NEW t \in Threads, CallbackReturns(t)
  PROVE  Inv'
  <1>1. reaping[t] # NoTran /\ active[reaping[t]] \in 0 .. 2
    BY DEF CallbackReturns, Inv, TypeOK, Located
  <1> QED
    BY <1>1, FinishUrbInv DEF CallbackReturns

\* A longer table still extends what the leader copied.
LEMMA ExtendPrefix ==
  ASSUME Inv, watched' \in Seq(WatchedFd), Len(watched) <= Len(watched'),
         \A i \in DOMAIN watched : watched'[i].fd = watched[i].fd,
         \A i \in DOMAIN watched' : watched'[i].refcount <= 0,
         UNCHANGED <<pollfds, ready>>
  PROVE  Prefix'
  <1>1. ASSUME NEW u \in Threads
        PROVE  /\ Len(pollfds[u]) <= Len(watched')
               /\ \A j \in DOMAIN pollfds[u] : pollfds[u][j] = watched'[j].fd
    <2>1. pollfds[u] \in Seq(Fds) /\ DOMAIN pollfds[u] \subseteq DOMAIN watched
      BY DEF Inv, TypeOK, Prefix
    <2>2. /\ Len(pollfds[u]) <= Len(watched)
          /\ \A j \in DOMAIN pollfds[u] : pollfds[u][j] = watched[j].fd
      BY DEF Inv, Prefix
    <2>3. Len(pollfds[u]) \in Nat /\ Len(watched) \in Nat /\ Len(watched') \in Nat
      BY <2>1 DEF Inv, TypeOK
    <2>4. \A j \in DOMAIN pollfds[u] : watched'[j].fd = watched[j].fd
      BY <2>1
    <2> QED
      BY <2>2, <2>3, <2>4
  <1> QED
    BY <1>1 DEF Inv, Prefix

\* A successful USBDEVFS_SUBMITURB.
LEMMA SubmitUrbInv ==
  ASSUME Inv, NEW t \in Threads, NEW tr \in Transfers,
         NEW c \in {"submit", "bulk"}, SubmitUrb(t, tr, c)
  PROVE  Inv'
  <1>1. FdOf[tr] \in Fds
    BY ConstantsAssumption DEF ConstantsAssumption
  <1>2. /\ watched' \in Seq(WatchedFd)
        /\ Len(watched) <= Len(watched')
        /\ \A i \in DOMAIN watched : watched'[i] = watched[i]
        /\ \A i \in DOMAIN watched' : watched'[i].refcount <= 0
    BY <1>1, WatchLemma DEF SubmitUrb
  <1>3. capacity' \in Nat /\ calls' \in 0 .. MaxCalls
    BY ConstantsAssumption DEF SubmitUrb, Submits, CapacityFor, GrowCapacity,
       Inv, TypeOK, ConstantsAssumption
  <1>4. /\ client' \in [Transfers -> ClientState]
        /\ active' \in [Transfers -> 0 .. 2]
        /\ inflight' \in [Transfers -> Nat]
    <2>1. client' \in [Transfers -> ClientState]
      BY DEF SubmitUrb, Inv, TypeOK, ClientState
    <2>2. active' \in [Transfers -> 0 .. 2]
      <3>1. active' = active \/ active' = [active EXCEPT ![tr] = 0]
        BY DEF SubmitUrb
      <3>2. 0 \in 0 .. 2 /\ active \in [Transfers -> 0 .. 2]
        BY DEF Inv, TypeOK
      <3> QED
        BY <3>1, <3>2
    <2>3. inflight' \in [Transfers -> Nat]
      BY DEF SubmitUrb, Inv, TypeOK
    <2> QED
      BY <2>1, <2>2, <2>3
  <1>5. /\ pc' \in [Threads -> PC]
        /\ call' \in [Threads -> {"none", "run", "wait", "bulk"}]
        /\ arg' \in [Threads -> Transfers \cup {NoTran}]
        /\ sub' \in [Threads -> Transfers \cup {NoTran}]
    BY DEF SubmitUrb, Inv, TypeOK, Goto, PC
  <1>6. TypeOK'
    BY <1>2, <1>3, <1>4, <1>5 DEF SubmitUrb, Inv, TypeOK, pollVars
  <1>7. Located'
    BY ConstantsAssumption
       DEF SubmitUrb, Submits, Ready, Goto, Inv, TypeOK, Located, pollVars, ConstantsAssumption
  <1>8. Prefix'
    BY <1>2, ExtendPrefix DEF SubmitUrb, pollVars
  <1> QED
    BY <1>6, <1>7, <1>8 DEF Inv

\* The rest of a submission.
LEMMA SubmitDoneInv ==
  ASSUME Inv, NEW t \in Threads, SubmitDone(t)
  PROVE  Inv'
  <1> USE DEF SubmitDone, pollVars
  <1>1. pipe' \in 0 .. PipeCap
    BY ConstantsAssumption DEF Inv, TypeOK, WakeByte, ConstantsAssumption
  <1>2. active' \in [Transfers -> 0 .. 2]
    <2>1. sub[t] \in Transfers
      BY DEF Inv, TypeOK, Located
    <2>2. ActiveAfterSubmit(sub[t]) \in 0 .. 2
      BY <2>1 DEF Inv, TypeOK, ActiveAfterSubmit
    <2> QED
      BY <2>2 DEF Inv, TypeOK
  <1>3. pc' \in [Threads -> PC] /\ sub' \in [Threads -> Transfers \cup {NoTran}]
    BY DEF Inv, TypeOK, Goto, Caller, PC
  <1>4. TypeOK'
    BY <1>1, <1>2, <1>3 DEF Inv, TypeOK
  <1>5. Located'
    BY DEF Inv, TypeOK, Located, Goto, Caller
  <1>6. Prefix'
    BY DEF Inv, Prefix
  <1> QED
    BY <1>4, <1>5, <1>6 DEF Inv

\* USBDEVFS_SUBMITURB fails.
LEMMA SubmitFailInv ==
  ASSUME Inv, NEW t \in Threads, NEW tr \in Transfers,
         NEW c \in {"submit", "bulk"}, SubmitFail(t, tr, c)
  PROVE  Inv'
  <1> USE DEF SubmitFail, kernelVars, threadVars, pollVars
  <1> DEFINE w == Watch(FdOf[tr])
  <1>1. FdOf[tr] \in Fds
    BY ConstantsAssumption DEF ConstantsAssumption
  <1>2. /\ w \in Seq(WatchedFd)
        /\ Len(watched) <= Len(w)
        /\ \A i \in DOMAIN watched : w[i] = watched[i]
        /\ \A i \in DOMAIN w : w[i].refcount <= 0
    BY <1>1, WatchLemma
  <1>3. PICK i \in 1 .. Len(w) : watched' = Unwatch(w, i)
    OBVIOUS
  <1> HIDE DEF w
  <1>4. /\ watched' \in Seq(WatchedFd)
        /\ Len(watched') = Len(w)
        /\ \A j \in DOMAIN w : watched'[j].fd = w[j].fd
        /\ \A j \in DOMAIN w : watched'[j].refcount <= 0
    BY <1>2, <1>3, UnwatchLemma
  <1>5. capacity' \in Nat /\ calls' \in 0 .. MaxCalls
    BY ConstantsAssumption DEF Submits, CapacityFor, GrowCapacity,
       Inv, TypeOK, ConstantsAssumption
  <1>6. TypeOK'
    BY <1>4, <1>5 DEF Inv, TypeOK
  <1>7. Located'
    BY DEF Inv, Located
  <1>8. Prefix'
    <2>1. /\ Len(watched) <= Len(watched')
          /\ \A j \in DOMAIN watched' : watched'[j].refcount <= 0
      BY <1>2, <1>4
    <2>2. \A j \in DOMAIN watched : watched'[j].fd = watched[j].fd
      <3>1. watched \in Seq(WatchedFd)
        BY DEF Inv, TypeOK
      <3> QED
        BY <1>2, <1>4, <3>1
    <2> QED
      BY <1>4, <2>1, <2>2, ExtendPrefix
  <1> QED
    BY <1>6, <1>7, <1>8 DEF Inv

\* realloc fails.
LEMMA SubmitNoMemInv ==
  ASSUME Inv, NEW t \in Threads, NEW tr \in Transfers,
         NEW c \in {"submit", "bulk"}, SubmitNoMem(t, tr, c)
  PROVE  Inv'
  <1> USE DEF SubmitNoMem, kernelVars, threadVars, pollVars
  <1>1. capacity' \in Nat /\ calls' \in 0 .. MaxCalls
    BY ConstantsAssumption DEF Submits, CapacityFor, GrowCapacity,
       Inv, TypeOK, ConstantsAssumption
  <1> QED
    BY <1>1 DEF Inv, TypeOK, Located, Prefix

\* The end of usbyb_stop_event_loop.
LEMMA StopDoneInv ==
  ASSUME Inv, NEW t \in Threads, StopDone(t)
  PROVE  Inv'
  <1> USE DEF StopDone, tranVars, pollVars
  <1>1. pipe' \in 0 .. PipeCap
    BY ConstantsAssumption DEF Inv, TypeOK, WakeByte, ConstantsAssumption
  <1>2. pc' \in [Threads -> PC]
    BY DEF Inv, TypeOK, Caller, PC
  <1>3. TypeOK'
    BY <1>1, <1>2 DEF Inv, TypeOK
  <1>4. Located'
    BY DEF Inv, TypeOK, Located, Caller
  <1>5. Prefix'
    BY DEF Inv, Prefix
  <1> QED
    BY <1>3, <1>4, <1>5 DEF Inv

\* A finished URB, of whatever transfer.
LEMMA UrbDoneInv ==
  ASSUME Inv, NEW tr \in Transfers, UrbDone(tr)
  PROVE  Inv'
  <1> USE DEF UrbDone, ctxVars, tranVars, threadVars, pollVars
  <1>1. inflight' \in [Transfers -> Nat]
    BY DEF Inv, TypeOK
  <1>2. completed' \in [Fds -> Seq(Transfers)]
    <2>1. FdOf[tr] \in Fds
      BY ConstantsAssumption DEF ConstantsAssumption
    <2>2. Append(completed[FdOf[tr]], tr) \in Seq(Transfers)
      BY <2>1 DEF Inv, TypeOK
    <2> QED
      BY <2>1, <2>2 DEF Inv, TypeOK
  <1> QED
    BY <1>1, <1>2 DEF Inv, TypeOK, Located, Prefix

\* usbyb_stop_event_loop up to the write.
LEMMA StopEventLoopInv ==
  ASSUME Inv, NEW t \in Threads, StopEventLoop(t)
  PROVE  Inv'
  <1> USE DEF StopEventLoop, Goto, Ready, ctxVars, kernelVars, tranVars, pollVars, threadVars
  <1>1. TypeOK'
    <2>1. calls' \in 0 .. MaxCalls
      BY ConstantsAssumption DEF Inv, TypeOK, ConstantsAssumption
    <2>2. pc' \in [Threads -> PC]
      BY DEF Inv, TypeOK, PC
    <2> QED
      BY <2>1, <2>2 DEF Inv, TypeOK
  <1>2. Located'
    BY DEF Inv, TypeOK, Located
  <1>3. Prefix'
    BY DEF Inv, TypeOK, Prefix
  <1> QED
    BY <1>1, <1>2, <1>3 DEF Inv

\* usbyb_reset_event_loop.
LEMMA ResetEventLoopInv ==
  ASSUME Inv, NEW t \in Threads, ResetEventLoop(t)
  PROVE  Inv'
  <1> USE DEF ResetEventLoop, ctxVars, kernelVars, tranVars, pollVars, threadVars
  <1>1. TypeOK'
    BY ConstantsAssumption DEF Inv, TypeOK, PC, ClientState, ConstantsAssumption
  <1>2. Located'
    BY DEF Inv, TypeOK, Located
  <1>3. Prefix'
    BY DEF Inv, TypeOK, Prefix
  <1> QED
    BY <1>1, <1>2, <1>3 DEF Inv

\* A transfer is allocated.
LEMMA AllocTransferInv ==
  ASSUME Inv, NEW t \in Threads, NEW tr \in Transfers, AllocTransfer(t, tr)
  PROVE  Inv'
  <1> USE DEF AllocTransfer, ctxVars, kernelVars, tranVars, pollVars, threadVars
  <1>1. TypeOK'
    BY ConstantsAssumption DEF Inv, TypeOK, PC, ClientState, ConstantsAssumption
  <1>2. Located'
    BY DEF Inv, TypeOK, Located
  <1>3. Prefix'
    BY DEF Inv, TypeOK, Prefix
  <1> QED
    BY <1>1, <1>2, <1>3 DEF Inv

\* A transfer is freed.
LEMMA FreeTransferInv ==
  ASSUME Inv, NEW t \in Threads, NEW tr \in Transfers, FreeTransfer(t, tr)
  PROVE  Inv'
  <1> USE DEF FreeTransfer, ctxVars, kernelVars, tranVars, pollVars, threadVars
  <1>1. TypeOK'
    BY ConstantsAssumption DEF Inv, TypeOK, PC, ClientState, ConstantsAssumption
  <1>2. Located'
    BY DEF Inv, TypeOK, Located
  <1>3. Prefix'
    BY DEF Inv, TypeOK, Prefix
  <1> QED
    BY <1>1, <1>2, <1>3 DEF Inv

\* A handle is opened.
LEMMA OpenHandleInv ==
  ASSUME Inv, NEW t \in Threads, NEW fd \in Fds, OpenHandle(t, fd)
  PROVE  Inv'
  <1> USE DEF OpenHandle, ctxVars, kernelVars, tranVars, pollVars, threadVars
  <1>1. TypeOK'
    BY ConstantsAssumption DEF Inv, TypeOK, PC, ClientState, ConstantsAssumption
  <1>2. Located'
    BY DEF Inv, TypeOK, Located
  <1>3. Prefix'
    BY DEF Inv, TypeOK, Prefix
  <1> QED
    BY <1>1, <1>2, <1>3 DEF Inv

\* A handle is closed.
LEMMA CloseHandleInv ==
  ASSUME Inv, NEW t \in Threads, NEW fd \in Fds, CloseHandle(t, fd)
  PROVE  Inv'
  <1> USE DEF CloseHandle, ctxVars, kernelVars, tranVars, pollVars, threadVars
  <1>1. TypeOK'
    BY ConstantsAssumption DEF Inv, TypeOK, PC, ClientState, ConstantsAssumption
  <1>2. Located'
    BY DEF Inv, TypeOK, Located
  <1>3. Prefix'
    BY DEF Inv, TypeOK, Prefix
  <1> QED
    BY <1>1, <1>2, <1>3 DEF Inv

-----------------------------------------------------------------------------
(* Type correctness and the stability of the table's indices.              *)

\* Steps inside a call.
LEMMA LibraryStepInv ==
  ASSUME Inv, NEW t \in Threads, LibraryStep(t)
  PROVE  Inv'
  <1>1. /\ call[t] \in {"none", "run", "wait", "bulk"}
        /\ arg[t] \in Transfers \cup {NoTran}
        /\ NoTran \in Transfers \cup {NoTran}
    BY DEF Inv, TypeOK
  <1>2. pc[t] \in {"wait", "ctxwoken", "tranwoken", "relock", "failed"} => reaping[t] = NoTran
    BY DEF Inv, Located
  <1>3. CASE SubmitDone(t)
    BY <1>3, SubmitDoneInv
  <1>4. CASE StopDone(t)
    BY <1>4, StopDoneInv
  <1>5. CASE BulkWait(t)
    BY <1>1, <1>2, <1>5, WaitForTransferInv DEF BulkWait
  <1>6. CASE RetryEventLoop(t)
    BY <1>1, <1>2, <1>6, WaitForLoopInv, IterateInv DEF RetryEventLoop
  <1>7. CASE RetryWait(t)
    BY <1>1, <1>2, <1>7, AwaitInv DEF RetryWait
  <1>8. CASE PollReturn(t)
    BY <1>8, PollReturnInv
  <1>9. CASE ReapNothing(t)
    BY <1>9, ReapNothingInv
  <1>10. CASE Reap(t)
    BY <1>10, ReapInv
  <1>11. CASE Deliver(t)
    BY <1>11, DeliverInv
  <1>12. CASE CallbackReturns(t)
    BY <1>12, CallbackReturnsInv
  <1>13. CASE Drain(t)
    BY <1>13, DrainInv
  <1>14. CASE Relock(t)
    BY <1>1, <1>2, <1>14, IterateInv DEF Relock
  <1>15. CASE LeaveOnError(t)
    BY <1>1, <1>2, <1>15, LeaveLoopInv DEF LeaveOnError
  <1> QED
    BY <1>3, <1>4, <1>5, <1>6, <1>7, <1>8, <1>9, <1>10, <1>11, <1>12, <1>13,
       <1>14, <1>15 DEF LibraryStep

\* Calls of the application.
LEMMA ClientStepInv ==
  ASSUME Inv, NEW t \in Threads, ClientStep(t)
  PROVE  Inv'
  <1>1. pc[t] = "idle" => reaping[t] = NoTran
    BY DEF Inv, Located
  <1>2. CASE RunEventLoop(t)
    <2>1. NoTran \in Transfers \cup {NoTran}
      OBVIOUS
    <2> QED
      BY <1>1, <1>2, <2>1, WaitForLoopInv, IterateInv DEF RunEventLoop
  <1>3. CASE StopEventLoop(t)
    BY <1>3, StopEventLoopInv
  <1>4. CASE ResetEventLoop(t)
    BY <1>4, ResetEventLoopInv
  <1>5. ASSUME NEW tr \in Transfers, ClientWait(t, tr) PROVE Inv'
    BY <1>1, <1>5, WaitForTransferInv DEF ClientWait
  <1>6. ASSUME NEW tr \in Transfers, NEW c \in {"submit", "bulk"},
               SubmitUrb(t, tr, c) \/ SubmitFail(t, tr, c) \/ SubmitNoMem(t, tr, c)
        PROVE  Inv'
    BY <1>6, SubmitUrbInv, SubmitFailInv, SubmitNoMemInv
  <1>7. ASSUME NEW tr \in Transfers, CancelTransfer(t, tr) PROVE Inv'
    BY <1>7, UrbDoneInv DEF CancelTransfer
  <1>8. ASSUME NEW tr \in Transfers, AllocTransfer(t, tr) \/ FreeTransfer(t, tr)
        PROVE  Inv'
    BY <1>8, AllocTransferInv, FreeTransferInv
  <1>9. ASSUME NEW fd \in Fds, OpenHandle(t, fd) \/ CloseHandle(t, fd)
        PROVE  Inv'
    BY <1>9, OpenHandleInv, CloseHandleInv
  <1> QED
    BY <1>2, <1>3, <1>4, <1>5, <1>6, <1>7, <1>8, <1>9 DEF ClientStep

LEMMA StepInv == Inv /\ [Next]_vars => Inv'
  <1> SUFFICES ASSUME Inv, [Next]_vars PROVE Inv'
    OBVIOUS
  <1>1. CASE UNCHANGED vars
    BY <1>1 DEF Inv, TypeOK, Located, Prefix, vars, ctxVars, kernelVars,
       tranVars, threadVars, pollVars
  <1>2. ASSUME NEW t \in Threads, ClientStep(t) \/ LibraryStep(t) \/ Disturbance(t)
        PROVE  Inv'
    BY <1>2, ClientStepInv, LibraryStepInv, SpuriousWakeInv, PollErrorInv DEF Disturbance
  <1>3. ASSUME NEW tr \in Transfers, Complete(tr) PROVE Inv'
    BY <1>3, UrbDoneInv DEF Complete
  <1> QED
    BY <1>1, <1>2, <1>3 DEF Next

\* The state of the transfer engine stays within its types: no submit, stop,
\* completion or callback of usbyb_submit_transfer and
\* usbfs_run_event_loop_impl leaves it in a state the code does not know.
THEOREM TypeCorrect == Spec => []TypeOK
  <1>1. Inv => TypeOK
    BY DEF Inv
  <1> QED
    BY <1>1, InitInv, StepInv, PTL DEF Spec

\* usbfs_unwatch_fd is always called with the index of the descriptor that
\* was polled, although submissions change the table while the leader is in
\* poll, reaps, or runs a callback without the mutex.
THEOREM IndicesStayValid == Spec => []IndexStaysValid
  <1>1. Inv => IndexStaysValid
    <2> SUFFICES ASSUME Inv, NEW t \in Threads, NEW i \in ready[t]
                 PROVE  i <= Len(watched) /\ pollfds[t][i] = watched[i].fd
      BY DEF IndexStaysValid
    <2>1. /\ pollfds[t] \in Seq(Fds) /\ watched \in Seq(WatchedFd)
          /\ i \in DOMAIN pollfds[t]
          /\ Len(pollfds[t]) <= Len(watched)
          /\ pollfds[t][i] = watched[i].fd
      BY DEF Inv, TypeOK, Prefix
    <2> QED
      BY <2>1
  <1> QED
    BY <1>1, InitInv, StepInv, PTL DEF Spec

-----------------------------------------------------------------------------
(* There is one leader.                                                    *)

\* What loop_locked stands for: as long as the loop is enabled it is set
\* whenever a thread leads.  A thread that enters a disabled loop clears it
\* under the leader's feet, which is why the condition is needed.
Led ==
  /\ OneLeader
  /\ \A t \in Threads : Leading(t) /\ loop_enabled => loop_locked

\* A step that makes nobody a leader and does not touch loop_locked.
LEMMA SameLeaderLed ==
  ASSUME Led, \A t \in Threads : Leading(t)' => Leading(t),
         loop_locked' = loop_locked, loop_enabled' => loop_enabled
  PROVE  Led'
  BY DEF Led, OneLeader

\* A thread outside the loop becomes no leader by waiting or returning.
LEMMA AwaitLed ==
  ASSUME Inv, NEW t \in Threads, NEW c \in {"none", "run", "wait", "bulk"},
         NEW tr \in Transfers \cup {NoTran}, AwaitInactive(t, c, tr),
         reaping[t] = NoTran, reaping' = reaping
  PROVE  /\ ~Leading(t)'
         /\ \A u \in Threads : Leading(u)' => Leading(u)
  BY DEF Inv, TypeOK, AwaitInactive, Return, Goto, Leading

\* One evaluation of the loop condition, by the leader or by a thread that
\* found no leader of an enabled loop.
LEMMA IterateLed ==
  ASSUME Inv, Led, NEW t \in Threads, NEW c \in {"none", "run", "wait", "bulk"},
         NEW tr \in Transfers \cup {NoTran}, Iterate(t, c, tr),
         reaping[t] = NoTran, loop_enabled /\ loop_locked => Leading(t)
  PROVE  Led'
  <1>1. loop_enabled => \A u \in Threads : Leading(u) => u = t
    BY DEF Led, OneLeader
  <1>2. CASE LoopCond(c, tr) /\ StartPoll(t, c, tr)
    <2>1. \A u \in Threads : Leading(u)' => u = t
      BY <1>1, <1>2 DEF LoopCond, StartPoll, Iterate, Goto, Leading, Inv, TypeOK
    <2> QED
      BY <1>2, <2>1 DEF StartPoll, Led, OneLeader
  <1>3. CASE LeaveLoop(t, c, tr)
    <2>1. /\ ~Leading(t)'
          /\ \A u \in Threads : Leading(u)' => Leading(u)
      BY <1>3, AwaitLed DEF LeaveLoop, Iterate
    <2> QED
      BY <1>1, <2>1 DEF Iterate, Led, OneLeader
  <1> QED
    BY <1>2, <1>3 DEF Iterate

LEMMA InitLed == Init => Led
  BY DEF Init, Led, OneLeader, Leading

\* A step of a thread inside the library.
LEMMA LibraryStepLed ==
  ASSUME Inv, Led, NEW t \in Threads, LibraryStep(t)
  PROVE  Led'
  <1>1. /\ call[t] \in {"none", "run", "wait", "bulk"}
        /\ arg[t] \in Transfers \cup {NoTran}
        /\ NoTran \in Transfers \cup {NoTran}
        /\ pc \in [Threads -> PC]
        /\ reaping \in [Threads -> Transfers \cup {NoTran}]
    BY DEF Inv, TypeOK
  <1>2. /\ pc[t] \in {"wait", "ctxwoken", "tranwoken", "relock", "failed"} => reaping[t] = NoTran
        /\ pc[t] \in {"reaped", "callback"} => reaping[t] # NoTran
        /\ pc[t] = "scan" => reaping[t] = NoTran
        /\ \A u \in Threads : pc[u] \in {"ctxwait", "tranwait"} => reaping[u] = NoTran
    BY DEF Inv, Located
  <1>3. CASE SubmitDone(t)
    BY <1>1, <1>3, SameLeaderLed DEF SubmitDone, Goto, Caller, Leading, pollVars
  <1>4. CASE StopDone(t)
    BY <1>1, <1>4, SameLeaderLed DEF StopDone, Caller, Leading, pollVars
  <1>5. CASE BulkWait(t)
    <2>1. CASE ~loop_locked /\ Iterate(t, "bulk", arg[t])
      BY <1>1, <1>2, <1>5, <2>1, IterateLed DEF BulkWait
    <2>2. CASE /\ AwaitInactive(t, "bulk", arg[t])
               /\ UNCHANGED <<ctxVars, kernelVars, active, calls, sub, pollVars, crash>>
      BY <1>1, <1>2, <1>5, <2>2, AwaitLed, SameLeaderLed DEF BulkWait, ctxVars, pollVars
    <2> QED
      BY <1>5, <2>1, <2>2 DEF BulkWait, WaitForTransfer
  <1>6. CASE RetryEventLoop(t)
    <2>1. CASE WaitForLoop(t)
      BY <1>1, <1>2, <1>6, <2>1, SameLeaderLed
         DEF RetryEventLoop, WaitForLoop, Goto, Leading, ctxVars, pollVars
    <2>2. CASE ~MustWaitForLoop /\ Iterate(t, "run", NoTran)
      BY <1>1, <1>2, <1>6, <2>2, IterateLed DEF RetryEventLoop, MustWaitForLoop
    <2> QED
      BY <1>6, <2>1, <2>2 DEF RetryEventLoop
  <1>7. CASE RetryWait(t)
    BY <1>1, <1>2, <1>7, AwaitLed, SameLeaderLed DEF RetryWait, ctxVars, pollVars
  <1>8. CASE PollReturn(t)
    BY <1>1, <1>8, SameLeaderLed DEF PollReturn, Goto, Leading, ctxVars
  <1>9. CASE ReapNothing(t)
    BY <1>9, SameLeaderLed DEF ReapNothing, Leading, ctxVars
  <1>10. CASE Reap(t)
    <2>1. \A u \in Threads : Leading(u)' => Leading(u)
      BY <1>1, <1>10 DEF Reap, Goto, Leading
    <2> QED
      BY <1>10, <2>1, SameLeaderLed DEF Reap, ctxVars
  <1>11. ASSUME NEW a \in 0 .. 2, FinishUrb(t, reaping[t], a), Leading(t)
         PROVE  \A u \in Threads : Leading(u)' => Leading(u)
    BY <1>1, <1>2, <1>11 DEF FinishUrb, WakeWaiters, Goto, Leading
  <1>12. CASE Deliver(t)
    <2>1. Leading(t)
      BY <1>12 DEF Deliver, Leading
    <2>2. CASE FinishUrb(t, reaping[t], 2)
      BY <1>11, <1>12, <2>1, <2>2, SameLeaderLed DEF Deliver
    <2>3. CASE Goto(t, "callback") /\ UNCHANGED reaping
      BY <1>1, <1>12, <2>1, <2>3, SameLeaderLed DEF Deliver, Goto, Leading
    <2> QED
      BY <1>12, <2>2, <2>3 DEF Deliver
  <1>13. CASE CallbackReturns(t)
    <2>1. Leading(t) /\ active[reaping[t]] \in 0 .. 2
      BY <1>1, <1>2, <1>13 DEF CallbackReturns, Leading, Inv, TypeOK
    <2> QED
      BY <1>11, <1>13, <2>1, SameLeaderLed DEF CallbackReturns
  <1>14. CASE Drain(t)
    BY <1>1, <1>14, SameLeaderLed DEF Drain, Goto, Leading, ctxVars, pollVars
  <1>15. CASE Relock(t)
    <2>1. Leading(t)
      BY <1>15 DEF Relock, Leading
    <2> QED
      BY <1>1, <1>2, <1>15, <2>1, IterateLed DEF Relock
  <1>16. CASE LeaveOnError(t)
    <2>1. Leading(t)
      BY <1>16 DEF LeaveOnError, Leading
    <2>2. /\ ~Leading(t)'
          /\ \A u \in Threads : Leading(u)' => Leading(u)
      BY <1>1, <1>2, <1>16, AwaitLed DEF LeaveOnError, LeaveLoop
    <2> QED
      BY <2>1, <2>2 DEF Led, OneLeader
  <1> QED
    BY <1>3, <1>4, <1>5, <1>6, <1>7, <1>8, <1>9, <1>10, <1>12, <1>13, <1>14,
       <1>15, <1>16 DEF LibraryStep

\* A call of the application that resets the loop only when nobody leads it.
LEMMA ClientStepLed ==
  ASSUME QuietReset, Inv, Led, NEW t \in Threads, ClientStep(t)
  PROVE  Led'
  <1>1. /\ NoTran \in Transfers \cup {NoTran}
        /\ pc \in [Threads -> PC]
        /\ pc[t] = "idle" => reaping[t] = NoTran
    BY DEF Inv, TypeOK, Located
  <1>2. CASE RunEventLoop(t)
    <2>1. CASE WaitForLoop(t)
      BY <1>1, <1>2, <2>1, SameLeaderLed
         DEF RunEventLoop, WaitForLoop, Goto, Leading, ctxVars, pollVars
    <2>2. CASE ~MustWaitForLoop /\ Iterate(t, "run", NoTran)
      BY <1>1, <1>2, <2>2, IterateLed DEF RunEventLoop, MustWaitForLoop
    <2> QED
      BY <1>2, <2>1, <2>2 DEF RunEventLoop
  <1>3. CASE StopEventLoop(t)
    BY <1>1, <1>3, SameLeaderLed DEF StopEventLoop, Goto, Leading, pollVars
  <1>4. CASE ResetEventLoop(t)
    BY <1>4 DEF ResetEventLoop, threadVars, pollVars, Led, OneLeader, Leading
  <1>5. ASSUME NEW tr \in Transfers, ClientWait(t, tr) PROVE Led'
    <2>1. CASE ~loop_locked /\ Iterate(t, "wait", tr)
      BY <1>1, <1>5, <2>1, IterateLed DEF ClientWait
    <2>2. CASE /\ AwaitInactive(t, "wait", tr)
               /\ UNCHANGED <<ctxVars, kernelVars, active, calls, sub, pollVars, crash>>
      BY <1>1, <1>5, <2>2, AwaitLed, SameLeaderLed DEF ClientWait, ctxVars, pollVars
    <2> QED
      BY <1>5, <2>1, <2>2 DEF ClientWait, WaitForTransfer
  <1>6. ASSUME NEW tr \in Transfers, NEW c \in {"submit", "bulk"}, SubmitUrb(t, tr, c)
        PROVE  Led'
    BY <1>1, <1>6, SameLeaderLed DEF SubmitUrb, Goto, Leading, pollVars
  <1>7. ASSUME NEW tr \in Transfers, NEW c \in {"submit", "bulk"},
               SubmitFail(t, tr, c) \/ SubmitNoMem(t, tr, c)
        PROVE  Led'
    BY <1>7, SameLeaderLed DEF SubmitFail, SubmitNoMem, Leading, threadVars, pollVars
  <1>8. ASSUME NEW tr \in Transfers,
               CancelTransfer(t, tr) \/ AllocTransfer(t, tr) \/ FreeTransfer(t, tr)
        PROVE  Led'
    BY <1>8, SameLeaderLed DEF CancelTransfer, UrbDone, AllocTransfer,
       FreeTransfer, Leading, ctxVars, threadVars, pollVars
  <1>9. ASSUME NEW fd \in Fds, OpenHandle(t, fd) \/ CloseHandle(t, fd)
        PROVE  Led'
    BY <1>9, SameLeaderLed DEF OpenHandle, CloseHandle, Leading, ctxVars, threadVars, pollVars
  <1> QED
    BY <1>2, <1>3, <1>4, <1>5, <1>6, <1>7, <1>8, <1>9 DEF ClientStep

LEMMA StepLed == QuietReset /\ Inv /\ Led /\ [Next]_vars => Led'
  <1> SUFFICES ASSUME QuietReset, Inv, Led, [Next]_vars PROVE Led'
    OBVIOUS
  <1>1. CASE UNCHANGED vars
    BY <1>1, SameLeaderLed DEF vars, ctxVars, threadVars, pollVars, Leading
  <1>2. ASSUME NEW t \in Threads, Disturbance(t) PROVE Led'
    BY <1>2, SameLeaderLed DEF Disturbance, SpuriousWake, PollError, Goto,
       Leading, ctxVars, pollVars, Inv, TypeOK
  <1>3. ASSUME NEW tr \in Transfers, Complete(tr) PROVE Led'
    BY <1>3, SameLeaderLed DEF Complete, UrbDone, Leading, ctxVars, threadVars, pollVars
  <1> QED
    BY <1>1, <1>2, <1>3, ClientStepLed, LibraryStepLed DEF Next

\* loop_locked does its job: for any number of threads the event loop has at
\* most one leader, provided usbyb_reset_event_loop is only called when no
\* thread leads it.
THEOREM LeaderIsUnique == QuietReset => (Spec => []OneLeader)
  <1> SUFFICES ASSUME QuietReset PROVE Spec => []OneLeader
    OBVIOUS
  <1>1. Inv /\ Led /\ [Next]_vars => Led'
    BY StepLed
  <1>2. Led => OneLeader
    BY DEF Led
  <1> QED
    BY <1>1, <1>2, InitInv, StepInv, InitLed, PTL DEF Spec


-----------------------------------------------------------------------------
(* A device with URBs stays in the table.                                  *)

\* A table that extends the old one watches what the old one watched.
LEMMA ExtendWatched ==
  ASSUME watched \in Seq(WatchedFd), watched' \in Seq(WatchedFd),
         Len(watched) <= Len(watched'),
         \A i \in DOMAIN watched : watched'[i].fd = watched[i].fd
  PROVE  \A fd : IsWatched(fd) => IsWatched(fd)'
  <1>1. \A i \in 1 .. Len(watched) : i \in DOMAIN watched /\ i \in 1 .. Len(watched')
    OBVIOUS
  <1> QED
    BY <1>1 DEF IsWatched

\* The table after a submission or its failure.
LEMMA SubmitWatches ==
  ASSUME Inv, NEW t \in Threads, NEW tr \in Transfers, NEW c \in {"submit", "bulk"},
         SubmitUrb(t, tr, c) \/ SubmitFail(t, tr, c)
  PROVE  /\ \A fd : IsWatched(fd) => IsWatched(fd)'
         /\ SubmitUrb(t, tr, c) => IsWatched(FdOf[tr])'
  <1> DEFINE w == Watch(FdOf[tr])
  <1>1. FdOf[tr] \in Fds /\ watched \in Seq(WatchedFd)
    BY ConstantsAssumption DEF ConstantsAssumption, Inv, TypeOK
  <1>2. /\ w \in Seq(WatchedFd)
        /\ Len(watched) <= Len(w)
        /\ \A i \in DOMAIN watched : w[i] = watched[i]
        /\ \A i \in DOMAIN w : w[i].refcount <= 0
    BY <1>1, WatchLemma
  <1>3. CASE SubmitUrb(t, tr, c)
    <2>1. watched' = w
      BY <1>3 DEF SubmitUrb
    <2>2. \E i \in 1 .. Len(w) : w[i].fd = FdOf[tr]
      <3>1. CASE IsWatched(FdOf[tr])
        BY <3>1 DEF Watch, IsWatched
      <3>2. CASE ~IsWatched(FdOf[tr])
        <4> DEFINE e == NewEntry(FdOf[tr])
        <4>1. w = Append(watched, e) /\ e.fd = FdOf[tr]
          BY <3>2 DEF Watch, NewEntry
        <4> HIDE DEF e, w
        <4>2. Len(watched) + 1 \in 1 .. Len(w) /\ w[Len(watched) + 1] = e
          BY <1>1, <4>1
        <4> QED
          BY <4>1, <4>2
      <3> QED
        BY <3>1, <3>2
    <2> HIDE DEF w
    <2>3. IsWatched(FdOf[tr])'
      BY <2>1, <2>2 DEF IsWatched
    <2> QED
      BY <1>1, <1>2, <2>1, <2>3, ExtendWatched
  <1>4. CASE SubmitFail(t, tr, c)
    <2>1. PICK i \in 1 .. Len(w) : watched' = Unwatch(w, i)
      BY <1>4 DEF SubmitFail
    <2> HIDE DEF w
    <2>2. /\ watched' \in Seq(WatchedFd)
          /\ Len(watched') = Len(w)
          /\ \A j \in DOMAIN w : watched'[j].fd = w[j].fd
      BY <1>2, <2>1, UnwatchLemma
    <2>3. \A j \in DOMAIN watched : j \in DOMAIN w
      BY <1>1, <1>2
    <2>4. \A fd : IsWatched(fd) => IsWatched(fd)'
      BY <1>1, <1>2, <2>2, <2>3, ExtendWatched
    <2>5. ~SubmitUrb(t, tr, c)
      <3>1. SubmitFail(t, tr, c) => pc' = pc
        BY DEF SubmitFail, threadVars
      <3>2. SubmitUrb(t, tr, c) => pc'[t] = "submit" /\ pc[t] # "submit"
        BY DEF SubmitUrb, Submits, Ready, Goto, Inv, TypeOK
      <3> QED
        BY <1>4, <3>1, <3>2
    <2> QED
      BY <2>4, <2>5
  <1> QED
    BY <1>3, <1>4

\* The table after a delivery.
LEMMA FinishWatches ==
  ASSUME Inv, NEW t \in Threads, NEW tr, NEW a, FinishUrb(t, tr, a)
  PROVE  \A fd : IsWatched(fd) => IsWatched(fd)'
  <1>1. PICK i \in ready[t] : watched' = Unwatch(watched, i)
    BY DEF FinishUrb
  <1>2. watched \in Seq(WatchedFd) /\ i \in DOMAIN watched
    BY DEF Inv, TypeOK, Prefix
  <1>3. /\ watched' \in Seq(WatchedFd)
        /\ Len(watched') = Len(watched)
        /\ \A j \in DOMAIN watched : watched'[j].fd = watched[j].fd
    BY <1>1, <1>2, UnwatchLemma DEF Inv, Prefix
  <1>4. Len(watched) <= Len(watched')
    BY <1>2, <1>3
  <1> QED
    BY <1>2, <1>3, <1>4, ExtendWatched

\* The steps that leave the table, and the URBs with the kernel, alone.
QuietStep(t) ==
  \/ RunEventLoop(t) \/ StopEventLoop(t) \/ ResetEventLoop(t)
  \/ \E tr \in Transfers :
       \/ ClientWait(t, tr) \/ AllocTransfer(t, tr) \/ FreeTransfer(t, tr)
       \/ \E c \in {"submit", "bulk"} : SubmitNoMem(t, tr, c)
  \/ \E fd \in Fds : OpenHandle(t, fd)
  \/ SubmitDone(t) \/ StopDone(t)
  \/ BulkWait(t) \/ RetryEventLoop(t) \/ RetryWait(t)
  \/ PollReturn(t) \/ ReapNothing(t) \/ Drain(t) \/ Relock(t) \/ LeaveOnError(t)
  \/ Disturbance(t)

LEMMA QuietKeeps ==
  ASSUME NEW t \in Threads, QuietStep(t)
  PROVE  UNCHANGED <<watched, inflight, completed>>
  BY DEF QuietStep, RunEventLoop, StopEventLoop, ResetEventLoop, ClientWait, AllocTransfer,
         FreeTransfer, SubmitNoMem, OpenHandle, SubmitDone, StopDone, BulkWait, RetryEventLoop,
         RetryWait, PollReturn, ReapNothing, Drain, Relock, LeaveOnError, Disturbance,
         SpuriousWake, PollError, WaitForTransfer, WaitForLoop, Iterate, ctxVars, kernelVars

\* All steps, sorted by what they do to URBs.
LEMMA StepKinds ==
  ASSUME [Next]_vars
  PROVE  \/ UNCHANGED vars
         \/ \E t \in Threads : QuietStep(t)
         \/ \E t \in Threads, tr \in Transfers, c \in {"submit", "bulk"} :
              SubmitUrb(t, tr, c) \/ SubmitFail(t, tr, c)
         \/ \E tr \in Transfers : UrbDone(tr)
         \/ \E t \in Threads, fd \in Fds : CloseHandle(t, fd)
         \/ \E t \in Threads : Reap(t) \/ Deliver(t) \/ CallbackReturns(t)
  BY DEF Next, ClientStep, LibraryStep, Complete, CancelTransfer, QuietStep

LEMMA WatchedStep ==
  ASSUME Inv, OutstandingIsWatched, [Next]_vars
  PROVE  OutstandingIsWatched'
  <1> DEFINE Busy(fd) == completed[fd] # <<>> \/ \E tr \in Transfers : FdOf[tr] = fd /\ inflight[tr] > 0
  <1>1. \A fd \in Fds : Busy(fd) => (\A tr \in Transfers : FdOf[tr] = fd => IsWatched(fd))
    BY DEF OutstandingIsWatched
  <1>2. \A tr \in Transfers : FdOf[tr] \in Fds
    BY ConstantsAssumption DEF ConstantsAssumption
  <1>3. ASSUME \A fd : IsWatched(fd) => IsWatched(fd)',
               \A fd \in Fds : Busy(fd)' => Busy(fd) \/ IsWatched(fd)'
        PROVE  OutstandingIsWatched'
    <2> SUFFICES ASSUME NEW tr \in Transfers, (inflight[tr] > 0 \/ completed[FdOf[tr]] # <<>>)'
                 PROVE  IsWatched(FdOf[tr])'
      BY DEF OutstandingIsWatched
    <2>1. Busy(FdOf[tr])'
      OBVIOUS
    <2> HIDE DEF Busy
    <2> QED
      BY <1>1, <1>2, <1>3, <2>1
  <1>4. ASSUME UNCHANGED <<watched, inflight, completed>>
        PROVE  OutstandingIsWatched'
    BY <1>4 DEF OutstandingIsWatched, IsWatched
  <1>5. CASE UNCHANGED vars
    BY <1>4, <1>5 DEF vars, ctxVars, kernelVars
  <1>6. ASSUME NEW t \in Threads, QuietStep(t)
        PROVE  OutstandingIsWatched'
    BY <1>4, <1>6, QuietKeeps
  <1>7. ASSUME NEW t \in Threads, NEW tr \in Transfers, NEW c \in {"submit", "bulk"},
               SubmitUrb(t, tr, c)
        PROVE  OutstandingIsWatched'
    <2>1. \A fd \in Fds : Busy(fd)' => Busy(fd) \/ fd = FdOf[tr]
      BY <1>7 DEF SubmitUrb, Inv, TypeOK
    <2> HIDE DEF Busy
    <2> QED
      BY <1>3, <1>7, <2>1, SubmitWatches
  <1>8. ASSUME NEW t \in Threads, NEW tr \in Transfers, NEW c \in {"submit", "bulk"},
               SubmitFail(t, tr, c)
        PROVE  OutstandingIsWatched'
    <2>1. \A fd \in Fds : Busy(fd)' => Busy(fd)
      BY <1>8 DEF SubmitFail, kernelVars
    <2> HIDE DEF Busy
    <2> QED
      BY <1>3, <1>8, <2>1, SubmitWatches
  <1>9. ASSUME NEW tr \in Transfers, UrbDone(tr)
        PROVE  OutstandingIsWatched'
    <2>1. \A fd \in Fds : Busy(fd)' => Busy(fd)
      <3>1. inflight[tr] > 0 /\ \A x \in Transfers : inflight'[x] > 0 => inflight[x] > 0
        BY <1>9 DEF UrbDone, Inv, TypeOK
      <3>2. \A fd \in Fds \ {FdOf[tr]} : completed'[fd] = completed[fd]
        BY <1>9 DEF UrbDone, Inv, TypeOK
      <3> QED
        BY <3>1, <3>2
    <2>2. UNCHANGED watched
      BY <1>9 DEF UrbDone, ctxVars
    <2>3. \A fd : IsWatched(fd) => IsWatched(fd)'
      BY <2>2 DEF IsWatched
    <2> HIDE DEF Busy
    <2> QED
      BY <1>3, <2>1, <2>3
  <1>10. ASSUME NEW t \in Threads, NEW fd \in Fds, CloseHandle(t, fd)
         PROVE  OutstandingIsWatched'
    BY <1>10 DEF CloseHandle, ctxVars, OutstandingIsWatched, IsWatched, Inv, TypeOK
  <1>11. ASSUME NEW t \in Threads, Reap(t)
         PROVE  OutstandingIsWatched'
    <2>1. \A tr \in Transfers : completed'[FdOf[tr]] # <<>> => completed[FdOf[tr]] # <<>>
      BY <1>2, <1>11 DEF Reap, Inv, TypeOK
    <2> QED
      BY <1>11, <2>1 DEF Reap, ctxVars, OutstandingIsWatched, IsWatched
  <1>12. ASSUME NEW t \in Threads, Deliver(t) \/ CallbackReturns(t)
         PROVE  OutstandingIsWatched'
    <2>1. UNCHANGED <<inflight, completed>>
      BY <1>12 DEF Deliver, CallbackReturns, kernelVars
    <2>2. \/ UNCHANGED watched
          \/ FinishUrb(t, reaping[t], 2)
          \/ FinishUrb(t, reaping[t], active[reaping[t]])
      BY <1>12 DEF Deliver, CallbackReturns
    <2>3. \A fd : IsWatched(fd) => IsWatched(fd)'
      BY <2>2, FinishWatches DEF IsWatched
    <2> QED
      BY <2>1, <2>3 DEF OutstandingIsWatched
  <1> QED
    BY <1>5, <1>6, <1>7, <1>8, <1>9, <1>10, <1>11, <1>12, StepKinds

LEMMA InitWatched == Init => OutstandingIsWatched
  <1> SUFFICES ASSUME Init PROVE OutstandingIsWatched
    OBVIOUS
  <1>1. \A tr \in Transfers : FdOf[tr] \in Fds
    BY ConstantsAssumption DEF ConstantsAssumption
  <1> QED
    BY <1>1 DEF Init, OutstandingIsWatched

\* usbyb_submit_transfer puts the descriptor of a URB into watched_fds before
\* the kernel has it, and no usbfs_unwatch_fd takes it out again: the leader
\* can always learn of a finished URB, for any number of devices.
THEOREM NothingUnwatched == Spec => []OutstandingIsWatched
  <1>1. Inv /\ OutstandingIsWatched /\ [Next]_vars => OutstandingIsWatched'
    BY WatchedStep
  <1> QED
    BY <1>1, InitInv, StepInv, InitWatched, PTL DEF Spec

-----------------------------------------------------------------------------
(* An active transfer has a URB.                                           *)

\* Steps of threads at the start of a wait, or between two rounds of the loop.
WaitingStep(t) ==
  \/ RunEventLoop(t) \/ RetryEventLoop(t)
  \/ \E tr \in Transfers : ClientWait(t, tr)
  \/ BulkWait(t) \/ RetryWait(t) \/ Relock(t) \/ LeaveOnError(t)

\* What waiting for an inactive transfer, or returning, does.
LEMMA AwaitFacts ==
  ASSUME Inv, NEW t \in Threads, NEW c \in {"none", "run", "wait", "bulk"},
         NEW tr \in Transfers \cup {NoTran}, AwaitInactive(t, c, tr)
  PROVE  /\ pc'[t] \in {"idle", "tranwait"}
         /\ \A u \in Threads \ {t} : pc'[u] = pc[u] /\ call'[u] = call[u] /\ arg'[u] = arg[u]
         /\ \A x \in Transfers : client'[x] = client[x] \/ active[x] = 0
  BY DEF Inv, TypeOK, AwaitInactive, Return, Released, Goto

\* What one evaluation of the loop condition does.
LEMMA IterateFacts ==
  ASSUME Inv, NEW t \in Threads, NEW c \in {"none", "run", "wait", "bulk"},
         NEW tr \in Transfers \cup {NoTran}, Iterate(t, c, tr)
  PROVE  /\ pc'[t] \in {"idle", "tranwait", "poll"}
         /\ \A u \in Threads \ {t} : pc'[u] = pc[u] /\ call'[u] = call[u] /\ arg'[u] = arg[u]
         /\ \A x \in Transfers : client'[x] = client[x] \/ active[x] = 0
         /\ UNCHANGED <<loop_enabled, watched, capacity, mutex, kernelVars, active, sub, reaping>>
  <1>1. CASE StartPoll(t, c, tr)
    BY <1>1 DEF Iterate, StartPoll, Goto, Inv, TypeOK
  <1>2. CASE AwaitInactive(t, c, tr)
    BY <1>2, AwaitFacts DEF Iterate
  <1> QED
    BY <1>1, <1>2 DEF Iterate, LeaveLoop

LEMMA WaitingFacts ==
  ASSUME Inv, NEW t \in Threads, WaitingStep(t)
  PROVE  /\ mutex = NoThread
         /\ pc[t] \in {"idle", "ctxwoken", "wait", "tranwoken", "relock", "failed"}
         /\ reaping[t] = NoTran
         /\ pc'[t] \in {"idle", "tranwait", "ctxwait", "poll"}
         /\ \A u \in Threads \ {t} : pc'[u] = pc[u] /\ call'[u] = call[u] /\ arg'[u] = arg[u]
         /\ \A x \in Transfers : client'[x] = client[x] \/ active[x] = 0
         /\ UNCHANGED <<loop_enabled, watched, capacity, mutex, kernelVars, active, sub, reaping>>
  <1> USE DEF ctxVars, tranVars, pollVars
  <1>1. /\ call[t] \in {"none", "run", "wait", "bulk"}
        /\ arg[t] \in Transfers \cup {NoTran}
        /\ NoTran \in Transfers \cup {NoTran}
    BY DEF Inv, TypeOK
  <1>2. /\ mutex = NoThread
        /\ pc[t] \in {"idle", "ctxwoken", "wait", "tranwoken", "relock", "failed"}
    BY DEF WaitingStep, RunEventLoop, RetryEventLoop, ClientWait, BulkWait, RetryWait, Relock,
           LeaveOnError, WaitForTransfer
  <1>3. reaping[t] = NoTran
    BY <1>2 DEF Inv, Located
  <1>4. \/ WaitForLoop(t)
        \/ \E c \in {"none", "run", "wait", "bulk"}, tr \in Transfers \cup {NoTran} :
             \/ Iterate(t, c, tr)
             \/ /\ AwaitInactive(t, c, tr)
                /\ UNCHANGED <<loop_enabled, watched, capacity, mutex, kernelVars, active, sub, reaping>>
    <2>1. CASE RunEventLoop(t) \/ RetryEventLoop(t)
      BY <2>1 DEF RunEventLoop, RetryEventLoop
    <2>2. ASSUME NEW c \in {"none", "run", "wait", "bulk"}, NEW tr \in Transfers \cup {NoTran},
                 WaitForTransfer(t, c, tr)
          PROVE  \/ Iterate(t, c, tr)
                 \/ /\ AwaitInactive(t, c, tr)
                    /\ UNCHANGED <<loop_enabled, watched, capacity, mutex, kernelVars, active, sub, reaping>>
      BY <2>2 DEF WaitForTransfer
    <2>3. CASE \E tr \in Transfers : ClientWait(t, tr)
      BY <2>2, <2>3 DEF ClientWait
    <2>4. CASE BulkWait(t)
      BY <1>1, <2>2, <2>4 DEF BulkWait
    <2>5. CASE RetryWait(t)
      BY <1>1, <2>5 DEF RetryWait
    <2>6. CASE Relock(t)
      BY <1>1, <2>6 DEF Relock
    <2>7. CASE LeaveOnError(t)
      BY <1>1, <2>7 DEF LeaveOnError, LeaveLoop
    <2> QED
      BY <2>1, <2>3, <2>4, <2>5, <2>6, <2>7 DEF WaitingStep
  <1>5. CASE WaitForLoop(t)
    BY <1>2, <1>3, <1>5 DEF WaitForLoop, Goto, Inv, TypeOK
  <1>6. ASSUME NEW c \in {"none", "run", "wait", "bulk"}, NEW tr \in Transfers \cup {NoTran},
               \/ Iterate(t, c, tr)
               \/ /\ AwaitInactive(t, c, tr)
                  /\ UNCHANGED <<loop_enabled, watched, capacity, mutex, kernelVars, active, sub, reaping>>
        PROVE  /\ pc'[t] \in {"idle", "tranwait", "ctxwait", "poll"}
               /\ \A u \in Threads \ {t} : pc'[u] = pc[u] /\ call'[u] = call[u] /\ arg'[u] = arg[u]
               /\ \A x \in Transfers : client'[x] = client[x] \/ active[x] = 0
               /\ UNCHANGED <<loop_enabled, watched, capacity, mutex, kernelVars, active, sub, reaping>>
    BY <1>6, AwaitFacts, IterateFacts
  <1> QED
    BY <1>2, <1>3, <1>4, <1>5, <1>6

\* What the end of a delivery does.
LEMMA FinishFacts ==
  ASSUME Inv, NEW t \in Threads, NEW tr \in Transfers, NEW a, FinishUrb(t, tr, a)
  PROVE  /\ pc'[t] = "scan"
         /\ \A u \in Threads \ {t} :
              pc'[u] = pc[u] \/ (pc[u] = "tranwait" /\ pc'[u] = "tranwoken")
         /\ reaping'[t] = NoTran
         /\ \A u \in Threads \ {t} : reaping'[u] = reaping[u]
         /\ active'[tr] = AfterCallback(a)
         /\ \A x \in Transfers \ {tr} : active'[x] = active[x]
  <1>1. /\ pc'[t] = "scan"
        /\ \A u \in Threads \ {t} :
             pc'[u] = pc[u] \/ (pc[u] = "tranwait" /\ pc'[u] = "tranwoken")
    BY DEF FinishUrb, WakeWaiters, Goto, Inv, TypeOK
  <1> QED
    BY <1>1 DEF FinishUrb, Inv, TypeOK

\* ctx_mutex is held across a system call by the thread that makes it.
Held == \A t \in Threads : pc[t] \in {"submit", "stop"} <=> mutex = t

\* All steps, sorted by what they do to transfers and to the mutex.
LEMMA StepCases ==
  ASSUME [Next]_vars
  PROVE  \/ UNCHANGED vars
         \/ \E t \in Threads :
              \/ WaitingStep(t)
              \/ SubmitDone(t) \/ StopDone(t) \/ StopEventLoop(t) \/ ResetEventLoop(t)
              \/ PollReturn(t) \/ ReapNothing(t) \/ Drain(t) \/ Disturbance(t)
              \/ Reap(t) \/ Deliver(t) \/ CallbackReturns(t)
         \/ \E t \in Threads, tr \in Transfers :
              \/ AllocTransfer(t, tr) \/ FreeTransfer(t, tr)
              \/ \E c \in {"submit", "bulk"} :
                   SubmitUrb(t, tr, c) \/ SubmitFail(t, tr, c) \/ SubmitNoMem(t, tr, c)
         \/ \E t \in Threads, fd \in Fds : OpenHandle(t, fd) \/ CloseHandle(t, fd)
         \/ \E tr \in Transfers : UrbDone(tr)
  BY DEF Next, ClientStep, LibraryStep, Complete, CancelTransfer, WaitingStep

LEMMA HeldStep ==
  ASSUME Inv, Held, [Next]_vars
  PROVE  Held'
  <1> USE ConstantsAssumption DEF ConstantsAssumption
  <1>1. ASSUME UNCHANGED mutex,
               \A u \in Threads : pc'[u] \in {"submit", "stop"} <=> pc[u] \in {"submit", "stop"}
        PROVE  Held'
    BY <1>1 DEF Held
  <1>2. CASE UNCHANGED vars
    BY <1>1, <1>2 DEF vars, ctxVars, threadVars
  <1>3. ASSUME NEW t \in Threads, WaitingStep(t)
        PROVE  Held'
    BY <1>1, <1>3, WaitingFacts
  <1>4. ASSUME NEW t \in Threads, SubmitDone(t) \/ StopDone(t)
        PROVE  Held'
    <2>1. mutex = t /\ mutex' = NoThread
      BY <1>4 DEF SubmitDone, StopDone, Held
    <2>2. /\ pc'[t] \notin {"submit", "stop"}
          /\ \A u \in Threads \ {t} : pc'[u] = pc[u] \/ pc'[u] = "ctxwoken"
      BY <1>4 DEF SubmitDone, StopDone, Caller, Goto, Inv, TypeOK
    <2> QED
      BY <2>1, <2>2 DEF Held
  <1>5. ASSUME NEW t \in Threads,
               \/ StopEventLoop(t)
               \/ \E tr \in Transfers, c \in {"submit", "bulk"} : SubmitUrb(t, tr, c)
        PROVE  Held'
    <2>1. mutex = NoThread /\ mutex' = t
      BY <1>5 DEF StopEventLoop, SubmitUrb, Submits
    <2>2. pc'[t] \in {"submit", "stop"} /\ \A u \in Threads \ {t} : pc'[u] = pc[u]
      BY <1>5 DEF StopEventLoop, SubmitUrb, Goto, Inv, TypeOK
    <2> QED
      BY <2>1, <2>2 DEF Held
  <1>6. ASSUME NEW t \in Threads,
               \/ ResetEventLoop(t) \/ ReapNothing(t)
               \/ \E tr \in Transfers :
                    \/ AllocTransfer(t, tr) \/ FreeTransfer(t, tr)
                    \/ \E c \in {"submit", "bulk"} : SubmitFail(t, tr, c) \/ SubmitNoMem(t, tr, c)
               \/ \E fd \in Fds : OpenHandle(t, fd) \/ CloseHandle(t, fd)
        PROVE  Held'
    <2>1. UNCHANGED <<pc, mutex>>
      BY <1>6 DEF ResetEventLoop, ReapNothing, AllocTransfer, FreeTransfer, SubmitFail, SubmitNoMem,
                  OpenHandle, CloseHandle, ctxVars, threadVars
    <2> QED
      BY <1>1, <2>1
  <1>7. ASSUME NEW t \in Threads, PollReturn(t) \/ Drain(t) \/ Disturbance(t) \/ Reap(t)
        PROVE  Held'
    <2>1. /\ UNCHANGED mutex /\ pc[t] \notin {"submit", "stop"} /\ pc'[t] \notin {"submit", "stop"}
          /\ \A u \in Threads \ {t} : pc'[u] = pc[u]
      BY <1>7 DEF PollReturn, Drain, Disturbance, SpuriousWake, PollError, Reap, ctxVars, Goto, Inv, TypeOK
    <2> QED
      BY <1>1, <2>1
  <1>8. ASSUME NEW t \in Threads, Deliver(t) \/ CallbackReturns(t)
        PROVE  Held'
    <2>1. reaping[t] \in Transfers /\ pc[t] \in {"reaped", "callback"} /\ UNCHANGED mutex
      BY <1>8 DEF Deliver, CallbackReturns, Inv, TypeOK, Located
    <2>2. CASE \E a : FinishUrb(t, reaping[t], a)
      BY <1>1, <2>1, <2>2, FinishFacts
    <2>3. CASE Goto(t, "callback")
      BY <1>1, <2>1, <2>3 DEF Goto, Inv, TypeOK
    <2> QED
      BY <1>8, <2>2, <2>3 DEF Deliver, CallbackReturns
  <1>9. ASSUME NEW tr \in Transfers, UrbDone(tr)
        PROVE  Held'
    BY <1>1, <1>9 DEF UrbDone, ctxVars, threadVars
  <1> QED
    BY <1>2, <1>3, <1>4, <1>5, <1>6, <1>7, <1>8, <1>9, StepCases

\* A submission in progress has its URB, and the transfer is the engine's.
SubmitOwed ==
  \A tr \in Transfers :
    Submitting(tr) => Outstanding(tr) /\ client[tr] \in {"pending", "bulk"}

\* Why ActiveIsOwed is inductive: an active transfer is the engine's, so that
\* its handle stays open, until the thread that delivers it marks it with 2.
ActiveOwed ==
  \A tr \in Transfers :
    /\ active[tr] = 1 => Outstanding(tr) /\ client[tr] \in {"pending", "bulk"}
    /\ active[tr] = 2 => \E t \in Threads : reaping[t] = tr

Owed == Held /\ SubmitOwed /\ ActiveOwed

\* URBs move forward only: from the device to the kernel's list, to the reaper.
LEMMA OutstandingKept ==
  ASSUME NEW x, UNCHANGED <<inflight, completed>>,
         \A u \in Threads : pc[u] = "reaped" => pc'[u] = "reaped" /\ reaping'[u] = reaping[u],
         Outstanding(x)
  PROVE  Outstanding(x)'
  BY DEF Outstanding

LEMMA SubmitOwedKept ==
  ASSUME SubmitOwed, \A x \in Transfers : Outstanding(x) => Outstanding(x)',
         \A x \in Transfers : Submitting(x)' => Submitting(x) /\ client'[x] = client[x]
  PROVE  SubmitOwed'
  BY DEF SubmitOwed

LEMMA ActiveOwedKept ==
  ASSUME NEW tr \in Transfers, ActiveOwed, active'[tr] = active[tr],
         active[tr] = 1 => client'[tr] = client[tr],
         Outstanding(tr) => Outstanding(tr)',
         \A u \in Threads : reaping[u] = tr => reaping'[u] = tr
  PROVE  /\ active'[tr] = 1 => Outstanding(tr)' /\ client'[tr] \in {"pending", "bulk"}
         /\ active'[tr] = 2 => \E t \in Threads : reaping'[t] = tr
  BY DEF ActiveOwed

\* A step that moves no URB and changes no active.
LEMMA OwedKept ==
  ASSUME Inv, Owed, UNCHANGED <<inflight, completed, active, reaping>>,
         \A u \in Threads : pc[u] = "reaped" => pc'[u] = "reaped",
         \A x \in Transfers : Submitting(x)' => Submitting(x) /\ client'[x] = client[x],
         \A tr \in Transfers : active[tr] = 1 => client'[tr] = client[tr]
  PROVE  SubmitOwed' /\ ActiveOwed'
  <1>1. \A x \in Transfers : Outstanding(x) => Outstanding(x)'
    BY OutstandingKept
  <1>2. SubmitOwed'
    BY <1>1, SubmitOwedKept DEF Owed
  <1>3. ActiveOwed'
    BY <1>1, ActiveOwedKept DEF Owed, ActiveOwed
  <1> QED
    BY <1>2, <1>3

\* The kernel hands a finished URB to the thread that reaps it.
LEMMA ReapKeeps ==
  ASSUME Inv, NEW t \in Threads, Reap(t), NEW x \in Transfers, Outstanding(x)
  PROVE  Outstanding(x)'
  <1>1. PICK i \in ready[t] :
          /\ completed[pollfds[t][i]] # <<>>
          /\ completed' = [completed EXCEPT ![pollfds[t][i]] = Tail(@)]
          /\ reaping' = [reaping EXCEPT ![t] = Head(completed[pollfds[t][i]])]
    BY DEF Reap
  <1> DEFINE fd == pollfds[t][i]
             q == completed[fd]
  <1>2. fd \in Fds /\ q \in Seq(Transfers) /\ FdOf[x] \in Fds
    BY ConstantsAssumption DEF Inv, TypeOK, Prefix, ConstantsAssumption
  <1>3. /\ pc[t] = "scan" /\ pc'[t] = "reaped" /\ reaping'[t] = Head(q)
        /\ \A u \in Threads \ {t} : pc'[u] = pc[u] /\ reaping'[u] = reaping[u]
        /\ UNCHANGED inflight
        /\ completed'[fd] = Tail(q)
        /\ \A f \in Fds \ {fd} : completed'[f] = completed[f]
    BY <1>1, <1>2 DEF Reap, Goto, Inv, TypeOK
  <1>4. CASE \E j \in DOMAIN completed[FdOf[x]] : completed[FdOf[x]][j] = x
    <2>1. CASE FdOf[x] # fd
      BY <1>2, <1>3, <1>4, <2>1 DEF Outstanding
    <2>2. CASE FdOf[x] = fd
      <3>1. PICK j \in DOMAIN q : q[j] = x
        BY <1>4, <2>2
      <3>2. q # <<>>
        BY <1>1
      <3> HIDE DEF q, fd
      <3>3. CASE j = 1
        <4>1. reaping'[t] = x
          BY <1>2, <1>3, <3>1, <3>2, <3>3
        <4> QED
          BY <1>3, <4>1 DEF Outstanding
      <3>4. CASE j # 1
        <4>1. j - 1 \in DOMAIN Tail(q) /\ Tail(q)[j - 1] = x
          BY <1>2, <3>1, <3>2, <3>4
        <4> QED
          BY <1>3, <2>2, <4>1 DEF Outstanding
      <3> QED
        BY <3>3, <3>4
    <2> QED
      BY <2>1, <2>2
  <1>5. CASE inflight[x] > 0 \/ \E u \in Threads : pc[u] = "reaped" /\ reaping[u] = x
    BY <1>3, <1>5 DEF Outstanding
  <1> QED
    BY <1>4, <1>5 DEF Outstanding

\* A URB that finishes goes to the kernel's list.
LEMMA UrbDoneKeeps ==
  ASSUME Inv, NEW tr \in Transfers, UrbDone(tr), NEW x \in Transfers, Outstanding(x)
  PROVE  Outstanding(x)'
  <1> DEFINE q == completed[FdOf[tr]]
  <1>1. FdOf[tr] \in Fds /\ FdOf[x] \in Fds /\ q \in Seq(Transfers)
    BY ConstantsAssumption DEF Inv, TypeOK, ConstantsAssumption
  <1>2. /\ completed'[FdOf[tr]] = Append(q, tr)
        /\ \A f \in Fds \ {FdOf[tr]} : completed'[f] = completed[f]
        /\ x # tr => inflight'[x] = inflight[x]
        /\ UNCHANGED <<pc, reaping>>
    BY <1>1 DEF UrbDone, threadVars, pollVars, Inv, TypeOK
  <1>3. CASE x = tr
    <2> HIDE DEF q
    <2>1. Len(q) + 1 \in DOMAIN Append(q, tr) /\ Append(q, tr)[Len(q) + 1] = tr
      BY <1>1
    <2> QED
      BY <1>2, <1>3, <2>1 DEF Outstanding
  <1>4. CASE x # tr /\ \E j \in DOMAIN completed[FdOf[x]] : completed[FdOf[x]][j] = x
    <2>1. PICK j \in DOMAIN completed[FdOf[x]] : completed[FdOf[x]][j] = x
      BY <1>4
    <2>2. CASE FdOf[x] = FdOf[tr]
      <3>1. j \in DOMAIN q /\ q[j] = x
        BY <2>1, <2>2
      <3> HIDE DEF q
      <3>2. j \in DOMAIN Append(q, tr) /\ Append(q, tr)[j] = x
        BY <1>1, <3>1
      <3> QED
        BY <1>2, <2>2, <3>2 DEF Outstanding
    <2>3. CASE FdOf[x] # FdOf[tr]
      BY <1>1, <1>2, <2>1, <2>3 DEF Outstanding
    <2> QED
      BY <2>2, <2>3
  <1> QED
    BY <1>2, <1>3, <1>4 DEF Outstanding

LEMMA OwedStep ==
  ASSUME Inv, Owed, [Next]_vars
  PROVE  SubmitOwed' /\ ActiveOwed'
  <1> USE ConstantsAssumption DEF ConstantsAssumption
  <1>0. /\ pc \in [Threads -> PC] /\ sub \in [Threads -> Transfers \cup {NoTran}]
        /\ active \in [Transfers -> 0 .. 2] /\ client \in [Transfers -> ClientState]
        /\ reaping \in [Threads -> Transfers \cup {NoTran}]
        /\ inflight \in [Transfers -> Nat]
    BY DEF Inv, TypeOK
  <1>1. mutex = NoThread => \A x \in Transfers : ~Submitting(x)
    BY DEF Owed, Held, Submitting
  <1>2. CASE UNCHANGED vars
    <2>1. \A x \in Transfers : Submitting(x)' => Submitting(x)
      BY <1>2 DEF Submitting, vars, threadVars
    <2> QED
      BY <1>2, <2>1, OwedKept DEF vars, kernelVars, tranVars, threadVars, pollVars
  <1>3. ASSUME NEW t \in Threads, WaitingStep(t)
        PROVE  SubmitOwed' /\ ActiveOwed'
    <2>1. /\ mutex = NoThread
          /\ pc[t] # "reaped" /\ pc'[t] # "submit"
          /\ \A u \in Threads \ {t} : pc'[u] = pc[u]
          /\ UNCHANGED <<inflight, completed, active, reaping, sub>>
          /\ \A x \in Transfers : client'[x] = client[x] \/ active[x] = 0
      BY <1>3, WaitingFacts DEF kernelVars
    <2>2. \A x \in Transfers : ~Submitting(x)'
      BY <1>1, <2>1 DEF Submitting
    <2>3. /\ \A u \in Threads : pc[u] = "reaped" => pc'[u] = "reaped"
          /\ \A x \in Transfers : active[x] = 1 => client'[x] = client[x]
      BY <2>1
    <2> QED
      BY <2>1, <2>2, <2>3, OwedKept
  <1>4. ASSUME NEW t \in Threads, SubmitDone(t)
        PROVE  SubmitOwed' /\ ActiveOwed'
    <2> DEFINE tr == sub[t]
    <2>1. tr \in Transfers /\ Submitting(tr)
      BY <1>0, <1>4 DEF SubmitDone, Inv, Located, Submitting
    <2>2. Outstanding(tr) /\ client[tr] \in {"pending", "bulk"}
      BY <2>1 DEF Owed, SubmitOwed
    <2>3. /\ active'[tr] \in {1, active[tr]}
          /\ \A x \in Transfers \ {tr} : active'[x] = active[x]
          /\ UNCHANGED <<inflight, completed, client, reaping>>
          /\ pc[t] = "submit" /\ pc'[t] # "submit"
          /\ \A u \in Threads \ {t} : pc'[u] = pc[u] /\ sub'[u] = sub[u]
      BY <1>0, <1>4, <2>1 DEF SubmitDone, ActiveAfterSubmit, Caller, Goto, pollVars
    <2> HIDE DEF tr
    <2>4. \A u \in Threads : pc[u] = "reaped" => pc'[u] = "reaped" /\ reaping'[u] = reaping[u]
      BY <2>3
    <2>5. \A x \in Transfers : Outstanding(x) => Outstanding(x)'
      BY <2>3, <2>4, OutstandingKept
    <2>6. SubmitOwed'
      <3>1. \A x \in Transfers : Submitting(x)' => Submitting(x)
        BY <2>3 DEF Submitting
      <3> QED
        BY <2>3, <2>5, <3>1, SubmitOwedKept DEF Owed
    <2>7. ActiveOwed'
      <3>1. \A x \in Transfers :
              active'[x] = active[x] \/ (active'[x] = 1 /\ Outstanding(x)' /\ client'[x] \in {"pending", "bulk"})
        BY <2>1, <2>2, <2>3, <2>5
      <3> QED
        BY <2>3, <2>5, <3>1, ActiveOwedKept DEF Owed, ActiveOwed
    <2> QED
      BY <2>6, <2>7
  <1>5. ASSUME NEW t \in Threads,
               \/ StopDone(t) \/ StopEventLoop(t) \/ ResetEventLoop(t)
               \/ PollReturn(t) \/ ReapNothing(t) \/ Drain(t) \/ Disturbance(t)
               \/ \E fd \in Fds : OpenHandle(t, fd)
               \/ \E tr \in Transfers, c \in {"submit", "bulk"} :
                    SubmitFail(t, tr, c) \/ SubmitNoMem(t, tr, c)
        PROVE  SubmitOwed' /\ ActiveOwed'
    <2> USE DEF StopDone, StopEventLoop, ResetEventLoop, PollReturn, ReapNothing, Drain, Disturbance,
                SpuriousWake, PollError, OpenHandle, SubmitFail, SubmitNoMem,
                kernelVars, tranVars, threadVars, pollVars
    <2>1. UNCHANGED <<inflight, completed, active, client, reaping, sub>>
      BY <1>5
    <2>2. \A u \in Threads :
            /\ pc[u] = "reaped" => pc'[u] = "reaped"
            /\ pc'[u] = "submit" => pc[u] = "submit"
      BY <1>0, <1>5 DEF Goto, Caller, Ready
    <2>3. \A x \in Transfers : Submitting(x)' => Submitting(x)
      BY <2>1, <2>2 DEF Submitting
    <2> QED
      BY <2>1, <2>2, <2>3, OwedKept
  <1>6. ASSUME NEW t \in Threads, Reap(t)
        PROVE  SubmitOwed' /\ ActiveOwed'
    <2>1. \A x \in Transfers : Outstanding(x) => Outstanding(x)'
      BY <1>6, ReapKeeps
    <2>2. /\ UNCHANGED <<active, client, sub>>
          /\ reaping[t] = NoTran
          /\ \A u \in Threads \ {t} : reaping'[u] = reaping[u]
          /\ \A u \in Threads : pc'[u] = "submit" => pc[u] = "submit"
      BY <1>0, <1>6 DEF Reap, tranVars, Goto, Inv, Located
    <2>3. \A x \in Transfers : Submitting(x)' => Submitting(x)
      BY <2>2 DEF Submitting
    <2>4. SubmitOwed'
      BY <2>1, <2>2, <2>3, SubmitOwedKept DEF Owed
    <2>5. \A x \in Transfers, u \in Threads : reaping[u] = x => reaping'[u] = x
      BY <2>2
    <2>6. ActiveOwed'
      BY <2>1, <2>2, <2>5, ActiveOwedKept DEF Owed, ActiveOwed
    <2> QED
      BY <2>4, <2>6
  <1>7. ASSUME NEW t \in Threads, Deliver(t) \/ CallbackReturns(t)
        PROVE  SubmitOwed' /\ ActiveOwed'
    <2>1. PICK tr \in Transfers :
            tr = reaping[t] /\ mutex = NoThread /\ pc[t] \in {"reaped", "callback"}
      BY <1>0, <1>7 DEF Deliver, CallbackReturns, Inv, Located
    <2>2. /\ pc'[t] \in {"scan", "callback"}
          /\ pc'[t] = "callback" => pc[t] = "reaped" /\ active'[tr] = 2 /\ UNCHANGED reaping
          /\ pc'[t] = "scan" => \/ active'[tr] = 0
                                \/ /\ pc[t] = "callback" /\ active[tr] = 1
                                   /\ active'[tr] = 1 /\ UNCHANGED client
          /\ \A u \in Threads \ {t} :
               /\ reaping'[u] = reaping[u]
               /\ pc'[u] = pc[u] \/ (pc[u] = "tranwait" /\ pc'[u] = "tranwoken")
          /\ \A x \in Transfers \ {tr} : active'[x] = active[x] /\ client'[x] = client[x]
          /\ UNCHANGED <<inflight, completed>>
      <3>1. CASE CallbackReturns(t)
        <4>1. active[tr] \in 0 .. 2
          BY <1>0, <2>1
        <4>2. active'[tr] = AfterCallback(active[tr]) /\ UNCHANGED <<client, kernelVars>>
          BY <2>1, <3>1, FinishFacts DEF CallbackReturns
        <4>3. active'[tr] = 0 \/ (active[tr] = 1 /\ active'[tr] = 1)
          BY <4>1, <4>2 DEF AfterCallback
        <4>4. FinishUrb(t, tr, active[tr]) /\ pc[t] = "callback"
          BY <2>1, <3>1 DEF CallbackReturns
        <4> QED
          BY <2>1, <4>2, <4>3, <4>4, FinishFacts DEF kernelVars
      <3>2. CASE Deliver(t) /\ FinishUrb(t, tr, 2)
        <4>1. UNCHANGED <<client, kernelVars>>
          <5>1. \A u \in Threads : FinishUrb(u, reaping[u], 2) => pc'[u] = "scan"
            BY <1>0 DEF FinishUrb, WakeWaiters
          <5> QED
            BY <1>0, <2>1, <3>2, <5>1 DEF Deliver, Goto
        <4>2. active'[tr] = 0
          BY <2>1, <3>2, FinishFacts DEF AfterCallback
        <4> QED
          BY <2>1, <3>2, <4>1, <4>2, FinishFacts DEF kernelVars
      <3>3. CASE Deliver(t) /\ ~FinishUrb(t, tr, 2)
        BY <1>0, <2>1, <3>3 DEF Deliver, Goto, kernelVars
      <3> QED
        BY <1>7, <3>1, <3>2, <3>3
    <2>3. tr = reaping[t]
      BY <2>1
    <2>4. SubmitOwed'
      <3>1. \A x \in Transfers : ~Submitting(x)
        BY <1>1, <2>1
      <3>2. \A u \in Threads : pc'[u] = "submit" => pc[u] = "submit"
        BY <2>2
      <3>3. UNCHANGED sub
        BY <1>7 DEF Deliver, CallbackReturns
      <3>4. \A x \in Transfers : ~Submitting(x)'
        BY <3>1, <3>2, <3>3 DEF Submitting
      <3> QED
        BY <3>4 DEF SubmitOwed
    <2>5. \A x \in Transfers \ {tr} : Outstanding(x) => Outstanding(x)'
      BY <2>2, <2>3 DEF Outstanding
    <2>6. pc[t] = "callback" => (Outstanding(tr) => Outstanding(tr)')
      BY <2>2 DEF Outstanding
    <2>7. \A x \in Transfers \ {tr}, u \in Threads : reaping[u] = x => reaping'[u] = x
      BY <2>2, <2>3
    <2>8. ActiveOwed'
      <3> SUFFICES ASSUME NEW x \in Transfers
                   PROVE  /\ active'[x] = 1 => Outstanding(x)' /\ client'[x] \in {"pending", "bulk"}
                          /\ active'[x] = 2 => \E u \in Threads : reaping'[u] = x
        BY DEF ActiveOwed
      <3>1. CASE x # tr
        BY <2>2, <2>5, <2>7, <3>1, ActiveOwedKept DEF Owed
      <3>2. CASE x = tr
        <4>1. active[tr] = 1 => Outstanding(tr) /\ client[tr] \in {"pending", "bulk"}
          BY <2>1 DEF Owed, ActiveOwed
        <4> QED
          BY <2>2, <2>3, <2>6, <3>2, <4>1
      <3> QED
        BY <3>1, <3>2
    <2> QED
      BY <2>4, <2>8
  <1>8. ASSUME NEW t \in Threads, NEW tr \in Transfers, AllocTransfer(t, tr) \/ FreeTransfer(t, tr)
        PROVE  SubmitOwed' /\ ActiveOwed'
    <2>1. /\ client[tr] \in {"free", "idle"}
          /\ active'[tr] \in {0, active[tr]}
          /\ \A x \in Transfers \ {tr} : active'[x] = active[x] /\ client'[x] = client[x]
          /\ UNCHANGED <<inflight, completed, reaping, pc, sub>>
      BY <1>0, <1>8 DEF AllocTransfer, FreeTransfer, kernelVars, threadVars, pollVars
    <2>2. \A x \in Transfers : Outstanding(x) => Outstanding(x)'
      BY <2>1, OutstandingKept
    <2>3. ~Submitting(tr) /\ active[tr] # 1
      BY <2>1 DEF Owed, SubmitOwed, ActiveOwed
    <2>4. \A x \in Transfers : Submitting(x)' => Submitting(x) /\ x # tr
      BY <2>1, <2>3 DEF Submitting
    <2>5. SubmitOwed'
      BY <2>1, <2>2, <2>4, SubmitOwedKept DEF Owed
    <2>6. ActiveOwed'
      BY <2>1, <2>2, <2>3, ActiveOwedKept DEF Owed, ActiveOwed
    <2> QED
      BY <2>5, <2>6
  <1>9. ASSUME NEW t \in Threads, NEW tr \in Transfers, NEW c \in {"submit", "bulk"}, SubmitUrb(t, tr, c)
        PROVE  SubmitOwed' /\ ActiveOwed'
    <2>1. /\ mutex = NoThread
          /\ client[tr] \in {"free", "idle", "called"} /\ client'[tr] \in {"pending", "bulk"}
          /\ \A x \in Transfers \ {tr} : active'[x] = active[x] /\ client'[x] = client[x]
          /\ active'[tr] \in {0, active[tr]}
          /\ inflight'[tr] > 0
          /\ \A x \in Transfers \ {tr} : inflight'[x] = inflight[x]
          /\ UNCHANGED <<completed, reaping>>
          /\ pc[t] # "reaped"
          /\ \A u \in Threads \ {t} : pc'[u] = pc[u]
          /\ sub'[t] = tr
      BY <1>0, <1>9 DEF SubmitUrb, Submits, Ready, Goto, pollVars
    <2>2. \A x \in Transfers : Outstanding(x) => Outstanding(x)'
      BY <2>1 DEF Outstanding
    <2>3. Outstanding(tr)'
      BY <2>1 DEF Outstanding
    <2>4. \A x \in Transfers : Submitting(x)' => x = tr
      BY <1>1, <2>1, <1>9, <1>0 DEF Submitting, SubmitUrb
    <2>5. SubmitOwed'
      BY <2>1, <2>3, <2>4 DEF SubmitOwed
    <2>6. active[tr] # 1
      BY <2>1 DEF Owed, ActiveOwed
    <2>7. ActiveOwed'
      BY <2>1, <2>2, <2>6, ActiveOwedKept DEF Owed, ActiveOwed
    <2> QED
      BY <2>5, <2>7
  <1>10. ASSUME NEW t \in Threads, NEW fd \in Fds, CloseHandle(t, fd)
         PROVE  SubmitOwed' /\ ActiveOwed'
    <2>1. /\ UNCHANGED <<active, client, reaping, pc, sub>>
          /\ \A x \in Transfers : client[x] \in {"pending", "bulk"} =>
               inflight'[x] = inflight[x] /\ completed'[FdOf[x]] = completed[FdOf[x]]
      BY <1>0, <1>10 DEF CloseHandle, tranVars, threadVars, pollVars, Inv, TypeOK
    <2>2. \A x \in Transfers :
            client[x] \in {"pending", "bulk"} => (Outstanding(x) => Outstanding(x)')
      BY <2>1 DEF Outstanding
    <2>3. SubmitOwed'
      BY <2>1, <2>2 DEF Owed, SubmitOwed, Submitting
    <2>4. ActiveOwed'
      BY <2>1, <2>2 DEF Owed, ActiveOwed
    <2> QED
      BY <2>3, <2>4
  <1>11. ASSUME NEW tr \in Transfers, UrbDone(tr)
         PROVE  SubmitOwed' /\ ActiveOwed'
    <2>1. \A x \in Transfers : Outstanding(x) => Outstanding(x)'
      BY <1>11, UrbDoneKeeps
    <2>2. UNCHANGED <<active, client, reaping, pc, sub>>
      BY <1>11 DEF UrbDone, tranVars, threadVars, pollVars
    <2>3. \A x \in Transfers : Submitting(x)' => Submitting(x)
      BY <2>2 DEF Submitting
    <2>4. SubmitOwed'
      BY <2>1, <2>2, <2>3, SubmitOwedKept DEF Owed
    <2>5. ActiveOwed'
      BY <2>1, <2>2, ActiveOwedKept DEF Owed, ActiveOwed
    <2> QED
      BY <2>4, <2>5
  <1> QED
    BY <1>2, <1>3, <1>4, <1>5, <1>6, <1>7, <1>8, <1>9, <1>10, <1>11, StepCases

LEMMA InitOwed == Init => Owed
  BY ConstantsAssumption DEF ConstantsAssumption, Init, Owed, Held, SubmitOwed, ActiveOwed, Submitting

\* Nobody waits for nothing: a transfer marked active, for which
\* usbyb_wait_for_transfer blocks on tran->cond, still has a URB that will
\* be reaped or is being delivered by a thread that will broadcast.
ActiveIsOwed ==
  \A tr \in Transfers :
    active[tr] # 0 => Outstanding(tr) \/ \E t \in Threads : reaping[t] = tr

\* usbyb_wait_for_transfer never blocks for nothing: as long as a transfer is
\* marked active its URB is with the kernel, or is being delivered by a thread
\* that will broadcast tran->cond, whoever submits, cancels, waits or closes
\* handles meanwhile.
THEOREM WaitsForSomething == Spec => []ActiveIsOwed
  <1>1. Inv /\ Owed /\ [Next]_vars => Owed'
    BY OwedStep, HeldStep DEF Owed
  <1>2. Inv /\ Owed => ActiveIsOwed
    BY DEF Inv, TypeOK, Owed, ActiveOwed, ActiveIsOwed
  <1> QED
    BY <1>1, <1>2, InitInv, StepInv, InitOwed, PTL DEF Spec

-----------------------------------------------------------------------------
(* The leader is woken.                                                    *)

\* All URBs in the kernel are on descriptors that the leader polls.
AllPolled(t) ==
  \A tr \in Transfers : inflight[tr] > 0 =>
    \E i \in DOMAIN pollfds[t] : pollfds[t][i] = FdOf[tr]

\* Why PollIsWoken is inductive: whoever makes a reason to wake the leader
\* still holds the mutex, and loop_locked tells him that he must write.
Woken ==
  \A t \in Threads : pc[t] = "poll" =>
    \/ pipe > 0
    \/ loop_enabled /\ loop_locked /\ ((\E u \in Threads : pc[u] = "submit") \/ AllPolled(t))
    \/ loop_locked /\ \E u \in Threads : pc[u] = "stop"

\* A thread enters poll only with the loop enabled and with the whole table.
LEMMA WaitingPolls ==
  ASSUME Inv, NEW t \in Threads, WaitingStep(t)
  PROVE  /\ \A u \in Threads \ {t} : pollfds'[u] = pollfds[u]
         /\ pc'[t] = "poll" => loop_enabled /\ loop_locked' /\ pollfds'[t] = WatchedFds
  <1> USE DEF ctxVars, tranVars, pollVars
  <1>1. /\ call[t] \in {"none", "run", "wait", "bulk"}
        /\ arg[t] \in Transfers \cup {NoTran}
        /\ NoTran \in Transfers \cup {NoTran}
        /\ pc \in [Threads -> PC]
        /\ pollfds \in [Threads -> Seq(Fds)]
    BY DEF Inv, TypeOK
  <1>2. ASSUME NEW c, NEW tr, AwaitInactive(t, c, tr)
        PROVE  pc'[t] # "poll"
    BY <1>1, <1>2 DEF AwaitInactive, Return, Goto
  <1>3. ASSUME NEW c, NEW tr, LeaveLoop(t, c, tr)
        PROVE  pc'[t] # "poll" /\ \A u \in Threads \ {t} : pollfds'[u] = pollfds[u]
    BY <1>1, <1>2, <1>3 DEF LeaveLoop
  <1>4. ASSUME NEW c, NEW tr, Iterate(t, c, tr)
        PROVE  /\ \A u \in Threads \ {t} : pollfds'[u] = pollfds[u]
               /\ pc'[t] = "poll" => loop_enabled /\ loop_locked' /\ pollfds'[t] = WatchedFds
    <2>1. CASE LoopCond(c, tr) /\ StartPoll(t, c, tr)
      BY <1>1, <2>1 DEF LoopCond, StartPoll
    <2> QED
      BY <1>3, <1>4, <2>1 DEF Iterate
  <1>5. CASE WaitForLoop(t)
    BY <1>1, <1>5 DEF WaitForLoop, Goto
  <1>6. ASSUME NEW c, NEW tr, WaitForTransfer(t, c, tr)
        PROVE  /\ \A u \in Threads \ {t} : pollfds'[u] = pollfds[u]
               /\ pc'[t] = "poll" => loop_enabled /\ loop_locked' /\ pollfds'[t] = WatchedFds
    BY <1>2, <1>4, <1>6 DEF WaitForTransfer
  <1>7. CASE RunEventLoop(t) \/ RetryEventLoop(t)
    BY <1>4, <1>5, <1>7 DEF RunEventLoop, RetryEventLoop
  <1>8. CASE (\E tr \in Transfers : ClientWait(t, tr)) \/ BulkWait(t)
    BY <1>6, <1>8 DEF ClientWait, BulkWait
  <1>9. CASE RetryWait(t)
    BY <1>2, <1>9 DEF RetryWait
  <1>10. CASE Relock(t)
    BY <1>4, <1>10 DEF Relock
  <1>11. CASE LeaveOnError(t)
    BY <1>3, <1>11 DEF LeaveOnError
  <1> QED
    BY <1>7, <1>8, <1>9, <1>10, <1>11 DEF WaitingStep

\* A step of somebody else that takes no byte out of the pipe.
LEMMA WokenKept ==
  ASSUME Inv, Woken, UNCHANGED <<loop_enabled, loop_locked, pipe, pollfds>>,
         \A tr \in Transfers : inflight'[tr] > 0 => inflight[tr] > 0,
         \A u \in Threads : /\ pc[u] \in {"submit", "stop"} => pc'[u] = pc[u]
                            /\ pc'[u] = "poll" => pc[u] = "poll"
  PROVE  Woken'
  <1> SUFFICES ASSUME NEW t \in Threads, pc'[t] = "poll"
               PROVE  \/ pipe' > 0
                      \/ loop_enabled' /\ loop_locked' /\ ((\E u \in Threads : pc'[u] = "submit") \/ AllPolled(t)')
                      \/ loop_locked' /\ \E u \in Threads : pc'[u] = "stop"
    BY DEF Woken
  <1>1. AllPolled(t) => AllPolled(t)'
    BY DEF AllPolled
  <1>2. \A u \in Threads : (pc[u] = "submit" => pc'[u] = "submit") /\ (pc[u] = "stop" => pc'[u] = "stop")
    OBVIOUS
  <1> QED
    BY <1>1, <1>2 DEF Woken

LEMMA WokenStep ==
  ASSUME QuietReset, Inv, Held, Led, Led', OutstandingIsWatched, Woken, [Next]_vars
  PROVE  Woken'
  <1> USE ConstantsAssumption DEF ConstantsAssumption
  <1>0. /\ pc \in [Threads -> PC]
        /\ inflight \in [Transfers -> Nat]
        /\ pipe \in Nat
    BY DEF Inv, TypeOK
  <1>1. mutex = NoThread => \A u \in Threads : pc[u] \notin {"submit", "stop"}
    BY DEF Held
  <1>2. CASE UNCHANGED vars
    BY <1>0, <1>2, WokenKept DEF vars, ctxVars, kernelVars, threadVars, pollVars
  <1>3. ASSUME NEW t \in Threads, WaitingStep(t)
        PROVE  Woken'
    <2>1. /\ mutex = NoThread
          /\ \A u \in Threads \ {t} : pc'[u] = pc[u] /\ pollfds'[u] = pollfds[u]
          /\ UNCHANGED <<loop_enabled, watched, pipe, inflight>>
      BY <1>3, WaitingFacts, WaitingPolls DEF kernelVars
    <2> SUFFICES ASSUME NEW u \in Threads, pc'[u] = "poll"
                 PROVE  pipe' > 0 \/ (loop_enabled' /\ loop_locked' /\ AllPolled(u)')
      BY DEF Woken
    <2>2. CASE u = t
      <3>1. loop_enabled /\ loop_locked' /\ pollfds'[t] = WatchedFds
        BY <1>3, <2>2, WaitingPolls
      <3>2. \A tr \in Transfers : inflight[tr] > 0 => \E i \in DOMAIN WatchedFds : WatchedFds[i] = FdOf[tr]
        BY DEF OutstandingIsWatched, IsWatched, WatchedFds
      <3>3. AllPolled(u)'
        BY <2>1, <2>2, <3>1, <3>2 DEF AllPolled
      <3> QED
        BY <2>1, <3>1, <3>3
    <2>3. CASE u # t
      <3>1. pipe > 0 \/ (loop_enabled /\ loop_locked /\ AllPolled(u))
        BY <1>1, <2>1, <2>3 DEF Woken
      <3>2. loop_enabled' => loop_locked'
        BY DEF Led, Leading
      <3>3. AllPolled(u) => AllPolled(u)'
        BY <2>1, <2>3 DEF AllPolled
      <3> QED
        BY <2>1, <3>1, <3>2, <3>3
    <2> QED
      BY <2>2, <2>3
  <1>4. ASSUME NEW t \in Threads, SubmitDone(t) \/ StopDone(t)
        PROVE  Woken'
    <2>1. /\ pipe' = pipe + WakeByte
          /\ \A u \in Threads : pc'[u] = "poll" => pc[u] = "poll"
      BY <1>0, <1>4 DEF SubmitDone, StopDone, Goto, Caller
    <2>2. ASSUME NEW u \in Threads, pc[u] = "poll"
          PROVE  pipe' > 0
      BY <1>0, <2>1, <2>2 DEF Woken, WakeByte
    <2> QED
      BY <2>1, <2>2 DEF Woken
  <1>5. ASSUME NEW t \in Threads, \/ StopEventLoop(t)
                                  \/ \E tr \in Transfers, c \in {"submit", "bulk"} : SubmitUrb(t, tr, c)
        PROVE  Woken'
    <2>1. /\ mutex = NoThread
          /\ \/ pc'[t] = "stop"
             \/ pc'[t] = "submit" /\ UNCHANGED loop_enabled
          /\ \A u \in Threads : pc'[u] = "poll" => pc[u] = "poll"
          /\ UNCHANGED <<loop_locked, pipe>>
      BY <1>0, <1>5 DEF StopEventLoop, SubmitUrb, Submits, Goto, kernelVars
    <2>2. ASSUME NEW u \in Threads, pc[u] = "poll"
          PROVE  pipe > 0 \/ (loop_enabled /\ loop_locked)
      BY <1>1, <2>1, <2>2 DEF Woken
    <2> QED
      BY <2>1, <2>2 DEF Woken
  <1>6. ASSUME NEW t \in Threads, Drain(t) \/ ResetEventLoop(t)
        PROVE  Woken'
    <2>1. \A u \in Threads : pc[u] # "poll"
      BY <1>6 DEF Drain, ResetEventLoop, Led, OneLeader, Leading
    <2>2. \A u \in Threads : pc'[u] # "poll"
      BY <1>0, <1>6, <2>1 DEF Drain, ResetEventLoop, Goto, threadVars
    <2> QED
      BY <2>2 DEF Woken
  <1>7. ASSUME NEW t \in Threads,
               \/ PollReturn(t) \/ ReapNothing(t) \/ Disturbance(t) \/ Reap(t)
               \/ \E fd \in Fds : OpenHandle(t, fd) \/ CloseHandle(t, fd)
               \/ \E tr \in Transfers :
                    \/ AllocTransfer(t, tr) \/ FreeTransfer(t, tr)
                    \/ \E c \in {"submit", "bulk"} : SubmitFail(t, tr, c) \/ SubmitNoMem(t, tr, c)
        PROVE  Woken'
    <2> USE DEF PollReturn, ReapNothing, Disturbance, SpuriousWake, PollError, Reap, OpenHandle, CloseHandle,
                AllocTransfer, FreeTransfer, SubmitFail, SubmitNoMem,
                ctxVars, kernelVars, tranVars, threadVars, pollVars
    <2>1. UNCHANGED <<loop_enabled, loop_locked, pipe, pollfds>>
      BY <1>7
    <2>2. \A tr \in Transfers : inflight'[tr] > 0 => inflight[tr] > 0
      BY <1>0, <1>7
    <2>3. \A u \in Threads : /\ pc[u] \in {"submit", "stop"} => pc'[u] = pc[u]
                             /\ pc'[u] = "poll" => pc[u] = "poll"
      BY <1>0, <1>7 DEF Goto
    <2> QED
      BY <2>1, <2>2, <2>3, WokenKept
  <1>8. ASSUME NEW t \in Threads, Deliver(t) \/ CallbackReturns(t)
        PROVE  Woken'
    <2>1. reaping[t] \in Transfers /\ pc[t] \in {"reaped", "callback"}
      BY <1>8 DEF Deliver, CallbackReturns, Inv, TypeOK, Located
    <2>2. UNCHANGED <<loop_enabled, loop_locked, pipe, pollfds, inflight>>
      BY <1>8 DEF Deliver, CallbackReturns, kernelVars
    <2>3. \A u \in Threads : /\ pc[u] \in {"submit", "stop"} => pc'[u] = pc[u]
                             /\ pc'[u] = "poll" => pc[u] = "poll"
      <3>1. CASE \E a : FinishUrb(t, reaping[t], a)
        BY <2>1, <3>1, FinishFacts
      <3>2. CASE Goto(t, "callback")
        BY <1>0, <2>1, <3>2 DEF Goto
      <3> QED
        BY <1>8, <3>1, <3>2 DEF Deliver, CallbackReturns
    <2> QED
      BY <2>2, <2>3, WokenKept
  <1>9. ASSUME NEW tr \in Transfers, UrbDone(tr)
        PROVE  Woken'
    <2>1. \A x \in Transfers : inflight'[x] > 0 => inflight[x] > 0
      BY <1>0, <1>9 DEF UrbDone
    <2> QED
      BY <1>9, <2>1, WokenKept DEF UrbDone, ctxVars, threadVars, pollVars
  <1> QED
    BY <1>2, <1>3, <1>4, <1>5, <1>6, <1>7, <1>8, <1>9, StepCases

LEMMA InitWoken == Init => Woken
  BY DEF Init, Woken

\* A submission to a device the leader does not poll yet, and a stop, are not
\* slept through: the leader blocked in poll finds a byte in the pipe, or the
\* call that writes it is on its way, provided usbyb_reset_event_loop is only
\* called when no thread leads the loop.
THEOREM LeaderIsWoken == QuietReset => (Spec => []PollIsWoken)
  <1> SUFFICES ASSUME QuietReset PROVE Spec => []PollIsWoken
    OBVIOUS
  <1>1. Inv /\ Led /\ [Next]_vars => Led'
    BY StepLed
  <1>2. Inv /\ OutstandingIsWatched /\ [Next]_vars => OutstandingIsWatched'
    BY WatchedStep
  <1>3. Inv /\ Held /\ [Next]_vars => Held'
    BY HeldStep
  <1>4. Inv /\ Held /\ Led /\ Led' /\ OutstandingIsWatched /\ Woken /\ [Next]_vars => Woken'
    BY WokenStep
  <1>5. Held /\ Woken => PollIsWoken
    <2> SUFFICES ASSUME Held, Woken, NEW t \in Threads, pc[t] = "poll",
                        ~loop_enabled \/ ~AllPolled(t)
                 PROVE  pipe > 0 \/ mutex # NoThread
      BY DEF PollIsWoken, AllPolled
    <2> QED
      BY ConstantsAssumption DEF Held, Woken, ConstantsAssumption
  <1>6. Init => Held
    BY InitOwed DEF Owed
  <1> QED
    BY <1>1, <1>2, <1>3, <1>4, <1>5, <1>6, InitInv, StepInv, InitLed, InitWatched, InitWoken, PTL DEF Spec

-----------------------------------------------------------------------------
(* Counting URBs.                                                          *)

\* Where x stands in a queue.
Places(q, x) == {i \in DOMAIN q : q[i] = x}

LEMMA PlacesFinite ==
  ASSUME NEW S, NEW q \in Seq(S), NEW x
  PROVE  IsFiniteSet(Places(q, x)) /\ Cardinality(Places(q, x)) \in Nat
  <1>1. IsFiniteSet(1 .. Len(q))
    BY FS_Interval
  <1>2. Places(q, x) \in SUBSET (1 .. Len(q))
    BY DEF Places
  <1>3. IsFiniteSet(Places(q, x))
    BY <1>1, <1>2, FS_Subset
  <1> QED
    BY <1>3, FS_CardinalityType

\* The last URB to finish is queued once more than before.
LEMMA PlacesAppend ==
  ASSUME NEW S, NEW q \in Seq(S), NEW y \in S, NEW x
  PROVE  Cardinality(Places(Append(q, y), x)) =
           IF x = y THEN Cardinality(Places(q, x)) + 1 ELSE Cardinality(Places(q, x))
  <1> DEFINE n == Len(q)
             r == Append(q, y)
  <1>1. /\ DOMAIN r = (DOMAIN q) \cup {n + 1}
        /\ r[n + 1] = y
        /\ \A i \in DOMAIN q : r[i] = q[i]
        /\ n + 1 \notin DOMAIN q
    OBVIOUS
  <1> HIDE DEF n, r
  <1>2. Places(r, x) = IF x = y THEN Places(q, x) \cup {n + 1} ELSE Places(q, x)
    BY <1>1 DEF Places
  <1>3. n + 1 \notin Places(q, x)
    BY <1>1 DEF Places
  <1>4. Cardinality(Places(r, x)) =
          IF x = y THEN Cardinality(Places(q, x)) + 1 ELSE Cardinality(Places(q, x))
    BY <1>2, <1>3, PlacesFinite, FS_AddElement
  <1> QED
    BY <1>4 DEF r

\* The first URB leaves the queue, the others keep their order.
LEMMA PlacesTail ==
  ASSUME NEW S, NEW q \in Seq(S), q # <<>>, NEW x
  PROVE  Cardinality(Places(Tail(q), x)) =
           IF x = Head(q) THEN Cardinality(Places(q, x)) - 1 ELSE Cardinality(Places(q, x))
  <1> DEFINE r == Tail(q)
             P == Places(r, x)
             Q == Places(q, x) \ {1}
             f == [i \in P |-> i + 1]
  <1>0. q[1] = Head(q) /\ 1 \in DOMAIN q
    OBVIOUS
  <1>1. /\ \A i \in DOMAIN r : i \in Nat /\ i + 1 \in DOMAIN q /\ i + 1 # 1 /\ r[i] = q[i + 1]
        /\ \A j \in DOMAIN q \ {1} : j \in Int /\ j - 1 \in DOMAIN r /\ r[j - 1] = q[j]
    OBVIOUS
  <1> HIDE DEF r
  <1>2. f \in [P -> Q]
    BY <1>1 DEF Places
  <1>3. \A a, b \in P : f[a] = f[b] => a = b
    BY <1>1 DEF Places
  <1>4. \A j \in Q : \E i \in P : f[i] = j
    <2> SUFFICES ASSUME NEW j \in Q PROVE \E i \in P : f[i] = j
      OBVIOUS
    <2>1. j \in Int /\ j - 1 \in P
      BY <1>1 DEF Places
    <2>2. f[j - 1] = j
      BY <2>1
    <2> QED
      BY <2>1, <2>2
  <1> HIDE DEF f
  <1>5. f \in Bijection(P, Q)
    BY <1>2, <1>3, <1>4 DEF Bijection, Injection, Surjection, IsInjective
  <1>6. ExistsBijection(P, Q)
    BY <1>5 DEF ExistsBijection
  <1>7. r \in Seq(S)
    BY DEF r
  <1>8. Cardinality(Q) = Cardinality(P)
    BY <1>6, <1>7, PlacesFinite, FS_Bijection
  <1>9. Cardinality(Q) = IF 1 \in Places(q, x) THEN Cardinality(Places(q, x)) - 1 ELSE Cardinality(Places(q, x))
    BY PlacesFinite, FS_RemoveElement
  <1>10. 1 \in Places(q, x) <=> x = Head(q)
    BY <1>0 DEF Places
  <1> QED
    BY <1>8, <1>9, <1>10 DEF r

\* Threads that have reaped a URB of tr and not delivered it.
Reapers(tr) == {t \in Threads : pc[t] = "reaped" /\ reaping[t] = tr}

LEMMA DueIs ==
  ASSUME NEW tr
  PROVE  Due(tr) = inflight[tr] + Cardinality(Places(completed[FdOf[tr]], tr)) + Cardinality(Reapers(tr))
  BY DEF Due, Places, Reapers

\* There is one leader: at most one URB is reaped at a time.
LEMMA OneReaper ==
  ASSUME OneLeader, NEW tr
  PROVE  Cardinality(Reapers(tr)) =
           IF \E t \in Threads : pc[t] = "reaped" /\ reaping[t] = tr THEN 1 ELSE 0
  <1>1. ASSUME NEW t \in Threads, pc[t] = "reaped", reaping[t] = tr
        PROVE  Reapers(tr) = {t}
    BY <1>1 DEF OneLeader, Leading, Reapers
  <1>2. CASE \E t \in Threads : pc[t] = "reaped" /\ reaping[t] = tr
    <2>1. PICK t \in Threads : pc[t] = "reaped" /\ reaping[t] = tr
      BY <1>2
    <2>2. Cardinality({t}) = 1
      BY FS_Singleton
    <2> QED
      BY <1>1, <1>2, <2>1, <2>2
  <1>3. CASE ~\E t \in Threads : pc[t] = "reaped" /\ reaping[t] = tr
    <2>1. Reapers(tr) = {}
      BY <1>3 DEF Reapers
    <2> QED
      BY <1>3, <2>1, FS_EmptySet
  <1> QED
    BY <1>2, <1>3

LEMMA DueType ==
  ASSUME Inv, OneLeader, NEW tr \in Transfers
  PROVE  /\ Due(tr) \in Nat
         /\ Cardinality(Places(completed[FdOf[tr]], tr)) \in Nat
         /\ Cardinality(Reapers(tr)) \in 0 .. 1
  <1>1. FdOf[tr] \in Fds /\ inflight[tr] \in Nat /\ completed[FdOf[tr]] \in Seq(Transfers)
    BY ConstantsAssumption DEF ConstantsAssumption, Inv, TypeOK
  <1>2. Cardinality(Places(completed[FdOf[tr]], tr)) \in Nat
    BY <1>1, PlacesFinite
  <1>3. Cardinality(Reapers(tr)) \in 0 .. 1
    BY OneReaper
  <1> QED
    BY <1>1, <1>2, <1>3, DueIs

-----------------------------------------------------------------------------
(* What a thread's call is about.                                          *)

\* The call a thread is in decides where it can be, and every wait is for
\* some transfer.
CallFits(t) ==
  /\ pc[t] = "idle" => call[t] = "none"
  /\ pc[t] = "wait" => call[t] = "bulk"
  /\ pc[t] = "submit" /\ reaping[t] = NoTran => call[t] \in {"none", "bulk"}
  /\ pc[t] = "stop" /\ reaping[t] = NoTran => call[t] = "none"
  /\ pc[t] \in {"ctxwait", "ctxwoken"} => call[t] = "run"
  /\ pc[t] \in {"tranwait", "tranwoken"} => call[t] \in {"wait", "bulk"}
  /\ Leading(t) => call[t] # "none"
  /\ call[t] \in {"wait", "bulk"} => arg[t] \in Transfers

Calls == \A t \in Threads : CallFits(t)

\* The two ends of a step of a waiting thread: it waits on, or it returns and
\* may do so only when the transfer is inactive.
WaitsOn(t, c, tr) ==
  /\ Goto(t, "poll") \/ (c # "run" /\ active[tr] # 0 /\ Goto(t, "tranwait"))
  /\ call' = [call EXCEPT ![t] = c]
  /\ arg' = [arg EXCEPT ![t] = tr]
  /\ UNCHANGED client

Returns(t, c, tr) == Return(t, c, tr) /\ (c # "run" => active[tr] = 0)

LEMMA IterateEnds ==
  ASSUME NEW t, NEW c, NEW tr, Iterate(t, c, tr) \/ LeaveLoop(t, c, tr) \/ AwaitInactive(t, c, tr)
  PROVE  WaitsOn(t, c, tr) \/ Returns(t, c, tr)
  <1>1. CASE AwaitInactive(t, c, tr)
    BY <1>1 DEF AwaitInactive, WaitsOn, Returns
  <1>2. CASE LeaveLoop(t, c, tr)
    BY <1>1, <1>2 DEF LeaveLoop
  <1>3. CASE StartPoll(t, c, tr)
    BY <1>3 DEF StartPoll, WaitsOn
  <1> QED
    BY <1>1, <1>2, <1>3 DEF Iterate

LEMMA WaitingOutcome ==
  ASSUME Inv, Calls, NEW t \in Threads, WaitingStep(t)
  PROVE  \/ WaitForLoop(t) /\ call[t] \in {"none", "run"} /\ loop_enabled
         \/ \E c \in {"run", "wait", "bulk"}, tr \in Transfers \cup {NoTran} :
              /\ c # "run" => tr \in Transfers
              /\ \/ call[t] = c /\ (c # "run" => arg[t] = tr)
                 \/ call[t] = "none" /\ c # "bulk" /\ (c = "wait" => client[tr] \notin {"free", "bulk"})
              /\ WaitsOn(t, c, tr) \/ Returns(t, c, tr)
  <1>1. /\ call[t] \in {"none", "run", "wait", "bulk"}
        /\ arg[t] \in Transfers \cup {NoTran}
        /\ NoTran \in Transfers \cup {NoTran}
    BY DEF Inv, TypeOK
  <1>2. \A c, tr : WaitForTransfer(t, c, tr) => WaitsOn(t, c, tr) \/ Returns(t, c, tr)
    BY IterateEnds DEF WaitForTransfer
  <1>3. CASE RunEventLoop(t) \/ RetryEventLoop(t)
    <2>1. call[t] \in {"none", "run"}
      BY <1>3 DEF RunEventLoop, RetryEventLoop, Calls, CallFits
    <2>2. (WaitForLoop(t) /\ loop_enabled) \/ Iterate(t, "run", NoTran)
      BY <1>3 DEF RunEventLoop, RetryEventLoop, MustWaitForLoop
    <2>3. (WaitForLoop(t) /\ loop_enabled) \/ WaitsOn(t, "run", NoTran) \/ Returns(t, "run", NoTran)
      BY <2>2, IterateEnds
    <2> QED
      BY <1>1, <2>1, <2>3
  <1>4. ASSUME NEW tr \in Transfers, ClientWait(t, tr)
        PROVE  /\ call[t] = "none" /\ client[tr] \notin {"free", "bulk"}
               /\ WaitsOn(t, "wait", tr) \/ Returns(t, "wait", tr)
    BY <1>2, <1>4 DEF ClientWait, Calls, CallFits
  <1>5. CASE BulkWait(t)
    <2>1. call[t] = "bulk" /\ arg[t] \in Transfers
      BY <1>5 DEF BulkWait, Calls, CallFits
    <2> QED
      BY <1>2, <1>5, <2>1 DEF BulkWait
  <1>6. CASE RetryWait(t) \/ Relock(t) \/ LeaveOnError(t)
    <2>1. call[t] \in {"run", "wait", "bulk"} /\ (call[t] # "run" => arg[t] \in Transfers)
      BY <1>1, <1>6 DEF RetryWait, Relock, LeaveOnError, Calls, CallFits, Leading
    <2>2. WaitsOn(t, call[t], arg[t]) \/ Returns(t, call[t], arg[t])
      BY <1>6, IterateEnds DEF RetryWait, Relock, LeaveOnError
    <2> QED
      BY <1>1, <2>1, <2>2
  <1> QED
    BY <1>3, <1>4, <1>5, <1>6 DEF WaitingStep

\* Threads that do not take part in a step stay where they were, or are woken.
LEMMA CallsKept ==
  ASSUME Calls, NEW t \in Threads, CallFits(t)',
         \A u \in Threads \ {t} :
           /\ call'[u] = call[u] /\ arg'[u] = arg[u] /\ reaping'[u] = reaping[u]
           /\ \/ pc'[u] = pc[u]
              \/ pc[u] = "ctxwait" /\ pc'[u] = "ctxwoken"
              \/ pc[u] = "tranwait" /\ pc'[u] = "tranwoken"
  PROVE  Calls'
  <1> SUFFICES ASSUME NEW u \in Threads, u # t PROVE CallFits(u)'
    BY DEF Calls
  <1> QED
    BY DEF Calls, CallFits, Leading

LEMMA CallsStep ==
  ASSUME Inv, Calls, [Next]_vars
  PROVE  Calls'
  <1> USE ConstantsAssumption DEF ConstantsAssumption
  <1>0. /\ pc \in [Threads -> PC]
        /\ call \in [Threads -> {"none", "run", "wait", "bulk"}]
        /\ arg \in [Threads -> Transfers \cup {NoTran}]
        /\ reaping \in [Threads -> Transfers \cup {NoTran}]
    BY DEF Inv, TypeOK
  <1>1. CASE UNCHANGED <<pc, call, arg, reaping>>
    BY <1>1 DEF Calls, CallFits, Leading
  <1>2. ASSUME NEW t \in Threads, WaitingStep(t)
        PROVE  Calls'
    <2>1. UNCHANGED reaping /\ reaping[t] = NoTran
      BY <1>2, WaitingFacts
    <2>2. CASE WaitForLoop(t)
      <3>1. pc'[t] = "ctxwait" /\ call'[t] = "run" /\ arg'[t] = arg[t]
        BY <1>0, <2>2 DEF WaitForLoop, Goto
      <3>2. CallFits(t)'
        BY <2>1, <3>1 DEF CallFits, Leading
      <3> QED
        BY <1>0, <2>1, <2>2, <3>2, CallsKept DEF WaitForLoop, Goto
    <2>3. ASSUME NEW c \in {"run", "wait", "bulk"}, NEW tr \in Transfers \cup {NoTran},
                 c # "run" => tr \in Transfers, WaitsOn(t, c, tr) \/ Returns(t, c, tr)
          PROVE  Calls'
      <3>1. \/ pc'[t] = "idle" /\ call'[t] = "none"
            \/ /\ pc'[t] \in {"poll", "tranwait"} /\ (pc'[t] = "tranwait" => c # "run")
               /\ call'[t] = c /\ arg'[t] = tr
        BY <1>0, <2>3 DEF WaitsOn, Returns, Return, Goto
      <3>2. CallFits(t)'
        BY <2>1, <2>3, <3>1 DEF CallFits, Leading
      <3> QED
        BY <1>0, <2>1, <2>3, <3>2, CallsKept DEF WaitsOn, Returns, Return, Goto
    <2> QED
      BY <1>2, <2>2, <2>3, WaitingOutcome
  <1>3. ASSUME NEW t \in Threads,
               \/ SubmitDone(t) \/ StopDone(t) \/ StopEventLoop(t) \/ ResetEventLoop(t)
               \/ PollReturn(t) \/ ReapNothing(t) \/ Drain(t) \/ Disturbance(t)
        PROVE  Calls'
    <2> USE DEF SubmitDone, StopDone, StopEventLoop, ResetEventLoop, PollReturn, ReapNothing, Drain,
                Disturbance, SpuriousWake, PollError, threadVars, pollVars
    <2>1. UNCHANGED <<call, arg, reaping>>
      BY <1>3
    <2>2. \A u \in Threads \ {t} : pc'[u] = pc[u] \/ (pc[u] = "ctxwait" /\ pc'[u] = "ctxwoken")
      BY <1>0, <1>3 DEF Goto
    <2>3. CallFits(t)
      BY DEF Calls
    <2>4. \/ pc'[t] = pc[t]
          \/ pc[t] \in {"submit", "stop"} /\ pc'[t] = Caller(t)
          \/ pc[t] \in {"idle", "callback"} /\ pc'[t] = "stop"
          \/ pc[t] = "ctxwait" /\ pc'[t] = "ctxwoken"
          \/ pc[t] = "tranwait" /\ pc'[t] = "tranwoken"
          \/ pc[t] \in {"poll", "scan"} /\ pc'[t] \in {"scan", "relock", "failed"}
      BY <1>0, <1>3 DEF Goto, Ready
    <2>5. CallFits(t)'
      <3>1. CASE pc[t] \in {"submit", "stop"} /\ pc'[t] = Caller(t)
        <4>1. CASE reaping[t] # NoTran
          BY <2>1, <2>3, <3>1, <4>1 DEF CallFits, Leading, Caller
        <4>2. CASE reaping[t] = NoTran
          BY <2>1, <2>3, <3>1, <4>2 DEF CallFits, Leading, Caller
        <4> QED
          BY <4>1, <4>2
      <3>2. CASE pc[t] \in {"idle", "callback"} /\ pc'[t] = "stop"
        BY <2>1, <2>3, <3>2 DEF CallFits, Leading, Inv, Located
      <3>3. CASE \/ pc'[t] = pc[t]
                 \/ pc[t] = "ctxwait" /\ pc'[t] = "ctxwoken"
                 \/ pc[t] = "tranwait" /\ pc'[t] = "tranwoken"
                 \/ pc[t] \in {"poll", "scan"} /\ pc'[t] \in {"scan", "relock", "failed"}
        BY <2>1, <2>3, <3>3 DEF CallFits, Leading
      <3> QED
        BY <2>4, <3>1, <3>2, <3>3
    <2> QED
      BY <2>1, <2>2, <2>5, CallsKept
  <1>4. ASSUME NEW t \in Threads, Reap(t)
        PROVE  Calls'
    <2>1. /\ pc[t] = "scan" /\ pc'[t] = "reaped" /\ UNCHANGED <<call, arg>>
          /\ \A u \in Threads \ {t} : pc'[u] = pc[u] /\ reaping'[u] = reaping[u]
      BY <1>0, <1>4 DEF Reap, Goto
    <2>2. CallFits(t)'
      BY <2>1 DEF Calls, CallFits, Leading
    <2> QED
      BY <2>1, <2>2, CallsKept
  <1>5. ASSUME NEW t \in Threads, Deliver(t) \/ CallbackReturns(t)
        PROVE  Calls'
    <2>1. reaping[t] \in Transfers /\ pc[t] \in {"reaped", "callback"} /\ UNCHANGED <<call, arg>>
      BY <1>5 DEF Deliver, CallbackReturns, Inv, TypeOK, Located
    <2>2. /\ pc'[t] \in {"scan", "callback"}
          /\ \A u \in Threads \ {t} :
               /\ reaping'[u] = reaping[u]
               /\ pc'[u] = pc[u] \/ (pc[u] = "tranwait" /\ pc'[u] = "tranwoken")
      <3>1. CASE \E a : FinishUrb(t, reaping[t], a)
        BY <2>1, <3>1, FinishFacts
      <3>2. CASE Goto(t, "callback") /\ UNCHANGED reaping
        BY <1>0, <3>2 DEF Goto
      <3> QED
        BY <1>5, <3>1, <3>2 DEF Deliver, CallbackReturns
    <2>3. CallFits(t)'
      BY <2>1, <2>2 DEF Calls, CallFits, Leading
    <2> QED
      BY <2>1, <2>2, <2>3, CallsKept
  <1>6. ASSUME NEW t \in Threads, NEW tr \in Transfers, NEW c \in {"submit", "bulk"}, SubmitUrb(t, tr, c)
        PROVE  Calls'
    <2>1. /\ pc'[t] = "submit" /\ UNCHANGED reaping
          /\ pc[t] \in {"idle", "callback"}
          /\ \/ UNCHANGED <<call, arg>>
             \/ pc[t] = "idle" /\ call'[t] = "bulk" /\ arg'[t] = tr
          /\ \A u \in Threads \ {t} : pc'[u] = pc[u] /\ call'[u] = call[u] /\ arg'[u] = arg[u]
      BY <1>0, <1>6 DEF SubmitUrb, Submits, Ready, Goto, pollVars
    <2>2. CallFits(t)'
      BY <2>1 DEF Calls, CallFits, Leading, Inv, Located
    <2> QED
      BY <2>1, <2>2, CallsKept
  <1>7. ASSUME NEW t \in Threads,
               \/ \E tr \in Transfers :
                    \/ AllocTransfer(t, tr) \/ FreeTransfer(t, tr)
                    \/ \E c \in {"submit", "bulk"} : SubmitFail(t, tr, c) \/ SubmitNoMem(t, tr, c)
               \/ \E fd \in Fds : OpenHandle(t, fd) \/ CloseHandle(t, fd)
        PROVE  Calls'
    BY <1>1, <1>7 DEF AllocTransfer, FreeTransfer, SubmitFail, SubmitNoMem, OpenHandle, CloseHandle,
                      threadVars, pollVars
  <1>8. ASSUME NEW tr \in Transfers, UrbDone(tr)
        PROVE  Calls'
    BY <1>1, <1>8 DEF UrbDone, threadVars, pollVars
  <1>9. CASE UNCHANGED vars
    BY <1>1, <1>9 DEF vars, threadVars, pollVars
  <1> QED
    BY <1>2, <1>3, <1>4, <1>5, <1>6, <1>7, <1>8, <1>9, StepCases

-----------------------------------------------------------------------------
(* What the steps do to the URBs that are due and the callbacks that run.  *)

\* Transfers whose callback runs.
Calling == {reaping[t] : t \in {u \in Threads : pc[u] # "reaped"}} \ {NoTran}

\* A descriptor's URBs belong to transfers of its handle.
Sorted == \A fd \in Fds : \A i \in DOMAIN completed[fd] : FdOf[completed[fd][i]] = fd

\* Reaping takes the first URB of one descriptor.
LEMMA ReapsFrom ==
  ASSUME Inv, NEW t \in Threads, Reap(t)
  PROVE  \E f \in Fds :
           /\ completed[f] # <<>>
           /\ completed' = [completed EXCEPT ![f] = Tail(@)]
           /\ reaping' = [reaping EXCEPT ![t] = Head(completed[f])]
  <1>1. PICK i \in ready[t] :
          /\ completed[pollfds[t][i]] # <<>>
          /\ completed' = [completed EXCEPT ![pollfds[t][i]] = Tail(@)]
          /\ reaping' = [reaping EXCEPT ![t] = Head(completed[pollfds[t][i]])]
    BY DEF Reap
  <1>2. pollfds[t][i] \in Fds
    BY DEF Inv, TypeOK, Prefix
  <1> QED
    BY <1>1, <1>2

LEMMA SortedStep ==
  ASSUME Inv, Sorted, [Next]_vars
  PROVE  Sorted'
  <1> USE ConstantsAssumption DEF ConstantsAssumption
  <1>0. completed \in [Fds -> Seq(Transfers)]
    BY DEF Inv, TypeOK
  <1>1. CASE UNCHANGED completed
    BY <1>1 DEF Sorted
  <1>2. ASSUME NEW tr \in Transfers, UrbDone(tr)
        PROVE  Sorted'
    <2>1. completed' = [completed EXCEPT ![FdOf[tr]] = Append(@, tr)]
      BY <1>2 DEF UrbDone
    <2> SUFFICES ASSUME NEW fd \in Fds, NEW i \in DOMAIN completed'[fd]
                 PROVE  FdOf[completed'[fd][i]] = fd
      BY DEF Sorted
    <2> DEFINE q == completed[fd]
    <2>2. q \in Seq(Transfers) /\ \A j \in DOMAIN q : FdOf[q[j]] = fd
      BY <1>0 DEF Sorted
    <2>3. CASE fd = FdOf[tr]
      <3>1. completed'[fd] = Append(q, tr)
        BY <1>0, <2>1, <2>3
      <3> HIDE DEF q
      <3>2. i \in DOMAIN q \/ (i = Len(q) + 1 /\ Append(q, tr)[i] = tr)
        BY <2>2, <3>1
      <3>3. i \in DOMAIN q => Append(q, tr)[i] = q[i]
        BY <2>2
      <3> QED
        BY <2>2, <2>3, <3>1, <3>2, <3>3
    <2>4. CASE fd # FdOf[tr]
      BY <1>0, <2>1, <2>2, <2>4
    <2> QED
      BY <2>3, <2>4
  <1>3. ASSUME NEW t \in Threads, Reap(t)
        PROVE  Sorted'
    <2>1. PICK f \in Fds : completed[f] # <<>> /\ completed' = [completed EXCEPT ![f] = Tail(@)]
      BY <1>3, ReapsFrom
    <2> SUFFICES ASSUME NEW fd \in Fds, NEW i \in DOMAIN completed'[fd]
                 PROVE  FdOf[completed'[fd][i]] = fd
      BY DEF Sorted
    <2> DEFINE q == completed[fd]
    <2>2. q \in Seq(Transfers) /\ \A j \in DOMAIN q : FdOf[q[j]] = fd
      BY <1>0 DEF Sorted
    <2>3. CASE fd = f
      <3>1. completed'[fd] = Tail(q) /\ q # <<>>
        BY <1>0, <2>1, <2>3
      <3> HIDE DEF q
      <3>2. i + 1 \in DOMAIN q /\ Tail(q)[i] = q[i + 1]
        BY <2>2, <3>1
      <3> QED
        BY <2>2, <3>1, <3>2
    <2>4. CASE fd # f
      BY <1>0, <2>1, <2>2, <2>4
    <2> QED
      BY <2>3, <2>4
  <1>4. ASSUME NEW t \in Threads, NEW fd \in Fds, CloseHandle(t, fd)
        PROVE  Sorted'
    BY <1>0, <1>4 DEF CloseHandle, Sorted
  <1>5. ASSUME NEW t \in Threads, Deliver(t) \/ CallbackReturns(t) \/ QuietStep(t)
        PROVE  Sorted'
    BY <1>1, <1>5, QuietKeeps DEF Deliver, CallbackReturns, kernelVars
  <1>6. ASSUME NEW t \in Threads, NEW tr \in Transfers, NEW c \in {"submit", "bulk"},
               SubmitUrb(t, tr, c) \/ SubmitFail(t, tr, c)
        PROVE  Sorted'
    BY <1>1, <1>6 DEF SubmitUrb, SubmitFail, kernelVars
  <1>7. CASE UNCHANGED vars
    BY <1>1, <1>7 DEF vars, kernelVars
  <1> QED
    BY <1>2, <1>3, <1>4, <1>5, <1>6, <1>7, StepKinds

\* A step that moves no URB and begins or ends no callback.
KeepsUrbs ==
  /\ UNCHANGED <<inflight, completed, reaping>>
  /\ \A u \in Threads : pc'[u] = "reaped" <=> pc[u] = "reaped"

LEMMA KeepsUrbsLemma ==
  ASSUME KeepsUrbs
  PROVE  /\ \A x : Due(x)' = Due(x)
         /\ Calling' = Calling
  <1>1. ASSUME NEW x PROVE Due(x)' = Due(x)
    <2>1. {t \in Threads : pc'[t] = "reaped" /\ reaping'[t] = x}
            = {t \in Threads : pc[t] = "reaped" /\ reaping[t] = x}
      BY DEF KeepsUrbs
    <2> QED
      BY <2>1 DEF KeepsUrbs, Due
  <1>2. {u \in Threads : pc'[u] # "reaped"} = {u \in Threads : pc[u] # "reaped"}
    BY DEF KeepsUrbs
  <1>3. Calling' = Calling
    BY <1>2 DEF KeepsUrbs, Calling
  <1> QED
    BY <1>1, <1>3

LEMMA QuietUrbs ==
  ASSUME Inv, NEW t \in Threads,
         \/ WaitingStep(t)
         \/ SubmitDone(t) \/ StopDone(t) \/ StopEventLoop(t) \/ ResetEventLoop(t)
         \/ PollReturn(t) \/ ReapNothing(t) \/ Drain(t) \/ Disturbance(t)
         \/ \E tr \in Transfers :
              \/ AllocTransfer(t, tr) \/ FreeTransfer(t, tr)
              \/ \E c \in {"submit", "bulk"} : SubmitFail(t, tr, c) \/ SubmitNoMem(t, tr, c)
         \/ \E fd \in Fds : OpenHandle(t, fd)
  PROVE  KeepsUrbs
  <1>0. pc \in [Threads -> PC]
    BY DEF Inv, TypeOK
  <1>1. CASE WaitingStep(t)
    <2>1. /\ pc[t] # "reaped" /\ pc'[t] # "reaped"
          /\ \A u \in Threads \ {t} : pc'[u] = pc[u]
          /\ UNCHANGED <<kernelVars, reaping>>
      BY <1>1, WaitingFacts
    <2> QED
      BY <2>1 DEF KeepsUrbs, kernelVars
  <1>2. CASE ~WaitingStep(t)
    <2> USE DEF SubmitDone, StopDone, StopEventLoop, ResetEventLoop, PollReturn, ReapNothing, Drain,
                Disturbance, SpuriousWake, PollError, AllocTransfer, FreeTransfer, SubmitFail, SubmitNoMem,
                OpenHandle, kernelVars, threadVars, pollVars
    <2>1. UNCHANGED <<inflight, completed, reaping>>
      BY <1>2
    <2>2. \A u \in Threads : pc'[u] = "reaped" <=> pc[u] = "reaped"
      BY <1>0, <1>2 DEF Goto, Ready, Caller
    <2> QED
      BY <2>1, <2>2 DEF KeepsUrbs
  <1> QED
    BY <1>1, <1>2

\* The kernel only moves a URB on.
LEMMA UrbDoneDue ==
  ASSUME Inv, NEW tr \in Transfers, UrbDone(tr)
  PROVE  /\ \A x \in Transfers : Due(x)' = Due(x)
         /\ Calling' = Calling
  <1> USE ConstantsAssumption DEF ConstantsAssumption
  <1>1. UNCHANGED <<pc, reaping>>
    BY DEF UrbDone, threadVars, pollVars
  <1>2. Calling' = Calling
    BY <1>1 DEF Calling
  <1>3. ASSUME NEW x \in Transfers PROVE Due(x)' = Due(x)
    <2> DEFINE q == completed[FdOf[x]]
               n == Cardinality(Places(q, x))
               n2 == Cardinality(Places(completed'[FdOf[x]], x))
               m == Cardinality(Reapers(x))
    <2>1. q \in Seq(Transfers) /\ n \in Nat /\ inflight[x] \in Nat
      BY PlacesFinite DEF Inv, TypeOK
    <2>2. Due(x) = inflight[x] + n + m
      BY DueIs
    <2>3. Due(x)' = inflight'[x] + n2 + m
      BY <1>1 DEF Due, Places, Reapers
    <2>4. CASE x = tr
      <3>1. inflight'[x] = inflight[x] - 1 /\ completed'[FdOf[x]] = Append(q, tr)
        BY <2>4 DEF UrbDone, Inv, TypeOK
      <3> HIDE DEF q
      <3>2. n2 = n + 1
        BY <2>1, <2>4, <3>1, PlacesAppend
      <3> HIDE DEF n, n2, m
      <3>3. inflight'[x] + n2 = inflight[x] + n
        BY <2>1, <3>1, <3>2
      <3> QED
        BY <2>2, <2>3, <3>3
    <2>5. CASE x # tr
      <3>1. inflight'[x] = inflight[x] /\ completed'[FdOf[x]] \in {q, Append(q, tr)}
        BY <2>5 DEF UrbDone, Inv, TypeOK
      <3>2. completed'[FdOf[x]] = q => n2 = n
        OBVIOUS
      <3>3. completed'[FdOf[x]] = Append(q, tr) => n2 = n
        <4> HIDE DEF q
        <4> QED
          BY <2>1, <2>5, PlacesAppend
      <3> HIDE DEF n, n2, m
      <3> QED
        BY <2>2, <2>3, <3>1, <3>2, <3>3
    <2> QED
      BY <2>4, <2>5
  <1> QED
    BY <1>2, <1>3

\* Reaping moves a URB from the kernel's list to the leader.
LEMMA ReapDue ==
  ASSUME Inv, OneLeader, Sorted, NEW t \in Threads, Reap(t)
  PROVE  /\ \A x \in Transfers : Due(x)' = Due(x)
         /\ Calling' = Calling
  <1> USE ConstantsAssumption DEF ConstantsAssumption
  <1>0. /\ pc \in [Threads -> PC] /\ reaping \in [Threads -> Transfers \cup {NoTran}]
        /\ completed \in [Fds -> Seq(Transfers)]
    BY DEF Inv, TypeOK
  <1>1. PICK f \in Fds :
          /\ completed[f] # <<>>
          /\ completed' = [completed EXCEPT ![f] = Tail(@)]
          /\ reaping' = [reaping EXCEPT ![t] = Head(completed[f])]
    BY ReapsFrom
  <1>2. PICK y \in Transfers : y = Head(completed[f])
    BY <1>0, <1>1
  <1>3. FdOf[y] = f
    <2> DEFINE q == completed[f]
    <2>1. q \in Seq(Transfers) /\ q # <<>> /\ y = Head(q) /\ \A i \in DOMAIN q : FdOf[q[i]] = f
      BY <1>0, <1>1, <1>2 DEF Sorted
    <2> HIDE DEF q
    <2>2. 1 \in DOMAIN q /\ q[1] = y
      BY <2>1
    <2> QED
      BY <2>1, <2>2
  <1>4. /\ pc[t] = "scan" /\ pc'[t] = "reaped" /\ reaping[t] = NoTran /\ reaping'[t] = y
        /\ \A u \in Threads \ {t} : pc'[u] = pc[u] /\ reaping'[u] = reaping[u]
        /\ UNCHANGED inflight
    BY <1>0, <1>1, <1>2 DEF Reap, Goto, Inv, Located
  <1>5. \A u \in Threads : pc[u] # "reaped" /\ reaping[u] = NoTran
    BY <1>4 DEF OneLeader, Leading
  <1>6. Calling' = Calling
    BY <1>4, <1>5 DEF Calling
  <1>7. ASSUME NEW x \in Transfers PROVE Due(x)' = Due(x)
    <2> DEFINE q == completed[FdOf[x]]
               n == Cardinality(Places(q, x))
               n2 == Cardinality(Places(completed'[FdOf[x]], x))
               m2 == Cardinality({u \in Threads : pc'[u] = "reaped" /\ reaping'[u] = x})
    <2>1. q \in Seq(Transfers) /\ n \in Nat /\ inflight[x] \in Nat
      BY PlacesFinite DEF Inv, TypeOK
    <2>2. Due(x) = inflight[x] + n + 0
      BY <1>5, OneReaper, DueIs
    <2>3. Due(x)' = inflight[x] + n2 + m2
      BY <1>4 DEF Due, Places
    <2>4. CASE x = y
      <3>1. {u \in Threads : pc'[u] = "reaped" /\ reaping'[u] = x} = {t}
        BY <1>4, <1>5, <2>4
      <3>2. m2 = 1
        BY <3>1, FS_Singleton
      <3>3. completed'[FdOf[x]] = Tail(q) /\ q # <<>> /\ Head(q) = x
        BY <1>0, <1>1, <1>2, <1>3, <2>4
      <3> HIDE DEF q
      <3>4. n2 = n - 1
        BY <2>1, <3>3, PlacesTail
      <3> HIDE DEF n, n2, m2
      <3> QED
        BY <2>1, <2>2, <2>3, <3>2, <3>4
    <2>5. CASE x # y
      <3>1. {u \in Threads : pc'[u] = "reaped" /\ reaping'[u] = x} = {}
        BY <1>4, <1>5, <2>5
      <3>2. m2 = 0
        BY <3>1, FS_EmptySet
      <3>3. completed'[FdOf[x]] = q \/ (completed'[FdOf[x]] = Tail(q) /\ q # <<>> /\ Head(q) # x)
        BY <1>0, <1>1, <1>2, <2>5
      <3> HIDE DEF q
      <3>4. n2 = n
        BY <2>1, <3>3, PlacesTail
      <3> HIDE DEF n, n2, m2
      <3> QED
        BY <2>1, <2>2, <2>3, <3>2, <3>4
    <2> QED
      BY <2>4, <2>5
  <1> QED
    BY <1>6, <1>7

\* A submission makes one more URB due.
LEMMA SubmitDue ==
  ASSUME Inv, OneLeader, NEW t \in Threads, NEW tr \in Transfers, NEW c \in {"submit", "bulk"},
         SubmitUrb(t, tr, c)
  PROVE  /\ Due(tr)' = Due(tr) + 1
         /\ \A x \in Transfers \ {tr} : Due(x)' = Due(x)
         /\ Calling' = Calling
  <1>1. /\ \A u \in Threads : pc'[u] = "reaped" <=> pc[u] = "reaped"
        /\ UNCHANGED <<reaping, completed>>
        /\ inflight'[tr] = inflight[tr] + 1
        /\ \A x \in Transfers \ {tr} : inflight'[x] = inflight[x]
    BY DEF SubmitUrb, Submits, Ready, Goto, pollVars, Inv, TypeOK
  <1>2. ASSUME NEW x \in Transfers
        PROVE  Due(x)' = inflight'[x] + Cardinality(Places(completed[FdOf[x]], x)) + Cardinality(Reapers(x))
    <2>1. {u \in Threads : pc'[u] = "reaped" /\ reaping'[u] = x} = Reapers(x)
      BY <1>1 DEF Reapers
    <2> QED
      BY <1>1, <2>1 DEF Due, Places
  <1>3. ASSUME NEW x \in Transfers
        PROVE  Due(x)' = inflight'[x] + (Due(x) - inflight[x])
    <2> DEFINE n == Cardinality(Places(completed[FdOf[x]], x))
               m == Cardinality(Reapers(x))
    <2>0. inflight[x] \in Nat /\ inflight'[x] \in Int
      BY <1>1 DEF Inv, TypeOK
    <2>1. n \in Nat /\ m \in Nat /\ inflight[x] \in Nat /\ inflight'[x] \in Int
      BY <2>0, DueType
    <2>2. Due(x) = inflight[x] + n + m /\ Due(x)' = inflight'[x] + n + m
      BY <1>2, DueIs
    <2> HIDE DEF n, m
    <2> QED
      BY <2>1, <2>2
  <1>4. \A x \in Transfers : Due(x) \in Nat /\ inflight[x] \in Nat
    BY DueType DEF Inv, TypeOK
  <1>5. Calling' = Calling
    <2>1. {u \in Threads : pc'[u] # "reaped"} = {u \in Threads : pc[u] # "reaped"}
      BY <1>1
    <2> QED
      BY <1>1, <2>1 DEF Calling
  <1> QED
    BY <1>1, <1>3, <1>4, <1>5

\* Marking a reaped transfer in active takes its URB from those that are due.
LEMMA DeliverDue ==
  ASSUME Inv, OneLeader, NEW t \in Threads, NEW tr \in Transfers, pc[t] = "reaped", reaping[t] = tr,
         UNCHANGED <<inflight, completed>>, pc'[t] # "reaped",
         \A u \in Threads \ {t} : (pc'[u] = "reaped" <=> pc[u] = "reaped") /\ reaping'[u] = reaping[u]
  PROVE  /\ Due(tr) > 0
         /\ Due(tr)' = Due(tr) - 1
         /\ \A x \in Transfers \ {tr} : Due(x)' = Due(x)
         /\ Calling = {}
         /\ Calling' = {reaping'[t]} \ {NoTran}
  <1>1. \A u \in Threads \ {t} : pc[u] # "reaped" /\ reaping[u] = NoTran
    BY DEF OneLeader, Leading
  <1>2. \A x \in Transfers : Reapers(x) = IF x = tr THEN {t} ELSE {}
    BY <1>1 DEF Reapers
  <1>3. ASSUME NEW x \in Transfers
        PROVE  Due(x)' = inflight[x] + Cardinality(Places(completed[FdOf[x]], x)) + 0
    <2>1. {u \in Threads : pc'[u] = "reaped" /\ reaping'[u] = x} = {}
      BY <1>1
    <2>2. Cardinality({u \in Threads : pc'[u] = "reaped" /\ reaping'[u] = x}) = 0
      BY <2>1, FS_EmptySet
    <2> QED
      BY <2>2 DEF Due, Places
  <1>4. ASSUME NEW x \in Transfers
        PROVE  Due(x)' = IF x = tr THEN Due(x) - 1 ELSE Due(x)
    <2> DEFINE n == Cardinality(Places(completed[FdOf[x]], x))
               m == Cardinality(Reapers(x))
    <2>1. n \in Nat /\ inflight[x] \in Nat
      BY DueType DEF Inv, TypeOK
    <2>2. m = IF x = tr THEN 1 ELSE 0
      BY <1>2, FS_Singleton, FS_EmptySet
    <2>3. Due(x) = inflight[x] + n + m /\ Due(x)' = inflight[x] + n + 0
      BY <1>3, DueIs
    <2> HIDE DEF n, m
    <2> QED
      BY <2>1, <2>2, <2>3
  <1>5. Due(tr) > 0
    <2> DEFINE n == Cardinality(Places(completed[FdOf[tr]], tr))
               m == Cardinality(Reapers(tr))
    <2>1. n \in Nat /\ inflight[tr] \in Nat
      BY DueType DEF Inv, TypeOK
    <2>2. m = 1
      BY <1>2, FS_Singleton
    <2>3. Due(tr) = inflight[tr] + n + m
      BY DueIs
    <2> HIDE DEF n, m
    <2> QED
      BY <2>1, <2>2, <2>3
  <1>6. Calling = {}
    BY <1>1 DEF Calling
  <1>7. Calling' = {reaping'[t]} \ {NoTran}
    <2>1. \A u \in Threads \ {t} : pc'[u] # "reaped" /\ reaping'[u] = NoTran
      BY <1>1
    <2> QED
      BY <2>1 DEF Calling
  <1> QED
    BY <1>4, <1>5, <1>6, <1>7

\* When its callback returns nothing is called any more.
LEMMA CallbackDue ==
  ASSUME Inv, OneLeader, NEW t \in Threads, CallbackReturns(t)
  PROVE  /\ \A x \in Transfers : Due(x)' = Due(x)
         /\ Calling = {reaping[t]}
         /\ Calling' = {}
  <1>0. reaping[t] \in Transfers /\ pc[t] = "callback" /\ NoTran \notin Transfers
    BY ConstantsAssumption DEF ConstantsAssumption, CallbackReturns, Inv, TypeOK, Located
  <1>1. \A u \in Threads \ {t} : pc[u] # "reaped" /\ reaping[u] = NoTran
    BY <1>0 DEF OneLeader, Leading
  <1>2. /\ \A u \in Threads : pc'[u] # "reaped" /\ reaping'[u] = NoTran
        /\ UNCHANGED <<inflight, completed>>
    <2>1. FinishUrb(t, reaping[t], active[reaping[t]]) /\ UNCHANGED kernelVars
      BY DEF CallbackReturns
    <2> QED
      BY <1>0, <1>1, <2>1, FinishFacts DEF kernelVars
  <1>3. ASSUME NEW x \in Transfers PROVE Due(x)' = Due(x)
    <2>1. /\ {u \in Threads : pc'[u] = "reaped" /\ reaping'[u] = x} = {}
          /\ {u \in Threads : pc[u] = "reaped" /\ reaping[u] = x} = {}
      BY <1>0, <1>1, <1>2
    <2> QED
      BY <1>2, <2>1 DEF Due
  <1> QED
    BY <1>0, <1>1, <1>2, <1>3 DEF Calling

\* Closing a handle drops its URBs and no other ones.
LEMMA CloseDue ==
  ASSUME Inv, OneLeader, NEW t \in Threads, NEW fd \in Fds, CloseHandle(t, fd)
  PROVE  /\ \A x \in Transfers : Due(x)' \in Nat /\ Due(x)' <= Due(x)
         /\ \A x \in Transfers : client[x] \in {"pending", "bulk"} => Due(x)' = Due(x)
         /\ Calling' = Calling
  <1> USE ConstantsAssumption DEF ConstantsAssumption
  <1>1. UNCHANGED <<pc, reaping>>
    BY DEF CloseHandle, threadVars, pollVars
  <1>2. ASSUME NEW x \in Transfers
        PROVE  /\ Due(x)' \in Nat /\ Due(x)' <= Due(x)
               /\ client[x] \in {"pending", "bulk"} => Due(x)' = Due(x)
    <2> DEFINE q == completed[FdOf[x]]
               n == Cardinality(Places(q, x))
               n2 == Cardinality(Places(completed'[FdOf[x]], x))
               m == Cardinality(Reapers(x))
    <2>0. inflight[x] \in Nat
      BY DEF Inv, TypeOK
    <2>1. n \in Nat /\ m \in Nat /\ inflight[x] \in Nat
      BY <2>0, DueType
    <2>2. Due(x) = inflight[x] + n + m
      BY DueIs
    <2>3. Due(x)' = inflight'[x] + n2 + m
      BY <1>1 DEF Due, Places, Reapers
    <2>4. CASE FdOf[x] = fd
      <3>1. inflight'[x] = 0 /\ completed'[FdOf[x]] = <<>> /\ client[x] \notin {"pending", "bulk"}
        BY <2>4 DEF CloseHandle, Inv, TypeOK
      <3>2. Places(<<>>, x) = {}
        BY DEF Places
      <3>3. n2 = 0
        BY <3>1, <3>2, FS_EmptySet
      <3> HIDE DEF n, n2, m
      <3> QED
        BY <2>1, <2>2, <2>3, <3>1, <3>3
    <2>5. CASE FdOf[x] # fd
      <3>1. inflight'[x] = inflight[x] /\ completed'[FdOf[x]] = q
        BY <2>5 DEF CloseHandle, Inv, TypeOK
      <3>2. n2 = n
        BY <3>1
      <3> HIDE DEF n, n2, m
      <3> QED
        BY <2>1, <2>2, <2>3, <3>1, <3>2
    <2> QED
      BY <2>4, <2>5
  <1>3. Calling' = Calling
    BY <1>1 DEF Calling
  <1> QED
    BY <1>2, <1>3

-----------------------------------------------------------------------------
(* Clients that submit only while a loop runs.                             *)

\* At most one URB of a transfer is due, and then the transfer is active, or
\* its submission is about to mark it; a transfer stays active while its
\* callback runs.
StrictFor(tr) ==
  /\ Due(tr) <= 1
  /\ Due(tr) = 1 => client[tr] \in {"pending", "bulk"} /\ (active[tr] = 1 \/ Submitting(tr))
  /\ tr \in Calling => active[tr] # 0 /\ client[tr] \in {"called", "pending"}

Strict ==
  loopFirst => /\ \A tr \in Transfers : StrictFor(tr)
               /\ \A t \in Threads : pc[t] = "submit" => loop_locked

LEMMA StrictKept ==
  ASSUME NEW x \in Transfers, StrictFor(x), Due(x)' = Due(x), x \in Calling' => x \in Calling,
         client'[x] = client[x], active'[x] = active[x], Submitting(x) => Submitting(x)'
  PROVE  StrictFor(x)'
  BY DEF StrictFor

\* A transfer that is nobody's business can change in any way.
LEMMA StrictFree ==
  ASSUME NEW x \in Transfers, Due(x)' <= 1, Due(x)' # 1, x \notin Calling'
  PROVE  StrictFor(x)'
  BY DEF StrictFor

LEMMA LockedStep ==
  ASSUME Inv, [Next]_vars, loopFirst, \A t \in Threads : pc[t] = "submit" => loop_locked,
         Held
  PROVE  \A t \in Threads : pc'[t] = "submit" => loop_locked'
  <1>0. pc \in [Threads -> PC]
    BY DEF Inv, TypeOK
  <1>1. ASSUME UNCHANGED loop_locked, \A u \in Threads : pc'[u] = "submit" => pc[u] = "submit"
        PROVE  \A t \in Threads : pc'[t] = "submit" => loop_locked'
    BY <1>1
  <1>2. CASE UNCHANGED vars
    BY <1>1, <1>2 DEF vars, ctxVars, threadVars
  <1>3. ASSUME NEW t \in Threads, WaitingStep(t)
        PROVE  \A u \in Threads : pc'[u] # "submit"
    <2>1. /\ mutex = NoThread /\ pc'[t] # "submit"
          /\ \A u \in Threads \ {t} : pc'[u] = pc[u]
      BY <1>3, WaitingFacts
    <2> QED
      BY <2>1, ConstantsAssumption DEF Held, ConstantsAssumption
  <1>4. ASSUME NEW t \in Threads,
               \/ SubmitDone(t) \/ StopDone(t) \/ StopEventLoop(t) \/ ResetEventLoop(t)
               \/ PollReturn(t) \/ ReapNothing(t) \/ Drain(t) \/ Disturbance(t) \/ Reap(t)
               \/ \E fd \in Fds : OpenHandle(t, fd) \/ CloseHandle(t, fd)
               \/ \E tr \in Transfers :
                    \/ AllocTransfer(t, tr) \/ FreeTransfer(t, tr)
                    \/ \E c \in {"submit", "bulk"} : SubmitFail(t, tr, c) \/ SubmitNoMem(t, tr, c)
        PROVE  UNCHANGED loop_locked /\ \A u \in Threads : pc'[u] = "submit" => pc[u] = "submit"
    BY <1>0, <1>4 DEF SubmitDone, StopDone, StopEventLoop, ResetEventLoop, PollReturn, ReapNothing, Drain,
       Disturbance, SpuriousWake, PollError, Reap, OpenHandle, CloseHandle, AllocTransfer, FreeTransfer,
       SubmitFail, SubmitNoMem, Caller, Goto, ctxVars, threadVars
  <1>5. ASSUME NEW t \in Threads, Deliver(t) \/ CallbackReturns(t)
        PROVE  UNCHANGED loop_locked /\ \A u \in Threads : pc'[u] = "submit" => pc[u] = "submit"
    <2>1. reaping[t] \in Transfers /\ UNCHANGED loop_locked
      BY <1>5 DEF Deliver, CallbackReturns, Inv, TypeOK, Located
    <2>2. CASE \E a : FinishUrb(t, reaping[t], a)
      BY <2>1, <2>2, FinishFacts
    <2>3. CASE Goto(t, "callback")
      BY <1>0, <2>1, <2>3 DEF Goto
    <2> QED
      BY <1>5, <2>2, <2>3 DEF Deliver, CallbackReturns
  <1>6. ASSUME NEW tr \in Transfers, UrbDone(tr)
        PROVE  UNCHANGED <<loop_locked, pc>>
    BY <1>6 DEF UrbDone, ctxVars, threadVars
  <1>7. ASSUME NEW t \in Threads, NEW tr \in Transfers, NEW c \in {"submit", "bulk"}, SubmitUrb(t, tr, c)
        PROVE  loop_locked'
    BY <1>7 DEF SubmitUrb, Submits
  <1> QED
    BY <1>1, <1>2, <1>3, <1>4, <1>5, <1>6, <1>7, StepCases

LEMMA StrictStep ==
  ASSUME Inv, Held, OneLeader, Sorted, Strict, [Next]_vars
  PROVE  Strict'
  <1> USE ConstantsAssumption DEF ConstantsAssumption
  <1>0. /\ pc \in [Threads -> PC] /\ sub \in [Threads -> Transfers \cup {NoTran}]
        /\ active \in [Transfers -> 0 .. 2] /\ client \in [Transfers -> ClientState]
        /\ reaping \in [Threads -> Transfers \cup {NoTran}]
    BY DEF Inv, TypeOK
  <1>1. loopFirst' = loopFirst
    BY DEF Next, vars
  <1> SUFFICES ASSUME loopFirst PROVE \A x \in Transfers : StrictFor(x)'
    BY <1>1, LockedStep DEF Strict
  <1>2. /\ \A x \in Transfers : StrictFor(x)
        /\ \A t \in Threads : pc[t] = "submit" => loop_locked
    BY DEF Strict
  <1>3. \A x \in Transfers : Due(x) \in Nat
    BY DueType
  <1>4. mutex = NoThread => \A x \in Transfers : ~Submitting(x)
    BY DEF Held, Submitting
  <1>5. ASSUME \A x \in Transfers : Due(x)' = Due(x), Calling' = Calling, UNCHANGED <<client, active, sub>>,
               \A u \in Threads : pc[u] = "submit" => pc'[u] = "submit"
        PROVE  \A x \in Transfers : StrictFor(x)'
    <2>1. \A x \in Transfers : Submitting(x) => Submitting(x)'
      BY <1>5 DEF Submitting
    <2> QED
      BY <1>2, <1>5, <2>1, StrictKept
  <1>6. CASE UNCHANGED vars
    <2>1. KeepsUrbs
      BY <1>6 DEF KeepsUrbs, vars, kernelVars, threadVars, pollVars
    <2> QED
      BY <1>5, <1>6, <2>1, KeepsUrbsLemma DEF vars, tranVars, threadVars
  <1>7. ASSUME NEW t \in Threads, WaitingStep(t)
        PROVE  \A x \in Transfers : StrictFor(x)'
    <2>1. /\ mutex = NoThread /\ UNCHANGED active
          /\ \A x \in Transfers : client'[x] = client[x] \/ active[x] = 0
      BY <1>7, WaitingFacts
    <2>2. (\A x : Due(x)' = Due(x)) /\ Calling' = Calling
      BY <1>7, QuietUrbs, KeepsUrbsLemma
    <2> SUFFICES ASSUME NEW x \in Transfers PROVE StrictFor(x)'
      OBVIOUS
    <2>3. CASE client'[x] = client[x]
      BY <1>2, <1>4, <2>1, <2>2, <2>3, StrictKept
    <2>4. CASE active[x] = 0
      <3>1. Due(x) <= 1 /\ Due(x) # 1 /\ x \notin Calling
        BY <1>2, <1>4, <2>1, <2>4 DEF StrictFor
      <3> QED
        BY <2>2, <3>1, StrictFree
    <2> QED
      BY <2>1, <2>3, <2>4
  <1>8. ASSUME NEW t \in Threads, SubmitDone(t)
        PROVE  \A x \in Transfers : StrictFor(x)'
    <2>1. PICK tr \in Transfers : tr = sub[t]
      BY <1>0, <1>8 DEF SubmitDone, Inv, Located
    <2>2. (\A x : Due(x)' = Due(x)) /\ Calling' = Calling
      BY <1>8, QuietUrbs, KeepsUrbsLemma
    <2>3. /\ pc[t] = "submit" /\ active'[tr] = 1 /\ UNCHANGED client
          /\ \A x \in Transfers \ {tr} : active'[x] = active[x]
          /\ \A u \in Threads \ {t} : pc'[u] = pc[u] /\ sub'[u] = sub[u]
      BY <1>0, <1>2, <1>8, <2>1 DEF SubmitDone, ActiveAfterSubmit, Goto
    <2>4. \A x \in Transfers \ {tr} : Submitting(x) => Submitting(x)'
      BY <2>1, <2>3 DEF Submitting
    <2>5. \A x \in Transfers \ {tr} : StrictFor(x)'
      BY <1>2, <2>2, <2>3, <2>4, StrictKept
    <2>6. StrictFor(tr)'
      BY <1>2, <2>2, <2>3 DEF StrictFor
    <2> QED
      BY <2>5, <2>6
  <1>9. ASSUME NEW t \in Threads,
               \/ StopDone(t) \/ StopEventLoop(t) \/ ResetEventLoop(t)
               \/ PollReturn(t) \/ ReapNothing(t) \/ Drain(t) \/ Disturbance(t)
               \/ \E fd \in Fds : OpenHandle(t, fd)
               \/ \E tr \in Transfers, c \in {"submit", "bulk"} :
                    SubmitFail(t, tr, c) \/ SubmitNoMem(t, tr, c)
        PROVE  \A x \in Transfers : StrictFor(x)'
    <2>1. (\A x : Due(x)' = Due(x)) /\ Calling' = Calling
      BY <1>9, QuietUrbs, KeepsUrbsLemma
    <2> USE DEF StopDone, StopEventLoop, ResetEventLoop, PollReturn, ReapNothing, Drain, Disturbance,
                SpuriousWake, PollError, OpenHandle, SubmitFail, SubmitNoMem,
                kernelVars, tranVars, threadVars, pollVars
    <2>2. UNCHANGED <<client, active, sub>>
      BY <1>9
    <2>3. \A u \in Threads : pc[u] = "submit" => pc'[u] = "submit"
      BY <1>0, <1>9 DEF Goto, Ready
    <2> QED
      BY <1>5, <2>1, <2>2, <2>3
  <1>10. ASSUME NEW t \in Threads, Reap(t)
         PROVE  \A x \in Transfers : StrictFor(x)'
    BY <1>0, <1>5, <1>10, ReapDue DEF Reap, tranVars, Goto
  <1>11. ASSUME NEW tr \in Transfers, UrbDone(tr)
         PROVE  \A x \in Transfers : StrictFor(x)'
    BY <1>5, <1>11, UrbDoneDue DEF UrbDone, tranVars, threadVars
  <1>12. ASSUME NEW t \in Threads, Deliver(t)
         PROVE  \A x \in Transfers : StrictFor(x)'
    <2>1. PICK tr \in Transfers : tr = reaping[t]
      BY <1>0, <1>12 DEF Deliver, Inv, Located
    <2>2. pc[t] = "reaped" /\ mutex = NoThread
      BY <1>12 DEF Deliver
    <2>3. /\ UNCHANGED <<inflight, completed>>
          /\ pc'[t] # "reaped"
          /\ \A u \in Threads \ {t} : (pc'[u] = "reaped" <=> pc[u] = "reaped") /\ reaping'[u] = reaping[u]
          /\ \A x \in Transfers \ {tr} : active'[x] = active[x] /\ client'[x] = client[x]
          /\ \/ reaping'[t] = NoTran
             \/ reaping'[t] = tr /\ active'[tr] = 2 /\ client[tr] # "bulk"
                /\ client'[tr] = IF client[tr] = "free" THEN "free" ELSE "called"
      <3>1. CASE FinishUrb(t, tr, 2) /\ UNCHANGED client
        BY <1>12, <2>2, <3>1, FinishFacts DEF Deliver, kernelVars
      <3>2. CASE ~(FinishUrb(t, tr, 2) /\ UNCHANGED client)
        BY <1>0, <1>12, <2>1, <3>2 DEF Deliver, kernelVars, Goto
      <3> QED
        BY <3>1, <3>2
    <2>4. /\ Due(tr) > 0
          /\ Due(tr)' = Due(tr) - 1
          /\ \A x \in Transfers \ {tr} : Due(x)' = Due(x)
          /\ Calling = {}
          /\ Calling' = {reaping'[t]} \ {NoTran}
      BY <2>1, <2>2, <2>3, DeliverDue
    <2>5. ASSUME NEW x \in Transfers, x # tr PROVE StrictFor(x)'
      <3>1. x \notin Calling'
        BY <2>3, <2>4, <2>5
      <3> QED
        BY <1>2, <1>4, <2>2, <2>3, <2>4, <2>5, <3>1, StrictKept
    <2>6. Due(tr) = 1 /\ Due(tr)' = 0 /\ client[tr] \in {"pending", "bulk"}
      BY <1>2, <1>3, <2>4 DEF StrictFor
    <2>7. tr \in Calling' => active'[tr] # 0 /\ client'[tr] = "called"
      BY <2>3, <2>4, <2>6
    <2>8. StrictFor(tr)'
      BY <2>6, <2>7 DEF StrictFor
    <2> QED
      BY <2>5, <2>8
  <1>13. ASSUME NEW t \in Threads, CallbackReturns(t)
         PROVE  \A x \in Transfers : StrictFor(x)'
    <2>1. PICK tr \in Transfers : tr = reaping[t]
      BY <1>0, <1>13 DEF CallbackReturns, Inv, Located
    <2>2. mutex = NoThread /\ UNCHANGED client /\ FinishUrb(t, tr, active[tr])
      BY <1>13, <2>1 DEF CallbackReturns
    <2>3. (\A x \in Transfers : Due(x)' = Due(x)) /\ Calling' = {}
      BY <1>13, CallbackDue
    <2>4. active[tr] = 1 => active'[tr] = 1
      BY <2>2, FinishFacts DEF AfterCallback
    <2>5. \A x \in Transfers \ {tr} : active'[x] = active[x]
      BY <2>2, FinishFacts
    <2>6. \A x \in Transfers \ {tr} : StrictFor(x)'
      BY <1>2, <1>4, <2>2, <2>3, <2>5, StrictKept
    <2>7. StrictFor(tr)'
      BY <1>2, <1>4, <2>2, <2>3, <2>4 DEF StrictFor
    <2> QED
      BY <2>6, <2>7
  <1>14. ASSUME NEW t \in Threads, NEW tr \in Transfers, AllocTransfer(t, tr) \/ FreeTransfer(t, tr)
         PROVE  \A x \in Transfers : StrictFor(x)'
    <2>1. /\ client[tr] \in {"free", "idle"}
          /\ \A x \in Transfers \ {tr} : active'[x] = active[x] /\ client'[x] = client[x]
          /\ UNCHANGED <<pc, sub>>
      BY <1>0, <1>14 DEF AllocTransfer, FreeTransfer, threadVars
    <2>2. (\A x : Due(x)' = Due(x)) /\ Calling' = Calling
      BY <1>14, QuietUrbs, KeepsUrbsLemma
    <2>3. Due(tr) <= 1 /\ Due(tr) # 1 /\ tr \notin Calling
      BY <1>2, <2>1 DEF StrictFor
    <2>4. StrictFor(tr)'
      BY <2>2, <2>3, StrictFree
    <2>5. \A x \in Transfers : Submitting(x) => Submitting(x)'
      BY <2>1 DEF Submitting
    <2>6. \A x \in Transfers \ {tr} : StrictFor(x)'
      BY <1>2, <2>1, <2>2, <2>5, StrictKept
    <2> QED
      BY <2>4, <2>6
  <1>15. ASSUME NEW t \in Threads, NEW tr \in Transfers, NEW c \in {"submit", "bulk"}, SubmitUrb(t, tr, c)
         PROVE  \A x \in Transfers : StrictFor(x)'
    <2>1. /\ mutex = NoThread
          /\ \/ c = "bulk" /\ client[tr] = "free" /\ client'[tr] = "bulk"
             \/ /\ c # "bulk" /\ client[tr] \in {"idle", "called"} /\ client'[tr] = "pending"
                /\ UNCHANGED active
          /\ \A x \in Transfers \ {tr} : active'[x] = active[x] /\ client'[x] = client[x]
          /\ pc'[t] = "submit" /\ sub'[t] = tr
      BY <1>0, <1>15 DEF SubmitUrb, Submits, Goto
    <2>2. /\ Due(tr)' = Due(tr) + 1
          /\ \A x \in Transfers \ {tr} : Due(x)' = Due(x)
          /\ Calling' = Calling
      BY <1>15, SubmitDue
    <2>3. \A x \in Transfers \ {tr} : StrictFor(x)'
      BY <1>2, <1>4, <2>1, <2>2, StrictKept
    <2>4. Due(tr) = 0
      BY <1>2, <1>3, <2>1 DEF StrictFor
    <2>5. Submitting(tr)'
      BY <2>1 DEF Submitting
    <2>6. tr \in Calling => c # "bulk" /\ active[tr] # 0
      BY <1>2, <2>1 DEF StrictFor
    <2>7. Due(tr)' = 1
      BY <2>2, <2>4
    <2>8. StrictFor(tr)'
      BY <2>1, <2>2, <2>5, <2>6, <2>7 DEF StrictFor
    <2> QED
      BY <2>3, <2>8
  <1>16. ASSUME NEW t \in Threads, NEW fd \in Fds, CloseHandle(t, fd)
         PROVE  \A x \in Transfers : StrictFor(x)'
    <2> SUFFICES ASSUME NEW x \in Transfers PROVE StrictFor(x)'
      OBVIOUS
    <2>1. UNCHANGED <<client, active, pc, sub>>
      BY <1>16 DEF CloseHandle, tranVars, threadVars
    <2>2. /\ Due(x)' \in Nat /\ Due(x)' <= Due(x)
          /\ client[x] \in {"pending", "bulk"} => Due(x)' = Due(x)
          /\ Calling' = Calling
      BY <1>16, CloseDue
    <2>3. Submitting(x) => Submitting(x)'
      BY <2>1 DEF Submitting
    <2>4. CASE Due(x) = 1
      BY <1>2, <2>1, <2>2, <2>3, <2>4, StrictKept DEF StrictFor
    <2>5. CASE Due(x) # 1
      <3>1. Due(x)' # 1 /\ Due(x)' <= 1
        BY <1>2, <1>3, <2>2, <2>5 DEF StrictFor
      <3> QED
        BY <1>2, <2>1, <2>2, <3>1 DEF StrictFor
    <2> QED
      BY <2>4, <2>5
  <1> QED
    BY <1>6, <1>7, <1>8, <1>9, <1>10, <1>11, <1>12, <1>13, <1>14, <1>15, <1>16, StepCases

-----------------------------------------------------------------------------
(* The engine implements the transfer service.                             *)

\* The variables of the service, as Service maps them.
Phase == [tr \in Transfers |-> IF client[tr] \in {"free", "idle"} THEN client[tr] ELSE "busy"]
Dues == [tr \in Transfers |-> Due(tr)]
WaitedFor == [t \in Threads |-> IF call[t] = "wait" THEN arg[t] ELSE NoTran]

\* The actions of the service, in these terms.
LEMMA AbstractStutter ==
  ASSUME UNCHANGED <<loopFirst, Phase, Dues, Calling, WaitedFor>>
  PROVE  Service!ServiceNext
  BY DEF Service!ServiceNext, Service!serviceVars, Phase, Dues, Calling, WaitedFor

LEMMA AbstractAlloc ==
  ASSUME NEW tr \in Transfers, Phase[tr] = "free", Phase' = [Phase EXCEPT ![tr] = "idle"],
         UNCHANGED <<loopFirst, Dues, Calling, WaitedFor>>
  PROVE  Service!ServiceNext
  <1>1. Service!Alloc(tr)
    BY DEF Service!Alloc, Phase, Dues, Calling, WaitedFor
  <1> QED
    BY <1>1 DEF Service!ServiceNext

LEMMA AbstractSubmit ==
  ASSUME NEW tr \in Transfers, loopFirst => Dues[tr] = 0, Dues' = [Dues EXCEPT ![tr] = @ + 1],
         Phase' = [Phase EXCEPT ![tr] = "busy"], UNCHANGED <<loopFirst, Calling, WaitedFor>>
  PROVE  Service!ServiceNext
  <1>1. Service!Submit(tr)
    BY DEF Service!Submit, Phase, Dues, Calling, WaitedFor
  <1> QED
    BY <1>1 DEF Service!ServiceNext

LEMMA AbstractDeliver ==
  ASSUME NEW tr \in Transfers, Dues[tr] > 0, tr \notin Calling, Dues' = [Dues EXCEPT ![tr] = @ - 1],
         Calling' = Calling \cup {tr},
         UNCHANGED Phase \/ (~loopFirst /\ Phase' = [Phase EXCEPT ![tr] = "busy"]),
         UNCHANGED <<loopFirst, WaitedFor>>
  PROVE  Service!ServiceNext
  <1>1. Service!Deliver(tr)
    BY DEF Service!Deliver, Phase, Dues, Calling, WaitedFor
  <1> QED
    BY <1>1 DEF Service!ServiceNext

LEMMA AbstractCallbackEnds ==
  ASSUME NEW tr \in Transfers, tr \in Calling, Calling' = Calling \ {tr},
         UNCHANGED <<loopFirst, Phase, Dues, WaitedFor>>
  PROVE  Service!ServiceNext
  <1>1. Service!CallbackEnds(tr, {})
    BY DEF Service!CallbackEnds, Phase, Dues, Calling, WaitedFor
  <1> QED
    BY <1>1 DEF Service!ServiceNext

LEMMA AbstractFinish ==
  ASSUME NEW tr \in Transfers, Dues[tr] > 0, tr \notin Calling, Dues' = [Dues EXCEPT ![tr] = @ - 1],
         UNCHANGED <<loopFirst, Phase, Calling, WaitedFor>>
  PROVE  Service!ServiceNext
  <1>1. Service!Finish(tr)
    BY DEF Service!Finish, Phase, Dues, Calling, WaitedFor
  <1> QED
    BY <1>1 DEF Service!ServiceNext

LEMMA AbstractSettle ==
  ASSUME NEW tr \in Transfers, loopFirst => Dues[tr] = 0 /\ tr \notin Calling,
         NEW p \in {"idle", "free"}, Phase' = [Phase EXCEPT ![tr] = p],
         UNCHANGED <<loopFirst, Dues, Calling, WaitedFor>>
  PROVE  Service!ServiceNext
  <1>1. Service!Settle(tr)
    BY DEF Service!Settle, Service!Settled, Service!Quiet, Phase, Dues, Calling, WaitedFor
  <1> QED
    BY <1>1 DEF Service!ServiceNext

LEMMA AbstractWait ==
  ASSUME NEW t \in Threads, NEW tr \in Transfers, WaitedFor[t] = NoTran,
         WaitedFor' = [WaitedFor EXCEPT ![t] = tr], UNCHANGED <<loopFirst, Phase, Dues, Calling>>
  PROVE  Service!ServiceNext
  <1>1. Service!Wait(t, tr)
    BY DEF Service!Wait, Phase, Dues, Calling, WaitedFor
  <1> QED
    BY <1>1 DEF Service!ServiceNext

LEMMA AbstractReturn ==
  ASSUME NEW t \in Threads, NEW tr \in Transfers, WaitedFor[t] = tr,
         loopFirst => Dues[tr] = 0 /\ tr \notin Calling,
         WaitedFor' = [WaitedFor EXCEPT ![t] = NoTran], Phase' = [Phase EXCEPT ![tr] = "idle"],
         UNCHANGED <<loopFirst, Dues, Calling>>
  PROVE  Service!ServiceNext
  <1>1. tr # NoTran
    BY ConstantsAssumption DEF ConstantsAssumption
  <1>2. [u \in Threads |-> FALSE] = [[u \in Threads |-> FALSE] EXCEPT ![t] = FALSE]
    OBVIOUS
  <1>3. Service!Return(t)
    BY <1>1, <1>2 DEF Service!Return, Service!Settled, Service!Quiet, Phase, Dues, Calling, WaitedFor
  <1> QED
    BY <1>3 DEF Service!ServiceNext

LEMMA AbstractLose ==
  ASSUME ~loopFirst, Dues' \in [Transfers -> Nat], \A tr \in Transfers : Dues'[tr] <= Dues[tr],
         UNCHANGED <<loopFirst, Phase, Calling, WaitedFor>>
  PROVE  Service!ServiceNext
  <1>1. Service!Lose
    BY DEF Service!Lose, Phase, Dues, Calling, WaitedFor
  <1> QED
    BY <1>1 DEF Service!ServiceNext

\* The mapped variables change where the engine's do.
LEMMA PhaseChange ==
  ASSUME NEW tr \in Transfers, \A x \in Transfers \ {tr} : client'[x] = client[x]
  PROVE  Phase' = [Phase EXCEPT ![tr] = IF client'[tr] \in {"free", "idle"} THEN client'[tr] ELSE "busy"]
  BY DEF Phase

LEMMA DuesSame ==
  ASSUME \A x \in Transfers : Due(x)' = Due(x)
  PROVE  Dues' = Dues
  BY DEF Dues

LEMMA DuesChange ==
  ASSUME NEW tr \in Transfers, NEW d, Due(tr)' = d, \A x \in Transfers \ {tr} : Due(x)' = Due(x)
  PROVE  Dues' = [Dues EXCEPT ![tr] = d] /\ Dues[tr] = Due(tr)
  BY DEF Dues

LEMMA WaitedSame ==
  ASSUME UNCHANGED <<call, arg>>
  PROVE  UNCHANGED WaitedFor
  BY DEF WaitedFor

\* With clients that submit only while a loop runs, a transfer that is not
\* active, or that the application owns, has nothing under way.
LEMMA InactiveIsQuiet ==
  ASSUME Inv, OneLeader, Strict, NEW tr \in Transfers, ~Submitting(tr),
         active[tr] = 0 \/ client[tr] \in {"free", "idle"}
  PROVE  loopFirst => Dues[tr] = 0 /\ tr \notin Calling
  <1>1. Due(tr) \in Nat
    BY DueType
  <1> QED
    BY <1>1 DEF Strict, StrictFor, Dues

\* A waiting thread waits on, or returns with a transfer that is done.
LEMMA WaitingRefines ==
  ASSUME Inv, Held, OneLeader, Strict, Calls, NEW t \in Threads, WaitingStep(t), UNCHANGED loopFirst
  PROVE  Service!ServiceNext
  <1> USE ConstantsAssumption DEF ConstantsAssumption
  <1>0. /\ call \in [Threads -> {"none", "run", "wait", "bulk"}]
        /\ arg \in [Threads -> Transfers \cup {NoTran}]
        /\ client \in [Transfers -> ClientState]
    BY DEF Inv, TypeOK
  <1>1. (\A x : Due(x)' = Due(x)) /\ Calling' = Calling
    BY QuietUrbs, KeepsUrbsLemma
  <1>2. Dues' = Dues
    BY <1>1, DuesSame
  <1>3. \A x \in Transfers : active[x] = 0 => (loopFirst => Dues[x] = 0 /\ x \notin Calling)
    <2>1. \A x \in Transfers : ~Submitting(x)
      BY WaitingFacts DEF Held, Submitting
    <2> QED
      BY <2>1, InactiveIsQuiet
  <1>4. CASE WaitForLoop(t) /\ call[t] \in {"none", "run"}
    <2>1. UNCHANGED client /\ call' = [call EXCEPT ![t] = "run"] /\ UNCHANGED arg
      BY <1>4 DEF WaitForLoop, tranVars
    <2>2. UNCHANGED Phase
      BY <2>1 DEF Phase
    <2>3. UNCHANGED WaitedFor
      BY <1>0, <1>4, <2>1 DEF WaitedFor
    <2> QED
      BY <1>1, <1>2, <2>2, <2>3, AbstractStutter
  <1>5. ASSUME NEW c \in {"run", "wait", "bulk"}, NEW tr \in Transfers \cup {NoTran},
               c # "run" => tr \in Transfers,
               \/ call[t] = c /\ (c # "run" => arg[t] = tr)
               \/ call[t] = "none" /\ c # "bulk",
               WaitsOn(t, c, tr)
        PROVE  Service!ServiceNext
    <2>1. UNCHANGED Phase
      BY <1>5 DEF WaitsOn, Phase
    <2>2. /\ call' = [call EXCEPT ![t] = c] /\ arg' = [arg EXCEPT ![t] = tr]
      BY <1>5 DEF WaitsOn
    <2>3. CASE call[t] = "none" /\ c = "wait"
      <3>1. WaitedFor[t] = NoTran /\ WaitedFor' = [WaitedFor EXCEPT ![t] = tr]
        BY <1>0, <2>2, <2>3 DEF WaitedFor
      <3> QED
        BY <1>1, <1>2, <1>5, <2>1, <2>3, <3>1, AbstractWait
    <2>4. CASE ~(call[t] = "none" /\ c = "wait")
      <3>1. UNCHANGED WaitedFor
        BY <1>0, <1>5, <2>2, <2>4 DEF WaitedFor
      <3> QED
        BY <1>1, <1>2, <2>1, <3>1, <1>5, AbstractStutter
    <2> QED
      BY <2>3, <2>4
  <1>6. ASSUME NEW c \in {"run", "wait", "bulk"}, NEW tr \in Transfers \cup {NoTran},
               c # "run" => tr \in Transfers,
               \/ call[t] = c /\ (c # "run" => arg[t] = tr)
               \/ call[t] = "none" /\ c # "bulk",
               Returns(t, c, tr)
        PROVE  Service!ServiceNext
    <2>1. /\ call' = [call EXCEPT ![t] = "none"] /\ arg' = [arg EXCEPT ![t] = NoTran]
          /\ client' = Released(c, tr)
          /\ c # "run" => active[tr] = 0
      BY <1>6 DEF Returns, Return
    <2>2. CASE c = "run"
      <3>1. UNCHANGED Phase
        BY <2>1, <2>2 DEF Released, Phase
      <3>2. UNCHANGED WaitedFor
        BY <1>0, <1>6, <2>1, <2>2 DEF WaitedFor
      <3> QED
        BY <1>1, <1>2, <1>6, <3>1, <3>2, AbstractStutter
    <2>3. CASE c # "run"
      <3> DEFINE p == IF c = "bulk" THEN "free" ELSE "idle"
      <3>1. tr \in Transfers /\ client' = [client EXCEPT ![tr] = p]
        BY <1>6, <2>1, <2>3 DEF Released
      <3>2. p \in {"idle", "free"}
        OBVIOUS
      <3>3. Phase' = [Phase EXCEPT ![tr] = p]
        <4> HIDE DEF p
        <4>1. client'[tr] = p /\ \A x \in Transfers \ {tr} : client'[x] = client[x]
          BY <1>0, <3>1
        <4> QED
          BY <3>1, <3>2, <4>1, PhaseChange
      <3>4. loopFirst => Dues[tr] = 0 /\ tr \notin Calling
        BY <1>3, <2>1, <2>3, <3>1
      <3>5. CASE call[t] = "wait"
        <4>1. c = "wait" /\ p = "idle" /\ arg[t] = tr
          BY <1>6, <3>5
        <4>2. WaitedFor[t] = tr /\ WaitedFor' = [WaitedFor EXCEPT ![t] = NoTran]
          BY <1>0, <2>1, <3>5, <4>1 DEF WaitedFor
        <4> HIDE DEF p
        <4> QED
          BY <1>1, <1>2, <3>1, <3>3, <3>4, <4>1, <4>2, AbstractReturn
      <3>6. CASE call[t] # "wait"
        <4>1. UNCHANGED WaitedFor
          BY <1>0, <2>1, <3>6 DEF WaitedFor
        <4> HIDE DEF p
        <4> QED
          BY <1>1, <1>2, <3>1, <3>2, <3>3, <3>4, <4>1, AbstractSettle
      <3> QED
        BY <3>5, <3>6
    <2> QED
      BY <2>2, <2>3
  <1> QED
    BY <1>4, <1>5, <1>6, WaitingOutcome

\* A reaped URB: its callback begins, or its synchronous transfer ends.
LEMMA DeliverRefines ==
  ASSUME Inv, OneLeader, Strict, NEW t \in Threads, Deliver(t), UNCHANGED loopFirst
  PROVE  Service!ServiceNext
  <1> USE ConstantsAssumption DEF ConstantsAssumption
  <1>0. /\ pc \in [Threads -> PC] /\ client \in [Transfers -> ClientState]
        /\ reaping \in [Threads -> Transfers \cup {NoTran}]
    BY DEF Inv, TypeOK
  <1>1. PICK tr \in Transfers : tr = reaping[t]
    BY <1>0 DEF Deliver, Inv, Located
  <1>2. pc[t] = "reaped" /\ UNCHANGED <<inflight, completed>>
    BY DEF Deliver, kernelVars
  <1>3. UNCHANGED WaitedFor
    BY WaitedSame DEF Deliver
  <1>4. CASE client[tr] = "bulk" /\ FinishUrb(t, tr, 2) /\ UNCHANGED client
    <2>1. /\ pc'[t] # "reaped" /\ reaping'[t] = NoTran
          /\ \A u \in Threads \ {t} : (pc'[u] = "reaped" <=> pc[u] = "reaped") /\ reaping'[u] = reaping[u]
      BY <1>2, <1>4, FinishFacts
    <2>2. /\ Due(tr) > 0 /\ Due(tr)' = Due(tr) - 1 /\ \A x \in Transfers \ {tr} : Due(x)' = Due(x)
          /\ Calling = {} /\ Calling' = {reaping'[t]} \ {NoTran}
      BY <1>1, <1>2, <2>1, DeliverDue
    <2>3. Dues' = [Dues EXCEPT ![tr] = Due(tr) - 1] /\ Dues[tr] = Due(tr)
      BY <2>2, DuesChange
    <2>4. UNCHANGED Phase
      BY <1>4 DEF Phase
    <2>5. Dues' = [Dues EXCEPT ![tr] = @ - 1] /\ Dues[tr] > 0
      BY <2>2, <2>3
    <2> QED
      BY <1>3, <2>1, <2>2, <2>4, <2>5, AbstractFinish
  <1>5. CASE /\ client[tr] # "bulk" /\ Goto(t, "callback") /\ UNCHANGED reaping
             /\ client' = [client EXCEPT ![tr] = IF @ = "free" THEN @ ELSE "called"]
    <2>1. /\ pc'[t] # "reaped" /\ reaping'[t] = tr
          /\ \A u \in Threads \ {t} : (pc'[u] = "reaped" <=> pc[u] = "reaped") /\ reaping'[u] = reaping[u]
          /\ \A x \in Transfers \ {tr} : client'[x] = client[x]
          /\ client'[tr] = IF client[tr] = "free" THEN "free" ELSE "called"
      BY <1>0, <1>1, <1>5 DEF Goto
    <2>2. /\ Due(tr) > 0 /\ Due(tr)' = Due(tr) - 1 /\ \A x \in Transfers \ {tr} : Due(x)' = Due(x)
          /\ Calling = {} /\ Calling' = {reaping'[t]} \ {NoTran}
      BY <1>1, <1>2, <2>1, DeliverDue
    <2>3. Dues' = [Dues EXCEPT ![tr] = Due(tr) - 1] /\ Dues[tr] = Due(tr)
      BY <2>2, DuesChange
    <2>4. Dues' = [Dues EXCEPT ![tr] = @ - 1] /\ Dues[tr] > 0
      BY <2>2, <2>3
    <2>5. Calling' = Calling \cup {tr} /\ tr \notin Calling
      BY <2>1, <2>2
    <2>6. UNCHANGED Phase \/ (~loopFirst /\ Phase' = [Phase EXCEPT ![tr] = "busy"])
      <3>1. CASE client[tr] \in {"pending", "called"}
        BY <2>1, <3>1 DEF Phase
      <3>2. CASE client[tr] = "free"
        BY <2>1, <3>2 DEF Phase
      <3>3. CASE client[tr] = "idle"
        <4>1. Due(tr) \in Nat
          BY DueType
        <4>2. ~loopFirst
          BY <2>2, <3>3, <4>1 DEF Strict, StrictFor
        <4>3. Phase' = [Phase EXCEPT ![tr] = "busy"]
          BY <2>1, <3>3, PhaseChange
        <4> QED
          BY <4>2, <4>3
      <3> QED
        BY <1>0, <1>5, <3>1, <3>2, <3>3 DEF ClientState
    <2> QED
      BY <1>3, <2>4, <2>5, <2>6, AbstractDeliver
  <1> QED
    BY <1>1, <1>4, <1>5 DEF Deliver

LEMMA CallbackRefines ==
  ASSUME Inv, OneLeader, NEW t \in Threads, CallbackReturns(t), UNCHANGED loopFirst
  PROVE  Service!ServiceNext
  <1>1. reaping[t] \in Transfers
    BY DEF CallbackReturns, Inv, TypeOK, Located
  <1>2. (\A x \in Transfers : Due(x)' = Due(x)) /\ Calling = {reaping[t]} /\ Calling' = {}
    BY CallbackDue
  <1>3. UNCHANGED WaitedFor
    BY WaitedSame DEF CallbackReturns
  <1>4. UNCHANGED Phase
    BY DEF CallbackReturns, Phase
  <1> QED
    BY <1>1, <1>2, <1>3, <1>4, DuesSame, AbstractCallbackEnds

\* A submission; libusby_bulk_transfer comes with a transfer of its own.
LEMMA SubmitRefines ==
  ASSUME Inv, Held, OneLeader, Strict, Calls, NEW t \in Threads, NEW tr \in Transfers,
         NEW c \in {"submit", "bulk"}, SubmitUrb(t, tr, c), UNCHANGED loopFirst
  PROVE  Service!ServiceNext
  <1>0. /\ call \in [Threads -> {"none", "run", "wait", "bulk"}]
        /\ client \in [Transfers -> ClientState]
        /\ Due(tr) \in Nat
    BY DueType DEF Inv, TypeOK
  <1>1. /\ client[tr] \in {"free", "idle", "called"} /\ client'[tr] \in {"pending", "bulk"}
        /\ \A x \in Transfers \ {tr} : client'[x] = client[x]
    BY <1>0 DEF SubmitUrb, Submits
  <1>2. /\ Due(tr)' = Due(tr) + 1
        /\ \A x \in Transfers \ {tr} : Due(x)' = Due(x)
        /\ Calling' = Calling
    BY SubmitDue
  <1>3. Dues' = [Dues EXCEPT ![tr] = Due(tr) + 1] /\ Dues[tr] = Due(tr)
    BY <1>2, DuesChange
  <1>4. Dues' = [Dues EXCEPT ![tr] = @ + 1]
    BY <1>3
  <1>5. loopFirst => Dues[tr] = 0
    BY <1>0, <1>1, <1>3 DEF Strict, StrictFor
  <1>6. Phase' = [Phase EXCEPT ![tr] = "busy"]
    BY <1>1, PhaseChange
  <1>7. UNCHANGED WaitedFor
    <2>1. CASE c = "bulk"
      <3>1. call[t] = "none" /\ call' = [call EXCEPT ![t] = "bulk"] /\ arg' = [arg EXCEPT ![t] = tr]
        BY <2>1 DEF SubmitUrb, Submits, Calls, CallFits
      <3>2. arg \in [Threads -> Transfers \cup {NoTran}]
        BY DEF Inv, TypeOK
      <3> QED
        BY <1>0, <3>1, <3>2 DEF WaitedFor
    <2>2. CASE c # "bulk"
      BY <2>2, WaitedSame DEF SubmitUrb
    <2> QED
      BY <2>1, <2>2
  <1> QED
    BY <1>2, <1>4, <1>5, <1>6, <1>7, AbstractSubmit

\* Closing a handle loses URBs only if clients may submit without a loop.
LEMMA CloseRefines ==
  ASSUME Inv, OneLeader, Strict, NEW t \in Threads, NEW fd \in Fds, CloseHandle(t, fd), UNCHANGED loopFirst
  PROVE  Service!ServiceNext
  <1>1. /\ \A x \in Transfers : Due(x)' \in Nat /\ Due(x)' <= Due(x)
        /\ \A x \in Transfers : client[x] \in {"pending", "bulk"} => Due(x)' = Due(x)
        /\ Calling' = Calling
    BY CloseDue
  <1>2. UNCHANGED WaitedFor
    BY WaitedSame DEF CloseHandle, threadVars
  <1>3. UNCHANGED Phase
    BY DEF CloseHandle, tranVars, Phase
  <1>4. CASE loopFirst
    <2>1. ASSUME NEW x \in Transfers PROVE Due(x)' = Due(x)
      <3>1. CASE client[x] \in {"pending", "bulk"}
        BY <1>1, <3>1
      <3>2. CASE client[x] \notin {"pending", "bulk"}
        <4>1. Due(x) \in Nat /\ Due(x) <= 1 /\ Due(x) # 1
          BY <1>4, <3>2, DueType DEF Strict, StrictFor
        <4> QED
          BY <1>1, <4>1
      <3> QED
        BY <3>1, <3>2
    <2> QED
      BY <1>1, <1>2, <1>3, <2>1, DuesSame, AbstractStutter
  <1>5. CASE ~loopFirst
    <2>1. Dues' \in [Transfers -> Nat] /\ \A x \in Transfers : Dues'[x] <= Dues[x]
      BY <1>1 DEF Dues
    <2> QED
      BY <1>1, <1>2, <1>3, <1>5, <2>1, AbstractLose
  <1> QED
    BY <1>4, <1>5

\* Every step of the engine is a step of the service, or none of its business.
LEMMA StepRefines ==
  ASSUME Inv, Held, OneLeader, Strict, Calls, Sorted, [Next]_vars
  PROVE  Service!ServiceNext
  <1>0. UNCHANGED loopFirst
    BY DEF Next, vars
  <1>1. ASSUME \A x \in Transfers : Due(x)' = Due(x), Calling' = Calling, UNCHANGED <<client, call, arg>>
        PROVE  Service!ServiceNext
    <2>1. UNCHANGED Phase
      BY <1>1 DEF Phase
    <2> QED
      BY <1>0, <1>1, <2>1, DuesSame, WaitedSame, AbstractStutter
  <1>2. CASE UNCHANGED vars
    <2>1. KeepsUrbs
      BY <1>2 DEF KeepsUrbs, vars, kernelVars, threadVars, pollVars
    <2> QED
      BY <1>1, <1>2, <2>1, KeepsUrbsLemma DEF vars, tranVars, threadVars
  <1>3. ASSUME NEW t \in Threads,
               \/ SubmitDone(t) \/ StopDone(t) \/ StopEventLoop(t) \/ ResetEventLoop(t)
               \/ PollReturn(t) \/ ReapNothing(t) \/ Drain(t) \/ Disturbance(t)
               \/ \E fd \in Fds : OpenHandle(t, fd)
               \/ \E tr \in Transfers, c \in {"submit", "bulk"} :
                    SubmitFail(t, tr, c) \/ SubmitNoMem(t, tr, c)
        PROVE  Service!ServiceNext
    <2>1. (\A x : Due(x)' = Due(x)) /\ Calling' = Calling
      BY <1>3, QuietUrbs, KeepsUrbsLemma
    <2>2. UNCHANGED <<client, call, arg>>
      BY <1>3 DEF SubmitDone, StopDone, StopEventLoop, ResetEventLoop, PollReturn, ReapNothing, Drain,
         Disturbance, SpuriousWake, PollError, OpenHandle, SubmitFail, SubmitNoMem, tranVars, threadVars
    <2> QED
      BY <1>1, <2>1, <2>2
  <1>4. ASSUME NEW t \in Threads, Reap(t)
        PROVE  Service!ServiceNext
    BY <1>1, <1>4, ReapDue DEF Reap, tranVars
  <1>5. ASSUME NEW tr \in Transfers, UrbDone(tr)
        PROVE  Service!ServiceNext
    BY <1>1, <1>5, UrbDoneDue DEF UrbDone, tranVars, threadVars
  <1>6. ASSUME NEW t \in Threads, NEW tr \in Transfers, AllocTransfer(t, tr) \/ FreeTransfer(t, tr)
        PROVE  Service!ServiceNext
    <2>1. (\A x : Due(x)' = Due(x)) /\ Calling' = Calling
      BY <1>6, QuietUrbs, KeepsUrbsLemma
    <2>2. UNCHANGED WaitedFor
      BY <1>6, WaitedSame DEF AllocTransfer, FreeTransfer, threadVars
    <2>3. client \in [Transfers -> ClientState]
      BY DEF Inv, TypeOK
    <2>4. CASE AllocTransfer(t, tr)
      <3>1. Phase[tr] = "free" /\ Phase' = [Phase EXCEPT ![tr] = "idle"]
        BY <2>3, <2>4, PhaseChange DEF AllocTransfer, Phase
      <3> QED
        BY <1>0, <2>1, <2>2, <3>1, DuesSame, AbstractAlloc
    <2>5. CASE FreeTransfer(t, tr)
      <3>1. client[tr] = "idle" /\ Phase' = [Phase EXCEPT ![tr] = "free"]
        BY <2>3, <2>5, PhaseChange DEF FreeTransfer, Phase
      <3>2. loopFirst => Dues[tr] = 0 /\ tr \notin Calling
        <4>1. Due(tr) \in Nat
          BY DueType
        <4> QED
          BY <3>1, <4>1 DEF Strict, StrictFor, Dues
      <3> QED
        BY <1>0, <2>1, <2>2, <3>1, <3>2, DuesSame, AbstractSettle
    <2> QED
      BY <1>6, <2>4, <2>5
  <1> QED
    BY <1>0, <1>2, <1>3, <1>4, <1>5, <1>6, WaitingRefines, DeliverRefines, CallbackRefines, SubmitRefines,
       CloseRefines, StepCases

LEMMA InitRefines ==
  ASSUME Init
  PROVE  /\ Service!ServiceInit
         /\ Sorted /\ Calls /\ Strict
  <1> USE ConstantsAssumption DEF ConstantsAssumption
  <1>1. \A x \in Transfers : Due(x) = 0
    <2> SUFFICES ASSUME NEW x \in Transfers PROVE Due(x) = 0
      OBVIOUS
    <2>1. /\ inflight[x] = 0
          /\ {i \in DOMAIN completed[FdOf[x]] : completed[FdOf[x]][i] = x} = {}
          /\ {t \in Threads : pc[t] = "reaped" /\ reaping[t] = x} = {}
      BY DEF Init
    <2> QED
      BY <2>1, FS_EmptySet DEF Due
  <1>2. Calling = {}
    BY DEF Init, Calling
  <1>3. Sorted
    BY DEF Init, Sorted
  <1>4. Calls
    BY DEF Init, Calls, CallFits, Leading
  <1>5. Strict
    BY <1>1, <1>2 DEF Init, Strict, StrictFor
  <1>6. /\ Phase = [tr \in Transfers |-> "free"]
        /\ Dues = [tr \in Transfers |-> 0]
        /\ WaitedFor = [t \in Threads |-> NoTran]
        /\ loopFirst \in BOOLEAN
    BY <1>1 DEF Init, Phase, Dues, WaitedFor
  <1>7. Service!ServiceInit
    BY <1>2, <1>6 DEF Service!ServiceInit, Phase, Dues, WaitedFor, Calling
  <1> QED
    BY <1>3, <1>4, <1>5, <1>7

\* usbyb_submit_transfer and usbfs_run_event_loop_impl are a transfer service:
\* a callback belongs to one submission, comes after it and never during
\* another one of the same transfer; and with clients that submit only while a
\* loop runs no submission is lost, and usbyb_wait_for_transfer and
\* usbyb_perform_transfer return a transfer only when nothing of it is under
\* way.  As everything that needs a single leader this supposes that
\* usbyb_reset_event_loop is only called when no thread leads the loop.
THEOREM EngineImplementsService == QuietReset => (Spec => ImplementsService)
  <1> SUFFICES ASSUME QuietReset PROVE Spec => ImplementsService
    OBVIOUS
  <1> DEFINE All == Inv /\ Held /\ Led /\ Sorted /\ Calls /\ Strict
  <1>1. Init => Service!ServiceInit /\ All
    BY InitInv, InitOwed, InitLed, InitRefines DEF Owed
  <1>2. All /\ [Next]_vars => All'
    BY StepInv, HeldStep, StepLed, SortedStep, CallsStep, StrictStep DEF Led
  <1>3. All /\ [Next]_vars => [Service!ServiceNext]_(Service!serviceVars)
    BY StepRefines DEF Led
  <1> HIDE DEF All
  <1> QED
    BY <1>1, <1>2, <1>3, PTL DEF Spec, ImplementsService, Service!ServiceSpec

-----------------------------------------------------------------------------
(* No broadcast is missed.                                                 *)

\* A transfer that a thread waits for stays allocated, and one that
\* libusby_bulk_transfer waits for is its own.
Waits ==
  \A t \in Threads :
    /\ call[t] = "wait" => client[arg[t]] \notin {"free", "bulk"}
    /\ call[t] = "bulk" => /\ client[arg[t]] = "bulk"
                           /\ \A u \in Threads \ {t} : call[u] = "bulk" => arg[u] # arg[t]

\* A transfer somebody sleeps for is active.
Asleep == \A t \in Threads : pc[t] = "tranwait" => active[arg[t]] # 0

\* The loop somebody sleeps for is enabled, or is just being stopped.
CtxAsleep ==
  \A t \in Threads : pc[t] = "ctxwait" => loop_enabled \/ \E u \in Threads : pc[u] = "stop"

LEMMA WaitsKept ==
  ASSUME Waits, Calls, UNCHANGED <<call, arg>>,
         \A x \in Transfers : \/ client'[x] = client[x]
                              \/ {client[x], client'[x]} \cap {"free", "bulk"} = {}
  PROVE  Waits'
  BY DEF Waits, Calls, CallFits

\* A transfer nobody waits for can be taken or given back.
LEMMA WaitsElsewhere ==
  ASSUME Waits, Calls, UNCHANGED <<call, arg>>, NEW tr \in Transfers,
         \A x \in Transfers \ {tr} : client'[x] = client[x],
         \A t \in Threads : call[t] \in {"wait", "bulk"} => arg[t] # tr
  PROVE  Waits'
  BY DEF Waits, Calls, CallFits

LEMMA AsleepKept ==
  ASSUME Asleep, Calls,
         \A u \in Threads : pc'[u] = "tranwait" => pc[u] = "tranwait" /\ arg'[u] = arg[u],
         \A x \in Transfers : active[x] # 0 => active'[x] # 0
  PROVE  Asleep'
  BY DEF Asleep, Calls, CallFits

LEMMA CtxAsleepKept ==
  ASSUME CtxAsleep, loop_enabled => loop_enabled',
         \A u \in Threads : /\ pc'[u] = "ctxwait" => pc[u] = "ctxwait"
                            /\ pc[u] = "stop" => pc'[u] = "stop"
  PROVE  CtxAsleep'
  BY DEF CtxAsleep

\* A thread that starts to wait, goes on, or returns.
LEMMA WaitingSleeps ==
  ASSUME Inv, Held, Calls, Waits, Asleep, CtxAsleep, NEW t \in Threads, WaitingStep(t)
  PROVE  Waits' /\ Asleep' /\ CtxAsleep'
  <1>0. /\ pc \in [Threads -> PC]
        /\ call \in [Threads -> {"none", "run", "wait", "bulk"}]
        /\ arg \in [Threads -> Transfers \cup {NoTran}]
        /\ client \in [Transfers -> ClientState]
    BY DEF Inv, TypeOK
  <1>1. /\ mutex = NoThread
        /\ \A u \in Threads \ {t} : pc'[u] = pc[u] /\ call'[u] = call[u] /\ arg'[u] = arg[u]
        /\ UNCHANGED <<loop_enabled, active>>
        /\ pc'[t] \in {"idle", "tranwait", "ctxwait", "poll"}
    BY WaitingFacts
  <1>2. \A u \in Threads : pc[u] # "stop"
    BY <1>1, ConstantsAssumption DEF Held, ConstantsAssumption
  <1>3. \A u \in Threads : pc[u] = "ctxwait" => loop_enabled
    BY <1>2 DEF CtxAsleep
  <1>4. CASE WaitForLoop(t) /\ call[t] \in {"none", "run"} /\ loop_enabled
    <2>1. pc'[t] = "ctxwait" /\ call'[t] = "run" /\ UNCHANGED client
      BY <1>0, <1>4 DEF WaitForLoop, Goto, tranVars
    <2>2. Waits'
      BY <1>1, <2>1 DEF Waits
    <2>3. Asleep'
      BY <1>1, <2>1 DEF Asleep
    <2>4. CtxAsleep'
      BY <1>1, <1>4 DEF CtxAsleep
    <2> QED
      BY <2>2, <2>3, <2>4
  <1>5. ASSUME NEW c \in {"run", "wait", "bulk"}, NEW tr \in Transfers \cup {NoTran},
               c # "run" => tr \in Transfers,
               \/ call[t] = c /\ (c # "run" => arg[t] = tr)
               \/ call[t] = "none" /\ c # "bulk" /\ (c = "wait" => client[tr] \notin {"free", "bulk"}),
               WaitsOn(t, c, tr)
        PROVE  Waits' /\ Asleep' /\ CtxAsleep'
    <2>1. /\ call'[t] = c /\ arg'[t] = tr /\ UNCHANGED client
          /\ pc'[t] = "poll" \/ (pc'[t] = "tranwait" /\ active[tr] # 0)
      BY <1>0, <1>5 DEF WaitsOn, Goto
    <2>2. Waits'
      BY <1>1, <1>5, <2>1 DEF Waits
    <2>3. Asleep'
      BY <1>1, <2>1 DEF Asleep
    <2>4. CtxAsleep'
      BY <1>1, <1>3, <2>1 DEF CtxAsleep
    <2> QED
      BY <2>2, <2>3, <2>4
  <1>6. ASSUME NEW c \in {"run", "wait", "bulk"}, NEW tr \in Transfers \cup {NoTran},
               c # "run" => tr \in Transfers,
               \/ call[t] = c /\ (c # "run" => arg[t] = tr)
               \/ call[t] = "none" /\ c # "bulk" /\ (c = "wait" => client[tr] \notin {"free", "bulk"}),
               Returns(t, c, tr)
        PROVE  Waits' /\ Asleep' /\ CtxAsleep'
    <2>1. /\ pc'[t] = "idle" /\ call'[t] = "none"
          /\ c = "run" => UNCHANGED client
          /\ c = "wait" => client'[tr] = "idle"
          /\ c = "bulk" => client'[tr] = "free"
          /\ c # "run" => \A x \in Transfers \ {tr} : client'[x] = client[x]
      BY <1>0, <1>6 DEF Returns, Return, Released, Goto
    <2>2. Waits'
      <3>1. CASE c = "run"
        BY <1>1, <2>1, <3>1 DEF Waits
      <3>2. CASE c = "wait"
        <4>1. client[tr] \notin {"free", "bulk"}
          BY <1>6, <3>2 DEF Waits
        <4> QED
          BY <1>1, <2>1, <3>2, <4>1 DEF Waits, Calls, CallFits
      <3>3. CASE c = "bulk"
        <4>1. call[t] = "bulk" /\ arg[t] = tr
          BY <1>6, <3>3
        <4>2. \A u \in Threads \ {t} : call[u] \in {"wait", "bulk"} => arg[u] # tr
          BY <4>1 DEF Waits
        <4> QED
          BY <1>1, <2>1, <3>3, <4>2 DEF Waits, Calls, CallFits
      <3> QED
        BY <3>1, <3>2, <3>3
    <2>3. Asleep'
      BY <1>1, <2>1 DEF Asleep
    <2>4. CtxAsleep'
      BY <1>1, <1>3, <2>1 DEF CtxAsleep
    <2> QED
      BY <2>2, <2>3, <2>4
  <1> QED
    BY <1>4, <1>5, <1>6, WaitingOutcome

LEMMA SleepStep ==
  ASSUME Inv, Held, Calls, Waits, Asleep, CtxAsleep, [Next]_vars
  PROVE  Waits' /\ Asleep' /\ CtxAsleep'
  <1> USE ConstantsAssumption DEF ConstantsAssumption
  <1>0. /\ pc \in [Threads -> PC]
        /\ call \in [Threads -> {"none", "run", "wait", "bulk"}]
        /\ arg \in [Threads -> Transfers \cup {NoTran}]
        /\ active \in [Transfers -> 0 .. 2]
        /\ client \in [Transfers -> ClientState]
    BY DEF Inv, TypeOK
  <1>1. ASSUME NEW tr \in Transfers, client[tr] = "free"
        PROVE  \A t \in Threads :
                 /\ call[t] \in {"wait", "bulk"} => arg[t] # tr
                 /\ pc[t] = "tranwait" => arg[t] # tr
    BY <1>1 DEF Waits, Calls, CallFits
  <1>2. CASE UNCHANGED vars
    <2>1. UNCHANGED <<pc, call, arg, client, active, loop_enabled>>
      BY <1>2 DEF vars, ctxVars, tranVars, threadVars
    <2> QED
      BY <2>1, WaitsKept, AsleepKept, CtxAsleepKept
  <1>3. ASSUME NEW t \in Threads, WaitingStep(t)
        PROVE  Waits' /\ Asleep' /\ CtxAsleep'
    BY <1>3, WaitingSleeps
  <1>4. ASSUME NEW t \in Threads, SubmitDone(t)
        PROVE  Waits' /\ Asleep' /\ CtxAsleep'
    <2>1. /\ UNCHANGED <<call, arg, client, loop_enabled>>
          /\ pc[t] = "submit" /\ pc'[t] \in {"callback", "wait", "idle"}
          /\ \A u \in Threads \ {t} : pc'[u] = pc[u]
          /\ \A x \in Transfers : active[x] # 0 => active'[x] # 0
      BY <1>0, <1>4 DEF SubmitDone, ActiveAfterSubmit, Caller, Goto
    <2> QED
      BY <2>1, WaitsKept, AsleepKept, CtxAsleepKept
  <1>5. ASSUME NEW t \in Threads, StopEventLoop(t)
        PROVE  Waits' /\ Asleep' /\ CtxAsleep'
    <2>1. /\ UNCHANGED <<call, arg, client, active>>
          /\ pc'[t] = "stop"
          /\ \A u \in Threads \ {t} : pc'[u] = pc[u]
      BY <1>0, <1>5 DEF StopEventLoop, Goto
    <2>2. CtxAsleep'
      BY <2>1 DEF CtxAsleep
    <2> QED
      BY <2>1, <2>2, WaitsKept, AsleepKept
  <1>6. ASSUME NEW t \in Threads, StopDone(t)
        PROVE  Waits' /\ Asleep' /\ CtxAsleep'
    <2>1. /\ UNCHANGED <<call, arg, client, active>>
          /\ \A u \in Threads : pc'[u] # "ctxwait" /\ (pc'[u] = "tranwait" => pc[u] = "tranwait")
      BY <1>0, <1>6 DEF StopDone, Caller, tranVars
    <2>2. CtxAsleep'
      BY <2>1 DEF CtxAsleep
    <2> QED
      BY <2>1, <2>2, WaitsKept, AsleepKept
  <1>7. ASSUME NEW t \in Threads,
               \/ ResetEventLoop(t) \/ PollReturn(t) \/ ReapNothing(t) \/ Drain(t) \/ Disturbance(t)
               \/ Reap(t)
               \/ \E fd \in Fds : OpenHandle(t, fd) \/ CloseHandle(t, fd)
               \/ \E tr \in Transfers, c \in {"submit", "bulk"} :
                    SubmitFail(t, tr, c) \/ SubmitNoMem(t, tr, c)
        PROVE  Waits' /\ Asleep' /\ CtxAsleep'
    <2> USE DEF ResetEventLoop, PollReturn, ReapNothing, Drain, Disturbance, SpuriousWake, PollError, Reap,
                OpenHandle, CloseHandle, SubmitFail, SubmitNoMem, ctxVars, tranVars, threadVars
    <2>1. UNCHANGED <<call, arg, client, active>> /\ (loop_enabled => loop_enabled')
      BY <1>7
    <2>2. \A u \in Threads :
            \/ pc'[u] = pc[u]
            \/ pc[u] # "stop" /\ pc'[u] \notin {"ctxwait", "tranwait"}
      BY <1>0, <1>7 DEF Goto
    <2> QED
      BY <2>1, <2>2, WaitsKept, AsleepKept, CtxAsleepKept
  <1>8. ASSUME NEW t \in Threads, Deliver(t) \/ CallbackReturns(t)
        PROVE  Waits' /\ Asleep' /\ CtxAsleep'
    <2>1. PICK tr \in Transfers : tr = reaping[t] /\ pc[t] \in {"reaped", "callback"}
      BY <1>8 DEF Deliver, CallbackReturns, Inv, TypeOK, Located
    <2>2. /\ UNCHANGED <<call, arg, loop_enabled>>
          /\ \A x \in Transfers \ {tr} : client'[x] = client[x]
          /\ \/ client'[tr] = client[tr]
             \/ client[tr] \notin {"free", "bulk"} /\ client'[tr] = "called"
      BY <1>0, <1>8, <2>1 DEF Deliver, CallbackReturns
    <2>3. Waits'
      BY <2>2, WaitsKept
    <2>4. CASE Goto(t, "callback") /\ active' = [active EXCEPT ![tr] = 2]
      <3>1. /\ pc'[t] = "callback" /\ \A u \in Threads \ {t} : pc'[u] = pc[u]
            /\ \A x \in Transfers : active[x] # 0 => active'[x] # 0
        BY <1>0, <2>4 DEF Goto
      <3> QED
        BY <2>1, <2>2, <2>3, <3>1, AsleepKept, CtxAsleepKept
    <2>5. ASSUME NEW a, FinishUrb(t, tr, a), a = 2 \/ a = active[tr]
          PROVE  Waits' /\ Asleep' /\ CtxAsleep'
      <3>1. /\ pc'[t] = "scan"
            /\ \A u \in Threads \ {t} :
                 pc'[u] = pc[u] \/ (pc[u] = "tranwait" /\ pc'[u] = "tranwoken")
            /\ active'[tr] = AfterCallback(a)
            /\ \A x \in Transfers \ {tr} : active'[x] = active[x]
        BY <2>5, FinishFacts
      <3>2. CASE a = 2
        <4>1. \A u \in Threads : pc'[u] = "tranwait" => pc[u] = "tranwait" /\ arg[u] # tr
          BY <1>0, <2>5, <3>2 DEF FinishUrb, WakeWaiters
        <4>2. Asleep'
          BY <2>2, <3>1, <4>1 DEF Asleep, Calls, CallFits
        <4> QED
          BY <2>1, <2>2, <2>3, <3>1, <4>2, CtxAsleepKept
      <3>3. CASE a # 2
        <4>1. active'[tr] = active[tr]
          BY <2>5, <3>1, <3>3 DEF AfterCallback
        <4>2. \A x \in Transfers : active[x] # 0 => active'[x] # 0
          BY <3>1, <4>1
        <4>3. Asleep'
          BY <2>2, <3>1, <4>2, AsleepKept
        <4> QED
          BY <2>1, <2>2, <2>3, <3>1, <4>3, CtxAsleepKept
      <3> QED
        BY <3>2, <3>3
    <2> QED
      BY <1>8, <2>1, <2>4, <2>5 DEF Deliver, CallbackReturns
  <1>9. ASSUME NEW t \in Threads, NEW tr \in Transfers, AllocTransfer(t, tr) \/ FreeTransfer(t, tr)
        PROVE  Waits' /\ Asleep' /\ CtxAsleep'
    <2>1. /\ UNCHANGED <<pc, call, arg, loop_enabled>>
          /\ \A x \in Transfers \ {tr} : client'[x] = client[x] /\ active'[x] = active[x]
          /\ active'[tr] = active[tr] \/ client[tr] = "free"
      BY <1>0, <1>9 DEF AllocTransfer, FreeTransfer, threadVars, ctxVars
    <2>2. \A u \in Threads : call[u] \in {"wait", "bulk"} => arg[u] # tr
      BY <1>1, <1>9 DEF AllocTransfer, FreeTransfer
    <2>3. \A u \in Threads : pc[u] = "tranwait" => arg[u] # tr
      BY <2>2 DEF Calls, CallFits
    <2>4. Asleep'
      BY <2>1, <2>3 DEF Asleep, Calls, CallFits
    <2> QED
      BY <2>1, <2>2, <2>4, WaitsElsewhere, CtxAsleepKept
  <1>10. ASSUME NEW t \in Threads, NEW tr \in Transfers, NEW c \in {"submit", "bulk"}, SubmitUrb(t, tr, c)
         PROVE  Waits' /\ Asleep' /\ CtxAsleep'
    <2>1. /\ UNCHANGED loop_enabled
          /\ pc[t] \in {"idle", "callback"} /\ pc'[t] = "submit"
          /\ \A u \in Threads \ {t} : pc'[u] = pc[u]
          /\ \A x \in Transfers \ {tr} : client'[x] = client[x] /\ active'[x] = active[x]
      BY <1>0, <1>10 DEF SubmitUrb, Submits, Ready, Goto
    <2>2. CtxAsleep'
      BY <2>1, CtxAsleepKept
    <2>3. CASE c = "submit"
      <3>1. /\ UNCHANGED <<call, arg, active>>
            /\ client[tr] \in {"idle", "called"} /\ client'[tr] = "pending"
        BY <1>0, <1>10, <2>3 DEF SubmitUrb, Submits
      <3> QED
        BY <2>1, <2>2, <3>1, WaitsKept, AsleepKept
    <2>4. CASE c = "bulk"
      <3>1. /\ client[tr] = "free" /\ client'[tr] = "bulk"
            /\ call'[t] = "bulk" /\ arg'[t] = tr
            /\ \A u \in Threads \ {t} : call'[u] = call[u] /\ arg'[u] = arg[u]
        BY <1>0, <1>10, <2>4 DEF SubmitUrb, Submits
      <3>2. \A u \in Threads : call[u] \in {"wait", "bulk"} => arg[u] # tr
        BY <1>1, <3>1
      <3>3. \A u \in Threads : pc[u] = "tranwait" => arg[u] # tr
        BY <1>1, <3>1
      <3>4. Waits'
        BY <2>1, <3>1, <3>2 DEF Waits, Calls, CallFits
      <3>5. Asleep'
        BY <2>1, <3>1, <3>3 DEF Asleep, Calls, CallFits
      <3> QED
        BY <2>2, <3>4, <3>5
    <2> QED
      BY <2>3, <2>4
  <1>11. ASSUME NEW tr \in Transfers, UrbDone(tr)
         PROVE  Waits' /\ Asleep' /\ CtxAsleep'
    <2>1. UNCHANGED <<pc, call, arg, client, active, loop_enabled>>
      BY <1>11 DEF UrbDone, ctxVars, tranVars, threadVars
    <2> QED
      BY <2>1, WaitsKept, AsleepKept, CtxAsleepKept
  <1> QED
    BY <1>2, <1>3, <1>4, <1>5, <1>6, <1>7, <1>8, <1>9, <1>10, <1>11, StepCases

\* No thread sleeps on for ever because a broadcast came before it slept or was
\* left out: whoever sleeps on tran->cond has a URB still to be reaped, or a
\* delivery still to end with the broadcast; whoever sleeps on ctx_cond has an
\* enabled loop, or a stop still to broadcast.
THEOREM SleepersAreWoken == Spec => []SleepersAreOwed
  <1> DEFINE All == Inv /\ Owed /\ Calls /\ Waits /\ Asleep /\ CtxAsleep
  <1>1. Init => All
    <2>1. Init => Calls /\ Waits /\ Asleep /\ CtxAsleep
      BY ConstantsAssumption
         DEF ConstantsAssumption, Init, Calls, CallFits, Leading, Waits, Asleep, CtxAsleep
    <2> QED
      BY <2>1, InitInv, InitOwed
  <1>2. All /\ [Next]_vars => All'
    BY StepInv, HeldStep, OwedStep, CallsStep, SleepStep DEF Owed
  <1>3. All => SleepersAreOwed
    <2> SUFFICES ASSUME All, NEW t \in Threads
                 PROVE  /\ pc[t] = "ctxwait" => loop_enabled \/ \E u \in Threads : pc[u] = "stop"
                        /\ pc[t] = "tranwait" =>
                             Outstanding(arg[t]) \/ \E u \in Threads \ {t} : reaping[u] = arg[t]
      BY DEF SleepersAreOwed
    <2>1. pc[t] = "ctxwait" => loop_enabled \/ \E u \in Threads : pc[u] = "stop"
      BY DEF CtxAsleep
    <2>2. ASSUME pc[t] = "tranwait"
          PROVE  Outstanding(arg[t]) \/ \E u \in Threads \ {t} : reaping[u] = arg[t]
      <3>1. arg[t] \in Transfers /\ active[arg[t]] # 0
        BY <2>2 DEF Calls, CallFits, Asleep
      <3>2. active[arg[t]] \in {1, 2}
        BY <3>1 DEF Inv, TypeOK
      <3>3. reaping[t] = NoTran
        BY <2>2 DEF Inv, Located
      <3> QED
        BY <3>1, <3>2, <3>3, ConstantsAssumption DEF Owed, ActiveOwed, ConstantsAssumption
    <2> QED
      BY <2>1, <2>2
  <1> HIDE DEF All
  <1> QED
    BY <1>1, <1>2, <1>3, PTL DEF Spec

-----------------------------------------------------------------------------
(* What the application owns is left alone.                                *)

\* What the application owns is not in use, for clients that submit only
\* while a loop runs: waits and bulk transfers then return after the last use
\* of the transfer by the library and the kernel, also if callbacks submit it
\* again, several threads wait for it, and loops are stopped meanwhile.
OwnIsUnused ==
  loopFirst =>
    \A tr \in Transfers :
      client[tr] \in {"free", "idle"} =>
        ~Outstanding(tr) /\ \A t \in Threads : reaping[t] # tr

\* A transfer with nothing due has no URB and nobody holds its result.
LEMMA NothingDue ==
  ASSUME Inv, OneLeader, NEW tr \in Transfers, Due(tr) = 0
  PROVE  ~Outstanding(tr) /\ \A t \in Threads : reaping[t] = tr => tr \in Calling
  <1> DEFINE P == Places(completed[FdOf[tr]], tr)
             n == Cardinality(P)
             m == Cardinality(Reapers(tr))
  <1>1. inflight[tr] \in Nat /\ completed[FdOf[tr]] \in Seq(Transfers)
    BY ConstantsAssumption DEF ConstantsAssumption, Inv, TypeOK
  <1>2. IsFiniteSet(P) /\ n \in Nat
    BY <1>1, PlacesFinite
  <1>3. m = IF \E t \in Threads : pc[t] = "reaped" /\ reaping[t] = tr THEN 1 ELSE 0
    BY OneReaper
  <1>4. Due(tr) = inflight[tr] + n + m
    BY DueIs
  <1>5. inflight[tr] = 0 /\ n = 0 /\ m = 0
    <2> HIDE DEF n, m
    <2> QED
      BY <1>1, <1>2, <1>3, <1>4
  <1>6. P = {} /\ \A t \in Threads : ~(pc[t] = "reaped" /\ reaping[t] = tr)
    BY <1>2, <1>3, <1>5, FS_EmptySet
  <1>7. ~Outstanding(tr)
    BY <1>5, <1>6 DEF Outstanding, Places
  <1>8. ASSUME NEW t \in Threads, reaping[t] = tr
        PROVE  tr \in Calling
    BY <1>6, <1>8, ConstantsAssumption DEF Calling, ConstantsAssumption
  <1> QED
    BY <1>7, <1>8

LEMMA StrictOwns == Inv /\ OneLeader /\ Strict => OwnIsUnused
  <1> SUFFICES ASSUME Inv, OneLeader, Strict, loopFirst, NEW tr \in Transfers, client[tr] \in {"free", "idle"}
               PROVE  ~Outstanding(tr) /\ \A t \in Threads : reaping[t] # tr
    BY DEF OwnIsUnused
  <1>1. StrictFor(tr) /\ Due(tr) \in Nat
    BY DueType DEF Strict
  <1>2. Due(tr) = 0 /\ tr \notin Calling
    BY <1>1 DEF StrictFor
  <1> QED
    BY <1>2, NothingDue

\* usbyb_wait_for_transfer and usbyb_perform_transfer return, and clients may
\* free a transfer or submit it again, only after the last use of the transfer
\* by the kernel and by the thread that reaps: if clients submit only while a
\* loop runs, and reset a loop only when no thread leads it.
THEOREM OwnedIsQuiet == QuietReset => (Spec => []OwnIsUnused)
  <1> SUFFICES ASSUME QuietReset PROVE Spec => []OwnIsUnused
    OBVIOUS
  <1> DEFINE All == Inv /\ Held /\ Led /\ Sorted /\ Calls /\ Strict
  <1>1. Init => All
    BY InitInv, InitOwed, InitLed, InitRefines DEF Owed
  <1>2. All /\ [Next]_vars => All'
    BY StepInv, HeldStep, StepLed, SortedStep, CallsStep, StrictStep DEF Led
  <1>3. All => OwnIsUnused
    BY StrictOwns DEF Led
  <1> HIDE DEF All
  <1> QED
    BY <1>1, <1>2, <1>3, PTL DEF Spec

\* With the memory allocator in order and the same clients, no path through
\* submit, cancel, wait, bulk transfers, callbacks and stopped loops makes the
\* leader read or write a transfer that was freed.
THEOREM MemoryIsSafe == QuietReset /\ ~AllocMayFail => (Spec => [](loopFirst => ~crash))
  <1> SUFFICES ASSUME QuietReset, ~AllocMayFail PROVE Spec => [](loopFirst => ~crash)
    OBVIOUS
  <1> DEFINE Safe == loopFirst => ~crash
  <1>1. Init => Safe
    BY DEF Init
  <1>2. Inv /\ Sorted /\ Safe /\ OwnIsUnused /\ [Next]_vars => Safe'
    <2> SUFFICES ASSUME Inv, Sorted, Safe, OwnIsUnused, [Next]_vars, loopFirst'
                 PROVE  ~crash'
      OBVIOUS
    <2>1. loopFirst /\ ~crash
      BY DEF Next, vars
    <2>2. \A tr \in Transfers :
            client[tr] = "free" => ~Outstanding(tr) /\ \A t \in Threads : reaping[t] # tr
      BY <2>1 DEF OwnIsUnused
    <2>3. ASSUME NEW t \in Threads, Reap(t)
          PROVE  ~crash'
      <3>1. PICK i \in ready[t] :
              /\ completed[pollfds[t][i]] # <<>>
              /\ crash' = (client[Head(completed[pollfds[t][i]])] = "free")
        BY <2>3 DEF Reap
      <3> DEFINE f == pollfds[t][i]
                 x == Head(completed[f])
      <3>2. f \in Fds
        BY DEF Inv, TypeOK, Prefix
      <3>3. completed[f] \in Seq(Transfers) /\ completed[f] # <<>>
        BY <3>1, <3>2 DEF Inv, TypeOK
      <3>4. x \in Transfers /\ 1 \in DOMAIN completed[f] /\ completed[f][1] = x
        BY <3>3
      <3>5. FdOf[x] = f
        BY <3>2, <3>4 DEF Sorted
      <3>6. Outstanding(x)
        BY <3>4, <3>5 DEF Outstanding
      <3> QED
        BY <2>2, <3>1, <3>4, <3>6
    <2>4. ASSUME NEW t \in Threads, Deliver(t) \/ CallbackReturns(t)
          PROVE  ~crash'
      <3>1. reaping[t] \in Transfers /\ client[reaping[t]] # "free"
        BY <2>2, <2>4 DEF Deliver, CallbackReturns, Inv, TypeOK, Located
      <3> QED
        BY <2>1, <2>4, <3>1 DEF Deliver, CallbackReturns, FinishUrb
    <2>5. ASSUME UNCHANGED crash
          PROVE  ~crash'
      BY <2>1, <2>5
    <2>6. ASSUME NEW t \in Threads, WaitingStep(t)
          PROVE  UNCHANGED crash
      BY <2>6 DEF WaitingStep, RunEventLoop, RetryEventLoop, ClientWait, BulkWait, RetryWait, Relock,
                  LeaveOnError, WaitForTransfer, WaitForLoop, Iterate
    <2>7. ASSUME NEW t \in Threads,
                 \/ SubmitDone(t) \/ StopDone(t) \/ StopEventLoop(t) \/ ResetEventLoop(t)
                 \/ PollReturn(t) \/ ReapNothing(t) \/ Drain(t) \/ Disturbance(t)
                 \/ \E tr \in Transfers :
                      \/ AllocTransfer(t, tr) \/ FreeTransfer(t, tr)
                      \/ \E c \in {"submit", "bulk"} : SubmitUrb(t, tr, c) \/ SubmitFail(t, tr, c)
                 \/ \E fd \in Fds : OpenHandle(t, fd) \/ CloseHandle(t, fd)
          PROVE  UNCHANGED crash
      BY <2>7 DEF SubmitDone, StopDone, StopEventLoop, ResetEventLoop, PollReturn, ReapNothing, Drain,
                  Disturbance, SpuriousWake, PollError, AllocTransfer, FreeTransfer, SubmitUrb, SubmitFail,
                  OpenHandle, CloseHandle
    <2>8. ASSUME NEW tr \in Transfers, UrbDone(tr)
          PROVE  UNCHANGED crash
      BY <2>8 DEF UrbDone
    <2>9. \A t \in Threads, tr \in Transfers, c \in {"submit", "bulk"} : ~SubmitNoMem(t, tr, c)
      BY DEF SubmitNoMem
    <2> QED
      BY <2>3, <2>4, <2>5, <2>6, <2>7, <2>8, <2>9, StepCases DEF vars
  <1>3. Init => Inv /\ Sorted
    BY InitInv, InitRefines
  <1>4. Inv /\ Sorted /\ [Next]_vars => Inv' /\ Sorted'
    BY StepInv, SortedStep
  <1> QED
    BY <1>1, <1>2, <1>3, <1>4, OwnedIsQuiet, PTL DEF Spec

-----------------------------------------------------------------------------
(* The wake-up pipe.                                                       *)

\* Every byte in the pipe, and the one about to be written, is the price of a
\* submit or stop call.
Paid == pipe <= calls /\ (mutex # NoThread => pipe + 1 <= calls)

LEMMA PaidStep ==
  ASSUME Inv, Held, Paid, [Next]_vars
  PROVE  Paid'
  <1> USE ConstantsAssumption DEF ConstantsAssumption
  <1>0. /\ pipe \in Nat /\ calls \in Nat /\ pipe' \in Nat /\ calls' \in Nat
        /\ mutex \in Threads \cup {NoThread}
    BY StepInv DEF Inv, TypeOK
  <1>1. ASSUME pipe' <= pipe, UNCHANGED mutex, calls' >= calls
        PROVE  Paid'
    <2>1. \A a, b, c, d \in Nat : c <= a /\ a <= b /\ b <= d => c <= d
      OBVIOUS
    <2>2. \A a, b, c, d \in Nat : c <= a /\ a + 1 <= b /\ b <= d => c + 1 <= d
      OBVIOUS
    <2>3. pipe' <= pipe /\ calls <= calls'
      BY <1>0, <1>1
    <2>4. pipe <= calls => pipe' <= calls'
      BY <1>0, <2>1, <2>3
    <2>5. pipe + 1 <= calls => pipe' + 1 <= calls'
      BY <1>0, <2>2, <2>3
    <2> QED
      BY <1>1, <2>4, <2>5 DEF Paid
  <1>2. CASE UNCHANGED vars
    BY <1>0, <1>1, <1>2 DEF vars, ctxVars, kernelVars, tranVars
  <1>3. ASSUME NEW t \in Threads, WaitingStep(t)
        PROVE  Paid'
    <2>1. UNCHANGED calls
      BY <1>3 DEF WaitingStep, RunEventLoop, RetryEventLoop, ClientWait, BulkWait, RetryWait, Relock,
                  LeaveOnError, WaitForTransfer, WaitForLoop, Iterate, tranVars
    <2> QED
      BY <1>0, <1>1, <1>3, <2>1, WaitingFacts DEF kernelVars
  <1>4. ASSUME NEW t \in Threads, SubmitDone(t) \/ StopDone(t)
        PROVE  Paid'
    <2>1. /\ mutex = t /\ mutex' = NoThread /\ UNCHANGED calls
          /\ pipe' \in {pipe, pipe + 1}
      BY <1>0, <1>4 DEF SubmitDone, StopDone, WakeByte, Held, tranVars
    <2> QED
      BY <1>0, <2>1 DEF Paid
  <1>5. ASSUME NEW t \in Threads,
               \/ StopEventLoop(t)
               \/ \E tr \in Transfers, c \in {"submit", "bulk"} : SubmitUrb(t, tr, c)
        PROVE  Paid'
    <2>1. mutex = NoThread /\ mutex' = t /\ calls' = calls + 1 /\ UNCHANGED pipe
      BY <1>5 DEF StopEventLoop, SubmitUrb, Submits, kernelVars
    <2> QED
      BY <1>0, <2>1 DEF Paid
  <1>6. ASSUME NEW t \in Threads,
               \/ ResetEventLoop(t) \/ PollReturn(t) \/ ReapNothing(t) \/ Drain(t) \/ Disturbance(t)
               \/ Reap(t) \/ Deliver(t) \/ CallbackReturns(t)
               \/ \E tr \in Transfers :
                    \/ AllocTransfer(t, tr) \/ FreeTransfer(t, tr)
                    \/ \E c \in {"submit", "bulk"} : SubmitFail(t, tr, c) \/ SubmitNoMem(t, tr, c)
               \/ \E fd \in Fds : OpenHandle(t, fd) \/ CloseHandle(t, fd)
        PROVE  Paid'
    <2> USE DEF ResetEventLoop, PollReturn, ReapNothing, Drain, Disturbance, SpuriousWake, PollError, Reap,
                Deliver, CallbackReturns, AllocTransfer, FreeTransfer, SubmitFail, SubmitNoMem, Submits,
                OpenHandle, CloseHandle, ctxVars, kernelVars, tranVars
    <2>1. pipe' \in {pipe, pipe - 1} /\ UNCHANGED mutex /\ calls' \in {calls, calls + 1}
      BY <1>6
    <2> QED
      BY <1>0, <1>1, <2>1
  <1>7. ASSUME NEW tr \in Transfers, UrbDone(tr)
        PROVE  Paid'
    BY <1>0, <1>1, <1>7 DEF UrbDone, ctxVars, tranVars
  <1> QED
    BY <1>2, <1>3, <1>4, <1>5, <1>6, <1>7, StepCases

\* The write of usbyb_submit_transfer and usbyb_stop_event_loop to the pipe can
\* block only after more submit and stop calls than the pipe has bytes: the
\* deadlock that a full pipe is needs that many calls the leader has not read.
THEOREM PipeHasRoom ==
  Spec => [](calls <= PipeCap =>
               /\ SubmitIsAsynchronous
               /\ \A t \in Threads : pc[t] \in {"submit", "stop"} => pipe + WakeByte <= PipeCap)
  <1> DEFINE Room == calls <= PipeCap =>
                       /\ SubmitIsAsynchronous
                       /\ \A t \in Threads : pc[t] \in {"submit", "stop"} => pipe + WakeByte <= PipeCap
             All == Inv /\ Held /\ Paid
  <1>1. Init => All
    BY InitInv, InitOwed DEF Owed, Init, Paid
  <1>2. All /\ [Next]_vars => All'
    BY StepInv, HeldStep, PaidStep
  <1>3. All => Room
    <2> SUFFICES ASSUME All, calls <= PipeCap, NEW t \in Threads, pc[t] \in {"submit", "stop"}
                 PROVE  pipe + WakeByte <= PipeCap
      BY DEF SubmitIsAsynchronous
    <2>1. pipe + 1 <= calls
      BY ConstantsAssumption DEF Held, Paid, ConstantsAssumption
    <2> QED
      BY <2>1, ConstantsAssumption DEF WakeByte, Inv, TypeOK, ConstantsAssumption
  <1> HIDE DEF All, Room
  <1>4. Spec => []Room
    BY <1>1, <1>2, <1>3, PTL DEF Spec
  <1> QED
    BY <1>4 DEF Room

=============================================================================
