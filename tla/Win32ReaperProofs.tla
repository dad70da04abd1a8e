-------------------------- MODULE Win32ReaperProofs --------------------------
(***************************************************************************)
(* Theorems about Win32Reaper that hold for every number of threads and    *)
(* transfers, every size of the handle array, with and without CancelIoEx  *)
(* and with memory that may run out.                                       *)
(***************************************************************************)
EXTENDS Win32Reaper, SequenceTheorems, FiniteSetTheorems, TLAPS

\* Where a thread is says what it works on; a synchronous request has one
\* thread that waits for it.
Located ==
  /\ \A t \in Threads :
       /\ pc[t] = "idle" <=> call[t] = "none"
       /\ pc[t] = "perform" <=> call[t] = "sync"
       /\ call[t] \in {"wait", "sync"} => arg[t] \in Transfers
       /\ pc[t] = "got" => reaping[t] \in Transfers
       /\ pc[t] = "callback" => reaping[t] \in Transfers
  /\ \A t, u \in Threads :
       pc[t] = "perform" /\ pc[u] = "perform" /\ arg[t] = arg[u] => t = u

\* What a client believes of a transfer is what the library has: it is
\* submitted while it is pending or cancelled; after it was reaped, or
\* allocated, its request is done and its status the outcome; a wait finds
\* it completed only when it is the client's.
ClientKnows ==
  /\ \A tr \in Transfers :
       /\ submitted[tr] <=> client[tr] \in {"pending", "cancelled"}
       /\ client[tr] \in {"idle", "called"} => ~Pending(tr) /\ status[tr] = StatusOf(io[tr])
       /\ Completion(tr) \in signalled => client[tr] = "idle"
  /\ \A t \in Threads :
       /\ pc[t] = "perform" => client[arg[t]] = "sync"
       /\ pc[t] = "callback" => client[reaping[t]] \in {"called", "pending", "cancelled"}

\* The event of a submitted transfer is signalled exactly when its request
\* has ended.
EventsTell ==
  \A tr \in Transfers : submitted[tr] => (Overlapped(tr) \in signalled <=> ~Pending(tr))

\* The handles between filling them and leaving: the target and the update
\* event, then events of submitted transfers.
HandlesRight ==
  \A t \in Threads :
    pc[t] \in {"filled", "wait"} =>
      /\ Len(handles) >= 2
      /\ handles[1] = Target(call[t], arg[t])
      /\ handles[2] = Updated
      /\ \A i \in 3 .. Len(handles) :
           \E tr \in Transfers : handles[i] = Overlapped(tr) /\ submitted[tr]

\* Every submitted transfer is among them, or the update event will tell.
AllListed ==
  \A t \in Threads, tr \in Transfers :
    pc[t] = "filled" /\ submitted[tr] =>
      Updated \in signalled \/ \E i \in 3 .. Len(handles) : handles[i] = Overlapped(tr)

-----------------------------------------------------------------------------
(* Events.                                                                 *)

\* The events of a context and its transfers are different ones.
LEMMA EventsDiffer ==
  /\ Lock # Stopped /\ Lock # Updated /\ Stopped # Updated
  /\ Lock \in Events /\ Stopped \in Events /\ Updated \in Events
  /\ \A x :
       /\ Completion(x) \notin {Lock, Stopped, Updated}
       /\ Overlapped(x) \notin {Lock, Stopped, Updated}
       /\ Overlapped(x)[2] = x
  /\ \A x \in Transfers : Completion(x) \in Events /\ Overlapped(x) \in Events
  /\ \A x, y :
       /\ Completion(x) # Overlapped(y)
       /\ Completion(x) = Completion(y) => x = y
       /\ Overlapped(x) = Overlapped(y) => x = y
  BY DEF Events, Lock, Stopped, Updated, Completion, Overlapped

\* What a call waits for.
LEMMA TargetLemma ==
  ASSUME NEW c, NEW tr
  PROVE  /\ Target(c, tr) = IF c = "run" THEN Stopped ELSE Completion(tr)
         /\ Target(c, tr) # Updated
         /\ Target(c, tr) # Lock
         /\ \A x : Target(c, tr) # Overlapped(x)
  BY EventsDiffer DEF Target

\* Only threads in one of two places are blocked on events.
LEMMA WaitsForLemma ==
  ASSUME NEW t \in Threads, NEW h
  PROVE  /\ h \in WaitsFor(t) => pc[t] \in {"enter", "wait"}
         /\ pc[t] = "enter" => WaitsFor(t) = {Target(call[t], arg[t]), Lock}
         /\ pc[t] = "wait" => WaitsFor(t) = {handles[i] : i \in DOMAIN handles}
         /\ pc[t] = "enter" => Resume(t, h) = "return"
         /\ pc[t] = "wait" => Resume(t, h) \in {"unlock", "locked", "got"}
  BY DEF WaitsFor, Resume, AfterWait

\* SetEvent moves blocked threads to where they continue, and no others.
LEMMA WakeLemma ==
  ASSUME NEW h, NEW at \in [Threads -> PC], TypeOK, Wake(h, at)
  PROVE  /\ pc' \in [Threads -> PC]
         /\ \A t \in Threads :
              /\ h \notin WaitsFor(t) => pc'[t] = at[t]
              /\ h \in WaitsFor(t) =>
                   /\ pc[t] \in {"enter", "wait"}
                   /\ pc[t] = "enter" => pc'[t] = "return"
                   /\ pc[t] = "wait" => pc'[t] \in {"unlock", "locked", "got"}
                   /\ pc[t] = "wait" => pc'[t] = AfterWait(t, h)
  <1>1. \A t \in Threads : pc'[t] = IF h \in WaitsFor(t) THEN Resume(t, h) ELSE at[t]
    BY DEF Wake
  <1>2. \A t \in Threads : h \in WaitsFor(t) => Resume(t, h) \in PC
    BY WaitsForLemma DEF PC
  <1>3. pc' \in [Threads -> PC]
    BY <1>2 DEF Wake
  <1> QED
    BY <1>1, <1>3, WaitsForLemma DEF Resume

-----------------------------------------------------------------------------
(* Types.                                                                  *)

\* Unlinking a transfer from a list without repetitions takes out that one.
LEMMA WithoutLemma ==
  ASSUME TypeOK, NEW tr \in Transfers, \E i \in DOMAIN trani : trani[i] = tr,
         \A i, j \in DOMAIN trani : trani[i] = trani[j] => i = j
  PROVE  /\ Without(tr) \in Seq(Transfers)
         /\ \A i, j \in DOMAIN Without(tr) : Without(tr)[i] = Without(tr)[j] => i = j
         /\ \A x \in Transfers :
              (\E i \in DOMAIN Without(tr) : Without(tr)[i] = x) <=>
                x # tr /\ \E i \in DOMAIN trani : trani[i] = x
  <1>1. trani \in Seq(Transfers)
    BY DEF TypeOK
  <1>2. PICK k \in DOMAIN trani :
          /\ trani[k] = tr
          /\ Without(tr) = [j \in 1 .. Len(trani) - 1 |-> trani[IF j < k THEN j ELSE j + 1]]
    <2> DEFINE i == CHOOSE i \in DOMAIN trani : trani[i] = tr
    <2>1. i \in DOMAIN trani /\ trani[i] = tr
      OBVIOUS
    <2>2. Without(tr) = [j \in 1 .. Len(trani) - 1 |-> trani[IF j < i THEN j ELSE j + 1]]
      BY DEF Without
    <2> QED
      BY <2>1, <2>2
  <1> DEFINE w == Without(tr)
             n == Len(trani) - 1
  <1>3. n \in Nat /\ k \in 1 .. n + 1 /\ DOMAIN trani = 1 .. n + 1
    BY <1>1, <1>2
  <1>4. /\ w \in [1 .. n -> Transfers]
        /\ \A j \in 1 .. n : w[j] = trani[IF j < k THEN j ELSE j + 1]
    BY <1>1, <1>2, <1>3
  <1>5. w \in Seq(Transfers) /\ DOMAIN w = 1 .. n
    BY <1>3, <1>4
  <1> HIDE DEF w
  <1>6. ASSUME NEW i \in DOMAIN w, NEW j \in DOMAIN w, w[i] = w[j]
        PROVE  i = j
    <2> DEFINE a == IF i < k THEN i ELSE i + 1
               b == IF j < k THEN j ELSE j + 1
    <2>1. i \in 1 .. n /\ j \in 1 .. n
      BY <1>5
    <2>2. a \in DOMAIN trani /\ b \in DOMAIN trani /\ (a = b => i = j)
      BY <1>3, <2>1
    <2>3. trani[a] = trani[b]
      BY <1>4, <1>6, <2>1
    <2> QED
      BY <2>2, <2>3
  <1>7. ASSUME NEW x \in Transfers, x # tr, NEW i \in DOMAIN trani, trani[i] = x
        PROVE  \E j \in DOMAIN w : w[j] = x
    <2>1. i # k
      BY <1>2, <1>7
    <2>2. CASE i < k
      BY <1>3, <1>4, <1>5, <1>7, <2>2
    <2>3. CASE i > k
      <3>1. i - 1 \in DOMAIN w /\ w[i - 1] = x
        BY <1>3, <1>4, <1>5, <1>7, <2>3
      <3> QED
        BY <3>1
    <2> QED
      BY <1>3, <2>1, <2>2, <2>3
  <1>8. ASSUME NEW j \in DOMAIN w
        PROVE  w[j] # tr /\ \E i \in DOMAIN trani : trani[i] = w[j]
    BY <1>2, <1>3, <1>4, <1>5
  <1> QED
    BY <1>5, <1>6, <1>7, <1>8 DEF w

\* The handles of a wait are events.
LEMMA HandleListLemma ==
  ASSUME TypeOK, NEW c, NEW tr, Target(c, tr) \in Events
  PROVE  /\ HandleList(c, tr) \in Seq(Events)
         /\ Len(HandleList(c, tr)) = 2 + Len(trani)
         /\ HandleList(c, tr)[1] = Target(c, tr)
         /\ HandleList(c, tr)[2] = Updated
         /\ \A i \in 1 .. Len(trani) : HandleList(c, tr)[i + 2] = Overlapped(trani[i])
  <1> DEFINE a == <<Target(c, tr), Updated>>
             b == [i \in 1 .. Len(trani) |-> Overlapped(trani[i])]
  <1>1. trani \in Seq(Transfers) /\ Len(trani) \in Nat
    BY DEF TypeOK
  <1>2. a \in Seq(Events) /\ Len(a) = 2 /\ a[1] = Target(c, tr) /\ a[2] = Updated
    BY EventsDiffer
  <1>3. \A i \in 1 .. Len(trani) : Overlapped(trani[i]) \in Events
    BY <1>1, EventsDiffer
  <1>4. b \in [1 .. Len(trani) -> Events]
    BY <1>3
  <1>5. b \in Seq(Events) /\ Len(b) = Len(trani)
    BY <1>1, <1>4
  <1>6. \A i \in 1 .. Len(trani) : b[i] = Overlapped(trani[i])
    OBVIOUS
  <1>7. HandleList(c, tr) = a \o b
    BY DEF HandleList
  <1> HIDE DEF a, b
  <1>8. \A s, u \in Seq(Events) :
          /\ s \o u \in Seq(Events)
          /\ Len(s \o u) = Len(s) + Len(u)
          /\ \A i \in 1 .. Len(s) + Len(u) :
               (s \o u)[i] = IF i <= Len(s) THEN s[i] ELSE u[i - Len(s)]
    BY ConcatProperties
  <1>9. /\ a \o b \in Seq(Events)
        /\ Len(a \o b) = 2 + Len(trani)
        /\ \A i \in 1 .. 2 + Len(trani) : (a \o b)[i] = IF i <= 2 THEN a[i] ELSE b[i - 2]
    <2>1. a \in Seq(Events) /\ b \in Seq(Events) /\ Len(a) = 2 /\ Len(b) = Len(trani)
      BY <1>2, <1>5
    <2>2. /\ a \o b \in Seq(Events)
          /\ Len(a \o b) = Len(a) + Len(b)
          /\ \A i \in 1 .. Len(a) + Len(b) :
               (a \o b)[i] = IF i <= Len(a) THEN a[i] ELSE b[i - Len(a)]
      BY <2>1, <1>8, Zenon
    <2> QED
      BY <2>1, <2>2
  <1> DEFINE h == a \o b
  <1> HIDE DEF h
  <1>10. ASSUME NEW i \in 1 .. Len(trani)
         PROVE  h[i + 2] = Overlapped(trani[i])
    <2>1. i + 2 \in 1 .. 2 + Len(trani) /\ ~(i + 2 <= 2) /\ (i + 2) - 2 = i
      BY <1>1
    <2> QED
      BY <1>6, <1>9, <2>1 DEF h
  <1>11. h[1] = a[1] /\ h[2] = a[2]
    BY <1>1, <1>9 DEF h
  <1> QED
    BY <1>2, <1>7, <1>9, <1>10, <1>11 DEF h

\* The array reserved for n handles holds n.
LEMMA ReserveLemma ==
  ASSUME TypeOK, NEW n \in Nat
  PROVE  Reserve(n) \in Nat /\ Reserve(n) >= n
  <1>1. Wanted(n) \in Nat /\ Wanted(n) >= n
    BY ConstantsAssumption DEF Wanted, ConstantsAssumption
  <1>2. capacity \in Nat
    BY DEF TypeOK
  <1> DEFINE m == Wanted(n)
  <1> HIDE DEF m
  <1>3. (m * 3) \div 2 \in Nat /\ (m * 3) \div 2 >= m
    BY <1>1 DEF m
  <1> QED
    BY <1>1, <1>2, <1>3 DEF Reserve, MustRealloc, m

\* Every step keeps the types, given that threads know what they work on.
LEMMA TypeStep ==
  ASSUME TypeOK, Located, OneReaper, ListIsExact, HandlesRight, [Next]_vars
  PROVE  TypeOK'
  <1> USE DEF TypeOK
  <1>1. ASSUME NEW t \in Threads, NEW tr \in Transfers \cup {NoTran},
               NEW c \in {"run", "wait"}, ReapUntil(t, c, tr)
        PROVE  TypeOK'
    BY <1>1 DEF ReapUntil, Goto, PC, listVars, tranVars
  <1>2. ASSUME NEW t \in Threads, StopEventLoop(t)
        PROVE  TypeOK'
    <2>1. pc' \in [Threads -> PC]
      BY <1>2, WakeLemma DEF StopEventLoop
    <2>2. signalled' \subseteq Events
      BY <1>2, EventsDiffer DEF StopEventLoop
    <2> QED
      BY <1>2, <2>1, <2>2 DEF StopEventLoop, listVars, tranVars
  <1>3. ASSUME NEW t \in Threads, ResetEventLoop(t)
        PROVE  TypeOK'
    BY <1>3 DEF ResetEventLoop, listVars, tranVars, threadVars
  <1>4. ASSUME NEW t \in Threads, NEW tr \in Transfers, SubmitTransfer(t, tr)
        PROVE  TypeOK'
    <2>1. pc' \in [Threads -> PC]
      BY <1>4, WakeLemma DEF SubmitTransfer
    <2>2. signalled' \subseteq Events
      BY <1>4, EventsDiffer DEF SubmitTransfer
    <2>3. calls' \in 0 .. MaxCalls
      BY <1>4, ConstantsAssumption DEF SubmitTransfer, Call, ConstantsAssumption
    <2>4. trani' \in Seq(Transfers)
      BY <1>4 DEF SubmitTransfer
    <2> QED
      BY <1>4, <2>1, <2>2, <2>3, <2>4 DEF SubmitTransfer, ClientState
  <1>5. ASSUME NEW t \in Threads, NEW tr \in Transfers, SubmitFails(t, tr)
        PROVE  TypeOK'
    <2>1. calls' \in 0 .. MaxCalls
      BY <1>5, ConstantsAssumption DEF SubmitFails, Call, ConstantsAssumption
    <2> QED
      BY <1>5, <2>1 DEF SubmitFails, listVars, tranVars, threadVars
  <1>6. ASSUME NEW t \in Threads, NEW tr \in Transfers, PerformTransfer(t, tr)
        PROVE  TypeOK'
    <2>1. calls' \in 0 .. MaxCalls
      BY <1>6, ConstantsAssumption DEF PerformTransfer, Call, ConstantsAssumption
    <2> QED
      BY <1>6, <2>1 DEF PerformTransfer, listVars, Goto, PC, ClientState
  <1>7. ASSUME NEW t \in Threads, PerformDone(t)
        PROVE  TypeOK'
    <2>1. StatusOf(io[arg[t]]) \in {"completed", "cancelled", "error"}
      BY DEF StatusOf
    <2> QED
      BY <1>7, <2>1 DEF PerformDone, listVars, Goto, PC, ClientState
  <1>8. ASSUME NEW t \in Threads, NEW tr \in Transfers, CancelTransfer(t, tr)
        PROVE  TypeOK'
    BY <1>8 DEF CancelTransfer, listVars, threadVars, ClientState
  <1>9. ASSUME NEW t \in Threads, NEW tr \in Transfers, AllocTransfer(t, tr) \/ FreeTransfer(t, tr)
        PROVE  TypeOK'
    <2>1. signalled' \subseteq Events
      BY <1>9, EventsDiffer DEF AllocTransfer, FreeTransfer
    <2> QED
      BY <1>9, <2>1 DEF AllocTransfer, FreeTransfer, listVars, threadVars, ClientState
  <1>10. ASSUME NEW t \in Threads, FillHandleList(t)
         PROVE  TypeOK'
    <2>1. capacity' \in Nat
      <3>1. HandleCount \in Nat
        BY DEF HandleCount
      <3> QED
        BY <1>10, <3>1, ReserveLemma DEF FillHandleList
    <2>2. handles' \in Seq(Events)
      <3>1. Target(call[t], arg[t]) \in Events
        BY <1>10, TargetLemma, EventsDiffer DEF FillHandleList, Located
      <3> QED
        BY <1>10, <3>1, HandleListLemma DEF FillHandleList
    <2>3. crash' \in BOOLEAN
      <3> DEFINE tooFew == capacity < HandleCount
      <3>1. tooFew \in BOOLEAN
        OBVIOUS
      <3>2. UNCHANGED crash \/ crash' = tooFew
        BY <1>10 DEF FillHandleList
      <3> HIDE DEF tooFew
      <3> QED
        BY <3>1, <3>2
    <2>4. signalled' \subseteq Events /\ pc' \in [Threads -> PC]
      BY <1>10 DEF FillHandleList, Goto, PC
    <2> QED
      BY <1>10, <2>1, <2>2, <2>3, <2>4 DEF FillHandleList, tranVars
  <1>11. ASSUME NEW t \in Threads, WaitForHandles(t)
         PROVE  TypeOK'
    <2>1. ASSUME NEW i \in DOMAIN handles, AfterWait(t, handles[i]) = "got"
          PROVE  handles[i][2] \in Transfers
      <3>1. i \in 3 .. Len(handles)
        <4>1. handles[i] # Target(call[t], arg[t]) /\ handles[i] # Updated
          BY <2>1 DEF AfterWait
        <4> QED
          BY <1>11, <4>1 DEF WaitForHandles, HandlesRight
      <3> QED
        BY <1>11, <3>1, EventsDiffer DEF WaitForHandles, HandlesRight
    <2>2. reaping' \in [Threads -> Transfers \cup {NoTran}]
      BY <1>11, <2>1 DEF WaitForHandles
    <2>3. pc' \in [Threads -> PC]
      BY <1>11 DEF WaitForHandles, Goto, PC, AfterWait
    <2> QED
      BY <1>11, <2>2, <2>3 DEF WaitForHandles, listVars, tranVars
  <1>12. ASSUME NEW t \in Threads, WaitFailed(t)
         PROVE  TypeOK'
    BY <1>12 DEF WaitFailed, listVars, tranVars, threadVars
  <1>13. ASSUME NEW t \in Threads, ReapTransfer(t)
         PROVE  TypeOK'
    <2>1. StatusOf(io[reaping[t]]) \in {"completed", "cancelled", "error"}
      BY DEF StatusOf
    <2>2. trani' \in Seq(Transfers)
      BY <1>13, WithoutLemma DEF ReapTransfer, ListIsExact, Located
    <2> QED
      BY <1>13, <2>1, <2>2 DEF ReapTransfer, Goto, PC, ClientState
  <1>14. ASSUME NEW t \in Threads, CallbackReturns(t)
         PROVE  TypeOK'
    <2>1. reaping[t] \in Transfers
      BY <1>14 DEF CallbackReturns, Located
    <2>2. [pc EXCEPT ![t] = "locked"] \in [Threads -> PC]
      BY DEF PC
    <2>3. pc' \in [Threads -> PC]
      BY <1>14, <2>2, WakeLemma DEF CallbackReturns
    <2>4. signalled' \subseteq Events
      BY <1>14, <2>1, EventsDiffer DEF CallbackReturns
    <2>5. client' \in [Transfers -> ClientState]
      BY <1>14 DEF CallbackReturns, ClientState
    <2> QED
      BY <1>14, <2>3, <2>4, <2>5 DEF CallbackReturns, listVars
  <1>15. ASSUME NEW t \in Threads, ReleaseLock(t)
         PROVE  TypeOK'
    <2>1. signalled' \subseteq Events
      BY <1>15, EventsDiffer DEF ReleaseLock
    <2>2. pc' \in [Threads -> PC]
      <3>1. CASE Goto(t, "return")
        BY <3>1 DEF Goto, PC
      <3>2. ASSUME NEW u \in Threads, pc' = [pc EXCEPT ![t] = "return", ![u] = "locked"]
            PROVE  pc' \in [Threads -> PC]
        BY <3>2 DEF PC
      <3> QED
        BY <1>15, <3>1, <3>2 DEF ReleaseLock
    <2>3. handles' \in Seq(Events)
      BY <1>15 DEF ReleaseLock
    <2> QED
      BY <1>15, <2>1, <2>2, <2>3 DEF ReleaseLock, tranVars
  <1>16. ASSUME NEW t \in Threads, Return(t)
         PROVE  TypeOK'
    BY <1>16 DEF Return, Goto, PC, listVars, tranVars
  <1>17. ASSUME NEW tr \in Transfers, NEW r \in {"success", "aborted", "failed"}, Complete(tr, r)
         PROVE  TypeOK'
    <2>1. pc' \in [Threads -> PC]
      BY <1>17, WakeLemma DEF Complete
    <2>2. signalled' \subseteq Events
      BY <1>17, EventsDiffer DEF Complete
    <2>3. reaping' \in [Threads -> Transfers \cup {NoTran}]
      BY <1>17 DEF Complete
    <2> QED
      BY <1>17, <2>1, <2>2, <2>3 DEF Complete, listVars
  <1>18. CASE UNCHANGED vars
    BY <1>18 DEF vars, listVars, tranVars, threadVars
  <1> QED
    BY <1>1, <1>2, <1>3, <1>4, <1>5, <1>6, <1>7, <1>8, <1>9, <1>10, <1>11, <1>12, <1>13,
       <1>14, <1>15, <1>16, <1>17, <1>18
       DEF Next, ClientStep, LibraryStep, DeviceStep, RunEventLoop, WaitForTransfer

-----------------------------------------------------------------------------
(* What SetEvent does to blocked threads.                                  *)

Blocked(t) == pc[t] \in {"enter", "wait"}

\* The handles of a thread blocked in the reaper's wait.
LEMMA WaitingLemma ==
  ASSUME TypeOK, HandlesRight, NEW t \in Threads, pc[t] = "wait"
  PROVE  /\ Updated \in WaitsFor(t)
         /\ Target(call[t], arg[t]) \in WaitsFor(t)
         /\ \A h \in WaitsFor(t) :
              \/ h = Updated
              \/ h = Target(call[t], arg[t])
              \/ \E tr \in Transfers : h = Overlapped(tr) /\ submitted[tr]
  <1>1. handles \in Seq(Events) /\ Len(handles) >= 2
    BY DEF TypeOK, HandlesRight
  <1>2. DOMAIN handles = 1 .. Len(handles) /\ 1 \in DOMAIN handles /\ 2 \in DOMAIN handles
    BY <1>1
  <1>3. \A i \in DOMAIN handles : i \in {1, 2} \/ i \in 3 .. Len(handles)
    BY <1>1, <1>2
  <1>4. WaitsFor(t) = {handles[i] : i \in DOMAIN handles}
    BY WaitsForLemma
  <1>5. handles[1] = Target(call[t], arg[t]) /\ handles[2] = Updated
    BY DEF HandlesRight
  <1> QED
    BY <1>2, <1>3, <1>4, <1>5 DEF HandlesRight

\* Where threads are after the update event: the reaper fills its handles again.
LEMMA WakeUpdated ==
  ASSUME TypeOK, HandlesRight, Wake(Updated, pc)
  PROVE  /\ pc' \in [Threads -> PC]
         /\ \A t \in Threads : pc'[t] = IF pc[t] = "wait" THEN "locked" ELSE pc[t]
  <1>1. ASSUME NEW t \in Threads
        PROVE  pc'[t] = IF pc[t] = "wait" THEN "locked" ELSE pc[t]
    <2>1. CASE pc[t] = "wait"
      <3>1. AfterWait(t, Updated) = "locked"
        BY TargetLemma DEF AfterWait
      <3>2. pc'[t] = AfterWait(t, Updated)
        BY <2>1, WaitingLemma, WakeLemma DEF TypeOK
      <3> QED
        BY <2>1, <3>1, <3>2
    <2>2. CASE pc[t] # "wait"
      <3>1. Updated \notin WaitsFor(t)
        BY <2>2, WaitsForLemma, TargetLemma, EventsDiffer
      <3>2. pc'[t] = pc[t]
        BY <3>1 DEF Wake
      <3> QED
        BY <2>2, <3>2
    <2> QED
      BY <2>1, <2>2
  <1> QED
    BY <1>1, WakeLemma DEF TypeOK

\* After the target of some calls, those of a loop or of waits for a transfer,
\* they return; the reaper unlocks first.
LEMMA WakeTarget ==
  ASSUME TypeOK, HandlesRight, NEW h, NEW at \in [Threads -> PC], Wake(h, at),
         h # Updated, h # Lock, \A x : h # Overlapped(x)
  PROVE  /\ pc' \in [Threads -> PC]
         /\ \A t \in Threads :
              pc'[t] = IF Blocked(t) /\ h = Target(call[t], arg[t])
                       THEN IF pc[t] = "wait" THEN "unlock" ELSE "return"
                       ELSE at[t]
  <1>1. ASSUME NEW t \in Threads
        PROVE  h \in WaitsFor(t) <=> Blocked(t) /\ h = Target(call[t], arg[t])
    <2>1. CASE pc[t] = "wait"
      BY <2>1, WaitingLemma DEF Blocked
    <2>2. CASE pc[t] = "enter"
      BY <2>2, WaitsForLemma DEF Blocked
    <2>3. CASE ~Blocked(t)
      BY <2>3, WaitsForLemma DEF Blocked
    <2> QED
      BY <2>1, <2>2, <2>3 DEF Blocked
  <1>2. ASSUME NEW t \in Threads, Blocked(t), h = Target(call[t], arg[t])
        PROVE  pc'[t] = IF pc[t] = "wait" THEN "unlock" ELSE "return"
    <2>1. AfterWait(t, h) = "unlock"
      BY <1>2 DEF AfterWait
    <2> QED
      BY <1>1, <1>2, <2>1, WakeLemma DEF Blocked
  <1>3. ASSUME NEW t \in Threads, ~(Blocked(t) /\ h = Target(call[t], arg[t]))
        PROVE  pc'[t] = at[t]
    BY <1>1, <1>3, WakeLemma
  <1> QED
    BY <1>2, <1>3, WakeLemma

\* After the event of a request: a reaper that has it among its handles has
\* got it.
LEMMA WakeOverlapped ==
  ASSUME TypeOK, NEW tr \in Transfers, Wake(Overlapped(tr), pc)
  PROVE  /\ pc' \in [Threads -> PC]
         /\ \A t \in Threads : Overlapped(tr) \in WaitsFor(t) => pc[t] = "wait"
         /\ \A t \in Threads :
              pc'[t] = IF Overlapped(tr) \in WaitsFor(t) THEN "got" ELSE pc[t]
  <1>1. ASSUME NEW t \in Threads, Overlapped(tr) \in WaitsFor(t)
        PROVE  pc[t] = "wait"
    <2>1. pc[t] # "enter"
      BY <1>1, WaitsForLemma, TargetLemma, EventsDiffer
    <2> QED
      BY <1>1, <2>1, WaitsForLemma
  <1>2. ASSUME NEW t \in Threads
        PROVE  AfterWait(t, Overlapped(tr)) = "got"
    BY TargetLemma, EventsDiffer DEF AfterWait
  <1> QED
    BY <1>1, <1>2, WakeLemma DEF TypeOK

\* WaitForMultipleObjects without blocking does what waking up does.
LEMMA SatisfiedLemma ==
  ASSUME TypeOK, HandlesRight, NEW t \in Threads, pc[t] = "filled", NEW i \in DOMAIN handles
  PROVE  /\ \/ i = 1 /\ handles[i] = Target(call[t], arg[t]) /\ AfterWait(t, handles[i]) = "unlock"
            \/ i = 2 /\ handles[i] = Updated /\ AfterWait(t, handles[i]) = "locked"
            \/ /\ i \in 3 .. Len(handles)
               /\ AfterWait(t, handles[i]) = "got"
               /\ \E tr \in Transfers :
                    handles[i] = Overlapped(tr) /\ handles[i][2] = tr /\ submitted[tr]
  <1>1. handles \in Seq(Events) /\ Len(handles) >= 2
    BY DEF TypeOK, HandlesRight
  <1>2. i \in {1, 2} \/ i \in 3 .. Len(handles)
    BY <1>1
  <1>3. handles[1] = Target(call[t], arg[t]) /\ handles[2] = Updated
    BY DEF HandlesRight
  <1>4. CASE i \in {1, 2}
    BY <1>3, <1>4, TargetLemma DEF AfterWait
  <1>5. CASE i \in 3 .. Len(handles)
    <2>1. PICK tr \in Transfers : handles[i] = Overlapped(tr) /\ submitted[tr]
      BY <1>5 DEF HandlesRight
    <2>2. AfterWait(t, handles[i]) = "got" /\ handles[i][2] = tr
      BY <2>1, TargetLemma, EventsDiffer DEF AfterWait
    <2> QED
      BY <1>5, <2>1, <2>2
  <1> QED
    BY <1>2, <1>4, <1>5


\* Where a callback's end takes the threads: its own fills the handles again,
\* those blocked in a wait for the transfer leave it, the others stay.
LEMMA CallbackMoves ==
  ASSUME TypeOK, HandlesRight, NEW t \in Threads, CallbackReturns(t)
  PROVE  \A u \in Threads :
           pc'[u] = IF u = t THEN "locked"
                    ELSE IF Done(reaping[t]) /\ Blocked(u) /\ Completion(reaping[t]) = Target(call[u], arg[u])
                    THEN IF pc[u] = "wait" THEN "unlock" ELSE "return"
                    ELSE pc[u]
  <1> DEFINE at == [pc EXCEPT ![t] = "locked"]
  <1>1. /\ at \in [Threads -> PC] /\ pc[t] = "callback"
        /\ \A u \in Threads : at[u] = IF u = t THEN "locked" ELSE pc[u]
    BY DEF CallbackReturns, TypeOK, PC
  <1>2. CASE Done(reaping[t])
    <2> DEFINE h == Completion(reaping[t])
    <2>1. h # Updated /\ h # Lock /\ (\A x : h # Overlapped(x)) /\ Wake(h, at)
      BY <1>2, EventsDiffer DEF CallbackReturns
    <2> HIDE DEF at, h
    <2>2. \A u \in Threads :
            pc'[u] = IF Blocked(u) /\ h = Target(call[u], arg[u])
                     THEN IF pc[u] = "wait" THEN "unlock" ELSE "return"
                     ELSE at[u]
      BY <1>1, <2>1, WakeTarget
    <2> QED
      BY <1>1, <1>2, <2>2 DEF Blocked, h
  <1>3. CASE ~Done(reaping[t])
    <2>1. pc' = at
      BY <1>3 DEF CallbackReturns
    <2> QED
      BY <1>1, <1>3, <2>1
  <1> QED
    BY <1>2, <1>3
-----------------------------------------------------------------------------
(* The reaper lock and the threads.                                        *)

\* A step that leaves the lock and every thread's role alone.
LEMMA SameReapers ==
  ASSUME OneReaper, \A t \in Threads : Reaper(t)' <=> Reaper(t),
         Lock \in signalled' <=> Lock \in signalled
  PROVE  OneReaper'
  BY DEF OneReaper

\* SetEvent moves no thread into or out of the role of the reaper.
LEMMA WakeKeepsReapers ==
  ASSUME TypeOK, NEW h, NEW at \in [Threads -> PC], Wake(h, at),
         \A t \in Threads : at[t] = pc[t] \/ (Reaper(t) /\ at[t] = "locked")
  PROVE  \A t \in Threads : Reaper(t)' <=> Reaper(t)
  BY WakeLemma DEF Reaper

\* hReaperLock is handed from thread to thread and never lost or doubled.
LEMMA ReaperStep ==
  ASSUME TypeOK, OneReaper, HandlesRight, [Next]_vars
  PROVE  OneReaper'
  <1>1. ASSUME NEW t \in Threads, NEW tr \in Transfers \cup {NoTran},
               NEW c \in {"run", "wait"}, ReapUntil(t, c, tr)
        PROVE  OneReaper'
    <2>1. CASE Lock \in signalled /\ signalled' = signalled \ {Lock} /\ Goto(t, "locked")
      <3>1. Lock \notin signalled' /\ \A u \in Threads : Reaper(u)' <=> u = t
        BY <2>1 DEF OneReaper, Reaper, Goto, TypeOK
      <3> QED
        BY <3>1 DEF OneReaper
    <2>2. CASE UNCHANGED signalled /\ (Goto(t, "return") \/ Goto(t, "enter"))
      <3>1. \A u \in Threads : Reaper(u)' <=> Reaper(u)
        BY <1>1, <2>2 DEF ReapUntil, Reaper, Goto, TypeOK
      <3> QED
        BY <2>2, <3>1, SameReapers
    <2> QED
      BY <1>1, <2>1, <2>2 DEF ReapUntil
  <1>2. ASSUME NEW t \in Threads, StopEventLoop(t)
        PROVE  OneReaper'
    <2>1. \A u \in Threads : Reaper(u)' <=> Reaper(u)
      BY <1>2, WakeKeepsReapers DEF StopEventLoop, TypeOK
    <2> QED
      BY <1>2, <2>1, SameReapers, EventsDiffer DEF StopEventLoop
  <1>3. ASSUME NEW t \in Threads, NEW tr \in Transfers, SubmitTransfer(t, tr)
        PROVE  OneReaper'
    <2>1. \A u \in Threads : Reaper(u)' <=> Reaper(u)
      BY <1>3, WakeKeepsReapers DEF SubmitTransfer, TypeOK
    <2> QED
      BY <1>3, <2>1, SameReapers, EventsDiffer DEF SubmitTransfer
  <1>4. ASSUME NEW tr \in Transfers, NEW r \in {"success", "aborted", "failed"}, Complete(tr, r)
        PROVE  OneReaper'
    <2>1. \A u \in Threads : Reaper(u)' <=> Reaper(u)
      BY <1>4, WakeKeepsReapers DEF Complete, TypeOK
    <2> QED
      BY <1>4, <2>1, SameReapers, EventsDiffer DEF Complete
  <1>5. ASSUME NEW t \in Threads, CallbackReturns(t)
        PROVE  OneReaper'
    <2> DEFINE at == [pc EXCEPT ![t] = "locked"]
    <2>1. Reaper(t) /\ at \in [Threads -> PC]
      BY <1>5 DEF CallbackReturns, Reaper, TypeOK, PC
    <2>2. \A u \in Threads : Reaper(u)' <=> Reaper(u)
      <3>1. CASE Wake(Completion(reaping[t]), at)
        BY <2>1, <3>1, WakeKeepsReapers DEF TypeOK
      <3>2. CASE pc' = at
        BY <2>1, <3>2 DEF Reaper, TypeOK
      <3> QED
        BY <1>5, <3>1, <3>2 DEF CallbackReturns
    <2>3. Lock \in signalled' <=> Lock \in signalled
      BY <1>5, EventsDiffer DEF CallbackReturns
    <2> QED
      BY <2>2, <2>3, SameReapers
  <1>6. ASSUME NEW t \in Threads, ReleaseLock(t)
        PROVE  OneReaper'
    <2>1. Reaper(t) /\ Lock \notin signalled
      BY <1>6 DEF ReleaseLock, Reaper, OneReaper
    <2>2. CASE signalled' = signalled \cup {Lock} /\ Goto(t, "return")
      <3>1. \A u \in Threads : ~Reaper(u)'
        BY <2>1, <2>2 DEF OneReaper, Reaper, Goto, TypeOK
      <3> QED
        BY <2>2, <3>1 DEF OneReaper
    <2>3. ASSUME NEW u \in Threads, pc[u] = "enter", UNCHANGED signalled,
                 pc' = [pc EXCEPT ![t] = "return", ![u] = "locked"]
          PROVE  OneReaper'
      <3>1. u # t
        BY <1>6, <2>3 DEF ReleaseLock
      <3>2. \A v \in Threads : Reaper(v)' <=> v = u
        BY <2>1, <2>3, <3>1 DEF OneReaper, Reaper, TypeOK
      <3> QED
        BY <2>1, <2>3, <3>2 DEF OneReaper
    <2> QED
      BY <1>6, <2>2, <2>3 DEF ReleaseLock
  <1>7. ASSUME NEW t \in Threads, FillHandleList(t)
        PROVE  OneReaper'
    <2>1. \A u \in Threads : Reaper(u)' <=> Reaper(u)
      BY <1>7 DEF FillHandleList, Reaper, Goto, TypeOK
    <2> QED
      BY <1>7, <2>1, SameReapers, EventsDiffer DEF FillHandleList
  <1>8. ASSUME NEW t \in Threads, WaitForHandles(t)
        PROVE  OneReaper'
    <2>1. \A u \in Threads : Reaper(u)' <=> Reaper(u)
      BY <1>8 DEF WaitForHandles, AfterWait, Reaper, Goto, TypeOK
    <2> QED
      BY <1>8, <2>1, SameReapers DEF WaitForHandles
  <1>9. ASSUME NEW t \in Threads, ReapTransfer(t)
        PROVE  OneReaper'
    <2>1. \A u \in Threads : Reaper(u)' <=> Reaper(u)
      BY <1>9 DEF ReapTransfer, Reaper, Goto, TypeOK
    <2> QED
      BY <1>9, <2>1, SameReapers DEF ReapTransfer
  <1>10. ASSUME NEW t \in Threads,
                \/ Return(t)
                \/ PerformDone(t)
                \/ \E tr \in Transfers : PerformTransfer(t, tr)
         PROVE  OneReaper'
    <2>1. \A u \in Threads : Reaper(u)' <=> Reaper(u)
      BY <1>10 DEF Return, PerformDone, PerformTransfer, Reaper, Goto, TypeOK
    <2> QED
      BY <1>10, <2>1, SameReapers, EventsDiffer DEF Return, PerformDone, PerformTransfer
  <1>11. ASSUME NEW t \in Threads,
                \/ ResetEventLoop(t)
                \/ WaitFailed(t)
                \/ \E tr \in Transfers : \/ SubmitFails(t, tr) \/ CancelTransfer(t, tr)
                                         \/ AllocTransfer(t, tr) \/ FreeTransfer(t, tr)
         PROVE  OneReaper'
    <2>1. UNCHANGED pc
      BY <1>11 DEF ResetEventLoop, WaitFailed, SubmitFails, CancelTransfer, AllocTransfer,
                   FreeTransfer, threadVars
    <2>2. Lock \in signalled' <=> Lock \in signalled
      BY <1>11, EventsDiffer
         DEF ResetEventLoop, WaitFailed, SubmitFails, CancelTransfer, AllocTransfer, FreeTransfer
    <2> QED
      BY <2>1, <2>2, SameReapers DEF Reaper
  <1>12. CASE UNCHANGED vars
    BY <1>12, SameReapers DEF vars, threadVars, Reaper
  <1> QED
    BY <1>1, <1>2, <1>3, <1>4, <1>5, <1>6, <1>7, <1>8, <1>9, <1>10, <1>11, <1>12
       DEF Next, ClientStep, LibraryStep, DeviceStep, RunEventLoop, WaitForTransfer

\* A step that changes only the places of some threads, none of which is
\* outside the library, in a synchronous call or in a callback.
LEMMA MovedThreads ==
  ASSUME Located, UNCHANGED <<call, arg, reaping>>,
         \A t \in Threads :
           \/ pc'[t] = pc[t]
           \/ /\ pc[t] \in {"enter", "wait", "filled", "locked", "unlock", "callback"}
              /\ pc'[t] \in {"enter", "wait", "filled", "locked", "unlock", "return"}
  PROVE  Located'
  BY DEF Located

LEMMA LocatedStep ==
  ASSUME TypeOK, Located, ListIsExact, HandlesRight, ClientKnows, [Next]_vars
  PROVE  Located'
  <1>1. ASSUME NEW t \in Threads, NEW tr \in Transfers \cup {NoTran}, NEW c \in {"run", "wait"},
               c = "wait" => tr \in Transfers, ReapUntil(t, c, tr)
        PROVE  Located'
    <2>1. pc[t] = "idle" /\ pc'[t] \in {"return", "locked", "enter"}
      BY <1>1 DEF ReapUntil, Goto, TypeOK
    <2>2. call'[t] = c /\ arg'[t] = tr
      BY <1>1 DEF ReapUntil, TypeOK
    <2>3. \A u \in Threads \ {t} : pc'[u] = pc[u] /\ call'[u] = call[u] /\ arg'[u] = arg[u]
      BY <1>1 DEF ReapUntil, Goto, TypeOK
    <2> QED
      BY <1>1, <2>1, <2>2, <2>3 DEF ReapUntil, Located
  <1>2. ASSUME NEW t \in Threads, StopEventLoop(t)
        PROVE  Located'
    <2>1. \A u \in Threads : pc'[u] = pc[u] \/ (pc[u] \in {"enter", "wait"} /\ pc'[u] \in {"unlock", "return"})
      BY <1>2, WakeTarget, EventsDiffer DEF StopEventLoop, TypeOK, Blocked
    <2> QED
      BY <1>2, <2>1, MovedThreads DEF StopEventLoop
  <1>3. ASSUME NEW t \in Threads, NEW tr \in Transfers, SubmitTransfer(t, tr)
        PROVE  Located'
    <2>1. \A u \in Threads : pc'[u] = pc[u] \/ (pc[u] = "wait" /\ pc'[u] = "locked")
      BY <1>3, WakeUpdated DEF SubmitTransfer
    <2> QED
      BY <1>3, <2>1, MovedThreads DEF SubmitTransfer
  <1>4. ASSUME NEW tr \in Transfers, NEW r \in {"success", "aborted", "failed"}, Complete(tr, r)
        PROVE  Located'
    <2>1. \A u \in Threads :
            IF Overlapped(tr) \in WaitsFor(u)
            THEN pc[u] = "wait" /\ pc'[u] = "got" /\ reaping'[u] = tr
            ELSE pc'[u] = pc[u] /\ reaping'[u] = reaping[u]
      BY <1>4, WakeOverlapped DEF Complete
    <2> QED
      BY <1>4, <2>1 DEF Complete, Located
  <1>5. ASSUME NEW t \in Threads, CallbackReturns(t)
        PROVE  Located'
    <2>1. pc[t] = "callback"
      BY <1>5 DEF CallbackReturns
    <2>2. \A u \in Threads :
            \/ pc'[u] = pc[u] /\ u # t
            \/ /\ pc[u] \in {"enter", "wait", "callback"}
               /\ pc'[u] \in {"locked", "unlock", "return"}
      BY <1>5, <2>1, CallbackMoves DEF Blocked
    <2>3. \A u \in Threads \ {t} : reaping'[u] = reaping[u]
      BY <1>5 DEF CallbackReturns, TypeOK
    <2> QED
      BY <1>5, <2>1, <2>2, <2>3 DEF CallbackReturns, Located
  <1>6. ASSUME NEW t \in Threads, ReleaseLock(t)
        PROVE  Located'
    <2>1. \A u \in Threads :
            pc'[u] = pc[u] \/ (pc[u] \in {"enter", "unlock"} /\ pc'[u] \in {"locked", "return"})
      BY <1>6 DEF ReleaseLock, Goto, TypeOK
    <2> QED
      BY <1>6, <2>1, MovedThreads DEF ReleaseLock
  <1>7. ASSUME NEW t \in Threads, FillHandleList(t)
        PROVE  Located'
    <2>1. \A u \in Threads : pc'[u] = pc[u] \/ (pc[u] = "locked" /\ pc'[u] = "filled")
      BY <1>7 DEF FillHandleList, Goto, TypeOK
    <2> QED
      BY <1>7, <2>1, MovedThreads DEF FillHandleList
  <1>8. ASSUME NEW t \in Threads, WaitForHandles(t)
        PROVE  Located'
    <2>1. CASE pc' = [pc EXCEPT ![t] = "wait"] /\ UNCHANGED reaping
      <3>1. \A u \in Threads : pc'[u] = pc[u] \/ (pc[u] = "filled" /\ pc'[u] = "wait")
        BY <1>8, <2>1 DEF WaitForHandles, TypeOK
      <3> QED
        BY <1>8, <2>1, <3>1, MovedThreads DEF WaitForHandles
    <2>2. ASSUME NEW i \in DOMAIN handles,
                 pc' = [pc EXCEPT ![t] = AfterWait(t, handles[i])],
                 reaping' = [reaping EXCEPT ![t] =
                   IF AfterWait(t, handles[i]) = "got" THEN handles[i][2] ELSE NoTran]
          PROVE  Located'
      <3>1. pc[t] = "filled"
        BY <1>8 DEF WaitForHandles
      <3>2. \/ pc'[t] \in {"unlock", "locked"}
            \/ pc'[t] = "got" /\ reaping'[t] \in Transfers
        BY <2>2, <3>1, SatisfiedLemma DEF TypeOK
      <3>3. \A u \in Threads \ {t} : pc'[u] = pc[u] /\ reaping'[u] = reaping[u]
        BY <2>2 DEF TypeOK
      <3> QED
        BY <1>8, <3>1, <3>2, <3>3 DEF WaitForHandles, Located
    <2> QED
      BY <1>8, <2>1, <2>2 DEF WaitForHandles, Goto
  <1>9. ASSUME NEW t \in Threads, ReapTransfer(t)
        PROVE  Located'
    <2>1. pc[t] = "got" /\ pc'[t] = "callback" /\ \A u \in Threads \ {t} : pc'[u] = pc[u]
      BY <1>9 DEF ReapTransfer, Goto, TypeOK
    <2> QED
      BY <1>9, <2>1 DEF ReapTransfer, Located
  <1>10. ASSUME NEW t \in Threads, Return(t)
         PROVE  Located'
    <2>1. /\ pc[t] = "return" /\ pc'[t] = "idle" /\ call'[t] = "none"
          /\ \A u \in Threads \ {t} : pc'[u] = pc[u] /\ call'[u] = call[u] /\ arg'[u] = arg[u]
      BY <1>10 DEF Return, Goto, TypeOK
    <2> QED
      BY <1>10, <2>1 DEF Return, Located
  <1>11. ASSUME NEW t \in Threads, PerformDone(t)
         PROVE  Located'
    <2>1. /\ pc[t] = "perform" /\ pc'[t] = "idle" /\ call'[t] = "none"
          /\ \A u \in Threads \ {t} : pc'[u] = pc[u] /\ call'[u] = call[u] /\ arg'[u] = arg[u]
      BY <1>11 DEF PerformDone, Goto, TypeOK
    <2> QED
      BY <1>11, <2>1 DEF PerformDone, Located
  <1>12. ASSUME NEW t \in Threads, NEW tr \in Transfers, PerformTransfer(t, tr)
         PROVE  Located'
    <2>1. /\ pc[t] = "idle" /\ pc'[t] = "perform" /\ call'[t] = "sync" /\ arg'[t] = tr
          /\ \A u \in Threads \ {t} : pc'[u] = pc[u] /\ call'[u] = call[u] /\ arg'[u] = arg[u]
      BY <1>12 DEF PerformTransfer, Goto, TypeOK
    <2>2. \A u \in Threads : pc[u] = "perform" => arg[u] # tr
      BY <1>12 DEF PerformTransfer, ClientKnows
    <2> QED
      BY <1>12, <2>1, <2>2 DEF PerformTransfer, Located
  <1>13. ASSUME NEW t \in Threads,
                \/ ResetEventLoop(t)
                \/ WaitFailed(t)
                \/ \E tr \in Transfers : \/ SubmitFails(t, tr) \/ CancelTransfer(t, tr)
                                         \/ AllocTransfer(t, tr) \/ FreeTransfer(t, tr)
         PROVE  Located'
    <2>1. UNCHANGED threadVars
      BY <1>13 DEF ResetEventLoop, WaitFailed, SubmitFails, CancelTransfer, AllocTransfer,
                   FreeTransfer
    <2> QED
      BY <2>1, MovedThreads DEF threadVars
  <1>14. CASE UNCHANGED vars
    BY <1>14, MovedThreads DEF vars, threadVars
  <1> QED
    BY <1>1, <1>2, <1>3, <1>4, <1>5, <1>6, <1>7, <1>8, <1>9, <1>10, <1>11, <1>12, <1>13, <1>14
       DEF Next, ClientStep, LibraryStep, DeviceStep, RunEventLoop, WaitForTransfer

-----------------------------------------------------------------------------
(* What clients believe, and what they are told.                           *)

\* A step that is not about transfers.
LEMMA SameClients ==
  ASSUME ClientKnows, UNCHANGED <<submitted, client, status, io>>,
         \A tr \in Transfers : Completion(tr) \in signalled' => Completion(tr) \in signalled,
         \A t \in Threads :
           /\ pc'[t] = "perform" => pc[t] = "perform" /\ arg'[t] = arg[t]
           /\ pc'[t] = "callback" => pc[t] = "callback" /\ reaping'[t] = reaping[t]
  PROVE  ClientKnows'
  BY DEF ClientKnows, Pending

LEMMA ClientsStep ==
  ASSUME TypeOK, Located, OneReaper, ListIsExact, HandlesRight, ClientKnows, [Next]_vars
  PROVE  ClientKnows'
  <1>1. ASSUME NEW t \in Threads, NEW tr \in Transfers \cup {NoTran}, NEW c \in {"run", "wait"},
               ReapUntil(t, c, tr)
        PROVE  ClientKnows'
    <2>1. \A u \in Threads : \/ pc'[u] \in {"return", "locked", "enter"}
                             \/ pc'[u] = pc[u] /\ arg'[u] = arg[u] /\ reaping'[u] = reaping[u]
      BY <1>1 DEF ReapUntil, Goto, TypeOK
    <2>2. signalled' \subseteq signalled
      BY <1>1 DEF ReapUntil
    <2> QED
      BY <1>1, <2>1, <2>2, SameClients DEF ReapUntil, tranVars
  <1>2. ASSUME NEW t \in Threads, StopEventLoop(t)
        PROVE  ClientKnows'
    <2>1. \A u \in Threads : pc'[u] = pc[u] \/ pc'[u] \in {"unlock", "return"}
      BY <1>2, WakeTarget, EventsDiffer DEF StopEventLoop, TypeOK
    <2> QED
      BY <1>2, <2>1, SameClients, EventsDiffer DEF StopEventLoop, tranVars
  <1>3. ASSUME NEW t \in Threads, NEW tr \in Transfers, SubmitTransfer(t, tr)
        PROVE  ClientKnows'
    <2>1. \A u \in Threads : pc'[u] = pc[u] \/ pc'[u] = "locked"
      BY <1>3, WakeUpdated DEF SubmitTransfer
    <2>2. \A x \in Transfers : Completion(x) \in signalled' => x # tr /\ Completion(x) \in signalled
      BY <1>3, EventsDiffer DEF SubmitTransfer
    <2>3. /\ client[tr] \in {"idle", "called"}
          /\ client'[tr] = "pending" /\ submitted'[tr]
          /\ \A x \in Transfers \ {tr} : /\ client'[x] = client[x]
                                         /\ submitted'[x] = submitted[x]
                                         /\ io'[x] = io[x]
      BY <1>3 DEF SubmitTransfer, TypeOK
    <2> QED
      BY <1>3, <2>1, <2>2, <2>3 DEF SubmitTransfer, ClientKnows, Pending, Located
  <1>4. ASSUME NEW tr \in Transfers, NEW r \in {"success", "aborted", "failed"}, Complete(tr, r)
        PROVE  ClientKnows'
    <2>1. \A u \in Threads : \/ pc'[u] = "got"
                             \/ pc'[u] = pc[u] /\ reaping'[u] = reaping[u]
      BY <1>4, WakeOverlapped DEF Complete
    <2>2. \A x \in Transfers : Completion(x) \in signalled' => Completion(x) \in signalled
      BY <1>4, EventsDiffer DEF Complete
    <2>3. client[tr] \notin {"idle", "called"} /\ \A x \in Transfers \ {tr} : io'[x] = io[x]
      BY <1>4 DEF Complete, ClientKnows, TypeOK
    <2> QED
      BY <1>4, <2>1, <2>2, <2>3 DEF Complete, ClientKnows, Pending
  <1>5. ASSUME NEW t \in Threads, CallbackReturns(t)
        PROVE  ClientKnows'
    <2> DEFINE tr == reaping[t]
    <2>1. /\ pc[t] = "callback" /\ tr \in Transfers
          /\ client[tr] \in {"called", "pending", "cancelled"}
          /\ \A u \in Threads \ {t} : pc[u] # "callback"
      BY <1>5 DEF CallbackReturns, Located, ClientKnows, OneReaper, Reaper
    <2>2. \A u \in Threads : IF u = t THEN pc'[u] = "locked"
                             ELSE pc'[u] = pc[u] \/ pc'[u] \in {"unlock", "return"}
      BY <1>5, CallbackMoves
    <2>3. \A u \in Threads : pc'[u] # "callback" /\ (pc'[u] = "perform" => pc[u] = "perform")
      BY <2>1, <2>2
    <2>4. CASE Done(tr)
      <3>1. /\ client' = [client EXCEPT ![tr] = "idle"]
            /\ signalled' = signalled \cup {Completion(tr)}
        BY <1>5, <2>4 DEF CallbackReturns
      <3>2. client[tr] = "called"
        BY <2>1, <2>4 DEF Done, ClientKnows
      <3>3. /\ client'[tr] = "idle"
            /\ \A x \in Transfers \ {tr} : client'[x] = client[x]
            /\ \A x \in Transfers \ {tr} : Completion(x) \in signalled' => Completion(x) \in signalled
        BY <2>1, <3>1, EventsDiffer DEF TypeOK
      <3> HIDE DEF tr
      <3> QED
        BY <1>5, <2>1, <2>3, <3>2, <3>3 DEF CallbackReturns, ClientKnows, Pending, Located
    <2>5. CASE ~Done(tr)
      BY <1>5, <2>3, <2>5, SameClients DEF CallbackReturns
    <2> QED
      BY <2>4, <2>5
  <1>6. ASSUME NEW t \in Threads, \/ ReleaseLock(t)
                                  \/ FillHandleList(t)
        PROVE  ClientKnows'
    <2>1. \A u \in Threads : pc'[u] = pc[u] \/ pc'[u] \in {"locked", "return", "filled"}
      BY <1>6 DEF ReleaseLock, FillHandleList, Goto, TypeOK
    <2>2. \A x \in Transfers : Completion(x) \in signalled' => Completion(x) \in signalled
      BY <1>6, EventsDiffer DEF ReleaseLock, FillHandleList
    <2> QED
      BY <1>6, <2>1, <2>2, SameClients DEF ReleaseLock, FillHandleList, tranVars
  <1>7. ASSUME NEW t \in Threads, WaitForHandles(t)
        PROVE  ClientKnows'
    <2>1. \A u \in Threads : \/ pc'[u] \in {"wait", "unlock", "locked", "got"}
                             \/ pc'[u] = pc[u] /\ reaping'[u] = reaping[u]
      BY <1>7 DEF WaitForHandles, AfterWait, Goto, TypeOK
    <2> QED
      BY <1>7, <2>1, SameClients DEF WaitForHandles, tranVars
  <1>8. ASSUME NEW t \in Threads, ReapTransfer(t)
        PROVE  ClientKnows'
    <2> DEFINE tr == reaping[t]
    <2>1. /\ pc[t] = "got" /\ pc'[t] = "callback" /\ \A u \in Threads \ {t} : pc'[u] = pc[u]
          /\ tr \in Transfers /\ ~Pending(tr)
      BY <1>8 DEF ReapTransfer, Goto, TypeOK, Located
    <2>2. submitted[tr] /\ client[tr] \in {"pending", "cancelled"}
      BY <1>8, <2>1 DEF ListIsExact, ClientKnows
    <2>3. /\ client'[tr] = "called" /\ ~submitted'[tr] /\ status'[tr] = StatusOf(io[tr])
          /\ \A x \in Transfers \ {tr} : /\ client'[x] = client[x]
                                         /\ submitted'[x] = submitted[x]
                                         /\ status'[x] = status[x]
      BY <1>8, <2>1 DEF ReapTransfer, TypeOK
    <2>4. UNCHANGED <<io, signalled, arg, reaping>>
      BY <1>8 DEF ReapTransfer
    <2> HIDE DEF tr
    <2>5. \A x \in Transfers :
            /\ submitted'[x] <=> client'[x] \in {"pending", "cancelled"}
            /\ client'[x] \in {"idle", "called"} => ~Pending(x)' /\ status'[x] = StatusOf(io'[x])
            /\ Completion(x) \in signalled' => client'[x] = "idle"
      BY <2>1, <2>2, <2>3, <2>4 DEF ClientKnows, Pending
    <2>6. \A u \in Threads :
            /\ pc'[u] = "perform" => client'[arg'[u]] = "sync"
            /\ pc'[u] = "callback" => client'[reaping'[u]] \in {"called", "pending", "cancelled"}
      BY <2>1, <2>2, <2>3, <2>4 DEF ClientKnows, Located, tr
    <2> QED
      BY <2>5, <2>6 DEF ClientKnows
  <1>9. ASSUME NEW t \in Threads, Return(t)
        PROVE  ClientKnows'
    <2>1. \A u \in Threads : pc'[u] = "idle" \/ (pc'[u] = pc[u] /\ arg'[u] = arg[u])
      BY <1>9 DEF Return, Goto, TypeOK
    <2> QED
      BY <1>9, <2>1, SameClients DEF Return, tranVars
  <1>10. ASSUME NEW t \in Threads, PerformDone(t)
         PROVE  ClientKnows'
    <2> DEFINE tr == arg[t]
    <2>1. /\ pc[t] = "perform" /\ pc'[t] = "idle"
          /\ \A u \in Threads \ {t} : pc'[u] = pc[u] /\ arg'[u] = arg[u]
          /\ tr \in Transfers /\ client[tr] = "sync"
      BY <1>10 DEF PerformDone, Goto, TypeOK, Located, ClientKnows
    <2>2. /\ client'[tr] = "free"
          /\ \A x \in Transfers \ {tr} : client'[x] = client[x] /\ status'[x] = status[x]
      BY <1>10, <2>1 DEF PerformDone, TypeOK
    <2>3. \A x \in Transfers : Completion(x) \in signalled' => Completion(x) \in signalled
      BY <1>10 DEF PerformDone
    <2>4. \A u \in Threads \ {t} : pc[u] = "perform" => arg[u] # tr
      BY <2>1 DEF Located
    <2>5. UNCHANGED <<submitted, io, reaping>>
      BY <1>10 DEF PerformDone
    <2> HIDE DEF tr
    <2> QED
      BY <2>1, <2>2, <2>3, <2>4, <2>5 DEF ClientKnows, Pending, Located
  <1>11. ASSUME NEW t \in Threads, NEW tr \in Transfers, PerformTransfer(t, tr)
         PROVE  ClientKnows'
    <2>1. /\ pc'[t] = "perform" /\ arg'[t] = tr
          /\ \A u \in Threads \ {t} : pc'[u] = pc[u] /\ arg'[u] = arg[u]
      BY <1>11 DEF PerformTransfer, Goto, TypeOK
    <2>2. /\ client[tr] = "free" /\ client'[tr] = "sync"
          /\ \A x \in Transfers \ {tr} : client'[x] = client[x] /\ io'[x] = io[x]
      BY <1>11 DEF PerformTransfer, TypeOK
    <2> QED
      BY <1>11, <2>1, <2>2 DEF PerformTransfer, ClientKnows, Pending, Located
  <1>12. ASSUME NEW t \in Threads, NEW tr \in Transfers, CancelTransfer(t, tr)
         PROVE  ClientKnows'
    <2>1. /\ client[tr] = "pending" /\ client'[tr] = "cancelled"
          /\ \A x \in Transfers \ {tr} : client'[x] = client[x]
      BY <1>12 DEF CancelTransfer, TypeOK
    <2>2. \A x \in Transfers : io'[x] = io[x] \/ (Pending(x) /\ Pending(x)')
      BY <1>12 DEF CancelTransfer, Pending
    <2>3. \A x \in Transfers : client[x] \in {"idle", "called"} => io'[x] = io[x]
      BY <2>2 DEF ClientKnows
    <2> QED
      BY <1>12, <2>1, <2>3 DEF CancelTransfer, threadVars, ClientKnows, Pending, Located
  <1>13. ASSUME NEW t \in Threads, NEW tr \in Transfers, AllocTransfer(t, tr)
         PROVE  ClientKnows'
    <2>1. /\ client[tr] = "free" /\ client'[tr] = "idle" /\ ~submitted'[tr]
          /\ io'[tr] = "success" /\ status'[tr] = StatusOf("success")
          /\ \A x \in Transfers \ {tr} : /\ client'[x] = client[x]
                                         /\ submitted'[x] = submitted[x]
                                         /\ io'[x] = io[x]
                                         /\ status'[x] = status[x]
      BY <1>13 DEF AllocTransfer, TypeOK, StatusOf
    <2>2. \A x \in Transfers \ {tr} : Completion(x) \in signalled' => Completion(x) \in signalled
      BY <1>13, EventsDiffer DEF AllocTransfer
    <2> QED
      BY <1>13, <2>1, <2>2 DEF AllocTransfer, threadVars, ClientKnows, Pending, Located
  <1>14. ASSUME NEW t \in Threads, NEW tr \in Transfers, FreeTransfer(t, tr)
         PROVE  ClientKnows'
    <2>1. /\ client[tr] = "idle" /\ client'[tr] = "free"
          /\ \A x \in Transfers \ {tr} : /\ client'[x] = client[x]
                                         /\ io'[x] = io[x]
                                         /\ status'[x] = status[x]
      BY <1>14 DEF FreeTransfer, TypeOK
    <2>2. \A x \in Transfers : Completion(x) \in signalled' => x # tr /\ Completion(x) \in signalled
      BY <1>14 DEF FreeTransfer
    <2> QED
      BY <1>14, <2>1, <2>2 DEF FreeTransfer, threadVars, ClientKnows, Pending, Located
  <1>15. ASSUME NEW t \in Threads, \/ ResetEventLoop(t)
                                   \/ WaitFailed(t)
                                   \/ \E tr \in Transfers : SubmitFails(t, tr)
         PROVE  ClientKnows'
    <2>1. UNCHANGED <<threadVars, tranVars>> /\ signalled' \subseteq signalled
      BY <1>15 DEF ResetEventLoop, WaitFailed, SubmitFails
    <2> QED
      BY <2>1, SameClients DEF threadVars, tranVars
  <1>16. CASE UNCHANGED vars
    BY <1>16, SameClients DEF vars, threadVars, tranVars
  <1> QED
    BY <1>1, <1>2, <1>3, <1>4, <1>5, <1>6, <1>7, <1>8, <1>9, <1>10, <1>11, <1>12, <1>13, <1>14,
       <1>15, <1>16
       DEF Next, ClientStep, LibraryStep, DeviceStep, RunEventLoop, WaitForTransfer

-----------------------------------------------------------------------------
(* The transfer list and the requests.                                     *)

\* A step that leaves the list alone, while the requests that a reaper has
\* got stay done.
LEMMA SameList ==
  ASSUME ListIsExact, UNCHANGED <<trani, submitted>>,
         \A t \in Threads : pc'[t] = "got" =>
           /\ pc[t] = "got" /\ reaping'[t] = reaping[t]
           /\ ~Pending(reaping[t]) => ~Pending(reaping[t])'
  PROVE  ListIsExact'
  BY DEF ListIsExact, Pending

\* A transfer that is allocated is not submitted already.
LEMMA AllocKeepsSubmitted ==
  ASSUME TypeOK, ClientKnows, NEW t \in Threads, NEW tr \in Transfers, AllocTransfer(t, tr)
  PROVE  submitted' = submitted
  <1>1. submitted[tr] = FALSE
    <2>1. submitted[tr] \in BOOLEAN /\ ~submitted[tr]
      BY DEF AllocTransfer, ClientKnows, TypeOK
    <2> QED
      BY <2>1
  <1>2. submitted' = [submitted EXCEPT ![tr] = FALSE]
    BY DEF AllocTransfer
  <1> QED
    BY <1>1, <1>2, Zenon DEF TypeOK

LEMMA ListStep ==
  ASSUME TypeOK, Located, OneReaper, ListIsExact, HandlesRight, ClientKnows, EventsTell,
         [Next]_vars
  PROVE  ListIsExact'
  <1>1. ASSUME NEW t \in Threads, NEW tr \in Transfers, SubmitTransfer(t, tr)
        PROVE  ListIsExact'
    <2>1. \A u \in Threads : pc'[u] = pc[u] \/ pc'[u] = "locked"
      BY <1>1, WakeUpdated DEF SubmitTransfer
    <2>2. ~submitted[tr] /\ submitted'[tr] /\ \A x \in Transfers \ {tr} : submitted'[x] = submitted[x]
      BY <1>1 DEF SubmitTransfer, ClientKnows, TypeOK
    <2>3. trani \in Seq(Transfers) /\ trani' = Append(trani, tr)
      BY <1>1 DEF SubmitTransfer, TypeOK
    <2>4. /\ DOMAIN trani = 1 .. Len(trani) /\ DOMAIN trani' = 1 .. Len(trani) + 1
          /\ \A i \in DOMAIN trani : trani'[i] = trani[i] /\ trani[i] # tr
          /\ trani'[Len(trani) + 1] = tr
          /\ Len(trani) \in Nat
      BY <2>2, <2>3 DEF ListIsExact
    <2>5. \A i, j \in DOMAIN trani' : trani'[i] = trani'[j] => i = j
      BY <2>4 DEF ListIsExact
    <2>6. \A x \in Transfers : submitted'[x] <=> \E i \in DOMAIN trani' : trani'[i] = x
      BY <2>2, <2>4 DEF ListIsExact
    <2>7. ASSUME NEW u \in Threads, pc'[u] = "got"
          PROVE  submitted'[reaping'[u]] /\ ~Pending(reaping[u])'
      <3>1. pc[u] = "got" /\ reaping[u] \in Transfers /\ reaping[u] # tr
        BY <2>1, <2>2, <2>7 DEF ListIsExact, Located
      <3> QED
        BY <1>1, <2>2, <3>1 DEF SubmitTransfer, ListIsExact, Pending, TypeOK
    <2>8. UNCHANGED reaping
      BY <1>1 DEF SubmitTransfer
    <2> QED
      BY <2>5, <2>6, <2>7, <2>8 DEF ListIsExact, Pending
  <1>2. ASSUME NEW t \in Threads, ReapTransfer(t)
        PROVE  ListIsExact'
    <2> DEFINE tr == reaping[t]
    <2>1. tr \in Transfers /\ pc[t] = "got" /\ \A u \in Threads : pc'[u] # "got"
      BY <1>2 DEF ReapTransfer, Goto, TypeOK, Located, OneReaper, Reaper
    <2>2. ~submitted'[tr] /\ \A x \in Transfers \ {tr} : submitted'[x] = submitted[x]
      BY <1>2, <2>1 DEF ReapTransfer, TypeOK
    <2>3. trani' = Without(tr) /\ \E i \in DOMAIN trani : trani[i] = tr
      BY <1>2 DEF ReapTransfer
    <2> HIDE DEF tr
    <2>4. /\ \A i, j \in DOMAIN trani' : trani'[i] = trani'[j] => i = j
          /\ \A x \in Transfers :
               (\E i \in DOMAIN trani' : trani'[i] = x) <=> x # tr /\ \E i \in DOMAIN trani : trani[i] = x
      BY <2>1, <2>3, WithoutLemma DEF ListIsExact
    <2> QED
      BY <2>1, <2>2, <2>4 DEF ListIsExact
  <1>3. ASSUME NEW tr \in Transfers, NEW r \in {"success", "aborted", "failed"}, Complete(tr, r)
        PROVE  ListIsExact'
    <2>1. ASSUME NEW u \in Threads, pc'[u] = "got"
          PROVE  submitted'[reaping'[u]] /\ ~Pending(reaping[u])'
      <3>1. CASE Overlapped(tr) \in WaitsFor(u)
        <4>1. pc[u] = "wait" /\ reaping'[u] = tr
          BY <1>3, <3>1, WakeOverlapped DEF Complete
        <4>2. submitted[tr]
          BY <3>1, <4>1, WaitingLemma, TargetLemma, EventsDiffer
        <4>3. io'[tr] = r
          BY <1>3 DEF Complete, TypeOK
        <4> QED
          BY <1>3, <4>1, <4>2, <4>3 DEF Complete, Pending
      <3>2. CASE Overlapped(tr) \notin WaitsFor(u)
        <4>1. pc[u] = "got" /\ reaping'[u] = reaping[u]
          BY <1>3, <2>1, <3>2, WakeOverlapped DEF Complete
        <4>2. submitted[reaping[u]] /\ ~Pending(reaping[u]) /\ reaping[u] \in Transfers
          BY <4>1 DEF ListIsExact, Located
        <4>3. io'[reaping[u]] = io[reaping[u]]
          BY <1>3, <4>2 DEF Complete, TypeOK
        <4> QED
          BY <1>3, <4>1, <4>2, <4>3 DEF Complete, Pending
      <3> QED
        BY <3>1, <3>2
    <2> QED
      BY <1>3, <2>1 DEF Complete, ListIsExact, listVars, Pending
  <1>4. ASSUME NEW t \in Threads, WaitForHandles(t)
        PROVE  ListIsExact'
    <2>1. ASSUME NEW u \in Threads, pc'[u] = "got"
          PROVE  submitted[reaping'[u]] /\ ~Pending(reaping'[u])
      <3>1. CASE u # t
        <4>1. pc[u] = "got" /\ reaping'[u] = reaping[u]
          BY <1>4, <2>1, <3>1 DEF WaitForHandles, Goto, TypeOK
        <4> QED
          BY <4>1 DEF ListIsExact
      <3>2. CASE u = t
        <4>1. PICK i \in DOMAIN handles :
                /\ handles[i] \in signalled
                /\ AfterWait(t, handles[i]) = "got"
                /\ reaping'[t] = handles[i][2]
          BY <1>4, <2>1, <3>2 DEF WaitForHandles, Goto, TypeOK
        <4>2. PICK tr \in Transfers :
                handles[i] = Overlapped(tr) /\ handles[i][2] = tr /\ submitted[tr]
          BY <1>4, <4>1, SatisfiedLemma DEF WaitForHandles
        <4> QED
          BY <3>2, <4>1, <4>2 DEF EventsTell
      <3> QED
        BY <3>1, <3>2
    <2> QED
      BY <1>4, <2>1 DEF WaitForHandles, ListIsExact, listVars, tranVars, Pending
  <1>5. ASSUME NEW t \in Threads, NEW tr \in Transfers \cup {NoTran}, NEW c \in {"run", "wait"},
               ReapUntil(t, c, tr)
        PROVE  ListIsExact'
    <2>1. \A u \in Threads : pc'[u] = "got" => pc[u] = "got" /\ reaping'[u] = reaping[u]
      BY <1>5 DEF ReapUntil, Goto, TypeOK
    <2> QED
      BY <1>5, <2>1, SameList DEF ReapUntil, listVars, tranVars, Pending
  <1>6. ASSUME NEW t \in Threads, StopEventLoop(t)
        PROVE  ListIsExact'
    <2>1. \A u \in Threads : pc'[u] = pc[u] \/ pc'[u] \in {"unlock", "return"}
      BY <1>6, WakeTarget, EventsDiffer DEF StopEventLoop, TypeOK
    <2> QED
      BY <1>6, <2>1, SameList DEF StopEventLoop, listVars, tranVars, Pending
  <1>7. ASSUME NEW t \in Threads, CallbackReturns(t)
        PROVE  ListIsExact'
    <2>1. pc[t] = "callback"
      BY <1>7 DEF CallbackReturns
    <2>2. \A u \in Threads : pc'[u] = "got" => pc[u] = "got" /\ u # t
      BY <1>7, CallbackMoves
    <2>3. \A u \in Threads \ {t} : reaping'[u] = reaping[u]
      BY <1>7 DEF CallbackReturns, TypeOK
    <2> QED
      BY <1>7, <2>2, <2>3, SameList DEF CallbackReturns, listVars, Pending
  <1>8. ASSUME NEW t \in Threads, \/ ReleaseLock(t)
                                  \/ FillHandleList(t)
                                  \/ Return(t)
        PROVE  ListIsExact'
    <2>1. \A u \in Threads : pc'[u] = "got" => pc[u] = "got"
      BY <1>8 DEF ReleaseLock, FillHandleList, Return, Goto, TypeOK
    <2> QED
      BY <1>8, <2>1, SameList DEF ReleaseLock, FillHandleList, Return, listVars, tranVars, Pending
  <1>9. ASSUME NEW t \in Threads, \/ PerformDone(t)
                                  \/ \E tr \in Transfers : PerformTransfer(t, tr)
        PROVE  ListIsExact'
    <2>1. \A u \in Threads : pc'[u] = "got" => pc[u] = "got"
      BY <1>9 DEF PerformDone, PerformTransfer, Goto, TypeOK
    <2>2. \A x \in Transfers : submitted[x] => io'[x] = io[x]
      BY <1>9 DEF PerformDone, PerformTransfer, ClientKnows, TypeOK
    <2>3. \A u \in Threads : pc[u] = "got" => submitted[reaping[u]] /\ reaping[u] \in Transfers
      BY DEF ListIsExact, Located
    <2> QED
      BY <1>9, <2>1, <2>2, <2>3, SameList DEF PerformDone, PerformTransfer, listVars, Pending
  <1>10. ASSUME NEW t \in Threads, NEW tr \in Transfers,
                CancelTransfer(t, tr) \/ AllocTransfer(t, tr) \/ FreeTransfer(t, tr)
         PROVE  ListIsExact'
    <2>1. UNCHANGED <<pc, reaping, trani>>
      BY <1>10 DEF CancelTransfer, AllocTransfer, FreeTransfer, listVars, threadVars
    <2>2. UNCHANGED submitted
      BY <1>10, AllocKeepsSubmitted DEF CancelTransfer, FreeTransfer
    <2>3. \A x \in Transfers : submitted[x] /\ ~Pending(x) => io'[x] = io[x]
      BY <1>10 DEF CancelTransfer, AllocTransfer, FreeTransfer, ClientKnows, TypeOK
    <2>4. \A u \in Threads : pc[u] = "got" => submitted[reaping[u]] /\ reaping[u] \in Transfers
      BY DEF ListIsExact, Located
    <2> QED
      BY <2>1, <2>2, <2>3, <2>4, SameList DEF Pending
  <1>11. ASSUME NEW t \in Threads, \/ ResetEventLoop(t)
                                   \/ WaitFailed(t)
                                   \/ \E tr \in Transfers : SubmitFails(t, tr)
         PROVE  ListIsExact'
    <2>1. UNCHANGED <<threadVars, tranVars, listVars>>
      BY <1>11 DEF ResetEventLoop, WaitFailed, SubmitFails
    <2> QED
      BY <2>1, SameList DEF threadVars, tranVars, listVars, Pending
  <1>12. CASE UNCHANGED vars
    BY <1>12, SameList DEF vars, threadVars, tranVars, listVars, Pending
  <1> QED
    BY <1>1, <1>2, <1>3, <1>4, <1>5, <1>6, <1>7, <1>8, <1>9, <1>10, <1>11, <1>12
       DEF Next, ClientStep, LibraryStep, DeviceStep, RunEventLoop, WaitForTransfer

\* The event of a submitted transfer tells that its request has ended.
LEMMA EventsStep ==
  ASSUME TypeOK, Located, ListIsExact, ClientKnows, EventsTell, [Next]_vars
  PROVE  EventsTell'
  <1> USE DEF TypeOK
  <1>1. ASSUME NEW t \in Threads, NEW tr \in Transfers, SubmitTransfer(t, tr)
        PROVE  EventsTell'
    <2>1. /\ io'[tr] = "pending" /\ Overlapped(tr) \notin signalled'
          /\ \A x \in Transfers \ {tr} :
               /\ submitted'[x] = submitted[x] /\ io'[x] = io[x]
               /\ Overlapped(x) \in signalled' <=> Overlapped(x) \in signalled
      BY <1>1, EventsDiffer DEF SubmitTransfer
    <2> QED
      BY <2>1 DEF EventsTell, Pending
  <1>2. ASSUME NEW tr \in Transfers, NEW r \in {"success", "aborted", "failed"}, Complete(tr, r)
        PROVE  EventsTell'
    <2>1. /\ io'[tr] = r /\ Overlapped(tr) \in signalled'
          /\ \A x \in Transfers \ {tr} :
               /\ io'[x] = io[x]
               /\ Overlapped(x) \in signalled' <=> Overlapped(x) \in signalled
      BY <1>2, EventsDiffer DEF Complete
    <2> QED
      BY <1>2, <2>1 DEF EventsTell, Pending, Complete
  <1>3. ASSUME NEW t \in Threads, NEW tr \in Transfers, client[tr] \in {"free", "sync"},
               PerformTransfer(t, tr) \/ (PerformDone(t) /\ tr = arg[t]) \/ AllocTransfer(t, tr)
        PROVE  EventsTell'
    <2>1. /\ UNCHANGED submitted
          /\ ~submitted[tr]
      BY <1>3, AllocKeepsSubmitted DEF PerformTransfer, PerformDone, ClientKnows
    <2>2. \A x \in Transfers \ {tr} :
            /\ io'[x] = io[x]
            /\ Overlapped(x) \in signalled' <=> Overlapped(x) \in signalled
      BY <1>3, EventsDiffer DEF PerformTransfer, PerformDone, AllocTransfer
    <2> QED
      BY <2>1, <2>2 DEF EventsTell, Pending
  <1>4. ASSUME NEW t \in Threads, NEW tr \in Transfers, client[tr] \in {"idle", "called"},
               SubmitFails(t, tr) \/ FreeTransfer(t, tr)
        PROVE  EventsTell'
    <2>1. UNCHANGED submitted /\ ~submitted[tr]
      BY <1>4 DEF SubmitFails, FreeTransfer, tranVars, ClientKnows
    <2>2. \A x \in Transfers \ {tr} :
            /\ io'[x] = io[x]
            /\ Overlapped(x) \in signalled' <=> Overlapped(x) \in signalled
      BY <1>4, EventsDiffer DEF SubmitFails, FreeTransfer, tranVars
    <2> QED
      BY <2>1, <2>2 DEF EventsTell, Pending
  <1>5. ASSUME NEW t \in Threads, NEW tr \in Transfers, CancelTransfer(t, tr)
        PROVE  EventsTell'
    <2>1. \A x \in Transfers : Pending(x)' <=> Pending(x)
      BY <1>5 DEF CancelTransfer, Pending
    <2> QED
      BY <1>5, <2>1 DEF CancelTransfer, EventsTell
  <1>6. ASSUME NEW t \in Threads, ReapTransfer(t)
        PROVE  EventsTell'
    <2>1. \A x \in Transfers : submitted'[x] => submitted[x]
      BY <1>6 DEF ReapTransfer
    <2> QED
      BY <1>6, <2>1 DEF ReapTransfer, EventsTell, Pending
  <1>7. ASSUME UNCHANGED <<submitted, io>>,
               \A x \in Transfers : Overlapped(x) \in signalled' <=> Overlapped(x) \in signalled
        PROVE  EventsTell'
    BY <1>7 DEF EventsTell, Pending
  <1>8. ASSUME NEW t \in Threads,
               \/ \E tr \in Transfers \cup {NoTran}, c \in {"run", "wait"} : ReapUntil(t, c, tr)
               \/ StopEventLoop(t) \/ ResetEventLoop(t)
               \/ FillHandleList(t) \/ WaitForHandles(t) \/ WaitFailed(t)
               \/ ReleaseLock(t) \/ Return(t)
        PROVE  EventsTell'
    <2>1. UNCHANGED <<submitted, io>>
      BY <1>8 DEF ReapUntil, StopEventLoop, ResetEventLoop, FillHandleList, WaitForHandles,
                  WaitFailed, ReleaseLock, Return, tranVars
    <2>2. \A x \in Transfers : Overlapped(x) \in signalled' <=> Overlapped(x) \in signalled
      BY <1>8, EventsDiffer
         DEF ReapUntil, StopEventLoop, ResetEventLoop, FillHandleList, WaitForHandles,
             WaitFailed, ReleaseLock, Return
    <2> QED
      BY <1>7, <2>1, <2>2
  <1>9. ASSUME NEW t \in Threads, CallbackReturns(t)
        PROVE  EventsTell'
    BY <1>7, <1>9, EventsDiffer DEF CallbackReturns
  <1>10. CASE UNCHANGED vars
    BY <1>7, <1>10 DEF vars, tranVars
  <1>11. ASSUME NEW t \in Threads, PerformDone(t)
         PROVE  EventsTell'
    <2>1. arg[t] \in Transfers /\ client[arg[t]] = "sync"
      BY <1>11 DEF PerformDone, Located, ClientKnows
    <2> QED
      BY <1>3, <1>11, <2>1
  <1>12. ASSUME NEW t \in Threads, NEW tr \in Transfers,
                \/ PerformTransfer(t, tr) \/ AllocTransfer(t, tr)
                \/ SubmitFails(t, tr) \/ FreeTransfer(t, tr)
         PROVE  EventsTell'
    BY <1>3, <1>4, <1>12 DEF PerformTransfer, AllocTransfer, SubmitFails, FreeTransfer
  <1> HIDE DEF TypeOK
  <1> QED
    BY <1>1, <1>2, <1>5, <1>6, <1>8, <1>9, <1>10, <1>11, <1>12
       DEF Next, ClientStep, LibraryStep, DeviceStep, RunEventLoop, WaitForTransfer

-----------------------------------------------------------------------------
(* The handles of a wait.                                                  *)

\* While one thread reaps, no other reads the handles.
LEMMA OthersDoNotWait ==
  ASSUME OneReaper, NEW t \in Threads, Reaper(t), NEW u \in Threads, u # t
  PROVE  ~Reaper(u) /\ pc[u] \notin {"filled", "wait"}
  BY DEF OneReaper, Reaper

\* A step that leaves the handles, and what they are about, alone.
LEMMA SameHandles ==
  ASSUME HandlesRight, AllListed, UNCHANGED <<handles, submitted>>,
         Updated \in signalled => Updated \in signalled',
         \A t \in Threads :
           /\ pc'[t] = "filled" => pc[t] = "filled"
           /\ pc'[t] \in {"filled", "wait"} =>
                pc[t] \in {"filled", "wait"} /\ call'[t] = call[t] /\ arg'[t] = arg[t]
  PROVE  HandlesRight' /\ AllListed'
  <1>1. HandlesRight'
    BY DEF HandlesRight, Target
  <1>2. AllListed'
    BY DEF AllListed
  <1> QED
    BY <1>1, <1>2

LEMMA HandlesStep ==
  ASSUME TypeOK, Located, OneReaper, ListIsExact, HandlesRight, AllListed, ClientKnows,
         [Next]_vars
  PROVE  HandlesRight' /\ AllListed'
  <1>1. ASSUME NEW t \in Threads, FillHandleList(t)
        PROVE  HandlesRight' /\ AllListed'
    <2>1. /\ pc[t] = "locked" /\ \A u \in Threads \ {t} : pc'[u] = pc[u]
          /\ UNCHANGED <<call, arg, trani, submitted>>
          /\ handles' = HandleList(call[t], arg[t])
      BY <1>1 DEF FillHandleList, Goto, TypeOK, tranVars
    <2>2. \A u \in Threads \ {t} : pc'[u] \notin {"filled", "wait"}
      BY <2>1, OthersDoNotWait DEF Reaper
    <2>3. Target(call[t], arg[t]) \in Events
      BY <2>1, TargetLemma, EventsDiffer DEF Located, TypeOK
    <2>4. /\ handles' \in Seq(Events) /\ Len(handles') = 2 + Len(trani)
          /\ handles'[1] = Target(call[t], arg[t]) /\ handles'[2] = Updated
          /\ \A i \in 1 .. Len(trani) : handles'[i + 2] = Overlapped(trani[i])
      BY <2>1, <2>3, HandleListLemma
    <2>5. trani \in Seq(Transfers) /\ Len(trani) \in Nat /\ DOMAIN trani = 1 .. Len(trani)
      BY DEF TypeOK
    <2>6. \A i \in 3 .. Len(handles') :
            \E tr \in Transfers : handles'[i] = Overlapped(tr) /\ submitted[tr]
      <3> SUFFICES ASSUME NEW i \in 3 .. Len(handles')
                   PROVE  \E tr \in Transfers : handles'[i] = Overlapped(tr) /\ submitted[tr]
        OBVIOUS
      <3> DEFINE j == i - 2
      <3>1. j \in 1 .. Len(trani) /\ j + 2 = i
        BY <2>4, <2>5
      <3>2. trani[j] \in Transfers /\ submitted[trani[j]]
        BY <2>5, <3>1 DEF ListIsExact
      <3>3. handles'[i] = Overlapped(trani[j])
        BY <2>4, <3>1
      <3> QED
        BY <3>2, <3>3
    <2>7. \A tr \in Transfers :
            submitted[tr] => \E i \in 3 .. Len(handles') : handles'[i] = Overlapped(tr)
      <3> SUFFICES ASSUME NEW tr \in Transfers, submitted[tr]
                   PROVE  \E i \in 3 .. Len(handles') : handles'[i] = Overlapped(tr)
        OBVIOUS
      <3>1. PICK j \in 1 .. Len(trani) : trani[j] = tr
        BY <2>5 DEF ListIsExact
      <3>2. j + 2 \in 3 .. Len(handles') /\ handles'[j + 2] = Overlapped(tr)
        BY <2>4, <2>5, <3>1
      <3> QED
        BY <3>2
    <2>8. Target(call[t], arg[t])' = Target(call[t], arg[t])
      BY <2>1 DEF Target
    <2>9. HandlesRight'
      BY <2>1, <2>2, <2>4, <2>5, <2>6, <2>8 DEF HandlesRight
    <2>10. AllListed'
      BY <2>1, <2>2, <2>7 DEF AllListed
    <2> QED
      BY <2>9, <2>10
  <1>2. ASSUME NEW t \in Threads, ReleaseLock(t) \/ ReapTransfer(t)
        PROVE  HandlesRight' /\ AllListed'
    <2>1. pc[t] \in {"unlock", "got"} /\ \A u \in Threads : pc[u] \notin {"filled", "wait"}
      BY <1>2, OthersDoNotWait DEF ReleaseLock, ReapTransfer, Reaper
    <2>2. \A u \in Threads : pc'[u] = pc[u] \/ pc'[u] \in {"locked", "return", "callback"}
      BY <1>2 DEF ReleaseLock, ReapTransfer, Goto, TypeOK
    <2> QED
      BY <2>1, <2>2 DEF HandlesRight, AllListed
  <1>3. ASSUME NEW t \in Threads, NEW tr \in Transfers, SubmitTransfer(t, tr)
        PROVE  HandlesRight' /\ AllListed'
    <2>1. \A u \in Threads : pc'[u] = pc[u] \/ pc'[u] = "locked"
      BY <1>3, WakeUpdated DEF SubmitTransfer
    <2>2. Updated \in signalled' /\ UNCHANGED <<handles, call, arg>>
          /\ \A x \in Transfers : submitted[x] => submitted'[x]
      BY <1>3 DEF SubmitTransfer, TypeOK
    <2>3. AllListed'
      BY <2>2 DEF AllListed
    <2>4. HandlesRight'
      BY <2>1, <2>2 DEF HandlesRight, Target
    <2> QED
      BY <2>3, <2>4
  <1>4. ASSUME NEW t \in Threads, WaitForHandles(t)
        PROVE  HandlesRight' /\ AllListed'
    <2>1. /\ pc[t] = "filled" /\ pc'[t] # "filled"
          /\ \A u \in Threads \ {t} : pc'[u] = pc[u]
      BY <1>4 DEF WaitForHandles, AfterWait, Goto, TypeOK
    <2>2. UNCHANGED <<handles, submitted, signalled, call, arg>>
      BY <1>4 DEF WaitForHandles, listVars, tranVars
    <2> QED
      BY <2>1, <2>2, SameHandles
  <1>5. ASSUME NEW t \in Threads, NEW tr \in Transfers \cup {NoTran}, NEW c \in {"run", "wait"},
               ReapUntil(t, c, tr)
        PROVE  HandlesRight' /\ AllListed'
    <2>1. \A u \in Threads : \/ pc'[u] \in {"return", "locked", "enter"}
                             \/ pc'[u] = pc[u] /\ arg'[u] = arg[u] /\ call'[u] = call[u]
      BY <1>5 DEF ReapUntil, Goto, TypeOK
    <2>2. Updated \in signalled => Updated \in signalled'
      BY <1>5, EventsDiffer DEF ReapUntil
    <2> QED
      BY <1>5, <2>1, <2>2, SameHandles DEF ReapUntil, tranVars, listVars
  <1>6. ASSUME NEW t \in Threads, StopEventLoop(t)
        PROVE  HandlesRight' /\ AllListed'
    <2>1. \A u \in Threads : pc'[u] = pc[u] \/ pc'[u] \in {"unlock", "return"}
      BY <1>6, WakeTarget, EventsDiffer DEF StopEventLoop, TypeOK
    <2> QED
      BY <1>6, <2>1, SameHandles DEF StopEventLoop, tranVars, listVars
  <1>7. ASSUME NEW t \in Threads, CallbackReturns(t)
        PROVE  HandlesRight' /\ AllListed'
    <2>1. \A u \in Threads : pc[u] \notin {"filled", "wait"}
      BY <1>7, OthersDoNotWait DEF CallbackReturns, Reaper
    <2>2. \A u \in Threads : pc'[u] \notin {"filled", "wait"}
      BY <1>7, <2>1, CallbackMoves
    <2> QED
      BY <2>2 DEF HandlesRight, AllListed
  <1>8. ASSUME NEW tr \in Transfers, NEW r \in {"success", "aborted", "failed"}, Complete(tr, r)
        PROVE  HandlesRight' /\ AllListed'
    <2>1. \A u \in Threads : pc'[u] = "got" \/ pc'[u] = pc[u]
      BY <1>8, WakeOverlapped DEF Complete
    <2> QED
      BY <1>8, <2>1, SameHandles DEF Complete, listVars
  <1>9. ASSUME NEW t \in Threads, Return(t) \/ PerformDone(t) \/ \E tr \in Transfers : PerformTransfer(t, tr)
        PROVE  HandlesRight' /\ AllListed'
    <2>1. \A u \in Threads : \/ pc'[u] \in {"idle", "perform"}
                             \/ pc'[u] = pc[u] /\ arg'[u] = arg[u] /\ call'[u] = call[u]
      BY <1>9 DEF Return, PerformDone, PerformTransfer, Goto, TypeOK
    <2>2. Updated \in signalled => Updated \in signalled'
      BY <1>9, EventsDiffer DEF Return, PerformDone, PerformTransfer
    <2>3. UNCHANGED <<handles, submitted>>
      BY <1>9 DEF Return, PerformDone, PerformTransfer, listVars, tranVars
    <2> QED
      BY <2>1, <2>2, <2>3, SameHandles
  <1>10. ASSUME NEW t \in Threads, NEW tr \in Transfers,
                CancelTransfer(t, tr) \/ AllocTransfer(t, tr) \/ FreeTransfer(t, tr)
         PROVE  HandlesRight' /\ AllListed'
    <2>1. UNCHANGED <<pc, call, arg, handles, submitted>>
      BY <1>10, AllocKeepsSubmitted DEF CancelTransfer, AllocTransfer, FreeTransfer, listVars, threadVars
    <2>2. Updated \in signalled => Updated \in signalled'
      BY <1>10, EventsDiffer DEF CancelTransfer, AllocTransfer, FreeTransfer
    <2> QED
      BY <2>1, <2>2, SameHandles
  <1>11. ASSUME NEW t \in Threads, \/ ResetEventLoop(t)
                                   \/ WaitFailed(t)
                                   \/ \E tr \in Transfers : SubmitFails(t, tr)
         PROVE  HandlesRight' /\ AllListed'
    <2>1. UNCHANGED <<threadVars, tranVars, listVars>>
      BY <1>11 DEF ResetEventLoop, WaitFailed, SubmitFails
    <2>2. Updated \in signalled => Updated \in signalled'
      BY <1>11, EventsDiffer DEF ResetEventLoop, WaitFailed, SubmitFails
    <2> QED
      BY <2>1, <2>2, SameHandles DEF threadVars, tranVars, listVars
  <1>12. CASE UNCHANGED vars
    BY <1>12, SameHandles DEF vars, threadVars, tranVars, listVars
  <1> QED
    BY <1>1, <1>2, <1>3, <1>4, <1>5, <1>6, <1>7, <1>8, <1>9, <1>10, <1>11, <1>12
       DEF Next, ClientStep, LibraryStep, DeviceStep, RunEventLoop, WaitForTransfer

\* What a step does to requests: those of submitted transfers stay with the
\* driver unless it finishes them.
LEMMA SameMissed ==
  ASSUME NothingIsMissed, UNCHANGED handles,
         \A tr \in Transfers : submitted'[tr] => submitted[tr] /\ (Pending(tr) => Pending(tr)'),
         \A t \in Threads : pc'[t] = "wait" => pc[t] = "wait"
  PROVE  NothingIsMissed'
  BY DEF NothingIsMissed, WaitsFor

LEMMA MissedStep ==
  ASSUME TypeOK, Located, OneReaper, ListIsExact, HandlesRight, AllListed, ClientKnows,
         EventsTell, NothingIsMissed, [Next]_vars
  PROVE  NothingIsMissed'
  <1>1. ASSUME NEW t \in Threads, WaitForHandles(t)
        PROVE  NothingIsMissed'
    <2>1. /\ pc[t] = "filled" /\ \A u \in Threads \ {t} : pc'[u] = pc[u] /\ pc[u] # "wait"
      BY <1>1, OthersDoNotWait DEF WaitForHandles, Goto, TypeOK, Reaper
    <2>2. UNCHANGED <<handles, submitted, io>>
      BY <1>1 DEF WaitForHandles, listVars, tranVars
    <2>3. ASSUME NEW tr \in Transfers, submitted[tr], pc'[t] = "wait"
          PROVE  Pending(tr)' /\ Overlapped(tr) \in WaitsFor(t)'
      <3>1. \A i \in DOMAIN handles : handles[i] \notin signalled
        <4>1. ASSUME NEW i \in DOMAIN handles, pc' = [pc EXCEPT ![t] = AfterWait(t, handles[i])]
              PROVE  FALSE
          BY <2>1, <2>3, <4>1 DEF AfterWait, TypeOK
        <4> QED
          BY <1>1, <4>1 DEF WaitForHandles, Goto
      <3>2. handles \in Seq(Events) /\ Len(handles) >= 2 /\ handles[2] = Updated
        BY <2>1 DEF TypeOK, HandlesRight
      <3>3. Updated \notin signalled
        BY <3>1, <3>2
      <3>4. PICK i \in 3 .. Len(handles) : handles[i] = Overlapped(tr)
        BY <2>1, <2>3, <3>3 DEF AllListed
      <3>5. i \in DOMAIN handles
        BY <3>2, <3>4
      <3>6. Pending(tr)
        BY <2>3, <3>1, <3>4, <3>5 DEF EventsTell
      <3>7. WaitsFor(t)' = {handles[x] : x \in DOMAIN handles}
        BY <2>2, <2>3 DEF WaitsFor
      <3> QED
        BY <2>2, <3>4, <3>5, <3>6, <3>7 DEF Pending
    <2> QED
      BY <2>1, <2>2, <2>3 DEF NothingIsMissed
  <1>2. ASSUME NEW tr \in Transfers, NEW r \in {"success", "aborted", "failed"}, Complete(tr, r)
        PROVE  NothingIsMissed'
    <2>1. \A u \in Threads : pc'[u] = IF Overlapped(tr) \in WaitsFor(u) THEN "got" ELSE pc[u]
      BY <1>2, WakeOverlapped DEF Complete
    <2>2. UNCHANGED <<handles, submitted>> /\ \A x \in Transfers \ {tr} : io'[x] = io[x]
      BY <1>2 DEF Complete, listVars, TypeOK
    <2>3. ASSUME NEW u \in Threads, pc'[u] = "wait"
          PROVE  pc[u] = "wait" /\ ~submitted[tr] /\ WaitsFor(u)' = WaitsFor(u)
      <3>1. pc[u] = "wait" /\ Overlapped(tr) \notin WaitsFor(u)
        BY <2>1, <2>3
      <3>2. ~submitted[tr]
        BY <3>1 DEF NothingIsMissed
      <3> QED
        BY <2>2, <2>3, <3>1, <3>2 DEF WaitsFor
    <2> QED
      BY <2>2, <2>3 DEF NothingIsMissed, Pending
  <1>3. ASSUME NEW t \in Threads, NEW tr \in Transfers, SubmitTransfer(t, tr)
        PROVE  NothingIsMissed'
    <2>1. \A u \in Threads : pc'[u] # "wait"
      BY <1>3, WakeUpdated DEF SubmitTransfer
    <2> QED
      BY <2>1 DEF NothingIsMissed
  <1>4. ASSUME NEW t \in Threads, FillHandleList(t) \/ ReleaseLock(t) \/ ReapTransfer(t)
        PROVE  NothingIsMissed'
    <2>1. \A u \in Threads : pc[u] # "wait"
      BY <1>4, OthersDoNotWait DEF FillHandleList, ReleaseLock, ReapTransfer, Reaper
    <2>2. \A u \in Threads : pc'[u] # "wait"
      BY <1>4, <2>1 DEF FillHandleList, ReleaseLock, ReapTransfer, Goto, TypeOK
    <2> QED
      BY <2>2 DEF NothingIsMissed
  <1>5. ASSUME NEW t \in Threads, CallbackReturns(t)
        PROVE  NothingIsMissed'
    <2>1. \A u \in Threads : pc'[u] = "wait" => pc[u] = "wait"
      BY <1>5, CallbackMoves
    <2> QED
      BY <1>5, <2>1, SameMissed DEF CallbackReturns, listVars, Pending
  <1>6. ASSUME NEW t \in Threads, StopEventLoop(t)
        PROVE  NothingIsMissed'
    <2>1. \A u \in Threads : pc'[u] = pc[u] \/ pc'[u] \in {"unlock", "return"}
      BY <1>6, WakeTarget, EventsDiffer DEF StopEventLoop, TypeOK
    <2> QED
      BY <1>6, <2>1, SameMissed DEF StopEventLoop, tranVars, listVars, Pending
  <1>7. ASSUME NEW t \in Threads,
               \/ \E tr \in Transfers \cup {NoTran}, c \in {"run", "wait"} : ReapUntil(t, c, tr)
               \/ Return(t)
        PROVE  NothingIsMissed'
    <2>1. \A u \in Threads : pc'[u] = "wait" => pc[u] = "wait"
      BY <1>7 DEF ReapUntil, Return, Goto, TypeOK
    <2> QED
      BY <1>7, <2>1, SameMissed DEF ReapUntil, Return, listVars, tranVars, Pending
  <1>8. ASSUME NEW t \in Threads, PerformDone(t) \/ \E tr \in Transfers : PerformTransfer(t, tr)
        PROVE  NothingIsMissed'
    <2>1. \A u \in Threads : pc'[u] = "wait" => pc[u] = "wait"
      BY <1>8 DEF PerformDone, PerformTransfer, Goto, TypeOK
    <2>2. \A x \in Transfers : submitted[x] => io'[x] = io[x]
      BY <1>8 DEF PerformDone, PerformTransfer, ClientKnows, TypeOK
    <2> QED
      BY <1>8, <2>1, <2>2, SameMissed DEF PerformDone, PerformTransfer, listVars, Pending
  <1>9. ASSUME NEW t \in Threads, NEW tr \in Transfers,
               CancelTransfer(t, tr) \/ AllocTransfer(t, tr) \/ FreeTransfer(t, tr)
        PROVE  NothingIsMissed'
    <2>1. UNCHANGED <<pc, handles, submitted>>
      BY <1>9, AllocKeepsSubmitted DEF CancelTransfer, AllocTransfer, FreeTransfer, listVars, threadVars
    <2>2. \A x \in Transfers : submitted[x] /\ Pending(x) => Pending(x)'
      BY <1>9 DEF CancelTransfer, AllocTransfer, FreeTransfer, ClientKnows, TypeOK, Pending
    <2> QED
      BY <2>1, <2>2, SameMissed
  <1>10. ASSUME NEW t \in Threads, \/ ResetEventLoop(t)
                                   \/ WaitFailed(t)
                                   \/ \E tr \in Transfers : SubmitFails(t, tr)
         PROVE  NothingIsMissed'
    <2>1. UNCHANGED <<threadVars, tranVars, listVars>>
      BY <1>10 DEF ResetEventLoop, WaitFailed, SubmitFails
    <2> QED
      BY <2>1, SameMissed DEF threadVars, tranVars, listVars, Pending
  <1>11. CASE UNCHANGED vars
    BY <1>11, SameMissed DEF vars, threadVars, tranVars, listVars, Pending
  <1> QED
    BY <1>1, <1>2, <1>3, <1>4, <1>5, <1>6, <1>7, <1>8, <1>9, <1>10, <1>11
       DEF Next, ClientStep, LibraryStep, DeviceStep, RunEventLoop, WaitForTransfer

\* The array holds the handles, or the process is corrupted and stops.
LEMMA FitStep ==
  ASSUME TypeOK, Located, HandlesFit, [Next]_vars
  PROVE  HandlesFit'
  <1>1. ASSUME NEW t \in Threads, FillHandleList(t)
        PROVE  HandlesFit'
    <2>1. trani \in Seq(Transfers) /\ HandleCount \in Nat /\ HandleCount = 2 + Len(trani)
      BY DEF TypeOK, HandleCount
    <2>2. Target(call[t], arg[t]) \in Events
      BY <1>1, TargetLemma, EventsDiffer DEF FillHandleList, Located, TypeOK
    <2>3. Len(handles') = HandleCount
      BY <1>1, <2>1, <2>2, HandleListLemma DEF FillHandleList
    <2>4. CASE capacity' = Reserve(HandleCount)
      BY <2>1, <2>3, <2>4, ReserveLemma DEF HandlesFit
    <2>5. CASE crash' = (capacity < HandleCount) /\ UNCHANGED capacity
      <3> DEFINE tooFew == capacity < HandleCount
      <3>1. ~tooFew => Len(handles') <= capacity'
        BY <2>1, <2>3, <2>5 DEF TypeOK
      <3>2. crash' = tooFew
        BY <2>5
      <3> HIDE DEF tooFew
      <3> QED
        BY <3>1, <3>2 DEF HandlesFit
    <2> QED
      BY <1>1, <2>4, <2>5 DEF FillHandleList
  <1>2. ASSUME NEW t \in Threads, ReleaseLock(t)
        PROVE  HandlesFit'
    BY <1>2 DEF ReleaseLock, HandlesFit, TypeOK
  <1>3. ASSUME NEW t \in Threads, WaitFailed(t)
        PROVE  HandlesFit'
    BY <1>3 DEF WaitFailed, HandlesFit
  <1>4. ASSUME UNCHANGED <<handles, capacity, crash>>
        PROVE  HandlesFit'
    BY <1>4 DEF HandlesFit
  <1>5. ASSUME NEW t \in Threads,
               \/ \E tr \in Transfers \cup {NoTran}, c \in {"run", "wait"} : ReapUntil(t, c, tr)
               \/ StopEventLoop(t) \/ ResetEventLoop(t)
               \/ WaitForHandles(t) \/ ReapTransfer(t) \/ CallbackReturns(t)
               \/ Return(t) \/ PerformDone(t)
        PROVE  HandlesFit'
    BY <1>4, <1>5 DEF ReapUntil, StopEventLoop, ResetEventLoop, WaitForHandles, ReapTransfer,
                      CallbackReturns, Return, PerformDone, listVars
  <1>6. ASSUME NEW t \in Threads, NEW tr \in Transfers,
               \/ SubmitTransfer(t, tr) \/ SubmitFails(t, tr) \/ PerformTransfer(t, tr)
               \/ CancelTransfer(t, tr) \/ AllocTransfer(t, tr) \/ FreeTransfer(t, tr)
        PROVE  HandlesFit'
    BY <1>4, <1>6 DEF SubmitTransfer, SubmitFails, PerformTransfer, CancelTransfer,
                      AllocTransfer, FreeTransfer, listVars
  <1>7. ASSUME NEW tr \in Transfers, NEW r \in {"success", "aborted", "failed"}, Complete(tr, r)
        PROVE  HandlesFit'
    BY <1>4, <1>7 DEF Complete, listVars
  <1>8. CASE UNCHANGED vars
    BY <1>4, <1>8 DEF vars, listVars
  <1> QED
    BY <1>1, <1>2, <1>3, <1>5, <1>6, <1>7, <1>8
       DEF Next, ClientStep, LibraryStep, DeviceStep, RunEventLoop, WaitForTransfer

\* Only the request of a cancelled transfer is aborted.
LEMMA SelectiveStep ==
  ASSUME TypeOK, Located, ListIsExact, ClientKnows, CancelIoEx, CancelIsSelective, [Next]_vars
  PROVE  CancelIsSelective'
  <1>1. ASSUME NEW t \in Threads, NEW tr \in Transfers, CancelTransfer(t, tr)
        PROVE  CancelIsSelective'
    <2>1. /\ client'[tr] = "cancelled"
          /\ \A x \in Transfers \ {tr} : client'[x] = client[x] /\ io'[x] = io[x]
          /\ UNCHANGED submitted
      BY <1>1 DEF CancelTransfer, Aborts, TypeOK
    <2> QED
      BY <2>1 DEF CancelIsSelective
  <1>2. ASSUME NEW t \in Threads, NEW tr \in Transfers, SubmitTransfer(t, tr)
        PROVE  CancelIsSelective'
    <2>1. /\ io'[tr] = "pending"
          /\ \A x \in Transfers \ {tr} : /\ client'[x] = client[x] /\ io'[x] = io[x]
                                         /\ submitted'[x] = submitted[x]
      BY <1>2 DEF SubmitTransfer, TypeOK
    <2> QED
      BY <2>1 DEF CancelIsSelective
  <1>3. ASSUME NEW tr \in Transfers, NEW r \in {"success", "aborted", "failed"}, Complete(tr, r)
        PROVE  CancelIsSelective'
    <2>1. /\ io'[tr] = r /\ (r = "aborted" => io[tr] = "aborting")
          /\ \A x \in Transfers \ {tr} : io'[x] = io[x]
          /\ UNCHANGED <<client, submitted>>
      BY <1>3 DEF Complete, TypeOK
    <2> QED
      BY <1>3, <2>1 DEF CancelIsSelective
  <1>4. ASSUME \A x \in Transfers : submitted'[x] =>
                 submitted[x] /\ io'[x] = io[x] /\ client'[x] = client[x]
        PROVE  CancelIsSelective'
    BY <1>4 DEF CancelIsSelective
  <1>5. ASSUME NEW t \in Threads, NEW tr \in Transfers,
               PerformTransfer(t, tr) \/ AllocTransfer(t, tr) \/ FreeTransfer(t, tr)
        PROVE  CancelIsSelective'
    <2>1. \A x \in Transfers : submitted'[x] => submitted[x]
      BY <1>5, AllocKeepsSubmitted DEF PerformTransfer, FreeTransfer
    <2>2. ~submitted[tr] /\ \A x \in Transfers \ {tr} : client'[x] = client[x] /\ io'[x] = io[x]
      BY <1>5 DEF PerformTransfer, AllocTransfer, FreeTransfer, ClientKnows, TypeOK
    <2> QED
      BY <1>4, <2>1, <2>2
  <1>6. ASSUME NEW t \in Threads, PerformDone(t)
        PROVE  CancelIsSelective'
    <2>1. ~submitted[arg[t]] /\ \A x \in Transfers \ {arg[t]} : client'[x] = client[x]
      BY <1>6 DEF PerformDone, Located, ClientKnows, TypeOK
    <2> QED
      BY <1>4, <1>6, <2>1 DEF PerformDone
  <1>7. ASSUME NEW t \in Threads, ReapTransfer(t)
        PROVE  CancelIsSelective'
    <2>1. ~submitted'[reaping[t]] /\ \A x \in Transfers \ {reaping[t]} : /\ client'[x] = client[x]
                                                                        /\ submitted'[x] = submitted[x]
      BY <1>7 DEF ReapTransfer, Located, TypeOK
    <2> QED
      BY <1>4, <1>7, <2>1 DEF ReapTransfer
  <1>8. ASSUME NEW t \in Threads, CallbackReturns(t)
        PROVE  CancelIsSelective'
    <2>1. \A x \in Transfers : submitted[x] => client'[x] = client[x]
      BY <1>8 DEF CallbackReturns, Done, TypeOK
    <2> QED
      BY <1>4, <1>8, <2>1 DEF CallbackReturns
  <1>9. ASSUME NEW t \in Threads,
               \/ \E tr \in Transfers \cup {NoTran}, c \in {"run", "wait"} : ReapUntil(t, c, tr)
               \/ \E tr \in Transfers : SubmitFails(t, tr)
               \/ StopEventLoop(t) \/ ResetEventLoop(t)
               \/ FillHandleList(t) \/ WaitForHandles(t) \/ WaitFailed(t)
               \/ ReleaseLock(t) \/ Return(t)
        PROVE  CancelIsSelective'
    <2>1. UNCHANGED <<submitted, io, client>>
      BY <1>9 DEF ReapUntil, SubmitFails, StopEventLoop, ResetEventLoop, FillHandleList,
                  WaitForHandles, WaitFailed, ReleaseLock, Return, tranVars
    <2> QED
      BY <1>4, <2>1
  <1>10. CASE UNCHANGED vars
    BY <1>4, <1>10 DEF vars, tranVars
  <1> QED
    BY <1>1, <1>2, <1>3, <1>5, <1>6, <1>7, <1>8, <1>9, <1>10
       DEF Next, ClientStep, LibraryStep, DeviceStep, RunEventLoop, WaitForTransfer

-----------------------------------------------------------------------------
(* The theorems.                                                           *)

\* What every reachable state satisfies.  The parts lean on each other: the
\* handles are right because the list is, the list is because there is one
\* reaper, there is one because nobody loses track of where it is.
Inv ==
  /\ TypeOK
  /\ Located
  /\ OneReaper
  /\ ListIsExact
  /\ HandlesRight
  /\ AllListed
  /\ ClientKnows
  /\ EventsTell
  /\ NothingIsMissed
  /\ HandlesFit

LEMMA InvInit ==
  ASSUME Init
  PROVE  Inv
  <1> USE DEF Init
  <1>1. TypeOK
    <2>1. Lock \in Events /\ 0 \in 0 .. MaxCalls
      BY EventsDiffer, ConstantsAssumption DEF ConstantsAssumption
    <2>2. signalled \subseteq Events /\ calls \in 0 .. MaxCalls
      BY <2>1
    <2>3. trani \in Seq(Transfers) /\ handles \in Seq(Events)
      OBVIOUS
    <2>4. /\ submitted \in [Transfers -> BOOLEAN]
          /\ status \in [Transfers -> {"completed", "cancelled", "error"}]
          /\ io \in [Transfers -> {"pending", "aborting", "success", "aborted", "failed"}]
          /\ client \in [Transfers -> ClientState]
      BY DEF ClientState
    <2>5. /\ pc \in [Threads -> PC]
          /\ call \in [Threads -> {"none", "run", "wait", "sync"}]
          /\ arg \in [Threads -> Transfers \cup {NoTran}]
          /\ reaping \in [Threads -> Transfers \cup {NoTran}]
      BY DEF PC
    <2> QED
      BY <2>2, <2>3, <2>4, <2>5 DEF TypeOK
  <1>2. OneReaper
    BY DEF OneReaper, Reaper
  <1>3. ListIsExact
    BY DEF ListIsExact
  <1>4. Located /\ HandlesRight /\ AllListed /\ NothingIsMissed
    BY DEF Located, HandlesRight, AllListed, NothingIsMissed
  <1>5. ClientKnows /\ EventsTell
    BY EventsDiffer DEF ClientKnows, EventsTell
  <1>6. HandlesFit
    BY DEF HandlesFit
  <1> QED
    BY <1>1, <1>2, <1>3, <1>4, <1>5, <1>6 DEF Inv

LEMMA InvStep ==
  ASSUME Inv, [Next]_vars
  PROVE  Inv'
  BY TypeStep, LocatedStep, ReaperStep, ListStep, HandlesStep, ClientsStep, EventsStep,
     MissedStep, FitStep
     DEF Inv

LEMMA Invariant == Spec => []Inv
  BY InvInit, InvStep, PTL DEF Spec

\* Every variable of the Windows engine keeps its type; in particular the
\* reaper never takes a transfer from a handle that is not a transfer's.
THEOREM TypeCorrect == Spec => []TypeOK
  <1>1. Inv => TypeOK
    BY DEF Inv
  <1> QED
    BY <1>1, Invariant, PTL

\* At most one thread is between taking hReaperLock and setting it again, and
\* the event is signalled exactly when there is none: the lock is neither
\* lost nor given to two threads by any order of SetEvent calls and waits.
THEOREM ReaperIsUnique == Spec => []OneReaper
  <1>1. Inv => OneReaper
    BY DEF Inv
  <1> QED
    BY <1>1, Invariant, PTL

\* trani_first .. trani_last holds exactly the submitted transfers, each once,
\* whatever is submitted, also from callbacks, while a thread reaps.
THEOREM ListCorrect == Spec => []ListIsExact
  <1>1. Inv => ListIsExact
    BY DEF Inv
  <1> QED
    BY <1>1, Invariant, PTL

\* A thread blocked in WaitForMultipleObjects waits for the event of every
\* submitted transfer, and none of these requests has ended.
THEOREM NothingMissed == Spec => []NothingIsMissed
  <1>1. Inv => NothingIsMissed
    BY DEF Inv
  <1> QED
    BY <1>1, Invariant, PTL

\* The handles usbyi_win32_reap_until_locked writes fit the array that
\* usbyi_reserve_handle_list left, unless realloc failed and the process is
\* corrupted already.
THEOREM HandlesAlwaysFit == Spec => []HandlesFit
  <1>1. Inv => HandlesFit
    BY DEF Inv
  <1> QED
    BY <1>1, Invariant, PTL

\* Once hCompletionEvent of a transfer is signalled, its status is that of
\* the request that ended last.
THEOREM StatusFresh == Spec => []StatusIsFresh
  <1>1. Inv => StatusIsFresh
    BY DEF Inv, StatusIsFresh, ClientKnows, StatusOf, Pending, TypeOK
  <1> QED
    BY <1>1, Invariant, PTL

\* With CancelIoEx, usbyb_cancel_transfer aborts no other transfer of the
\* endpoint: a submitted transfer that is aborted was cancelled by the client.
THEOREM CancelSelective == ASSUME CancelIoEx PROVE Spec => []CancelIsSelective
  <1>1. Init => CancelIsSelective
    BY DEF Init, CancelIsSelective
  <1>2. Inv /\ CancelIsSelective /\ [Next]_vars => CancelIsSelective'
    BY SelectiveStep DEF Inv
  <1> QED
    BY <1>1, <1>2, Invariant, PTL DEF Spec

-----------------------------------------------------------------------------
(* The engine implements the transfer service.                             *)

\* The variables of the service, as Service maps them.
Phase == [tr \in Transfers |-> IF client[tr] \in {"free", "idle"} THEN client[tr] ELSE "busy"]
Due == [tr \in Transfers |-> IF submitted[tr] \/ client[tr] = "sync" THEN 1 ELSE 0]
Calling == {reaping[t] : t \in {u \in Threads : pc[u] = "callback"}}
WaitedFor == [t \in Threads |-> IF call[t] = "wait" THEN arg[t] ELSE NoTran]
Over == [t \in Threads |-> call[t] = "wait" /\ pc[t] \in {"unlock", "return"}]

\* The actions of the service, in these terms.
LEMMA AbstractStutter ==
  ASSUME UNCHANGED <<Phase, Due, Calling, WaitedFor, Over>>
  PROVE  Service!ServiceNext
  BY DEF Service!ServiceNext, Service!serviceVars, Phase, Due, Calling, WaitedFor, Over

LEMMA AbstractAlloc ==
  ASSUME NEW tr \in Transfers, Phase[tr] = "free", Phase' = [Phase EXCEPT ![tr] = "idle"],
         UNCHANGED <<Due, Calling, WaitedFor, Over>>
  PROVE  Service!ServiceNext
  <1>1. Service!Alloc(tr)
    BY DEF Service!Alloc, Phase, Due, Calling, WaitedFor, Over
  <1> QED
    BY <1>1 DEF Service!ServiceNext

LEMMA AbstractSubmit ==
  ASSUME NEW tr \in Transfers, Due[tr] = 0, Due' = [Due EXCEPT ![tr] = @ + 1],
         Phase' = [Phase EXCEPT ![tr] = "busy"], UNCHANGED <<Calling, WaitedFor, Over>>
  PROVE  Service!ServiceNext
  <1>1. Service!Submit(tr)
    BY DEF Service!Submit, Phase, Due, Calling, WaitedFor, Over
  <1> QED
    BY <1>1 DEF Service!ServiceNext

LEMMA AbstractDeliver ==
  ASSUME NEW tr \in Transfers, Due[tr] > 0, tr \notin Calling,
         Due' = [Due EXCEPT ![tr] = @ - 1], Calling' = Calling \cup {tr},
         UNCHANGED <<Phase, WaitedFor, Over>>
  PROVE  Service!ServiceNext
  <1>1. Service!Deliver(tr)
    BY DEF Service!Deliver, Phase, Due, Calling, WaitedFor, Over
  <1> QED
    BY <1>1 DEF Service!ServiceNext

LEMMA AbstractCallbackEnds ==
  ASSUME NEW tr \in Transfers, tr \in Calling, Calling' = Calling \ {tr},
         NEW W \in SUBSET {t \in Threads : WaitedFor[t] = tr},
         \/ W = {} /\ UNCHANGED Phase
         \/ Due[tr] = 0 /\ Phase' = [Phase EXCEPT ![tr] = "idle"],
         Over' = [t \in Threads |-> Over[t] \/ t \in W],
         UNCHANGED <<Due, WaitedFor>>
  PROVE  Service!ServiceNext
  <1>1. Service!CallbackEnds(tr, W)
    BY DEF Service!CallbackEnds, Phase, Due, Calling, WaitedFor, Over
  <1>2. W \in SUBSET {t \in Threads : (IF call[t] = "wait" THEN arg[t] ELSE NoTran) = tr}
    BY DEF WaitedFor
  <1> QED
    BY <1>1, <1>2 DEF Service!ServiceNext, WaitedFor

LEMMA AbstractFinish ==
  ASSUME NEW tr \in Transfers, Due[tr] = 1, tr \notin Calling,
         Due' = [Due EXCEPT ![tr] = 0], Phase' = [Phase EXCEPT ![tr] = "free"],
         UNCHANGED <<Calling, WaitedFor, Over>>
  PROVE  Service!ServiceNext
  <1>0. DOMAIN Due = Transfers
    BY DEF Due
  <1>1. Due' = [Due EXCEPT ![tr] = @ - 1] /\ Due[tr] > 0 /\ Due'[tr] = 0
    BY <1>0
  <1>2. Service!Finish(tr)
    BY <1>1 DEF Service!Finish, Phase, Due, Calling, WaitedFor, Over
  <1> QED
    BY <1>2 DEF Service!ServiceNext

LEMMA AbstractSettle ==
  ASSUME NEW tr \in Transfers, Due[tr] = 0, tr \notin Calling,
         Phase' = [Phase EXCEPT ![tr] = "free"], UNCHANGED <<Due, Calling, WaitedFor, Over>>
  PROVE  Service!ServiceNext
  <1>1. Service!Settle(tr)
    BY DEF Service!Settle, Service!Settled, Service!Quiet, Phase, Due, Calling, WaitedFor, Over
  <1> QED
    BY <1>1 DEF Service!ServiceNext

LEMMA AbstractWait ==
  ASSUME NEW t \in Threads, NEW tr \in Transfers, WaitedFor[t] = NoTran,
         WaitedFor' = [WaitedFor EXCEPT ![t] = tr],
         \/ Over' = Over
         \/ Over' = [Over EXCEPT ![t] = TRUE] /\ Due[tr] = 0 /\ tr \notin Calling,
         UNCHANGED <<Phase, Due, Calling>>
  PROVE  Service!ServiceNext
  <1>1. Service!Wait(t, tr)
    BY DEF Service!Wait, Service!Settled, Service!Quiet, Phase, Due, Calling, WaitedFor, Over
  <1> QED
    BY <1>1 DEF Service!ServiceNext

LEMMA AbstractEndWait ==
  ASSUME NEW t \in Threads, WaitedFor[t] # NoTran, Due[WaitedFor[t]] = 0,
         WaitedFor[t] \notin Calling, Over' = [Over EXCEPT ![t] = TRUE],
         UNCHANGED <<Phase, Due, Calling, WaitedFor>>
  PROVE  Service!ServiceNext
  <1>1. Service!EndWait(t)
    BY DEF Service!EndWait, Service!Settled, Service!Quiet, Phase, Due, Calling, WaitedFor, Over
  <1> QED
    BY <1>1 DEF Service!ServiceNext

LEMMA AbstractReturn ==
  ASSUME NEW t \in Threads, WaitedFor[t] # NoTran, Over[t],
         WaitedFor' = [WaitedFor EXCEPT ![t] = NoTran], Over' = [Over EXCEPT ![t] = FALSE],
         UNCHANGED <<Phase, Due, Calling>>
  PROVE  Service!ServiceNext
  <1>1. Service!Return(t)
    BY DEF Service!Return, Phase, Due, Calling, WaitedFor, Over
  <1> QED
    BY <1>1 DEF Service!ServiceNext

\* What an application may free, fill or submit is not under way.
LEMMA OwnIsUnderNoCallback ==
  ASSUME Inv, NEW tr \in Transfers
  PROVE  /\ client[tr] \in {"free", "idle"} => Due[tr] = 0 /\ tr \notin Calling
         /\ client[tr] \in {"free", "idle", "called"} => Due[tr] = 0
         /\ client[tr] = "sync" => Due[tr] = 1 /\ tr \notin Calling
         /\ client[tr] \in {"pending", "cancelled"} => Due[tr] = 1
  BY DEF Inv, ClientKnows, Due, Calling

LEMMA SameTransfers ==
  ASSUME UNCHANGED <<submitted, client>>
  PROVE  UNCHANGED <<Phase, Due>>
  BY DEF Phase, Due

LEMMA SameCalling ==
  ASSUME \A t \in Threads : /\ pc'[t] = "callback" <=> pc[t] = "callback"
                            /\ pc[t] = "callback" => reaping'[t] = reaping[t]
  PROVE  UNCHANGED Calling
  BY DEF Calling

LEMMA SameWaits ==
  ASSUME \A t \in Threads :
           /\ call'[t] = call[t] /\ arg'[t] = arg[t]
           /\ call[t] = "wait" => (pc'[t] \in {"unlock", "return"} <=> pc[t] \in {"unlock", "return"})
  PROVE  UNCHANGED <<WaitedFor, Over>>
  <1>1. UNCHANGED WaitedFor
    BY DEF WaitedFor
  <1>2. \A t \in Threads : Over'[t] = Over[t]
    BY DEF Over
  <1>3. UNCHANGED Over
    BY <1>2 DEF Over
  <1> QED
    BY <1>1, <1>3

\* Every step of the engine is a step of the service, or invisible.
LEMMA ReapUntilSim ==
  ASSUME Inv, NEW t \in Threads, NEW c \in {"run", "wait"}, NEW tr \in Transfers \cup {NoTran},
         c = "wait" => tr \in Transfers, ReapUntil(t, c, tr)
  PROVE  Service!ServiceNext
  <1>1. /\ TypeOK /\ pc[t] = "idle" /\ call[t] = "none"
        /\ pc'[t] \in {"return", "locked", "enter"}
        /\ pc'[t] = "return" => Target(c, tr) \in signalled
        /\ \A u \in Threads \ {t} : pc'[u] = pc[u] /\ call'[u] = call[u] /\ arg'[u] = arg[u]
        /\ call'[t] = c /\ arg'[t] = tr
    BY DEF Inv, Located, ReapUntil, Goto, TypeOK
  <1>2. UNCHANGED <<Phase, Due>>
    BY SameTransfers DEF ReapUntil, tranVars
  <1>3. UNCHANGED Calling
    BY <1>1, SameCalling DEF ReapUntil
  <1>4. /\ WaitedFor[t] = NoTran /\ ~Over[t] /\ Over \in [Threads -> BOOLEAN]
        /\ \A u \in Threads \ {t} : Over'[u] = Over[u] /\ WaitedFor'[u] = WaitedFor[u]
    BY <1>1 DEF Over, WaitedFor
  <1>5. CASE c = "run"
    <2>1. \A u \in Threads : Over'[u] = Over[u] /\ WaitedFor'[u] = WaitedFor[u]
      BY <1>1, <1>4, <1>5 DEF Over, WaitedFor
    <2>2. UNCHANGED <<Over, WaitedFor>>
      BY <2>1 DEF Over, WaitedFor
    <2> QED
      BY <1>2, <1>3, <2>2, AbstractStutter
  <1>6. CASE c = "wait"
    <2>1. WaitedFor' = [WaitedFor EXCEPT ![t] = tr]
      BY <1>1, <1>4, <1>6 DEF WaitedFor
    <2>2. CASE pc'[t] = "return"
      <3>1. Over' = [Over EXCEPT ![t] = TRUE]
        <4>1. Over'[t] = TRUE
          BY <1>1, <1>6, <2>2 DEF Over
        <4> QED
          BY <1>4, <4>1 DEF Over
      <3>2. Due[tr] = 0 /\ tr \notin Calling
        BY <1>1, <1>6, <2>2, OwnIsUnderNoCallback DEF Target, Inv, ClientKnows
      <3> QED
        BY <1>2, <1>3, <1>4, <1>6, <2>1, <3>1, <3>2, AbstractWait
    <2>3. CASE pc'[t] # "return"
      <3>1. Over'[t] = Over[t]
        BY <1>1, <1>4, <2>3 DEF Over
      <3>2. Over' = Over
        BY <1>4, <3>1 DEF Over
      <3> QED
        BY <1>2, <1>3, <1>4, <1>6, <2>1, <3>2, AbstractWait
    <2> QED
      BY <2>2, <2>3
  <1> QED
    BY <1>5, <1>6

LEMMA SubmitSim ==
  ASSUME Inv, NEW t \in Threads, NEW tr \in Transfers, SubmitTransfer(t, tr)
  PROVE  Service!ServiceNext
  <1>1. \A u \in Threads : pc'[u] = IF pc[u] = "wait" THEN "locked" ELSE pc[u]
    BY WakeUpdated DEF SubmitTransfer, Inv
  <1>2. UNCHANGED <<call, arg, reaping>> /\ client[tr] \in {"idle", "called"} /\ TypeOK
    BY DEF SubmitTransfer, Inv
  <1>3. UNCHANGED Calling
    BY <1>1, <1>2, SameCalling
  <1>4. UNCHANGED <<WaitedFor, Over>>
    BY <1>1, <1>2, SameWaits
  <1>5. Due[tr] = 0 /\ Phase' = [Phase EXCEPT ![tr] = "busy"]
    BY <1>2, OwnIsUnderNoCallback DEF SubmitTransfer, Phase, TypeOK
  <1>6. Due' = [Due EXCEPT ![tr] = 1]
    BY <1>2 DEF SubmitTransfer, Due, TypeOK
  <1>7. Due' = [Due EXCEPT ![tr] = @ + 1]
    BY <1>5, <1>6
  <1> QED
    BY <1>3, <1>4, <1>5, <1>7, AbstractSubmit

LEMMA PerformSim ==
  ASSUME Inv, NEW t \in Threads, NEW tr \in Transfers, PerformTransfer(t, tr)
  PROVE  Service!ServiceNext
  <1>1. /\ TypeOK /\ pc[t] = "idle" /\ call[t] = "none" /\ client[tr] = "free"
        /\ pc'[t] = "perform" /\ call'[t] = "sync"
        /\ \A u \in Threads \ {t} : pc'[u] = pc[u] /\ call'[u] = call[u] /\ arg'[u] = arg[u]
        /\ UNCHANGED <<reaping, submitted>>
    BY DEF Inv, Located, PerformTransfer, Goto, TypeOK
  <1>2. UNCHANGED Calling
    BY <1>1, SameCalling
  <1>3. \A u \in Threads : Over'[u] = Over[u] /\ WaitedFor'[u] = WaitedFor[u]
    BY <1>1 DEF Over, WaitedFor
  <1>4. UNCHANGED <<Over, WaitedFor>>
    BY <1>3 DEF Over, WaitedFor
  <1>5. Due[tr] = 0 /\ Phase' = [Phase EXCEPT ![tr] = "busy"]
    BY <1>1, OwnIsUnderNoCallback DEF PerformTransfer, Phase, TypeOK
  <1>6. Due' = [Due EXCEPT ![tr] = 1]
    BY <1>1 DEF PerformTransfer, Due, TypeOK
  <1>7. Due' = [Due EXCEPT ![tr] = @ + 1]
    BY <1>5, <1>6
  <1> QED
    BY <1>2, <1>4, <1>5, <1>7, AbstractSubmit

LEMMA PerformDoneSim ==
  ASSUME Inv, NEW t \in Threads, PerformDone(t)
  PROVE  Service!ServiceNext
  <1> DEFINE tr == arg[t]
  <1>1. /\ TypeOK /\ pc[t] = "perform" /\ call[t] = "sync" /\ tr \in Transfers /\ client[tr] = "sync"
        /\ pc'[t] = "idle" /\ call'[t] = "none"
        /\ \A u \in Threads \ {t} : pc'[u] = pc[u] /\ call'[u] = call[u] /\ arg'[u] = arg[u]
        /\ UNCHANGED <<reaping, submitted>>
        /\ client' = [client EXCEPT ![tr] = "free"]
    BY DEF Inv, Located, ClientKnows, PerformDone, Goto, TypeOK
  <1>2. ~submitted[tr]
    BY <1>1 DEF Inv, ClientKnows
  <1> HIDE DEF tr
  <1>3. UNCHANGED Calling
    BY <1>1, SameCalling
  <1>4. \A u \in Threads : Over'[u] = Over[u] /\ WaitedFor'[u] = WaitedFor[u]
    BY <1>1 DEF Over, WaitedFor
  <1>5. UNCHANGED <<Over, WaitedFor>>
    BY <1>4 DEF Over, WaitedFor
  <1>6. Due[tr] = 1 /\ tr \notin Calling /\ Phase' = [Phase EXCEPT ![tr] = "free"]
    BY <1>1, OwnIsUnderNoCallback DEF Phase, TypeOK
  <1>7. Due' = [Due EXCEPT ![tr] = 0]
    BY <1>1, <1>2 DEF Due, TypeOK
  <1> QED
    BY <1>1, <1>3, <1>5, <1>6, <1>7, AbstractFinish

LEMMA ReapSim ==
  ASSUME Inv, NEW t \in Threads, ReapTransfer(t)
  PROVE  Service!ServiceNext
  <1> DEFINE tr == reaping[t]
  <1>1. /\ TypeOK /\ pc[t] = "got" /\ tr \in Transfers
        /\ submitted[tr] /\ client[tr] \in {"pending", "cancelled"}
        /\ \A u \in Threads : pc[u] # "callback"
    BY DEF Inv, Located, ListIsExact, ClientKnows, OneReaper, Reaper, ReapTransfer
  <1>2. /\ pc'[t] = "callback" /\ \A u \in Threads \ {t} : pc'[u] = pc[u]
        /\ UNCHANGED <<call, arg, reaping>>
        /\ client' = [client EXCEPT ![tr] = "called"]
        /\ submitted' = [submitted EXCEPT ![tr] = FALSE]
    BY <1>1 DEF ReapTransfer, Goto, TypeOK
  <1>3. Calling = {} /\ Calling' = {tr}
    BY <1>1, <1>2 DEF Calling
  <1> HIDE DEF tr
  <1>4. UNCHANGED <<WaitedFor, Over>>
    BY <1>1, <1>2, SameWaits
  <1>5. Due[tr] = 1 /\ Phase' = Phase
    BY <1>1, <1>2, OwnIsUnderNoCallback DEF Phase, TypeOK
  <1>6. Due' = [Due EXCEPT ![tr] = 0]
    BY <1>1, <1>2 DEF Due, TypeOK
  <1>7. Due' = [Due EXCEPT ![tr] = @ - 1] /\ Due[tr] > 0
    BY <1>5, <1>6
  <1>8. tr \notin Calling /\ Calling' = Calling \cup {tr}
    BY <1>3
  <1> QED
    BY <1>1, <1>4, <1>5, <1>7, <1>8, AbstractDeliver

LEMMA CallbackSim ==
  ASSUME Inv, NEW t \in Threads, CallbackReturns(t)
  PROVE  Service!ServiceNext
  <1> DEFINE tr == reaping[t]
             W == {u \in Threads : /\ Done(tr) /\ Blocked(u)
                                   /\ Completion(tr) = Target(call[u], arg[u])}
  <1>1. /\ TypeOK /\ pc[t] = "callback" /\ tr \in Transfers
        /\ client[tr] \in {"called", "pending", "cancelled"}
        /\ \A u \in Threads \ {t} : pc[u] # "callback"
    BY DEF Inv, Located, ClientKnows, OneReaper, Reaper, CallbackReturns
  <1>2. \A u \in Threads :
          pc'[u] = IF u = t THEN "locked"
                   ELSE IF u \in W THEN IF pc[u] = "wait" THEN "unlock" ELSE "return"
                   ELSE pc[u]
    BY CallbackMoves DEF Inv
  <1>3. UNCHANGED <<call, arg, submitted>>
    BY DEF CallbackReturns
  <1>4. Calling = {tr} /\ Calling' = {}
    BY <1>1, <1>2 DEF Calling, Blocked
  <1>5. \A u \in W : call[u] = "wait" /\ arg[u] = tr /\ u # t
    <2>1. \A u \in W : call[u] # "run" /\ arg[u] = tr
      BY TargetLemma, EventsDiffer
    <2>2. \A u \in W : call[u] \notin {"none", "sync"}
      BY DEF Blocked, Inv, Located
    <2> QED
      BY <1>1, <2>1, <2>2 DEF Blocked, TypeOK
  <1>6. UNCHANGED WaitedFor /\ W \in SUBSET {u \in Threads : WaitedFor[u] = tr}
    BY <1>3, <1>5 DEF WaitedFor
  <1>7. Over' = [u \in Threads |-> Over[u] \/ u \in W]
    <2>1. \A u \in Threads : Over'[u] = (Over[u] \/ u \in W)
      <3> TAKE u \in Threads
      <3> HIDE DEF W
      <3>1. CASE u \in W
        BY <1>2, <1>3, <1>5, <3>1 DEF Over
      <3>2. CASE u \notin W /\ u # t
        BY <1>2, <1>3, <3>2 DEF Over
      <3>3. CASE u \notin W /\ u = t
        BY <1>1, <1>2, <3>3 DEF Over
      <3> QED
        BY <3>1, <3>2, <3>3
    <2> QED
      BY <2>1 DEF Over
  <1>8. \/ W = {} /\ UNCHANGED <<Phase, Due>>
        \/ Due[tr] = 0 /\ Phase' = [Phase EXCEPT ![tr] = "idle"] /\ UNCHANGED Due
    <2>1. CASE Done(tr)
      <3>1. client[tr] = "called" /\ client' = [client EXCEPT ![tr] = "idle"]
        BY <1>1, <2>1 DEF CallbackReturns, Done, Inv, ClientKnows
      <3>2. Due[tr] = 0
        BY <1>1, <3>1, OwnIsUnderNoCallback
      <3> HIDE DEF tr
      <3>3. Phase' = [Phase EXCEPT ![tr] = "idle"] /\ UNCHANGED Due
        BY <1>1, <1>3, <3>1 DEF Phase, Due, TypeOK
      <3> QED
        BY <3>2, <3>3
    <2>2. CASE ~Done(tr)
      <3>1. UNCHANGED client
        BY <2>2 DEF CallbackReturns
      <3>2. W = {}
        BY <2>2
      <3> QED
        BY <1>3, <3>1, <3>2, SameTransfers
    <2> QED
      BY <2>1, <2>2
  <1>9. tr \in Calling /\ Calling' = Calling \ {tr} /\ UNCHANGED Due
    BY <1>4, <1>8
  <1> HIDE DEF tr, W
  <1> QED
    BY <1>1, <1>6, <1>7, <1>8, <1>9, AbstractCallbackEnds

LEMMA WaitForHandlesSim ==
  ASSUME Inv, NEW t \in Threads, WaitForHandles(t)
  PROVE  Service!ServiceNext
  <1>1. /\ TypeOK /\ pc[t] = "filled" /\ UNCHANGED <<call, arg, submitted, client>>
        /\ \A u \in Threads \ {t} : pc'[u] = pc[u] /\ reaping'[u] = reaping[u]
        /\ pc'[t] \in {"wait", "unlock", "locked", "got"}
    BY DEF Inv, WaitForHandles, AfterWait, Goto, TypeOK, tranVars
  <1>2. UNCHANGED <<Phase, Due>>
    BY <1>1, SameTransfers
  <1>3. UNCHANGED Calling
    BY <1>1, SameCalling
  <1>4. CASE call[t] # "wait" \/ pc'[t] # "unlock"
    <2>1. UNCHANGED <<WaitedFor, Over>>
      BY <1>1, <1>4, SameWaits
    <2> QED
      BY <1>2, <1>3, <2>1, AbstractStutter
  <1>5. CASE call[t] = "wait" /\ pc'[t] = "unlock"
    <2>1. PICK i \in DOMAIN handles :
            handles[i] \in signalled /\ AfterWait(t, handles[i]) = "unlock"
      BY <1>1, <1>5 DEF WaitForHandles, Goto, TypeOK
    <2>2. handles[i] = Completion(arg[t])
      BY <1>1, <1>5, <2>1 DEF AfterWait, Target
    <2>3. arg[t] \in Transfers /\ client[arg[t]] = "idle"
      BY <1>5, <2>1, <2>2 DEF Inv, Located, ClientKnows
    <2>4. WaitedFor[t] = arg[t] /\ arg[t] # NoTran /\ UNCHANGED WaitedFor
      BY <1>1, <1>5, <2>3, ConstantsAssumption DEF WaitedFor, ConstantsAssumption
    <2>5. Due[arg[t]] = 0 /\ arg[t] \notin Calling
      BY <2>3, OwnIsUnderNoCallback
    <2>6. Over' = [Over EXCEPT ![t] = TRUE]
      <3>1. Over'[t] = TRUE
        BY <1>1, <1>5 DEF Over
      <3>2. \A u \in Threads \ {t} : Over'[u] = Over[u]
        BY <1>1 DEF Over
      <3> QED
        BY <3>1, <3>2 DEF Over
    <2> QED
      BY <1>2, <1>3, <2>4, <2>5, <2>6, AbstractEndWait
  <1> QED
    BY <1>1, <1>4, <1>5

LEMMA ReturnSim ==
  ASSUME Inv, NEW t \in Threads, Return(t)
  PROVE  Service!ServiceNext
  <1>1. /\ TypeOK /\ pc[t] = "return" /\ pc'[t] = "idle" /\ call'[t] = "none"
        /\ \A u \in Threads \ {t} : pc'[u] = pc[u] /\ call'[u] = call[u] /\ arg'[u] = arg[u]
        /\ UNCHANGED <<reaping, submitted, client>>
    BY DEF Inv, Return, Goto, TypeOK, tranVars
  <1>2. UNCHANGED <<Phase, Due>>
    BY <1>1, SameTransfers
  <1>3. UNCHANGED Calling
    BY <1>1, SameCalling
  <1>4. /\ \A u \in Threads \ {t} : Over'[u] = Over[u] /\ WaitedFor'[u] = WaitedFor[u]
        /\ Over'[t] = FALSE /\ WaitedFor'[t] = NoTran
    BY <1>1 DEF Over, WaitedFor
  <1>5. CASE call[t] = "wait"
    <2>1. Over[t] /\ WaitedFor[t] # NoTran
      BY <1>1, <1>5, ConstantsAssumption DEF Over, WaitedFor, Inv, Located, ConstantsAssumption
    <2>2. WaitedFor' = [WaitedFor EXCEPT ![t] = NoTran] /\ Over' = [Over EXCEPT ![t] = FALSE]
      BY <1>4 DEF Over, WaitedFor
    <2> QED
      BY <1>2, <1>3, <2>1, <2>2, AbstractReturn
  <1>6. CASE call[t] # "wait"
    <2>1. Over[t] = FALSE /\ WaitedFor[t] = NoTran
      BY <1>6 DEF Over, WaitedFor
    <2>2. \A u \in Threads : Over'[u] = Over[u] /\ WaitedFor'[u] = WaitedFor[u]
      BY <1>4, <2>1
    <2>3. UNCHANGED <<Over, WaitedFor>>
      BY <2>2 DEF Over, WaitedFor
    <2> QED
      BY <1>2, <1>3, <2>3, AbstractStutter
  <1> QED
    BY <1>5, <1>6

LEMMA AllocFreeSim ==
  ASSUME Inv, NEW t \in Threads, NEW tr \in Transfers,
         AllocTransfer(t, tr) \/ FreeTransfer(t, tr)
  PROVE  Service!ServiceNext
  <1>1. /\ TypeOK /\ UNCHANGED <<pc, call, arg, reaping, submitted>>
        /\ \/ client[tr] = "free" /\ client' = [client EXCEPT ![tr] = "idle"]
           \/ client[tr] = "idle" /\ client' = [client EXCEPT ![tr] = "free"]
    BY AllocKeepsSubmitted DEF Inv, AllocTransfer, FreeTransfer, threadVars
  <1>2. UNCHANGED <<Calling, WaitedFor, Over>>
    BY <1>1, SameCalling, SameWaits
  <1>3. UNCHANGED Due /\ Due[tr] = 0 /\ tr \notin Calling
    BY <1>1, OwnIsUnderNoCallback DEF Due, TypeOK
  <1>4. \/ Phase[tr] = "free" /\ Phase' = [Phase EXCEPT ![tr] = "idle"]
        \/ Phase' = [Phase EXCEPT ![tr] = "free"]
    BY <1>1 DEF Phase, TypeOK
  <1> QED
    BY <1>2, <1>3, <1>4, AbstractAlloc, AbstractSettle

\* The remaining steps of threads are invisible, ...
LEMMA HiddenThreadSim ==
  ASSUME Inv, NEW t \in Threads,
         \/ FillHandleList(t) \/ WaitFailed(t) \/ ReleaseLock(t)
         \/ StopEventLoop(t) \/ ResetEventLoop(t)
         \/ \E tr \in Transfers : SubmitFails(t, tr) \/ CancelTransfer(t, tr)
  PROVE  Service!ServiceNext
  <1>1. TypeOK /\ UNCHANGED <<call, arg, reaping, submitted>>
    BY DEF Inv, FillHandleList, WaitFailed, ReleaseLock, StopEventLoop, ResetEventLoop,
           SubmitFails, CancelTransfer, tranVars, threadVars
  <1>2. UNCHANGED <<Phase, Due>>
    <2>1. ASSUME NEW tr \in Transfers, CancelTransfer(t, tr)
          PROVE  UNCHANGED <<Phase, Due>>
      BY <1>1, <2>1 DEF CancelTransfer, Phase, Due, TypeOK
    <2>2. CASE UNCHANGED client
      BY <1>1, <2>2, SameTransfers
    <2> QED
      BY <2>1, <2>2
         DEF FillHandleList, WaitFailed, ReleaseLock, StopEventLoop, ResetEventLoop,
             SubmitFails, tranVars
  <1>3. \A u \in Threads :
          \/ pc'[u] = pc[u]
          \/ /\ pc[u] # "callback" /\ pc'[u] # "callback"
             /\ call[u] = "wait" => (pc'[u] \in {"unlock", "return"} <=> pc[u] \in {"unlock", "return"})
    <2>1. CASE FillHandleList(t)
      BY <1>1, <2>1 DEF FillHandleList, Goto, TypeOK
    <2>2. CASE ReleaseLock(t)
      BY <1>1, <2>2 DEF ReleaseLock, Goto, TypeOK
    <2>3. CASE StopEventLoop(t)
      <3>1. \A u \in Threads :
              pc'[u] = IF Blocked(u) /\ Stopped = Target(call[u], arg[u])
                       THEN IF pc[u] = "wait" THEN "unlock" ELSE "return"
                       ELSE pc[u]
        BY <2>3, WakeTarget, EventsDiffer DEF Inv, StopEventLoop, TypeOK
      <3>2. \A u \in Threads : call[u] = "wait" => Stopped # Target(call[u], arg[u])
        BY EventsDiffer DEF Target
      <3> QED
        BY <3>1, <3>2 DEF Blocked
    <2>4. CASE UNCHANGED pc
      BY <2>4
    <2> QED
      BY <2>1, <2>2, <2>3, <2>4
         DEF WaitFailed, ResetEventLoop, SubmitFails, CancelTransfer, threadVars
  <1>4. UNCHANGED Calling
    BY <1>1, <1>3, SameCalling
  <1>5. UNCHANGED <<WaitedFor, Over>>
    BY <1>1, <1>3, SameWaits
  <1> QED
    BY <1>2, <1>4, <1>5, AbstractStutter

\* ... and so is what the driver does.
LEMMA CompleteSim ==
  ASSUME Inv, NEW tr \in Transfers, NEW r \in {"success", "aborted", "failed"}, Complete(tr, r)
  PROVE  Service!ServiceNext
  <1>1. UNCHANGED <<call, arg, submitted, client>>
    BY DEF Complete
  <1>2. \A u \in Threads :
          \/ pc[u] = "wait" /\ pc'[u] = "got"
          \/ pc'[u] = pc[u] /\ reaping'[u] = reaping[u]
    BY WakeOverlapped DEF Complete, Inv
  <1>3. UNCHANGED <<Calling, WaitedFor, Over>>
    BY <1>1, <1>2, SameCalling, SameWaits
  <1> QED
    BY <1>1, <1>3, SameTransfers, AbstractStutter

LEMMA ServiceStep ==
  ASSUME Inv, [Next]_vars
  PROVE  Service!ServiceNext
  <1>1. CASE UNCHANGED vars
    <2>1. UNCHANGED <<Phase, Due, Calling, WaitedFor, Over>>
      BY <1>1 DEF vars, tranVars, threadVars, Phase, Due, Calling, WaitedFor, Over
    <2> QED
      BY <2>1, AbstractStutter
  <1>2. ASSUME NEW t \in Threads, ClientStep(t)
        PROVE  Service!ServiceNext
    BY <1>2, ReapUntilSim, SubmitSim, PerformSim, AllocFreeSim, HiddenThreadSim
       DEF ClientStep, RunEventLoop, WaitForTransfer
  <1>3. ASSUME NEW t \in Threads, LibraryStep(t)
        PROVE  Service!ServiceNext
    BY <1>3, WaitForHandlesSim, ReapSim, CallbackSim, ReturnSim, PerformDoneSim, HiddenThreadSim
       DEF LibraryStep
  <1>4. ASSUME NEW tr \in Transfers, DeviceStep(tr)
        PROVE  Service!ServiceNext
    BY <1>4, CompleteSim DEF DeviceStep
  <1> QED
    BY <1>1, <1>2, <1>3, <1>4 DEF Next

LEMMA ServiceStart ==
  ASSUME Init
  PROVE  Service!ServiceInit
  <1>1. \A t \in Threads : (call[t] = "wait" /\ pc[t] \in {"unlock", "return"}) = FALSE
    BY DEF Init
  <1> QED
    BY <1>1 DEF Init, Service!ServiceInit

\* The Windows engine implements the transfer service, without exception for
\* any client: each successful submit is followed by one callback, callbacks
\* of a transfer do not overlap, and neither libusby_wait_for_transfer nor the
\* end of the callback hands a transfer back while something of it is due.
THEOREM EngineImplementsService == Spec => ImplementsService
  <1>1. Init => Service!ServiceInit
    BY ServiceStart
  <1>2. Inv /\ [Next]_vars => [Service!ServiceNext]_(Service!serviceVars)
    BY ServiceStep
  <1> QED
    BY <1>1, <1>2, Invariant, PTL DEF Spec, ImplementsService, Service!ServiceSpec

-----------------------------------------------------------------------------
(* What was freed is left alone.                                           *)

\* A thread in a call about a transfer keeps it allocated, and a synchronous
\* request belongs to the call that made it.
ArgsAllocated ==
  \A t \in Threads :
    arg[t] # NoTran => pc[t] = "perform" \/ client[arg[t]] \notin {"free", "sync"}

\* A thread has a transfer to reap only between the two ends of reaping it.
ReapingLocated == \A t \in Threads : reaping[t] # NoTran => pc[t] \in {"got", "callback"}

FreeIsQuiet == \A tr \in Transfers : client[tr] = "free" => ~Pending(tr)

\* A step that is not about the calls threads are in.
LEMMA SameArgs ==
  ASSUME TypeOK, ArgsAllocated, UNCHANGED arg,
         \A t \in Threads : pc[t] = "perform" => pc'[t] = "perform",
         \A tr \in Transfers : client[tr] \notin {"free", "sync"} => client'[tr] \notin {"free", "sync"}
  PROVE  ArgsAllocated'
  BY DEF ArgsAllocated, TypeOK

LEMMA SameReaping ==
  ASSUME ReapingLocated,
         \A t \in Threads : \/ reaping'[t] = NoTran \/ pc'[t] \in {"got", "callback"}
                            \/ reaping'[t] = reaping[t] /\ pc'[t] = pc[t]
  PROVE  ReapingLocated'
  BY DEF ReapingLocated

LEMMA SameFree ==
  ASSUME TypeOK, FreeIsQuiet,
         \A tr \in Transfers : client'[tr] = "free" => client[tr] = "free" /\ (Pending(tr)' => Pending(tr))
  PROVE  FreeIsQuiet'
  BY DEF FreeIsQuiet

LEMMA ArgsStep ==
  ASSUME Inv, ArgsAllocated, [Next]_vars
  PROVE  ArgsAllocated'
  <1>0. TypeOK /\ Located /\ ClientKnows /\ HandlesRight
    BY DEF Inv
  <1> USE <1>0, ConstantsAssumption DEF ConstantsAssumption
  <1>1. ASSUME NEW t \in Threads, NEW tr \in Transfers \cup {NoTran}, NEW c \in {"run", "wait"},
               tr = NoTran \/ client[tr] \notin {"free", "sync"}, ReapUntil(t, c, tr)
        PROVE  ArgsAllocated'
    <2>1. /\ pc[t] = "idle" /\ arg'[t] = tr /\ UNCHANGED client
          /\ \A u \in Threads \ {t} : pc'[u] = pc[u] /\ arg'[u] = arg[u]
      BY <1>1 DEF ReapUntil, Goto, TypeOK, tranVars
    <2> QED
      BY <1>1, <2>1 DEF ArgsAllocated
  <1>2. ASSUME NEW t \in Threads, StopEventLoop(t)
        PROVE  ArgsAllocated'
    <2>1. \A u \in Threads : pc'[u] = pc[u] \/ pc[u] \in {"enter", "wait"}
      BY <1>2, WakeTarget, EventsDiffer DEF StopEventLoop, TypeOK, Blocked
    <2> QED
      BY <1>2, <2>1, SameArgs DEF StopEventLoop, tranVars
  <1>3. ASSUME NEW t \in Threads, NEW tr \in Transfers, SubmitTransfer(t, tr)
        PROVE  ArgsAllocated'
    <2>1. \A u \in Threads : pc'[u] = pc[u] \/ pc[u] = "wait"
      BY <1>3, WakeUpdated DEF SubmitTransfer
    <2>2. \A x \in Transfers : client[x] \notin {"free", "sync"} => client'[x] \notin {"free", "sync"}
      BY <1>3 DEF SubmitTransfer, TypeOK
    <2> QED
      BY <1>3, <2>1, <2>2, SameArgs DEF SubmitTransfer
  <1>4. ASSUME NEW tr \in Transfers, NEW r \in {"success", "aborted", "failed"}, Complete(tr, r)
        PROVE  ArgsAllocated'
    <2>1. \A u \in Threads : pc'[u] = pc[u] \/ pc[u] = "wait"
      BY <1>4, WakeOverlapped DEF Complete
    <2> QED
      BY <1>4, <2>1, SameArgs DEF Complete
  <1>5. ASSUME NEW t \in Threads, CallbackReturns(t)
        PROVE  ArgsAllocated'
    <2>1. \A u \in Threads : pc'[u] = pc[u] \/ pc[u] \in {"callback", "enter", "wait"}
      BY <1>5, CallbackMoves DEF Blocked, CallbackReturns
    <2>2. \A x \in Transfers : client[x] \notin {"free", "sync"} => client'[x] \notin {"free", "sync"}
      BY <1>5 DEF CallbackReturns, TypeOK
    <2> QED
      BY <1>5, <2>1, <2>2, SameArgs DEF CallbackReturns
  <1>6. ASSUME NEW t \in Threads,
               \/ ReleaseLock(t) \/ FillHandleList(t) \/ WaitForHandles(t) \/ ReapTransfer(t)
               \/ ResetEventLoop(t) \/ WaitFailed(t)
               \/ \E tr \in Transfers :
                    SubmitFails(t, tr) \/ CancelTransfer(t, tr) \/ AllocTransfer(t, tr)
        PROVE  ArgsAllocated'
    <2> USE DEF ReleaseLock, FillHandleList, WaitForHandles, ReapTransfer, ResetEventLoop, WaitFailed,
                SubmitFails, CancelTransfer, AllocTransfer, Goto, TypeOK, tranVars, threadVars
    <2>1. UNCHANGED arg
      BY <1>6
    <2>2. \A u \in Threads : pc[u] = "perform" => pc'[u] = "perform"
      BY <1>6
    <2>3. \A x \in Transfers : client[x] \notin {"free", "sync"} => client'[x] \notin {"free", "sync"}
      BY <1>6
    <2> QED
      BY <2>1, <2>2, <2>3, SameArgs
  <1>7. ASSUME NEW t \in Threads, Return(t)
        PROVE  ArgsAllocated'
    <2>1. /\ pc[t] = "return" /\ arg'[t] = NoTran /\ UNCHANGED client
          /\ \A u \in Threads \ {t} : pc'[u] = pc[u] /\ arg'[u] = arg[u]
      BY <1>7 DEF Return, Goto, TypeOK, tranVars
    <2> QED
      BY <2>1 DEF ArgsAllocated
  <1>8. ASSUME NEW t \in Threads, PerformDone(t)
        PROVE  ArgsAllocated'
    <2> DEFINE tr == arg[t]
    <2>1. /\ pc[t] = "perform" /\ tr \in Transfers /\ client[tr] = "sync"
          /\ arg'[t] = NoTran
          /\ \A u \in Threads \ {t} : pc'[u] = pc[u] /\ arg'[u] = arg[u]
          /\ \A x \in Transfers \ {tr} : client'[x] = client[x]
      BY <1>8 DEF PerformDone, Goto, TypeOK, Located, ClientKnows
    <2>2. \A u \in Threads \ {t} : arg[u] # tr
      BY <2>1 DEF ArgsAllocated, Located
    <2>3. ASSUME NEW u \in Threads, arg'[u] # NoTran
          PROVE  pc'[u] = "perform" \/ client'[arg'[u]] \notin {"free", "sync"}
      <3>1. u # t /\ arg'[u] = arg[u] /\ pc'[u] = pc[u] /\ arg[u] # tr
        BY <2>1, <2>2, <2>3
      <3>2. arg[u] \in Transfers
        BY <2>3, <3>1 DEF TypeOK
      <3>3. client'[arg[u]] = client[arg[u]]
        BY <2>1, <3>1, <3>2
      <3> QED
        BY <2>3, <3>1, <3>3 DEF ArgsAllocated
    <2> QED
      BY <2>3 DEF ArgsAllocated
  <1>9. ASSUME NEW t \in Threads, NEW tr \in Transfers, PerformTransfer(t, tr)
        PROVE  ArgsAllocated'
    <2>1. /\ pc[t] = "idle" /\ pc'[t] = "perform" /\ client[tr] = "free"
          /\ \A u \in Threads \ {t} : pc'[u] = pc[u] /\ arg'[u] = arg[u]
          /\ \A x \in Transfers \ {tr} : client'[x] = client[x]
      BY <1>9 DEF PerformTransfer, Goto, TypeOK
    <2>2. \A u \in Threads : arg[u] # tr
      BY <2>1 DEF ArgsAllocated, ClientKnows
    <2> QED
      BY <2>1, <2>2 DEF ArgsAllocated, TypeOK
  <1>10. ASSUME NEW t \in Threads, NEW tr \in Transfers, FreeTransfer(t, tr)
         PROVE  ArgsAllocated'
    <2>1. /\ UNCHANGED <<pc, arg>> /\ \A u \in Threads : arg[u] # tr
          /\ \A x \in Transfers \ {tr} : client'[x] = client[x]
      BY <1>10 DEF FreeTransfer, TypeOK, threadVars
    <2> QED
      BY <2>1 DEF ArgsAllocated, TypeOK
  <1>11. CASE UNCHANGED vars
    BY <1>11, SameArgs DEF vars, threadVars, tranVars
  <1> QED
    BY <1>1, <1>2, <1>3, <1>4, <1>5, <1>6, <1>7, <1>8, <1>9, <1>10, <1>11
       DEF Next, ClientStep, LibraryStep, DeviceStep, RunEventLoop, WaitForTransfer

LEMMA ReapingStep ==
  ASSUME Inv, ReapingLocated, [Next]_vars
  PROVE  ReapingLocated'
  <1>0. TypeOK /\ Located /\ HandlesRight
    BY DEF Inv
  <1> USE <1>0
  <1>1. ASSUME NEW t \in Threads, NEW tr \in Transfers \cup {NoTran}, NEW c \in {"run", "wait"},
               ReapUntil(t, c, tr)
        PROVE  ReapingLocated'
    <2>1. pc[t] = "idle" /\ UNCHANGED reaping /\ \A u \in Threads \ {t} : pc'[u] = pc[u]
      BY <1>1 DEF ReapUntil, Goto, TypeOK
    <2> QED
      BY <2>1 DEF ReapingLocated
  <1>2. ASSUME NEW t \in Threads, StopEventLoop(t)
        PROVE  ReapingLocated'
    <2>1. \A u \in Threads : pc'[u] = pc[u] \/ pc[u] \in {"enter", "wait"}
      BY <1>2, WakeTarget, EventsDiffer DEF StopEventLoop, TypeOK, Blocked
    <2> QED
      BY <1>2, <2>1 DEF StopEventLoop, ReapingLocated
  <1>3. ASSUME NEW t \in Threads, NEW tr \in Transfers, SubmitTransfer(t, tr)
        PROVE  ReapingLocated'
    <2>1. \A u \in Threads : pc'[u] = pc[u] \/ pc[u] = "wait"
      BY <1>3, WakeUpdated DEF SubmitTransfer
    <2> QED
      BY <1>3, <2>1 DEF SubmitTransfer, ReapingLocated
  <1>4. ASSUME NEW tr \in Transfers, NEW r \in {"success", "aborted", "failed"}, Complete(tr, r)
        PROVE  ReapingLocated'
    <2>1. \A u \in Threads :
            IF Overlapped(tr) \in WaitsFor(u) THEN pc'[u] = "got"
            ELSE pc'[u] = pc[u] /\ reaping'[u] = reaping[u]
      BY <1>4, WakeOverlapped DEF Complete
    <2> QED
      BY <2>1, SameReaping
  <1>5. ASSUME NEW t \in Threads, CallbackReturns(t)
        PROVE  ReapingLocated'
    <2>1. \A u \in Threads : u = t \/ pc'[u] = pc[u] \/ pc[u] \in {"enter", "wait"}
      BY <1>5, CallbackMoves DEF Blocked
    <2>2. reaping'[t] = NoTran /\ \A u \in Threads \ {t} : reaping'[u] = reaping[u]
      BY <1>5 DEF CallbackReturns, TypeOK
    <2> QED
      BY <2>1, <2>2 DEF ReapingLocated
  <1>6. ASSUME NEW t \in Threads,
               \/ ReleaseLock(t) \/ FillHandleList(t) \/ ReapTransfer(t) \/ WaitFailed(t)
               \/ Return(t) \/ PerformDone(t) \/ ResetEventLoop(t)
               \/ \E tr \in Transfers :
                    \/ SubmitFails(t, tr) \/ CancelTransfer(t, tr) \/ PerformTransfer(t, tr)
                    \/ AllocTransfer(t, tr) \/ FreeTransfer(t, tr)
        PROVE  ReapingLocated'
    <2> USE DEF ReleaseLock, FillHandleList, ReapTransfer, WaitFailed, Return, PerformDone, ResetEventLoop,
                SubmitFails, CancelTransfer, PerformTransfer, AllocTransfer, FreeTransfer,
                Goto, TypeOK, threadVars
    <2>1. UNCHANGED reaping
      BY <1>6
    <2>2. \A u \in Threads : \/ pc'[u] = pc[u] \/ pc'[u] = "callback"
                             \/ pc[u] \notin {"got", "callback"}
      BY <1>6
    <2> QED
      BY <2>1, <2>2 DEF ReapingLocated
  <1>7. ASSUME NEW t \in Threads, WaitForHandles(t)
        PROVE  ReapingLocated'
    <2>1. CASE pc' = [pc EXCEPT ![t] = "wait"] /\ UNCHANGED reaping
      <3>1. pc[t] = "filled" /\ \A u \in Threads \ {t} : pc'[u] = pc[u]
        BY <1>7, <2>1 DEF WaitForHandles, TypeOK
      <3> QED
        BY <2>1, <3>1 DEF ReapingLocated
    <2>2. ASSUME NEW i \in DOMAIN handles,
                 pc' = [pc EXCEPT ![t] = AfterWait(t, handles[i])],
                 reaping' = [reaping EXCEPT ![t] =
                   IF AfterWait(t, handles[i]) = "got" THEN handles[i][2] ELSE NoTran]
          PROVE  ReapingLocated'
      <3>1. pc'[t] = "got" \/ reaping'[t] = NoTran
        BY <2>2 DEF TypeOK
      <3>2. \A u \in Threads \ {t} : pc'[u] = pc[u] /\ reaping'[u] = reaping[u]
        BY <2>2 DEF TypeOK
      <3> QED
        BY <3>1, <3>2, SameReaping
    <2> QED
      BY <1>7, <2>1, <2>2 DEF WaitForHandles, Goto
  <1>8. CASE UNCHANGED vars
    BY <1>8 DEF vars, threadVars, ReapingLocated
  <1> QED
    BY <1>1, <1>2, <1>3, <1>4, <1>5, <1>6, <1>7, <1>8
       DEF Next, ClientStep, LibraryStep, DeviceStep, RunEventLoop, WaitForTransfer

LEMMA FreeStep ==
  ASSUME Inv, FreeIsQuiet, [Next]_vars
  PROVE  FreeIsQuiet'
  <1>0. TypeOK /\ ClientKnows
    BY DEF Inv
  <1> USE <1>0
  <1>1. CASE UNCHANGED <<client, io>>
    BY <1>1 DEF FreeIsQuiet, Pending
  <1>2. ASSUME NEW t \in Threads,
               \/ StopEventLoop(t) \/ ResetEventLoop(t) \/ FillHandleList(t) \/ WaitForHandles(t)
               \/ WaitFailed(t) \/ ReleaseLock(t) \/ Return(t)
               \/ \E c, tr : ReapUntil(t, c, tr)
               \/ \E tr \in Transfers : SubmitFails(t, tr)
        PROVE  UNCHANGED <<client, io>>
    BY <1>2 DEF StopEventLoop, ResetEventLoop, FillHandleList, WaitForHandles, WaitFailed, ReleaseLock,
                Return, ReapUntil, SubmitFails, tranVars
  <1>3. ASSUME NEW t \in Threads, ReapTransfer(t) \/ CallbackReturns(t)
        PROVE  FreeIsQuiet'
    <2>1. UNCHANGED io /\ \A x \in Transfers : client'[x] = "free" => client[x] = "free"
      BY <1>3 DEF ReapTransfer, CallbackReturns, TypeOK
    <2> QED
      BY <2>1, SameFree DEF Pending
  <1>4. ASSUME NEW t \in Threads, NEW tr \in Transfers,
               SubmitTransfer(t, tr) \/ PerformTransfer(t, tr) \/ AllocTransfer(t, tr)
        PROVE  FreeIsQuiet'
    <2>1. /\ client'[tr] # "free"
          /\ \A x \in Transfers \ {tr} : client'[x] = client[x] /\ io'[x] = io[x]
      BY <1>4 DEF SubmitTransfer, PerformTransfer, AllocTransfer, TypeOK
    <2> QED
      BY <2>1, SameFree DEF Pending
  <1>5. ASSUME NEW t \in Threads, NEW tr \in Transfers, CancelTransfer(t, tr)
        PROVE  FreeIsQuiet'
    <2>1. /\ \A x \in Transfers : client'[x] = "free" => client[x] = "free"
          /\ \A x \in Transfers : io'[x] = io[x] \/ Pending(x)
      BY <1>5 DEF CancelTransfer, TypeOK
    <2> QED
      BY <2>1, SameFree DEF Pending
  <1>6. ASSUME NEW t \in Threads, NEW tr \in Transfers, FreeTransfer(t, tr)
        PROVE  FreeIsQuiet'
    <2>1. /\ client[tr] = "idle" /\ io'[tr] = "success"
          /\ \A x \in Transfers \ {tr} : client'[x] = client[x] /\ io'[x] = io[x]
      BY <1>6 DEF FreeTransfer, TypeOK
    <2> QED
      BY <2>1 DEF FreeIsQuiet, Pending
  <1>7. ASSUME NEW t \in Threads, PerformDone(t)
        PROVE  FreeIsQuiet'
    <2>1. /\ ~Pending(arg[t]) /\ UNCHANGED io
          /\ \A x \in Transfers : x # arg[t] => client'[x] = client[x]
      BY <1>7 DEF PerformDone, TypeOK
    <2> QED
      BY <2>1 DEF FreeIsQuiet, Pending
  <1>8. ASSUME NEW tr \in Transfers, NEW r \in {"success", "aborted", "failed"}, Complete(tr, r)
        PROVE  FreeIsQuiet'
    <2>1. Pending(tr) /\ UNCHANGED client /\ \A x \in Transfers \ {tr} : io'[x] = io[x]
      BY <1>8 DEF Complete, TypeOK
    <2> QED
      BY <2>1, SameFree DEF Pending
  <1> QED
    BY <1>1, <1>2, <1>3, <1>4, <1>5, <1>6, <1>7, <1>8
       DEF Next, ClientStep, LibraryStep, DeviceStep, RunEventLoop, WaitForTransfer, vars, tranVars

\* libusby_free_transfer, usbyb_perform_transfer and what calls them never
\* close an event somebody waits on, and never give back memory that the
\* driver, the reaper or another call still uses.
THEOREM FreedMemoryIsUnused == Spec => []FreedIsUnused
  <1> DEFINE All == ArgsAllocated /\ ReapingLocated /\ FreeIsQuiet
  <1>1. Init => All
    BY DEF Init, ArgsAllocated, ReapingLocated, FreeIsQuiet, Pending
  <1>2. Inv /\ All /\ [Next]_vars => All'
    BY ArgsStep, ReapingStep, FreeStep
  <1>3. Inv /\ All => FreedIsUnused
    <2> SUFFICES ASSUME Inv, All, NEW tr \in Transfers, client[tr] = "free"
                 PROVE  /\ ~Pending(tr) /\ ~submitted[tr]
                        /\ \A t \in Threads :
                             /\ reaping[t] # tr /\ arg[t] # tr
                             /\ {Completion(tr), Overlapped(tr)} \cap WaitsFor(t) = {}
      BY DEF FreedIsUnused
    <2>0. TypeOK /\ Located /\ ClientKnows /\ ListIsExact /\ HandlesRight /\ tr # NoTran
      BY ConstantsAssumption DEF Inv, ConstantsAssumption
    <2>1. ~Pending(tr) /\ ~submitted[tr]
      BY <2>0 DEF FreeIsQuiet, ClientKnows
    <2> SUFFICES ASSUME NEW t \in Threads
                 PROVE  /\ reaping[t] # tr /\ arg[t] # tr
                        /\ {Completion(tr), Overlapped(tr)} \cap WaitsFor(t) = {}
      BY <2>1
    <2>2. reaping[t] # tr
      BY <2>0, <2>1 DEF ReapingLocated, ListIsExact, ClientKnows
    <2>3. arg[t] # tr
      BY <2>0 DEF ArgsAllocated, ClientKnows
    <2>4. Completion(tr) # Target(call[t], arg[t]) /\ Overlapped(tr) # Target(call[t], arg[t])
      BY <2>3, TargetLemma, EventsDiffer
    <2>5. ASSUME NEW h \in {Completion(tr), Overlapped(tr)}
          PROVE  h \notin WaitsFor(t)
      <3>1. h # Target(call[t], arg[t]) /\ h # Lock /\ h # Updated
        BY <2>4, EventsDiffer
      <3>2. \A x \in Transfers : h = Overlapped(x) => ~submitted[x]
        BY <2>1, EventsDiffer
      <3>3. CASE pc[t] = "enter"
        BY <3>1, <3>3, WaitsForLemma
      <3>4. CASE pc[t] = "wait"
        BY <2>0, <3>1, <3>2, <3>4, WaitingLemma
      <3>5. CASE pc[t] \notin {"enter", "wait"}
        BY <3>5, WaitsForLemma
      <3> QED
        BY <3>3, <3>4, <3>5
    <2> QED
      BY <2>2, <2>3, <2>5
  <1> HIDE DEF All
  <1> QED
    BY <1>1, <1>2, <1>3, Invariant, PTL DEF Spec

-----------------------------------------------------------------------------
(* The limits of a wait and of the handle array.                           *)

\* Transfers are only added to the list between filling the handles and
\* waiting for them: who would take one out is the reaper itself.
HandlesListed == \A t \in Threads : pc[t] = "filled" => Len(handles) <= 2 + Len(trani)

\* MAXIMUM_WAIT_OBJECTS is a number, chosen once.
LimitChosen == limit \in MaxObjects

\* tran_count is the number of submitted transfers.
LEMMA SubmittedAreListed ==
  ASSUME TypeOK, ListIsExact
  PROVE  Cardinality({tr \in Transfers : submitted[tr]}) = Len(trani)
  <1> DEFINE S == {tr \in Transfers : submitted[tr]}
             n == Len(trani)
  <1>1. trani \in Seq(Transfers) /\ n \in Nat /\ DOMAIN trani = 1 .. n
    BY DEF TypeOK
  <1>2. \A i \in 1 .. n : trani[i] \in S
    BY <1>1 DEF ListIsExact
  <1>3. trani \in [1 .. n -> S]
    BY <1>1, <1>2
  <1>4. \A i, j \in 1 .. n : trani[i] = trani[j] => i = j
    BY <1>1 DEF ListIsExact
  <1>5. \A x \in S : \E i \in 1 .. n : trani[i] = x
    BY <1>1 DEF ListIsExact
  <1> HIDE DEF S
  <1>6. trani \in Bijection(1 .. n, S)
    BY <1>3, <1>4, <1>5 DEF Bijection, Injection, Surjection, IsInjective
  <1>7. IsFiniteSet(1 .. n) /\ Cardinality(1 .. n) = n
    <2>1. n >= 1 \/ n = 0
      BY <1>1
    <2>2. n = 0 => 1 .. n = {}
      OBVIOUS
    <2> QED
      BY <1>1, <2>1, <2>2, FS_Interval, FS_EmptySet
  <1>8. ExistsBijection(1 .. n, S)
    BY <1>6 DEF ExistsBijection
  <1> QED
    BY <1>7, <1>8, FS_Bijection DEF S

LEMMA ListedStep ==
  ASSUME Inv, HandlesListed, [Next]_vars
  PROVE  HandlesListed'
  <1> USE DEF Inv
  <1>0. /\ trani \in Seq(Transfers) /\ Len(trani) \in Nat
        /\ handles \in Seq(Events) /\ Len(handles) \in Nat
        /\ pc \in [Threads -> PC]
    BY DEF TypeOK
  <1>1. ASSUME NEW t \in Threads, FillHandleList(t) PROVE HandlesListed'
    <2>1. Target(call[t], arg[t]) \in Events
      BY <1>1, TargetLemma, EventsDiffer DEF FillHandleList, Located, TypeOK
    <2>2. Len(handles') = 2 + Len(trani) /\ trani' = trani
      BY <1>1, <2>1, HandleListLemma DEF FillHandleList
    <2> QED
      BY <1>0, <2>2 DEF HandlesListed
  <1>2. ASSUME NEW t \in Threads, NEW tr \in Transfers, SubmitTransfer(t, tr)
        PROVE  HandlesListed'
    <2>1. \A u \in Threads : pc'[u] = "filled" => pc[u] = "filled"
      BY <1>2, WakeUpdated DEF SubmitTransfer
    <2>2. handles' = handles /\ Len(trani') = Len(trani) + 1
      BY <1>0, <1>2 DEF SubmitTransfer
    <2> QED
      BY <1>0, <2>1, <2>2 DEF HandlesListed
  <1>3. ASSUME NEW t \in Threads, ReapTransfer(t) PROVE HandlesListed'
    <2>1. pc[t] = "got" /\ \A u \in Threads : pc'[u] = IF u = t THEN "callback" ELSE pc[u]
      BY <1>0, <1>3 DEF ReapTransfer, Goto
    <2>2. \A u \in Threads : u # t => pc[u] # "filled"
      BY <2>1 DEF OneReaper, Reaper
    <2> QED
      BY <2>1, <2>2 DEF HandlesListed
  <1>4. ASSUME NEW t \in Threads, ReleaseLock(t) PROVE HandlesListed'
    <2>1. \A u \in Threads : pc'[u] = "filled" => pc[u] = "filled"
      BY <1>0, <1>4 DEF ReleaseLock, Goto
    <2>2. handles' = <<>> /\ trani' = trani
      BY <1>4 DEF ReleaseLock
    <2> QED
      BY <1>0, <2>1, <2>2 DEF HandlesListed
  <1>5. ASSUME UNCHANGED <<handles, trani>>,
               \A u \in Threads : pc'[u] = "filled" => pc[u] = "filled"
        PROVE  HandlesListed'
    BY <1>5 DEF HandlesListed
  <1>6. ASSUME NEW t \in Threads,
               \/ \E tr \in Transfers \cup {NoTran}, c \in {"run", "wait"} : ReapUntil(t, c, tr)
               \/ ResetEventLoop(t) \/ WaitForHandles(t) \/ WaitFailed(t)
               \/ Return(t) \/ PerformDone(t)
        PROVE  HandlesListed'
    <2>1. UNCHANGED <<handles, trani>>
      BY <1>6 DEF ReapUntil, ResetEventLoop, WaitForHandles, WaitFailed, Return, PerformDone,
                  listVars
    <2>2. \A u \in Threads : pc'[u] = "filled" => pc[u] = "filled"
      BY <1>0, <1>6 DEF ReapUntil, ResetEventLoop, WaitForHandles, WaitFailed, Return, PerformDone,
                  Goto, AfterWait, threadVars
    <2> QED
      BY <1>5, <2>1, <2>2
  <1>7. ASSUME NEW t \in Threads, NEW tr \in Transfers,
               \/ SubmitFails(t, tr) \/ PerformTransfer(t, tr)
               \/ CancelTransfer(t, tr) \/ AllocTransfer(t, tr) \/ FreeTransfer(t, tr)
        PROVE  HandlesListed'
    <2>1. UNCHANGED <<handles, trani>>
      BY <1>7 DEF SubmitFails, PerformTransfer, CancelTransfer, AllocTransfer, FreeTransfer, listVars
    <2>2. \A u \in Threads : pc'[u] = "filled" => pc[u] = "filled"
      BY <1>0, <1>7 DEF SubmitFails, PerformTransfer, CancelTransfer, AllocTransfer, FreeTransfer,
                  Goto, threadVars
    <2> QED
      BY <1>5, <2>1, <2>2
  <1>8. ASSUME NEW t \in Threads, StopEventLoop(t) PROVE HandlesListed'
    <2>1. \A u \in Threads : pc'[u] = pc[u] \/ pc'[u] \in {"unlock", "return"}
      BY <1>8, WakeTarget, EventsDiffer DEF StopEventLoop, TypeOK
    <2>2. \A u \in Threads : pc'[u] = "filled" => pc[u] = "filled"
      BY <2>1
    <2> QED
      BY <1>5, <1>8, <2>2 DEF StopEventLoop, listVars
  <1>9. ASSUME NEW t \in Threads, CallbackReturns(t) PROVE HandlesListed'
    <2>1. \A u \in Threads : pc'[u] = "filled" => pc[u] = "filled"
      BY <1>9, CallbackMoves
    <2> QED
      BY <1>5, <1>9, <2>1 DEF CallbackReturns, listVars
  <1>10. ASSUME NEW tr \in Transfers, NEW r \in {"success", "aborted", "failed"}, Complete(tr, r)
         PROVE  HandlesListed'
    <2>1. \A u \in Threads : pc'[u] = "filled" => pc[u] = "filled"
      BY <1>10, WakeOverlapped DEF Complete
    <2> QED
      BY <1>5, <1>10, <2>1 DEF Complete, listVars
  <1>11. CASE UNCHANGED vars
    BY <1>5, <1>11 DEF vars, listVars, threadVars
  <1> QED
    BY <1>1, <1>2, <1>3, <1>4, <1>6, <1>7, <1>8, <1>9, <1>10, <1>11
       DEF Next, ClientStep, LibraryStep, DeviceStep, RunEventLoop, WaitForTransfer

\* What needs more than a wait takes, or than the array has room for, is the
\* list as it is, so that the number of submitted transfers tells.
LEMMA LimitsStep ==
  ASSUME Inv, HandlesListed, LimitChosen, SafeWithinLimits, [Next]_vars
  PROVE  SafeWithinLimits'
  <1> USE DEF Inv
  <1>0. /\ Len(trani) \in Nat /\ Len(handles) \in Nat /\ capacity \in Nat
        /\ Cardinality({tr \in Transfers : submitted[tr]}) = Len(trani)
    BY SubmittedAreListed DEF TypeOK
  <1>1. CASE UNCHANGED vars
    BY <1>1 DEF vars, listVars, tranVars, SafeWithinLimits
  <1>2. CASE ~crash /\ ~crash'
    BY <1>2 DEF SafeWithinLimits
  <1>3. ASSUME NEW t \in Threads, FillHandleList(t), ~crash, crash', UNCHANGED limit
        PROVE  SafeWithinLimits'
    <2>1. AllocMayFail /\ crash' = (capacity < 2 + Len(trani)) /\ UNCHANGED capacity
      BY <1>3 DEF FillHandleList, HandleCount
    <2>2. capacity < 2 + Len(trani)
      BY <1>3, <2>1, Zenon
    <2>3. UNCHANGED submitted
      BY <1>3 DEF FillHandleList, tranVars
    <2>4. 2 + Len(trani) > capacity
      BY <1>0, <2>2
    <2> QED
      BY <1>0, <2>1, <2>3, <2>4 DEF SafeWithinLimits
  <1>4. ASSUME NEW t \in Threads, WaitFailed(t), UNCHANGED limit
        PROVE  SafeWithinLimits'
    <2>1. Len(handles) > limit /\ Len(handles) <= 2 + Len(trani) /\ UNCHANGED submitted
      BY <1>4 DEF WaitFailed, HandlesListed, tranVars
    <2>2. 2 + Len(trani) > limit
      BY <1>0, <2>1, ConstantsAssumption DEF LimitChosen, ConstantsAssumption
    <2> QED
      BY <1>0, <1>4, <2>1, <2>2 DEF SafeWithinLimits
  <1>5. ASSUME NEW t \in Threads, ~crash, crash', ClientStep(t) \/ LibraryStep(t)
        PROVE  FillHandleList(t) \/ WaitFailed(t)
    BY <1>5 DEF ClientStep, LibraryStep, RunEventLoop, StopEventLoop, ResetEventLoop,
         WaitForTransfer, ReapUntil, SubmitTransfer, SubmitFails, CancelTransfer,
         PerformTransfer, AllocTransfer, FreeTransfer, WaitForHandles, ReapTransfer,
         CallbackReturns, ReleaseLock, Return, PerformDone
  <1>6. ASSUME NEW tr \in Transfers, DeviceStep(tr), ~crash
        PROVE  ~crash'
    BY <1>6 DEF DeviceStep, Complete
  <1> QED
    BY <1>1, <1>2, <1>3, <1>4, <1>5, <1>6 DEF Next

\* Memory is corrupted only with more submitted transfers than a wait takes
\* handles for, or than there was memory for: up to the limit, whatever
\* clients do and however the list changes before and after the handles were
\* collected, WaitForMultipleObjects does not fail and nothing is written
\* behind the array.
THEOREM LimitsSuffice == Spec => []SafeWithinLimits
  <1> DEFINE Limits == HandlesListed /\ LimitChosen /\ SafeWithinLimits
  <1>1. Init => Limits
    BY DEF Init, HandlesListed, LimitChosen, SafeWithinLimits
  <1>2. Inv /\ Limits /\ [Next]_vars => Limits'
    <2>1. LimitChosen /\ [Next]_vars => LimitChosen'
      BY DEF LimitChosen, Next, vars
    <2> QED
      BY <2>1, ListedStep, LimitsStep
  <1>3. Limits => SafeWithinLimits
    OBVIOUS
  <1> QED
    BY <1>1, <1>2, <1>3, Invariant, PTL DEF Spec
=============================================================================
