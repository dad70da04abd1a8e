-------------------------- MODULE TransferService --------------------------
(***************************************************************************)
(* What src/src/libusby.h promises of an asynchronous transfer, whichever  *)
(* backend carries it: every successful libusby_submit_transfer leads to   *)
(* one callback, callbacks of one transfer do not overlap, and the          *)
(* application is told that a transfer is its own again only when nothing   *)
(* of it is left in the library or the kernel.  UsbfsLoop and Win32Reaper  *)
(* implement this specification.                                           *)
(***************************************************************************)
EXTENDS Integers

CONSTANTS
  Threads,      \* threads of the application
  Transfers,    \* transfers
  NoTran        \* no transfer

VARIABLES
  strict,       \* whether the promise about waiting is made, chosen once
  phase,        \* free: not allocated; idle: the application's; busy: not
  due,          \* submissions of a transfer whose callback is still to come
  calling,      \* transfers whose callback runs
  blocked,      \* the transfer a thread waits for
  over          \* the thread's wait is satisfied and will return

serviceVars == <<strict, phase, due, calling, blocked, over>>

ServiceTypeOK ==
  /\ strict \in BOOLEAN
  /\ phase \in [Transfers -> {"free", "idle", "busy"}]
  /\ due \in [Transfers -> Nat]
  /\ calling \subseteq Transfers
  /\ blocked \in [Threads -> Transfers \cup {NoTran}]
  /\ over \in [Threads -> BOOLEAN]

\* Nothing of the transfer is under way.
Quiet(tr) == due[tr] = 0 /\ tr \notin calling

\* The application may be told that the transfer is done.
Settled(tr) == strict => Quiet(tr)

ServiceInit ==
  /\ strict \in BOOLEAN
  /\ phase = [tr \in Transfers |-> "free"]
  /\ due = [tr \in Transfers |-> 0]
  /\ calling = {}
  /\ blocked = [t \in Threads |-> NoTran]
  /\ over = [t \in Threads |-> FALSE]

Alloc(tr) ==
  /\ phase[tr] = "free"
  /\ phase' = [phase EXCEPT ![tr] = "idle"]
  /\ UNCHANGED <<strict, due, calling, blocked, over>>

Submit(tr) ==
  /\ strict => due[tr] = 0
  /\ due' = [due EXCEPT ![tr] = @ + 1]
  /\ phase' = [phase EXCEPT ![tr] = "busy"]
  /\ UNCHANGED <<strict, calling, blocked, over>>

\* The callback of one submission begins.
Deliver(tr) ==
  /\ due[tr] > 0 /\ tr \notin calling
  /\ due' = [due EXCEPT ![tr] = @ - 1]
  /\ calling' = calling \cup {tr}
  /\ UNCHANGED phase \/ (~strict /\ phase' = [phase EXCEPT ![tr] = "busy"])
  /\ UNCHANGED <<strict, blocked, over>>

\* It ends, and with it possibly the waits of the threads W.
CallbackEnds(tr, W) ==
  /\ tr \in calling
  /\ calling' = calling \ {tr}
  /\ \/ W = {} /\ UNCHANGED phase
     \/ /\ strict => due[tr] = 0
        /\ phase' \in {phase, [phase EXCEPT ![tr] = "idle"]}
  /\ over' = [t \in Threads |-> over[t] \/ t \in W]
  /\ UNCHANGED <<strict, due, blocked>>

\* The transfer of a synchronous call ends without a callback.
Finish(tr) ==
  /\ due[tr] > 0 /\ tr \notin calling
  /\ due' = [due EXCEPT ![tr] = @ - 1]
  /\ phase' \in {phase, [phase EXCEPT ![tr] = "free"]}
  /\ (strict /\ phase' # phase) => due'[tr] = 0
  /\ UNCHANGED <<strict, calling, blocked, over>>

\* libusby_wait_for_transfer, which may find the transfer done.
Wait(t, tr) ==
  /\ blocked[t] = NoTran
  /\ blocked' = [blocked EXCEPT ![t] = tr]
  /\ over' \in {over, [over EXCEPT ![t] = TRUE]}
  /\ over' # over => Settled(tr)
  /\ UNCHANGED <<strict, phase, due, calling>>

\* A wait is satisfied.
EndWait(t) ==
  /\ blocked[t] # NoTran /\ Settled(blocked[t])
  /\ over' = [over EXCEPT ![t] = TRUE]
  /\ UNCHANGED <<strict, phase, due, calling, blocked>>

\* A wait returns.
Return(t) ==
  LET tr == blocked[t]
  IN  /\ tr # NoTran
      /\ over[t] \/ Settled(tr)
      /\ blocked' = [blocked EXCEPT ![t] = NoTran]
      /\ over' = [over EXCEPT ![t] = FALSE]
      /\ \/ UNCHANGED phase
         \/ Settled(tr) /\ phase' = [phase EXCEPT ![tr] = "idle"]
      /\ UNCHANGED <<strict, due, calling>>

\* A wait that returns at once, or the end of a synchronous call.
Settle(tr) ==
  /\ Settled(tr)
  /\ phase' \in {[phase EXCEPT ![tr] = "idle"], [phase EXCEPT ![tr] = "free"]}
  /\ UNCHANGED <<strict, due, calling, blocked, over>>

\* Without the promise requests can be lost when a handle is closed.
Lose ==
  /\ ~strict
  /\ due' \in [Transfers -> Nat] /\ \A tr \in Transfers : due'[tr] <= due[tr]
  /\ UNCHANGED <<strict, phase, calling, blocked, over>>

\* First what the application does not see: most steps of a backend.
ServiceNext ==
  \/ UNCHANGED serviceVars
  \/ \E tr \in Transfers :
       \/ Alloc(tr) \/ Submit(tr) \/ Deliver(tr) \/ Finish(tr) \/ Settle(tr)
       \/ \E W \in SUBSET {t \in Threads : blocked[t] = tr} : CallbackEnds(tr, W)
  \/ \E t \in Threads :
       EndWait(t) \/ Return(t) \/ \E tr \in Transfers : Wait(t, tr)
  \/ Lose

ServiceSpec == ServiceInit /\ [][ServiceNext]_serviceVars

-----------------------------------------------------------------------------
(* Properties.                                                             *)

\* A transfer the application may free, fill or submit has nothing under way.
OwnIsQuiet ==
  strict => \A tr \in Transfers : phase[tr] # "busy" => Quiet(tr)

=============================================================================
