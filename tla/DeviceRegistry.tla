--------------------------- MODULE DeviceRegistry ---------------------------
(***************************************************************************)
(* Device objects, their reference counts and the context's device list:   *)
(* src/src/libusby.c with usbyb_get_device_list and usbyb_finalize_device  *)
(* of src/src/os/linux_usbfs.c and of src/src/os/libusb0_win32.c.          *)
(*                                                                         *)
(* ref_count is a plain int: ++ and -- are a load and a store.  Enumeration *)
(* changes it with ctx_mutex held, libusby_unref_device without.  The list *)
(* is kept at the level of its pointers, because Linux unlinks a device    *)
(* without the mutex.                                                      *)
(***************************************************************************)
EXTENDS Integers, Sequences, FiniteSets

CONSTANTS
  Threads,      \* threads of the application
  Addresses,    \* bus and device numbers
  Objects,      \* memory for usbyb_device objects
  ListHead,         \* devlist_head
  NoAddress,    \* address of an object that is not allocated
  NoObject,     \* no object
  NoThread,     \* owner of a free ctx_mutex
  Setups        \* values of setup to look at

\* win32: which backend; threads: those that use the library; atomic: ++ and
\* -- happen to be uninterrupted; allocFails: malloc and realloc can return
\* NULL; devices: the addresses there are; bound: calls that acquire
\* references.
SetupType == [win32 : BOOLEAN, threads : SUBSET Threads, atomic : BOOLEAN,
              allocFails : BOOLEAN, devices : SUBSET Addresses, bound : Nat]


ASSUME ConstantsAssumption ==
  /\ NoAddress \notin Addresses
  /\ NoObject \notin Objects
  /\ ListHead \notin Objects \cup {NoObject}
  /\ NoThread \notin Threads
  /\ Setups \subseteq SetupType

VARIABLES
  setup,        \* chosen once
  next, prev,   \* links of devlist_head and of the objects
  address,      \* busno and devno of an object
  ref_count,
  mutex,        \* holder of ctx_mutex between two steps
  handles,      \* open handles of a device
  extra,        \* references the application took out of lists or by itself
  calls,        \* calls so far
  pc,
  todo,         \* addresses the enumeration has still to look at
  visiting,     \* the address it looks at
  list,         \* device list of the thread, being built or owned
  list_cap,     \* its capacity
  cur, tmp,     \* the object being looked at, and the count loaded from it
  drop,         \* references the thread has to give up
  crash         \* memory of the process was corrupted

linkVars   == <<next, prev>>
sharedVars == <<linkVars, address, ref_count, mutex>>
appVars    == <<handles, extra, calls>>
enumVars   == <<todo, visiting, list, list_cap>>
threadVars == <<pc, enumVars, cur, tmp, drop>>
vars == <<setup, sharedVars, appVars, threadVars, crash>>

Nodes == Objects \cup {ListHead}

PC == {"idle", "enum", "walk", "enumref", "ref", "open", "drop", "store",
       "finalize", "unlink"}

TypeOK ==
  /\ setup \in Setups
  /\ next \in [Nodes -> Nodes]
  /\ prev \in [Nodes -> Nodes]
  /\ address \in [Objects -> Addresses \cup {NoAddress}]
  /\ ref_count \in [Objects -> Int]
  /\ mutex \in Threads \cup {NoThread}
  /\ handles \in [Objects -> Nat]
  /\ extra \in [Objects -> Nat]
  /\ calls \in Nat
  /\ pc \in [Threads -> PC]
  /\ todo \in [Threads -> SUBSET Addresses]
  /\ visiting \in [Threads -> Addresses \cup {NoAddress}]
  /\ list \in [Threads -> Seq(Objects)]
  /\ list_cap \in [Threads -> Nat]
  /\ cur \in [Threads -> Nodes \cup {NoObject}]
  /\ tmp \in [Threads -> Int]
  /\ drop \in [Threads -> Seq(Objects)]
  /\ crash \in BOOLEAN

Goto(t, l) == pc' = [pc EXCEPT ![t] = l]

\* The thread is done with the object it was referencing or dropping.
Forget(t) == cur' = [cur EXCEPT ![t] = NoObject] /\ tmp' = [tmp EXCEPT ![t] = 0]

Live(d) == address[d] # NoAddress

\* Touching the node is touching freed memory.
Dangling(n) == n # ListHead /\ ~Live(n)

\* A thread can call the library.
Outside(t) == pc[t] = "idle" /\ t \in setup.threads

\* The application has one thread.  This stands for any application that
\* serialises its calls: the library keeps nothing per thread.
Serial == \A t, u \in setup.threads : t = u

-----------------------------------------------------------------------------
(* usbyi_append_device_list                                                *)

\* Mutant: no room for the null at the end.
MustGrowLate(t) == list[t] = <<>> \/ Len(list[t]) = list_cap[t]

MustGrow(t) == list[t] = <<>> \/ Len(list[t]) + 1 = list_cap[t]

NewCapacity(t) == IF MustGrow(t) THEN (Len(list[t]) + 1) * 2 ELSE list_cap[t]

AppendTo(t, d) ==
  /\ list' = [list EXCEPT ![t] = Append(@, d)]
  /\ list_cap' = [list_cap EXCEPT ![t] = NewCapacity(t)]

AppendFails(t) == setup.allocFails /\ MustGrow(t)

-----------------------------------------------------------------------------
(* usbyb_get_device_list                                                   *)

Call == calls < setup.bound /\ calls' = calls + 1

GetDeviceList(t) ==
  /\ Outside(t) /\ list[t] = <<>> /\ Call
  /\ todo' = [todo EXCEPT ![t] = setup.devices]
  /\ list_cap' = [list_cap EXCEPT ![t] = 0]
  /\ Goto(t, "enum")
  /\ UNCHANGED <<sharedVars, handles, extra, visiting, list, cur, tmp, drop, crash>>

\* The device's file cannot be opened.
Skip(t, a) ==
  /\ pc[t] = "enum" /\ a \in todo[t]
  /\ todo' = [todo EXCEPT ![t] = @ \ {a}]
  /\ UNCHANGED <<sharedVars, appVars, pc, visiting, list, list_cap, cur, tmp,
                 drop, crash>>

\* The file is open: lock, and walk the list from its first node.
Visit(t, a) ==
  /\ pc[t] = "enum" /\ a \in todo[t] /\ mutex = NoThread
  /\ mutex' = t
  /\ todo' = [todo EXCEPT ![t] = @ \ {a}]
  /\ visiting' = [visiting EXCEPT ![t] = a]
  /\ cur' = [cur EXCEPT ![t] = next[ListHead]]
  /\ Goto(t, "walk")
  /\ UNCHANGED <<linkVars, address, ref_count, appVars, list, list_cap, tmp,
                 drop, crash>>

\* Mutant: pass over devices that are about to be freed.
IsWantedReferenced(t, d) == address[d] = visiting[t] /\ ref_count[d] > 0

IsWanted(t, d) == address[d] = visiting[t]

\* Another device's node: go on to the next one.
Walk(t) ==
  /\ pc[t] = "walk" /\ cur[t] # ListHead /\ ~IsWanted(t, cur[t])
  /\ crash' = ~Live(cur[t])
  /\ cur' = [cur EXCEPT ![t] = next[cur[t]]]
  /\ UNCHANGED <<sharedVars, appVars, pc, enumVars, tmp, drop>>

\* Mutants: unreference a null pointer, forget the list, forget the device.
FailNull(t, more) ==
  /\ drop' = [drop EXCEPT ![t] = <<cur[t]>> \o list[t]]
  /\ list' = [list EXCEPT ![t] = <<>>]
  /\ todo' = [todo EXCEPT ![t] = {}]
  /\ Goto(t, "drop")

FailListLeaks(t, more) ==
  /\ drop' = [drop EXCEPT ![t] = more]
  /\ list' = [list EXCEPT ![t] = <<>>]
  /\ todo' = [todo EXCEPT ![t] = {}]
  /\ Goto(t, "drop")

FailDeviceLeaks(t, more) ==
  /\ drop' = [drop EXCEPT ![t] = list[t]]
  /\ list' = [list EXCEPT ![t] = <<>>]
  /\ todo' = [todo EXCEPT ![t] = {}]
  /\ Goto(t, "drop")

\* The error exit: the references collected so far are given up.
Fail(t, more) ==
  /\ drop' = [drop EXCEPT ![t] = more \o list[t]]
  /\ list' = [list EXCEPT ![t] = <<>>]
  /\ todo' = [todo EXCEPT ![t] = {}]
  /\ Goto(t, "drop")

\* The device is known: it is appended, and referenced with the mutex held.
VisitKnown(t) ==
  LET d == cur[t]
  IN  /\ pc[t] = "walk" /\ d # ListHead /\ IsWanted(t, d)
      /\ visiting' = [visiting EXCEPT ![t] = NoAddress]
      /\ \/ /\ AppendTo(t, d)
            /\ tmp' = [tmp EXCEPT ![t] = ref_count[d]]
            /\ Goto(t, "enumref")
            /\ UNCHANGED <<todo, mutex, cur, drop>>
         \/ /\ AppendFails(t)
            /\ Fail(t, <<>>)
            /\ mutex' = NoThread
            /\ Forget(t)
            /\ UNCHANGED list_cap
      /\ UNCHANGED <<linkVars, address, ref_count, appVars, crash>>

\* usbyi_insert_before_devlist_node(d, devlist_head)
Insert(d) ==
  /\ next' = [next EXCEPT ![d] = ListHead, ![prev[ListHead]] = d]
  /\ prev' = [prev EXCEPT ![d] = prev[ListHead], ![ListHead] = d]
  /\ crash' = Dangling(prev[ListHead])

\* The walk found no node: usbyi_alloc_device, and insertion into the list.
Register(t, d) ==
  /\ pc[t] = "walk" /\ cur[t] = ListHead
  /\ ~Live(d)
  /\ address' = [address EXCEPT ![d] = visiting[t]]
  /\ ref_count' = [ref_count EXCEPT ![d] = 1]
  /\ visiting' = [visiting EXCEPT ![t] = NoAddress]
  /\ Insert(d)
  /\ Forget(t)

\* A new device whose descriptors can be read.
VisitNew(t, d) ==
  /\ Register(t, d)
  /\ AppendTo(t, d)
  /\ mutex' = NoThread
  /\ Goto(t, "enum")
  /\ UNCHANGED <<appVars, todo, drop>>

\* A new device whose descriptors cannot be read or stored, or that cannot be
\* appended.  Linux drops it, with the mutex held, and goes on unless memory
\* ran out: then it returns what it has.  Windows gives up the whole list.
VisitBad(t, d) ==
  /\ Register(t, d)
  /\ IF setup.win32
     THEN Fail(t, <<d>>) /\ mutex' = NoThread
     ELSE /\ drop' = [drop EXCEPT ![t] = <<d>>]
          /\ \/ UNCHANGED todo
             \/ setup.allocFails /\ todo' = [todo EXCEPT ![t] = {}]
          /\ Goto(t, "drop")
          /\ UNCHANGED <<list, mutex>>
  /\ UNCHANGED <<appVars, list_cap>>

\* usbyi_alloc_device clears the object before looking whether it got one.
AllocDeviceFails(t) ==
  /\ setup.allocFails /\ pc[t] = "walk" /\ cur[t] = ListHead
  /\ crash' = TRUE
  /\ UNCHANGED <<sharedVars, appVars, threadVars>>

\* The count an increment or decrement starts from.
Loaded(t, d) == IF setup.atomic THEN ref_count[d] ELSE tmp[t]

\* The count libusby_ref_device stores.
Referenced(t, d) == Loaded(t, d) + 1

\* libusby_ref_device within the enumeration, then the mutex is released.
StoreEnumRef(t) ==
  /\ pc[t] = "enumref"
  /\ ref_count' = [ref_count EXCEPT ![cur[t]] = Referenced(t, cur[t])]
  /\ crash' = ~Live(cur[t])
  /\ mutex' = NoThread
  /\ Goto(t, "enum")
  /\ Forget(t)
  /\ UNCHANGED <<linkVars, address, appVars, enumVars, drop>>

EnumDone(t) ==
  /\ pc[t] = "enum" /\ todo[t] = {}
  /\ Goto(t, "idle")
  /\ UNCHANGED <<sharedVars, appVars, enumVars, cur, tmp, drop, crash>>

-----------------------------------------------------------------------------
(* References of the application.                                          *)

\* The application has a reference that keeps d alive for the call.
Usable(t, d) == handles[d] + extra[d] > 0 \/ \E i \in DOMAIN list[t] : list[t][i] = d

\* libusby_ref_device (l = "ref"), and libusby_open with a successful
\* usbyb_open (l = "open"): both take a reference without the mutex.
Acquire(t, d, l) ==
  /\ cur' = [cur EXCEPT ![t] = d]
  /\ tmp' = [tmp EXCEPT ![t] = ref_count[d]]
  /\ Goto(t, l)
  /\ UNCHANGED <<sharedVars, handles, extra, enumVars, drop, crash>>

StoreRef(t) ==
  LET d == cur[t]
  IN  /\ pc[t] \in {"ref", "open"}
      /\ ref_count' = [ref_count EXCEPT ![d] = Referenced(t, d)]
      /\ crash' = ~Live(d)
      /\ \/ pc[t] = "open" /\ handles' = [handles EXCEPT ![d] = @ + 1] /\ UNCHANGED extra
         \/ pc[t] = "ref" /\ extra' = [extra EXCEPT ![d] = @ + 1] /\ UNCHANGED handles
      /\ Goto(t, "idle")
      /\ Forget(t)
      /\ UNCHANGED <<linkVars, address, mutex, calls, enumVars, drop>>

Drop(t, s) == drop' = [drop EXCEPT ![t] = s] /\ Goto(t, "drop")

\* libusby_close
Close(t, d) ==
  /\ handles[d] > 0
  /\ handles' = [handles EXCEPT ![d] = @ - 1]
  /\ Drop(t, <<d>>)
  /\ UNCHANGED <<sharedVars, extra, calls, enumVars, cur, tmp, crash>>

UnrefDevice(t, d) ==
  /\ extra[d] > 0
  /\ extra' = [extra EXCEPT ![d] = @ - 1]
  /\ Drop(t, <<d>>)
  /\ UNCHANGED <<sharedVars, handles, calls, enumVars, cur, tmp, crash>>

Count(s, d) == Cardinality({i \in DOMAIN s : s[i] = d})

\* libusby_free_device_list with unref_devices = 1.
FreeDeviceList(t) ==
  /\ list[t] # <<>>
  /\ Drop(t, list[t])
  /\ list' = [list EXCEPT ![t] = <<>>]
  /\ UNCHANGED <<sharedVars, appVars, todo, visiting, list_cap, cur, tmp, crash>>

\* With unref_devices = 0 the references become the application's own.
KeepDevices(t) ==
  /\ list[t] # <<>>
  /\ extra' = [d \in Objects |-> extra[d] + Count(list[t], d)]
  /\ list' = [list EXCEPT ![t] = <<>>]
  /\ UNCHANGED <<sharedVars, handles, calls, pc, todo, visiting, list_cap, cur,
                 tmp, drop, crash>>

-----------------------------------------------------------------------------
(* libusby_unref_device, for each reference in drop.                       *)

\* Where a thread goes with one reference less to drop, and the mutex with it.
NextDrop(t) ==
  /\ drop' = [drop EXCEPT ![t] = Tail(@)]
  /\ \/ Len(drop[t]) > 1 /\ Goto(t, "drop") /\ UNCHANGED mutex
     \/ /\ Len(drop[t]) = 1
        /\ Goto(t, IF mutex = t THEN "enum" ELSE "idle")
        /\ mutex' = IF mutex = t THEN NoThread ELSE mutex

LoadUnref(t) ==
  /\ pc[t] = "drop" /\ drop[t] # <<>>
  /\ tmp' = [tmp EXCEPT ![t] = ref_count[drop[t][1]]]
  /\ crash' = ~Live(drop[t][1])
  /\ Goto(t, "store")
  /\ UNCHANGED <<sharedVars, appVars, enumVars, cur, drop>>

\* Mutant: the device is freed with one reference left.
LastReferenceEarly(t, d) == Loaded(t, d) <= 2

\* The reference that was given up is the last one.
LastReference(t, d) == Loaded(t, d) = 1

StoreUnref(t) ==
  LET d == drop[t][1]
  IN  /\ pc[t] = "store"
      /\ ref_count' = [ref_count EXCEPT ![d] = Loaded(t, d) - 1]
      /\ crash' = ~Live(d)
      /\ \/ LastReference(t, d) /\ Goto(t, "finalize") /\ UNCHANGED <<drop, mutex>>
         \/ ~LastReference(t, d) /\ NextDrop(t)
      /\ Forget(t)
      /\ UNCHANGED <<linkVars, address, appVars, enumVars>>

\* Mutant: unlink in the forward direction only.
RelinkPrevNever(d) == prev

\* The first store of usbyi_remove_devlist_node.
RelinkPrev(d) == [prev EXCEPT ![next[d]] = prev[d]]

\* Linux: that store is made without the mutex.
BeginUnlink(t) ==
  LET d == drop[t][1]
  IN  /\ ~setup.win32 /\ pc[t] = "finalize"
      /\ prev' = RelinkPrev(d)
      /\ crash' = (~Live(d) \/ Dangling(next[d]))
      /\ Goto(t, "unlink")
      /\ UNCHANGED <<next, address, ref_count, mutex, appVars, enumVars, cur,
                     tmp, drop>>

\* The second store, and the object is freed.  Windows makes both stores with
\* the mutex held.
Finalize(t) ==
  LET d == drop[t][1]
  IN  /\ IF setup.win32
         THEN /\ pc[t] = "finalize" /\ mutex = NoThread
              /\ prev' = RelinkPrev(d)
         ELSE pc[t] = "unlink" /\ UNCHANGED prev
      /\ next' = [next EXCEPT ![prev[d]] = next[d]]
      /\ crash' = (~Live(d) \/ Dangling(prev[d]) \/ (setup.win32 /\ Dangling(next[d])))
      /\ address' = [address EXCEPT ![d] = NoAddress]
      /\ NextDrop(t)
      /\ UNCHANGED <<ref_count, appVars, enumVars, cur, tmp>>

\* A failed enumeration with nothing collected returns at once.
NothingToDrop(t) ==
  /\ pc[t] = "drop" /\ drop[t] = <<>>
  /\ Goto(t, "idle")
  /\ UNCHANGED <<sharedVars, appVars, enumVars, cur, tmp, drop, crash>>

-----------------------------------------------------------------------------
Init ==
  /\ setup \in Setups
  /\ next = [n \in Nodes |-> ListHead]
  /\ prev = [n \in Nodes |-> ListHead]
  /\ address = [d \in Objects |-> NoAddress]
  /\ ref_count = [d \in Objects |-> 0]
  /\ mutex = NoThread
  /\ handles = [d \in Objects |-> 0]
  /\ extra = [d \in Objects |-> 0]
  /\ calls = 0
  /\ pc = [t \in Threads |-> "idle"]
  /\ todo = [t \in Threads |-> {}]
  /\ visiting = [t \in Threads |-> NoAddress]
  /\ list = [t \in Threads |-> <<>>]
  /\ list_cap = [t \in Threads |-> 0]
  /\ cur = [t \in Threads |-> NoObject]
  /\ tmp = [t \in Threads |-> 0]
  /\ drop = [t \in Threads |-> <<>>]
  /\ crash = FALSE

\* Steps of an enumeration.
Enumerate(t) ==
  \/ \E a \in Addresses : Skip(t, a) \/ Visit(t, a)
  \/ Walk(t)
  \/ VisitKnown(t)
  \/ \E d \in Objects : VisitNew(t, d) \/ VisitBad(t, d)
  \/ AllocDeviceFails(t)
  \/ StoreEnumRef(t)
  \/ EnumDone(t)

\* Steps of giving references up.
Unref(t) ==
  LoadUnref(t) \/ StoreUnref(t) \/ BeginUnlink(t) \/ Finalize(t) \/ NothingToDrop(t)

LibraryStep(t) == Enumerate(t) \/ Unref(t) \/ StoreRef(t)

\* Calls of an application written in C.
ClientStep(t) ==
  \/ GetDeviceList(t)
  \/ /\ Outside(t)
     /\ \/ FreeDeviceList(t)
        \/ KeepDevices(t)
        \/ \E d \in Objects :
             \/ Usable(t, d) /\ Call /\ \E l \in {"ref", "open"} : Acquire(t, d, l)
             \/ Close(t, d)
             \/ UnrefDevice(t, d)

\* The context is no longer used: all threads are outside the library.
AllReleased ==
  /\ \A t \in Threads : pc[t] = "idle" /\ list[t] = <<>>
  /\ \A d \in Objects : handles[d] = 0 /\ extra[d] = 0

Next ==
  \/ /\ ~crash
     /\ \E t \in Threads : LibraryStep(t) \/ ClientStep(t)
     /\ UNCHANGED setup
  \/ (crash \/ AllReleased) /\ UNCHANGED vars

Spec == Init /\ [][Next]_vars

-----------------------------------------------------------------------------
(* Properties.                                                             *)

\* The walk under ctx_mutex and the insertion that follows it belong
\* together: no interleaving registers a device twice, also not one with a
\* device that is on its way out while it is enumerated again.
OneDevicePerAddress ==
  \A d, e \in Objects : Live(d) /\ address[d] = address[e] => d = e

\* The list is circular, its two directions agree, and it runs through the
\* devices that are allocated.  On Windows this holds for any threads, on
\* Linux for an application that serialises its calls.
ListIsIntact ==
  (~crash /\ \A t \in Threads : pc[t] # "unlink") =>
    LET present == {n \in Nodes : ~Dangling(n)}
    IN  /\ \A n \in present : next[n] \in present /\ prev[next[n]] = n
        /\ \A S \in SUBSET present :
             ListHead \in S /\ (\A n \in S : next[n] \in S) => S = present

\* usbyi_append_device_list leaves room for the null that ends the list and
\* that libusby_free_device_list looks for (its assertions).
ListIsTerminated ==
  \A t \in Threads : list[t] # <<>> => Len(list[t]) < list_cap[t]

\* References thread t holds: entries of its list and of a list being freed,
\* apart from one not counted yet and one already given up.
HeldBy(t, d) ==
  Count(list[t], d) + Count(drop[t], d)
    - (IF pc[t] = "enumref" /\ cur[t] = d THEN 1 ELSE 0)
    - (IF pc[t] \in {"finalize", "unlink"} /\ drop[t][1] = d THEN 1 ELSE 0)

\* If calls are serialised, on every path through enumeration, its partial
\* failures included, ref_count is the number of references somebody still
\* has to give up.
RefsAreOwned ==
  Serial =>
    \A t \in setup.threads, d \in Objects :
      Live(d) => ref_count[d] = handles[d] + extra[d] + HeldBy(t, d)

\* Nobody who serialises calls is left with a reference to a freed device.
HeldIsLive ==
  Serial =>
    \A t \in Threads, d \in Objects :
      handles[d] + extra[d] + HeldBy(t, d) > 0 => Live(d)

\* The assertion of usbyb_exit: when everything was given back the context
\* has no devices.
ExitIsClean == AllReleased => next[ListHead] = ListHead

\* It holds for an application that serialises its calls.
SerialExitIsClean == Serial => ExitIsClean

=============================================================================
