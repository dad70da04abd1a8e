# Verification of libusby

TLA+ models of libusby (`src/`), the TLC runs that check them and the TLAPS
proofs about them. Line numbers below refer to `src/src/libusby.c` (C),
`src/src/os/linux_usbfs.c` (L), `src/src/os/libusb0_win32.c` (W) and
`src/src/libusby.hpp` (P).

## 1. The system

libusby is a USB library for user space with one API (`libusby.h`), a common
part (C) and two backends, L for usbfs and W for libusb0.sys.

| Component | State | Operations | Interacts through | What makes it correct |
|---|---|---|---|---|
| Linux transfer engine (L 79-249, 455-558; C 88-174) | `loop_enabled`, `loop_locked`, `watched_fds`, pipe, `active` of each transfer | submit, cancel, wait, bulk transfer, run / stop / reset the event loop, alloc / free | `ctx_mutex`, two kinds of condition variables, the pipe, usbfs's list of finished URBs, callbacks without the mutex | one leader; the leader polls what is outstanding or is about to be woken; a wait returns neither early nor never; a stop is obeyed; the memory of a transfer outlives its URB |
| Windows transfer engine (W 288-652) | transfer list, handle list, `submitted`, events | the same, plus a synchronous path | `hReaperLock` (auto-reset event), completion, stop and list events, `ctx_mutex` | the lock is neither lost nor doubled; the list is exact; no transfer is missed; completion means completion; a wait and a stop end |
| Device objects and lists (C 8-61, 186-300; L 286-440; W 190-266) | `devlist_head`, `ref_count`, lists given to clients | enumerate, ref, unref, open, close, free list, finalise | `ctx_mutex` during enumeration; nothing around `ref_count` | one object per device; counts equal the references held; nobody holds a freed object; nothing is left at exit |
| Context (`usbyb_init`, `usbyb_exit`) | all of the above | init, exit | | the assertion of `usbyb_exit` |
| Synchronous transfers and status (C 88-174, 337-404; L 161-168, 594-635; W 288-384) | transfer fields | fill, perform, submit, wait, cancel, bulk, control | the engines | status, length and result belong to the last request |
| Sessions: claims and configuration (L 538-558, 637-667; W 166-188, 268-286; C 732-770) | `active_config_value` of a handle, claims in the system | open, close, claim, release, get, get cached, set | the device, other programs | the cached value is the device's; closing leaves nothing claimed |
| Descriptors (C 218-335, 386-730; L 560-592) | cached descriptors, the tree being built | parse, look up, convert UTF-16, find a device by its ids | | exactly the well-formed is accepted; memory balances; no byte is written outside; the right device, and only that, stays open |
| C++ wrapper (P) | owned pointers | ref, take, open, clear, copy, assign, enumerate | the C API | each reference is given up once |
| Compatibility macros (`libusb.h`), request layout (`libusb0_win32_intf.h`) | none | | | |

Hard behaviours: the hand-over of the role that reaps (a flag and a condition
variable on Linux, an auto-reset event on Windows); callbacks that submit,
stop or reset while the library's own data is in use further up the stack;
data copied under the mutex and used without it; partial failure of an
enumeration; reference counts without synchronisation; timeouts do not exist
on Linux, so whatever is not woken waits for ever. Nothing is persisted and
there is no network: crashes and lost messages do not arise. `PROJECT.json`
lists each hazard at its line with the properties aimed at it.

## 2. Modules

| Module | Models | Instance for TLC | Proofs |
|---|---|---|---|
| `TransferService` | what the API promises of an asynchronous transfer, with no engine behind it | through the engines | `TransferServiceProofs` |
| `UsbfsLoop` | the Linux engine; implements `TransferService` | `MCUsbfsLoop` | `UsbfsLoopProofs` |
| `Win32Reaper` | the Windows engine; implements `TransferService` | `MCWin32Reaper` | `Win32ReaperProofs` |
| `DeviceRegistry` | device objects of both systems (`win32` says which) | `MCDeviceRegistry` | `DeviceRegistryProofs` |
| `CppWrapper` | applications in C++, on top of `DeviceRegistry` (EXTENDS) | `MCDeviceRegistry` | `CppWrapperProofs` |
| `SyncTransfer` | what a client reads in a transfer, both systems | `MCSession` | `SyncTransferProofs`, `SessionProofs` |
| `Session` | handles, claims, configuration; uses `SyncTransfer` (EXTENDS) for the control transfer that asks the device | `MCSession` | `SessionProofs` |
| `DeviceLookup` | `libusby_open_device_with_vid_pid` | `MCSession` | `SessionProofs` |
| `ConfigParser` | the configuration parser and the search by value | `MCDescriptors` | `DescriptorProofs` |
| `StringDescriptor` | UTF-16 to UTF-8 | `MCDescriptors` | `DescriptorProofs` |

`SessionProofs` and `DescriptorProofs` extend the instances `MCSession` and `MCDescriptors`
and not only the components, in order to prove that what the runs check behaves as each
component; the constants of the instances stay arbitrary there.

The engines and the registry share no state but the context's mutex, which is
free between the steps of one when the other takes it, so they are separate
modules. `SyncTransfer` reduces an engine to one step (`Reap`), which is what
`ImplementsService` justifies: one callback for each submission, and no wait that
ends before it. An operator whose comment begins with "Mutant" is a wrong
version of the one after it; section 5 says what it is for.

### TransferService and the refinement

A transfer is free, idle (the application's) or busy; `due` counts its submissions
whose callback has still to begin, `calling` has the transfers whose callback
runs, `blocked` says what a thread waits for and `over` that its wait is bound
to return. With `strict`, a transfer is given back (by a wait, by the end of a
callback or of a synchronous call) only when nothing of it is due or running.

`Win32Reaper` implements the strict service: `due` is `submitted`, or 1 while a
synchronous call holds its own request; `over` are threads on their way out of
`usbyi_win32_reap_until`. `UsbfsLoop` maps `due` to the URB in the kernel, on the list of
finished ones, or reaped and not yet called back. Its `strict` is the discipline
`loopFirst`, that clients submit only while an event loop runs: without it waits return
early (finding 1). The service lets a strict application submit again as soon as
the callback has begun, which is what both engines allow.

### UsbfsLoop

A step is what a thread does between two points where another thread or the
kernel can notice it. The code under `ctx_mutex` is one step unless it
makes a system call with the mutex held: then `mutex` names the holder and
the step is split (`SubmitUrb` / `SubmitDone`, `StopEventLoop` / `StopDone`).
`pc` says where a thread is inside a call:

| `pc` | place in the code |
|---|---|
| `idle`, `callback` | outside the library; in a callback of the leader (L 176) |
| `submit`, `stop` | after the ioctl (L 511) and before the write (L 520); before the write of L 238 |
| `wait` | between submit and wait in `libusby_perform_transfer` |
| `ctxwait` / `ctxwoken` | in, or woken from, the wait of L 110 |
| `tranwait` / `tranwoken` | the same for L 225 |
| `poll`, `scan`, `reaped`, `relock`, `failed` | in `poll`; the loop of L 150; URB reaped, before L 170; before L 198 with r >= 0, and with r < 0 |

`call` and `arg` are the API call and its transfer, `pollfds` is the leader's
copy of the table, `ready` the indices in it with `POLLOUT` that the loop has not
come to, `reaping` the transfer being delivered. `client` is not in the
code: it is what the application may believe of a transfer, and guards
its calls the way the API expects (no transfer is submitted twice, freed while
pending, or freed while somebody waits for it).
`crash` is set when the code touches freed or null memory; behaviour ends there.

Abstractions: buffers, lengths, status and the kind of transfer are left
out (a control transfer on Linux is one system call, L 598-632, without state). A
handle is its descriptor; a device that was opened again has the same one. A transfer
without a callback is one whose callback does nothing, except for the transfer of
`libusby_bulk_transfer`. Callbacks submit, cancel, stop, reset, but do not wait,
run a loop or free: waiting for its own transfer blocks a callback for ever.

Client disciplines: the constant `QuietReset` (reset only when nobody is in
the loop; what depends on it is in section 6), and `loopFirst`, chosen once from the constant `LoopFirst` (submit only
while an event loop runs).

### Win32Reaper

`signalled` is the set of signalled events. A thread blocked in
`WaitForMultipleObjects` is at `enter` (W 617) or `wait` (W 591), and `WaitsFor`
gives the events it waits for. `SetEvent` of a manual-reset event releases every
thread that waits for it, at that moment, as Windows does, even if the event
is reset before they run; setting `hReaperLock` releases exactly one. The handle
array is filled in one step under the mutex (`FillHandleList`); the wait, the
search of the list (W 602), the reaping and the code after the callback are steps
of their own. `io` is the driver's view of a request: pending, being aborted, or
ended with one of three results. Everything between W 405 and W 430 is one
step, since all other users of that state take the mutex too.

Abstractions: `usbyb_prepare_transfer_submission` only chooses the control
code, and its errors return before anything changes.
The doubly linked list is a sequence. `libusby_perform_transfer` is
modelled for the transfers of the library's synchronous calls; for those of
clients `SyncTransfer` has it. With more handles than `MAXIMUM_WAIT_OBJECTS` the code uses
`WAIT_FAILED` as an index (`WaitFailed`): `crash`. When the reallocation fails the code
goes on with the old array, and `crash` tells whether it was too small.

### DeviceRegistry

The load and the store of `++ref_count` and `--ref_count` are separate steps;
`tmp` is the value loaded (`setup.atomic` merges them, for the run that is about
something else). The context's list has its two directions, `next` and `prev`: the
walk of an enumeration is one step per node, and Linux, which unlinks without the
mutex, makes its two stores in two steps. Enumeration looks at the addresses in any
order; a device may be missing, known, new, or new with unreadable descriptors
(`VisitBad`), and memory may run out. `drop` is the list of references a thread is
giving up: a list being freed, or the error path of an enumeration. `handles` and
`extra` count what the application owns. A thread owns at most one list at a time.
`Objects` is memory: an object can be allocated again after it was freed, which
lets a stale pointer reach a different device. `setup` chooses system, threads and
faults at the start. Opening fails without effect on the state, so
only the success is modelled.

### CppWrapper

A C++ statement changes the wrapper objects at once and leaves in `script` the calls it
makes, which `DeviceRegistry`'s actions then carry out one by one: an assignment is a
reference to the new device and an unreference of the old one, `try_open` opens before
it closes, `get_device_list` references each entry through a temporary and its copy,
and the guard frees the C list also when `reserve` throws (`FillThrows`). C++
applications have one thread; the library keeps nothing per thread, so this
stands for any that serialise their calls.

### SyncTransfer

`tran` is the transfer the client reads, `urb` the last request: whether it is
pending, how it ended and how much it moved. The three functions that write status and
length are operators: `Reaped` (L 163-168), `Controlled` (L 610-629) and
`Finished` (W 288-309). `loop_runs` says whether somebody else runs an event loop.
Linux performs control requests itself and submits the others; Windows performs
all of them. Callbacks are left to the engines' modules; that `libusby_perform_transfer` makes one for
a control transfer on Windows (W 381) and none on Linux (L 631) is not modelled.
Buffers are reduced to `payload`: whose bytes the data part of a control transfer holds.

### Session

`claimed` maps an interface to the file that claimed it: on Linux that of a handle, on
Windows the device's, which all handles share. The system refuses to set a
configuration while an interface is claimed, and for other reasons.
`libusby_set_configuration` is two steps on Linux, the system call and the assignment of
`active_config_value`; getting reads the value, or asks the device with the outcomes of
`SyncTransfer`. The Windows driver may answer with no byte, which the code
takes for a value (`Unwritten`). `lastSetter` and `raced` are not in the code: they say
who set the configuration last, and which handles two threads set it with at once.

### ConfigParser, StringDescriptor, DeviceLookup

The parser's step is one descriptor. A descriptor is its kind, whether its length is
right, and for an interface its numbers and how many endpoints it announces. What is
read may be the configuration, or cut between or inside descriptors. `heap` is the
set of blocks allocated; `faults` that something failed on the way; an endpoint that has
no room sets `crash`. `current` is a number instead of the pointer `intf_desc`: the
pointer is always to the altsetting of the last reallocation, which nothing moves
before the next interface descriptor.

`StringDescriptor` encodes real code units into bytes, because the findings and the
properties are about lengths and boundaries. `DeviceLookup` has a list of devices that match
or not and whose descriptor is cached or not. Opening, reading through the handle and closing are
as in the code; opening and reading may fail at each device, and `ref_count` has the list's and the
handle's references. The length of a reply to GET_DESCRIPTOR is not looked at, only its first byte
(C 314-322), so that one that came in part is cached with whatever was on the stack: `says` is
what the cached descriptor then tells, and `LookupIsExact` excepts these devices.

## 3. Properties

One type invariant in each instance, except for `MCDescriptors`, whose types are proved
only (`MCTypeCorrect`), and:

* `UsbfsLoop`: `OneLeader`,
  `PollIsWoken`, `OutstandingIsWatched`, `IndexStaysValid`; `SleepersAreOwed` (no broadcast is
  missed: who sleeps on a condition variable has somebody left to wake it);
  `ImplementsService` (every submission has its one callback, and, for clients that keep
  `loopFirst`, no wait or free comes before it); the liveness properties `LoopReaps`, `StopEndsLoop`,
  `FollowerReturns`; and the two that the code does not have, `FreedIsUnused`
  and `SubmitIsAsynchronous`.
* `Win32Reaper`: `OneReaper`, `ListIsExact`, `NothingIsMissed`, `HandlesFit`,
  `SafeWithinLimits` (memory is corrupted only by one transfer more than a wait or the memory for
  the handles allows), `StatusIsFresh`, `CancelIsSelective` (with `CancelIoEx`), `FreedIsUnused` (memory given back is used by no
  request and no thread, and nobody sleeps on an event in it), `ImplementsService`;
  `WaitReturns` and `StopEndsLoop`.
* `DeviceRegistry`: for threads that race, `OneDevicePerAddress`, `ListIsIntact`,
  `ListIsTerminated`; for serialised calls, `RefsAreOwned`, `HeldIsLive`,
  `SerialExitIsClean`. `ExitIsClean`, the same for all applications, does not hold.
* `CppWrapper`: `WrappersOwnRefs`.
* `SyncTransfer`: `StatusTellsOutcome`; `OutDataIsSent` does not hold.
* `Session`: `ConfigCacheIsOwn`, and the action property `GetIsCurrent`.
* `DeviceLookup`: `LookupIsExact`.
* `ConfigParser`: `ParsesExactly`, `OnlyStraysCorrupt`, `NothingLeaks`.
* `StringDescriptor`: `PlainTextIsRight`, `RefusesUnpaired`; `EncodeHasRoom` does not hold.

`ParsesExactly` and `PlainTextIsRight` compare the code with definitions made without
it: `WellFormed` says by position which interface an endpoint belongs to and counts,
and `Utf8Text` encodes as the standard does. `PlainTextIsRight` excludes what the code
gets wrong: pairs, which lose 0x10000 and pass over bytes, and the code points 0x7f,
0x7ff and 0xffff, which are encoded as if they were one larger class.
`StatusTellsOutcome` likewise names its exceptions: Linux keeps the failure of an
earlier use, and waits for nothing if no loop ran.

Fairness. `UsbfsLoop!FairSpec` is weak fairness of the steps inside a call
(`LibraryStep`): a thread inside the library is scheduled, gets the mutex, and
callbacks return. Nothing is assumed of the device, of spurious wake-ups, of failing
polls or of the application, because none of them is under the library's control.
`Win32Reaper!FairSpec` adds that a request ends: every request
is sent with `default_timeout`. No fairness is assumed of who gets the reaper lock.
The other modules state no liveness: their calls are loops over finite data.

## 4. Runs

| Run | Instance | Shows |
|---|---|---|
| `linux_safe` | 2 threads, 2 transfers on 2 devices, 3 submit/stop calls, pipe of 3, failing `realloc`, clients with and without `loopFirst` | for clients that reset the loop only when nobody leads it (`QuietReset`), leader, wake-ups and table are right; the service is implemented |
| `linux_live` | 2 threads, 1 transfer, fairness | reaping, stop and followers make progress |
| `linux_bulk` | without `loopFirst` | **violated**: see finding 1 |
| `linux_pipe` | pipe of 2, 4 calls | **violated**: see finding 2 |
| `win32_safe` | 3 threads, 2 transfers, no `CancelIoEx`, failing `realloc`, arrays from 2 handles up | lock, list, status and handle array are right; nothing freed is in use |
| `win32_live` | 2 threads, 2 transfers, `CancelIoEx`, fairness, 64 or 3 handles per wait, failing `realloc` | waits and loops end; the service is implemented; cancelling is selective; memory is safe up to the limits |
| `registry` | 1 thread, 3 devices, 3 acquiring calls, failing `malloc`, both systems, C and C++; and 2 threads, 2 devices, Windows | partial failures and wrappers keep counts right; races register nothing twice and keep the list whole |
| `registry_unlink` | 2 threads, 2 devices, Linux, counts never torn | **violated**: see finding 3 |
| `descriptors` | bodies of 3 descriptors of any kind or 5 usual ones, up to 3 configurations, strings of 3 units, buffers of 0 to 6 bytes, cut reads and failing allocations | parser and translation are right |
| `strings` | the same strings | **violated**: see finding 4 |
| `session` | 2 threads, 2 handles, 2 interfaces, 3 configuration values, 7 calls; 1 transfer and 4 requests of up to 2 bytes; lists of 4 devices | cache, status and lookup are right, on both systems |
| `control_out` | 1 thread, 2 requests | **violated**: see finding 5 |

`descriptors` and `session` hold two and three machines that share no step: a behaviour
is about one of them (`topic` in `MCSession`, the empty request in `MCDescriptors`),
so that the states add up instead of multiplying.

Bounds. `MaxCalls` bounds submissions and stops (or acquisitions), which makes
the state finite. Three calls suffice for a transfer that is submitted, submitted
again by its callback and overtaken by a stop or by another transfer, and two threads
for a leader and a follower; on Windows a third thread can queue
while the lock passes between two others. `PipeCap` stands for the capacity of
a pipe, 65536 on Linux: the argument of finding 2 needs that many submissions during
one callback, or one more per iteration than the byte that is read. `MinHandles`
is 4 in the code; 2 in `win32_safe` lets the array grow twice with two
transfers, which takes five with 4. `MaxObjects` is 64 in Windows; 3 lets two transfers
exceed it. Three devices are what the list needs to grow twice, and what makes one
with two neighbours. The parser compares a count with a number and an altsetting with its
position: bodies of five, out of which two altsettings of one interface, two interfaces and two
endpoints of one altsetting can be made, have every order of them. Characters of one to three
bytes and a pair, in buffers up to six, place the end of the buffer at every offset inside a character. Seven
calls are open, set and get with two handles and one to spare. Threads are symmetric, and transfers, addresses and objects where no
constant tells them apart; runs of liveness use no symmetry.

`CHECK_DEADLOCK FALSE` is set for `Win32Reaper`, whose threads may all sit in
the event loop with nothing submitted until somebody else calls stop,
for `linux_pipe`, where the library really stops, and for `descriptors`, `strings`,
`session` and `control_out`, whose calls come to an end.

### Findings

1. Without a running event loop `libusby_bulk_transfer` (and submit followed by
   wait) returns before the transfer is done and frees it while the kernel has
   its URB: `active` is set only if `loop_locked` (L 517-522), and the loop that
   wait then enters ends at once since `active` is 0 (L 113).
2. The pipe is blocking and written with the mutex held (L 520, L 238). When it
   is full, a submission from a callback blocks the thread that would read it.
3. Linux unlinks a device without the mutex (L 437), where Windows takes it (W 261). Two
   neighbours freed at once leave a freed node in the list: the assertion of
   `usbyb_exit` (L 278) fails although everything was given back.
4. The loop that translates a string compares the length of the last character with
   the size of the buffer (C 476). When the buffer is full and characters remain,
   `encode_utf8` is called without room, against its assertion (C 418).
5. `libusby_control_transfer` never copies the caller's data into the buffer it sends
   (C 347-364), so that a transfer to the device sends uninitialised memory, and
   overwrites the caller's data afterwards (C 375); libusb-1.0's function of the
   same name, which `libusb.h` maps to this one, sends it.

Met on the way, and without a run of their own: `ref_count` is not protected (C 205, C 211),
so that racing threads can lose a decrement and leave a device listed at exit, or lose an increment and
free one in use, which is why `RefsAreOwned` and its companions are about serialised calls. Every submission
under a running loop writes to the pipe, also when the leader polls the descriptor already
(L 517-520), although the project's README promises no spurious wake-ups.

## 5. Mutants

For each property of each passing run `PROJECT.json` names a mapped
definition and a mutant of it, a change of the kind one makes by mistake (a test
left out, a reset forgotten, a count that starts wrong). With the mutant in place of the
definition, the run finds the property violated.

## 6. Proofs

53 theorems in eight modules, for all values of the constants, from the named
assumption of each module alone.

`UsbfsLoopProofs`, for every number of threads, transfers and descriptors:

* `TypeCorrect`: `Spec => []TypeOK`.
* `IndicesStayValid`: `Spec => []IndexStaysValid`.
* `LeaderIsUnique`: `QuietReset => (Spec => []OneLeader)`.
* `NothingUnwatched` (`OutstandingIsWatched`) and `WaitsForSomething` (`ActiveIsOwed`: a transfer
  marked active has a URB, or a thread that delivers it).
* `LeaderIsWoken` (`PollIsWoken`) and `EngineImplementsService`
  (`ImplementsService`), under `QuietReset`.
* `SleepersAreWoken` (`SleepersAreOwed`), whatever clients do.
* `OwnedIsQuiet` (`OwnIsUnused`: what a `loopFirst` client may free, fill or submit is used by
  no URB and no thread), under `QuietReset`; and `MemoryIsSafe`, that
  clients who also keep `loopFirst` never make the engine touch freed or null memory if
  `realloc` does not fail.
* `PipeHasRoom`: until there were more submits and stops than the pipe has bytes, no write
  to it blocks and `SubmitIsAsynchronous` holds.

The first two follow from the inductive invariant `Inv`, the conjunction of
`TypeOK`, `Located` (where a thread is tells what it is delivering or
submitting; without it the delivery code could be applied to no transfer) and `Prefix`.
`IndexStaysValid` alone is not inductive: the leader copies the table, and whether
indices into the copy are still right after submissions and deliveries depends
on the table only ever growing. `Prefix` says that: the copy is a prefix of
the table and no refcount is positive, so that `usbfs_unwatch_fd` changes a refcount and
removes nothing. The property thus rests on the watch count being 0 at the start;
the mutant `NewEntryCounted` shows what happens otherwise.

`OneLeader` is not inductive either: `Led` adds that while the loop is enabled
`loop_locked` is set whenever somebody leads. A thread that enters a disabled
loop clears the flag of a leader that has not noticed yet, so `Led` survives a
reset only if nobody leads then, which is `QuietReset`. There is one lemma for
each action and invariant, or group of actions that treat it alike.

`ActiveIsOwed` needs `Owed`: the mutex is held across a system call by the thread that
makes it (`Held`), a submission in progress has its URB (`SubmitOwed`), and an active
transfer is the engine's until the thread that delivers it marks it (`ActiveOwed`), so that its handle
stays open. `PollIsWoken` is inductive as `Woken`: whoever makes a reason to wake the
leader still holds the mutex, and `loop_locked` tells him that he must write. The
refinement is one lemma per kind of step: each is a step of `TransferService`,
or changes nothing that is mapped. `Calls` says which call a thread can be in at each `pc`, and `Strict`
that under `loopFirst` a transfer has at most one URB due and is then active or about to be.

`SleepersAreOwed` needs to know why a thread slept: because the loop was enabled
(`CtxAsleep`) or the transfer active (`Asleep`). A transfer stops being active only with the
broadcast that wakes its sleepers, a loop stops being enabled only with that of the
stop; and what is active is owed by `WaitsForSomething`. `Waits` says that the transfer a
thread sleeps for stays allocated, which is the client's duty and the bulk transfer's own.
`MemoryIsSafe` is `OwnIsUnused` at the two places where the leader follows the pointer of a
URB. `PipeHasRoom` pays each byte in the pipe with a call (`Paid`); whoever holds the
mutex to write one has paid already. It bounds finding 2 from the other side: shorter
sequences of calls cannot block.

`QuietReset` is no convenience of the proofs. TLC, without it, finds `OneLeader`,
`PollIsWoken`, `ImplementsService` and `OwnIsUnused` violated: while a stopped leader is
still in a callback or on its way out, a thread that enters and leaves the disabled loop clears
its flag, a reset then lets a second leader in, and the two can be in callbacks of the same
transfer at once. The other
properties of the engine hold without it, and their theorems have no hypothesis.

`Win32ReaperProofs`, for every number of threads and transfers and every
`MaxObjects`: `TypeCorrect`, `ReaperIsUnique` (`OneReaper`), `ListCorrect`
(`ListIsExact`), `NothingMissed` (`NothingIsMissed`), `HandlesAlwaysFit`
(`HandlesFit`), `LimitsSuffice` (`SafeWithinLimits`), `StatusFresh` (`StatusIsFresh`), `CancelSelective`
(`CancelIsSelective`, of the systems that have `CancelIoEx`),
`EngineImplementsService` (`ImplementsService`) and `FreedMemoryIsUnused` (`FreedIsUnused`),
without a hypothesis about the clients.
They have one invariant, whose parts lean on each other: the reaper does not miss
a request (`NothingIsMissed`) because the handles it sleeps on are those of submitted
transfers (`HandlesRight`), and all of them or the update event will tell (`AllListed`);
an event is signalled exactly when its request has ended (`EventsTell`); and nobody
else touches the handles because the lock is neither lost nor doubled (`OneReaper`), for which
`Located` says where each thread is. `ClientKnows` ties what a client believes of a transfer to
what the library has. For what was freed it is not enough to know of the client:
`ArgsAllocated` says that a thread in a call keeps its transfer, and
`ReapingLocated` that a thread has one to reap only while it delivers it. `LimitsSuffice` counts: nobody
takes a transfer off the list between the filling of the handles and the wait for them (`HandlesListed`), so
they are never more than the submitted transfers, the target and the update event.

`DeviceRegistryProofs`, for every number of threads, addresses and objects. For all
applications in C: `TypeCorrect` and `ListTerminated`
(`ListIsTerminated`). Under `Ordered` (Windows, or calls that are serialised):
`DevicesAreUnique` (`OneDevicePerAddress`) and `ListStaysIntact` (`ListIsIntact`). For
serialised calls: `RefsOwned`, `HeldLive`, `SerialExitClean`, and `SerialIsSafe`, that memory is
corrupted only if `malloc` fails, and then only by `usbyi_alloc_device`, which clears the object
before it is known whether there is one (C 55-56; `AllocDeviceFails`). `Linked` says that the
pointers are a sequence of objects, `Chain`, in both directions; a step that links or unlinks
changes the sequence, and everything about pointers follows from it
(`InsertChain`, `RemoveChain`). `Walked` says that the walk of an enumeration has met
only other addresses, which holds because nobody inserts while
the mutex is held. For the counts, `Balanced` is `RefsAreOwned` and `HeldIsLive`
together with what a count of 0 means (the thread that gave up the last reference is about to
free the device), and `Fresh` says that a count that was loaded is still the count.

`CppWrapperProofs`, for any finite number of C++ objects: `CppTypeCorrect` (`CppTypeOK`), `WrappersOwn`
(`WrappersOwnRefs`) and `CppSafe`, that what is proved of applications in C holds for those in
C++, the memory corrupted only by a failed `malloc` included. The latter need no proof about the registry: every call a destructor or an assignment makes is
one of those `DeviceRegistry` allows, so its steps are among those (`AnyNext`) the registry's lemmas are
about. That needs the former, because a call is allowed only with a reference of one's own.
`WrappersOwnRefs` speaks of the moments between two statements and is not inductive; `Conserved`
is the balance of references and handles within a statement, which counts the calls
still to make and those under way; `CoveredAt` says that a device is referenced or opened while
something else keeps it; `ScriptAt` that a statement with calls to make does not enumerate; and
`Unused` that in an application in C the objects hold nothing. As in the model, applications
in C++ serialise their calls.

`TransferServiceProofs`: `OwnTransfersAreQuiet`, that a strict service gives
a transfer back only when nothing of it is under way. `OwnIsQuiet` is inductive together with
`ServiceTypeOK` (`ServiceTypeCorrect`): every step that hands a transfer back requires it settled,
and a new submission makes it busy first. With the two refinements this is what
applications get from the engines.

`SyncTransferProofs`: `StatusIsRight` (`StatusTellsOutcome`), for any number of requests and bytes. The invariant relates the
transfer to the request at every moment, not only after a wait: a pending request is
new, and active exactly if somebody will reap it (`PendingIsNew`); one that was answered is what
the transfer tells of (`DoneIsTold`); and a bulk length is never more than was moved (`BulkLength`).

`SessionProofs`: `CacheIsOwn` (`ConfigCacheIsOwn`) and `GetsAreCurrent`
(`GetIsCurrent`), for any number of threads, handles and interfaces. The invariant adds what a thread
between the system call and the assignment will store (`SettersAgree`): if it is the only one
with its handle and nobody has set since, it is the device's value. `NobodySet` says that nothing is
cached or about to be before the configuration is first set, and `OnlyLinuxStores` that the
Windows backend keeps no value.

The same module has `LookupTypeCorrect` and `LookupCorrect` (`LookupIsExact`) of
`DeviceLookup`, for lists of any length.
`Balance` gives each device's handles and references at each point of the three loops, `Searched`
says that devices behind the position were missed, do not match, or gave a part of a descriptor.

The runs check these three machines side by side. `MCImplementsParts` proves that a behaviour of
`MCSession` is one of `SyncTransfer`, of `Session` and of `DeviceLookup`, so that all of the
above is about what the runs check, and `MCTypeCorrect` (`MCTypeOK`) follows. The only shared
variable is `backend`, which no step changes (`BackendStays`).

`DescriptorProofs`, for configurations of any length: `MemoryBalances` (`NothingLeaks`),
`ParserTypeCorrect`, `ParserIsExact` (`ParsesExactly`) and `StraysCorrupt`
(`OnlyStraysCorrupt`). `MemoryIsOwned` says which memory is in use at each
stage: none between configurations, the bytes before parsing, then a part of bytes and tree. The one
error exit is right because freeing is taking the tree away (`FreeIsTree`), however much of it
was built; `ReadIsNext` and `NoneSoFar` add that the value returned is the first that fits.
`Judged` says that the parser has gone on exactly while what it read is well formed
(`WellFormedSoFar`, which is `WellFormed` cut at a position); `InPlace`, `Open` and `Closed`
relate the altsettings behind the position to the tree, the last of them still short of
endpoints. The counting is of sets of positions, each endpoint belonging to the last interface
descriptor before it.

The same module has, for strings and buffers of any length, `StringTypeCorrect`,
`UnpairedIsRefused` (`RefusesUnpaired`), `PlainTextTranslated` (`PlainTextIsRight`) and
`RoomSuffices`. `HalvesMatch`
says that surrogates behind the position are paired but for one that `high_surrogate`
remembers, so that one variable is enough to refuse exactly what is unpaired.
`StaysInRoom` and `TextSoFar` say what is in the buffer: between characters nothing beyond
it, and for plain text what `Utf8Text` has up to the position, cut at the end. That the
loop may then stop early is right because the text of a part is a prefix of that of the whole
(`TextIsPrefix`). `RoomSuffices` delimits finding 4: with four bytes for each code unit
`EncodeHasRoom` holds, for text of any kind, because every unit adds at most
four (`RoomAsked`), the bytes passed over after a high surrogate included. Its `MCImplementsParts` and
`MCTypeCorrect` say of `MCDescriptors` what those of `SessionProofs` say of `MCSession`.

The theorem library's induction cannot be instantiated with the provers used, so these
proofs argue with a least counterexample (`LeastNat`), which follows from the
well-foundedness of finite sets.

Only model-checked: the five liveness properties, which argue with fairness and
ENABLED, out of the prover's reach; and what is expected to be violated. Every invariant and
every action property of a passing run is a theorem. `ActiveIsOwed` and `OwnIsUnused` are
defined with their proofs and have no run: the first is what `SleepersAreOwed` rests on, the
second follows from `ImplementsService` and `OwnTransfersAreQuiet`.

## 7. Not modelled, and the plan

Not modelled: error paths of `usbyb_init`; the walk through `desc_cache` (L 565-592)
and `libusby_get_config_descriptor_cached`, which repeats C 618-641 on it; copying a
`device_handle` and clearing a `context` twice (P 128-234), where the class misses a
member or an assignment and no sequence of steps is needed to see it; replugging of devices on Windows
(W 209), of which the library sees a number only; compatibility macros and
request layouts (no behaviour); timeouts of single transfers (the code does not
use the `timeout` field).

What is left: nothing of the plan. `TransferService` for clients who reset a loop that
is still led was dropped: with two leaders callbacks of one transfer overlap, so
there is no service of this kind to implement (section 6), and the theorems without
`QuietReset` say what remains.
