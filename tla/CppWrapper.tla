----------------------------- MODULE CppWrapper -----------------------------
(***************************************************************************)
(* An application that uses devices through src/src/libusby.hpp: objects of *)
(* class device and device_handle and a device_list own references that    *)
(* DeviceRegistry counts.  A C++ statement changes the objects and makes a  *)
(* few calls of the C library, one after the other; script is what is left *)
(* of them.                                                                *)
(***************************************************************************)
EXTENDS DeviceRegistry, SequencesExt

CONSTANTS
  Variables,    \* objects of class device
  HandleVars    \* objects of class device_handle

\* A program has so many objects.
ASSUME WrapperAssumption == IsFiniteSet(Variables) /\ IsFiniteSet(HandleVars)

VARIABLES
  cpp,          \* whether the application is written in C++, chosen once
  m_dev,        \* device::m_dev
  m_handle,     \* device_handle::m_handle: the device it was opened on
  devices,      \* a device_list: the m_dev of its elements
  script,       \* calls the current statement has still to make
  filling       \* context::get_device_list has called the C function

wrapperVars == <<cpp, m_dev, m_handle, devices, script, filling>>

CallType == [op : {"ref", "unref", "open", "close", "free"},
             dev : Objects \cup {NoObject}]

CppTypeOK ==
  /\ TypeOK
  /\ cpp \in BOOLEAN
  /\ m_dev \in [Variables -> Objects \cup {NoObject}]
  /\ m_handle \in [HandleVars -> Objects \cup {NoObject}]
  /\ devices \in Seq(Objects)
  /\ script \in Seq(CallType)
  /\ filling \in BOOLEAN

CallOf(op, d) == IF d = NoObject THEN <<>> ELSE << [op |-> op, dev |-> d] >>

\* Destruction of the elements of a device_list.
UnrefAll(s) == [i \in DOMAIN s |-> [op |-> "unref", dev |-> s[i]]]

\* The thread is between two statements.
Between(t) == Outside(t) /\ script = <<>> /\ ~filling

-----------------------------------------------------------------------------
(* class device.                                                           *)

\* Mutant: release the old device before the new one is referenced.
AssignmentUnrefFirst(old, new) == CallOf("unref", old) \o CallOf("ref", new)

\* operator= takes a copy, swaps with it and destroys it.
Assignment(old, new) == CallOf("ref", new) \o CallOf("unref", old)

\* v = w for another variable, for v itself, or for an element of a list.
Assign(t, v, d) ==
  /\ Between(t)
  /\ d \in {m_dev[w] : w \in Variables} \cup {devices[i] : i \in DOMAIN devices}
  /\ m_dev' = [m_dev EXCEPT ![v] = d]
  /\ script' = Assignment(m_dev[v], d)
  /\ UNCHANGED <<vars, cpp, m_handle, devices, filling>>

\* device::clear, also by the destructor.
Clear(t, v) ==
  /\ Between(t) /\ m_dev[v] # NoObject
  /\ m_dev' = [m_dev EXCEPT ![v] = NoObject]
  /\ script' = CallOf("unref", m_dev[v])
  /\ UNCHANGED <<vars, cpp, m_handle, devices, filling>>

-----------------------------------------------------------------------------
(* class device_handle.                                                    *)

\* try_open: open the new handle, then close the old one.
Reopening(old, d) == CallOf("open", d) \o CallOf("close", old)

\* When libusby_open fails nothing changes, so only success is a step.
Open(t, h, v) ==
  /\ Between(t) /\ m_dev[v] # NoObject
  /\ m_handle' = [m_handle EXCEPT ![h] = m_dev[v]]
  /\ script' = Reopening(m_handle[h], m_dev[v])
  /\ UNCHANGED <<vars, cpp, m_dev, devices, filling>>

ClearHandle(t, h) ==
  /\ Between(t) /\ m_handle[h] # NoObject
  /\ m_handle' = [m_handle EXCEPT ![h] = NoObject]
  /\ script' = CallOf("close", m_handle[h])
  /\ UNCHANGED <<vars, cpp, m_dev, devices, filling>>

-----------------------------------------------------------------------------
(* devices = ctx.get_device_list()                                         *)

EnumerateInto(t) ==
  /\ Between(t)
  /\ GetDeviceList(t)
  /\ filling' = TRUE
  /\ UNCHANGED <<setup, cpp, m_dev, m_handle, devices, script>>

\* res.push_back(device::ref(list[i])): the temporary, its copy in the
\* vector, the end of the temporary.
PushBack(d) == CallOf("ref", d) \o CallOf("ref", d) \o CallOf("unref", d)

Filling(t) == Outside(t) /\ script = <<>> /\ filling

FreeList == << [op |-> "free", dev |-> NoObject] >>

\* The loop over the C list, and the guard that frees the list.
FillingCalls(s) == FlattenSeq([i \in DOMAIN s |-> PushBack(s[i])]) \o FreeList

\* The vector is filled and replaces the old one.
FillList(t) ==
  /\ Filling(t)
  /\ devices' = list[t]
  /\ script' = (IF list[t] = <<>> THEN <<>> ELSE FillingCalls(list[t]))
                 \o UnrefAll(devices)
  /\ filling' = FALSE
  /\ UNCHANGED <<vars, cpp, m_dev, m_handle>>

\* error::check throws because there is no list, or reserve because memory
\* ran out; the guard frees the list if there is one.
FillThrows(t) ==
  /\ Filling(t) /\ setup.allocFails
  /\ script' = IF list[t] = <<>> THEN <<>> ELSE FreeList
  /\ filling' = FALSE
  /\ UNCHANGED <<vars, cpp, m_dev, m_handle, devices>>

\* An application that calls libusby_get_device_list itself, wraps each entry
\* with device::take_ownership and frees the list without its references.
TakeOwnership(t) ==
  /\ Filling(t)
  /\ KeepDevices(t)
  /\ devices' = list[t]
  /\ script' = UnrefAll(devices)
  /\ filling' = FALSE
  /\ UNCHANGED <<setup, cpp, m_dev, m_handle>>

DestroyList(t) ==
  /\ Between(t) /\ devices # <<>>
  /\ devices' = <<>>
  /\ script' = UnrefAll(devices)
  /\ UNCHANGED <<vars, cpp, m_dev, m_handle, filling>>

-----------------------------------------------------------------------------
\* The next call of the statement.
NextCall(t) ==
  /\ Outside(t) /\ script # <<>>
  /\ LET c == script[1]
     IN  \/ c.op \in {"ref", "open"} /\ Acquire(t, c.dev, c.op) /\ UNCHANGED calls
         \/ c.op = "unref" /\ UnrefDevice(t, c.dev)
         \/ c.op = "close" /\ Close(t, c.dev)
         \/ c.op = "free" /\ FreeDeviceList(t)
  /\ script' = Tail(script)
  /\ UNCHANGED <<setup, cpp, m_dev, m_handle, devices, filling>>

CppStep(t) ==
  \/ \E v \in Variables :
       \/ \E d \in Objects : Assign(t, v, d)
       \/ Clear(t, v)
       \/ \E h \in HandleVars : Open(t, h, v)
  \/ \E h \in HandleVars : ClearHandle(t, h)
  \/ EnumerateInto(t)
  \/ FillList(t)
  \/ FillThrows(t)
  \/ TakeOwnership(t)
  \/ DestroyList(t)
  \/ NextCall(t)

CppInit ==
  /\ Init
  /\ cpp \in BOOLEAN /\ (cpp => Serial)
  /\ m_dev = [v \in Variables |-> NoObject]
  /\ m_handle = [h \in HandleVars |-> NoObject]
  /\ devices = <<>>
  /\ script = <<>>
  /\ filling = FALSE

CppNext ==
  \/ /\ ~crash
     /\ \E t \in Threads :
          \/ /\ LibraryStep(t) \/ (~cpp /\ ClientStep(t))
             /\ UNCHANGED <<setup, wrapperVars>>
          \/ cpp /\ CppStep(t)
  \/ (crash \/ AllReleased) /\ UNCHANGED <<vars, wrapperVars>>

CppSpec == CppInit /\ [][CppNext]_<<vars, wrapperVars>>

-----------------------------------------------------------------------------
(* Properties.                                                             *)

Uses(d) ==
  Cardinality({v \in Variables : m_dev[v] = d}) + Count(devices, d)

\* Between two statements the references the application holds are exactly
\* those of its device objects, and the open handles those of its
\* device_handle objects, whatever was copied, assigned to itself, opened
\* again or interrupted by an exception; and in the middle of a statement too
\* no device object points to a device that was freed.
WrappersOwnRefs ==
  /\ \A t \in setup.threads :
       cpp /\ Between(t) =>
         \A d \in Objects :
           /\ extra[d] = Uses(d)
           /\ handles[d] = Cardinality({h \in HandleVars : m_handle[h] = d})
  /\ \A d \in Objects : Uses(d) > 0 => Live(d)

=============================================================================
