---------------------------- MODULE DeviceLookup ----------------------------
(***************************************************************************)
(* libusby_open_device_with_vid_pid of src/src/libusby.c: a pass over the  *)
(* devices whose descriptor is cached, and a pass that opens every device  *)
(* and reads the descriptor through the handle.  A descriptor that came in  *)
(* part is taken for a whole one.                                          *)
(***************************************************************************)
EXTENDS Integers, Sequences

CONSTANT DeviceLists    \* the lists that libusby_get_device_list may give

\* matches: has the vendor and the product looked for; descriptor: device_desc
\* is not cached (bLength is not right), or was read whole, or was cut short;
\* says: device_desc has the vendor and the product.
Listed ==
  {d \in [matches : BOOLEAN, descriptor : {"none", "whole", "cut"}, says : BOOLEAN] :
     d.descriptor = "whole" => d.says = d.matches}

ASSUME LookupAssumption == DeviceLists \subseteq Seq(Listed)

VARIABLES
  device_list,   \* what was listed, the cache of each device included
  pass,          \* which of the loops, or after them
  i,             \* the device the loop is at
  handle,        \* the device of the variable handle, 0 if it is null
  handles,       \* open handles of each device
  ref_count,     \* references of the list and the handles
  missed         \* devices that the second pass could not open or read

lookupVars == <<device_list, pass, i, handle, handles, ref_count, missed>>

Positions == DOMAIN device_list

LookupTypeOK ==
  /\ device_list \in Seq(Listed)
  /\ pass \in {"cached", "opened", "reading", "free", "done"}
  /\ i \in 1 .. Len(device_list) + 1
  /\ handle \in {0} \cup Positions
  /\ handles \in [Positions -> 0 .. 1]
  /\ ref_count \in [Positions -> 0 .. 2]
  /\ missed \subseteq Positions

Opened(d) == /\ handles' = [handles EXCEPT ![d] = @ + 1]
             /\ ref_count' = [ref_count EXCEPT ![d] = @ + 1]

Cached(d) == d.descriptor # "none"

Goes == handle = 0 /\ i <= Len(device_list)
Same == UNCHANGED <<handle, handles, ref_count>>

TryCached ==
  /\ pass = "cached" /\ Goes
  /\ \/ /\ Cached(device_list[i]) /\ device_list[i].says
        /\ Opened(i) /\ handle' = i
     \/ Same                              \* not this one, or it does not open
  /\ i' = i + 1
  /\ UNCHANGED <<device_list, pass, missed>>

TurnToOpened ==
  /\ pass = "cached" /\ ~Goes
  /\ pass' = "opened" /\ i' = 1
  /\ Same /\ UNCHANGED <<device_list, missed>>

OpenFails ==
  /\ pass = "opened" /\ Goes
  /\ missed' = missed \cup {i}
  /\ i' = i + 1
  /\ Same /\ UNCHANGED <<device_list, pass>>

OpenDevice ==
  /\ pass = "opened" /\ Goes
  /\ Opened(i) /\ handle' = i
  /\ pass' = "reading"
  /\ UNCHANGED <<device_list, i, missed>>

\* libusby_get_device_descriptor: the cached descriptor, or what GET_DESCRIPTOR
\* gives.  Only bLength of the reply is looked at, not how much of it came.
Described(d) ==
  IF Cached(d) THEN {d}
  ELSE {[d EXCEPT !.descriptor = "whole", !.says = d.matches]}
         \cup {[d EXCEPT !.descriptor = "cut", !.says = b] : b \in BOOLEAN}

\* Mutant: libusby_close is left out.
ClosedNot(d) == UNCHANGED <<handles, ref_count>>

\* libusby_close, with the reference it drops.
Closed(d) == /\ handles' = [handles EXCEPT ![d] = @ - 1]
             /\ ref_count' = [ref_count EXCEPT ![d] = @ - 1]

\* The next device is tried if this one was closed.
AfterRead == pass' = "opened" /\ i' = i + 1

ReadFails ==
  /\ pass = "reading" /\ ~Cached(device_list[i])
  /\ Closed(i) /\ handle' = 0
  /\ missed' = missed \cup {i}
  /\ AfterRead /\ UNCHANGED device_list

ReadDescriptor ==
  /\ pass = "reading"
  /\ \E d \in Described(device_list[i]) :
       /\ device_list' = [device_list EXCEPT ![i] = d]
       /\ IF d.says THEN Same ELSE Closed(i) /\ handle' = 0
  /\ AfterRead /\ UNCHANGED missed

EndOfSearch ==
  /\ pass = "opened" /\ ~Goes
  /\ pass' = "free" /\ i' = 1
  /\ Same /\ UNCHANGED <<device_list, missed>>

\* libusby_free_device_list gives back the references of the list.
FreeList ==
  /\ pass = "free"
  /\ IF i <= Len(device_list)
     THEN /\ ref_count' = [ref_count EXCEPT ![i] = @ - 1]
          /\ i' = i + 1 /\ UNCHANGED pass
     ELSE pass' = "done" /\ UNCHANGED <<i, ref_count>>
  /\ UNCHANGED <<device_list, handle, handles, missed>>

LookupInit ==
  /\ device_list \in DeviceLists
  /\ pass = "cached" /\ i = 1 /\ handle = 0
  /\ handles = [d \in Positions |-> 0]
  /\ ref_count = [d \in Positions |-> 1]
  /\ missed = {}

LookupStep ==
  \/ TryCached \/ TurnToOpened
  \/ OpenFails \/ OpenDevice \/ ReadFails \/ ReadDescriptor \/ EndOfSearch
  \/ FreeList

LookupSpec == LookupInit /\ [][LookupStep]_lookupVars

\* Its descriptor was cut, and tells of other numbers than the device's.
Misread(d) == d.descriptor = "cut" /\ d.says # d.matches

\* The function returns a handle of a matching device, which is the only one
\* left open and holds the only reference left, or it returns none and every
\* matching device failed to open or to give its descriptor.  A descriptor of
\* which only a part came may make either go wrong.
LookupIsExact ==
  pass = "done" =>
    /\ \A d \in Positions : handles[d] = IF d = handle THEN 1 ELSE 0
    /\ ref_count = handles
    /\ IF handle # 0
       THEN device_list[handle].matches \/ Misread(device_list[handle])
       ELSE \A d \in Positions :
              device_list[d].matches => d \in missed \/ Misread(device_list[d])

=============================================================================
