------------------------------- MODULE Session -------------------------------
(***************************************************************************)
(* Handles of one device: opening and closing, claiming interfaces, and    *)
(* the configuration with the value usbfs handles keep of it.  Threads use *)
(* the handles, another program may set the configuration, and the device  *)
(* may be unplugged.  The value cached in a handle on Linux                *)
(* (active_config_value) is what can disagree with the device.             *)
(***************************************************************************)
EXTENDS SyncTransfer

CONSTANTS
  Threads, Handles, Interfaces,
  Configurations,   \* configuration values, 0 for "not configured" among them
  DeviceFile,       \* hFile of the device on Windows
  Nobody, Outsider, \* no file or handle; another program, or a handle that is gone
  MaxCalls          \* bound on the calls of a behaviour

ASSUME SessionAssumption ==
  /\ Configurations \subseteq Nat
  /\ Nobody \notin Handles /\ Outsider \notin Handles /\ Outsider # Nobody
  /\ MaxCalls \in Nat

VARIABLES
  config,              \* the configuration of the device
  present,             \* whether it is plugged in
  opened,              \* handles that are open
  claimed,             \* the file that claimed an interface
  active_config_value, \* of each handle
  doing,               \* what each thread is doing
  answer,              \* what a thread's last libusby_get_configuration gave
  lastSetter,          \* the handle the configuration was last set with
  raced,               \* handles with which two threads set the configuration at once
  calls

deviceVars == <<config, present, claimed>>
handleVars == <<opened, active_config_value>>
sessionVars == <<deviceVars, handleVars, doing, answer, lastSetter, raced, calls>>

Idle == [op |-> "idle"]

\* No get so far; a value; an error; a success for which no byte was written to the
\* variable the value is taken from.
NoAnswer == [r |-> "none"]
Value(v) == [r |-> "value", value |-> v]
Failure == [r |-> "error"]
Unwritten == [r |-> "unwritten"]

Answers == {NoAnswer, Failure, Unwritten} \cup {Value(v) : v \in Configurations}

Doing == {Idle}
  \cup [op : {"set"}, handle : Handles, value : Configurations]
  \cup [op : {"get"}, handle : Handles, cached_only : BOOLEAN]

\* The value -1: not known.  A claim belongs to a handle that is open, or on
\* Windows to the file that all handles of the device share.
SessionTypeOK ==
  /\ config \in Configurations
  /\ present \in BOOLEAN
  /\ opened \subseteq Handles
  /\ claimed \in [Interfaces -> {Nobody} \cup (IF backend = "win32" THEN {DeviceFile} ELSE opened)]
  /\ active_config_value \in [Handles -> Configurations \cup {-1}]
  /\ doing \in [Threads -> Doing]
  /\ \A t \in Threads : doing[t] # Idle => doing[t].handle \in opened
  /\ answer \in [Threads -> Answers]
  /\ lastSetter \in Handles \cup {Nobody, Outsider}
  /\ raced \subseteq opened
  /\ calls \in 0 .. MaxCalls

-----------------------------------------------------------------------------
(* Calls.                                                                  *)

IsIn(t, op) == doing[t].op = op
Busy(h) == \E t \in Threads : doing[t] # Idle /\ doing[t].handle = h

\* Between the system call and the assignment of a set.
Setting(h) == \E t \in Threads : IsIn(t, "set") /\ doing[t].handle = h

Enters(t, h) ==
  /\ IsIn(t, "idle") /\ h \in opened
  /\ calls < MaxCalls /\ calls' = calls + 1

\* The file that stands for handle h in the kernel.
File(h) == IF backend = "linux" THEN h ELSE DeviceFile

\* Mutant: a handle is made with the value 0.
ValueWhenOpenedZero == 0

ValueWhenOpened == -1

Open(t, h) ==
  /\ IsIn(t, "idle") /\ h \notin opened
  /\ calls < MaxCalls /\ calls' = calls + 1
  /\ opened' = opened \cup {h}
  /\ active_config_value' = [active_config_value EXCEPT ![h] = ValueWhenOpened]
  /\ lastSetter' = IF lastSetter = h THEN Outsider ELSE lastSetter
  /\ UNCHANGED <<deviceVars, doing, answer, raced>>

\* Mutant: usbyb_close does not close the file.
LeftByKept(h) == claimed

\* What closing a file leaves claimed.  Windows handles have none to close.
LeftBy(h) ==
  [i \in Interfaces |-> IF backend = "linux" /\ claimed[i] = h THEN Nobody ELSE claimed[i]]

Close(t, h) ==
  /\ IsIn(t, "idle") /\ h \in opened /\ ~Busy(h)
  /\ opened' = opened \ {h}
  /\ claimed' = LeftBy(h)
  /\ raced' = raced \ {h}
  /\ UNCHANGED <<config, present, active_config_value, doing, answer, lastSetter, calls>>

ClaimInterface(t, h, i) ==
  /\ Enters(t, h)
  /\ IF present /\ claimed[i] \in {Nobody, File(h)}
     THEN claimed' = [claimed EXCEPT ![i] = File(h)]
     ELSE UNCHANGED claimed
  /\ UNCHANGED <<config, present, handleVars, doing, answer, lastSetter, raced>>

ReleaseInterface(t, h, i) ==
  /\ Enters(t, h)
  /\ IF claimed[i] = File(h)
     THEN claimed' = [claimed EXCEPT ![i] = Nobody]
     ELSE UNCHANGED claimed
  /\ UNCHANGED <<config, present, handleVars, doing, answer, lastSetter, raced>>

-----------------------------------------------------------------------------
(* libusby_set_configuration                                               *)

\* Mutant: the value is stored before it is known whether it was set.
CachesFailureToo(ok) == backend = "linux"

\* On Linux the handle takes note of the value after a success.
Caches(ok) == backend = "linux" /\ ok

\* The system call.  The system refuses while an interface is claimed, and for
\* reasons of its own.
SetConfiguration(t, h, v) ==
  /\ Enters(t, h)
  /\ \E ok \in BOOLEAN :
       /\ ok => present /\ \A i \in Interfaces : claimed[i] = Nobody
       /\ config' = IF ok THEN v ELSE config
       /\ lastSetter' = IF ok THEN h ELSE lastSetter
       /\ doing' = IF Caches(ok)
                   THEN [doing EXCEPT ![t] = [op |-> "set", handle |-> h, value |-> v]]
                   ELSE doing
       /\ raced' = IF Setting(h) THEN raced \cup {h}
                   ELSE IF ok THEN raced \ {h} ELSE raced
  /\ UNCHANGED <<present, claimed, handleVars, answer>>

\* The assignment after it.
StoreConfiguration(t) ==
  /\ IsIn(t, "set")
  /\ active_config_value' =
       [active_config_value EXCEPT ![doing[t].handle] = doing[t].value]
  /\ doing' = [doing EXCEPT ![t] = Idle]
  /\ UNCHANGED <<deviceVars, opened, answer, lastSetter, raced, calls>>

-----------------------------------------------------------------------------
(* libusby_get_configuration, libusby_get_configuration_cached             *)

GetConfiguration(t, h, cached_only) ==
  /\ Enters(t, h)
  /\ doing' = [doing EXCEPT ![t] = [op |-> "get", handle |-> h, cached_only |-> cached_only]]
  /\ answer' = [answer EXCEPT ![t] = NoAnswer]
  /\ UNCHANGED <<deviceVars, handleVars, lastSetter, raced>>

Gets(t, a) ==
  /\ answer' = [answer EXCEPT ![t] = a]
  /\ doing' = [doing EXCEPT ![t] = Idle]
  /\ UNCHANGED <<deviceVars, handleVars, lastSetter, raced, calls>>

GetFromCache(t) ==
  /\ IsIn(t, "get") /\ backend = "linux"
  /\ active_config_value[doing[t].handle] >= 0
  /\ Gets(t, Value(active_config_value[doing[t].handle]))

\* usbyb_get_configuration of Linux does not know: GET_CONFIGURATION is sent,
\* unless only the cache was asked for.
GetFromDevice(t) ==
  /\ IsIn(t, "get") /\ backend = "linux"
  /\ active_config_value[doing[t].handle] < 0
  /\ IF doing[t].cached_only THEN Gets(t, Failure)
     ELSE \E o \in Outcomes \ {"cancelled"}, n \in 0 .. 1 :
            /\ o = "ok" => present
            /\ LET r == ControlResult(Controlled(FilledControl(Cleared), o, n))
               IN  Gets(t, IF r = 1 THEN Value(config) ELSE Failure)

\* The driver has the value, or asks the device; the number of bytes it gives
\* is not looked at in the end.
GetFromDriver(t) ==
  /\ IsIn(t, "get") /\ backend = "win32"
  /\ Gets(t, Value(config)) \/ Gets(t, Unwritten) \/ Gets(t, Failure)

-----------------------------------------------------------------------------
(* The environment.                                                        *)

OutsiderSets(v) ==
  /\ present /\ \A i \in Interfaces : claimed[i] = Nobody
  /\ config' = v
  /\ lastSetter' = Outsider
  /\ UNCHANGED <<present, claimed, handleVars, doing, answer, raced, calls>>

Unplug ==
  /\ present
  /\ present' = FALSE
  /\ UNCHANGED <<config, claimed, handleVars, doing, answer, lastSetter, raced, calls>>

SessionInit ==
  /\ config \in Configurations
  /\ present = TRUE
  /\ opened = {}
  /\ claimed = [i \in Interfaces |-> Nobody]
  /\ active_config_value = [h \in Handles |-> -1]
  /\ doing = [t \in Threads |-> Idle]
  /\ answer = [t \in Threads |-> NoAnswer]
  /\ lastSetter = Nobody
  /\ raced = {}
  /\ calls = 0

SessionStep ==
  \/ \E t \in Threads, h \in Handles :
       \/ Open(t, h) \/ Close(t, h)
       \/ \E i \in Interfaces : ClaimInterface(t, h, i) \/ ReleaseInterface(t, h, i)
       \/ \E v \in Configurations : SetConfiguration(t, h, v)
       \/ \E b \in BOOLEAN : GetConfiguration(t, h, b)
  \/ \E t \in Threads :
       StoreConfiguration(t) \/ GetFromCache(t) \/ GetFromDevice(t) \/ GetFromDriver(t)
  \/ \E v \in Configurations : OutsiderSets(v)
  \/ Unplug

SessionSpec ==
  /\ backend \in {"linux", "win32"} /\ SessionInit
  /\ [][SessionStep /\ UNCHANGED backend]_<<sessionVars, backend>>

-----------------------------------------------------------------------------
(* Properties.                                                             *)

\* While no other handle or program has set the configuration since a handle
\* did, and threads did not set it with the same handle at once, the value the
\* handle caches is the device's: no failed, refused or repeated set and no
\* closing and reopening leaves another value.
ConfigCacheIsOwn ==
  \A h \in opened :
    (backend = "linux" /\ lastSetter = h /\ h \notin raced /\ ~Setting(h)) =>
       active_config_value[h] = config

\* A get that succeeds gives the configuration the device has at that moment,
\* unless somebody else has set it since the handle took note, or a set with
\* the same handle is about to take note.
GetIsCurrent ==
  [][\A t \in Threads :
       answer'[t] # answer[t] /\ answer'[t].r = "value" =>
         LET h == doing[t].handle
         IN  \/ answer'[t].value = config
             \/ backend = "linux" /\ active_config_value[h] >= 0 /\ (lastSetter \notin {h, Nobody} \/ h \in raced \/ Setting(h))]_sessionVars

=============================================================================
