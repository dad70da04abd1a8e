---------------------------- MODULE SessionProofs ----------------------------
(***************************************************************************)
(* Theorems about Session: the cached configuration value of a handle, for *)
(* any number of threads, handles, interfaces and calls.  Theorems about   *)
(* DeviceLookup, for device lists of any length: the references and        *)
(* handles of libusby_open_device_with_vid_pid balance.  And that what the *)
(* runs check, these two with SyncTransfer, behaves as each of the three.  *)
(***************************************************************************)
EXTENDS MCSession, SyncTransferProofs

svars == <<sessionVars, backend>>
Step == SessionStep /\ UNCHANGED backend

BackendOK == backend \in {"linux", "win32"}

\* A set that no other one overlaps is alone with its handle, and what it is
\* about to store is what the device has, if nobody has set it since.
SettersAgree ==
  \A t \in Threads : IsIn(t, "set") =>
    LET h == doing[t].handle
    IN  h \notin raced =>
          /\ \A u \in Threads : IsIn(u, "set") /\ doing[u].handle = h => u = t
          /\ lastSetter = h => doing[t].value = config

\* Nothing is cached or about to be before the configuration is first set.
NobodySet ==
  lastSetter = Nobody =>
    /\ \A h \in Handles : active_config_value[h] = -1
    /\ \A t \in Threads : ~IsIn(t, "set")

OnlyLinuxStores == \A t \in Threads : IsIn(t, "set") => backend = "linux"

Inv ==
  /\ BackendOK /\ SessionTypeOK
  /\ SettersAgree /\ NobodySet /\ OnlyLinuxStores
  /\ ConfigCacheIsOwn

-----------------------------------------------------------------------------

\* The forms of a thread's activity.
LEMMA DoingForms ==
  ASSUME SessionTypeOK, NEW t \in Threads
  PROVE  /\ doing[t] \in Doing
         /\ IsIn(t, "idle") => doing[t] = Idle
         /\ doing[t] # Idle => doing[t].handle \in opened /\ doing[t].handle \in Handles
         /\ IsIn(t, "set") => doing[t] # Idle /\ doing[t].value \in Configurations
         /\ IsIn(t, "get") => doing[t] # Idle
BY DEF SessionTypeOK, Doing, Idle, IsIn

\* The initial states satisfy the invariant.
LEMMA InitInv ==
  ASSUME SessionAssumption, BackendOK, SessionInit
  PROVE  Inv
<1>1. SessionTypeOK
  BY DEF SessionInit, SessionTypeOK, BackendOK, Doing, Idle, Answers, SessionAssumption
<1>2. \A t \in Threads : ~IsIn(t, "set")
  BY DEF SessionInit, IsIn, Idle
<1>3. ConfigCacheIsOwn
  BY DEF SessionInit, ConfigCacheIsOwn
<1> QED
  BY <1>1, <1>2, <1>3 DEF Inv, SettersAgree, NobodySet, OnlyLinuxStores, SessionInit

\* A handle that is opened knows no value.
LEMMA OpenInv ==
  ASSUME SessionAssumption, Inv, BackendOK', NEW t \in Threads, NEW h \in Handles,
         Open(t, h), UNCHANGED backend
  PROVE  Inv'
<1> USE DEF Inv
<1>1. SessionTypeOK'
  BY DEF Open, SessionTypeOK, deviceVars, ValueWhenOpened, SessionAssumption
<1>2. \A u \in Threads : ~(doing[u].handle = h /\ doing[u] # Idle)
  BY DoingForms DEF Open
<1>3. SettersAgree'
  BY <1>2, DoingForms DEF Open, SettersAgree, deviceVars, IsIn
<1>4. NobodySet'
  BY DEF Open, NobodySet, IsIn, ValueWhenOpened, SessionTypeOK, SessionAssumption
<1>5. OnlyLinuxStores'
  BY DEF Open, OnlyLinuxStores, IsIn
<1>6. ConfigCacheIsOwn'
  BY DEF Open, ConfigCacheIsOwn, deviceVars, Setting, IsIn, SessionTypeOK, SessionAssumption
<1> QED
  BY <1>1, <1>3, <1>4, <1>5, <1>6

\* Closing takes a handle nobody is using out of all of it.
LEMMA CloseInv ==
  ASSUME SessionAssumption, Inv, BackendOK', NEW t \in Threads, NEW h \in Handles,
         Close(t, h), UNCHANGED backend
  PROVE  Inv'
<1> USE DEF Inv
<1>1. SessionTypeOK'
  <2>1. claimed' \in [Interfaces -> {Nobody} \cup (IF backend' = "win32" THEN {DeviceFile} ELSE opened')]
    BY DEF Close, LeftBy, SessionTypeOK, BackendOK
  <2>2. \A u \in Threads : doing'[u] # Idle => doing'[u].handle \in opened'
    BY DEF Close, Busy, SessionTypeOK
  <2> QED
    BY <2>1, <2>2 DEF Close, SessionTypeOK
<1>2. \A u \in Threads : ~(doing[u].handle = h /\ doing[u] # Idle)
  BY DEF Close, Busy
<1>3. SettersAgree'
  BY <1>2, DoingForms DEF Close, SettersAgree, IsIn
<1>4. NobodySet' /\ OnlyLinuxStores'
  BY DEF Close, NobodySet, OnlyLinuxStores, IsIn
<1>5. ConfigCacheIsOwn'
  BY DEF Close, ConfigCacheIsOwn, Setting, IsIn
<1> QED
  BY <1>1, <1>3, <1>4, <1>5

\* Claims are no concern of the cache.
LEMMA ClaimInv ==
  ASSUME SessionAssumption, Inv, BackendOK', NEW t \in Threads, NEW h \in Handles,
         NEW n \in Interfaces,
         ClaimInterface(t, h, n) \/ ReleaseInterface(t, h, n), UNCHANGED backend
  PROVE  Inv'
<1> USE DEF Inv
<1>1. SessionTypeOK'
  <2>1. calls' \in 0 .. MaxCalls
    BY DEF ClaimInterface, ReleaseInterface, Enters, SessionTypeOK, SessionAssumption
  <2>2. claimed' \in [Interfaces -> {Nobody} \cup (IF backend' = "win32" THEN {DeviceFile} ELSE opened')]
    BY DEF ClaimInterface, ReleaseInterface, Enters, File, SessionTypeOK, BackendOK, handleVars
  <2> QED
    BY <2>1, <2>2 DEF ClaimInterface, ReleaseInterface, SessionTypeOK, handleVars
<1>2. SettersAgree' /\ NobodySet' /\ OnlyLinuxStores' /\ ConfigCacheIsOwn'
  BY DEF ClaimInterface, ReleaseInterface, handleVars, SettersAgree, NobodySet,
         OnlyLinuxStores, ConfigCacheIsOwn, Setting, IsIn
<1> QED
  BY <1>1, <1>2

\* The system call of a set.
LEMMA SetInv ==
  ASSUME SessionAssumption, Inv, BackendOK', NEW t \in Threads, NEW h \in Handles,
         NEW v \in Configurations, SetConfiguration(t, h, v), UNCHANGED backend
  PROVE  Inv'
<1> USE DEF Inv
<1> DEFINE Pending == [op |-> "set", handle |-> h, value |-> v]
<1>0. PICK ok \in BOOLEAN :
        /\ config' = IF ok THEN v ELSE config
        /\ lastSetter' = IF ok THEN h ELSE lastSetter
        /\ doing' = IF backend = "linux" /\ ok THEN [doing EXCEPT ![t] = Pending] ELSE doing
        /\ raced' = IF Setting(h) THEN raced \cup {h} ELSE IF ok THEN raced \ {h} ELSE raced
  BY DEF SetConfiguration, Caches
<1>1. /\ IsIn(t, "idle") /\ h \in opened
      /\ UNCHANGED <<present, claimed, opened, active_config_value, answer>>
      /\ calls' \in 0 .. MaxCalls
  BY DEF SetConfiguration, Enters, handleVars, SessionTypeOK, SessionAssumption
<1>2. Pending \in Doing /\ Pending # Idle /\ Pending.op = "set" /\ Pending.handle = h /\ Pending.value = v
  BY DEF Doing, Idle
<1>3. doing[t] = Idle /\ doing[t].op # "set"
  BY <1>1, DoingForms DEF Idle, IsIn
<1>4. SessionTypeOK'
  BY <1>0, <1>1, <1>2 DEF SessionTypeOK
<1> HIDE DEF Pending
<1>5. CASE ok /\ backend = "linux"
  <2>1. doing' = [doing EXCEPT ![t] = Pending] /\ config' = v /\ lastSetter' = h
    BY <1>0, <1>5
  <2>2. \A u \in Threads : doing'[u] = IF u = t THEN Pending ELSE doing[u]
    BY <2>1 DEF SessionTypeOK
  <2>3. SettersAgree'
    <3> SUFFICES ASSUME NEW u \in Threads, doing'[u].op = "set", doing'[u].handle \notin raced'
                 PROVE  /\ \A w \in Threads : doing'[w].op = "set" /\ doing'[w].handle = doing'[u].handle => w = u
                        /\ lastSetter' = doing'[u].handle => doing'[u].value = config'
      BY DEF SettersAgree, IsIn
    <3>1. CASE Setting(h)
      <4>1. h \in raced' /\ u # t
        BY <1>0, <1>2, <2>2, <3>1
      <4>2. doing'[u] = doing[u] /\ doing[u].handle # h /\ doing[u].handle \notin raced
        BY <1>0, <2>2, <3>1, <4>1
      <4> QED
        BY <1>2, <2>1, <2>2, <4>2 DEF SettersAgree, IsIn
    <3>2. CASE ~Setting(h)
      <4>1. \A w \in Threads : doing[w].op = "set" => doing[w].handle # h
        BY <3>2 DEF Setting, IsIn
      <4>2. CASE u = t
        BY <1>2, <2>1, <2>2, <4>1, <4>2
      <4>3. CASE u # t
        <5>1. doing'[u] = doing[u] /\ doing[u].handle # h
          BY <2>2, <4>1, <4>3
        <5>2. doing[u].handle \notin raced
          BY <1>0, <1>5, <3>2, <5>1
        <5> QED
          BY <1>2, <2>1, <2>2, <5>1, <5>2 DEF SettersAgree, IsIn
      <4> QED
        BY <4>2, <4>3
    <3> QED
      BY <3>1, <3>2
  <2>4. NobodySet'
    BY <2>1 DEF NobodySet, SessionAssumption
  <2>5. OnlyLinuxStores'
    BY <1>5 DEF OnlyLinuxStores
  <2>6. ConfigCacheIsOwn'
    BY <1>2, <2>1, <2>2 DEF ConfigCacheIsOwn, Setting, IsIn
  <2> QED
    BY <1>4, <2>3, <2>4, <2>5, <2>6
<1>6. CASE ok /\ backend = "win32"
  <2>1. doing' = doing /\ lastSetter' = h /\ \A u \in Threads : ~IsIn(u, "set")
    BY <1>0, <1>6 DEF OnlyLinuxStores
  <2>2. SettersAgree' /\ OnlyLinuxStores' /\ NobodySet'
    BY <2>1 DEF SettersAgree, OnlyLinuxStores, NobodySet, IsIn, SessionAssumption
  <2>3. ConfigCacheIsOwn'
    BY <1>6 DEF ConfigCacheIsOwn
  <2> QED
    BY <1>4, <2>2, <2>3
<1>7. CASE ~ok
  <2>1. UNCHANGED <<doing, config, lastSetter>> /\ raced \subseteq raced'
    BY <1>0, <1>7
  <2>2. SettersAgree' /\ OnlyLinuxStores' /\ NobodySet' /\ ConfigCacheIsOwn'
    BY <1>1, <2>1 DEF SettersAgree, OnlyLinuxStores, NobodySet, ConfigCacheIsOwn, Setting, IsIn
  <2> QED
    BY <1>4, <2>2
<1> QED
  BY <1>5, <1>6, <1>7 DEF BackendOK

\* The assignment after it.
LEMMA StoreInv ==
  ASSUME SessionAssumption, Inv, BackendOK', NEW t \in Threads,
         StoreConfiguration(t), UNCHANGED backend
  PROVE  Inv'
<1> USE DEF Inv
<1> DEFINE h == doing[t].handle
<1>1. /\ h \in Handles /\ h \in opened /\ doing[t].value \in Configurations
      /\ doing[t].op = "set"
  BY DoingForms DEF StoreConfiguration, IsIn
<1>2. SessionTypeOK'
  BY <1>1 DEF StoreConfiguration, SessionTypeOK, deviceVars, Doing
<1>3. \A u \in Threads : doing'[u] = IF u = t THEN Idle ELSE doing[u]
  BY DEF StoreConfiguration, SessionTypeOK
<1>4. Idle.op # "set"
  BY DEF Idle
<1>5. SettersAgree' /\ OnlyLinuxStores'
  BY <1>3, <1>4 DEF SettersAgree, OnlyLinuxStores, IsIn, StoreConfiguration, deviceVars
<1>6. lastSetter' # Nobody
  BY <1>1 DEF NobodySet, StoreConfiguration, IsIn
<1>7. ConfigCacheIsOwn'
  <2> SUFFICES ASSUME NEW g \in opened', lastSetter' = g, g \notin raced', ~Setting(g)',
                      backend = "linux"
               PROVE  active_config_value'[g] = config'
    BY DEF ConfigCacheIsOwn
  <2>1. g \in Handles /\ g \in opened /\ lastSetter = g /\ g \notin raced /\ config' = config
    BY DEF StoreConfiguration, SessionTypeOK, deviceVars
  <2>2. CASE g = h
    BY <1>1, <2>1, <2>2 DEF StoreConfiguration, SettersAgree, SessionTypeOK, IsIn
  <2>3. CASE g # h
    <3>1. ~Setting(g)
      BY <1>3, <1>4, <2>3 DEF Setting, IsIn
    <3> QED
      BY <2>1, <2>3, <3>1 DEF StoreConfiguration, ConfigCacheIsOwn, SessionTypeOK
  <2> QED
    BY <2>2, <2>3
<1> QED
  BY <1>2, <1>5, <1>6, <1>7 DEF NobodySet

\* Reading changes neither the device nor the handles.
LEMMA GetInv ==
  ASSUME SessionAssumption, Inv, BackendOK', NEW t \in Threads, UNCHANGED backend,
         \/ \E h \in Handles, b \in BOOLEAN : GetConfiguration(t, h, b)
         \/ GetFromCache(t) \/ GetFromDevice(t) \/ GetFromDriver(t)
  PROVE  Inv'
<1> USE DEF Inv
<1>1. UNCHANGED <<deviceVars, handleVars, lastSetter, raced>>
  BY DEF GetConfiguration, GetFromCache, GetFromDevice, GetFromDriver, Gets
<1>2. PICK d \in Doing :
        /\ doing' = [doing EXCEPT ![t] = d] /\ d.op # "set" /\ ~IsIn(t, "set")
        /\ d # Idle => d.handle \in opened
  <2>1. CASE \E h \in Handles, b \in BOOLEAN : GetConfiguration(t, h, b)
    BY <2>1 DEF GetConfiguration, Enters, Doing, Idle, IsIn
  <2>2. CASE GetFromCache(t) \/ GetFromDevice(t) \/ GetFromDriver(t)
    BY <2>2 DEF GetFromCache, GetFromDevice, GetFromDriver, Gets, Doing, Idle, IsIn
  <2> QED
    BY <2>1, <2>2
<1>3. answer' \in [Threads -> Answers]
  <2>1. PICK a \in Answers : answer' = [answer EXCEPT ![t] = a]
    <3>1. CASE \E h \in Handles, b \in BOOLEAN : GetConfiguration(t, h, b)
      BY <3>1 DEF GetConfiguration, Answers
    <3>2. CASE GetFromCache(t)
      <4>1. active_config_value[doing[t].handle] \in Configurations
        BY <3>2, DoingForms DEF GetFromCache, SessionTypeOK, SessionAssumption
      <4> QED
        BY <3>2, <4>1 DEF GetFromCache, Gets, Answers
    <3>3. CASE GetFromDevice(t) \/ GetFromDriver(t)
      <4>1. Value(config) \in Answers /\ Failure \in Answers /\ Unwritten \in Answers
        BY DEF Answers, SessionTypeOK
      <4>2. \/ Gets(t, Value(config)) \/ Gets(t, Failure) \/ Gets(t, Unwritten)
        BY <3>3 DEF GetFromDevice, GetFromDriver
      <4> QED
        BY <4>1, <4>2 DEF Gets
    <3> QED
      BY <3>1, <3>2, <3>3
  <2> QED
    BY <2>1 DEF SessionTypeOK
<1>4. calls' \in 0 .. MaxCalls
  <2>1. CASE \E h \in Handles, b \in BOOLEAN : GetConfiguration(t, h, b)
    BY <2>1 DEF GetConfiguration, Enters, SessionTypeOK, SessionAssumption
  <2>2. CASE GetFromCache(t) \/ GetFromDevice(t) \/ GetFromDriver(t)
    <3>1. calls' = calls
      BY <2>2 DEF GetFromCache, GetFromDevice, GetFromDriver, Gets
    <3> QED
      BY <3>1 DEF SessionTypeOK
  <2> QED
    BY <2>1, <2>2
<1>5. \A u \in Threads : doing'[u] = IF u = t THEN d ELSE doing[u]
  BY <1>2 DEF SessionTypeOK
<1>6. SessionTypeOK'
  BY <1>1, <1>2, <1>3, <1>4, <1>5 DEF SessionTypeOK, deviceVars, handleVars
<1>7. \A u \in Threads : IsIn(u, "set")' <=> IsIn(u, "set")
  BY <1>2, <1>5 DEF IsIn
<1>8. \A u \in Threads : IsIn(u, "set") => doing'[u] = doing[u]
  BY <1>2, <1>5
<1>9. SettersAgree' /\ NobodySet' /\ OnlyLinuxStores' /\ ConfigCacheIsOwn'
  BY <1>1, <1>7, <1>8 DEF SettersAgree, NobodySet, OnlyLinuxStores, ConfigCacheIsOwn, Setting,
     deviceVars, handleVars
<1> QED
  BY <1>6, <1>9

\* What happens outside the program.
LEMMA EnvironmentInv ==
  ASSUME SessionAssumption, Inv, BackendOK', UNCHANGED backend,
         Unplug \/ \E v \in Configurations : OutsiderSets(v)
  PROVE  Inv'
<1> USE DEF Inv
<1>1. CASE Unplug
  BY <1>1 DEF Unplug, handleVars, SessionTypeOK, SettersAgree, NobodySet, OnlyLinuxStores,
              ConfigCacheIsOwn, Setting, IsIn
<1>2. CASE \E v \in Configurations : OutsiderSets(v)
  <2>1. SessionTypeOK' /\ lastSetter' \notin Handles \cup {Nobody} /\ UNCHANGED doing
    BY <1>2 DEF OutsiderSets, handleVars, SessionTypeOK, SessionAssumption
  <2>2. SettersAgree' /\ NobodySet' /\ OnlyLinuxStores'
    BY <1>2, <2>1, DoingForms DEF OutsiderSets, SettersAgree, NobodySet, OnlyLinuxStores, IsIn
  <2>3. ConfigCacheIsOwn'
    BY <2>1 DEF ConfigCacheIsOwn, SessionTypeOK
  <2> QED
    BY <2>1, <2>2, <2>3
<1> QED
  BY <1>1, <1>2

\* Every step preserves the invariant.
LEMMA StepInv ==
  ASSUME SessionAssumption, Inv, [Step]_svars
  PROVE  Inv'
<1>1. CASE UNCHANGED svars
  BY <1>1 DEF svars, sessionVars, deviceVars, handleVars, Inv, BackendOK, SessionTypeOK,
              SettersAgree, NobodySet, OnlyLinuxStores, ConfigCacheIsOwn, Setting, IsIn
<1>2. CASE Step
  <2>1. BackendOK' /\ UNCHANGED backend
    BY <1>2 DEF Step, Inv, BackendOK
  <2> QED
    BY <1>2, <2>1, OpenInv, CloseInv, ClaimInv, SetInv, StoreInv, GetInv, EnvironmentInv
       DEF Step, SessionStep
<1> QED
  BY <1>1, <1>2

\* Every reachable state satisfies it.
LEMMA Invariance == ASSUME SessionAssumption PROVE SessionSpec => []Inv
<1>1. SessionInit /\ backend \in {"linux", "win32"} => Inv
  BY InitInv DEF BackendOK
<1>2. Inv /\ [Step]_svars => Inv'
  BY StepInv
<1> QED
  BY <1>1, <1>2, PTL DEF SessionSpec, Step, svars

-----------------------------------------------------------------------------

\* A session has its types; in particular a claim never outlives the handle
\* it was made with on Linux.
THEOREM SessionTypeCorrect == SessionSpec => []SessionTypeOK
<1>1. Inv => SessionTypeOK
  BY DEF Inv
<1> QED
  BY <1>1, Invariance, SessionAssumption, PTL

\* The value a usbfs handle caches is the device's as long as only this handle
\* sets the configuration, one thread at a time.
THEOREM CacheIsOwn == SessionSpec => []ConfigCacheIsOwn
<1>1. Inv => ConfigCacheIsOwn
  BY DEF Inv
<1> QED
  BY <1>1, Invariance, SessionAssumption, PTL

\* What libusby_get_configuration gives is then the configuration of the
\* device at that moment.
LEMMA AnswerIsCurrent ==
  ASSUME SessionAssumption, Inv, Step, NEW t \in Threads,
         answer'[t] # answer[t], answer'[t].r = "value"
  PROVE  LET h == doing[t].handle
         IN  \/ answer'[t].value = config
             \/ /\ backend = "linux" /\ active_config_value[h] >= 0
                /\ lastSetter \notin {h, Nobody} \/ h \in raced \/ Setting(h)
<1> USE DEF Inv
<1> DEFINE h == doing[t].handle
<1>1. GetFromCache(t) \/ GetFromDevice(t) \/ GetFromDriver(t)
  <2>1. PICK u \in Threads :
          \/ UNCHANGED answer
          \/ \E g \in Handles, b \in BOOLEAN : GetConfiguration(u, g, b)
          \/ GetFromCache(u) \/ GetFromDevice(u) \/ GetFromDriver(u)
    BY DEF Step, SessionStep, Open, Close, ClaimInterface, ReleaseInterface, SetConfiguration,
           StoreConfiguration, OutsiderSets, Unplug
  <2>2. \A g \in Handles, b \in BOOLEAN : ~GetConfiguration(u, g, b)
    BY DEF GetConfiguration, NoAnswer, SessionTypeOK
  <2>3. GetFromCache(u) \/ GetFromDevice(u) \/ GetFromDriver(u) => u = t
    BY DEF GetFromCache, GetFromDevice, GetFromDriver, Gets, SessionTypeOK
  <2> QED
    BY <2>1, <2>2, <2>3
<1>2. CASE GetFromDevice(t) \/ GetFromDriver(t)
  <2>1. \/ answer' = [answer EXCEPT ![t] = Value(config)]
        \/ answer' = [answer EXCEPT ![t] = Failure]
        \/ answer' = [answer EXCEPT ![t] = Unwritten]
    BY <1>2 DEF GetFromDevice, GetFromDriver, Gets
  <2> QED
    BY <2>1 DEF Value, Failure, Unwritten, SessionTypeOK
<1>3. CASE GetFromCache(t)
  <2>1. /\ backend = "linux" /\ active_config_value[h] >= 0
        /\ answer'[t].value = active_config_value[h]
        /\ h \in opened /\ h \in Handles
    BY <1>3, DoingForms DEF GetFromCache, Gets, Value, SessionTypeOK, IsIn
  <2>2. CASE lastSetter = Nobody
    BY <2>1, <2>2 DEF NobodySet
  <2>3. CASE lastSetter = h /\ h \notin raced /\ ~Setting(h)
    BY <2>1, <2>3 DEF ConfigCacheIsOwn
  <2> QED
    BY <2>1, <2>2, <2>3
<1> QED
  BY <1>1, <1>2, <1>3

\* The same for every behaviour.
THEOREM GetsAreCurrent == SessionSpec => GetIsCurrent
<1> DEFINE Told ==
      \A t \in Threads :
        answer'[t] # answer[t] /\ answer'[t].r = "value" =>
          LET h == doing[t].handle
          IN  \/ answer'[t].value = config
              \/ backend = "linux" /\ active_config_value[h] >= 0 /\ (lastSetter \notin {h, Nobody} \/ h \in raced \/ Setting(h))
<1>1. Inv /\ [Step]_svars => [Told]_sessionVars
  <2> SUFFICES ASSUME Inv, [Step]_svars, sessionVars' # sessionVars
               PROVE  Told
    OBVIOUS
  <2>1. Step
    BY DEF svars
  <2> QED
    BY <2>1, AnswerIsCurrent, SessionAssumption
<1> QED
  BY <1>1, Invariance, SessionAssumption, PTL DEF SessionSpec, GetIsCurrent, Step, svars

-----------------------------------------------------------------------------
(* The search of libusby_open_device_with_vid_pid.                         *)

\* Until the list is freed it has its reference of each device, and the handle,
\* if there is one, has the only other one.
Balance ==
  /\ \A d \in Positions :
       /\ handles[d] = IF d = handle THEN 1 ELSE 0
       /\ ref_count[d] =
            handles[d] + IF pass \in {"cached", "opened", "reading"} \/ (pass = "free" /\ i <= d)
                         THEN 1 ELSE 0
  /\ handle # 0 /\ pass # "reading" => Cached(device_list[handle]) /\ device_list[handle].says
  /\ pass = "reading" => handle = i

\* Devices the second pass went by without a handle do not match, or could not
\* be opened or read, or gave a part of a descriptor.
Tried(d) == device_list[d].matches => d \in missed \/ Misread(device_list[d])

Searched ==
  /\ pass = "reading" \/ (pass = "opened" /\ handle = 0) =>
       \A d \in Positions : d < i => Tried(d)
  /\ pass \in {"free", "done"} /\ handle = 0 => \A d \in Positions : Tried(d)
  /\ pass = "done" => i > Len(device_list)

SearchInv == LookupTypeOK /\ Balance /\ Searched

-----------------------------------------------------------------------------

\* The list of devices as a function.
LEMMA ListType ==
  ASSUME LookupTypeOK
  PROVE  /\ Len(device_list) \in Nat /\ Positions = 1 .. Len(device_list)
         /\ device_list \in [1 .. Len(device_list) -> Listed]
         /\ i \in 1 .. Len(device_list) + 1
BY DEF LookupTypeOK, Positions

\* The initial states satisfy the invariant.
LEMMA SearchInitInv == ASSUME LookupAssumption, LookupInit PROVE SearchInv
<1>1. device_list \in Seq(Listed)
  BY DEF LookupInit, LookupAssumption
<1>2. LookupTypeOK
  BY <1>1 DEF LookupInit, LookupTypeOK, Positions
<1>3. Balance /\ Searched
  BY <1>1, <1>2, ListType DEF LookupInit, Balance, Searched
<1> QED
  BY <1>2, <1>3 DEF SearchInv

\* The first pass opens a device that matches, or none.
LEMMA TryCachedInv ==
  ASSUME SearchInv, TryCached
  PROVE  SearchInv'
<1> USE DEF SearchInv
<1>1. /\ handle = 0 /\ i \in Positions /\ i' = i + 1 /\ pass = "cached"
      /\ UNCHANGED <<device_list, pass, missed>> /\ Positions' = Positions
      /\ Len(device_list) \in Nat /\ Positions = 1 .. Len(device_list)
  BY ListType DEF TryCached, Goes, Positions
<1>2. \/ Same
      \/ Opened(i) /\ handle' = i /\ Cached(device_list[i]) /\ device_list[i].says
  BY DEF TryCached
<1>3. /\ handle' \in {0} \cup Positions /\ handles' \in [Positions -> 0 .. 1]
      /\ ref_count' \in [Positions -> 0 .. 2]
  BY <1>1, <1>2 DEF Same, Opened, LookupTypeOK, Balance
<1>4. LookupTypeOK'
  BY <1>1, <1>3 DEF LookupTypeOK
<1>5. Balance'
  BY <1>1, <1>2 DEF Same, Opened, LookupTypeOK, Balance
<1>6. Searched'
  BY <1>1 DEF Searched
<1> QED
  BY <1>4, <1>5, <1>6

\* The second pass opens a device, or goes on to the next one.
LEMMA SearchOpenInv ==
  ASSUME SearchInv, OpenFails \/ OpenDevice
  PROVE  SearchInv'
<1> USE DEF SearchInv
<1>1. /\ handle = 0 /\ i \in Positions /\ pass = "opened"
      /\ UNCHANGED device_list /\ Positions' = Positions
      /\ Len(device_list) \in Nat /\ Positions = 1 .. Len(device_list)
  BY ListType DEF OpenFails, OpenDevice, Goes, Positions
<1>2. CASE OpenFails
  <2>1. /\ UNCHANGED <<pass, handle, handles, ref_count>> /\ i' = i + 1
        /\ missed' = missed \cup {i}
    BY <1>2 DEF OpenFails, Same
  <2>2. LookupTypeOK'
    BY <1>1, <2>1 DEF LookupTypeOK
  <2>3. Balance'
    BY <1>1, <2>1 DEF Balance
  <2>4. Searched'
    BY <1>1, <2>1 DEF Searched, Tried
  <2> QED
    BY <2>2, <2>3, <2>4
<1>3. CASE OpenDevice
  <2>1. /\ Opened(i) /\ handle' = i /\ pass' = "reading" /\ UNCHANGED <<i, missed>>
    BY <1>3 DEF OpenDevice
  <2>2. handles' \in [Positions -> 0 .. 1] /\ ref_count' \in [Positions -> 0 .. 2]
    BY <1>1, <2>1 DEF Opened, LookupTypeOK, Balance
  <2>3. LookupTypeOK'
    BY <1>1, <2>1, <2>2 DEF LookupTypeOK
  <2>4. Balance'
    BY <1>1, <2>1 DEF Opened, LookupTypeOK, Balance
  <2>5. Searched'
    BY <1>1, <2>1 DEF Searched, Tried
  <2> QED
    BY <2>3, <2>4, <2>5
<1> QED
  BY <1>2, <1>3

\* What a device's descriptor can become by reading it.
LEMMA DescribedIsListed ==
  ASSUME NEW x \in Listed, NEW d \in Described(x)
  PROVE  d \in Listed /\ d.matches = x.matches /\ Cached(d)
<1>1. CASE Cached(x)
  <2>1. d = x
    BY <1>1 DEF Described
  <2> QED
    BY <1>1, <2>1
<1>2. CASE ~Cached(x)
  <2>1. x.matches \in BOOLEAN /\ x \in [matches : BOOLEAN, descriptor : {"none", "whole", "cut"}, says : BOOLEAN]
    BY DEF Listed
  <2>2. CASE d = [x EXCEPT !.descriptor = "whole", !.says = x.matches]
    BY <2>1, <2>2 DEF Listed, Cached
  <2>3. CASE \E b \in BOOLEAN : d = [x EXCEPT !.descriptor = "cut", !.says = b]
    BY <2>1, <2>3 DEF Listed, Cached
  <2> QED
    BY <1>2, <2>2, <2>3 DEF Described
<1> QED
  BY <1>1, <1>2

\* The device that is open is kept, or closed again.
LEMMA ReadInv ==
  ASSUME SearchInv, ReadFails \/ ReadDescriptor
  PROVE  SearchInv'
<1> USE DEF SearchInv
<1>1. /\ handle = i /\ i \in Positions /\ pass = "reading" /\ pass' = "opened" /\ i' = i + 1
      /\ Len(device_list) \in Nat /\ Positions = 1 .. Len(device_list)
      /\ device_list \in [Positions -> Listed]
  BY ListType DEF ReadFails, ReadDescriptor, AfterRead, Balance, LookupTypeOK
<1>2. \/ Same
      \/ Closed(i) /\ handle' = 0
  BY DEF ReadFails, ReadDescriptor
<1>3. PICK x \in Listed :
        /\ device_list' = [device_list EXCEPT ![i] = x]
        /\ x.matches = device_list[i].matches
        /\ \/ Same /\ x.says /\ Cached(x)
           \/ Closed(i) /\ handle' = 0 /\ i \in missed'
           \/ Closed(i) /\ handle' = 0 /\ ~x.says /\ Cached(x)
  <2>1. CASE ReadFails
    <3>1. device_list' = [device_list EXCEPT ![i] = device_list[i]]
      BY <1>1, <2>1 DEF ReadFails
    <3> QED
      BY <1>1, <2>1, <3>1 DEF ReadFails
  <2>2. CASE ReadDescriptor
    <3>1. PICK x \in Described(device_list[i]) :
            /\ device_list' = [device_list EXCEPT ![i] = x]
            /\ IF x.says THEN Same ELSE Closed(i) /\ handle' = 0
      BY <2>2 DEF ReadDescriptor
    <3>2. x \in Listed /\ x.matches = device_list[i].matches /\ Cached(x)
      BY <1>1, <3>1, DescribedIsListed
    <3> QED
      BY <3>1, <3>2
  <2> QED
    BY <2>1, <2>2
<1>4. /\ device_list' \in Seq(Listed) /\ Positions' = Positions
      /\ Len(device_list') = Len(device_list)
      /\ device_list'[i] = x
      /\ \A d \in Positions : d # i => device_list'[d] = device_list[d]
  BY <1>1, <1>3 DEF LookupTypeOK, Positions
<1>5. missed' \subseteq Positions /\ missed \subseteq missed'
  BY <1>1 DEF ReadFails, ReadDescriptor, LookupTypeOK
<1>6. /\ handle' \in {0} \cup Positions /\ handles' \in [Positions -> 0 .. 1]
      /\ ref_count' \in [Positions -> 0 .. 2]
  <2>1. handles[i] = 1 /\ ref_count[i] = 2
    BY <1>1 DEF Balance
  <2>2. handles[i] - 1 \in 0 .. 1 /\ ref_count[i] - 1 \in 0 .. 2
    BY <2>1
  <2>3. CASE Same
    BY <1>1, <2>3 DEF Same, LookupTypeOK
  <2>4. CASE Closed(i) /\ handle' = 0
    BY <2>2, <2>4 DEF Closed, LookupTypeOK
  <2> QED
    BY <1>2, <2>3, <2>4
<1>7. LookupTypeOK'
  BY <1>1, <1>4, <1>5, <1>6 DEF LookupTypeOK
<1>8. Balance'
  <2>1. /\ \A d \in Positions :
             /\ handles'[d] = IF d = handle' THEN 1 ELSE 0
             /\ ref_count'[d] = handles'[d] + 1
    BY <1>1, <1>2 DEF Same, Closed, LookupTypeOK, Balance
  <2>2. handle' # 0 => Cached(device_list'[handle']) /\ device_list'[handle'].says
    BY <1>1, <1>3, <1>4 DEF Same
  <2> QED
    BY <1>1, <1>4, <2>1, <2>2 DEF Balance
<1>9. Searched'
  <2> SUFFICES ASSUME handle' = 0, NEW d \in Positions, d < i + 1, x.matches \/ d # i,
                      device_list'[d].matches
               PROVE  d \in missed' \/ Misread(device_list'[d])
    BY <1>1, <1>4 DEF Searched, Tried
  <2>1. CASE d # i
    BY <1>1, <1>4, <1>5, <2>1 DEF Searched, Tried
  <2>2. CASE d = i
    <3>1. i \in missed' \/ (~x.says /\ Cached(x))
      BY <1>1, <1>3 DEF Same
    <3>2. x.matches
      BY <1>4, <2>2
    <3>3. ~x.says /\ Cached(x) => Misread(x)
      BY <3>2 DEF Misread, Listed, Cached
    <3> QED
      BY <1>4, <2>2, <3>1, <3>3
  <2> QED
    BY <2>1, <2>2
<1> QED
  BY <1>7, <1>8, <1>9

\* From one loop to the next one.
LEMMA TurnInv ==
  ASSUME SearchInv, TurnToOpened \/ EndOfSearch
  PROVE  SearchInv'
<1> USE DEF SearchInv
<1>1. UNCHANGED <<device_list, handle, handles, ref_count, missed>> /\ i' = 1
  BY DEF TurnToOpened, EndOfSearch, Same
<1>2. LookupTypeOK'
  BY <1>1, ListType DEF TurnToOpened, EndOfSearch, LookupTypeOK, Positions
<1>3. Balance'
  BY <1>1, ListType DEF TurnToOpened, EndOfSearch, Balance, Positions
<1>4. Searched'
  BY <1>1, ListType DEF TurnToOpened, EndOfSearch, Goes, Searched, Tried, Positions
<1> QED
  BY <1>2, <1>3, <1>4

\* The list gives its references back, one device after the other.
LEMMA FreeInv ==
  ASSUME SearchInv, FreeList
  PROVE  SearchInv'
<1> USE DEF SearchInv
<1>1. UNCHANGED <<device_list, handle, handles, missed>> /\ Positions' = Positions
  BY DEF FreeList, Positions
<1>2. CASE i <= Len(device_list)
  <2>1. /\ i \in Positions /\ i' = i + 1 /\ pass' = "free" /\ pass = "free"
        /\ ref_count' = [ref_count EXCEPT ![i] = @ - 1]
    BY <1>2, ListType DEF FreeList
  <2>2. ref_count[i] - 1 \in 0 .. 1
    BY <2>1 DEF Balance, LookupTypeOK
  <2>3. LookupTypeOK'
    BY <1>1, <1>2, <2>1, <2>2, ListType DEF LookupTypeOK
  <2>4. Balance'
    BY <1>1, <2>1, ListType DEF Balance, LookupTypeOK
  <2>5. Searched'
    BY <1>1, <2>1 DEF Searched, Tried
  <2> QED
    BY <2>3, <2>4, <2>5
<1>3. CASE i > Len(device_list)
  <2>1. pass' = "done" /\ UNCHANGED <<i, ref_count>> /\ pass = "free"
    BY <1>3, ListType DEF FreeList
  <2> QED
    BY <1>1, <1>3, <2>1, ListType DEF LookupTypeOK, Balance, Searched, Tried
<1> QED
  BY <1>2, <1>3, ListType

\* Every reachable state satisfies the invariant.
LEMMA SearchInvariance == ASSUME LookupAssumption PROVE LookupSpec => []SearchInv
<1>1. LookupInit => SearchInv
  BY SearchInitInv
<1>2. SearchInv /\ [LookupStep]_lookupVars => SearchInv'
  <2>1. CASE UNCHANGED lookupVars
    BY <2>1 DEF lookupVars, SearchInv, LookupTypeOK, Balance, Searched, Tried, Positions
  <2> QED
    BY <2>1, TryCachedInv, SearchOpenInv, ReadInv, TurnInv, FreeInv DEF LookupStep
<1> QED
  BY <1>1, <1>2, PTL DEF LookupSpec

-----------------------------------------------------------------------------

\* Counts and positions stay in their ranges: no handle is opened twice and no
\* reference of libusby_open_device_with_vid_pid is given back twice.
THEOREM LookupTypeCorrect == LookupSpec => []LookupTypeOK
<1>1. SearchInv => LookupTypeOK
  BY DEF SearchInv
<1> QED
  BY <1>1, SearchInvariance, LookupAssumption, PTL

\* libusby_open_device_with_vid_pid finds a matching device if one can be opened
\* and read, and leaves no other handle open and no other reference behind.
THEOREM LookupCorrect == LookupSpec => []LookupIsExact
<1>1. SearchInv => LookupIsExact
  <2> SUFFICES ASSUME SearchInv, pass = "done" PROVE LookupIsExact
    BY DEF LookupIsExact
  <2>1. \A d \in Positions : handles[d] = (IF d = handle THEN 1 ELSE 0) /\ ref_count[d] = handles[d]
    BY DEF SearchInv, Balance, LookupTypeOK
  <2>2. ref_count = handles
    BY <2>1 DEF SearchInv, LookupTypeOK
  <2>3. ASSUME NEW x \in Listed, Cached(x), x.says
        PROVE  x.matches \/ Misread(x)
    <3>1. x.descriptor \in {"whole", "cut"} /\ (x.descriptor = "whole" => x.matches)
      BY <2>3 DEF Listed, Cached
    <3>2. ~x.matches => x.says # x.matches
      BY <2>3, Zenon
    <3> QED
      BY <3>1, <3>2, Zenon DEF Misread
  <2>4. handle # 0 => /\ handle \in Positions /\ device_list[handle] \in Listed
                      /\ Cached(device_list[handle]) /\ device_list[handle].says
    BY ListType DEF SearchInv, LookupTypeOK, Balance
  <2>5. handle = 0 => \A d \in Positions : Tried(d)
    BY DEF SearchInv, Searched
  <2> QED
    BY <2>1, <2>2, <2>3, <2>4, <2>5 DEF LookupIsExact, Tried
<1> QED
  BY <1>1, SearchInvariance, LookupAssumption, PTL

-----------------------------------------------------------------------------
(* What the runs of MCSession check.                                       *)

\* No request changes the system the library runs on.
LEMMA BackendStays == TransferStep => UNCHANGED backend
BY DEF TransferStep, Alloc, Fill, PerformTransfer, SubmitTransfer, CancelTransfer,
       WaitForTransfer, ControlTransfer, BulkTransfer, CallFails, Reap, WaitReturns, Fixed

\* The composition of the runs behaves as each of its three parts, so that
\* every theorem about one of them is about what the runs check.
THEOREM MCImplementsParts == MCSpec => TransferSpec /\ SessionSpec /\ LookupSpec
<1>1. MCInit => /\ TransferInit /\ SessionInit /\ LookupInit
                /\ backend \in {"linux", "win32"}
  BY DEF MCInit, TransferInit
<1>2. [MCNext]_allVars => [TransferStep]_transferVars
  BY DEF MCNext, allVars
<1>3. [MCNext]_allVars => [Step]_svars
  <2> SUFFICES ASSUME [MCNext]_allVars PROVE [Step]_svars
    OBVIOUS
  <2>1. CASE TransferStep /\ UNCHANGED sessionVars
    BY <2>1, BackendStays DEF svars
  <2>2. CASE UNCHANGED <<transferVars, sessionVars>>
    BY <2>2 DEF svars, transferVars
  <2>3. CASE SessionStep /\ UNCHANGED transferVars
    BY <2>3 DEF Step, transferVars
  <2> QED
    BY <2>1, <2>2, <2>3 DEF MCNext, allVars
<1>4. [MCNext]_allVars => [LookupStep]_lookupVars
  BY DEF MCNext, allVars
<1> QED
  BY <1>1, <1>2, <1>3, <1>4, PTL
     DEF MCSpec, TransferSpec, SessionSpec, LookupSpec, Step, svars

\* Transfers, handles and device lists keep their types together, for any
\* number of threads, handles and devices.
THEOREM MCTypeCorrect == MCSpec => []MCTypeOK
<1>1. TransferTypeOK /\ SessionTypeOK /\ LookupTypeOK => MCTypeOK
  BY DEF MCTypeOK
<1> QED
  BY <1>1, MCImplementsParts, TransferTypeCorrect, SessionTypeCorrect, LookupTypeCorrect, PTL

=============================================================================
