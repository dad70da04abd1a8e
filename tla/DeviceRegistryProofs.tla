------------------------ MODULE DeviceRegistryProofs ------------------------
(***************************************************************************)
(* Proofs about DeviceRegistry, for any number of threads, devices and     *)
(* objects: its types, the growing list, and, where the code has an order  *)
(* of its own (Windows) or is given one (serialised calls), the device     *)
(* list and the reference counts.                                          *)
(***************************************************************************)
EXTENDS DeviceRegistry, FiniteSetTheorems, TLAPS

\* Where a thread is says what it works on, and whether it has ctx_mutex.
LocatedAt(t) ==
  /\ pc[t] # "idle" => t \in setup.threads
  /\ list[t] # <<>> => t \in setup.threads
  /\ pc[t] = "walk" => cur[t] \in Nodes /\ visiting[t] \in Addresses
  /\ pc[t] \in {"enumref", "ref", "open"} => cur[t] \in Objects
  /\ drop[t] # <<>> => pc[t] \in {"drop", "store", "finalize", "unlink"}
  /\ pc[t] \in {"store", "finalize", "unlink"} => drop[t] # <<>>
  /\ pc[t] = "unlink" => ~setup.win32
  /\ pc[t] \in {"walk", "enumref"} => mutex = t
  /\ mutex = t => pc[t] \in {"walk", "enumref"} \/ (~setup.win32 /\ drop[t] # <<>>)

Located == \A t \in Threads : LocatedAt(t)

Base == TypeOK /\ Located

\* All steps of a thread, of applications in C and in C++ and without the bound
\* on calls.
Step(t) ==
  \/ GetDeviceList(t)
  \/ \E a \in Addresses : Skip(t, a) \/ Visit(t, a)
  \/ Walk(t)
  \/ VisitKnown(t)
  \/ \E d \in Objects : VisitNew(t, d) \/ VisitBad(t, d)
  \/ AllocDeviceFails(t)
  \/ StoreEnumRef(t)
  \/ EnumDone(t)
  \/ Outside(t) /\ FreeDeviceList(t)
  \/ Outside(t) /\ KeepDevices(t)
  \/ \E d \in Objects, l \in {"ref", "open"} :
       Outside(t) /\ Usable(t, d) /\ (Call \/ UNCHANGED calls) /\ Acquire(t, d, l)
  \/ \E d \in Objects : Outside(t) /\ (Close(t, d) \/ UnrefDevice(t, d))
  \/ StoreRef(t)
  \/ LoadUnref(t)
  \/ StoreUnref(t)
  \/ BeginUnlink(t)
  \/ Finalize(t)
  \/ NothingToDrop(t)

AnyNext ==
  \/ UNCHANGED vars
  \/ \E t \in Threads : Step(t) /\ ~crash /\ UNCHANGED setup

\* An application in C takes no others.
LEMMA StepCases == [Next]_vars => AnyNext
  BY DEF Next, LibraryStep, Enumerate, Unref, ClientStep, Step, AnyNext

-----------------------------------------------------------------------------
(* Types.                                                                  *)

LEMMA BaseInit == Init => Base
  <1> SUFFICES ASSUME Init PROVE Base
    OBVIOUS
  <1> USE ConstantsAssumption DEF ConstantsAssumption, Init
  <1>1. /\ list \in [Threads -> Seq(Objects)]
        /\ drop \in [Threads -> Seq(Objects)]
    OBVIOUS
  <1>2. /\ cur \in [Threads -> Nodes \cup {NoObject}]
        /\ next \in [Nodes -> Nodes]
        /\ prev \in [Nodes -> Nodes]
        /\ pc \in [Threads -> PC]
        /\ todo \in [Threads -> SUBSET Addresses]
        /\ visiting \in [Threads -> Addresses \cup {NoAddress}]
        /\ address \in [Objects -> Addresses \cup {NoAddress}]
        /\ ref_count \in [Objects -> Int] /\ tmp \in [Threads -> Int]
    BY DEF Nodes, PC
  <1>3. TypeOK
    BY <1>1, <1>2 DEF TypeOK
  <1>4. Located
    BY DEF Located, LocatedAt
  <1> QED
    BY <1>3, <1>4 DEF Base

LEMMA SetupTyped ==
  ASSUME TypeOK
  PROVE  setup \in SetupType /\ setup.devices \subseteq Addresses
  BY ConstantsAssumption DEF ConstantsAssumption, TypeOK, SetupType

-----------------------------------------------------------------------------
(* Counting the references in a list.                                      *)

LEMMA CountType ==
  ASSUME NEW S, NEW s \in Seq(S), NEW d
  PROVE  IsFiniteSet({i \in DOMAIN s : s[i] = d}) /\ Count(s, d) \in Nat
  <1>1. IsFiniteSet(1 .. Len(s))
    BY FS_Interval
  <1>2. {i \in DOMAIN s : s[i] = d} \in SUBSET (1 .. Len(s))
    OBVIOUS
  <1>3. IsFiniteSet({i \in DOMAIN s : s[i] = d})
    BY <1>1, <1>2, FS_Subset
  <1> QED
    BY <1>3, FS_CardinalityType DEF Count

LEMMA CountPositive ==
  ASSUME NEW S, NEW s \in Seq(S), NEW d
  PROVE  Count(s, d) > 0 <=> \E i \in DOMAIN s : s[i] = d
  <1> DEFINE P == {i \in DOMAIN s : s[i] = d}
  <1>1. Count(s, d) = 0 <=> P = {}
    BY CountType, FS_EmptySet DEF Count
  <1>2. P # {} <=> \E i \in DOMAIN s : s[i] = d
    OBVIOUS
  <1> HIDE DEF P
  <1>3. Count(s, d) \in Nat
    BY CountType
  <1> QED
    BY <1>1, <1>2, <1>3

LEMMA CountEmpty ==
  ASSUME NEW d
  PROVE  Count(<<>>, d) = 0
  <1>1. {i \in DOMAIN << >> : << >>[i] = d} = {}
    OBVIOUS
  <1> QED
    BY <1>1, FS_EmptySet DEF Count

LEMMA CountAppend ==
  ASSUME NEW S, NEW s \in Seq(S), NEW e \in S, NEW d
  PROVE  Count(Append(s, e), d) = Count(s, d) + (IF d = e THEN 1 ELSE 0)
  <1> DEFINE n == Len(s)
             r == Append(s, e)
             P == {i \in DOMAIN s : s[i] = d}
             Q == {i \in DOMAIN r : r[i] = d}
  <1>1. /\ DOMAIN r = (DOMAIN s) \cup {n + 1}
        /\ r[n + 1] = e
        /\ \A i \in DOMAIN s : r[i] = s[i]
        /\ n + 1 \notin DOMAIN s
    OBVIOUS
  <1>2. Count(s, d) = Cardinality(P) /\ Count(r, d) = Cardinality(Q)
    BY DEF Count
  <1>3. IsFiniteSet(P)
    BY CountType
  <1> HIDE DEF n, r
  <1>4. Q = (IF d = e THEN P \cup {n + 1} ELSE P) /\ n + 1 \notin P
    BY <1>1
  <1> HIDE DEF P, Q
  <1>5. Cardinality(Q) = Cardinality(P) + (IF d = e THEN 1 ELSE 0)
    <2>1. CASE d = e
      BY <2>1, <1>3, <1>4, FS_AddElement
    <2>2. CASE d # e
      BY <2>2, <1>3, <1>4, FS_CardinalityType
    <2> QED
      BY <2>1, <2>2
  <1> QED
    BY <1>2, <1>5 DEF r

LEMMA CountTail ==
  ASSUME NEW S, NEW s \in Seq(S), s # <<>>, NEW d
  PROVE  Count(s, d) = Count(Tail(s), d) + (IF d = s[1] THEN 1 ELSE 0)
  <1> DEFINE r == Tail(s)
             P == {i \in DOMAIN r : r[i] = d}
             Q == {i \in DOMAIN s : s[i] = d}
             f == [i \in P |-> i + 1]
  <1>1. /\ \A i \in DOMAIN r : i \in Nat /\ i + 1 \in DOMAIN s /\ i + 1 # 1 /\ r[i] = s[i + 1]
        /\ \A j \in DOMAIN s \ {1} : j \in Int /\ j - 1 \in DOMAIN r /\ r[j - 1] = s[j]
        /\ 1 \in DOMAIN s
        /\ r \in Seq(S)
    OBVIOUS
  <1>2. Count(s, d) = Cardinality(Q) /\ Count(r, d) = Cardinality(P)
    BY DEF Count
  <1> HIDE DEF r
  <1>3. IsFiniteSet(P) /\ IsFiniteSet(Q)
    <2>1. r \in Seq(S)
      BY <1>1
    <2>2. IsFiniteSet({i \in DOMAIN r : r[i] = d}) /\ IsFiniteSet({i \in DOMAIN s : s[i] = d})
      BY <2>1, CountType
    <2> QED
      BY <2>1, <2>2
  <1>4. f \in [P -> Q \ {1}]
    BY <1>1
  <1>5. \A a, b \in P : f[a] = f[b] => a = b
    BY <1>1
  <1>6. ASSUME NEW j \in Q \ {1} PROVE \E i \in P : f[i] = j
    <2>1. j \in Int /\ j - 1 \in P
      BY <1>1
    <2>2. f[j - 1] = j
      BY <2>1
    <2> QED
      BY <2>1, <2>2
  <1>7. 1 \in Q <=> d = s[1]
    BY <1>1
  <1> HIDE DEF f, P, Q
  <1>8. f \in Bijection(P, Q \ {1})
    BY <1>4, <1>5, <1>6 DEF Bijection, Injection, Surjection, IsInjective
  <1>9. ExistsBijection(P, Q \ {1})
    BY <1>8 DEF ExistsBijection
  <1>10. Cardinality(Q \ {1}) = Cardinality(P)
    BY <1>9, <1>3, FS_Bijection
  <1>11. Cardinality(Q \ {1}) = IF 1 \in Q THEN Cardinality(Q) - 1 ELSE Cardinality(Q)
    BY <1>3, FS_RemoveElement
  <1>12. Cardinality(P) \in Nat /\ Cardinality(Q) \in Nat
    BY <1>3, FS_CardinalityType
  <1> QED
    BY <1>2, <1>7, <1>10, <1>11, <1>12 DEF r

LEMMA CountOne ==
  ASSUME NEW S, NEW e \in S, NEW d
  PROVE  Count(<<e>>, d) = IF d = e THEN 1 ELSE 0
  <1>1. <<e>> \in Seq(S) /\ <<e>> # <<>> /\ Tail(<<e>>) = <<>> /\ <<e>>[1] = e
    OBVIOUS
  <1>2. Count(<<e>>, d) = Count(Tail(<<e>>), d) + (IF d = <<e>>[1] THEN 1 ELSE 0)
    BY <1>1, CountTail
  <1>3. Count(Tail(<<e>>), d) = 0
    BY <1>1, CountEmpty
  <1> QED
    BY <1>1, <1>2, <1>3

LEMMA CountFirst ==
  ASSUME NEW S, NEW e \in S, NEW s \in Seq(S), NEW d
  PROVE  Count(<<e>> \o s, d) = Count(s, d) + (IF d = e THEN 1 ELSE 0)
  <1>1. /\ <<e>> \o s \in Seq(S) /\ <<e>> \o s # <<>>
        /\ Tail(<<e>> \o s) = s /\ (<<e>> \o s)[1] = e
    OBVIOUS
  <1> QED
    BY <1>1, CountTail

LEMMA GetDeviceListType ==
  ASSUME Base, NEW t \in Threads, GetDeviceList(t), UNCHANGED setup
  PROVE  TypeOK'
  <1> USE DEF Base, TypeOK
  <1>1. calls' \in Nat
    BY DEF GetDeviceList, Call, Outside, Goto
  <1>2. pc' \in [Threads -> PC]
    BY DEF GetDeviceList, Call, Outside, Goto, PC
  <1>3. todo' \in [Threads -> SUBSET Addresses]
    BY SetupTyped DEF GetDeviceList, Call, Outside, Goto
  <1>4. list_cap' \in [Threads -> Nat]
    BY DEF GetDeviceList, Call, Outside, Goto
  <1> QED
    BY <1>1, <1>2, <1>3, <1>4 DEF GetDeviceList, sharedVars, linkVars, appVars, enumVars,
       threadVars, Call, Outside, Goto

LEMMA SkipType ==
  ASSUME Base, NEW t \in Threads, NEW a \in Addresses, Skip(t, a), UNCHANGED setup
  PROVE  TypeOK'
  <1> USE DEF Base, TypeOK
  <1>1. todo' \in [Threads -> SUBSET Addresses]
    BY DEF Skip
  <1> QED
    BY <1>1 DEF Skip, sharedVars, linkVars, appVars, enumVars, threadVars

LEMMA VisitType ==
  ASSUME Base, NEW t \in Threads, NEW a \in Addresses, Visit(t, a), UNCHANGED setup
  PROVE  TypeOK'
  <1> USE DEF Base, TypeOK, Located, LocatedAt
  <1>1. mutex' \in Threads \cup {NoThread}
    BY DEF Visit, Goto
  <1>2. pc' \in [Threads -> PC]
    BY DEF Visit, Goto, PC
  <1>3. todo' \in [Threads -> SUBSET Addresses]
    BY DEF Visit, Goto
  <1>4. visiting' \in [Threads -> Addresses \cup {NoAddress}]
    BY DEF Visit, Goto
  <1>5. cur' \in [Threads -> Nodes \cup {NoObject}]
    BY DEF Visit, Goto, Nodes
  <1> QED
    BY <1>1, <1>2, <1>3, <1>4, <1>5 DEF Visit, sharedVars, linkVars, appVars, enumVars,
       threadVars, Goto

LEMMA WalkType ==
  ASSUME Base, NEW t \in Threads, Walk(t), UNCHANGED setup
  PROVE  TypeOK'
  <1> USE DEF Base, TypeOK, Located, LocatedAt
  <1>1. cur' \in [Threads -> Nodes \cup {NoObject}]
    BY DEF Walk, Nodes
  <1>2. crash' \in BOOLEAN
    BY DEF Walk
  <1> QED
    BY <1>1, <1>2 DEF Walk, sharedVars, linkVars, appVars, enumVars, threadVars

LEMMA FailType ==
  ASSUME Base, NEW t \in Threads, NEW more \in Seq(Objects), Fail(t, more)
  PROVE  /\ drop' \in [Threads -> Seq(Objects)]
         /\ list' \in [Threads -> Seq(Objects)]
         /\ todo' \in [Threads -> SUBSET Addresses]
         /\ pc' \in [Threads -> PC]
  <1>1. more \o list[t] \in Seq(Objects)
    BY DEF Base, TypeOK
  <1> QED
    BY <1>1 DEF Base, TypeOK, Fail, Goto, PC

LEMMA VisitKnownType ==
  ASSUME Base, NEW t \in Threads, VisitKnown(t), UNCHANGED setup
  PROVE  TypeOK'
  <1> USE DEF Base, TypeOK, Located, LocatedAt
  <1>1. cur[t] \in Objects
    BY DEF VisitKnown, Nodes
  <1>2. /\ visiting' \in [Threads -> Addresses \cup {NoAddress}]
        /\ UNCHANGED <<next, prev, address, ref_count, handles, extra, calls, crash>>
    BY DEF VisitKnown, linkVars, appVars
  <1>3. CASE /\ AppendTo(t, cur[t])
             /\ tmp' = [tmp EXCEPT ![t] = ref_count[cur[t]]]
             /\ Goto(t, "enumref")
             /\ UNCHANGED <<todo, mutex, cur, drop>>
    <2>1. list' \in [Threads -> Seq(Objects)]
      BY <1>1, <1>3 DEF AppendTo
    <2>2. list_cap' \in [Threads -> Nat]
      BY <1>3 DEF AppendTo, NewCapacity
    <2>3. pc' \in [Threads -> PC]
      BY <1>3 DEF Goto, PC
    <2>4. tmp' \in [Threads -> Int]
      BY <1>1, <1>3
    <2> QED
      BY <1>2, <1>3, <2>1, <2>2, <2>3, <2>4
  <1>4. CASE /\ Fail(t, <<>>)
             /\ mutex' = NoThread
             /\ Forget(t)
             /\ UNCHANGED list_cap
    <2>1. <<>> \in Seq(Objects)
      OBVIOUS
    <2>2. tmp' \in [Threads -> Int] /\ cur' \in [Threads -> Nodes \cup {NoObject}]
      BY <1>4 DEF Forget
    <2> QED
      BY <1>2, <1>4, <2>1, <2>2, FailType
  <1> QED
    BY <1>3, <1>4 DEF VisitKnown

\* A new device is a node before the head of the list.
LEMMA RegisterType ==
  ASSUME Base, NEW t \in Threads, NEW d \in Objects, Register(t, d)
  PROVE  /\ next' \in [Nodes -> Nodes]
         /\ prev' \in [Nodes -> Nodes]
         /\ address' \in [Objects -> Addresses \cup {NoAddress}]
         /\ ref_count' \in [Objects -> Int]
         /\ visiting' \in [Threads -> Addresses \cup {NoAddress}]
         /\ cur' \in [Threads -> Nodes \cup {NoObject}]
         /\ tmp' \in [Threads -> Int]
         /\ crash' \in BOOLEAN
  <1> USE DEF Base, TypeOK, Register
  <1>1. d \in Nodes /\ ListHead \in Nodes /\ prev[ListHead] \in Nodes
    BY DEF Nodes
  <1>2. next' \in [Nodes -> Nodes]
    BY <1>1 DEF Insert
  <1>3. prev' \in [Nodes -> Nodes]
    BY <1>1 DEF Insert
  <1>4. visiting[t] \in Addresses
    BY DEF Located, LocatedAt
  <1>5. cur' \in [Threads -> Nodes \cup {NoObject}] /\ tmp' \in [Threads -> Int]
    BY DEF Forget
  <1>6. crash' \in BOOLEAN
    BY DEF Insert, Dangling
  <1>7. /\ address' \in [Objects -> Addresses \cup {NoAddress}]
        /\ ref_count' \in [Objects -> Int]
        /\ visiting' \in [Threads -> Addresses \cup {NoAddress}]
    BY <1>4
  <1> QED
    BY <1>2, <1>3, <1>5, <1>6, <1>7

LEMMA VisitNewType ==
  ASSUME Base, NEW t \in Threads, NEW d \in Objects, VisitNew(t, d), UNCHANGED setup
  PROVE  TypeOK'
  <1> USE DEF Base, TypeOK, VisitNew
  <1>1. list' \in [Threads -> Seq(Objects)]
    BY DEF AppendTo
  <1>2. list_cap' \in [Threads -> Nat]
    BY DEF AppendTo, NewCapacity
  <1>3. pc' \in [Threads -> PC]
    BY DEF Goto, PC
  <1> QED
    BY <1>1, <1>2, <1>3, RegisterType DEF appVars

LEMMA VisitBadType ==
  ASSUME Base, NEW t \in Threads, NEW d \in Objects, VisitBad(t, d), UNCHANGED setup
  PROVE  TypeOK'
  <1> USE DEF VisitBad
  <1>0. <<d>> \in Seq(Objects)
    OBVIOUS
  <1>1. CASE setup.win32
    <2>1. Fail(t, <<d>>) /\ mutex' = NoThread
      BY <1>1
    <2> QED
      BY <1>0, <2>1, RegisterType, FailType DEF Base, TypeOK, appVars
  <1>2. CASE ~setup.win32
    <2>1. /\ drop' \in [Threads -> Seq(Objects)]
          /\ todo' \in [Threads -> SUBSET Addresses]
          /\ pc' \in [Threads -> PC]
      BY <1>0, <1>2 DEF Base, TypeOK, Goto, PC
    <2> QED
      BY <1>2, <2>1, RegisterType DEF Base, TypeOK, appVars
  <1> QED
    BY <1>1, <1>2

LEMMA AllocDeviceFailsType ==
  ASSUME Base, NEW t \in Threads, AllocDeviceFails(t), UNCHANGED setup
  PROVE  TypeOK'
  <1> USE DEF Base, TypeOK
  <1>1. crash' \in BOOLEAN
    BY DEF AllocDeviceFails
  <1> QED
    BY <1>1 DEF AllocDeviceFails, sharedVars, linkVars, appVars, enumVars, threadVars

LEMMA StoreEnumRefType ==
  ASSUME Base, NEW t \in Threads, StoreEnumRef(t), UNCHANGED setup
  PROVE  TypeOK'
  <1> USE DEF Base, TypeOK, Located, LocatedAt
  <1>1. ref_count' \in [Objects -> Int]
    BY DEF StoreEnumRef, Goto, Forget, Referenced, Loaded
  <1>2. mutex' \in Threads \cup {NoThread}
    BY DEF StoreEnumRef, Goto, Forget, Referenced, Loaded
  <1>3. pc' \in [Threads -> PC]
    BY DEF StoreEnumRef, Goto, Forget, Referenced, Loaded, PC
  <1>4. cur' \in [Threads -> Nodes \cup {NoObject}]
    BY DEF StoreEnumRef, Goto, Forget, Referenced, Loaded, Nodes
  <1>5. tmp' \in [Threads -> Int]
    BY DEF StoreEnumRef, Goto, Forget, Referenced, Loaded
  <1>6. crash' \in BOOLEAN
    BY DEF StoreEnumRef, Goto, Forget, Referenced, Loaded
  <1> QED
    BY <1>1, <1>2, <1>3, <1>4, <1>5, <1>6 DEF StoreEnumRef, sharedVars, linkVars, appVars,
       enumVars, threadVars, Goto, Forget, Referenced, Loaded

LEMMA EnumDoneType ==
  ASSUME Base, NEW t \in Threads, EnumDone(t), UNCHANGED setup
  PROVE  TypeOK'
  <1> USE DEF Base, TypeOK
  <1>1. pc' \in [Threads -> PC]
    BY DEF EnumDone, Goto, PC
  <1> QED
    BY <1>1 DEF EnumDone, sharedVars, linkVars, appVars, enumVars, threadVars, Goto

LEMMA FreeDeviceListType ==
  ASSUME Base, NEW t \in Threads, Outside(t), FreeDeviceList(t), UNCHANGED setup
  PROVE  TypeOK'
  <1> USE DEF Base, TypeOK
  <1>1. pc' \in [Threads -> PC]
    BY DEF FreeDeviceList, Drop, Goto, Outside, PC
  <1>2. list' \in [Threads -> Seq(Objects)]
    BY DEF FreeDeviceList, Drop, Goto, Outside
  <1>3. drop' \in [Threads -> Seq(Objects)]
    BY DEF FreeDeviceList, Drop, Goto, Outside
  <1> QED
    BY <1>1, <1>2, <1>3 DEF FreeDeviceList, sharedVars, linkVars, appVars, enumVars, threadVars,
       Drop, Goto

LEMMA KeepDevicesType ==
  ASSUME Base, NEW t \in Threads, Outside(t), KeepDevices(t), UNCHANGED setup
  PROVE  TypeOK'
  <1>1. extra' \in [Objects -> Nat]
    <2>1. list[t] \in Seq(Objects) /\ extra \in [Objects -> Nat]
      BY DEF Base, TypeOK
    <2>2. ASSUME NEW d \in Objects PROVE extra[d] + Count(list[t], d) \in Nat
      <3>1. Count(list[t], d) \in Nat
        BY <2>1, CountType
      <3>2. extra[d] \in Nat
        BY <2>1
      <3> QED
        BY <3>1, <3>2
    <2>3. extra' = [d \in Objects |-> extra[d] + Count(list[t], d)]
      BY DEF KeepDevices
    <2> QED
      BY <2>2, <2>3
  <1> USE DEF Base, TypeOK
  <1>2. list' \in [Threads -> Seq(Objects)]
    BY DEF KeepDevices, Outside
  <1> QED
    BY <1>1, <1>2 DEF KeepDevices, sharedVars, linkVars, appVars, enumVars, threadVars

LEMMA AcquireType ==
  ASSUME Base, NEW t \in Threads, NEW d \in Objects, NEW l \in {"ref", "open"},
         Outside(t), Call \/ UNCHANGED calls, Acquire(t, d, l), UNCHANGED setup
  PROVE  TypeOK'
  <1> USE DEF Base, TypeOK
  <1>1. pc' \in [Threads -> PC]
    BY DEF Acquire, Goto, Outside, Call, PC
  <1>2. cur' \in [Threads -> Nodes \cup {NoObject}]
    BY DEF Acquire, Goto, Outside, Call, Nodes
  <1>3. tmp' \in [Threads -> Int]
    BY DEF Acquire, Goto, Outside, Call
  <1>4. calls' \in Nat
    BY DEF Call
  <1> QED
    BY <1>1, <1>2, <1>3, <1>4 DEF Acquire, sharedVars, linkVars, appVars, enumVars, threadVars, Call, Goto

LEMMA CloseType ==
  ASSUME Base, NEW t \in Threads, NEW d \in Objects, Outside(t), Close(t, d), UNCHANGED setup
  PROVE  TypeOK'
  <1> USE DEF Base, TypeOK
  <1>1. handles' \in [Objects -> Nat]
    BY DEF Close, Drop, Goto, Outside
  <1>2. pc' \in [Threads -> PC]
    BY DEF Close, Drop, Goto, Outside, PC
  <1>3. drop' \in [Threads -> Seq(Objects)]
    BY DEF Close, Drop, Goto, Outside
  <1> QED
    BY <1>1, <1>2, <1>3 DEF Close, sharedVars, linkVars, appVars, enumVars, threadVars, Drop, Goto

LEMMA UnrefDeviceType ==
  ASSUME Base, NEW t \in Threads, NEW d \in Objects, Outside(t), UnrefDevice(t, d), UNCHANGED setup
  PROVE  TypeOK'
  <1> USE DEF Base, TypeOK
  <1>1. extra' \in [Objects -> Nat]
    BY DEF UnrefDevice, Drop, Goto, Outside
  <1>2. pc' \in [Threads -> PC]
    BY DEF UnrefDevice, Drop, Goto, Outside, PC
  <1>3. drop' \in [Threads -> Seq(Objects)]
    BY DEF UnrefDevice, Drop, Goto, Outside
  <1> QED
    BY <1>1, <1>2, <1>3 DEF UnrefDevice, sharedVars, linkVars, appVars, enumVars, threadVars,
       Drop, Goto

LEMMA StoreRefType ==
  ASSUME Base, NEW t \in Threads, StoreRef(t), UNCHANGED setup
  PROVE  TypeOK'
  <1> USE DEF Base, TypeOK, Located, LocatedAt
  <1>0. cur[t] \in Objects
    BY DEF StoreRef
  <1>1. ref_count' \in [Objects -> Int]
    BY <1>0 DEF StoreRef, Referenced, Loaded
  <1>2. \/ handles' = [handles EXCEPT ![cur[t]] = @ + 1] /\ UNCHANGED extra
        \/ extra' = [extra EXCEPT ![cur[t]] = @ + 1] /\ UNCHANGED handles
    BY DEF StoreRef
  <1>3. handles' \in [Objects -> Nat] /\ extra' \in [Objects -> Nat]
    <2>1. CASE handles' = [handles EXCEPT ![cur[t]] = @ + 1] /\ UNCHANGED extra
      BY <1>0, <2>1
    <2>2. CASE extra' = [extra EXCEPT ![cur[t]] = @ + 1] /\ UNCHANGED handles
      BY <1>0, <2>2
    <2> QED
      BY <1>2, <2>1, <2>2
  <1>4. pc' \in [Threads -> PC]
    BY DEF StoreRef, Goto, Forget, Referenced, Loaded, PC
  <1>5. cur' \in [Threads -> Nodes \cup {NoObject}]
    BY DEF StoreRef, Goto, Forget, Referenced, Loaded, Nodes
  <1>6. tmp' \in [Threads -> Int]
    BY DEF StoreRef, Goto, Forget, Referenced, Loaded
  <1>7. crash' \in BOOLEAN
    BY DEF StoreRef, Goto, Forget, Referenced, Loaded
  <1> QED
    BY <1>1, <1>2, <1>3, <1>4, <1>5, <1>6, <1>7 DEF StoreRef, sharedVars, linkVars, appVars,
       enumVars, threadVars, Goto, Forget, Referenced, Loaded

LEMMA LoadUnrefType ==
  ASSUME Base, NEW t \in Threads, LoadUnref(t), UNCHANGED setup
  PROVE  TypeOK'
  <1> USE DEF Base, TypeOK, Located, LocatedAt
  <1>1. pc' \in [Threads -> PC]
    BY DEF LoadUnref, Goto, PC
  <1>2. tmp' \in [Threads -> Int]
    BY DEF LoadUnref, Goto
  <1>3. crash' \in BOOLEAN
    BY DEF LoadUnref, Goto
  <1> QED
    BY <1>1, <1>2, <1>3 DEF LoadUnref, sharedVars, linkVars, appVars, enumVars, threadVars, Goto

LEMMA StoreUnrefType ==
  ASSUME Base, NEW t \in Threads, StoreUnref(t), UNCHANGED setup
  PROVE  TypeOK'
  <1> USE DEF Base, TypeOK, Located, LocatedAt
  <1>1. ref_count' \in [Objects -> Int]
    BY DEF StoreUnref, NextDrop, Goto, Forget, Loaded
  <1>2. mutex' \in Threads \cup {NoThread}
    BY DEF StoreUnref, NextDrop, Goto, Forget, Loaded
  <1>3. pc' \in [Threads -> PC]
    BY DEF StoreUnref, NextDrop, Goto, Forget, Loaded, PC
  <1>4. cur' \in [Threads -> Nodes \cup {NoObject}]
    BY DEF StoreUnref, NextDrop, Goto, Forget, Loaded, Nodes
  <1>5. tmp' \in [Threads -> Int]
    BY DEF StoreUnref, NextDrop, Goto, Forget, Loaded
  <1>6. drop' \in [Threads -> Seq(Objects)]
    <2>1. Tail(drop[t]) \in Seq(Objects)
      BY DEF StoreUnref
    <2> QED
      BY <2>1 DEF StoreUnref, NextDrop
  <1>7. crash' \in BOOLEAN
    BY DEF StoreUnref
  <1> QED
    BY <1>1, <1>2, <1>3, <1>4, <1>5, <1>6, <1>7 DEF StoreUnref, sharedVars, linkVars, appVars,
       enumVars, threadVars, NextDrop, Goto, Forget, Loaded

LEMMA BeginUnlinkType ==
  ASSUME Base, NEW t \in Threads, BeginUnlink(t), UNCHANGED setup
  PROVE  TypeOK'
  <1> USE DEF Base, TypeOK, Located, LocatedAt
  <1>1. prev' \in [Nodes -> Nodes]
    BY DEF BeginUnlink, RelinkPrev, Goto, Nodes
  <1>2. pc' \in [Threads -> PC]
    BY DEF BeginUnlink, RelinkPrev, Goto, PC
  <1>3. crash' \in BOOLEAN
    BY DEF BeginUnlink, RelinkPrev, Goto
  <1> QED
    BY <1>1, <1>2, <1>3 DEF BeginUnlink, sharedVars, linkVars, appVars, enumVars, threadVars,
       RelinkPrev, Goto

LEMMA FinalizeType ==
  ASSUME Base, NEW t \in Threads, Finalize(t), UNCHANGED setup
  PROVE  TypeOK'
  <1> USE DEF Base, TypeOK, Located, LocatedAt
  <1>0. drop[t][1] \in Objects /\ drop[t][1] \in Nodes
    BY DEF Finalize, Nodes
  <1>1. next' \in [Nodes -> Nodes]
    BY <1>0 DEF Finalize
  <1>2. prev' \in [Nodes -> Nodes]
    BY <1>0 DEF Finalize, RelinkPrev
  <1>3. address' \in [Objects -> Addresses \cup {NoAddress}]
    BY DEF Finalize, RelinkPrev, NextDrop, Goto
  <1>4. mutex' \in Threads \cup {NoThread}
    BY DEF Finalize, RelinkPrev, NextDrop, Goto
  <1>5. pc' \in [Threads -> PC]
    BY DEF Finalize, RelinkPrev, NextDrop, Goto, PC
  <1>6. drop' \in [Threads -> Seq(Objects)]
    BY DEF Finalize, RelinkPrev, NextDrop, Goto
  <1>7. crash' \in BOOLEAN
    BY DEF Finalize, RelinkPrev, NextDrop, Goto
  <1> QED
    BY <1>1, <1>2, <1>3, <1>4, <1>5, <1>6, <1>7 DEF Finalize, sharedVars, linkVars, appVars,
       enumVars, threadVars, RelinkPrev, NextDrop, Goto

LEMMA NothingToDropType ==
  ASSUME Base, NEW t \in Threads, NothingToDrop(t), UNCHANGED setup
  PROVE  TypeOK'
  <1> USE DEF Base, TypeOK
  <1>1. pc' \in [Threads -> PC]
    BY DEF NothingToDrop, Goto, PC
  <1> QED
    BY <1>1 DEF NothingToDrop, sharedVars, linkVars, appVars, enumVars, threadVars, Goto

LEMMA StepType ==
  ASSUME Base, NEW t \in Threads, Step(t), UNCHANGED setup
  PROVE  TypeOK'
  BY GetDeviceListType, SkipType, VisitType, WalkType, VisitKnownType, VisitNewType,
     VisitBadType, AllocDeviceFailsType, StoreEnumRefType, EnumDoneType, FreeDeviceListType,
     KeepDevicesType, AcquireType, CloseType, UnrefDeviceType, StoreRefType, LoadUnrefType,
     StoreUnrefType, BeginUnlinkType, FinalizeType, NothingToDropType
     DEF Step

-----------------------------------------------------------------------------
(* A thread and the others.                                                *)

\* A step of t leaves the other threads where they are.
Apart(t) ==
  \A u \in Threads \ {t} :
    /\ pc'[u] = pc[u] /\ visiting'[u] = visiting[u]
    /\ list'[u] = list[u] /\ list_cap'[u] = list_cap[u]
    /\ cur'[u] = cur[u] /\ tmp'[u] = tmp[u] /\ drop'[u] = drop[u]
    /\ mutex' = u <=> mutex = u

LEMMA StepApart ==
  ASSUME Base, NEW t \in Threads, Step(t)
  PROVE  Apart(t)
  <1> USE ConstantsAssumption DEF ConstantsAssumption, Base, TypeOK, Located, LocatedAt, Apart,
        sharedVars, enumVars, threadVars, Goto, Forget, AppendTo, Fail, Register, Drop, NextDrop
  <1>1. CASE GetDeviceList(t)
    BY <1>1 DEF GetDeviceList
  <1>2. CASE \E a \in Addresses : Skip(t, a) \/ Visit(t, a)
    BY <1>2 DEF Skip, Visit
  <1>3. CASE Walk(t)
    BY <1>3 DEF Walk
  <1>4. CASE VisitKnown(t)
    BY <1>4 DEF VisitKnown
  <1>5. CASE \E d \in Objects : VisitNew(t, d) \/ VisitBad(t, d)
    <2>1. ASSUME NEW d \in Objects, VisitNew(t, d) PROVE Apart(t)
      BY <2>1 DEF VisitNew
    <2>2. ASSUME NEW d \in Objects, VisitBad(t, d), setup.win32 PROVE Apart(t)
      BY <2>2 DEF VisitBad
    <2>3. ASSUME NEW d \in Objects, VisitBad(t, d), ~setup.win32 PROVE Apart(t)
      BY <2>3 DEF VisitBad
    <2> QED
      BY <1>5, <2>1, <2>2, <2>3
  <1>6. CASE AllocDeviceFails(t) \/ StoreEnumRef(t) \/ EnumDone(t)
    BY <1>6 DEF AllocDeviceFails, StoreEnumRef, EnumDone
  <1>7. CASE FreeDeviceList(t) \/ KeepDevices(t)
    BY <1>7 DEF FreeDeviceList, KeepDevices
  <1>8. CASE \E d \in Objects, l \in {"ref", "open"} : Acquire(t, d, l)
    BY <1>8 DEF Acquire
  <1>9. CASE \E d \in Objects : Close(t, d) \/ UnrefDevice(t, d)
    BY <1>9 DEF Close, UnrefDevice
  <1>10. CASE StoreRef(t) \/ LoadUnref(t) \/ NothingToDrop(t)
    BY <1>10 DEF StoreRef, LoadUnref, NothingToDrop
  <1>11. CASE StoreUnref(t)
    BY <1>11 DEF StoreUnref
  <1>12. CASE BeginUnlink(t)
    BY <1>12 DEF BeginUnlink
  <1>13. CASE Finalize(t)
    BY <1>13 DEF Finalize
  <1> QED
    BY <1>1, <1>2, <1>3, <1>4, <1>5, <1>6, <1>7, <1>8, <1>9, <1>10, <1>11, <1>12, <1>13 DEF Step

LEMMA TailEmpty ==
  ASSUME NEW s \in Seq(Objects), s # <<>>
  PROVE  Tail(s) = <<>> <=> Len(s) = 1
  <1> DEFINE r == Tail(s)
  <1>1. Len(s) \in Nat /\ Len(r) = Len(s) - 1 /\ r \in Seq(Objects)
    OBVIOUS
  <1> HIDE DEF r
  <1>2. r = <<>> <=> Len(r) = 0
    BY <1>1
  <1>3. Len(r) = 0 <=> Len(s) = 1
    BY <1>1
  <1> QED
    BY <1>2, <1>3 DEF r

\* After a reference was dropped, the thread goes on with the next or is done,
\* and gives the mutex back if it had it.
LEMMA NextDropLocated ==
  ASSUME Base, NEW t \in Threads, t \in setup.threads, drop[t] # <<>>, NextDrop(t), UNCHANGED setup
  PROVE  LocatedAt(t)'
  <1> USE ConstantsAssumption DEF ConstantsAssumption, Base, TypeOK, NextDrop, Goto
  <1>1. LocatedAt(t)
    BY DEF Located
  <1>2. Len(drop[t]) \in Nat /\ Len(drop[t]) # 0
    OBVIOUS
  <1>3. drop'[t] = <<>> <=> Len(drop[t]) = 1
    <2> DEFINE r == Tail(drop[t])
    <2>1. r = <<>> <=> Len(drop[t]) = 1
      BY TailEmpty
    <2>2. drop'[t] = r
      OBVIOUS
    <2> HIDE DEF r
    <2> QED
      BY <2>1, <2>2
  <1>4. CASE Len(drop[t]) > 1
    <2>1. pc'[t] = "drop" /\ mutex' = mutex /\ drop'[t] # <<>>
      <3> DEFINE n == Len(drop[t])
      <3>0. n \in Nat /\ n > 1
        BY <1>2, <1>4
      <3> HIDE DEF n
      <3>1. n # 1
        BY <3>0
      <3> USE DEF n
      <3>2. Goto(t, "drop") /\ UNCHANGED mutex
        BY <3>1
      <3> QED
        BY <1>3, <3>1, <3>2
    <2> QED
      BY <1>1, <2>1 DEF LocatedAt
  <1>5. CASE Len(drop[t]) = 1
    <2>1. pc'[t] \in {"idle", "enum"} /\ mutex' # t /\ drop'[t] = <<>>
      BY <1>5, <1>3
    <2> QED
      BY <1>1, <2>1 DEF LocatedAt
  <1> QED
    BY <1>4, <1>5, <1>2

LEMMA StepLocated ==
  ASSUME Base, NEW t \in Threads, Step(t), UNCHANGED setup
  PROVE  Located'
  <1> USE ConstantsAssumption DEF ConstantsAssumption, Base, TypeOK, Outside,
        sharedVars, enumVars, threadVars, Goto, Forget, AppendTo, Fail
  <1>0. ASSUME NEW u \in Threads \ {t} PROVE LocatedAt(u)'
    <2>1. LocatedAt(u)
      BY DEF Located
    <2> QED
      BY <2>1, StepApart DEF Apart, LocatedAt
  <1> USE DEF LocatedAt, Located
  <1>1. ASSUME GetDeviceList(t) PROVE LocatedAt(t)'
    BY <1>1 DEF GetDeviceList, Call
  <1>2. ASSUME \E a \in Addresses : Skip(t, a) PROVE LocatedAt(t)'
    BY <1>2 DEF Skip
  <1>3. ASSUME \E a \in Addresses : Visit(t, a) PROVE LocatedAt(t)'
    <2>1. /\ pc[t] = "enum" /\ pc'[t] = "walk" /\ mutex' = t /\ drop'[t] = drop[t]
          /\ visiting'[t] \in Addresses /\ cur'[t] = next[ListHead]
      BY <1>3 DEF Visit
    <2> QED
      BY <2>1 DEF Nodes
  <1>4. ASSUME Walk(t) PROVE LocatedAt(t)'
    BY <1>4 DEF Walk
  <1>5. ASSUME VisitKnown(t) PROVE LocatedAt(t)'
    <2>1. cur[t] \in Objects /\ mutex = t /\ drop[t] = <<>> /\ t \in setup.threads
      BY <1>5 DEF VisitKnown, Nodes
    <2>2. \/ pc'[t] = "enumref" /\ cur'[t] = cur[t] /\ mutex' = t /\ drop'[t] = <<>>
          \/ pc'[t] = "drop" /\ mutex' = NoThread /\ list'[t] = <<>>
      BY <1>5, <2>1 DEF VisitKnown
    <2> QED
      BY <2>1, <2>2
  <1>6. ASSUME \E d \in Objects : VisitNew(t, d) PROVE LocatedAt(t)'
    <2>1. mutex = t /\ drop[t] = <<>> /\ t \in setup.threads
      BY <1>6 DEF VisitNew, Register
    <2>2. pc'[t] = "enum" /\ mutex' = NoThread /\ drop'[t] = <<>>
      BY <1>6, <2>1 DEF VisitNew
    <2> QED
      BY <2>1, <2>2
  <1>7. ASSUME \E d \in Objects : VisitBad(t, d) PROVE LocatedAt(t)'
    <2>0. PICK d \in Objects : VisitBad(t, d)
      BY <1>7
    <2>1. mutex = t /\ t \in setup.threads
      BY <2>0 DEF VisitBad, Register
    <2>2. CASE setup.win32
      <3>1. pc'[t] = "drop" /\ mutex' = NoThread /\ list'[t] = <<>>
        BY <2>0, <2>2 DEF VisitBad
      <3> QED
        BY <2>1, <3>1
    <2>3. CASE ~setup.win32
      <3>1. pc'[t] = "drop" /\ mutex' = t /\ drop'[t] = <<d>> /\ list'[t] = list[t]
        BY <2>0, <2>1, <2>3 DEF VisitBad
      <3> QED
        BY <2>1, <2>3, <3>1
    <2> QED
      BY <2>2, <2>3
  <1>8. ASSUME AllocDeviceFails(t) PROVE LocatedAt(t)'
    BY <1>8 DEF AllocDeviceFails
  <1>9. ASSUME StoreEnumRef(t) PROVE LocatedAt(t)'
    BY <1>9 DEF StoreEnumRef
  <1>10. ASSUME EnumDone(t) PROVE LocatedAt(t)'
    BY <1>10 DEF EnumDone
  <1>11. ASSUME Outside(t) /\ (FreeDeviceList(t) \/ KeepDevices(t)) PROVE LocatedAt(t)'
    BY <1>11 DEF FreeDeviceList, KeepDevices, Drop
  <1>12. ASSUME \E d \in Objects, l \in {"ref", "open"} : Outside(t) /\ Acquire(t, d, l) PROVE LocatedAt(t)'
    BY <1>12 DEF Acquire
  <1>13. ASSUME \E d \in Objects : Outside(t) /\ (Close(t, d) \/ UnrefDevice(t, d)) PROVE LocatedAt(t)'
    <2>1. pc[t] = "idle" /\ t \in setup.threads /\ pc'[t] = "drop"
      BY <1>13 DEF Close, UnrefDevice, Drop
    <2>2. mutex' = mutex /\ mutex # t
      BY <1>13, <2>1 DEF Close, UnrefDevice
    <2> QED
      BY <2>1, <2>2
  <1>14. ASSUME StoreRef(t) PROVE LocatedAt(t)'
    BY <1>14 DEF StoreRef
  <1>15. ASSUME LoadUnref(t) PROVE LocatedAt(t)'
    BY <1>15 DEF LoadUnref
  <1>16. ASSUME NothingToDrop(t) PROVE LocatedAt(t)'
    BY <1>16 DEF NothingToDrop
  <1>17. ASSUME StoreUnref(t) PROVE LocatedAt(t)'
    <2>1. drop[t] # <<>> /\ t \in setup.threads /\ list' = list
      BY <1>17 DEF StoreUnref
    <2>2. \/ pc'[t] = "finalize" /\ drop' = drop /\ mutex' = mutex
          \/ NextDrop(t)
      BY <1>17 DEF StoreUnref
    <2> QED
      BY <1>17, <2>1, <2>2, NextDropLocated DEF StoreUnref
  <1>18. ASSUME BeginUnlink(t) PROVE LocatedAt(t)'
    BY <1>18 DEF BeginUnlink
  <1>19. ASSUME Finalize(t) PROVE LocatedAt(t)'
    <2>1. drop[t] # <<>> /\ t \in setup.threads /\ list' = list /\ NextDrop(t)
      BY <1>19 DEF Finalize
    <2> QED
      BY <1>19, <2>1, NextDropLocated DEF Finalize
  <1> HIDE DEF LocatedAt
  <1>20. LocatedAt(t)'
    BY <1>1, <1>2, <1>3, <1>4, <1>5, <1>6, <1>7, <1>8, <1>9, <1>10, <1>11, <1>12, <1>13, <1>14,
       <1>15, <1>16, <1>17, <1>18, <1>19 DEF Step
  <1> QED
    BY <1>0, <1>20

LEMMA BaseStep == Base /\ AnyNext => Base'
  <1> SUFFICES ASSUME Base, AnyNext PROVE Base'
    OBVIOUS
  <1>1. CASE UNCHANGED vars
    BY <1>1 DEF Base, TypeOK, Located, LocatedAt, vars, sharedVars, linkVars, appVars,
         threadVars, enumVars
  <1>2. CASE \E t \in Threads : Step(t) /\ UNCHANGED setup
    BY <1>2, StepType, StepLocated DEF Base
  <1> QED
    BY <1>1, <1>2 DEF AnyNext

\* Every variable of the registry keeps its type on both systems: a thread
\* that walks the list follows pointers to nodes, and one that changes a
\* count has an object.
THEOREM TypeCorrect == Spec => []TypeOK
  <1>1. Base => TypeOK
    BY DEF Base
  <1> QED
    BY <1>1, BaseInit, BaseStep, StepCases, PTL DEF Spec

-----------------------------------------------------------------------------
(* The growing list.                                                       *)

LEMMA AppendTerminated ==
  ASSUME Base, ListIsTerminated, NEW t \in Threads, NEW d \in Objects, AppendTo(t, d)
  PROVE  Len(list'[t]) < list_cap'[t]
  <1>1. Len(list[t]) \in Nat /\ list_cap[t] \in Nat
    BY DEF Base, TypeOK
  <1>2. Len(list'[t]) = Len(list[t]) + 1
    BY DEF Base, TypeOK, AppendTo
  <1>3. list_cap'[t] = NewCapacity(t)
    BY DEF Base, TypeOK, AppendTo
  <1>4. list[t] # <<>> => Len(list[t]) < list_cap[t]
    BY DEF ListIsTerminated
  <1> QED
    BY <1>1, <1>2, <1>3, <1>4 DEF NewCapacity, MustGrow

\* What a step does to the list of its thread.
LEMMA StepList ==
  ASSUME Base, NEW t \in Threads, Step(t)
  PROVE  \/ UNCHANGED <<list, list_cap>>
         \/ list'[t] = <<>>
         \/ \E d \in Objects : AppendTo(t, d)
  <1> USE DEF enumVars, threadVars
  <1>1. CASE GetDeviceList(t)
    BY <1>1 DEF GetDeviceList
  <1>2. CASE VisitKnown(t)
    <2>1. cur[t] \in Objects
      BY <1>2 DEF VisitKnown, Base, Located, LocatedAt, Nodes
    <2> QED
      BY <1>2, <2>1 DEF VisitKnown, Fail, Base, TypeOK
  <1>3. CASE \E d \in Objects : VisitNew(t, d)
    BY <1>3 DEF VisitNew
  <1>4. CASE \E d \in Objects : VisitBad(t, d)
    BY <1>4 DEF VisitBad, Fail, Base, TypeOK
  <1>5. CASE FreeDeviceList(t) \/ KeepDevices(t)
    BY <1>5 DEF FreeDeviceList, KeepDevices, Base, TypeOK
  <1>6. CASE \E a \in Addresses : Skip(t, a) \/ Visit(t, a)
    BY <1>6 DEF Skip, Visit
  <1>7. CASE Walk(t) \/ AllocDeviceFails(t) \/ StoreEnumRef(t) \/ EnumDone(t)
    BY <1>7 DEF Walk, AllocDeviceFails, StoreEnumRef, EnumDone
  <1>8. CASE \/ \E d \in Objects, l \in {"ref", "open"} : Acquire(t, d, l)
             \/ \E d \in Objects : Close(t, d) \/ UnrefDevice(t, d)
             \/ StoreRef(t)
    BY <1>8 DEF Acquire, Close, UnrefDevice, StoreRef
  <1>9. CASE LoadUnref(t) \/ StoreUnref(t) \/ BeginUnlink(t) \/ Finalize(t) \/ NothingToDrop(t)
    BY <1>9 DEF LoadUnref, StoreUnref, BeginUnlink, Finalize, NothingToDrop
  <1> QED
    BY <1>1, <1>2, <1>3, <1>4, <1>5, <1>6, <1>7, <1>8, <1>9 DEF Step

LEMMA TerminatedStep == Base /\ ListIsTerminated /\ AnyNext => ListIsTerminated'
  <1> SUFFICES ASSUME Base, ListIsTerminated, AnyNext PROVE ListIsTerminated'
    OBVIOUS
  <1>1. CASE UNCHANGED vars
    BY <1>1 DEF ListIsTerminated, vars, threadVars, enumVars
  <1>2. ASSUME NEW t \in Threads, Step(t) PROVE ListIsTerminated'
    <2>1. ASSUME NEW u \in Threads \ {t}, list'[u] # <<>> PROVE Len(list'[u]) < list_cap'[u]
      BY <1>2, <2>1, StepApart DEF Apart, ListIsTerminated
    <2>2. ASSUME list'[t] # <<>> PROVE Len(list'[t]) < list_cap'[t]
      BY <1>2, <2>2, StepList, AppendTerminated DEF ListIsTerminated
    <2> QED
      BY <2>1, <2>2 DEF ListIsTerminated
  <1> QED
    BY <1>1, <1>2 DEF AnyNext

\* usbyi_append_device_list always leaves room for the null behind the last
\* device, for lists of any length: libusby_free_device_list finds it.
THEOREM ListTerminated == Spec => []ListIsTerminated
  <1>1. Init => ListIsTerminated
    BY DEF Init, ListIsTerminated
  <1>2. Base /\ ListIsTerminated /\ AnyNext => ListIsTerminated'
    BY TerminatedStep
  <1> QED
    BY <1>1, <1>2, BaseInit, BaseStep, StepCases, PTL DEF Spec

-----------------------------------------------------------------------------
(* The device list as a sequence.                                          *)

\* The code keeps the list in order if a device is unlinked with the mutex
\* held, or if nobody else is in the library.
Ordered == setup.win32 \/ Serial

\* The nodes around devlist_head; both ends are devlist_head itself.
Node(s, i) == IF i \in 1 .. Len(s) THEN s[i] ELSE ListHead

\* next and p are the two directions of a list of the devices in s, which
\* are all there are.
Chain(s, p) ==
  /\ s \in Seq(Objects)
  /\ \A i, j \in 1 .. Len(s) : s[i] = s[j] => i = j
  /\ \A d \in Objects : Live(d) <=> \E i \in 1 .. Len(s) : s[i] = d
  /\ \A i \in 0 .. Len(s) : next[Node(s, i)] = Node(s, i + 1) /\ p[Node(s, i + 1)] = Node(s, i)

\* prev before the first store of usbyi_remove_devlist_node(d).
Unpatched(d) == [prev EXCEPT ![next[d]] = d]

Linked ==
  ~crash /\ Ordered =>
    /\ (\A t \in Threads : pc[t] # "unlink") => \E s : Chain(s, prev)
    /\ \A t \in Threads : pc[t] = "unlink" =>
         LET d == drop[t][1]
         IN  Live(d) /\ prev[next[d]] = prev[d] /\ \E s : Chain(s, Unpatched(d))

\* The devices a thread walked past have other addresses.
Walked ==
  ~crash /\ Ordered =>
    \A t \in Threads : pc[t] = "walk" =>
      \A s : Chain(s, prev) =>
        \E k \in 1 .. Len(s) + 1 :
          /\ cur[t] = Node(s, k)
          /\ \A j \in 1 .. k - 1 : address[s[j]] # visiting[t]

LEMMA NodeFacts ==
  ASSUME NEW s, NEW p, Chain(s, p)
  PROVE  /\ s \in Seq(Objects) /\ Len(s) \in Nat
         /\ Node(s, 0) = ListHead /\ Node(s, Len(s) + 1) = ListHead
         /\ \A i \in 1 .. Len(s) : Node(s, i) = s[i] /\ s[i] \in Objects /\ s[i] # ListHead
         /\ \A i, j \in 0 .. Len(s) : Node(s, i) = Node(s, j) => i = j
         /\ \A i, j \in 1 .. Len(s) + 1 : Node(s, i) = Node(s, j) => i = j
  <1>1. s \in Seq(Objects) /\ Len(s) \in Nat
    BY DEF Chain
  <1> DEFINE n == Len(s)
  <1>2. n \in Nat
    BY <1>1
  <1>3. \A i \in 1 .. n : s[i] \in Objects /\ s[i] # ListHead
    BY <1>1, ConstantsAssumption DEF ConstantsAssumption
  <1>4. \A i, j \in 1 .. n : s[i] = s[j] => i = j
    BY DEF Chain
  <1>5. \A i : Node(s, i) = IF i \in 1 .. n THEN s[i] ELSE ListHead
    BY DEF Node
  <1> HIDE DEF n
  <1>6. Node(s, 0) = ListHead /\ Node(s, n + 1) = ListHead
    BY <1>2, <1>5
  <1>7. \A i \in 1 .. n : Node(s, i) = s[i]
    BY <1>5
  <1>8. \A i, j \in 0 .. n : Node(s, i) = Node(s, j) => i = j
    BY <1>2, <1>3, <1>4, <1>5
  <1>9. \A i, j \in 1 .. n + 1 : Node(s, i) = Node(s, j) => i = j
    BY <1>2, <1>3, <1>4, <1>5
  <1> QED
    BY <1>1, <1>3, <1>6, <1>7, <1>8, <1>9 DEF n

\* usbyi_insert_before_devlist_node before the head appends the device.
LEMMA InsertChain ==
  ASSUME Base, NEW s, Chain(s, prev), NEW d \in Objects, ~Live(d), Insert(d),
         NEW a, a # NoAddress, address' = [address EXCEPT ![d] = a]
  PROVE  Chain(Append(s, d), prev)'
  <1> DEFINE n == Len(s)
             r == Append(s, d)
  <1>1. s \in Seq(Objects) /\ n \in Nat
    BY NodeFacts
  <1>2. /\ r \in Seq(Objects)
        /\ Len(r) = n + 1
        /\ \A i \in 1 .. n : r[i] = s[i]
        /\ r[n + 1] = d
    BY <1>1
  <1>3. \A i \in 1 .. n : s[i] \in Objects /\ Live(s[i]) /\ s[i] # d
    BY NodeFacts DEF Chain
  <1>4. \A i, j \in 1 .. n : s[i] = s[j] => i = j
    BY DEF Chain
  <1>5. \A e \in Objects : Live(e) <=> \E i \in 1 .. n : s[i] = e
    BY DEF Chain
  <1>6. \A i \in 0 .. n : next[Node(s, i)] = Node(s, i + 1) /\ prev[Node(s, i + 1)] = Node(s, i)
    BY DEF Chain
  <1>7. /\ next \in [Nodes -> Nodes] /\ prev \in [Nodes -> Nodes]
        /\ d \in Nodes /\ ListHead \in Nodes /\ d # ListHead /\ Objects \subseteq Nodes
    BY ConstantsAssumption DEF Base, TypeOK, Nodes, ConstantsAssumption
  <1>8. /\ Node(s, 0) = ListHead /\ Node(s, n + 1) = ListHead
        /\ \A i \in 1 .. n : Node(s, i) = s[i] /\ s[i] # ListHead
        /\ \A i, j \in 0 .. n : Node(s, i) = Node(s, j) => i = j
    BY NodeFacts
  <1>9. /\ Node(r, n + 1) = d
        /\ Node(r, n + 2) = ListHead
        /\ \A i \in 0 .. n : Node(r, i) = Node(s, i)
    BY <1>1, <1>2 DEF Node
  <1> HIDE DEF n, r
  <1>10. prev[ListHead] = Node(s, n)
    BY <1>1, <1>6, <1>8
  <1>11. /\ next' = [next EXCEPT ![d] = ListHead, ![Node(s, n)] = d]
         /\ prev' = [prev EXCEPT ![d] = Node(s, n), ![ListHead] = d]
    BY <1>10 DEF Insert
  <1>12. \A i \in 0 .. n : Node(s, i) \in Nodes /\ Node(s, i) # d
    BY <1>1, <1>3, <1>7, <1>8
  <1>13. ASSUME NEW i \in 0 .. n + 1
         PROVE  next'[Node(r, i)] = Node(r, i + 1) /\ prev'[Node(r, i + 1)] = Node(r, i)
    <2>1. CASE i = n + 1
      <3>1. next'[d] = ListHead
        BY <1>1, <1>7, <1>11, <1>12
      <3>2. prev'[ListHead] = d
        BY <1>7, <1>11
      <3> QED
        BY <2>1, <3>1, <3>2, <1>1, <1>9
    <2>2. CASE i = n
      <3>1. next'[Node(s, n)] = d
        BY <1>1, <1>7, <1>11, <1>12
      <3>2. prev'[d] = Node(s, n)
        BY <1>7, <1>11
      <3> QED
        BY <2>2, <3>1, <3>2, <1>1, <1>9
    <2>3. CASE i \in 0 .. n - 1
      <3>1. i \in 0 .. n /\ i + 1 \in 0 .. n /\ i + 1 \in 1 .. n /\ i # n /\ n \in 0 .. n
        BY <1>1, <2>3
      <3>2. Node(s, i) # Node(s, n) /\ Node(s, i + 1) # ListHead
        BY <3>1, <1>8
      <3>3. next'[Node(s, i)] = next[Node(s, i)]
        BY <3>1, <3>2, <1>11, <1>12, <1>7
      <3>4. prev'[Node(s, i + 1)] = prev[Node(s, i + 1)]
        BY <3>1, <3>2, <1>11, <1>12, <1>7
      <3> QED
        BY <3>1, <3>3, <3>4, <1>6, <1>9
    <2> QED
      BY <1>1, <2>1, <2>2, <2>3
  <1>14. \A i, j \in 1 .. n + 1 : r[i] = r[j] => i = j
    <2>1. \A i \in 1 .. n + 1 : i \in 1 .. n \/ i = n + 1
      BY <1>1
    <2> QED
      BY <2>1, <1>2, <1>3, <1>4
  <1>15. ASSUME NEW e \in Objects
         PROVE  Live(e)' <=> \E i \in 1 .. n + 1 : r[i] = e
    <2>1. Live(e)' <=> Live(e) \/ e = d
      BY DEF Live, Base, TypeOK
    <2>2. (\E i \in 1 .. n + 1 : r[i] = e) <=> (\E i \in 1 .. n : s[i] = e) \/ e = d
      BY <1>1, <1>2
    <2> QED
      BY <2>1, <2>2, <1>5
  <1> QED
    BY <1>2, <1>13, <1>14, <1>15 DEF Chain, r

\* s without its i-th element.
WithoutEntry(s, i) == [j \in 1 .. Len(s) - 1 |-> IF j < i THEN s[j] ELSE s[j + 1]]

\* The two stores of usbyi_remove_devlist_node take the device out.
LEMMA RemoveChain ==
  ASSUME Base, NEW s, NEW p \in [Nodes -> Nodes], Chain(s, p), NEW k \in 1 .. Len(s),
         next' = [next EXCEPT ![p[s[k]]] = next[s[k]]],
         prev' = [p EXCEPT ![next[s[k]]] = p[s[k]]],
         address' = [address EXCEPT ![s[k]] = NoAddress]
  PROVE  Chain(WithoutEntry(s, k), prev)'
  <1> DEFINE n == Len(s)
             r == WithoutEntry(s, k)
             d == s[k]
             N(i) == Node(s, i)
  <1>1. s \in Seq(Objects) /\ n \in Nat /\ k \in 1 .. n /\ d \in Objects
    BY NodeFacts
  <1>2. \A j \in 1 .. n - 1 : r[j] = IF j < k THEN s[j] ELSE s[j + 1]
    BY DEF WithoutEntry
  <1>3. r \in Seq(Objects) /\ Len(r) = n - 1
    <2>1. \A j \in 1 .. n - 1 : (IF j < k THEN s[j] ELSE s[j + 1]) \in Objects
      <3>1. \A j \in 1 .. n - 1 : j \in 1 .. n /\ j + 1 \in 1 .. n
        BY <1>1
      <3> QED
        BY <3>1, NodeFacts
    <2>2. n - 1 \in Nat
      BY <1>1
    <2> QED
      BY <2>1, <2>2 DEF WithoutEntry
  <1>4. \A i, j \in 1 .. n : s[i] = s[j] => i = j
    BY DEF Chain
  <1>5. \A e \in Objects : Live(e) <=> \E i \in 1 .. n : s[i] = e
    BY DEF Chain
  <1>6. \A i \in 0 .. n : next[N(i)] = N(i + 1) /\ p[N(i + 1)] = N(i)
    BY DEF Chain
  <1>7. /\ N(0) = ListHead /\ N(n + 1) = ListHead
        /\ \A i \in 1 .. n : N(i) = s[i] /\ s[i] \in Objects /\ s[i] # ListHead
        /\ \A i, j \in 0 .. n : N(i) = N(j) => i = j
        /\ \A i, j \in 1 .. n + 1 : N(i) = N(j) => i = j
    BY NodeFacts
  <1>8. \A i \in 0 .. n + 1 : N(i) \in Nodes
    <2>1. \A i \in 0 .. n + 1 : i = 0 \/ i \in 1 .. n \/ i = n + 1
      BY <1>1
    <2> QED
      BY <2>1, <1>7 DEF Nodes
  <1>9. \A i \in 0 .. n : Node(r, i) = IF i < k THEN N(i) ELSE N(i + 1)
    <2> SUFFICES ASSUME NEW i \in 0 .. n
                 PROVE  Node(r, i) = IF i < k THEN N(i) ELSE N(i + 1)
      OBVIOUS
    <2>1. Node(r, i) = IF i \in 1 .. n - 1 THEN r[i] ELSE ListHead
      BY <1>3 DEF Node
    <2>2. N(i) = (IF i \in 1 .. n THEN s[i] ELSE ListHead)
          /\ N(i + 1) = (IF i + 1 \in 1 .. n THEN s[i + 1] ELSE ListHead)
      BY DEF Node
    <2> HIDE DEF N, n, r, d
    <2> QED
      BY <2>1, <2>2, <1>1, <1>2
  <1> HIDE DEF N, n, r
  <1>10. d = N(k) /\ p[d] = N(k - 1) /\ next[d] = N(k + 1)
    <2>1. k - 1 \in 0 .. n /\ k - 1 + 1 = k /\ k \in 0 .. n
      BY <1>1
    <2> QED
      BY <2>1, <1>1, <1>6, <1>7
  <1>11. next' = [next EXCEPT ![N(k - 1)] = N(k + 1)] /\ prev' = [p EXCEPT ![N(k + 1)] = N(k - 1)]
    BY <1>10
  <1> HIDE DEF d
  <1>12. next \in [Nodes -> Nodes]
    BY DEF Base, TypeOK
  <1>13. ASSUME NEW i \in 0 .. n - 1
         PROVE  next'[Node(r, i)] = Node(r, i + 1) /\ prev'[Node(r, i + 1)] = Node(r, i)
    <2>0. i \in 0 .. n /\ i + 1 \in 0 .. n /\ k - 1 \in 0 .. n /\ k + 1 \in 1 .. n + 1
      BY <1>1
    <2>1. CASE i = k - 1
      <3>1. Node(r, i) = N(k - 1) /\ Node(r, i + 1) = N(k + 1)
        BY <1>1, <1>9, <2>0, <2>1
      <3>2. N(k - 1) \in Nodes /\ N(k + 1) \in Nodes
        BY <1>1, <1>8
      <3> QED
        BY <3>1, <3>2, <1>11, <1>12
    <2>2. CASE i < k - 1
      <3>1. Node(r, i) = N(i) /\ Node(r, i + 1) = N(i + 1)
        BY <1>1, <1>9, <2>0, <2>2
      <3>2. i + 1 \in 1 .. n + 1 /\ i # k - 1 /\ i + 1 # k + 1
        BY <1>1, <2>0, <2>2
      <3>3. N(i) # N(k - 1) /\ N(i + 1) # N(k + 1)
        BY <3>2, <2>0, <1>7
      <3>4. N(i) \in Nodes /\ N(i + 1) \in Nodes
        BY <1>1, <1>8
      <3>5. next'[N(i)] = next[N(i)] /\ prev'[N(i + 1)] = p[N(i + 1)]
        BY <3>3, <3>4, <1>11, <1>12
      <3> QED
        BY <3>1, <3>5, <2>0, <1>6
    <2>3. CASE i >= k
      <3>1. Node(r, i) = N(i + 1) /\ Node(r, i + 1) = N(i + 1 + 1)
        BY <1>1, <1>9, <2>0, <2>3
      <3>2. i + 1 \in 0 .. n /\ i + 1 + 1 \in 1 .. n + 1 /\ i + 1 # k - 1 /\ i + 1 + 1 # k + 1
        BY <1>1, <2>0, <2>3
      <3>3. N(i + 1) # N(k - 1) /\ N(i + 1 + 1) # N(k + 1)
        BY <3>2, <2>0, <1>7
      <3>4. N(i + 1) \in Nodes /\ N(i + 1 + 1) \in Nodes
        BY <1>1, <1>8
      <3>5. next'[N(i + 1)] = next[N(i + 1)] /\ prev'[N(i + 1 + 1)] = p[N(i + 1 + 1)]
        BY <3>3, <3>4, <1>11, <1>12
      <3> QED
        BY <3>1, <3>2, <3>5, <1>6
    <2> QED
      BY <1>1, <2>1, <2>2, <2>3
  <1>14. ASSUME NEW i \in 1 .. n - 1, NEW j \in 1 .. n - 1, r[i] = r[j] PROVE i = j
    <2>1. i \in 1 .. n /\ i + 1 \in 1 .. n /\ j \in 1 .. n /\ j + 1 \in 1 .. n
      BY <1>1
    <2> QED
      BY <2>1, <1>1, <1>2, <1>4, <1>14
  <1>15. ASSUME NEW e \in Objects
         PROVE  Live(e)' <=> \E i \in 1 .. n - 1 : r[i] = e
    <2>1. Live(e)' <=> Live(e) /\ e # d
      BY DEF Live, Base, TypeOK, d
    <2>2. ASSUME NEW i \in 1 .. n - 1, r[i] = e PROVE Live(e) /\ e # d
      <3>1. i \in 1 .. n /\ i + 1 \in 1 .. n
        BY <1>1
      <3> QED
        BY <2>2, <3>1, <1>1, <1>2, <1>4, <1>5 DEF d
    <2>3. ASSUME Live(e), e # d PROVE \E i \in 1 .. n - 1 : r[i] = e
      <3>1. PICK j \in 1 .. n : s[j] = e
        BY <2>3, <1>5
      <3>2. j # k
        BY <3>1, <2>3 DEF d
      <3>3. CASE j < k
        <4>1. j \in 1 .. n - 1 /\ r[j] = e
          BY <3>1, <3>3, <1>1, <1>2
        <4> QED
          BY <4>1
      <3>4. CASE j > k
        <4>1. j - 1 \in 1 .. n - 1 /\ ~(j - 1 < k) /\ j - 1 + 1 = j
          BY <3>1, <3>4, <1>1
        <4>2. r[j - 1] = e
          BY <4>1, <3>1, <1>2
        <4> QED
          BY <4>1, <4>2
      <3> QED
        BY <3>1, <3>2, <3>3, <3>4, <1>1
    <2> QED
      BY <2>1, <2>2, <2>3
  <1> QED
    BY <1>3, <1>13, <1>14, <1>15 DEF Chain, r

\* The steps that leave the device list alone.
LEMMA StepLinks ==
  ASSUME Base, NEW t \in Threads, Step(t)
  PROVE  \/ \E d \in Objects : VisitNew(t, d) \/ VisitBad(t, d)
         \/ BeginUnlink(t)
         \/ Finalize(t)
         \/ UNCHANGED <<next, prev, address>> /\ pc[t] # "unlink" /\ pc'[t] # "unlink"
  <1> USE DEF Base, TypeOK, sharedVars, linkVars, threadVars, Goto, Outside
  <1>1. CASE GetDeviceList(t) \/ (\E a \in Addresses : Skip(t, a) \/ Visit(t, a)) \/ Walk(t)
    BY <1>1 DEF GetDeviceList, Skip, Visit, Walk
  <1>2. CASE VisitKnown(t)
    BY <1>2 DEF VisitKnown, Fail
  <1>3. CASE AllocDeviceFails(t) \/ StoreEnumRef(t) \/ EnumDone(t)
    BY <1>3 DEF AllocDeviceFails, StoreEnumRef, EnumDone
  <1>4. CASE Outside(t) /\ (FreeDeviceList(t) \/ KeepDevices(t))
    BY <1>4 DEF FreeDeviceList, KeepDevices, Drop
  <1>5. CASE Outside(t) /\ \E d \in Objects, l \in {"ref", "open"} : Acquire(t, d, l)
    BY <1>5 DEF Acquire
  <1>6. CASE Outside(t) /\ \E d \in Objects : Close(t, d) \/ UnrefDevice(t, d)
    BY <1>6 DEF Close, UnrefDevice, Drop
  <1>7. CASE StoreRef(t) \/ LoadUnref(t) \/ NothingToDrop(t)
    BY <1>7 DEF StoreRef, LoadUnref, NothingToDrop
  <1>8. CASE StoreUnref(t)
    BY <1>8 DEF StoreUnref, NextDrop
  <1> QED
    BY <1>1, <1>2, <1>3, <1>4, <1>5, <1>6, <1>7, <1>8 DEF Step

\* With serialised calls the others are outside the library.
LEMMA OthersIdle ==
  ASSUME Base, Serial, NEW t \in Threads, pc[t] # "idle", NEW u \in Threads \ {t}
  PROVE  pc[u] = "idle"
  BY DEF Base, Located, LocatedAt, Serial

\* Where the order is kept nobody else is between the stores of an unlinking.
LEMMA NoneUnlinks ==
  ASSUME Base, Ordered, NEW t \in Threads, pc[t] \notin {"idle", "unlink"}
  PROVE  \A u \in Threads : pc[u] # "unlink"
  BY OthersIdle DEF Ordered, Base, Located, LocatedAt

\* Nobody walks when the list changes.
LEMMA NoneWalks ==
  ASSUME Base, Ordered, NEW t \in Threads, Apart(t), pc'[t] # "walk",
         \/ mutex = t
         \/ setup.win32 /\ mutex = NoThread
         \/ ~setup.win32 /\ pc[t] # "idle"
  PROVE  \A u \in Threads : pc'[u] # "walk"
  <1> SUFFICES ASSUME NEW u \in Threads \ {t} PROVE pc[u] # "walk"
    BY DEF Apart
  <1>1. CASE mutex = t \/ mutex = NoThread
    BY <1>1, ConstantsAssumption DEF Base, Located, LocatedAt, ConstantsAssumption
  <1>2. CASE ~setup.win32 /\ pc[t] # "idle"
    BY <1>2, OthersIdle DEF Ordered
  <1> QED
    BY <1>1, <1>2

LEMMA QuietLinked ==
  ASSUME Base, Linked, Ordered, ~crash, NEW t \in Threads, Apart(t), UNCHANGED setup,
         UNCHANGED <<next, prev, address>>, pc[t] # "unlink", pc'[t] # "unlink"
  PROVE  Linked'
  <1>1. \A u \in Threads : pc'[u] = "unlink" => pc[u] = "unlink" /\ drop'[u] = drop[u]
    BY DEF Apart
  <1>2. \A u \in Threads : pc[u] = "unlink" => pc'[u] = "unlink"
    BY DEF Apart
  <1>3. ASSUME \A u \in Threads : pc'[u] # "unlink" PROVE \E s : Chain(s, prev)'
    <2>1. PICK s : Chain(s, prev)
      BY <1>2, <1>3 DEF Linked
    <2>2. Chain(s, prev)'
      BY <2>1 DEF Chain, Live
    <2> QED
      BY <2>2
  <1>4. ASSUME NEW u \in Threads, pc'[u] = "unlink", NEW d, d = drop'[u][1]
        PROVE  Live(d)' /\ prev'[next'[d]] = prev'[d] /\ \E s : Chain(s, Unpatched(d))'
    <2>1. Live(d) /\ prev[next[d]] = prev[d] /\ \E s : Chain(s, Unpatched(d))
      BY <1>1, <1>4 DEF Linked
    <2>2. PICK s : Chain(s, Unpatched(d))
      BY <2>1
    <2>3. Chain(s, Unpatched(d))'
      BY <2>2 DEF Chain, Live, Unpatched
    <2> QED
      BY <2>1, <2>3 DEF Live
  <1> QED
    BY <1>3, <1>4 DEF Linked

\* A walk that comes back to the head has met every device.
LEMMA WalkedAll ==
  ASSUME Base, Walked, Ordered, ~crash, NEW t \in Threads, pc[t] = "walk", cur[t] = ListHead,
         NEW s, Chain(s, prev)
  PROVE  \A d \in Objects : Live(d) => address[d] # visiting[t]
  <1>1. PICK k \in 1 .. Len(s) + 1 :
          /\ cur[t] = Node(s, k)
          /\ \A j \in 1 .. k - 1 : address[s[j]] # visiting[t]
    BY DEF Walked
  <1>2. Len(s) \in Nat
    BY NodeFacts
  <1>3. k = Len(s) + 1
    <2>1. Len(s) + 1 \in 1 .. Len(s) + 1
      BY <1>2
    <2> QED
      BY <1>1, <2>1, NodeFacts
  <1>4. \A j \in 1 .. Len(s) : j \in 1 .. k - 1
    BY <1>2, <1>3
  <1> QED
    BY <1>1, <1>4 DEF Chain

LEMMA RegisterKeeps ==
  ASSUME Base, Linked, Walked, Ordered, OneDevicePerAddress, ~crash,
         NEW t \in Threads, NEW d \in Objects, Register(t, d),
         Apart(t), UNCHANGED setup, pc'[t] \in {"enum", "drop"}
  PROVE  Linked' /\ Walked' /\ OneDevicePerAddress'
  <1>1. pc[t] = "walk" /\ cur[t] = ListHead /\ ~Live(d) /\ Insert(d)
    BY DEF Register
  <1>2. mutex = t /\ visiting[t] \in Addresses
    BY <1>1 DEF Base, Located, LocatedAt
  <1>3. \A u \in Threads : pc[u] # "unlink"
    BY <1>1, NoneUnlinks
  <1>4. \A u \in Threads : pc'[u] # "unlink"
    BY <1>3 DEF Apart
  <1>5. \A u \in Threads : pc'[u] # "walk"
    BY <1>2, NoneWalks
  <1>6. PICK s : Chain(s, prev)
    BY <1>3 DEF Linked
  <1>7. address' = [address EXCEPT ![d] = visiting[t]]
    BY DEF Register
  <1>8. visiting[t] # NoAddress
    BY <1>2, ConstantsAssumption DEF ConstantsAssumption
  <1>9. Chain(Append(s, d), prev)'
    BY <1>1, <1>6, <1>7, <1>8, InsertChain
  <1>10. Linked'
    <2>1. \E q : Chain(q, prev)'
      BY <1>9
    <2> QED
      BY <2>1, <1>4 DEF Linked
  <1>11. Walked'
    BY <1>5 DEF Walked
  <1>12. OneDevicePerAddress'
    <2>1. \A e \in Objects : Live(e) => address[e] # visiting[t]
      BY <1>1, <1>6, WalkedAll
    <2>2. \A e \in Objects \ {d} : address'[e] = address[e]
      BY <1>7 DEF Base, TypeOK
    <2>3. address'[d] = visiting[t]
      BY <1>7 DEF Base, TypeOK
    <2> QED
      BY <2>1, <2>2, <2>3, <1>8 DEF OneDevicePerAddress, Live
  <1> QED
    BY <1>10, <1>11, <1>12

\* The address of the device being unlinked.
LEMMA DropTyped ==
  ASSUME Base, NEW t \in Threads, drop[t] # <<>>
  PROVE  drop[t][1] \in Objects /\ drop[t][1] \in Nodes
  BY DEF Base, TypeOK, Nodes

\* The neighbours of a device in the list.
LEMMA Neighbours ==
  ASSUME Base, NEW s, NEW p, Chain(s, p), NEW d \in Objects, Live(d)
  PROVE  /\ next[d] \in Nodes /\ next[d] # d /\ p[d] # d
         /\ p[next[d]] = d
         /\ next[p[d]] = d
         /\ ~Dangling(next[d]) /\ ~Dangling(p[d])
  <1>1. PICK k \in 1 .. Len(s) : s[k] = d
    BY DEF Chain
  <1>2. Len(s) \in Nat /\ k \in 0 .. Len(s) /\ k - 1 \in 0 .. Len(s) /\ k - 1 + 1 = k
        /\ k + 1 \in 1 .. Len(s) + 1 /\ k \in 1 .. Len(s) + 1 /\ k + 1 # k /\ k - 1 # k
    BY NodeFacts
  <1>3. d = Node(s, k)
    BY <1>1, NodeFacts
  <1>4. next[d] = Node(s, k + 1) /\ p[d] = Node(s, k - 1)
    BY <1>2, <1>3 DEF Chain
  <1>5. p[Node(s, k + 1)] = Node(s, k) /\ next[Node(s, k - 1)] = Node(s, k)
    BY <1>2 DEF Chain
  <1>6. Node(s, k + 1) # Node(s, k) /\ Node(s, k - 1) # Node(s, k)
    BY <1>2, NodeFacts
  <1>7. \A i : Node(s, i) = ListHead \/ \E j \in 1 .. Len(s) : Node(s, i) = s[j]
    BY DEF Node
  <1>8. \A i : ~Dangling(Node(s, i)) /\ Node(s, i) \in Nodes
    BY <1>7, NodeFacts DEF Dangling, Chain, Nodes
  <1> QED
    BY <1>3, <1>4, <1>5, <1>6, <1>8

LEMMA BeginUnlinkKeeps ==
  ASSUME Base, Linked, Walked, Ordered, OneDevicePerAddress, ~crash,
         NEW t \in Threads, BeginUnlink(t), Apart(t), UNCHANGED setup
  PROVE  Linked' /\ Walked' /\ OneDevicePerAddress'
  <1>0. PICK d \in Objects : d = drop[t][1] /\ d \in Nodes
    BY DropTyped DEF BeginUnlink, Base, Located, LocatedAt
  <1>1. /\ ~setup.win32 /\ pc[t] = "finalize" /\ pc' = [pc EXCEPT ![t] = "unlink"]
        /\ prev' = RelinkPrev(d) /\ UNCHANGED <<next, address, drop, ref_count>>
        /\ ~crash' => Live(d)
    BY <1>0 DEF BeginUnlink, Goto
  <1>2. pc'[t] = "unlink" /\ \A u \in Threads \ {t} : pc'[u] # "unlink"
    BY <1>1, NoneUnlinks DEF Base, TypeOK
  <1>3. PICK s : Chain(s, prev)
    BY <1>1, NoneUnlinks DEF Linked
  <1>4. ASSUME Live(d)
        PROVE  /\ Live(d)' /\ prev'[next'[d]] = prev'[d]
               /\ Chain(s, Unpatched(d))'
    <2>1. d \in Objects /\ d \in Nodes
      BY <1>0
    <2>2. next[d] \in Nodes /\ next[d] # d /\ prev[next[d]] = d
      BY <1>3, <1>4, <2>1, Neighbours
    <2>3. prev \in [Nodes -> Nodes]
      BY DEF Base, TypeOK
    <2>4. prev' = [prev EXCEPT ![next[d]] = prev[d]]
      BY <1>1 DEF RelinkPrev
    <2>5. prev'[next'[d]] = prev'[d]
      BY <2>1, <2>2, <2>3, <2>4, <1>1
    <2>6. [prev' EXCEPT ![next'[d]] = d] = prev
      BY <2>2, <2>3, <2>4, <1>1
    <2>7. Chain(s, Unpatched(d))'
      BY <1>1, <1>3, <2>6 DEF Chain, Live, Unpatched
    <2> QED
      BY <1>1, <1>4, <2>5, <2>7 DEF Live
  <1>5. Linked'
    <2>1. drop'[t][1] = d
      BY <1>0, <1>1
    <2>2. ~crash' => Live(d)' /\ prev'[next'[d]] = prev'[d] /\ \E q : Chain(q, Unpatched(d))'
      BY <1>1, <1>4
    <2> QED
      BY <2>1, <2>2, <1>2 DEF Linked
  <1>6. Walked'
    BY <1>1, <1>2, NoneWalks DEF Walked
  <1>7. OneDevicePerAddress'
    BY <1>1 DEF OneDevicePerAddress, Live
  <1> QED
    BY <1>5, <1>6, <1>7

LEMMA FinalizeKeeps ==
  ASSUME Base, Linked, Walked, Ordered, OneDevicePerAddress, ~crash,
         NEW t \in Threads, Finalize(t), Apart(t), UNCHANGED setup, Base'
  PROVE  Linked' /\ Walked' /\ OneDevicePerAddress'
  <1>1. PICK d \in Objects : d = drop[t][1] /\ d \in Nodes
    BY DropTyped DEF Finalize, Base, Located, LocatedAt
  <1>2. /\ next' = [next EXCEPT ![prev[d]] = next[d]]
        /\ address' = [address EXCEPT ![d] = NoAddress]
        /\ ~crash' => Live(d)
        /\ NextDrop(t)
    BY <1>1 DEF Finalize
  <1>3. \/ setup.win32 /\ pc[t] = "finalize" /\ mutex = NoThread /\ prev' = RelinkPrev(d)
        \/ ~setup.win32 /\ pc[t] = "unlink" /\ prev' = prev
    BY <1>1 DEF Finalize
  <1>4. pc'[t] \notin {"walk", "unlink"}
    BY <1>2 DEF NextDrop, Goto, Base, TypeOK
  <1>5. \A u \in Threads : pc'[u] # "unlink"
    <2>1. \A u \in Threads \ {t} : pc[u] # "unlink"
      BY <1>3, OthersIdle DEF Ordered, Base, Located, LocatedAt
    <2> QED
      BY <2>1, <1>4 DEF Apart
  <1>6. \A u \in Threads : pc'[u] # "walk"
    BY <1>3, <1>4, NoneWalks
  <1>7. ASSUME Live(d)
        PROVE  \E q : Chain(q, prev)'
    <2>1. prev \in [Nodes -> Nodes] /\ next \in [Nodes -> Nodes]
      BY DEF Base, TypeOK
    <2>2. CASE setup.win32
      <3>1. PICK s : Chain(s, prev)
        BY <1>3, <2>2, NoneUnlinks DEF Linked
      <3>2. PICK k \in 1 .. Len(s) : s[k] = d
        BY <3>1, <1>7 DEF Chain
      <3>3. prev' = [prev EXCEPT ![next[s[k]]] = prev[s[k]]]
        BY <1>3, <2>2, <3>2 DEF RelinkPrev
      <3>4. Chain(WithoutEntry(s, k), prev)'
        BY <1>2, <2>1, <3>1, <3>2, <3>3, RemoveChain
      <3> QED
        BY <3>4
    <2>3. CASE ~setup.win32
      <3>1. prev[next[d]] = prev[d] /\ \E s : Chain(s, Unpatched(d))
        BY <1>1, <1>3, <2>3 DEF Linked
      <3>2. PICK s : Chain(s, Unpatched(d))
        BY <3>1
      <3>3. PICK k \in 1 .. Len(s) : s[k] = d
        BY <3>2, <1>7 DEF Chain
      <3>4. next[d] \in Nodes /\ next[d] # d
        BY <3>2, <1>7, Neighbours
      <3>5. PICK p \in [Nodes -> Nodes] : p = Unpatched(d)
        BY <1>1, <2>1, <3>4 DEF Unpatched
      <3>6. p[d] = prev[d]
        BY <1>1, <2>1, <3>4, <3>5 DEF Unpatched
      <3>7. prev = [p EXCEPT ![next[d]] = p[d]]
        BY <2>1, <3>1, <3>4, <3>5, <3>6 DEF Unpatched
      <3>8. prev' = [p EXCEPT ![next[s[k]]] = p[s[k]]] /\ next' = [next EXCEPT ![p[s[k]]] = next[s[k]]]
        BY <1>2, <1>3, <2>3, <3>3, <3>6, <3>7
      <3>9. Chain(s, p)
        BY <3>2, <3>5
      <3>10. Chain(WithoutEntry(s, k), prev)'
        BY <1>2, <3>3, <3>8, <3>9, RemoveChain
      <3> QED
        BY <3>10
    <2> QED
      BY <2>2, <2>3
  <1>8. Linked'
    BY <1>2, <1>5, <1>7 DEF Linked
  <1>9. Walked'
    BY <1>6 DEF Walked
  <1>10. OneDevicePerAddress'
    BY <1>2 DEF OneDevicePerAddress, Live, Base, TypeOK
  <1> QED
    BY <1>8, <1>9, <1>10

\* Walking on keeps what was passed apart from the address looked for.
LEMMA WalkKeeps ==
  ASSUME Base, Walked, Ordered, ~crash, NEW t \in Threads, Step(t), Apart(t), UNCHANGED setup,
         UNCHANGED <<next, prev, address>>
  PROVE  Walked'
  <1>1. ASSUME NEW s, Chain(s, prev)' PROVE Chain(s, prev)
    BY <1>1 DEF Chain, Live
  <1>2. ASSUME NEW u \in Threads \ {t}, pc'[u] = "walk", NEW s, Chain(s, prev)'
        PROVE  \E k \in 1 .. Len(s) + 1 :
                 /\ cur'[u] = Node(s, k)
                 /\ \A j \in 1 .. k - 1 : address'[s[j]] # visiting'[u]
    BY <1>1, <1>2 DEF Walked, Apart
  <1>3. pc'[t] = "walk" /\ ~crash' => (\E a \in Addresses : Visit(t, a)) \/ Walk(t)
    <2> USE DEF Base, TypeOK, threadVars, Goto, Outside
    <2>1. CASE GetDeviceList(t) \/ (\E a \in Addresses : Skip(t, a)) \/ VisitKnown(t)
      BY <2>1 DEF GetDeviceList, Skip, VisitKnown, Fail
    <2>2. CASE \E d \in Objects : VisitNew(t, d)
      BY <2>2 DEF VisitNew
    <2>3. CASE \E d \in Objects : VisitBad(t, d)
      BY <2>3 DEF VisitBad, Fail
    <2>4. CASE AllocDeviceFails(t)
      BY <2>4 DEF AllocDeviceFails
    <2>5. CASE StoreEnumRef(t) \/ EnumDone(t)
      BY <2>5 DEF StoreEnumRef, EnumDone
    <2>6. CASE Outside(t) /\ (FreeDeviceList(t) \/ KeepDevices(t))
      BY <2>6 DEF FreeDeviceList, KeepDevices, Drop
    <2>7. CASE \E d \in Objects, l \in {"ref", "open"} : Acquire(t, d, l)
      BY <2>7 DEF Acquire
    <2>8. CASE \E d \in Objects : Close(t, d) \/ UnrefDevice(t, d)
      BY <2>8 DEF Close, UnrefDevice, Drop
    <2>9. CASE StoreRef(t) \/ LoadUnref(t) \/ NothingToDrop(t) \/ BeginUnlink(t)
      BY <2>9 DEF StoreRef, LoadUnref, NothingToDrop, BeginUnlink
    <2>10. CASE StoreUnref(t) \/ Finalize(t)
      BY <2>10 DEF StoreUnref, Finalize, NextDrop
    <2> QED
      BY <2>1, <2>2, <2>3, <2>4, <2>5, <2>6, <2>7, <2>8, <2>9, <2>10 DEF Step
  <1>4. ASSUME pc'[t] = "walk", ~crash', NEW s, Chain(s, prev)'
        PROVE  \E k \in 1 .. Len(s) + 1 :
                 /\ cur'[t] = Node(s, k)
                 /\ \A j \in 1 .. k - 1 : address'[s[j]] # visiting'[t]
    <2>0. Chain(s, prev) /\ Len(s) \in Nat
      BY <1>1, <1>4, NodeFacts
    <2>1. CASE \E a \in Addresses : Visit(t, a)
      <3>1. cur'[t] = next[ListHead]
        BY <2>1 DEF Visit, Base, TypeOK
      <3>2. next[Node(s, 0)] = Node(s, 1) /\ Node(s, 0) = ListHead
        <4>1. 0 \in 0 .. Len(s) /\ 0 + 1 = 1
          BY <2>0
        <4>2. next[Node(s, 0)] = Node(s, 0 + 1)
          BY <2>0, <4>1 DEF Chain
        <4> QED
          BY <2>0, <4>1, <4>2, NodeFacts
      <3>3. cur'[t] = Node(s, 1) /\ 1 \in 1 .. Len(s) + 1 /\ \A j : j \notin 1 .. 1 - 1
        BY <2>0, <3>1, <3>2
      <3> QED
        BY <3>3
    <2>2. CASE Walk(t)
      <3>1. /\ pc[t] = "walk" /\ cur[t] # ListHead /\ address[cur[t]] # visiting[t]
            /\ cur'[t] = next[cur[t]] /\ visiting'[t] = visiting[t]
        BY <2>2 DEF Walk, IsWanted, Base, TypeOK, enumVars
      <3>2. PICK k \in 1 .. Len(s) + 1 :
              /\ cur[t] = Node(s, k)
              /\ \A j \in 1 .. k - 1 : address[s[j]] # visiting[t]
        BY <2>0, <3>1 DEF Walked
      <3>3. k \in 1 .. Len(s) /\ k \in 0 .. Len(s) /\ k + 1 \in 1 .. Len(s) + 1
        <4>1. k # Len(s) + 1
          BY <2>0, <3>1, <3>2, NodeFacts
        <4> QED
          BY <2>0, <4>1
      <3>4. cur'[t] = Node(s, k + 1)
        BY <2>0, <3>1, <3>2, <3>3 DEF Chain
      <3>5. cur[t] = s[k]
        BY <2>0, <3>2, <3>3, NodeFacts
      <3>6. \A j \in 1 .. k + 1 - 1 : j \in 1 .. k - 1 \/ j = k
        BY <3>3
      <3> QED
        BY <3>1, <3>2, <3>3, <3>4, <3>5, <3>6
    <2> QED
      BY <1>3, <1>4, <2>1, <2>2
  <1> QED
    BY <1>2, <1>4 DEF Walked

ListInv == Base /\ (Ordered => OneDevicePerAddress) /\ Linked /\ Walked

LEMMA ListInvInit == Init => ListInv
  <1> SUFFICES ASSUME Init PROVE ListInv
    OBVIOUS
  <1>1. Chain(<<>>, prev)
    <2>1. /\ <<>> \in Seq(Objects) /\ Len(<<>>) = 0
          /\ \A i : i \notin 1 .. Len(<<>>)
      OBVIOUS
    <2>2. \A i : Node(<<>>, i) = ListHead
      BY <2>1 DEF Node
    <2>3. \A d \in Objects : ~Live(d)
      BY DEF Init, Live
    <2>4. next[ListHead] = ListHead /\ prev[ListHead] = ListHead
      BY DEF Init, Nodes
    <2> QED
      BY <2>1, <2>2, <2>3, <2>4 DEF Chain
  <1>2. \A t \in Threads : pc[t] = "idle"
    BY DEF Init
  <1>3. Linked
    BY <1>1, <1>2 DEF Linked
  <1>4. Walked
    BY <1>2 DEF Walked
  <1>5. OneDevicePerAddress
    BY DEF Init, OneDevicePerAddress, Live
  <1> QED
    BY <1>3, <1>4, <1>5, BaseInit DEF ListInv

LEMMA ListInvStep == ListInv /\ AnyNext => ListInv'
  <1> SUFFICES ASSUME ListInv, AnyNext PROVE ListInv'
    OBVIOUS
  <1>1. Base /\ Base'
    BY BaseStep DEF ListInv
  <1>2. CASE UNCHANGED vars
    BY <1>2, <1>1 DEF ListInv, vars, sharedVars, linkVars, threadVars, enumVars, Linked, Walked,
         Ordered, Serial, Chain, Live, Unpatched, OneDevicePerAddress
  <1>3. ASSUME NEW t \in Threads, Step(t), ~crash, UNCHANGED setup, Ordered
        PROVE  Linked' /\ Walked' /\ OneDevicePerAddress'
    <2>1. Apart(t) /\ Linked /\ Walked /\ OneDevicePerAddress
      BY <1>1, <1>3, StepApart DEF ListInv
    <2>2. ASSUME NEW d \in Objects, VisitNew(t, d) \/ VisitBad(t, d)
          PROVE  Register(t, d) /\ pc'[t] \in {"enum", "drop"}
      BY <2>2, <1>1 DEF VisitNew, VisitBad, Fail, Goto, Base, TypeOK
    <2>3. CASE \E d \in Objects : VisitNew(t, d) \/ VisitBad(t, d)
      BY <2>1, <2>2, <2>3, <1>1, <1>3, RegisterKeeps
    <2>4. CASE BeginUnlink(t)
      BY <2>1, <2>4, <1>1, <1>3, BeginUnlinkKeeps
    <2>5. CASE Finalize(t)
      BY <2>1, <2>5, <1>1, <1>3, FinalizeKeeps
    <2>6. CASE UNCHANGED <<next, prev, address>> /\ pc[t] # "unlink" /\ pc'[t] # "unlink"
      <3>1. Linked'
        BY <2>1, <2>6, <1>1, <1>3, QuietLinked
      <3>2. Walked'
        BY <2>1, <2>6, <1>1, <1>3, WalkKeeps
      <3> QED
        BY <3>1, <3>2, <2>1, <2>6 DEF OneDevicePerAddress, Live
    <2> QED
      BY <2>3, <2>4, <2>5, <2>6, <1>1, <1>3, StepLinks
  <1>4. ASSUME NEW t \in Threads, Step(t), ~crash, UNCHANGED setup
        PROVE  ListInv'
    <2>1. Ordered' <=> Ordered
      BY <1>4 DEF Ordered, Serial
    <2> QED
      BY <1>1, <1>3, <1>4, <2>1 DEF ListInv, Linked, Walked
  <1> QED
    BY <1>2, <1>4 DEF AnyNext

\* Induction over natural numbers by their least counterexample.
LEMMA LeastNat ==
  ASSUME NEW T \in SUBSET Nat, T # {}
  PROVE  \E x \in T : \A y \in T : x <= y
  <1> DEFINE F == {1 .. x : x \in T}
  <1>1. F \subseteq FiniteSubsetsOf(Nat) /\ F # {}
    <2>1. \A x \in T : x \in Int /\ 1 .. x \subseteq Nat
      OBVIOUS
    <2>2. \A x \in T : 1 .. x \in FiniteSubsetsOf(Nat)
      BY <2>1, FS_Interval DEF FiniteSubsetsOf
    <2> QED
      BY <2>2
  <1> HIDE DEF F
  <1>2. PICK I \in F : \A J \in F : ~(<<J, I>> \in StrictSubsetOrdering(Nat))
    BY <1>1, FS_StrictSubsetOrderingWellFounded, WFMin
  <1>3. PICK x \in T : I = 1 .. x
    BY DEF F
  <1>4. ASSUME NEW y \in T, y < x PROVE FALSE
    <2>1. 1 .. y \in F
      BY DEF F
    <2>2. 1 .. y \subseteq 1 .. x /\ 1 .. y # 1 .. x /\ 1 .. x \subseteq Nat
      BY <1>4
    <2>3. <<1 .. y, 1 .. x>> \in StrictSubsetOrdering(Nat)
      BY <2>2 DEF StrictSubsetOrdering
    <2> QED
      BY <1>2, <1>3, <2>1, <2>3
  <1> QED
    BY <1>4

\* What contains the head and the successor of every node it contains
\* contains the whole list.
LEMMA ChainConnected ==
  ASSUME NEW s, NEW p, Chain(s, p), NEW S, ListHead \in S, \A n \in S : next[n] \in S
  PROVE  \A i \in 0 .. Len(s) : Node(s, i) \in S
  <1> DEFINE Missing == {i \in 0 .. Len(s) : Node(s, i) \notin S}
  <1> SUFFICES ASSUME Missing # {} PROVE FALSE
    OBVIOUS
  <1>1. Missing \in SUBSET Nat
    OBVIOUS
  <1>2. PICK i \in Missing : \A j \in Missing : i <= j
    BY <1>1, LeastNat
  <1>3. i # 0 /\ Len(s) \in Nat
    BY NodeFacts
  <1>4. i \in Nat /\ i \in 0 .. Len(s) /\ i - 1 \in 0 .. Len(s) /\ i - 1 + 1 = i /\ ~(i <= i - 1)
    BY <1>3
  <1>5. Node(s, i - 1) \in S
    BY <1>2, <1>4
  <1>6. next[Node(s, i - 1)] = Node(s, i)
    BY <1>4 DEF Chain
  <1> QED
    BY <1>5, <1>6

LEMMA ChainIsIntact ==
  ASSUME Base, Ordered, Linked
  PROVE  ListIsIntact
  <1> SUFFICES ASSUME ~crash, \A t \in Threads : pc[t] # "unlink",
                      NEW present, present = {n \in Nodes : ~Dangling(n)}
               PROVE  /\ \A n \in present : next[n] \in present /\ prev[next[n]] = n
                      /\ \A S \in SUBSET present :
                           ListHead \in S /\ (\A n \in S : next[n] \in S) => S = present
    BY DEF ListIsIntact
  <1>1. PICK s : Chain(s, prev)
    BY DEF Linked
  <1>2. \A n \in present : \E i \in 0 .. Len(s) : n = Node(s, i)
    <2> SUFFICES ASSUME NEW n \in present PROVE \E i \in 0 .. Len(s) : n = Node(s, i)
      OBVIOUS
    <2>1. CASE n = ListHead
      <3>1. 0 \in 0 .. Len(s) /\ n = Node(s, 0)
        BY <2>1, <1>1, NodeFacts
      <3> QED
        BY <3>1
    <2>2. CASE n \in Objects /\ Live(n)
      <3>1. PICK i \in 1 .. Len(s) : s[i] = n
        BY <1>1, <2>2 DEF Chain
      <3>2. i \in 0 .. Len(s) /\ n = Node(s, i)
        BY <3>1, <1>1, NodeFacts
      <3> QED
        BY <3>2
    <2> QED
      BY <2>1, <2>2 DEF Nodes, Dangling
  <1>3. \A i \in 0 .. Len(s) + 1 : Node(s, i) \in present
    BY <1>1, NodeFacts DEF Node, Nodes, Dangling, Chain
  <1>4. ASSUME NEW n \in present PROVE next[n] \in present /\ prev[next[n]] = n
    <2>1. PICK i \in 0 .. Len(s) : n = Node(s, i)
      BY <1>2
    <2>2. next[n] = Node(s, i + 1) /\ prev[Node(s, i + 1)] = n
      BY <1>1, <2>1 DEF Chain
    <2>3. i + 1 \in 0 .. Len(s) + 1
      BY <1>1, NodeFacts
    <2> QED
      BY <2>2, <2>3, <1>3
  <1>5. ASSUME NEW S \in SUBSET present, ListHead \in S, \A n \in S : next[n] \in S
        PROVE  S = present
    BY <1>1, <1>2, <1>5, ChainConnected
  <1> QED
    BY <1>4, <1>5

LEMMA ListInvariant == Spec => []ListInv
  BY ListInvInit, ListInvStep, StepCases, PTL DEF Spec

\* usbyb_get_device_list makes no second object for a device it has one for,
\* however its walk under ctx_mutex interleaves with references given up
\* elsewhere: on Windows for any threads, on Linux for serialised calls.
THEOREM DevicesAreUnique == Spec => [](Ordered => OneDevicePerAddress)
  <1>1. ListInv => (Ordered => OneDevicePerAddress)
    BY DEF ListInv
  <1> QED
    BY <1>1, ListInvariant, PTL

\* The context's list stays circular in both directions and runs through
\* exactly the devices that exist: on Windows for any threads, also those
\* that race for a count, on Linux for serialised calls.
THEOREM ListStaysIntact == Spec => [](Ordered => ListIsIntact)
  <1>1. ListInv => (Ordered => ListIsIntact)
    BY ChainIsIntact DEF ListInv
  <1> QED
    BY <1>1, ListInvariant, PTL

-----------------------------------------------------------------------------
(* Reference counts of serialised calls.                                   *)

\* A device whose last reference t has given up, and which it has to free.
Unclaimed(t, d) == pc[t] \in {"finalize", "unlink"} /\ drop[t][1] = d

Balanced(t, d) ==
  /\ Live(d) => ref_count[d] = handles[d] + extra[d] + HeldBy(t, d)
  /\ handles[d] + extra[d] + HeldBy(t, d) > 0 => Live(d)
  /\ Live(d) => (ref_count[d] = 0 <=> Unclaimed(t, d))
  /\ Unclaimed(t, d) => Live(d)

\* The count a thread has loaded is still the count.
Fresh(t) ==
  /\ pc[t] \in {"enumref", "ref", "open"} => Live(cur[t]) /\ tmp[t] = ref_count[cur[t]]
  /\ pc[t] = "enumref" => Count(list[t], cur[t]) > 0
  /\ pc[t] = "store" => tmp[t] = ref_count[drop[t][1]]

CountedAt(t) == Fresh(t) /\ \A d \in Objects : Balanced(t, d)

\* Memory is corrupted only where usbyi_alloc_device clears what malloc did
\* not give it.
AllocCorrupts == crash => setup.allocFails /\ \E t \in Threads : pc[t] = "walk"

Counted ==
  Serial =>
    /\ \A t \in setup.threads : CountedAt(t)
    /\ \A d \in Objects : Live(d) => setup.threads # {}
    /\ \A d \in Objects : handles[d] + extra[d] > 0 => Live(d)
    /\ AllocCorrupts

\* What is counted are natural numbers.
LEMMA Naturals ==
  ASSUME Base, NEW t \in Threads, NEW d \in Objects
  PROVE  /\ Count(list[t], d) \in Nat /\ Count(drop[t], d) \in Nat
         /\ handles[d] \in Nat /\ extra[d] \in Nat /\ ref_count[d] \in Int
         /\ Unclaimed(t, d) => Count(drop[t], d) > 0
         /\ Fresh(t) => HeldBy(t, d) \in Nat
  <1>1. list[t] \in Seq(Objects) /\ drop[t] \in Seq(Objects)
    BY DEF Base, TypeOK
  <1>2. Count(list[t], d) \in Nat /\ Count(drop[t], d) \in Nat
    BY <1>1, CountType
  <1>3. handles[d] \in Nat /\ extra[d] \in Nat /\ ref_count[d] \in Int
    BY DEF Base, TypeOK
  <1>4. ASSUME Unclaimed(t, d) PROVE Count(drop[t], d) > 0
    <2>1. 1 \in DOMAIN drop[t] /\ drop[t][1] = d
      BY <1>1, <1>4 DEF Unclaimed, Base, Located, LocatedAt
    <2> QED
      BY <1>1, <2>1, CountPositive
  <1>5. ASSUME Fresh(t) PROVE HeldBy(t, d) \in Nat
    <2> DEFINE L == Count(list[t], d)
               D == Count(drop[t], d)
               E == pc[t] = "enumref" /\ cur[t] = d
               U == Unclaimed(t, d)
    <2>1. L \in Nat /\ D \in Nat /\ (E => L > 0) /\ (U => D > 0)
      BY <1>2, <1>4, <1>5 DEF Fresh
    <2>2. HeldBy(t, d) = L + D - (IF E THEN 1 ELSE 0) - (IF U THEN 1 ELSE 0)
      BY DEF HeldBy, Unclaimed
    <2> HIDE DEF L, D, E, U
    <2> QED
      BY <2>1, <2>2
  <1> QED
    BY <1>2, <1>3, <1>4, <1>5

\* A thread that holds no reference it has not counted, or dropped already.
Plain(t) == pc[t] \notin {"enumref", "finalize", "unlink"}

LEMMA PlainHeld ==
  ASSUME Base, NEW t \in Threads, Plain(t), NEW d \in Objects
  PROVE  HeldBy(t, d) = Count(list[t], d) + Count(drop[t], d) /\ ~Unclaimed(t, d)
  BY Naturals DEF HeldBy, Plain, Unclaimed

\* Steps that move references only: what the thread holds, with what the
\* application owns, stays the same.
LEMMA MoveBalanced ==
  ASSUME Base, Base', NEW t \in Threads, CountedAt(t), UNCHANGED <<ref_count, address>>,
         \A d \in Objects : handles'[d] + extra'[d] + HeldBy(t, d)' = handles[d] + extra[d] + HeldBy(t, d),
         \A d \in Objects : Unclaimed(t, d)' <=> Unclaimed(t, d)
  PROVE  \A d \in Objects : Balanced(t, d)'
  BY DEF CountedAt, Balanced, Live

LEMMA PlainHeldNext ==
  ASSUME Base', NEW t \in Threads, Plain(t)', NEW d \in Objects
  PROVE  /\ HeldBy(t, d)' = Count(list'[t], d) + Count(drop'[t], d)
         /\ ~Unclaimed(t, d)'
         /\ Count(list'[t], d) \in Nat /\ Count(drop'[t], d) \in Nat
  <1>1. list'[t] \in Seq(Objects) /\ drop'[t] \in Seq(Objects)
    BY DEF Base, TypeOK
  <1>2. Count(list'[t], d) \in Nat /\ Count(drop'[t], d) \in Nat
    BY <1>1, CountType
  <1>3. HeldBy(t, d)' = Count(list'[t], d) + Count(drop'[t], d) - 0 - 0
    BY DEF HeldBy, Plain
  <1> QED
    BY <1>2, <1>3 DEF Plain, Unclaimed

\* Steps after which the thread has the same references.
QuietRefs(t) ==
  \/ GetDeviceList(t)
  \/ \E a \in Addresses : Skip(t, a) \/ Visit(t, a)
  \/ Walk(t)
  \/ AllocDeviceFails(t)
  \/ EnumDone(t)
  \/ NothingToDrop(t)
  \/ LoadUnref(t)
  \/ \E d \in Objects, l \in {"ref", "open"} : Outside(t) /\ Usable(t, d) /\ Acquire(t, d, l)

LEMMA QuietRefsKept ==
  ASSUME Base, NEW t \in Threads, QuietRefs(t)
  PROVE  /\ UNCHANGED <<list, drop, ref_count, address, handles, extra>>
         /\ Plain(t) /\ Plain(t)'
         /\ pc'[t] = "store" => LoadUnref(t)
         /\ pc'[t] \in {"ref", "open"} =>
              \E d \in Objects, l \in {"ref", "open"} : Outside(t) /\ Usable(t, d) /\ Acquire(t, d, l)
  <1> USE DEF Base, TypeOK, Plain, sharedVars, linkVars, appVars, enumVars, threadVars, Goto, Outside
  <1>1. CASE GetDeviceList(t) \/ \E a \in Addresses : Skip(t, a) \/ Visit(t, a)
    BY <1>1 DEF GetDeviceList, Skip, Visit
  <1>2. CASE Walk(t) \/ AllocDeviceFails(t)
    BY <1>2 DEF Walk, AllocDeviceFails
  <1>3. CASE EnumDone(t) \/ NothingToDrop(t)
    BY <1>3 DEF EnumDone, NothingToDrop
  <1>4. CASE LoadUnref(t)
    BY <1>4 DEF LoadUnref
  <1>5. CASE \E d \in Objects, l \in {"ref", "open"} : Outside(t) /\ Usable(t, d) /\ Acquire(t, d, l)
    BY <1>5 DEF Acquire
  <1> QED
    BY <1>1, <1>2, <1>3, <1>4, <1>5 DEF QuietRefs

\* A device in use is not freed.
LEMMA UsableLive ==
  ASSUME Base, NEW t \in Threads, CountedAt(t), Outside(t), NEW d \in Objects, Usable(t, d)
  PROVE  Live(d)
  <1>1. HeldBy(t, d) = Count(list[t], d) + Count(drop[t], d)
    BY PlainHeld DEF Outside, Plain
  <1>2. list[t] \in Seq(Objects)
    BY DEF Base, TypeOK
  <1>3. handles[d] + extra[d] > 0 \/ Count(list[t], d) > 0
    BY <1>2, CountPositive DEF Usable
  <1>4. handles[d] + extra[d] + HeldBy(t, d) > 0
    BY <1>1, <1>3, Naturals
  <1> QED
    BY <1>4 DEF CountedAt, Balanced

\* A device in drop is not freed.
LEMMA DropLive ==
  ASSUME Base, NEW t \in Threads, CountedAt(t), Plain(t), drop[t] # <<>>
  PROVE  Live(drop[t][1]) /\ ref_count[drop[t][1]] > 0
  <1>1. PICK d \in Objects : d = drop[t][1]
    BY DropTyped
  <1>2. Count(drop[t], d) > 0
    <2>1. drop[t] \in Seq(Objects) /\ 1 \in DOMAIN drop[t]
      BY DEF Base, TypeOK
    <2> QED
      BY <1>1, <2>1, CountPositive
  <1>3. HeldBy(t, d) = Count(list[t], d) + Count(drop[t], d)
    BY PlainHeld
  <1>4. handles[d] + extra[d] + HeldBy(t, d) > 0
    BY <1>2, <1>3, Naturals
  <1> QED
    BY <1>1, <1>4 DEF CountedAt, Balanced

LEMMA QuietRefsCounted ==
  ASSUME Base, Base', NEW t \in Threads, CountedAt(t), QuietRefs(t)
  PROVE  CountedAt(t)'
  <1>1. \A d \in Objects : HeldBy(t, d)' = HeldBy(t, d) /\ ~Unclaimed(t, d) /\ ~Unclaimed(t, d)'
    BY QuietRefsKept, PlainHeld, PlainHeldNext
  <1>2. \A d \in Objects : Balanced(t, d)'
    BY <1>1, QuietRefsKept, MoveBalanced
  <1>3. ASSUME pc'[t] = "store" PROVE tmp'[t] = ref_count'[drop'[t][1]]
    <2>1. LoadUnref(t) /\ UNCHANGED <<drop, ref_count>>
      BY <1>3, QuietRefsKept
    <2> QED
      BY <2>1 DEF LoadUnref, Base, TypeOK
  <1>4. ASSUME pc'[t] \in {"ref", "open"} PROVE Live(cur[t])' /\ tmp'[t] = ref_count'[cur'[t]]
    <2>1. PICK d \in Objects, l \in {"ref", "open"} : Outside(t) /\ Usable(t, d) /\ Acquire(t, d, l)
      BY <1>4, QuietRefsKept
    <2>2. cur'[t] = d /\ tmp'[t] = ref_count[d] /\ UNCHANGED <<ref_count, address>>
      BY <2>1 DEF Acquire, sharedVars, Base, TypeOK
    <2>3. Live(d)
      BY <2>1, UsableLive
    <2> QED
      BY <2>2, <2>3 DEF Live
  <1>5. pc'[t] # "enumref"
    BY QuietRefsKept DEF Plain
  <1> QED
    BY <1>2, <1>3, <1>4, <1>5 DEF CountedAt, Fresh

LEMMA VisitKnownCounted ==
  ASSUME Base, Base', NEW t \in Threads, CountedAt(t), VisitKnown(t)
  PROVE  CountedAt(t)'
  <1>1. PICK d \in Objects : d = cur[t]
    BY DEF VisitKnown, Base, Located, LocatedAt, Nodes
  <1>2. pc[t] = "walk" /\ address[d] = visiting[t] /\ drop[t] = <<>> /\ Plain(t)
    BY <1>1 DEF VisitKnown, IsWanted, Base, Located, LocatedAt, Plain
  <1>3. Live(d)
    BY <1>2, ConstantsAssumption DEF Live, Base, Located, LocatedAt, ConstantsAssumption
  <1>4. UNCHANGED <<ref_count, address, handles, extra>>
    BY DEF VisitKnown, linkVars, appVars
  <1>5. list[t] \in Seq(Objects)
    BY DEF Base, TypeOK
  <1>6. \A e \in Objects : HeldBy(t, e) = Count(list[t], e) /\ ~Unclaimed(t, e) /\ Count(list[t], e) \in Nat
    BY <1>2, PlainHeld, CountEmpty, Naturals
  <1>7. CASE AppendTo(t, d) /\ tmp' = [tmp EXCEPT ![t] = ref_count[d]] /\ Goto(t, "enumref")
             /\ UNCHANGED <<cur, drop>>
    <2>1. /\ list'[t] = Append(list[t], d) /\ pc'[t] = "enumref" /\ tmp'[t] = ref_count[d]
          /\ cur'[t] = d /\ drop'[t] = <<>>
      BY <1>1, <1>2, <1>7 DEF AppendTo, Goto, Base, TypeOK
    <2>2. \A e \in Objects : Count(list'[t], e) = Count(list[t], e) + (IF e = d THEN 1 ELSE 0)
      BY <1>5, <2>1, CountAppend
    <2>3. ASSUME NEW e \in Objects PROVE HeldBy(t, e)' = HeldBy(t, e) /\ ~Unclaimed(t, e)'
      <3>1. HeldBy(t, e)' = Count(list'[t], e) + 0 - (IF d = e THEN 1 ELSE 0) - 0
        BY <2>1, CountEmpty DEF HeldBy
      <3> QED
        BY <3>1, <2>1, <2>2, <1>6 DEF Unclaimed
    <2>4. \A e \in Objects : Balanced(t, e)'
      BY <1>4, <1>6, <2>3, MoveBalanced
    <2>5. Fresh(t)'
      BY <1>3, <1>4, <1>6, <2>1, <2>2 DEF Fresh, Live
    <2> QED
      BY <2>4, <2>5 DEF CountedAt
  <1>8. CASE Fail(t, <<>>)
    <2>1. list'[t] = <<>> /\ drop'[t] = list[t] /\ pc'[t] = "drop"
      BY <1>5, <1>8 DEF Fail, Goto, Base, TypeOK
    <2>2. ASSUME NEW e \in Objects PROVE HeldBy(t, e)' = HeldBy(t, e) /\ ~Unclaimed(t, e)'
      <3>1. HeldBy(t, e)' = Count(list'[t], e) + Count(drop'[t], e) /\ ~Unclaimed(t, e)'
        BY <2>1, PlainHeldNext DEF Plain
      <3> QED
        BY <3>1, <2>1, <1>6, CountEmpty
    <2>3. \A e \in Objects : Balanced(t, e)'
      BY <1>4, <1>6, <2>2, MoveBalanced
    <2> QED
      BY <2>1, <2>3 DEF CountedAt, Fresh
  <1> QED
    BY <1>1, <1>7, <1>8 DEF VisitKnown


LEMMA HeldNext ==
  ASSUME Base', NEW t \in Threads, Fresh(t)', NEW d \in Objects
  PROVE  HeldBy(t, d)' \in Nat
  <1>1. list'[t] \in Seq(Objects) /\ drop'[t] \in Seq(Objects)
    BY DEF Base, TypeOK
  <1> DEFINE L == Count(list'[t], d)
             D == Count(drop'[t], d)
             E == pc'[t] = "enumref" /\ cur'[t] = d
             U == Unclaimed(t, d)'
  <1>2. U => D > 0
    <2> SUFFICES ASSUME U PROVE D > 0
      OBVIOUS
    <2>1. 1 \in DOMAIN drop'[t] /\ drop'[t][1] = d
      BY <1>1 DEF Unclaimed, Base, Located, LocatedAt
    <2> QED
      BY <1>1, <2>1, CountPositive
  <1>3. L \in Nat /\ D \in Nat /\ (E => L > 0)
    BY <1>1, CountType DEF Fresh
  <1>4. HeldBy(t, d)' = L + D - (IF E THEN 1 ELSE 0) - (IF U THEN 1 ELSE 0)
    BY DEF HeldBy, Unclaimed
  <1> HIDE DEF L, D, E, U
  <1> QED
    BY <1>2, <1>3, <1>4

\* A new device is in the list of the thread, or about to be dropped.
LEMMA RegisterBalanced ==
  ASSUME Base, Base', NEW t \in Threads, NEW d \in Objects, CountedAt(t), Register(t, d),
         UNCHANGED <<handles, extra>>, Plain(t)',
         \A e \in Objects : Count(list'[t], e) + Count(drop'[t], e)
                              = Count(list[t], e) + (IF e = d THEN 1 ELSE 0)
  PROVE  \A e \in Objects : Balanced(t, e)'
  <1>1. pc[t] = "walk" /\ ~Live(d) /\ Plain(t) /\ drop[t] = <<>> /\ visiting[t] # NoAddress
    BY ConstantsAssumption DEF Register, Plain, Base, Located, LocatedAt, ConstantsAssumption
  <1>2. /\ address' = [address EXCEPT ![d] = visiting[t]]
        /\ ref_count' = [ref_count EXCEPT ![d] = 1]
    BY DEF Register
  <1>3. /\ Live(d)' /\ ref_count'[d] = 1
        /\ \A e \in Objects \ {d} : (Live(e)' <=> Live(e)) /\ ref_count'[e] = ref_count[e]
    BY <1>1, <1>2 DEF Base, TypeOK, Live
  <1>4. \A e \in Objects : HeldBy(t, e) = Count(list[t], e) /\ ~Unclaimed(t, e) /\ Count(list[t], e) \in Nat
    BY <1>1, PlainHeld, CountEmpty, Naturals
  <1>5. \A e \in Objects : HeldBy(t, e)' = HeldBy(t, e) + (IF e = d THEN 1 ELSE 0) /\ ~Unclaimed(t, e)'
    BY <1>4, PlainHeldNext
  <1>6. ASSUME NEW e \in Objects \ {d} PROVE Balanced(t, e)'
    <2>1. Balanced(t, e) /\ HeldBy(t, e)' = HeldBy(t, e) + 0 /\ HeldBy(t, e) \in Nat
      BY <1>4, <1>5 DEF CountedAt
    <2> QED
      BY <1>3, <1>4, <1>5, <2>1 DEF Balanced
  <1>7. Balanced(t, d)'
    <2>1. Balanced(t, d) /\ HeldBy(t, d)' = HeldBy(t, d) + 1 /\ HeldBy(t, d) \in Nat
      BY <1>4, <1>5 DEF CountedAt
    <2>2. handles[d] \in Nat /\ extra[d] \in Nat
      BY Naturals
    <2>3. handles[d] = 0 /\ extra[d] = 0 /\ HeldBy(t, d) = 0
      BY <1>1, <2>1, <2>2 DEF Balanced
    <2> QED
      BY <1>3, <1>5, <2>1, <2>3 DEF Balanced
  <1> QED
    BY <1>6, <1>7

LEMMA VisitNewCounted ==
  ASSUME Base, Base', NEW t \in Threads, NEW d \in Objects, CountedAt(t),
         VisitNew(t, d) \/ VisitBad(t, d)
  PROVE  CountedAt(t)'
  <1>1. Register(t, d) /\ UNCHANGED <<handles, extra>>
    BY DEF VisitNew, VisitBad, appVars
  <1>2. drop[t] = <<>> /\ list[t] \in Seq(Objects)
    BY <1>1 DEF Register, Base, TypeOK, Located, LocatedAt
  <1>3. \A e \in Objects : Count(list[t], e) \in Nat /\ Count(<<>>, e) = 0
    BY Naturals, CountEmpty
  <1>4. CASE VisitNew(t, d)
    <2>1. list'[t] = Append(list[t], d) /\ drop'[t] = <<>> /\ pc'[t] = "enum"
      BY <1>2, <1>4 DEF VisitNew, AppendTo, Goto, Base, TypeOK
    <2>2. \A e \in Objects : Count(list'[t], e) + Count(drop'[t], e)
                               = Count(list[t], e) + (IF e = d THEN 1 ELSE 0)
      BY <1>2, <1>3, <2>1, CountAppend
    <2>3. \A e \in Objects : Balanced(t, e)'
      BY <1>1, <2>1, <2>2, RegisterBalanced DEF Plain
    <2> QED
      BY <2>1, <2>3 DEF CountedAt, Fresh
  <1>5. CASE VisitBad(t, d)
    <2>1. \/ list'[t] = <<>> /\ drop'[t] = <<d>> \o list[t] /\ pc'[t] = "drop"
          \/ list'[t] = list[t] /\ drop'[t] = <<d>> /\ pc'[t] = "drop"
      <3>1. CASE setup.win32
        <4>1. /\ drop' = [drop EXCEPT ![t] = <<d>> \o list[t]]
              /\ list' = [list EXCEPT ![t] = <<>>]
              /\ pc' = [pc EXCEPT ![t] = "drop"]
          BY <1>5, <3>1 DEF VisitBad, Fail, Goto
        <4>2. drop'[t] = <<d>> \o list[t]
          BY <4>1 DEF Base, TypeOK
        <4>3. list'[t] = <<>> /\ pc'[t] = "drop"
          BY <4>1 DEF Base, TypeOK
        <4> QED
          BY <4>2, <4>3
      <3>2. CASE ~setup.win32
        BY <1>5, <3>2 DEF VisitBad, Goto, Base, TypeOK
      <3> QED
        BY <3>1, <3>2
    <2>2. \A e \in Objects : /\ Count(<<d>> \o list[t], e) = Count(list[t], e) + (IF e = d THEN 1 ELSE 0)
                             /\ Count(<<d>>, e) = IF e = d THEN 1 ELSE 0
      BY <1>2, CountFirst, CountOne
    <2>3. \A e \in Objects : Count(list'[t], e) + Count(drop'[t], e)
                               = Count(list[t], e) + (IF e = d THEN 1 ELSE 0)
      <3>1. CASE list'[t] = <<>> /\ drop'[t] = <<d>> \o list[t]
        <4> SUFFICES ASSUME NEW e \in Objects
                     PROVE  Count(<<>>, e) + Count(<<d>> \o list[t], e)
                              = Count(list[t], e) + (IF e = d THEN 1 ELSE 0)
          BY <3>1
        <4> QED
          BY <1>3, <2>2
      <3>2. CASE list'[t] = list[t] /\ drop'[t] = <<d>>
        BY <1>3, <2>2, <3>2
      <3> QED
        BY <2>1, <3>1, <3>2
    <2>4. \A e \in Objects : Balanced(t, e)'
      BY <1>1, <2>1, <2>3, RegisterBalanced DEF Plain
    <2> QED
      BY <2>1, <2>4 DEF CountedAt, Fresh
  <1> QED
    BY <1>4, <1>5

\* The increment of a count nobody else changes.
LEMMA ReferenceCounted ==
  ASSUME Base, Base', NEW t \in Threads, CountedAt(t), StoreEnumRef(t) \/ StoreRef(t)
  PROVE  CountedAt(t)'
  <1>1. PICK d \in Objects : d = cur[t]
    BY DEF StoreEnumRef, StoreRef, Base, Located, LocatedAt
  <1>2. Live(d) /\ tmp[t] = ref_count[d]
    BY <1>1 DEF StoreEnumRef, StoreRef, CountedAt, Fresh
  <1>3. ref_count' = [ref_count EXCEPT ![d] = @ + 1] /\ UNCHANGED <<address, list, drop>>
    BY <1>1, <1>2 DEF StoreEnumRef, StoreRef, Referenced, Loaded, linkVars, enumVars, Base, TypeOK
  <1>4. /\ ref_count'[d] = ref_count[d] + 1 /\ ref_count[d] \in Int
        /\ \A e \in Objects \ {d} : ref_count'[e] = ref_count[e]
    BY <1>3 DEF Base, TypeOK
  <1>5. pc'[t] \in {"enum", "idle"}
    BY DEF StoreEnumRef, StoreRef, Goto, Base, TypeOK
  <1>6. \A e \in Objects : /\ ~Unclaimed(t, e) /\ ~Unclaimed(t, e)'
                           /\ HeldBy(t, e)' = Count(list[t], e) + Count(drop[t], e)
    <2>1. Plain(t)'
      BY <1>5 DEF Plain
    <2> QED
      BY <1>3, <2>1, PlainHeldNext DEF StoreEnumRef, StoreRef, Unclaimed
  <1>7. \A e \in Objects : /\ Count(list[t], e) \in Nat /\ Count(drop[t], e) \in Nat
                           /\ handles[e] \in Nat /\ extra[e] \in Nat /\ HeldBy(t, e) \in Nat
    BY Naturals DEF CountedAt
  <1>8. \A e \in Objects :
          /\ handles'[e] + extra'[e] + HeldBy(t, e)'
               = handles[e] + extra[e] + HeldBy(t, e) + (IF e = d THEN 1 ELSE 0)
    <2>1. CASE StoreEnumRef(t)
      <3>1. \A e \in Objects :
              HeldBy(t, e) = Count(list[t], e) + Count(drop[t], e) - (IF d = e THEN 1 ELSE 0) - 0
        BY <1>1, <2>1 DEF StoreEnumRef, HeldBy
      <3>2. UNCHANGED <<handles, extra>>
        BY <2>1 DEF StoreEnumRef, appVars
      <3> QED
        <4> SUFFICES ASSUME NEW e \in Objects
                     PROVE  handles[e] + extra[e] + HeldBy(t, e)'
                              = handles[e] + extra[e] + HeldBy(t, e) + (IF e = d THEN 1 ELSE 0)
          BY <3>2
        <4>1. HeldBy(t, e)' = HeldBy(t, e) + (IF e = d THEN 1 ELSE 0)
          BY <1>6, <1>7, <3>1
        <4> QED
          BY <1>7, <4>1
    <2>2. CASE StoreRef(t)
      <3>1. \A e \in Objects : HeldBy(t, e) = Count(list[t], e) + Count(drop[t], e)
        BY <2>2, PlainHeld DEF StoreRef, Plain
      <3>2. \/ handles' = [handles EXCEPT ![d] = @ + 1] /\ UNCHANGED extra
            \/ extra' = [extra EXCEPT ![d] = @ + 1] /\ UNCHANGED handles
        BY <1>1, <2>2 DEF StoreRef
      <3>3. \A e \in Objects : handles'[e] + extra'[e] = handles[e] + extra[e] + (IF e = d THEN 1 ELSE 0)
        <4>1. \A e \in Objects : handles[e] \in Nat /\ extra[e] \in Nat
          BY <1>7
        <4>2. handles \in [Objects -> Nat] /\ extra \in [Objects -> Nat]
          BY DEF Base, TypeOK
        <4>3. CASE handles' = [handles EXCEPT ![d] = @ + 1] /\ UNCHANGED extra
          BY <4>1, <4>2, <4>3
        <4>4. CASE extra' = [extra EXCEPT ![d] = @ + 1] /\ UNCHANGED handles
          BY <4>1, <4>2, <4>4
        <4> QED
          BY <3>2, <4>3, <4>4
      <3> QED
        BY <1>6, <1>7, <3>1, <3>3
    <2> QED
      BY <2>1, <2>2
  <1>9. ASSUME NEW e \in Objects PROVE Balanced(t, e)'
    <2> DEFINE n == handles[e] + extra[e] + HeldBy(t, e)
               m == (handles[e] + extra[e] + HeldBy(t, e))'
    <2>1. Balanced(t, e)
      BY DEF CountedAt
    <2>2. n \in Nat
      BY <1>7
    <2>3. m = n + (IF e = d THEN 1 ELSE 0)
      BY <1>8
    <2>4. /\ Live(e) => ref_count[e] = n
          /\ n > 0 => Live(e)
          /\ Live(e) => (ref_count[e] = 0 <=> Unclaimed(t, e))
      BY <2>1 DEF Balanced
    <2>5. Live(e)' <=> Live(e)
      BY <1>3 DEF Live
    <2> HIDE DEF n, m
    <2>6. /\ Live(e)' => ref_count'[e] = m
          /\ m > 0 => Live(e)'
          /\ Live(e)' => ref_count'[e] # 0
      BY <1>2, <1>4, <1>6, <2>2, <2>3, <2>4, <2>5
    <2> QED
      BY <1>6, <2>6 DEF Balanced, m
  <1> QED
    BY <1>5, <1>9 DEF CountedAt, Fresh

\* The application gives references up, or takes them out of a list.
GivesUp(t) ==
  \/ FreeDeviceList(t)
  \/ KeepDevices(t)
  \/ \E d \in Objects : Close(t, d) \/ UnrefDevice(t, d)

LEMMA GivesUpCounted ==
  ASSUME Base, Base', NEW t \in Threads, CountedAt(t), Outside(t), GivesUp(t)
  PROVE  CountedAt(t)'
  <1>1. pc[t] = "idle" /\ drop[t] = <<>> /\ Plain(t) /\ list[t] \in Seq(Objects)
    BY DEF Outside, Plain, Base, TypeOK, Located, LocatedAt
  <1>2. \A e \in Objects : /\ handles[e] \in Nat /\ extra[e] \in Nat /\ Count(list[t], e) \in Nat
                           /\ HeldBy(t, e) = Count(list[t], e) /\ ~Unclaimed(t, e)
                           /\ Count(<<>>, e) = 0
    BY <1>1, Naturals, PlainHeld, CountEmpty
  <1>3. UNCHANGED <<ref_count, address>>
    BY DEF GivesUp, FreeDeviceList, KeepDevices, Close, UnrefDevice, sharedVars
  <1>4. pc'[t] \in {"idle", "drop"}
    BY <1>1 DEF GivesUp, FreeDeviceList, KeepDevices, Close, UnrefDevice, Drop, Goto, Base, TypeOK
  <1>5. \A e \in Objects : /\ HeldBy(t, e)' = Count(list'[t], e) + Count(drop'[t], e)
                           /\ ~Unclaimed(t, e)'
                           /\ Count(list'[t], e) \in Nat /\ Count(drop'[t], e) \in Nat
                           /\ handles'[e] \in Nat /\ extra'[e] \in Nat
    <2>1. Plain(t)'
      BY <1>4 DEF Plain
    <2> QED
      BY <2>1, PlainHeldNext DEF Base, TypeOK
  <1>6. \A e \in Objects : handles'[e] + extra'[e] + HeldBy(t, e)' = handles[e] + extra[e] + HeldBy(t, e)
    <2> SUFFICES ASSUME NEW e \in Objects
                 PROVE  handles'[e] + extra'[e] + Count(list'[t], e) + Count(drop'[t], e)
                          = handles[e] + extra[e] + Count(list[t], e)
      BY <1>2, <1>5
    <2>1. CASE FreeDeviceList(t)
      <3>1. drop'[t] = list[t] /\ list'[t] = <<>> /\ UNCHANGED <<handles, extra>>
        BY <2>1 DEF FreeDeviceList, Drop, appVars, Base, TypeOK
      <3> QED
        BY <1>2, <3>1
    <2>2. CASE KeepDevices(t)
      <3>1. /\ extra'[e] = extra[e] + Count(list[t], e)
            /\ drop'[t] = <<>> /\ list'[t] = <<>> /\ UNCHANGED handles
        BY <1>1, <2>2 DEF KeepDevices, Base, TypeOK
      <3> QED
        BY <1>2, <3>1
    <2>3. ASSUME NEW d \in Objects, Close(t, d) \/ UnrefDevice(t, d)
          PROVE  handles'[e] + extra'[e] + Count(list'[t], e) + Count(drop'[t], e)
                   = handles[e] + extra[e] + Count(list[t], e)
      <3>1. drop'[t] = <<d>> /\ list'[t] = list[t]
        BY <2>3 DEF Close, UnrefDevice, Drop, enumVars, Base, TypeOK
      <3>2. Count(<<d>>, e) = IF e = d THEN 1 ELSE 0
        BY CountOne
      <3>3. handles'[e] + extra'[e] = handles[e] + extra[e] - (IF e = d THEN 1 ELSE 0)
        <4>1. handles \in [Objects -> Nat] /\ extra \in [Objects -> Nat]
          BY DEF Base, TypeOK
        <4>2. \/ handles' = [handles EXCEPT ![d] = @ - 1] /\ UNCHANGED extra
              \/ extra' = [extra EXCEPT ![d] = @ - 1] /\ UNCHANGED handles
          BY <2>3 DEF Close, UnrefDevice
        <4>3. CASE handles' = [handles EXCEPT ![d] = @ - 1] /\ UNCHANGED extra
          <5>1. handles'[e] = handles[e] - (IF e = d THEN 1 ELSE 0) /\ extra'[e] = extra[e]
            BY <1>2, <4>1, <4>3
          <5> QED
            BY <1>2, <5>1
        <4>4. CASE extra' = [extra EXCEPT ![d] = @ - 1] /\ UNCHANGED handles
          <5>1. extra'[e] = extra[e] - (IF e = d THEN 1 ELSE 0) /\ handles'[e] = handles[e]
            BY <1>2, <4>1, <4>4
          <5> QED
            BY <1>2, <5>1
        <4> QED
          BY <4>2, <4>3, <4>4
      <3>4. handles'[e] \in Nat /\ extra'[e] \in Nat
        BY DEF Base, TypeOK
      <3> QED
        <4>1. Count(drop'[t], e) = (IF e = d THEN 1 ELSE 0) /\ Count(list'[t], e) = Count(list[t], e)
          BY <3>1, <3>2
        <4> QED
          BY <1>2, <3>3, <3>4, <4>1
    <2> QED
      BY <2>1, <2>2, <2>3 DEF GivesUp
  <1>7. \A e \in Objects : Balanced(t, e)'
    BY <1>2, <1>3, <1>5, <1>6, MoveBalanced
  <1> QED
    BY <1>4, <1>7 DEF CountedAt, Fresh

\* Where NextDrop leads.
LEMMA NextDropGoes ==
  ASSUME Base, NEW t \in Threads, NextDrop(t)
  PROVE  drop'[t] = Tail(drop[t]) /\ pc'[t] \in {"drop", "enum", "idle"}
  <1> USE DEF NextDrop, Goto, Base, TypeOK
  <1>1. drop'[t] = Tail(drop[t])
    OBVIOUS
  <1>2. pc'[t] \in {"drop", "enum", "idle"}
    OBVIOUS
  <1> QED
    BY <1>1, <1>2

\* The decrement of a count nobody else changes.
LEMMA StoreUnrefCounted ==
  ASSUME Base, Base', NEW t \in Threads, CountedAt(t), StoreUnref(t)
  PROVE  CountedAt(t)'
  <1>1. pc[t] = "store" /\ Plain(t) /\ drop[t] # <<>> /\ drop[t] \in Seq(Objects)
    BY DEF StoreUnref, Plain, Base, TypeOK, Located, LocatedAt
  <1>2. PICK d \in Objects : d = drop[t][1]
    BY <1>1, DropTyped
  <1>3. Live(d) /\ ref_count[d] > 0 /\ ref_count[d] \in Int /\ Loaded(t, d) = ref_count[d]
    BY <1>1, <1>2, DropLive DEF CountedAt, Fresh, Loaded, Base, TypeOK
  <1>4. ref_count' = [ref_count EXCEPT ![d] = @ - 1] /\ UNCHANGED <<address, list, handles, extra>>
    BY <1>2, <1>3 DEF StoreUnref, appVars, enumVars, Base, TypeOK
  <1>5. /\ ref_count'[d] = ref_count[d] - 1
        /\ \A e \in Objects \ {d} : ref_count'[e] = ref_count[e]
    BY <1>4 DEF Base, TypeOK
  <1>6. \A e \in Objects : /\ handles[e] \in Nat /\ extra[e] \in Nat
                           /\ Count(list[t], e) \in Nat /\ Count(drop[t], e) \in Nat
                           /\ HeldBy(t, e) = Count(list[t], e) + Count(drop[t], e)
                           /\ ~Unclaimed(t, e)
    BY <1>1, Naturals, PlainHeld
  <1>7. \/ ref_count[d] = 1 /\ pc'[t] = "finalize" /\ drop'[t] = drop[t]
        \/ ref_count[d] # 1 /\ pc'[t] \in {"drop", "enum", "idle"} /\ drop'[t] = Tail(drop[t])
    <2>1. CASE ref_count[d] = 1
      BY <1>2, <1>3, <2>1 DEF StoreUnref, LastReference, Goto, Base, TypeOK
    <2>2. CASE ref_count[d] # 1
      <3>1. NextDrop(t)
        BY <1>2, <1>3, <2>2 DEF StoreUnref, LastReference
      <3> QED
        BY <2>2, <3>1, NextDropGoes
    <2> QED
      BY <2>1, <2>2
  <1>8. \A e \in Objects :
          /\ HeldBy(t, e)' = HeldBy(t, e) - (IF e = d THEN 1 ELSE 0)
          /\ Unclaimed(t, e)' <=> (e = d /\ ref_count[d] = 1)
    <2> SUFFICES ASSUME NEW e \in Objects
                 PROVE  /\ HeldBy(t, e)' = HeldBy(t, e) - (IF e = d THEN 1 ELSE 0)
                        /\ Unclaimed(t, e)' <=> (e = d /\ ref_count[d] = 1)
      OBVIOUS
    <2>1. CASE ref_count[d] = 1
      <3>1. pc'[t] = "finalize" /\ drop'[t] = drop[t] /\ list'[t] = list[t]
        BY <1>4, <1>7, <2>1
      <3>2. HeldBy(t, e)' = Count(list[t], e) + Count(drop[t], e) - 0 - (IF d = e THEN 1 ELSE 0)
        BY <1>2, <3>1 DEF HeldBy
      <3> QED
        BY <1>2, <1>6, <2>1, <3>1, <3>2 DEF Unclaimed
    <2>2. CASE ref_count[d] # 1
      <3>1. Plain(t)' /\ drop'[t] = Tail(drop[t]) /\ list'[t] = list[t]
        BY <1>4, <1>7, <2>2 DEF Plain
      <3>2. HeldBy(t, e)' = Count(list[t], e) + Count(Tail(drop[t]), e) /\ ~Unclaimed(t, e)'
            /\ Count(Tail(drop[t]), e) \in Nat
        BY <3>1, PlainHeldNext
      <3>3. Count(drop[t], e) = Count(Tail(drop[t]), e) + (IF e = d THEN 1 ELSE 0)
        BY <1>1, <1>2, CountTail
      <3> QED
        BY <1>6, <2>2, <3>2, <3>3
    <2> QED
      BY <2>1, <2>2
  <1>9. ASSUME NEW e \in Objects PROVE Balanced(t, e)'
    <2> DEFINE n == handles[e] + extra[e] + HeldBy(t, e)
               m == (handles[e] + extra[e] + HeldBy(t, e))'
    <2>1. n \in Nat /\ m = n - (IF e = d THEN 1 ELSE 0)
      BY <1>4, <1>6, <1>8
    <2>2. /\ Live(e) => ref_count[e] = n
          /\ n > 0 => Live(e)
          /\ Live(e) => ref_count[e] # 0
      BY <1>6 DEF CountedAt, Balanced
    <2>3. Live(e)' <=> Live(e)
      BY <1>4 DEF Live
    <2> HIDE DEF n, m
    <2>4. /\ Live(e)' => ref_count'[e] = m
          /\ m > 0 => Live(e)'
          /\ Live(e)' => (ref_count'[e] = 0 <=> (e = d /\ ref_count[d] = 1))
      BY <1>3, <1>5, <2>1, <2>2, <2>3
    <2> QED
      BY <1>3, <1>8, <2>3, <2>4 DEF Balanced, m
  <1> QED
    BY <1>7, <1>9 DEF CountedAt, Fresh

LEMMA BeginUnlinkCounted ==
  ASSUME Base, Base', NEW t \in Threads, CountedAt(t), BeginUnlink(t)
  PROVE  CountedAt(t)'
  <1>1. /\ pc[t] = "finalize" /\ pc'[t] = "unlink"
        /\ UNCHANGED <<list, drop, handles, extra, ref_count, address>>
    BY DEF BeginUnlink, Goto, appVars, enumVars, Base, TypeOK
  <1>2. \A e \in Objects : HeldBy(t, e)' = HeldBy(t, e) /\ (Unclaimed(t, e)' <=> Unclaimed(t, e))
    BY <1>1 DEF HeldBy, Unclaimed, Count
  <1>3. \A e \in Objects : Balanced(t, e)'
    BY <1>1, <1>2, MoveBalanced
  <1> QED
    BY <1>1, <1>3 DEF CountedAt, Fresh

\* Nobody has a reference to the device that is freed.
LEMMA FinalizeCounted ==
  ASSUME Base, Base', NEW t \in Threads, CountedAt(t), Finalize(t)
  PROVE  CountedAt(t)'
  <1>1. pc[t] \in {"finalize", "unlink"} /\ drop[t] # <<>> /\ drop[t] \in Seq(Objects)
    BY DEF Finalize, Base, TypeOK, Located, LocatedAt
  <1>2. PICK d \in Objects : d = drop[t][1]
    BY <1>1, DropTyped
  <1>3. /\ address' = [address EXCEPT ![d] = NoAddress] /\ NextDrop(t)
        /\ UNCHANGED <<ref_count, list, handles, extra>>
    BY <1>2 DEF Finalize, appVars, enumVars
  <1>4. /\ ~Live(d)'
        /\ \A e \in Objects \ {d} : Live(e)' <=> Live(e)
    BY <1>3 DEF Live, Base, TypeOK
  <1>5. Plain(t)' /\ drop'[t] = Tail(drop[t]) /\ pc'[t] \in {"drop", "enum", "idle"}
    BY <1>3, NextDropGoes DEF Plain
  <1>6. \A e \in Objects : /\ handles[e] \in Nat /\ extra[e] \in Nat /\ HeldBy(t, e) \in Nat
                           /\ Unclaimed(t, e) <=> e = d
    BY <1>1, <1>2, Naturals DEF CountedAt, Unclaimed
  <1>7. \A e \in Objects : HeldBy(t, e)' = HeldBy(t, e) /\ ~Unclaimed(t, e)'
    <2> SUFFICES ASSUME NEW e \in Objects PROVE HeldBy(t, e)' = HeldBy(t, e) /\ ~Unclaimed(t, e)'
      OBVIOUS
    <2>1. /\ HeldBy(t, e)' = Count(list[t], e) + Count(Tail(drop[t]), e) /\ ~Unclaimed(t, e)'
          /\ Count(list[t], e) \in Nat /\ Count(Tail(drop[t]), e) \in Nat
      BY <1>3, <1>5, PlainHeldNext
    <2>2. HeldBy(t, e) = Count(list[t], e) + Count(drop[t], e) - 0 - (IF d = e THEN 1 ELSE 0)
      BY <1>1, <1>2 DEF HeldBy
    <2>3. Count(drop[t], e) = Count(Tail(drop[t]), e) + (IF e = d THEN 1 ELSE 0)
      BY <1>1, <1>2, CountTail
    <2> QED
      BY <2>1, <2>2, <2>3
  <1>8. ASSUME NEW e \in Objects PROVE Balanced(t, e)'
    <2>1. Balanced(t, e)
      BY DEF CountedAt
    <2> QED
      BY <1>3, <1>4, <1>6, <1>7, <2>1 DEF Balanced
  <1> QED
    BY <1>5, <1>8 DEF CountedAt, Fresh

LEMMA StepCounted ==
  ASSUME Base, Base', NEW t \in Threads, CountedAt(t), Step(t)
  PROVE  CountedAt(t)'
  <1>1. CASE QuietRefs(t)
    BY <1>1, QuietRefsCounted
  <1>2. CASE VisitKnown(t) \/ \E d \in Objects : VisitNew(t, d) \/ VisitBad(t, d)
    BY <1>2, VisitKnownCounted, VisitNewCounted
  <1>3. CASE StoreEnumRef(t) \/ StoreRef(t)
    BY <1>3, ReferenceCounted
  <1>4. CASE Outside(t) /\ GivesUp(t)
    BY <1>4, GivesUpCounted
  <1>5. CASE StoreUnref(t) \/ BeginUnlink(t) \/ Finalize(t)
    BY <1>5, StoreUnrefCounted, BeginUnlinkCounted, FinalizeCounted
  <1> QED
    BY <1>1, <1>2, <1>3, <1>4, <1>5 DEF Step, QuietRefs, GivesUp

-----------------------------------------------------------------------------
(* Serialised calls touch no freed memory.                                 *)

\* A thread in the library is one that uses it.
LEMMA StepThread ==
  ASSUME Base, NEW t \in Threads, Step(t)
  PROVE  t \in setup.threads
  <1> USE DEF Base, Located, LocatedAt
  <1>1. CASE GetDeviceList(t) \/ \E a \in Addresses : Skip(t, a) \/ Visit(t, a)
    BY <1>1 DEF GetDeviceList, Outside, Skip, Visit
  <1>2. CASE Walk(t) \/ VisitKnown(t) \/ \E d \in Objects : VisitNew(t, d) \/ VisitBad(t, d)
    BY <1>2 DEF Walk, VisitKnown, VisitNew, VisitBad, Register
  <1>3. CASE AllocDeviceFails(t) \/ StoreEnumRef(t) \/ EnumDone(t) \/ StoreRef(t)
    BY <1>3 DEF AllocDeviceFails, StoreEnumRef, EnumDone, StoreRef
  <1>4. CASE LoadUnref(t) \/ StoreUnref(t) \/ BeginUnlink(t) \/ Finalize(t) \/ NothingToDrop(t)
    BY <1>4 DEF LoadUnref, StoreUnref, BeginUnlink, Finalize, NothingToDrop
  <1> QED
    BY <1>1, <1>2, <1>3, <1>4 DEF Step, Outside

\* The nodes a walk and an insertion touch are there.
LEMMA WalkIsSafe ==
  ASSUME ListInv, Ordered, ~crash, NEW t \in Threads, pc[t] = "walk"
  PROVE  ~Dangling(cur[t]) /\ ~Dangling(prev[ListHead])
  <1>1. PICK s : Chain(s, prev)
    BY NoneUnlinks DEF ListInv, Linked
  <1>2. PICK k \in 1 .. Len(s) + 1 : cur[t] = Node(s, k)
    BY <1>1 DEF ListInv, Walked
  <1>3. \A i : Node(s, i) = ListHead \/ \E j \in 1 .. Len(s) : Node(s, i) = s[j]
    BY DEF Node
  <1>4. \A i : ~Dangling(Node(s, i))
    <2>1. \A j \in 1 .. Len(s) : Live(s[j])
      BY <1>1 DEF Chain
    <2> QED
      BY <1>3, <2>1 DEF Dangling
  <1>5. prev[ListHead] = Node(s, Len(s))
    <2>1. Len(s) \in 0 .. Len(s) /\ Node(s, Len(s) + 1) = ListHead
      BY <1>1, NodeFacts
    <2>2. prev[Node(s, Len(s) + 1)] = Node(s, Len(s))
      BY <1>1, <2>1 DEF Chain
    <2> QED
      BY <2>1, <2>2
  <1> QED
    BY <1>2, <1>4, <1>5

\* The nodes an unlinking touches are there.
LEMMA UnlinkIsSafe ==
  ASSUME ListInv, Ordered, ~crash, NEW t \in Threads, pc[t] \in {"finalize", "unlink"},
         NEW d \in Objects, d = drop[t][1], Live(d)
  PROVE  ~Dangling(next[d]) /\ ~Dangling(prev[d])
  <1>1. CASE pc[t] = "finalize"
    <2>1. PICK s : Chain(s, prev)
      BY <1>1, NoneUnlinks DEF ListInv, Linked
    <2> QED
      BY <2>1, Neighbours DEF ListInv
  <1>2. CASE pc[t] = "unlink"
    <2>1. PICK s : Chain(s, Unpatched(d))
      BY <1>2 DEF ListInv, Linked
    <2>2. /\ next[d] # d /\ ~Dangling(next[d]) /\ ~Dangling(Unpatched(d)[d])
      BY <2>1, Neighbours DEF ListInv
    <2>3. Unpatched(d)[d] = prev[d]
      BY <2>2 DEF Unpatched, ListInv, Base, TypeOK, Nodes
    <2> QED
      BY <2>2, <2>3
  <1> QED
    BY <1>1, <1>2

LEMMA OnlyAllocCorrupts ==
  ASSUME ListInv, Serial, ~crash, NEW t \in Threads, CountedAt(t), Step(t)
  PROVE  ~crash' \/ AllocDeviceFails(t)
  <1> USE DEF ListInv
  <1>1. CASE \/ GetDeviceList(t) \/ VisitKnown(t) \/ EnumDone(t) \/ NothingToDrop(t)
             \/ \E a \in Addresses : Skip(t, a) \/ Visit(t, a)
             \/ FreeDeviceList(t) \/ KeepDevices(t)
             \/ \E d \in Objects, l \in {"ref", "open"} : Acquire(t, d, l)
             \/ \E d \in Objects : Close(t, d) \/ UnrefDevice(t, d)
    BY <1>1 DEF GetDeviceList, VisitKnown, EnumDone, NothingToDrop, Skip, Visit, FreeDeviceList,
         KeepDevices, Acquire, Close, UnrefDevice
  <1>2. CASE Walk(t)
    <2>1. pc[t] = "walk" /\ cur[t] # ListHead /\ crash' = ~Live(cur[t])
      BY <1>2 DEF Walk
    <2> QED
      BY <2>1, WalkIsSafe DEF Ordered, Dangling
  <1>3. CASE \E d \in Objects : VisitNew(t, d) \/ VisitBad(t, d)
    <2>1. pc[t] = "walk" /\ crash' = Dangling(prev[ListHead])
      BY <1>3 DEF VisitNew, VisitBad, Register, Insert
    <2> QED
      BY <2>1, WalkIsSafe DEF Ordered
  <1>4. CASE StoreEnumRef(t) \/ StoreRef(t)
    BY <1>4 DEF StoreEnumRef, StoreRef, CountedAt, Fresh
  <1>5. CASE LoadUnref(t) \/ StoreUnref(t)
    <2>1. drop[t] # <<>> /\ Plain(t) /\ crash' = ~Live(drop[t][1])
      BY <1>5 DEF LoadUnref, StoreUnref, Plain, Base, Located, LocatedAt
    <2> QED
      BY <2>1, DropLive
  <1>6. CASE BeginUnlink(t) \/ Finalize(t)
    <2>1. pc[t] \in {"finalize", "unlink"} /\ drop[t] # <<>>
      BY <1>6 DEF BeginUnlink, Finalize, Base, Located, LocatedAt
    <2>2. PICK d \in Objects : d = drop[t][1]
      BY <2>1, DropTyped
    <2>3. Live(d)
      BY <2>1, <2>2 DEF CountedAt, Balanced, Unclaimed
    <2>4. ~Dangling(next[d]) /\ ~Dangling(prev[d])
      BY <2>1, <2>2, <2>3, UnlinkIsSafe DEF Ordered
    <2> QED
      BY <1>6, <2>2, <2>3, <2>4 DEF BeginUnlink, Finalize
  <1> QED
    BY <1>1, <1>2, <1>3, <1>4, <1>5, <1>6 DEF Step

CountInv == ListInv /\ Counted

LEMMA CountInvInit == Init => CountInv
  <1> SUFFICES ASSUME Init PROVE CountInv
    OBVIOUS
  <1>1. ListInv /\ Base
    BY ListInvInit DEF ListInv
  <1>2. ASSUME NEW t \in Threads PROVE CountedAt(t)
    <2>1. pc[t] = "idle" /\ list[t] = <<>> /\ drop[t] = <<>> /\ Plain(t)
      BY DEF Init, Plain
    <2>2. \A d \in Objects : HeldBy(t, d) = 0 /\ ~Unclaimed(t, d)
      BY <1>1, <2>1, PlainHeld, CountEmpty
    <2>3. \A d \in Objects : Balanced(t, d)
      BY <2>2 DEF Init, Balanced, Live
    <2> QED
      BY <2>1, <2>3 DEF CountedAt, Fresh
  <1>3. setup.threads \subseteq Threads
    BY <1>1, SetupTyped DEF Base, SetupType
  <1>4. /\ \A d \in Objects : ~Live(d) /\ ~(handles[d] + extra[d] > 0)
        /\ ~crash
    BY DEF Init, Live
  <1> QED
    BY <1>1, <1>2, <1>3, <1>4 DEF CountInv, Counted, AllocCorrupts

LEMMA CountInvStep == CountInv /\ AnyNext => CountInv'
  <1> SUFFICES ASSUME CountInv, AnyNext PROVE CountInv'
    OBVIOUS
  <1>1. ListInv /\ ListInv' /\ Base /\ Base'
    BY ListInvStep DEF CountInv, ListInv
  <1>2. CASE UNCHANGED vars
    <2>1. (AllocCorrupts)' <=> AllocCorrupts
      <3>1. crash' = crash /\ setup' = setup /\ pc' = pc
        BY <1>2 DEF vars, threadVars
      <3> QED
        BY <3>1, Zenon DEF AllocCorrupts
    <2>2. Counted'
      BY <1>2, <2>1 DEF CountInv, Counted, CountedAt, Fresh, Balanced, Unclaimed, HeldBy, Count,
           Serial, Live, vars, sharedVars, linkVars, threadVars, enumVars, appVars
    <2> QED
      BY <1>1, <2>2 DEF CountInv
  <1>3. ASSUME NEW t \in Threads, Step(t), ~crash, UNCHANGED setup, Serial
        PROVE  /\ \A u \in setup.threads : CountedAt(u)'
               /\ setup.threads # {}
               /\ \A d \in Objects : (handles[d] + extra[d] > 0)' => Live(d)'
               /\ AllocCorrupts'
    <2>1. t \in setup.threads
      BY <1>1, <1>3, StepThread
    <2>2. \A u \in setup.threads : u = t
      BY <1>3, <2>1 DEF Serial
    <2>3. CountedAt(t)
      BY <1>3, <2>1 DEF CountInv, Counted
    <2>4. CountedAt(t)'
      BY <1>1, <1>3, <2>3, StepCounted
    <2>5. ASSUME NEW d \in Objects, (handles[d] + extra[d] > 0)' PROVE Live(d)'
      <3>1. handles'[d] \in Nat /\ extra'[d] \in Nat
        BY <1>1 DEF Base, TypeOK
      <3>2. HeldBy(t, d)' \in Nat /\ Balanced(t, d)'
        <4>1. Fresh(t)' /\ Balanced(t, d)'
          BY <2>4 DEF CountedAt
        <4> QED
          BY <1>1, <4>1, HeldNext
      <3>3. handles'[d] + extra'[d] + HeldBy(t, d)' > 0
        BY <2>5, <3>1, <3>2
      <3> QED
        BY <3>2, <3>3 DEF Balanced
    <2>6. ASSUME crash' PROVE setup'.allocFails /\ \E u \in Threads : pc'[u] = "walk"
      <3>1. AllocDeviceFails(t)
        BY <1>1, <1>3, <2>3, <2>6, OnlyAllocCorrupts
      <3>2. setup'.allocFails
        BY <1>3, <3>1, Zenon DEF AllocDeviceFails
      <3>3. pc'[t] = "walk"
        BY <3>1 DEF AllocDeviceFails, threadVars
      <3> QED
        BY <3>2, <3>3, Zenon
    <2>7. AllocCorrupts'
      BY <2>6, Zenon DEF AllocCorrupts
    <2> QED
      BY <2>1, <2>2, <2>4, <2>5, <2>7
  <1>4. CASE \E t \in Threads : Step(t) /\ ~crash /\ UNCHANGED setup
    <2>1. Counted'
      BY <1>3, <1>4 DEF Counted, Serial
    <2> QED
      BY <1>1, <2>1 DEF CountInv
  <1> QED
    BY <1>2, <1>4 DEF AnyNext

LEMMA CountInvariant == Spec => []CountInv
  BY CountInvInit, CountInvStep, StepCases, PTL DEF Spec

LEMMA CountInvMeans ==
  ASSUME CountInv, Serial
  PROVE  RefsAreOwned /\ HeldIsLive /\ ExitIsClean
  <1> USE DEF CountInv, ListInv
  <1>0. setup.threads \subseteq Threads
    BY SetupTyped DEF Base, SetupType
  <1>1. RefsAreOwned
    BY DEF RefsAreOwned, Counted, CountedAt, Balanced
  <1>2. HeldIsLive
    <2> SUFFICES ASSUME NEW t \in Threads, NEW d \in Objects, handles[d] + extra[d] + HeldBy(t, d) > 0
                 PROVE  Live(d)
      BY DEF HeldIsLive
    <2>1. CASE t \in setup.threads
      BY <2>1 DEF Counted, CountedAt, Balanced
    <2>2. CASE t \notin setup.threads
      <3>1. list[t] = <<>> /\ drop[t] = <<>> /\ Plain(t)
        BY <2>2 DEF Base, Located, LocatedAt, Plain
      <3>2. HeldBy(t, d) = 0
        BY <3>1, PlainHeld, CountEmpty
      <3>3. handles[d] + extra[d] > 0
        BY <3>2, Naturals
      <3> QED
        BY <3>3 DEF Counted
    <2> QED
      BY <2>1, <2>2
  <1>3. ASSUME AllReleased PROVE next[ListHead] = ListHead
    <2>1. \A t \in Threads : pc[t] = "idle" /\ list[t] = <<>> /\ drop[t] = <<>> /\ Plain(t)
      BY <1>3 DEF AllReleased, Base, Located, LocatedAt, Plain
    <2>2. ~crash
      BY <2>1 DEF Counted, AllocCorrupts
    <2>3. ASSUME NEW d \in Objects PROVE ~Live(d)
      <3> SUFFICES ASSUME Live(d) PROVE FALSE
        OBVIOUS
      <3>1. PICK t \in setup.threads : CountedAt(t)
        BY DEF Counted
      <3>2. t \in Threads
        BY <1>0
      <3>3. HeldBy(t, d) = 0 /\ ~Unclaimed(t, d)
        BY <2>1, <3>2, PlainHeld, CountEmpty
      <3>4. handles[d] = 0 /\ extra[d] = 0
        BY <1>3 DEF AllReleased
      <3> QED
        BY <3>1, <3>3, <3>4 DEF CountedAt, Balanced
    <2>4. PICK s : Chain(s, prev)
      BY <2>1, <2>2 DEF Linked, Ordered
    <2>5. Len(s) = 0
      <3>1. Len(s) \in Nat /\ \A i \in 1 .. Len(s) : s[i] \in Objects /\ Live(s[i])
        BY <2>4, NodeFacts DEF Chain
      <3>2. 1 \notin 1 .. Len(s)
        BY <2>3, <3>1
      <3> QED
        BY <3>1, <3>2
    <2>6. next[Node(s, 0)] = Node(s, 1) /\ Node(s, 0) = ListHead /\ Node(s, 1) = ListHead
      <3>1. 0 \in 0 .. Len(s) /\ 0 + 1 = 1 /\ Len(s) + 1 = 1
        BY <2>5
      <3> QED
        BY <2>4, <3>1, NodeFacts DEF Chain
    <2> QED
      BY <2>6
  <1> QED
    BY <1>1, <1>2, <1>3 DEF ExitIsClean

\* On every path through enumeration, references, handles and lists, failures
\* of malloc and unreadable devices included, the count of a device is the
\* number of references that somebody still has to give up.
THEOREM RefsOwned == Spec => []RefsAreOwned
  <1>1. CountInv => RefsAreOwned
    BY CountInvMeans DEF RefsAreOwned
  <1> QED
    BY <1>1, CountInvariant, PTL

\* An application that serialises its calls never has a reference to, or a
\* handle of, a device that was freed.
THEOREM HeldLive == Spec => []HeldIsLive
  <1>1. CountInv => HeldIsLive
    BY CountInvMeans DEF HeldIsLive
  <1> QED
    BY <1>1, CountInvariant, PTL

\* The assertion of usbyb_exit: when such an application has given everything
\* back, the context has no devices.
THEOREM SerialExitClean == Spec => []SerialExitIsClean
  <1>1. CountInv => SerialExitIsClean
    BY CountInvMeans DEF SerialExitIsClean
  <1> QED
    BY <1>1, CountInvariant, PTL

\* Such an application corrupts no memory unless malloc fails, and then in one
\* place only: the step that corrupts it is that of usbyi_alloc_device, which
\* clears the new object before anyone looks whether there is one.  Walking
\* the list, extending and unlinking it, and every change of a count touch
\* devices that exist, through every partial failure.
THEOREM SerialIsSafe ==
  Spec => /\ [](Serial /\ ~setup.allocFails => ~crash)
          /\ [][Serial /\ ~crash /\ crash' => \E t \in Threads : AllocDeviceFails(t)]_vars
  <1> DEFINE OnlyAlloc == Serial /\ ~crash /\ crash' => \E t \in Threads : AllocDeviceFails(t)
  <1>1. CountInv => (Serial /\ ~setup.allocFails => ~crash)
    BY DEF CountInv, Counted, AllocCorrupts
  <1>2. CountInv /\ [Next]_vars => [OnlyAlloc]_vars
    <2> SUFFICES ASSUME CountInv, AnyNext, Serial, ~crash, crash'
                 PROVE  \E t \in Threads : AllocDeviceFails(t)
      BY StepCases
    <2>1. PICK t \in Threads : Step(t) /\ UNCHANGED setup
      BY DEF AnyNext, vars
    <2>2. t \in setup.threads
      BY <2>1, StepThread DEF CountInv, ListInv
    <2>3. CountedAt(t)
      BY <2>2 DEF CountInv, Counted
    <2> QED
      BY <2>1, <2>3, OnlyAllocCorrupts DEF CountInv
  <1> QED
    BY <1>1, <1>2, CountInvariant, PTL DEF Spec
=============================================================================
