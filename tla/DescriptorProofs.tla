--------------------------- MODULE DescriptorProofs ---------------------------
(***************************************************************************)
(* Theorems about ConfigParser, for configurations of any length: the      *)
(* memory of the parser balances on every path, and it accepts exactly     *)
(* what is well formed.  Theorems about StringDescriptor, for strings and  *)
(* buffers of any length: unpaired surrogates are refused, plain text      *)
(* comes out as its UTF-8, and four bytes for each unit are room enough.   *)
(***************************************************************************)
EXTENDS MCDescriptors, SequenceTheorems, FiniteSetTheorems,
        WellFoundedInduction, TLAPS

\* What libusby_free_config_descriptor frees of the present tree.
Tree ==
  {<<"config">>, <<"interfaces">>}
    \cup {AltsettingsOf(n) : n \in DOMAIN interface}
    \cup UNION {{EndpointsOf(n, a) : a \in 0 .. Len(interface[n]) - 1} :
                  n \in DOMAIN interface}

Bytes == {<<"raw">>}

\* The configuration that was read is the next one of the device.
ReadIsNext ==
  /\ phase \in {"begin", "parse", "compare"} =>
       index < Len(configs) /\ raw.value = configs[index + 1].value
  /\ phase = "begin" => current = None /\ interface = <<>>
  /\ phase \in {"parse", "compare"} => DOMAIN interface = Numbers
  /\ raw.bNumInterfaces \in Nat

\* The memory in use at each stage is that of the bytes and of the tree.
MemoryIsOwned ==
  /\ phase = "fetch" => heap = {}
  /\ phase = "begin" => heap = Bytes
  /\ phase = "parse" => heap \subseteq Bytes \cup Tree /\ <<"config">> \in heap
  /\ phase = "compare" => heap \subseteq Tree /\ <<"config">> \in heap

\* Those passed over did not have the value asked for.
NoneSoFar == \A i \in 1 .. index : configs[i].value # wanted

Inv ==
  /\ configs \in Seq(Config)
  /\ ParserTypeOK /\ ReadIsNext /\ MemoryIsOwned /\ NoneSoFar
  /\ NothingLeaks

-----------------------------------------------------------------------------

\* Freeing is taking the tree away.
LEMMA FreeIsTree == \A h : FreeConfig(h) = h \ Tree
BY DEF FreeConfig, Tree

\* The bytes read are no part of the tree.
LEMMA BytesApart == <<"raw">> \notin Tree /\ <<"config">> # <<"raw">> /\ <<"config">> \in Tree
<1>1. \A n : AltsettingsOf(n) # <<"raw">>
  BY DEF AltsettingsOf
<1>2. \A n, a : EndpointsOf(n, a) # <<"raw">>
  BY DEF EndpointsOf
<1>3. <<"raw">> # <<"config">> /\ <<"raw">> # <<"interfaces">>
  OBVIOUS
<1> QED
  BY <1>1, <1>2, <1>3 DEF Tree

\* What is read of a configuration, cut anywhere, is one with the same value.
LEMMA ReadType ==
  ASSUME NEW c \in Config, NEW r \in MayRead(c)
  PROVE  /\ r.value = c.value /\ r.bNumInterfaces \in Nat
         /\ r.body \in Seq(Descriptor)
<1>1. c.body \in Seq(Descriptor) /\ Len(c.body) \in Nat /\ c.bNumInterfaces \in Nat
  BY DEF Config
<1>2. ASSUME NEW k \in 0 .. Len(c.body)
      PROVE  /\ CutAt(c, k) \in Config /\ CutAt(c, k).value = c.value
             /\ CutAt(c, k).bNumInterfaces = c.bNumInterfaces
             /\ CutAt(c, k).body \in Seq(Descriptor)
             /\ Len(CutAt(c, k).body) = k
             /\ \A j \in 1 .. k : CutAt(c, k).body[j] \in Descriptor
  <2>1. \A j \in 1 .. k : c.body[j] \in Descriptor
    BY <1>1
  <2>2. SubSeq(c.body, 1, k) \in Seq(Descriptor) /\ Len(SubSeq(c.body, 1, k)) = k
    BY <1>1, <2>1, SubSeqProperties
  <2>3. /\ c \in [value : Values, good : BOOLEAN, bNumInterfaces : Nat, body : Seq(Descriptor)]
        /\ CutAt(c, k) = [c EXCEPT !.body = SubSeq(c.body, 1, k)]
    BY DEF CutAt, Config
  <2>4. CutAt(c, k) \in [value : Values, good : BOOLEAN, bNumInterfaces : Nat, body : Seq(Descriptor)]
    BY <2>2, <2>3
  <2>5. CutAt(c, k).body = SubSeq(c.body, 1, k) /\ CutAt(c, k).value = c.value
        /\ CutAt(c, k).bNumInterfaces = c.bNumInterfaces
    BY <2>3
  <2>6. \A j \in 1 .. k : CutAt(c, k).body[j] \in Descriptor
    BY <2>2, <2>5
  <2> QED
    BY <2>2, <2>4, <2>5, <2>6 DEF Config
<1>3. CASE r = c
  BY <1>1, <1>3
<1>4. CASE \E k \in 0 .. Len(c.body) : r = CutAt(c, k)
  BY <1>1, <1>2, <1>4
<1>5. CASE \E k \in DOMAIN c.body : r = [CutAt(c, k) EXCEPT !.body[k].good = FALSE]
  <2>0. DOMAIN c.body = 1 .. Len(c.body)
    BY <1>1
  <2>1. PICK k \in 1 .. Len(c.body) : r = [CutAt(c, k) EXCEPT !.body[k].good = FALSE]
    BY <2>0, <1>5
  <2>2. CutAt(c, k).body[k] \in Descriptor /\ k \in 1 .. Len(CutAt(c, k).body)
    BY <1>1, <1>2, <2>1
  <2>3. [CutAt(c, k).body[k] EXCEPT !.good = FALSE] \in Descriptor
    BY <2>2 DEF Descriptor
  <2>4. [CutAt(c, k).body EXCEPT ![k] = [CutAt(c, k).body[k] EXCEPT !.good = FALSE]] \in Seq(Descriptor)
    BY <1>1, <1>2, <2>2, <2>3, ExceptSeq
  <2>5. k \in 0 .. Len(c.body)
    BY <1>1
  <2>6. CutAt(c, k) \in Config /\ CutAt(c, k).value = c.value /\ CutAt(c, k).bNumInterfaces \in Nat
    BY <1>1, <1>2, <2>5
  <2> QED
    BY <2>1, <2>4, <2>6 DEF Config
<1>6. CASE r = [CutAt(c, 0) EXCEPT !.good = FALSE]
  BY <1>1, <1>2, <1>6 DEF Config
<1> QED
  BY <1>3, <1>4, <1>5, <1>6 DEF MayRead

\* A descriptor that the parser looks at.
LEMMA UpcomingType ==
  ASSUME Inv, pos < Len(raw.body)
  PROVE  Upcoming \in Descriptor /\ pos + 1 \in 0 .. Len(raw.body)
BY DEF Inv, ParserTypeOK, Upcoming

\* The exit of the parser frees the tree and the bytes.
LEMMA RejectInv ==
  ASSUME Inv, phase \in {"begin", "parse"}, Reject, UNCHANGED <<requestVars, index, raw, crash>>,
         faults' \in BOOLEAN
  PROVE  Inv'
<1>1. heap \subseteq Bytes \cup Tree
  BY DEF Inv, MemoryIsOwned
<1>2. /\ phase' = "done" /\ result' = "io" /\ heap' = FreeConfig(heap) \ {<<"raw">>}
      /\ UNCHANGED <<interface, current, stored, pos>>
  BY DEF Reject, Finish, treeVars
<1>3. heap' = {}
  BY <1>1, <1>2, FreeIsTree DEF Bytes
<1>4. UNCHANGED <<configs, wanted>>
  BY DEF requestVars
<1>5. ParserTypeOK'
  BY <1>2, <1>4 DEF Inv, ParserTypeOK, Phases, Results
<1> QED
  BY <1>2, <1>3, <1>4, <1>5 DEF Inv, ReadIsNext, MemoryIsOwned, NoneSoFar, NothingLeaks

\* The initial states satisfy the invariant.
LEMMA InitInv == ASSUME ParserAssumption, ParserInit PROVE Inv
<1>1. configs \in Seq(Config)
  BY DEF ParserInit, ParserAssumption
<1>2. ParserTypeOK
  <2>1. raw.body = <<>> /\ raw.body \in Seq(Descriptor) /\ Len(raw.body) = 0
    BY DEF ParserInit, NoConfig
  <2>2. \A n \in DOMAIN interface : interface[n] \in Seq(Nat)
    BY DEF ParserInit
  <2>3. index \in 0 .. Len(configs) /\ pos \in 0 .. Len(raw.body)
    BY <1>1, <2>1 DEF ParserInit
  <2> QED
    BY <2>1, <2>2, <2>3 DEF ParserInit, ParserTypeOK, Phases, Results
<1> QED
  BY <1>1, <1>2 DEF ParserInit, Inv, ReadIsNext, MemoryIsOwned, NoneSoFar, NothingLeaks, NoConfig

\* Reading a configuration.
LEMMA FetchInv ==
  ASSUME Inv, Fetch
  PROVE  Inv'
<1> USE DEF Inv
<1>1. /\ index < Len(configs) /\ raw' \in MayRead(configs[index + 1])
      /\ pos' = 0 /\ interface' = <<>> /\ current' = None /\ stored' = 0
      /\ phase' = "begin" /\ phase = "fetch" /\ heap' = heap \cup {<<"raw">>}
      /\ UNCHANGED <<configs, wanted, index, result, crash>>
  BY DEF Fetch, requestVars
<1>2. configs[index + 1] \in Config /\ index \in Nat /\ Len(configs) \in Nat
  BY <1>1 DEF ParserTypeOK
<1>3. /\ raw'.value = configs[index + 1].value /\ raw'.bNumInterfaces \in Nat
      /\ raw'.body \in Seq(Descriptor)
  BY <1>1, <1>2, ReadType
<1>4. faults' \in BOOLEAN
  BY DEF Fetch, ParserTypeOK
<1>5. ParserTypeOK'
  BY <1>1, <1>3, <1>4 DEF ParserTypeOK, Phases
<1> QED
  BY <1>1, <1>3, <1>5 DEF ReadIsNext, MemoryIsOwned, NoneSoFar, NothingLeaks, Bytes

\* It cannot be read, or there are no more.
LEMMA FetchEndsInv ==
  ASSUME Inv, FetchFails \/ NotFound
  PROVE  Inv'
<1> USE DEF Inv
<1>1. /\ phase = "fetch" /\ phase' = "done" /\ result' \in {"io", "no_mem", "not_found"}
      /\ heap' = heap /\ faults' \in BOOLEAN
      /\ UNCHANGED <<configs, wanted, index, raw, pos, interface, current, stored, crash>>
  BY DEF FetchFails, NotFound, Finish, requestVars, treeVars, ParserTypeOK
<1>2. ParserTypeOK'
  BY <1>1 DEF ParserTypeOK, Phases, Results
<1> QED
  BY <1>1, <1>2 DEF ReadIsNext, MemoryIsOwned, NoneSoFar, NothingLeaks

\* The first nine bytes.
LEMMA BeginInv ==
  ASSUME Inv, Begin
  PROVE  Inv'
<1> USE DEF Inv
<1>1. phase = "begin" /\ UNCHANGED <<configs, wanted, index, raw, crash>>
  BY DEF Begin, requestVars
<1>2. CASE /\ raw.good
           /\ interface' = [n \in Numbers |-> <<>>]
           /\ heap' = heap \cup {<<"config">>, <<"interfaces">>}
           /\ phase' = "parse"
           /\ UNCHANGED <<pos, current, stored, result, faults>>
  <2>1. ParserTypeOK'
    BY <1>1, <1>2 DEF ParserTypeOK, Phases, ReadIsNext
  <2>2. heap' \subseteq Bytes \cup Tree' /\ <<"config">> \in heap'
    BY <1>1, <1>2 DEF MemoryIsOwned, Tree
  <2> QED
    BY <1>1, <1>2, <2>1, <2>2 DEF ReadIsNext, MemoryIsOwned, NoneSoFar, NothingLeaks, Numbers
<1>3. CASE \/ ~raw.good /\ Reject /\ UNCHANGED faults
           \/ raw.good /\ RejectNoMem
  BY <1>1, <1>3, RejectInv DEF RejectNoMem, requestVars, ParserTypeOK
<1>4. CASE /\ raw.good /\ AllocFails
           /\ Finish("no_mem", heap \ {<<"raw">>})
           /\ faults' = TRUE
           /\ UNCHANGED <<pos, treeVars>>
  <2>1. heap' = {} /\ phase' = "done" /\ result' = "no_mem" /\ UNCHANGED <<pos, interface, current, stored>>
    BY <1>1, <1>4 DEF MemoryIsOwned, Bytes, Finish, treeVars
  <2>2. ParserTypeOK'
    BY <1>1, <1>4, <2>1 DEF ParserTypeOK, Phases, Results
  <2> QED
    BY <1>1, <2>1, <2>2 DEF ReadIsNext, MemoryIsOwned, NoneSoFar, NothingLeaks
<1> QED
  BY <1>2, <1>3, <1>4 DEF Begin

\* An altsetting is appended to its interface.
LEMMA ParseInterfaceInv ==
  ASSUME Inv, ParseInterface
  PROVE  Inv'
<1> USE DEF Inv
<1> DEFINE d == Upcoming
<1>1. /\ phase = "parse" /\ pos < Len(raw.body)
      /\ UNCHANGED <<configs, wanted, index, raw, crash>>
  BY DEF ParseInterface, At, requestVars
<1>2. d \in Descriptor /\ pos + 1 \in 0 .. Len(raw.body)
  BY <1>1, UpcomingType
<1>3. CASE Reject /\ (UNCHANGED faults \/ faults' = TRUE)
  BY <1>1, <1>3, RejectInv DEF requestVars, ParserTypeOK
<1>4. CASE /\ IsNextAltsetting(d)
           /\ interface' = [interface EXCEPT ![d.num] = Append(@, d.endpoints)]
           /\ current' = <<d.num, d.alt>>
           /\ stored' = FirstEndpoint
           /\ heap' = heap \cup {AltsettingsOf(d.num), EndpointsOf(d.num, d.alt)}
           /\ pos' = pos + 1
           /\ UNCHANGED <<phase, result, faults>>
  <2>1. /\ d.num \in Nat /\ d.alt \in Nat /\ d.endpoints \in Nat
    BY <1>2 DEF Descriptor
  <2>2. d.num \in DOMAIN interface /\ d.alt = Len(interface[d.num])
    BY <1>1, <1>4, <2>1 DEF IsNextAltsetting, ReadIsNext, Numbers
  <2>3. /\ DOMAIN interface' = DOMAIN interface
        /\ \A n \in DOMAIN interface :
             interface'[n] = IF n = d.num THEN Append(interface[n], d.endpoints) ELSE interface[n]
    BY <1>4
  <2>4. \A n \in DOMAIN interface :
          interface'[n] \in Seq(Nat) /\ Len(interface'[n]) >= Len(interface[n])
    <3> TAKE n \in DOMAIN interface
    <3>1. interface[n] \in Seq(Nat)
      BY DEF ParserTypeOK
    <3>2. CASE n = d.num
      <4>1. interface'[n] = Append(interface[n], d.endpoints)
        BY <2>3, <3>2
      <4>2. /\ Append(interface[n], d.endpoints) \in Seq(Nat)
            /\ Len(Append(interface[n], d.endpoints)) = Len(interface[n]) + 1
        BY <2>1, <3>1, AppendProperties
      <4> QED
        BY <3>1, <4>1, <4>2
    <3>3. CASE n # d.num
      <4>1. interface'[n] = interface[n]
        BY <2>3, <3>3
      <4> QED
        BY <3>1, <4>1
    <3> QED
      BY <3>2, <3>3
  <2>5. d.alt < Len(interface'[d.num])
    BY <2>1, <2>2, <2>3 DEF ParserTypeOK
  <2>6. current'[1] = d.num /\ current'[2] = d.alt
    BY <1>4
  <2>7. ParserTypeOK'
    BY <1>1, <1>2, <1>4, <2>2, <2>3, <2>4, <2>5, <2>6 DEF ParserTypeOK, FirstEndpoint
  <2>8. Tree \subseteq Tree'
    <3>1. \A n \in DOMAIN interface : 0 .. Len(interface[n]) - 1 \subseteq 0 .. Len(interface'[n]) - 1
      BY <2>4 DEF ParserTypeOK
    <3> QED
      BY <2>3, <3>1 DEF Tree
  <2>9. AltsettingsOf(d.num) \in Tree' /\ EndpointsOf(d.num, d.alt) \in Tree'
    <3>1. d.alt \in 0 .. Len(interface'[d.num]) - 1
      BY <2>1, <2>2, <2>4, <2>5
    <3> QED
      BY <2>2, <2>3, <3>1 DEF Tree
  <2>10. MemoryIsOwned'
    BY <1>1, <1>4, <2>8, <2>9 DEF MemoryIsOwned, Bytes
  <2> QED
    BY <1>1, <1>4, <2>3, <2>7, <2>10 DEF ReadIsNext, NoneSoFar, NothingLeaks, Numbers
<1> QED
  BY <1>3, <1>4 DEF ParseInterface, RejectNoMem

\* Other descriptors leave the tree as it is.
LEMMA ParseOthersInv ==
  ASSUME Inv, ParseEndpoint \/ ParseOther
  PROVE  Inv'
<1> USE DEF Inv
<1>1. /\ phase = "parse" /\ pos < Len(raw.body) /\ pos' = pos + 1
      /\ stored' \in Nat /\ crash' \in BOOLEAN
      /\ UNCHANGED <<configs, wanted, index, raw, interface, current, heap, phase, result, faults>>
  <2>1. CASE ParseEndpoint
    <3>2. crash' \in BOOLEAN
      BY <2>1, Zenon DEF ParseEndpoint
    <3>3. stored' \in Nat
      BY <2>1 DEF ParseEndpoint, ParserTypeOK
    <3> QED
      BY <2>1, <3>2, <3>3 DEF ParseEndpoint, At, requestVars, treeVars
  <2>2. CASE ParseOther
    BY <2>2 DEF ParseOther, At, requestVars, treeVars, ParserTypeOK
  <2> QED
    BY <2>1, <2>2
<1>2. ParserTypeOK'
  BY <1>1 DEF ParserTypeOK
<1> QED
  BY <1>1, <1>2 DEF ReadIsNext, MemoryIsOwned, NoneSoFar, NothingLeaks, Tree, Numbers

\* The end of the parser.
LEMMA ParseEndInv ==
  ASSUME Inv, ParseBad \/ ParseEnd
  PROVE  Inv'
<1> USE DEF Inv
<1>1. phase = "parse" /\ UNCHANGED <<configs, wanted, index, raw, crash, faults>>
  BY DEF ParseBad, ParseEnd, requestVars
<1>2. CASE Reject
  BY <1>1, <1>2, RejectInv DEF requestVars, ParserTypeOK
<1>3. CASE /\ phase' = "compare"
           /\ heap' = heap \ {<<"raw">>}
           /\ UNCHANGED <<pos, treeVars, result>>
  <2>1. UNCHANGED <<pos, interface, current, stored, result>>
    BY <1>3 DEF treeVars
  <2>2. ParserTypeOK'
    BY <1>1, <1>3, <2>1 DEF ParserTypeOK, Phases
  <2>3. Tree' = Tree /\ Numbers' = Numbers
    BY <1>1, <2>1 DEF Tree, Numbers
  <2>4. heap' \subseteq Tree' /\ <<"config">> \in heap'
    BY <1>1, <1>3, <2>3, BytesApart DEF MemoryIsOwned, Bytes
  <2> QED
    BY <1>1, <1>3, <2>1, <2>2, <2>3, <2>4 DEF ReadIsNext, MemoryIsOwned, NoneSoFar, NothingLeaks
<1> QED
  BY <1>2, <1>3 DEF ParseBad, ParseEnd

\* The value is compared, and a configuration not asked for is freed.
LEMMA CompareInv ==
  ASSUME Inv, Compare
  PROVE  Inv'
<1> USE DEF Inv
<1>1. /\ phase = "compare" /\ heap \subseteq Tree /\ <<"config">> \in heap
      /\ UNCHANGED <<configs, wanted, raw, pos, interface, current, stored, faults, crash>>
      /\ index < Len(configs) /\ raw.value = configs[index + 1].value
      /\ index \in Nat /\ Len(configs) \in Nat
  BY DEF Compare, requestVars, treeVars, MemoryIsOwned, ReadIsNext, ParserTypeOK
<1>2. Tree' = Tree
  BY <1>1 DEF Tree
<1>3. CASE IsWanted /\ Finish("success", heap) /\ UNCHANGED index
  <2>1. phase' = "done" /\ result' = "success" /\ heap' = heap /\ UNCHANGED index
    BY <1>3 DEF Finish
  <2>2. ParserTypeOK'
    BY <1>1, <2>1 DEF ParserTypeOK, Phases, Results
  <2>3. FreeConfig(heap)' = {}
    BY <1>1, <2>1 DEF FreeConfig, Tree
  <2>4. NothingLeaks'
    BY <1>1, <1>3, <2>1, <2>3 DEF NothingLeaks, NoneSoFar, IsWanted
  <2> QED
    BY <1>1, <2>1, <2>2, <2>4 DEF ReadIsNext, MemoryIsOwned, NoneSoFar
<1>4. CASE /\ ~IsWanted
           /\ index' = index + 1
           /\ heap' = FreeConfig(heap)
           /\ phase' = "fetch"
           /\ UNCHANGED result
  <2>1. heap' = {}
    BY <1>1, <1>4, FreeIsTree
  <2>2. ParserTypeOK'
    BY <1>1, <1>4 DEF ParserTypeOK, Phases
  <2>3. NoneSoFar'
    BY <1>1, <1>4 DEF NoneSoFar, IsWanted
  <2> QED
    BY <1>1, <1>4, <2>1, <2>2, <2>3 DEF ReadIsNext, MemoryIsOwned, NothingLeaks
<1> QED
  BY <1>3, <1>4 DEF Compare

\* Every reachable state satisfies the invariant.
LEMMA Invariance == ASSUME ParserAssumption PROVE ParserSpec => []Inv
<1>1. ParserInit => Inv
  BY InitInv
<1>2. Inv /\ [ParserStep]_parserVars => Inv'
  <2>1. CASE UNCHANGED parserVars
    <3>1. UNCHANGED <<configs, wanted, index, raw, pos, interface, current, stored, heap, phase,
                      result, faults, crash>>
      BY <2>1 DEF parserVars, requestVars, treeVars
    <3> QED
      BY <3>1 DEF Inv, ParserTypeOK, ReadIsNext, MemoryIsOwned, NoneSoFar, NothingLeaks, Tree,
                  FreeConfig, Numbers
  <2> QED
    BY <2>1, FetchInv, FetchEndsInv, BeginInv, ParseInterfaceInv, ParseOthersInv, ParseEndInv,
       CompareInv DEF ParserStep
<1> QED
  BY <1>1, <1>2, PTL DEF ParserSpec

-----------------------------------------------------------------------------

\* The parser's position, its pointers into the tree and its results stay in
\* their ranges; intf_desc always points to an altsetting that was stored.
THEOREM ParserTypeCorrect == ParserSpec => []ParserTypeOK
<1>1. Inv => ParserTypeOK
  BY DEF Inv
<1> QED
  BY <1>1, Invariance, ParserAssumption, PTL

\* No exit of libusby_get_config_descriptor_by_value loses memory or frees what
\* it returns, for any device and wherever an allocation or a read fails; and
\* it returns the first configuration with the value asked for.
THEOREM MemoryBalances == ParserSpec => []NothingLeaks
<1>1. Inv => NothingLeaks
  BY DEF Inv
<1> QED
  BY <1>1, Invariance, ParserAssumption, PTL

-----------------------------------------------------------------------------
(* Which interface an endpoint belongs to.                                 *)

\* Induction over natural numbers by their least counterexample.
LEMMA LeastNat ==
  ASSUME NEW T \in SUBSET Nat, T # {}
  PROVE  \E x \in T : \A y \in T : x <= y
<1> DEFINE F == {1 .. x : x \in T}
<1>1. F \subseteq FiniteSubsetsOf(Nat) /\ F # {}
  <2>1. \A x \in T : x \in Int /\ 1 .. x \subseteq Nat
    OBVIOUS
  <2>2. \A x \in T : 1 .. x \in FiniteSubsetsOf(Nat)
    BY <2>1, FS_Interval DEF FiniteSubsetsOf
  <2> QED
    BY <2>2
<1> HIDE DEF F
<1>2. PICK I \in F : \A J \in F : ~(<<J, I>> \in StrictSubsetOrdering(Nat))
  BY <1>1, FS_StrictSubsetOrderingWellFounded, WFMin
<1>3. PICK x \in T : I = 1 .. x
  BY DEF F
<1>4. ASSUME NEW y \in T, y < x PROVE FALSE
  <2>1. 1 .. y \in F
    BY DEF F
  <2>2. 1 .. y \subseteq 1 .. x /\ 1 .. y # 1 .. x /\ 1 .. x \subseteq Nat
    BY <1>4
  <2>3. <<1 .. y, 1 .. x>> \in StrictSubsetOrdering(Nat)
    BY <2>2 DEF StrictSubsetOrdering
  <2> QED
    BY <1>2, <1>3, <2>1, <2>3
<1> QED
  BY <1>4

LEMMA BodyType ==
  ASSUME NEW c, c.body \in Seq(Descriptor), NEW kind
  PROVE  /\ DOMAIN c.body = 1 .. Len(c.body) /\ Len(c.body) \in Nat
         /\ Body(c, kind) \subseteq 1 .. Len(c.body)
         /\ \A k : k \in Body(c, kind) <=> k \in 1 .. Len(c.body) /\ c.body[k].kind = kind
BY DEF Body

\* The last interface descriptor before k.
LEMMA OwnerIs ==
  ASSUME NEW c, c.body \in Seq(Descriptor), NEW k \in Nat,
         NEW j \in Body(c, "interface"), j < k, \A i \in Body(c, "interface") : i < k => i <= j
  PROVE  OwnerOf(c, k) = j
<1> DEFINE before == {i \in Body(c, "interface") : i < k}
<1>1. j \in before /\ before \subseteq Int /\ \A i \in before : i <= j
  BY BodyType
<1>2. OwnerOf(c, k) = IF before = {} THEN 0 ELSE CHOOSE m \in before : \A i \in before : i <= m
  BY DEF OwnerOf
<1> HIDE DEF before
<1>3. \A m \in before : (\A i \in before : i <= m) => m = j
  BY <1>1
<1> QED
  BY <1>1, <1>2, <1>3

LEMMA OwnerNone ==
  ASSUME NEW c, NEW k, \A i \in Body(c, "interface") : ~(i < k)
  PROVE  OwnerOf(c, k) = 0
BY DEF OwnerOf

\* There is one if there are any.
LEMMA OwnerAbove ==
  ASSUME NEW c, c.body \in Seq(Descriptor), NEW k \in Nat, NEW j \in Body(c, "interface"), j < k
  PROVE  OwnerOf(c, k) \in Body(c, "interface") /\ j <= OwnerOf(c, k) /\ OwnerOf(c, k) < k
<1> DEFINE before == {i \in Body(c, "interface") : i < k}
           T == {k - i : i \in before}
<1>1. before \subseteq Nat /\ j \in before /\ \A i \in before : i < k
  BY BodyType
<1> HIDE DEF before
<1>2. T \in SUBSET Nat /\ k - j \in T
  BY <1>1
<1>3. PICK x \in T : \A y \in T : x <= y
  BY <1>2, LeastNat
<1>4. PICK m \in before : x = k - m
  BY <1>3
<1>5. \A i \in before : i <= m
  <2> TAKE i \in before
  <2>1. k - i \in T
    OBVIOUS
  <2> HIDE DEF T
  <2>2. x <= k - i
    BY <1>3, <2>1
  <2>3. i \in Nat /\ m \in Nat
    BY <1>1
  <2> QED
    BY <1>4, <2>2, <2>3
<1>6. m \in Body(c, "interface") /\ m < k
  BY DEF before
<1>7. \A i \in Body(c, "interface") : i < k => i <= m
  BY <1>5 DEF before
<1>8. OwnerOf(c, k) = m
  BY <1>6, <1>7, OwnerIs
<1> QED
  BY <1>1, <1>5, <1>6, <1>8

-----------------------------------------------------------------------------
(* Counting.                                                               *)

\* The endpoint descriptors of interface descriptor j, and the altsettings of
\* interface n, up to p.
EndpointsTo(c, j, p) == {k \in EndpointsBelow(c, j) : k <= p}

LEMMA Finite ==
  ASSUME NEW c, c.body \in Seq(Descriptor), NEW j, NEW n, NEW p
  PROVE  /\ IsFiniteSet(EndpointsBelow(c, j)) /\ Cardinality(EndpointsBelow(c, j)) \in Nat
         /\ IsFiniteSet(EndpointsTo(c, j, p)) /\ Cardinality(EndpointsTo(c, j, p)) \in Nat
         /\ IsFiniteSet(Siblings(c, n, p)) /\ Cardinality(Siblings(c, n, p)) \in Nat
<1>1. IsFiniteSet(1 .. Len(c.body))
  BY FS_Interval
<1>2. EndpointsBelow(c, j) \subseteq 1 .. Len(c.body)
  BY BodyType DEF EndpointsBelow
<1>3. EndpointsTo(c, j, p) \subseteq 1 .. Len(c.body)
  BY <1>2 DEF EndpointsTo
<1>4. Siblings(c, n, p) \subseteq 1 .. Len(c.body)
  BY BodyType DEF Siblings
<1>5. IsFiniteSet(EndpointsBelow(c, j)) /\ IsFiniteSet(EndpointsTo(c, j, p)) /\ IsFiniteSet(Siblings(c, n, p))
  BY <1>1, <1>2, <1>3, <1>4, FS_Subset
<1> QED
  BY <1>5, FS_CardinalityType

\* The descriptor at p + 1 is one more endpoint of j, or none.
LEMMA EndpointsNext ==
  ASSUME NEW c, c.body \in Seq(Descriptor), NEW p \in Nat, NEW j
  PROVE  Cardinality(EndpointsTo(c, j, p + 1))
           = Cardinality(EndpointsTo(c, j, p)) + (IF p + 1 \in EndpointsBelow(c, j) THEN 1 ELSE 0)
<1> DEFINE S == EndpointsTo(c, j, p)
           T == EndpointsTo(c, j, p + 1)
<1>1. EndpointsBelow(c, j) \subseteq Int
  BY BodyType DEF EndpointsBelow
<1>2. T = IF p + 1 \in EndpointsBelow(c, j) THEN S \cup {p + 1} ELSE S
  BY <1>1 DEF EndpointsTo
<1>3. p + 1 \notin S
  BY <1>1 DEF EndpointsTo
<1>4. IsFiniteSet(S) /\ Cardinality(S) \in Nat
  BY Finite
<1> HIDE DEF S, T
<1>5. Cardinality(S \cup {p + 1}) = Cardinality(S) + 1
  BY <1>3, <1>4, FS_AddElement
<1> QED
  BY <1>2, <1>4, <1>5 DEF S, T

\* The next interface descriptor closes the one before it.
LEMMA EndpointsClosed ==
  ASSUME NEW c, c.body \in Seq(Descriptor), NEW p \in Nat, NEW j \in Body(c, "interface"), j <= p,
         p + 1 \in Body(c, "interface")
  PROVE  EndpointsBelow(c, j) = EndpointsTo(c, j, p)
<1> SUFFICES ASSUME NEW k \in EndpointsBelow(c, j) PROVE k <= p
  BY DEF EndpointsTo
<1>1. k \in Body(c, "endpoint") /\ OwnerOf(c, k) = j
  BY DEF EndpointsBelow
<1>2. k \in Nat /\ j \in Nat
  BY <1>1, BodyType
<1>3. k # p + 1
  BY <1>1, BodyType
<1>4. CASE p + 1 < k
  <2>1. p + 1 <= OwnerOf(c, k)
    BY <1>2, <1>4, OwnerAbove
  <2> QED
    BY <1>1, <1>2, <2>1
<1> QED
  BY <1>2, <1>3, <1>4

\* So does the end.
LEMMA EndpointsEnd ==
  ASSUME NEW c, c.body \in Seq(Descriptor), NEW j
  PROVE  EndpointsTo(c, j, Len(c.body)) = EndpointsBelow(c, j)
BY BodyType DEF EndpointsTo, EndpointsBelow

LEMMA SiblingsNext ==
  ASSUME NEW c, c.body \in Seq(Descriptor), NEW p \in Nat, NEW n
  PROVE  Cardinality(Siblings(c, n, p + 1 + 1))
           = Cardinality(Siblings(c, n, p + 1))
               + (IF p + 1 \in Body(c, "interface") /\ c.body[p + 1].num = n THEN 1 ELSE 0)
<1> DEFINE S == Siblings(c, n, p + 1)
           T == Siblings(c, n, p + 1 + 1)
           new == p + 1 \in Body(c, "interface") /\ c.body[p + 1].num = n
<1>1. Body(c, "interface") \subseteq Int
  BY BodyType
<1>2. T = IF new THEN S \cup {p + 1} ELSE S
  BY <1>1 DEF Siblings
<1>3. p + 1 \notin S
  BY <1>1 DEF Siblings
<1>4. IsFiniteSet(S) /\ Cardinality(S) \in Nat
  BY Finite
<1> HIDE DEF S, T, new
<1>5. Cardinality(S \cup {p + 1}) = Cardinality(S) + 1
  BY <1>3, <1>4, FS_AddElement
<1> QED
  BY <1>2, <1>4, <1>5 DEF S, T, new

LEMMA OwnerBefore ==
  ASSUME NEW c, c.body \in Seq(Descriptor), NEW k \in Nat
  PROVE  OwnerOf(c, k) = 0 \/ (OwnerOf(c, k) \in Body(c, "interface") /\ OwnerOf(c, k) < k)
<1>1. CASE \E j \in Body(c, "interface") : j < k
  BY <1>1, OwnerAbove
<1>2. CASE \A j \in Body(c, "interface") : ~(j < k)
  BY <1>2, OwnerNone
<1> QED
  BY <1>1, <1>2

\* An interface descriptor comes before its endpoints.
LEMMA EndpointsFresh ==
  ASSUME NEW c, c.body \in Seq(Descriptor), NEW j \in Body(c, "interface")
  PROVE  Cardinality(EndpointsTo(c, j, j)) = 0
<1> SUFFICES ASSUME NEW k \in EndpointsTo(c, j, j) PROVE FALSE
  BY FS_EmptySet
<1>1. k \in Nat /\ j \in Nat /\ j # 0 /\ k <= j /\ OwnerOf(c, k) = j
  BY BodyType DEF EndpointsTo, EndpointsBelow
<1> QED
  BY <1>1, OwnerBefore

-----------------------------------------------------------------------------
(* What the parser knows of the descriptors it has passed.                 *)

\* The interface descriptors it has passed.
Passed == {j \in Body(raw, "interface") : j <= pos}

\* Interface descriptor j is in its place of the tree.
InPlace(j) ==
  LET d == raw.body[j]
  IN  /\ d.num \in Numbers
      /\ d.alt = Cardinality(Siblings(raw, d.num, j))
      /\ d.alt < Len(interface[d.num])
      /\ interface[d.num][d.alt + 1] = d.endpoints

\* It is the last one, and its endpoints are being counted.
Open(j) ==
  /\ \A i \in Passed : i <= j
  /\ current = <<raw.body[j].num, raw.body[j].alt>>
  /\ stored = Cardinality(EndpointsTo(raw, j, pos))
  /\ stored <= raw.body[j].endpoints

\* It has the endpoints it announces.
Closed(j) == raw.body[j].endpoints = Cardinality(EndpointsBelow(raw, j))

LastOpen ==
  IF current = None THEN Passed = {}
  ELSE \E j \in Passed : Open(j) /\ \A i \in Passed \ {j} : Closed(i)

WellFormedSoFar ==
  /\ raw.good /\ \A k \in 1 .. pos : raw.body[k].good
  /\ \A k \in Body(raw, "endpoint") : k <= pos => OwnerOf(raw, k) # 0
  /\ \A j \in Passed : InPlace(j)
  /\ \A n \in Numbers : Len(interface[n]) = Cardinality(Siblings(raw, n, pos + 1))
  /\ LastOpen

TreeIsRight ==
  \A j \in Body(raw, "interface") :
    interface[raw.body[j].num][raw.body[j].alt + 1] = Cardinality(EndpointsBelow(raw, j))

Judged ==
  /\ phase = "begin" => pos = 0
  /\ phase = "parse" /\ ~crash => WellFormedSoFar
  /\ phase = "compare" => WellFormed(raw) /\ TreeIsRight
  /\ result = "io" => phase = "done" /\ (~faults => ~WellFormed(raw))
  /\ crash => HasStrayEndpoint(raw)

\* The parser is at work.
Parsing == Inv /\ Judged /\ ~crash /\ phase = "parse"

\* The types of what it works on.
LEMMA ParsingTypes ==
  ASSUME Parsing
  PROVE  /\ raw.body \in Seq(Descriptor) /\ Len(raw.body) \in Nat
         /\ pos \in Nat /\ stored \in Nat /\ raw.bNumInterfaces \in Nat
         /\ DOMAIN interface = Numbers
         /\ \A n \in Numbers : interface[n] \in Seq(Nat) /\ Len(interface[n]) \in Nat
         /\ \A j \in Body(raw, "interface") :
              /\ j \in Nat /\ j # 0 /\ raw.body[j] \in Descriptor
              /\ raw.body[j].num \in Nat /\ raw.body[j].alt \in Nat /\ raw.body[j].endpoints \in Nat
<1>1. /\ raw.body \in Seq(Descriptor) /\ Len(raw.body) \in Nat
      /\ pos \in Nat /\ stored \in Nat /\ raw.bNumInterfaces \in Nat
      /\ DOMAIN interface = Numbers
      /\ \A n \in Numbers : interface[n] \in Seq(Nat) /\ Len(interface[n]) \in Nat
  BY DEF Parsing, Inv, ParserTypeOK, ReadIsNext
<1>2. ASSUME NEW j \in Body(raw, "interface")
      PROVE  /\ j \in Nat /\ j # 0 /\ raw.body[j] \in Descriptor
             /\ raw.body[j].num \in Nat /\ raw.body[j].alt \in Nat /\ raw.body[j].endpoints \in Nat
  <2>1. j \in 1 .. Len(raw.body)
    BY <1>1, BodyType
  <2>2. raw.body[j] \in Descriptor
    BY <1>1, <2>1
  <2> QED
    BY <1>1, <2>1, <2>2 DEF Descriptor
<1> QED
  BY <1>1, <1>2

\* What the next descriptor is.
LEMMA NextDescriptor ==
  ASSUME Parsing, pos < Len(raw.body)
  PROVE  /\ pos + 1 \in 1 .. Len(raw.body) /\ Upcoming = raw.body[pos + 1]
         /\ \A kind : pos + 1 \in Body(raw, kind) <=> Upcoming.kind = kind
<1>1. pos + 1 \in 1 .. Len(raw.body)
  BY ParsingTypes
<1>2. Upcoming = raw.body[pos + 1]
  BY DEF Upcoming
<1> QED
  BY <1>1, <1>2, ParsingTypes, BodyType

\* A rejection with a reason.
LEMMA RejectJudged ==
  ASSUME Inv, Judged, Reject, UNCHANGED <<requestVars, index, raw, crash>>,
         ~faults' => ~WellFormed(raw)
  PROVE  Judged'
<1>1. phase' = "done" /\ result' = "io" /\ UNCHANGED raw
  BY DEF Reject, Finish
<1> QED
  BY <1>1 DEF Judged

\* The altsetting that was being filled lacks endpoints.
LEMMA NotFull ==
  ASSUME Parsing, ~CurrentIsFull, pos = Len(raw.body) \/ pos + 1 \in Body(raw, "interface")
  PROVE  ~WellFormed(raw)
<1>1. WellFormedSoFar
  BY DEF Parsing, Judged
<1>2. current # None
  BY DEF CurrentIsFull
<1>3. PICK j \in Passed : Open(j)
  BY <1>1, <1>2 DEF WellFormedSoFar, LastOpen
<1>4. j \in Body(raw, "interface") /\ j <= pos
  BY DEF Passed
<1>5. EndpointsBelow(raw, j) = EndpointsTo(raw, j, pos)
  BY <1>4, ParsingTypes, EndpointsClosed, EndpointsEnd
<1>6. interface[current[1]][current[2] + 1] = raw.body[j].endpoints
  <2>1. current[1] = raw.body[j].num /\ current[2] = raw.body[j].alt
    BY <1>3 DEF Open
  <2> QED
    BY <1>1, <2>1 DEF WellFormedSoFar, InPlace
<1>7. Cardinality(EndpointsBelow(raw, j)) # raw.body[j].endpoints
  BY <1>2, <1>3, <1>5, <1>6 DEF CurrentIsFull, Open
<1> QED
  BY <1>4, <1>7 DEF WellFormed

\* It has all of them.
LEMMA Full ==
  ASSUME Parsing, CurrentIsFull, pos = Len(raw.body) \/ pos + 1 \in Body(raw, "interface")
  PROVE  \A j \in Passed : Closed(j)
<1>1. WellFormedSoFar
  BY DEF Parsing, Judged
<1>2. CASE current = None
  BY <1>1, <1>2 DEF WellFormedSoFar, LastOpen
<1>3. CASE current # None
  <2>1. PICK j \in Passed : Open(j) /\ \A i \in Passed \ {j} : Closed(i)
    BY <1>1, <1>3 DEF WellFormedSoFar, LastOpen
  <2>2. j \in Body(raw, "interface") /\ j <= pos
    BY DEF Passed
  <2>3. EndpointsBelow(raw, j) = EndpointsTo(raw, j, pos)
    BY <2>2, ParsingTypes, EndpointsClosed, EndpointsEnd
  <2>4. current[1] = raw.body[j].num /\ current[2] = raw.body[j].alt
    BY <2>1 DEF Open
  <2>5. stored = raw.body[j].endpoints
    BY <1>1, <1>3, <2>4 DEF WellFormedSoFar, InPlace, CurrentIsFull
  <2> QED
    BY <2>1, <2>3, <2>5 DEF Open, Closed
<1> QED
  BY <1>2, <1>3

\* An altsetting in its place.
LEMMA ParseInterfaceJudged ==
  ASSUME Parsing, ParseInterface
  PROVE  Judged'
<1>0. PICK q, d : q \in Nat /\ q = pos + 1 /\ d = Upcoming
  BY ParsingTypes
<1>1. /\ pos < Len(raw.body) /\ d.good /\ d.kind = "interface"
      /\ UNCHANGED <<raw, crash>> /\ ~crash /\ phase = "parse"
  BY <1>0 DEF ParseInterface, At, Parsing
<1>2. /\ q \in Body(raw, "interface") /\ d = raw.body[q] /\ q \in 1 .. Len(raw.body)
      /\ d.num \in Nat /\ d.alt \in Nat /\ d.endpoints \in Nat
  BY <1>0, <1>1, NextDescriptor, ParsingTypes
<1>3. WellFormedSoFar /\ result # "io"
  BY <1>1 DEF Parsing, Judged
<1>4. ASSUME IsNextAltsetting(d)
      PROVE  /\ d.num \in Numbers /\ interface[d.num] \in Seq(Nat)
             /\ d.alt = Len(interface[d.num])
             /\ d.alt = Cardinality(Siblings(raw, d.num, q))
  <2>1. d.num \in Numbers /\ d.alt = Len(interface[d.num])
    BY <1>2, <1>4, ParsingTypes DEF IsNextAltsetting, Numbers
  <2> QED
    BY <2>1, <1>0, <1>3, ParsingTypes DEF WellFormedSoFar
<1>5. CASE ~(CurrentIsFull /\ IsNextAltsetting(d))
  <2>1. Reject /\ UNCHANGED <<requestVars, index, raw, crash>>
    BY <1>0, <1>5 DEF ParseInterface, At
  <2>2. CASE ~CurrentIsFull
    BY <2>1, <2>2, <1>0, <1>2, NotFull, RejectJudged DEF Parsing
  <2>3. CASE ~IsNextAltsetting(d)
    <3>1. ~(d.num < raw.bNumInterfaces /\ d.alt = Cardinality(Siblings(raw, d.num, q)))
      <4>1. CASE d.num < raw.bNumInterfaces
        <5>1. d.num \in Numbers
          BY <4>1, <1>2, ParsingTypes DEF Numbers
        <5>2. Len(interface[d.num]) = Cardinality(Siblings(raw, d.num, q))
          BY <5>1, <1>0, <1>3 DEF WellFormedSoFar
        <5> QED
          BY <4>1, <5>2, <2>3 DEF IsNextAltsetting
      <4> QED
        BY <4>1
    <3>2. ~WellFormed(raw)
      BY <1>2, <3>1 DEF WellFormed
    <3> QED
      BY <2>1, <3>2, RejectJudged DEF Parsing
  <2> QED
    BY <1>5, <2>2, <2>3
<1>6. CASE RejectNoMem
  BY <1>6, <1>0, RejectJudged DEF RejectNoMem, ParseInterface, At, Parsing
<1>7. CASE /\ CurrentIsFull /\ IsNextAltsetting(d)
           /\ interface' = [interface EXCEPT ![d.num] = Append(@, d.endpoints)]
           /\ current' = <<d.num, d.alt>>
           /\ stored' = FirstEndpoint
           /\ pos' = pos + 1
           /\ UNCHANGED <<phase, result>>
  <2>1. pos \in Nat /\ raw.body \in Seq(Descriptor) /\ pos' = q
    BY <1>0, <1>7, ParsingTypes
  <2>2. /\ interface'[d.num] = Append(interface[d.num], d.endpoints)
        /\ \A n \in Numbers \ {d.num} : interface'[n] = interface[n]
        /\ Numbers' = Numbers
    BY <1>1, <1>4, <1>7, ParsingTypes DEF Numbers
  <2>3. /\ Len(interface'[d.num]) = d.alt + 1
        /\ interface'[d.num][d.alt + 1] = d.endpoints
        /\ \A i \in 1 .. d.alt : interface'[d.num][i] = interface[d.num][i]
    <3> DEFINE r == interface[d.num]
    <3>1. r \in Seq(Nat) /\ d.alt = Len(r) /\ d.endpoints \in Nat /\ interface'[d.num] = Append(r, d.endpoints)
      BY <1>2, <1>4, <1>7, <2>2
    <3> HIDE DEF r
    <3>2. /\ Len(Append(r, d.endpoints)) = Len(r) + 1
          /\ Append(r, d.endpoints)[Len(r) + 1] = d.endpoints
          /\ \A i \in 1 .. Len(r) : Append(r, d.endpoints)[i] = r[i]
      BY <3>1
    <3>3. \A i \in 1 .. d.alt : interface'[d.num][i] = r[i]
      BY <3>1, <3>2
    <3> QED
      BY <3>1, <3>2, <3>3 DEF r
  <2>4. Passed' = Passed \cup {q}
    <3>1. \A j \in Body(raw, "interface") : j <= q <=> j <= pos \/ j = q
      BY <1>0, <2>1, ParsingTypes
    <3>2. Passed' = {j \in Body(raw, "interface") : j <= q}
      BY <1>1, <2>1 DEF Passed
    <3> QED
      BY <1>2, <3>1, <3>2 DEF Passed
  <2>5. ASSUME NEW j \in Passed PROVE InPlace(j)'
    <3>1. InPlace(j) /\ j \in Body(raw, "interface")
      BY <1>3 DEF WellFormedSoFar, Passed
    <3> DEFINE e == raw.body[j]
    <3>2. e.num \in Numbers /\ e.alt < Len(interface[e.num]) /\ e.alt \in Nat
          /\ interface[e.num][e.alt + 1] = e.endpoints
      BY <3>1, ParsingTypes DEF InPlace
    <3>3. e.alt < Len(interface'[e.num]) /\ interface'[e.num][e.alt + 1] = e.endpoints
      <4>1. CASE e.num = d.num
        <5>1. e.alt < d.alt
          BY <4>1, <3>2, <1>4, <1>7
        <5>2. e.alt + 1 \in 1 .. d.alt /\ e.alt < d.alt + 1
          <6> DEFINE n == e.alt
          <6>1. n \in Nat /\ d.alt \in Nat /\ n < d.alt
            BY <5>1, <3>2, <1>2
          <6> HIDE DEF n
          <6>2. n + 1 \in 1 .. d.alt /\ n < d.alt + 1
            BY <6>1
          <6> QED
            BY <6>2 DEF n
        <5> QED
          BY <4>1, <5>2, <3>2, <2>3
      <4>2. CASE e.num # d.num
        BY <4>2, <3>2, <2>2
      <4> QED
        BY <4>1, <4>2
    <3> QED
      BY <1>1, <3>1, <3>2, <3>3, <2>2 DEF InPlace
  <2>6. InPlace(q)'
    <3>1. d.alt < d.alt + 1
      BY <1>2
    <3> QED
      BY <1>1, <1>2, <1>4, <1>7, <2>2, <2>3, <3>1 DEF InPlace
  <2>7. ASSUME NEW n \in Numbers PROVE Len(interface'[n]) = Cardinality(Siblings(raw, n, q + 1))
    <3>1. Cardinality(Siblings(raw, n, q + 1))
            = Cardinality(Siblings(raw, n, q)) + (IF d.num = n THEN 1 ELSE 0)
      BY <1>0, <1>2, <2>1, SiblingsNext
    <3>2. Len(interface[n]) = Cardinality(Siblings(raw, n, q)) /\ Len(interface[n]) \in Nat
      BY <1>0, <1>3, ParsingTypes DEF WellFormedSoFar
    <3>3. CASE n = d.num
      BY <3>1, <3>2, <3>3, <1>4, <1>7, <2>3
    <3>4. CASE n # d.num
      BY <3>1, <3>2, <3>4, <2>2
    <3> QED
      BY <3>3, <3>4
  <2>8. LastOpen'
    <3>1. \A j \in Passed : Closed(j)
      BY <1>0, <1>2, <1>7, Full
    <3>2. \A j \in Passed : Closed(j)'
      BY <1>1, <3>1 DEF Closed
    <3>3. Open(q)'
      <4>1. \A i \in Passed' : i <= q
        BY <2>1, <2>4, <1>0, ParsingTypes DEF Passed
      <4>2. stored' = Cardinality(EndpointsTo(raw, q, q)) /\ stored' <= d.endpoints
        <5>1. Cardinality(EndpointsTo(raw, q, q)) = 0
          BY <1>2, <2>1, EndpointsFresh
        <5> QED
          BY <1>2, <1>7, <5>1 DEF FirstEndpoint
      <4> QED
        BY <1>1, <1>2, <1>7, <2>1, <4>1, <4>2 DEF Open
    <3>4. current' # None
      BY <1>7 DEF None
    <3> QED
      BY <2>4, <3>2, <3>3, <3>4 DEF LastOpen
  <2>9. \A k \in 1 .. q : raw.body[k].good
    <3>1. \A k \in 1 .. q : k = q \/ k \in 1 .. pos
      BY <1>0, <2>1
    <3> QED
      BY <3>1, <1>1, <1>2, <1>3 DEF WellFormedSoFar
  <2>10. \A k \in Body(raw, "endpoint") : k <= q => OwnerOf(raw, k) # 0
    <3>1. \A k \in Body(raw, "endpoint") : k <= q => k <= pos
      BY <1>0, <1>1, <1>2, <2>1, BodyType
    <3> QED
      BY <3>1, <1>3 DEF WellFormedSoFar
  <2>11. WellFormedSoFar'
    BY <1>1, <1>3, <2>1, <2>2, <2>4, <2>5, <2>6, <2>7, <2>8, <2>9, <2>10 DEF WellFormedSoFar
  <2> QED
    BY <1>1, <1>3, <1>7, <2>11 DEF Judged
<1> QED
  BY <1>0, <1>5, <1>6, <1>7 DEF ParseInterface

\* Descriptors that are not interfaces.
LEMMA PassedSame ==
  ASSUME Parsing, pos < Len(raw.body), Upcoming.kind # "interface", Upcoming.good,
         pos' = pos + 1, UNCHANGED <<raw, interface, current>>
  PROVE  /\ Passed' = Passed /\ \A j \in Passed : InPlace(j)' /\ (Closed(j)' <=> Closed(j))
         /\ \A k \in 1 .. pos' : raw.body[k].good
         /\ \A n \in Numbers' : Len(interface'[n]) = Cardinality(Siblings(raw, n, pos' + 1))
<1>1. WellFormedSoFar /\ pos \in Nat /\ raw.body \in Seq(Descriptor)
  BY ParsingTypes DEF Parsing, Judged
<1>2. pos + 1 \notin Body(raw, "interface")
  BY NextDescriptor
<1>3. Passed' = Passed
  BY <1>1, <1>2, ParsingTypes DEF Passed
<1>4. \A j \in Passed : InPlace(j)' /\ (Closed(j)' <=> Closed(j))
  BY <1>1 DEF WellFormedSoFar, InPlace, Closed, Numbers
<1>5. \A k \in 1 .. pos + 1 : raw.body[k].good
  <2>1. \A k \in 1 .. pos + 1 : k = pos + 1 \/ k \in 1 .. pos
    BY <1>1
  <2> QED
    BY <1>1, <2>1, NextDescriptor DEF WellFormedSoFar
<1>6. ASSUME NEW n \in Numbers PROVE Len(interface'[n]) = Cardinality(Siblings(raw, n, pos + 1 + 1))
  <2>1. Cardinality(Siblings(raw, n, pos + 1 + 1)) = Cardinality(Siblings(raw, n, pos + 1)) + 0
    BY <1>1, <1>2, SiblingsNext
  <2>2. Cardinality(Siblings(raw, n, pos + 1)) \in Nat
    BY <1>1, Finite
  <2> QED
    BY <1>1, <2>1, <2>2 DEF WellFormedSoFar
<1> QED
  BY <1>3, <1>4, <1>5, <1>6 DEF Numbers

\* An endpoint is one more of the last interface, or stray.
LEMMA ParseEndpointJudged ==
  ASSUME Parsing, ParseEndpoint
  PROVE  Judged'
<1> DEFINE q == pos + 1
<1>1. /\ pos < Len(raw.body) /\ Upcoming.good /\ Upcoming.kind = "endpoint" /\ phase = "parse" /\ ~crash
      /\ pos' = q /\ stored' = stored + 1
      /\ UNCHANGED <<raw, interface, current, phase, result, faults>>
  BY DEF ParseEndpoint, At, Parsing
<1>2. crash' <=> (current = None \/ stored >= interface[current[1]][current[2] + 1])
  BY DEF ParseEndpoint
<1>3. WellFormedSoFar /\ result # "io" /\ pos \in Nat /\ q \in Nat /\ raw.body \in Seq(Descriptor)
  BY <1>1, ParsingTypes DEF Parsing, Judged
<1>4. q \in Body(raw, "endpoint")
  BY <1>1, NextDescriptor
<1>5. \A i \in Body(raw, "interface") : i < q => i \in Passed
  BY <1>3, ParsingTypes DEF Passed
<1>6. CASE current = None
  <2>1. Passed = {}
    BY <1>3, <1>6 DEF WellFormedSoFar, LastOpen
  <2>2. OwnerOf(raw, q) = 0
    BY <1>5, <2>1, OwnerNone
  <2>3. HasStrayEndpoint(raw)
    BY <1>4, <2>2 DEF HasStrayEndpoint, EndpointsBelow
  <2> QED
    BY <1>1, <1>2, <1>3, <1>6, <2>3 DEF Judged
<1>7. CASE current # None
  <2>1. PICK j \in Passed : Open(j) /\ \A i \in Passed \ {j} : Closed(i)
    BY <1>3, <1>7 DEF WellFormedSoFar, LastOpen
  <2>2. j \in Body(raw, "interface") /\ j < q /\ j \in Nat /\ j # 0 /\ raw.body[j].endpoints \in Nat
    BY <1>3, ParsingTypes DEF Passed
  <2>3. OwnerOf(raw, q) = j
    BY <1>3, <1>5, <2>1, <2>2, OwnerIs DEF Open
  <2>4. q \in EndpointsBelow(raw, j)
    BY <1>4, <2>3 DEF EndpointsBelow
  <2>5. Cardinality(EndpointsTo(raw, j, q)) = stored + 1
    BY <1>3, <2>1, <2>4, EndpointsNext DEF Open
  <2>6. interface[current[1]][current[2] + 1] = raw.body[j].endpoints
    <3>1. current[1] = raw.body[j].num /\ current[2] = raw.body[j].alt
      BY <2>1 DEF Open
    <3> QED
      BY <1>3, <3>1 DEF WellFormedSoFar, InPlace
  <2>7. CASE stored >= raw.body[j].endpoints
    <3>1. Cardinality(EndpointsTo(raw, j, q)) <= Cardinality(EndpointsBelow(raw, j))
      <4>1. EndpointsTo(raw, j, q) \subseteq EndpointsBelow(raw, j)
        BY DEF EndpointsTo
      <4> QED
        BY <1>3, <4>1, Finite, FS_Subset
    <3>2. Cardinality(EndpointsBelow(raw, j)) > raw.body[j].endpoints
      <4> DEFINE n == Cardinality(EndpointsTo(raw, j, q))
                 m == Cardinality(EndpointsBelow(raw, j))
      <4>1. n \in Nat /\ m \in Nat /\ n <= m /\ n = stored + 1 /\ stored \in Nat
        BY <1>3, <2>5, <3>1, Finite, ParsingTypes
      <4> HIDE DEF n, m
      <4>2. m > raw.body[j].endpoints
        BY <2>2, <2>7, <4>1
      <4> QED
        BY <4>2 DEF m
    <3>3. HasStrayEndpoint(raw)
      BY <2>2, <3>2 DEF HasStrayEndpoint
    <3> QED
      BY <1>1, <1>2, <1>3, <2>6, <2>7, <3>3 DEF Judged
  <2>8. CASE ~(stored >= raw.body[j].endpoints)
    <3>1. ~crash'
      BY <1>2, <1>7, <2>6, <2>8
    <3>2. Open(j)'
      <4>1. Passed' = Passed
        BY <1>1, PassedSame
      <4>2. stored' <= raw.body[j].endpoints
        BY <1>1, <2>2, <2>8, ParsingTypes
      <4> QED
        BY <1>1, <2>1, <2>5, <4>1, <4>2 DEF Open
    <3>3. LastOpen'
      BY <1>1, <1>7, <2>1, <3>2, PassedSame DEF LastOpen
    <3>4. \A k \in Body(raw, "endpoint") : k <= q => OwnerOf(raw, k) # 0
      <4>1. \A k \in Body(raw, "endpoint") : k <= q => k = q \/ k <= pos
        BY <1>3, BodyType
      <4> QED
        BY <1>3, <2>2, <2>3, <4>1 DEF WellFormedSoFar
    <3>5. WellFormedSoFar'
      BY <1>1, <1>3, <3>3, <3>4, PassedSame DEF WellFormedSoFar
    <3> QED
      BY <1>1, <1>3, <3>1, <3>5 DEF Judged
  <2> QED
    BY <2>7, <2>8
<1> QED
  BY <1>6, <1>7

LEMMA ParseOtherJudged ==
  ASSUME Parsing, ParseOther
  PROVE  Judged'
<1>1. /\ pos < Len(raw.body) /\ Upcoming.good /\ Upcoming.kind = "other" /\ phase = "parse" /\ ~crash
      /\ pos' = pos + 1
      /\ UNCHANGED <<raw, interface, current, stored, phase, result, faults, crash>>
  BY DEF ParseOther, At, Parsing, treeVars
<1>2. WellFormedSoFar /\ result # "io" /\ pos \in Nat /\ raw.body \in Seq(Descriptor)
  BY <1>1, ParsingTypes DEF Parsing, Judged
<1>3. pos + 1 \notin Body(raw, "endpoint")
  BY <1>1, NextDescriptor
<1>4. LastOpen'
  <2>1. CASE current = None
    BY <2>1, <1>1, <1>2, PassedSame DEF WellFormedSoFar, LastOpen
  <2>2. CASE current # None
    <3>1. PICK j \in Passed : Open(j) /\ \A i \in Passed \ {j} : Closed(i)
      BY <2>2, <1>2 DEF WellFormedSoFar, LastOpen
    <3>2. Cardinality(EndpointsTo(raw, j, pos + 1)) = Cardinality(EndpointsTo(raw, j, pos)) + 0
      <4>1. pos + 1 \notin EndpointsBelow(raw, j)
        BY <1>3 DEF EndpointsBelow
      <4> QED
        BY <4>1, <1>2, EndpointsNext
    <3>3. Cardinality(EndpointsTo(raw, j, pos)) \in Nat
      BY <1>2, Finite
    <3>4. Open(j)'
      BY <1>1, <3>1, <3>2, <3>3, PassedSame DEF Open
    <3> QED
      BY <1>1, <2>2, <3>1, <3>4, PassedSame DEF LastOpen
  <2> QED
    BY <2>1, <2>2
<1>5. \A k \in Body(raw, "endpoint") : k <= pos + 1 => OwnerOf(raw, k) # 0
  <2>1. \A k \in Body(raw, "endpoint") : k <= pos + 1 => k <= pos
    BY <1>2, <1>3, BodyType
  <2> QED
    BY <1>2, <2>1 DEF WellFormedSoFar
<1>6. WellFormedSoFar'
  BY <1>1, <1>2, <1>4, <1>5, PassedSame DEF WellFormedSoFar
<1> QED
  BY <1>1, <1>2, <1>6 DEF Judged

\* The end of the bytes, or a descriptor that is no good.
LEMMA ParseEndJudged ==
  ASSUME Parsing, ParseBad \/ ParseEnd
  PROVE  Judged'
<1>1. /\ phase = "parse" /\ ~crash /\ UNCHANGED <<requestVars, index, raw, faults, crash>>
  BY DEF ParseBad, ParseEnd, Parsing
<1>2. WellFormedSoFar /\ result # "io" /\ raw.body \in Seq(Descriptor) /\ Len(raw.body) \in Nat
      /\ pos \in Nat
  BY <1>1, ParsingTypes DEF Parsing, Judged
<1>3. CASE ParseBad
  <2>1. pos + 1 \in DOMAIN raw.body /\ ~raw.body[pos + 1].good
    BY <1>3, NextDescriptor, BodyType, <1>2 DEF ParseBad
  <2>2. ~WellFormed(raw)
    BY <2>1 DEF WellFormed
  <2> QED
    BY <1>1, <1>3, <2>2, RejectJudged DEF ParseBad, Parsing
<1>4. CASE ParseEnd /\ ~(CurrentIsFull /\ \A n \in Numbers : interface[n] # <<>>)
  <2>1. Reject /\ pos = Len(raw.body)
    BY <1>4 DEF ParseEnd
  <2>2. CASE ~CurrentIsFull
    BY <1>1, <2>1, <2>2, NotFull, RejectJudged DEF Parsing
  <2>3. CASE \E n \in Numbers : interface[n] = <<>>
    <3>1. PICK n \in Numbers : interface[n] = <<>>
      BY <2>3
    <3>2. Cardinality(Siblings(raw, n, Len(raw.body) + 1)) = 0
      BY <1>2, <2>1, <3>1 DEF WellFormedSoFar
    <3>3. Siblings(raw, n, Len(raw.body) + 1) = {}
      BY <1>2, <3>2, Finite, FS_EmptySet
    <3>4. ~WellFormed(raw)
      BY <3>1, <3>3 DEF WellFormed, Numbers
    <3> QED
      BY <1>1, <2>1, <3>4, RejectJudged DEF Parsing
  <2> QED
    BY <1>4, <2>2, <2>3
<1>5. CASE /\ CurrentIsFull /\ \A n \in Numbers : interface[n] # <<>>
           /\ pos = Len(raw.body) /\ phase' = "compare" /\ UNCHANGED <<treeVars, result>>
  <2>1. UNCHANGED <<interface, result>>
    BY <1>5 DEF treeVars
  <2>2. Body(raw, "interface") \subseteq Passed /\ \A k \in Body(raw, "endpoint") : k <= pos
    BY <1>2, <1>5, BodyType DEF Passed
  <2>3. \A j \in Body(raw, "interface") : Closed(j) /\ InPlace(j)
    BY <1>2, <1>5, <2>2, Full DEF WellFormedSoFar
  <2>4. EndpointsBelow(raw, 0) = {}
    BY <1>2, <2>2 DEF WellFormedSoFar, EndpointsBelow
  <2>5. ASSUME NEW n \in Numbers PROVE Siblings(raw, n, Len(raw.body) + 1) # {}
    <3>1. interface[n] \in Seq(Nat) /\ interface[n] # <<>>
      BY <1>5, ParsingTypes
    <3>2. Len(interface[n]) # 0
      BY <3>1
    <3>3. Cardinality(Siblings(raw, n, Len(raw.body) + 1)) # 0
      BY <1>2, <1>5, <3>2 DEF WellFormedSoFar
    <3> QED
      BY <3>3, FS_EmptySet
  <2>6. \A j \in Body(raw, "interface") : raw.body[j].num < raw.bNumInterfaces
    BY <2>3, ParsingTypes DEF InPlace, Numbers
  <2>7. \A k \in DOMAIN raw.body : raw.body[k].good
    BY <1>2, <1>5, BodyType DEF WellFormedSoFar
  <2>8. WellFormed(raw)
    BY <1>2, <2>3, <2>4, <2>5, <2>6, <2>7 DEF WellFormed, WellFormedSoFar, InPlace, Closed, Numbers
  <2>9. TreeIsRight
    BY <2>3 DEF TreeIsRight, InPlace, Closed
  <2>10. (WellFormed(raw) /\ TreeIsRight)'
    BY <1>1, <2>1, <2>8, <2>9 DEF TreeIsRight
  <2> QED
    BY <1>1, <1>2, <1>5, <2>1, <2>10 DEF Judged
<1> QED
  BY <1>3, <1>4, <1>5 DEF ParseEnd

LEMMA FetchJudged ==
  ASSUME Inv, Judged, ~crash, Fetch \/ FetchFails \/ NotFound \/ Compare
  PROVE  Judged'
<1>1. UNCHANGED crash
  BY DEF Fetch, FetchFails, NotFound, Compare
<1>2. CASE Fetch
  <2>1. phase = "fetch" /\ pos' = 0 /\ phase' = "begin" /\ UNCHANGED result
    BY <1>2 DEF Fetch
  <2> QED
    BY <1>1, <2>1 DEF Judged
<1>3. CASE FetchFails \/ NotFound
  <2>1. phase' = "done" /\ (faults' \/ result' # "io")
    BY <1>3 DEF FetchFails, NotFound, Finish
  <2> QED
    BY <1>1, <2>1 DEF Judged
<1>4. CASE Compare
  <2>1. phase = "compare" /\ phase' \in {"done", "fetch"} /\ (result' = result \/ result' = "success")
    BY <1>4 DEF Compare, Finish
  <2> QED
    BY <1>1, <2>1 DEF Judged
<1> QED
  BY <1>2, <1>3, <1>4

LEMMA BeginJudged ==
  ASSUME Inv, Judged, ~crash, Begin
  PROVE  Judged'
<1>1. phase = "begin" /\ UNCHANGED <<requestVars, index, raw, crash>>
  BY DEF Begin
<1>2. /\ pos = 0 /\ result # "io" /\ current = None /\ raw.body \in Seq(Descriptor)
      /\ raw.bNumInterfaces \in Nat
  BY <1>1 DEF Judged, Inv, ReadIsNext, ParserTypeOK
<1>3. CASE /\ raw.good
           /\ interface' = [n \in Numbers |-> <<>>]
           /\ phase' = "parse"
           /\ UNCHANGED <<pos, current, stored, result, faults>>
  <2>1. \A k \in Body(raw, "interface") \cup Body(raw, "endpoint") : ~(k <= 0) /\ ~(k < 1)
    BY <1>2, BodyType
  <2>2. Passed' = {}
    BY <1>1, <1>2, <1>3, <2>1 DEF Passed
  <2>3. ASSUME NEW n \in Numbers PROVE Len(interface'[n]) = Cardinality(Siblings(raw, n, 0 + 1))
    <3>1. Siblings(raw, n, 0 + 1) = {}
      BY <2>1 DEF Siblings
    <3>2. Cardinality(Siblings(raw, n, 0 + 1)) = 0
      BY <3>1, FS_EmptySet
    <3>3. interface'[n] = <<>>
      BY <1>3
    <3> QED
      BY <3>2, <3>3
  <2>4. Numbers' = Numbers
    BY <1>1 DEF Numbers
  <2>5. WellFormedSoFar'
    BY <1>1, <1>2, <1>3, <2>1, <2>2, <2>3, <2>4 DEF WellFormedSoFar, LastOpen
  <2> QED
    BY <1>1, <1>2, <1>3, <2>5 DEF Judged
<1>4. CASE ~raw.good /\ Reject
  BY <1>1, <1>4, RejectJudged DEF WellFormed
<1>5. CASE RejectNoMem
  BY <1>1, <1>5, RejectJudged DEF RejectNoMem
<1>6. CASE Finish("no_mem", heap \ {<<"raw">>})
  BY <1>1, <1>6 DEF Judged, Finish
<1> QED
  BY <1>3, <1>4, <1>5, <1>6 DEF Begin

LEMMA JudgedInvariance == ASSUME ParserAssumption PROVE ParserSpec => [](Inv /\ Judged)
<1>1. ParserInit => Judged
  BY DEF ParserInit, Judged
<1>2. Inv /\ Judged /\ [ParserStep]_parserVars => Judged'
  <2> SUFFICES ASSUME Inv, Judged, [ParserStep]_parserVars PROVE Judged'
    OBVIOUS
  <2>1. CASE UNCHANGED parserVars
    <3>1. UNCHANGED <<raw, pos, interface, current, stored, phase, result, faults, crash>>
      BY <2>1 DEF parserVars, requestVars, treeVars
    <3> QED
      BY <3>1 DEF Judged, WellFormedSoFar, LastOpen, Passed, InPlace, Open, Closed, TreeIsRight, Numbers
  <2>2. CASE ParserStep
    <3>1. ~crash
      BY <2>2 DEF ParserStep
    <3>2. CASE ParseInterface \/ ParseEndpoint \/ ParseOther \/ ParseBad \/ ParseEnd
      <4>1. Parsing
        BY <3>1, <3>2 DEF Parsing, ParseInterface, ParseEndpoint, ParseOther, ParseBad, ParseEnd, At
      <4> QED
        BY <3>2, <4>1, ParseInterfaceJudged, ParseEndpointJudged, ParseOtherJudged, ParseEndJudged
    <3> QED
      BY <2>2, <3>1, <3>2, FetchJudged, BeginJudged DEF ParserStep
  <2> QED
    BY <2>1, <2>2
<1> QED
  BY <1>1, <1>2, Invariance, PTL DEF ParserSpec

\* usbyi_sanitize_config_descriptor accepts exactly the well formed
\* configurations, of any length and in whatever order their interfaces,
\* altsettings and endpoints come, and every altsetting is in its place of the
\* tree with its endpoints.
THEOREM ParserIsExact == ParserSpec => []ParsesExactly
<1>1. Judged => ParsesExactly
  BY DEF Judged, ParsesExactly, TreeIsRight
<1> QED
  BY <1>1, JudgedInvariance, ParserAssumption, PTL

\* The parser writes beyond what it allocated only for a configuration with an
\* endpoint before all interfaces, or with more than an interface announces.
THEOREM StraysCorrupt == ParserSpec => []OnlyStraysCorrupt
<1>1. Judged => OnlyStraysCorrupt
  BY DEF Judged, OnlyStraysCorrupt
<1> QED
  BY <1>1, JudgedInvariance, ParserAssumption, PTL

-----------------------------------------------------------------------------
(* Strings: what is read, and how a character is encoded.                  *)

LEMMA IntervalIs ==
  ASSUME NEW a \in Int, NEW b \in Int
  PROVE  \A x : x \in a .. b <=> x \in Int /\ a <= x /\ x <= b
OBVIOUS

LEMMA CodeUnitIs == \A x : x \in CodeUnit <=> x \in Nat /\ x <= 65535
<1>1. PICK m \in Nat : m = 65535
  BY SMT
<1>2. CodeUnit = 0 .. m
  BY ONLY <1>1 DEF CodeUnit
<1>3. \A x : x \in CodeUnit <=> x \in Int /\ 0 <= x /\ x <= m
  BY SMT, <1>2, IntervalIs
<1> QED
  BY SMT, <1>1, <1>3

ReplyOK == reply \in Reply /\ reply.got <= 2 + 2 * Len(reply.units) + 1 /\ room \in Nat

LEMMA UnitsType ==
  ASSUME ReplyOK, ~HeaderIsBad
  PROVE  /\ Units \in Seq(CodeUnit) /\ Len(Units) \in Nat
         /\ Len(Units) <= Len(reply.units)
         /\ \A i \in 1 .. Len(Units) : Units[i] = reply.units[i] /\ Units[i] \in CodeUnit
         /\ \A n \in Nat : 2 + 2 * n < Available <=> n < Len(Units)
<1>1. /\ reply.got \in Nat /\ reply.bLength \in Nat /\ reply.units \in Seq(CodeUnit)
      /\ Len(reply.units) \in Nat
  BY DEF ReplyOK, Reply
<1>2. PICK a \in Nat : a = Available /\ a % 2 = 0 /\ a <= 2 + 2 * Len(reply.units)
  BY <1>1 DEF Available, HeaderIsBad, ReplyOK
<1> DEFINE l == (a - 2) \div 2
<1>3. l \in Int /\ l <= Len(reply.units) /\ \A n \in Nat : (2 + 2 * n < a <=> n < l)
  BY <1>1, <1>2
<1>4. Units = SubSeq(reply.units, 1, l)
  BY <1>2 DEF Units
<1>5. \A n \in Nat : 2 + 2 * n < Available <=> n < l
  BY <1>2, <1>3
<1> HIDE DEF l
<1>6. CASE l <= 0
  <2>1. Units = <<>>
    BY <1>1, <1>3, <1>4, <1>6
  <2> QED
    BY <1>1, <1>3, <1>5, <1>6, <2>1
<1>7. CASE l > 0
  <2>1. l \in Nat /\ 1 \in 1 .. Len(reply.units) + 1 /\ l \in 1 - 1 .. Len(reply.units)
    BY <1>1, <1>3, <1>7
  <2>2. \A i \in 1 .. l : reply.units[i] \in CodeUnit
    BY <1>1, <1>3
  <2>3. Len(Units) = l /\ \A i \in 1 .. l : Units[i] = reply.units[i]
    BY <1>1, <1>4, <2>1
  <2>4. Units \in Seq(CodeUnit)
    BY <1>1, <1>4, <2>1, <2>2, SubSeqProperties
  <2> QED
    BY <1>3, <1>5, <2>1, <2>2, <2>3, <2>4
<1>8. l <= 0 \/ l > 0
  BY <1>3
<1> QED
  BY <1>6, <1>7, <1>8

LEMMA CodeBytesType ==
  ASSUME NEW cp \in Nat, cp < 1048576
  PROVE  CodeBytes(cp) \in Seq(0 .. 255) /\ Len(CodeBytes(cp)) \in 1 .. 4
<1>1. Tail6(cp, 1) \in 0 .. 255 /\ Tail6(cp, 64) \in 0 .. 255 /\ Tail6(cp, 4096) \in 0 .. 255
  BY SMT DEF Tail6
<1>2. CASE cp < 127
  <2>1. CodeBytes(cp) = <<cp>> /\ cp \in 0 .. 255
    BY SMT, <1>2 DEF CodeBytes
  <2> QED
    BY <2>1
<1>3. CASE ~(cp < 127) /\ cp < 2047
  <2>1. 192 + cp \div 64 \in 0 .. 255
    BY SMT, <1>3
  <2>2. CodeBytes(cp) = <<192 + cp \div 64, Tail6(cp, 1)>>
    BY SMT, <1>3 DEF CodeBytes
  <2> QED
    BY <1>1, <2>1, <2>2
<1>4. CASE ~(cp < 2047) /\ cp < 65535
  <2>1. 224 + cp \div 4096 \in 0 .. 255
    BY SMT, <1>4
  <2>2. CodeBytes(cp) = <<224 + cp \div 4096, Tail6(cp, 64), Tail6(cp, 1)>>
    BY SMT, <1>4 DEF CodeBytes
  <2> QED
    BY <1>1, <2>1, <2>2
<1>5. CASE ~(cp < 65535)
  <2>1. 240 + cp \div 262144 \in 0 .. 255
    BY SMT, <1>5
  <2>2. CodeBytes(cp) = <<240 + cp \div 262144, Tail6(cp, 4096), Tail6(cp, 64), Tail6(cp, 1)>>
    BY SMT, <1>5 DEF CodeBytes
  <2> QED
    BY <1>1, <2>1, <2>2
<1> QED
  BY SMT, <1>2, <1>3, <1>4, <1>5

LEMMA Cut ==
  ASSUME NEW S, NEW s \in Seq(S), NEW m \in 0 .. Len(s)
  PROVE  /\ SubSeq(s, 1, m) \in Seq(S) /\ Len(SubSeq(s, 1, m)) = m
         /\ \A i \in 1 .. m : SubSeq(s, 1, m)[i] = s[i]
<1>1. m \in Nat /\ m <= Len(s) /\ \A i \in 1 .. m : i \in 1 .. Len(s) /\ s[i] \in S
  OBVIOUS
<1> QED
  BY <1>1, SubSeqProperties

LEMMA EncodeType ==
  ASSUME NEW cp \in Nat, cp < 1048576, NEW n \in Nat, n > 0
  PROVE  /\ Encode(cp, n) \in Seq(0 .. 255) /\ Len(Encode(cp, n)) \in 1 .. 4
         /\ Len(Encode(cp, n)) <= n
<1> DEFINE s == CodeBytes(cp)
           m == IF n < Len(s) THEN n ELSE Len(s)
<1>1. s \in Seq(0 .. 255)
  BY CodeBytesType
<1>2. Len(s) \in 1 .. 4
  BY CodeBytesType
<1>3. Encode(cp, n) = SubSeq(s, 1, m)
  BY DEF Encode
<1> HIDE DEF s
<1>4. m \in 1 .. 4 /\ m <= n /\ m \in 0 .. Len(s)
  <2>1. PICK l \in 1 .. 4 : l = Len(s)
    BY <1>2
  <2>2. m = IF n < l THEN n ELSE l
    BY <2>1
  <2>3. m \in 1 .. 4 /\ m <= n /\ m \in 0 .. l
    <3> HIDE DEF m
    <3> QED
      BY SMT, <2>2
  <2> QED
    BY <2>1, <2>3
<1> HIDE DEF m
<1>5. SubSeq(s, 1, m) \in Seq(0 .. 255) /\ Len(SubSeq(s, 1, m)) = m
  BY <1>1, <1>4, Cut
<1> QED
  BY <1>3, <1>4, <1>5

\* Of a plain unit the code makes what the standard says.
LEMMA EncodeRight ==
  ASSUME NEW cp \in CodeUnit, cp \notin {127, 2047, 65535}
  PROVE  CodeBytes(cp) = Utf8(cp)
<1>0. cp \in Nat /\ cp < 65535
  BY SMT, CodeUnitIs
<1>1. Tail6(cp, 1) = 128 + (cp % 64) /\ Tail6(cp, 64) = 128 + ((cp \div 64) % 64)
  BY SMT, <1>0 DEF Tail6
<1>2. CASE cp < 127
  BY SMT, <1>0, <1>2 DEF CodeBytes, Utf8
<1>3. CASE ~(cp < 127) /\ cp < 2047
  BY SMT, <1>0, <1>1, <1>3 DEF CodeBytes, Utf8
<1>4. CASE ~(cp < 2047)
  BY SMT, <1>0, <1>1, <1>4 DEF CodeBytes, Utf8
<1> QED
  BY SMT, <1>2, <1>3, <1>4

-----------------------------------------------------------------------------
(* Strings: the text the standard gives.                                   *)

IsText(s, t, n) ==
  t = [i \in 0 .. n |-> IF i = 0 THEN <<>> ELSE t[i - 1] \o Utf8(s[i])]

LEMMA TextExists ==
  ASSUME NEW s, NEW n \in Nat
  PROVE  \E t : IsText(s, t, n)
<1> DEFINE T == {k \in Nat : \A t : ~IsText(s, t, k)}
<1>1. SUFFICES ASSUME T # {} PROVE FALSE
  OBVIOUS
<1>2. PICK m \in T : \A k \in T : m <= k
  <2> HIDE DEF T
  <2>1. T \subseteq Nat
    BY DEF T
  <2> QED
    BY <1>1, <2>1, LeastNat
<1>3. m \in Nat
  OBVIOUS
<1>4. CASE m = 0
  <2> DEFINE t == [i \in 0 .. 0 |-> <<>>]
  <2>1. t = [i \in 0 .. 0 |-> IF i = 0 THEN <<>> ELSE t[i - 1] \o Utf8(s[i])]
    OBVIOUS
  <2>2. IsText(s, t, 0)
    BY <2>1 DEF IsText
  <2> QED
    BY <1>4, <2>2
<1>5. CASE m # 0
  <2>1. m - 1 \in Nat /\ ~(m <= m - 1)
    BY <1>3, <1>5
  <2>2. PICK h : IsText(s, h, m - 1)
    BY <1>2, <2>1
  <2> DEFINE t == [i \in 0 .. m |-> IF i < m THEN h[i] ELSE h[m - 1] \o Utf8(s[m])]
  <2>3. ASSUME NEW i \in 0 .. m
        PROVE  t[i] = IF i = 0 THEN <<>> ELSE t[i - 1] \o Utf8(s[i])
    <3>1. CASE i = m
      <4>1. t[i] = h[m - 1] \o Utf8(s[m]) /\ t[m - 1] = h[m - 1]
        BY <1>3, <2>1, <3>1
      <4> QED
        BY <1>5, <3>1, <4>1
    <3>2. CASE i # m
      <4>1. i \in 0 .. m - 1 /\ i < m
        BY <1>3, <3>2
      <4>2. t[i] = h[i]
        BY <4>1
      <4>3. h[i] = IF i = 0 THEN <<>> ELSE h[i - 1] \o Utf8(s[i])
        BY <2>2, <4>1 DEF IsText
      <4>4. CASE i = 0
        BY <4>2, <4>3, <4>4
      <4>5. CASE i # 0
        <5>1. i - 1 \in 0 .. m /\ i - 1 < m
          BY <1>3, <4>1, <4>5
        <5>2. t[i - 1] = h[i - 1]
          BY <5>1
        <5> QED
          BY <4>2, <4>3, <4>5, <5>2
      <4> QED
        BY <4>4, <4>5
    <3> QED
      BY <3>1, <3>2
  <2>4. t = [i \in 0 .. m |-> t[i]]
    OBVIOUS
  <2> HIDE DEF t
  <2>5. IsText(s, t, m)
    BY <2>3, <2>4 DEF IsText
  <2> QED
    BY <1>2, <2>5
<1> QED
  BY <1>3, <1>4, <1>5

LEMMA TextGrows ==
  ASSUME NEW s, Len(s) \in Nat
  PROVE  /\ Utf8Text(s)[0] = <<>>
         /\ \A n \in 1 .. Len(s) : Utf8Text(s)[n] = Utf8Text(s)[n - 1] \o Utf8(s[n])
<1>1. PICK m \in Nat : m = Len(s)
  OBVIOUS
<1>2. Utf8Text(s) = CHOOSE t : IsText(s, t, Len(s))
  BY DEF Utf8Text, IsText
<1>3. IsText(s, Utf8Text(s), m)
  BY <1>1, <1>2, TextExists
<1>4. PICK t : t = Utf8Text(s) /\ IsText(s, t, m)
  BY <1>3
<1>5. \A n \in 0 .. m : t[n] = IF n = 0 THEN <<>> ELSE t[n - 1] \o Utf8(s[n])
  BY <1>4 DEF IsText
<1>6. t[0] = <<>> /\ \A n \in 1 .. m : t[n] = t[n - 1] \o Utf8(s[n])
  <2>1. t[0] = <<>>
    BY <1>5
  <2>2. ASSUME NEW n \in 1 .. m PROVE t[n] = t[n - 1] \o Utf8(s[n])
    <3>1. n \in 0 .. m /\ n # 0
      OBVIOUS
    <3> QED
      BY <1>5, <3>1
  <2> QED
    BY <2>1, <2>2
<1> QED
  BY <1>1, <1>4, <1>6

LEMMA Utf8Type == ASSUME NEW cp \in Nat PROVE Utf8(cp) \in Seq(Int)
<1>1. CASE cp <= 127
  BY SMT, <1>1 DEF Utf8
<1>2. CASE ~(cp <= 127) /\ cp <= 2047
  BY SMT, <1>2 DEF Utf8
<1>3. CASE ~(cp <= 2047)
  BY SMT, <1>3 DEF Utf8
<1> QED
  BY SMT, <1>1, <1>2, <1>3

LEMMA TextType ==
  ASSUME NEW s \in Seq(CodeUnit), NEW n \in 0 .. Len(s)
  PROVE  Utf8Text(s)[n] \in Seq(Int)
<1>1. PICK t : t = Utf8Text(s)
  OBVIOUS
<1>2. t[0] = <<>> /\ \A k \in 1 .. Len(s) : t[k] = t[k - 1] \o Utf8(s[k])
  <2>1. Len(s) \in Nat
    OBVIOUS
  <2> QED
    BY <1>1, <2>1, TextGrows
<1> DEFINE T == {k \in 0 .. Len(s) : t[k] \notin Seq(Int)}
<1>3. SUFFICES ASSUME T # {} PROVE FALSE
  BY <1>1
<1>4. PICK m \in T : \A k \in T : m <= k
  <2>1. T \subseteq Nat
    OBVIOUS
  <2> HIDE DEF T
  <2> QED
    BY <1>3, <2>1, LeastNat
<1>5. m \in 0 .. Len(s) /\ t[m] \notin Seq(Int)
  OBVIOUS
<1>6. m # 0
  <2>1. <<>> \in Seq(Int)
    OBVIOUS
  <2> QED
    BY <1>2, <1>5, <2>1
<1>7. m - 1 \in 0 .. Len(s) /\ m \in 1 .. Len(s) /\ ~(m <= m - 1)
  BY <1>5, <1>6
<1>8. t[m - 1] \in Seq(Int)
  BY <1>4, <1>7
<1>9. Utf8(s[m]) \in Seq(Int)
  <2>1. s[m] \in CodeUnit
    BY <1>7
  <2>2. s[m] \in Nat
    BY SMT, <2>1, CodeUnitIs
  <2> QED
    BY <2>2, Utf8Type
<1>10. t[m - 1] \o Utf8(s[m]) \in Seq(Int)
  BY <1>8, <1>9
<1> QED
  BY <1>2, <1>5, <1>7, <1>10

LEMMA Joined ==
  ASSUME NEW S, NEW s \in Seq(S), NEW t \in Seq(S)
  PROVE  /\ s \o t \in Seq(S) /\ Len(s \o t) = Len(s) + Len(t) /\ Len(s) <= Len(s \o t)
         /\ \A i \in 1 .. Len(s) : (s \o t)[i] = s[i]
         /\ \A i \in 1 .. Len(t) : (s \o t)[Len(s) + i] = t[i]
<1>1. Len(s) \in Nat /\ Len(t) \in Nat
  OBVIOUS
<1>2. s \o t \in Seq(S) /\ Len(s \o t) = Len(s) + Len(t)
  BY ConcatProperties
<1>3. \A i \in 1 .. Len(s) : (s \o t)[i] = s[i]
  BY <1>1
<1>4. \A i \in 1 .. Len(t) : (s \o t)[Len(s) + i] = t[i]
  BY <1>1
<1> QED
  BY <1>1, <1>2, <1>3, <1>4

LEMMA TextIsPrefix ==
  ASSUME NEW s \in Seq(CodeUnit), NEW n \in 0 .. Len(s), NEW l \in n .. Len(s)
  PROVE  /\ Len(Utf8Text(s)[n]) <= Len(Utf8Text(s)[l])
         /\ \A i \in 1 .. Len(Utf8Text(s)[n]) : Utf8Text(s)[l][i] = Utf8Text(s)[n][i]
<1>1. PICK t : t = Utf8Text(s)
  OBVIOUS
<1>2. \A k \in 1 .. Len(s) : t[k] = t[k - 1] \o Utf8(s[k])
  <2>1. Len(s) \in Nat
    OBVIOUS
  <2> QED
    BY <1>1, <2>1, TextGrows
<1>3. \A k \in 0 .. Len(s) : t[k] \in Seq(Int)
  BY <1>1, TextType
<1> DEFINE Starts(k) == /\ Len(t[n]) <= Len(t[k])
                        /\ \A i \in 1 .. Len(t[n]) : t[k][i] = t[n][i]
           T == {k \in n .. Len(s) : ~Starts(k)}
<1>4. SUFFICES ASSUME T # {} PROVE FALSE
  BY <1>1
<1>5. PICK m \in T : \A k \in T : m <= k
  <2>1. T \subseteq Nat
    OBVIOUS
  <2> HIDE DEF T
  <2> QED
    BY <1>4, <2>1, LeastNat
<1>6. m \in n .. Len(s) /\ ~Starts(m)
  OBVIOUS
<1>7. m # n
  <2>1. Len(t[n]) \in Nat
    BY <1>3
  <2>2. Starts(n)
    BY <2>1
  <2> HIDE DEF Starts
  <2> QED
    BY <1>6, <2>2
<1>8. m - 1 \in n .. Len(s) /\ m \in 1 .. Len(s) /\ ~(m <= m - 1) /\ m - 1 \in 0 .. Len(s)
  BY <1>6, <1>7
<1>9. Starts(m - 1)
  <2> HIDE DEF Starts
  <2> QED
    BY <1>5, <1>8
<1>10. Utf8(s[m]) \in Seq(Int)
  <2>1. s[m] \in CodeUnit
    BY <1>8
  <2>2. s[m] \in Nat
    BY SMT, <2>1, CodeUnitIs
  <2> QED
    BY <2>2, Utf8Type
<1>11. PICK a \in Seq(Int), b \in Seq(Int), c \in Seq(Int) :
         a = t[n] /\ b = t[m - 1] /\ c = Utf8(s[m])
  BY <1>3, <1>8, <1>10
<1>12. t[m] = b \o c /\ Len(a) <= Len(b) /\ \A i \in 1 .. Len(a) : b[i] = a[i]
  BY <1>2, <1>8, <1>9, <1>11
<1> HIDE DEF T, Starts
<1>13. Len(a) <= Len(b \o c) /\ \A i \in 1 .. Len(a) : (b \o c)[i] = a[i]
  <2>1. /\ Len(b) <= Len(b \o c)
        /\ Len(b \o c) = Len(b) + Len(c)
        /\ \A i \in 1 .. Len(b) : (b \o c)[i] = b[i]
    BY Joined
  <2>2. Len(a) \in Nat /\ Len(b) \in Nat /\ Len(c) \in Nat
    OBVIOUS
  <2>3. ASSUME NEW i \in 1 .. Len(a) PROVE (b \o c)[i] = a[i]
    <3>1. i \in 1 .. Len(b)
      BY <1>12, <2>2
    <3> QED
      BY <1>12, <2>1, <3>1
  <2>4. Len(a) <= Len(b \o c)
    BY <1>12, <2>1, <2>2
  <2> QED
    BY <2>3, <2>4
<1>14. Starts(m)
  BY <1>11, <1>12, <1>13 DEF Starts
<1> QED
  BY <1>6, <1>14

\* What of a sequence has room.
Fits(s, n) == SubSeq(s, 1, IF n < Len(s) THEN n ELSE Len(s))

LEMMA FitsIs ==
  ASSUME NEW s \in Seq(Int), NEW n \in Nat
  PROVE  /\ Fits(s, n) \in Seq(Int)
         /\ Len(Fits(s, n)) = IF n < Len(s) THEN n ELSE Len(s)
         /\ \A i \in 1 .. Len(Fits(s, n)) : Fits(s, n)[i] = s[i]
<1>1. PICK m \in 0 .. Len(s) : m = IF n < Len(s) THEN n ELSE Len(s)
  OBVIOUS
<1>2. Fits(s, n) = SubSeq(s, 1, m)
  BY <1>1 DEF Fits
<1> QED
  BY <1>1, <1>2, Cut

LEMMA SeqsAreEqual ==
  ASSUME NEW s \in Seq(Int), NEW t \in Seq(Int), Len(s) = Len(t),
         \A i \in 1 .. Len(s) : s[i] = t[i]
  PROVE  s = t
OBVIOUS

LEMMA FitsConcat ==
  ASSUME NEW a \in Seq(Int), NEW b \in Seq(Int), NEW n \in Nat, Len(Fits(a, n)) < n
  PROVE  /\ Fits(a, n) = a
         /\ Fits(a \o b, n) = a \o Fits(b, n - Len(a))
<1>1. Len(a) \in Nat /\ Len(b) \in Nat
  OBVIOUS
<1>2. Len(Fits(a, n)) = Len(a) /\ Len(a) < n
  BY <1>1, FitsIs
<1>3. Fits(a, n) = a
  BY <1>2, FitsIs, SeqsAreEqual
<1>4. PICK k \in Nat : k = n - Len(a)
  <2>1. n - Len(a) \in Nat
    BY <1>1, <1>2
  <2> QED
    BY <2>1
<1>5. a \o b \in Seq(Int) /\ Len(a \o b) = Len(a) + Len(b)
  BY Joined
<1>6. PICK c \in Seq(Int) : /\ c = Fits(b, k)
                            /\ Len(c) = IF k < Len(b) THEN k ELSE Len(b)
                            /\ \A i \in 1 .. Len(c) : c[i] = b[i]
  BY FitsIs
<1>7. PICK d \in Seq(Int) : /\ d = Fits(a \o b, n)
                            /\ Len(d) = IF n < Len(a \o b) THEN n ELSE Len(a \o b)
                            /\ \A i \in 1 .. Len(d) : d[i] = (a \o b)[i]
  BY <1>5, FitsIs
<1>8. a \o c \in Seq(Int) /\ Len(a \o c) = Len(a) + Len(c)
  BY Joined
<1>9. Len(d) = Len(a) + Len(c)
  <2>1. PICK x \in Nat, y \in Nat : x = Len(a) /\ y = Len(b)
    BY <1>1
  <2>2. Len(c) = IF k < y THEN k ELSE y
    BY <1>6, <2>1
  <2>3. Len(d) = IF n < x + y THEN n ELSE x + y
    BY <1>5, <1>7, <2>1
  <2>4. k = n - x
    BY <1>4, <2>1
  <2>5. Len(d) = x + Len(c)
    BY <2>2, <2>3, <2>4
  <2> QED
    BY <2>1, <2>5
<1>10. \A i \in 1 .. Len(d) : d[i] = (a \o c)[i]
  <2> TAKE i \in 1 .. Len(d)
  <2>1. CASE i <= Len(a)
    <3>1. i \in 1 .. Len(a)
      BY <1>1, <2>1
    <3>2. (a \o b)[i] = a[i] /\ (a \o c)[i] = a[i]
      BY <3>1, Joined
    <3> QED
      BY <1>7, <3>2
  <2>2. CASE ~(i <= Len(a))
    <3>1. PICK j \in 1 .. Len(c) : i = Len(a) + j
      <4>1. i - Len(a) \in 1 .. Len(c) /\ i = Len(a) + (i - Len(a))
        BY <1>1, <1>9, <2>2
      <4> QED
        BY <4>1
    <3>2. j \in 1 .. Len(b)
      BY <1>1, <1>4, <1>6
    <3>3. (a \o b)[Len(a) + j] = b[j] /\ (a \o c)[Len(a) + j] = c[j]
      <4>1. \A m \in 1 .. Len(b) : (a \o b)[Len(a) + m] = b[m]
        BY Joined
      <4>2. \A m \in 1 .. Len(c) : (a \o c)[Len(a) + m] = c[m]
        BY Joined
      <4> QED
        BY <3>2, <4>1, <4>2
    <3> QED
      BY <1>6, <1>7, <3>1, <3>3
  <2> QED
    BY <2>1, <2>2
<1> QED
  BY <1>3, <1>4, <1>6, <1>7, <1>8, <1>9, <1>10, SeqsAreEqual

-----------------------------------------------------------------------------
(* Strings: the invariant of the loop.                                     *)

Chars == {Unwritten} \cup 0 .. 255

Translated ==
  /\ ReplyOK
  /\ next \in Nat /\ encoded_len \in 0 .. 4 /\ data \in Seq(Chars)
  /\ outcome \in {"pending", "io", "length"} /\ overrun \in BOOLEAN
  /\ HeaderIsBad => next = 0 /\ outcome # "length"
  /\ ~HeaderIsBad => next <= Len(Units)

\* The surrogates that were read are paired, but for the last unit if it is a
\* high one, and that one is remembered.
HalvesMatch ==
  /\ \A i \in 1 .. next :
       /\ IsHigh(reply.units[i]) => \/ i < next /\ IsLow(reply.units[i + 1])
                                    \/ i = next /\ high_surrogate = reply.units[i]
       /\ IsLow(reply.units[i]) => i > 1 /\ IsHigh(reply.units[i - 1])
  /\ high_surrogate # 0 => /\ next > 0
                           /\ high_surrogate = reply.units[next]
                           /\ IsHigh(high_surrogate)

\* Between characters there is nothing beyond the buffer; inside a pair there
\* was room for a character of the last length.
StaysInRoom ==
  /\ high_surrogate = 0 => Len(data) <= room
  /\ high_surrogate # 0 => encoded_len < room
  /\ \A k \in 1 .. Len(data) :
       /\ data[k] # Unwritten => k <= room
       /\ data[k] = Unwritten => \E j \in 1 .. next : IsHigh(reply.units[j])

\* Of plain text what was read is translated, as far as there is room.
TextSoFar ==
  ~HeaderIsBad /\ IsPlain(Units) =>
    encoded_len <= Len(data) /\ data = Fits(Utf8Text(Units)[next], room)

\* Why the loop ended.
EndIsRight ==
  /\ outcome = "length" => /\ high_surrogate = 0
                           /\ HasMore => encoded_len >= room
  /\ outcome = "io" /\ ~HeaderIsBad => ~IsUtf16(Units)

StringInv == Translated /\ HalvesMatch /\ StaysInRoom /\ TextSoFar /\ EndIsRight

SameReply == UNCHANGED <<reply, room>>

LEMMA ReplyStays ==
  ASSUME SameReply
  PROVE  /\ Units' = Units /\ Available' = Available /\ HeaderIsBad' = HeaderIsBad
         /\ reply' = reply /\ room' = room /\ ReplyOK' = ReplyOK
BY DEF SameReply, Units, Available, HeaderIsBad, ReplyOK

\* What the loop reads next.
LEMMA UnitRead ==
  ASSUME StringInv, Translating
  PROVE  /\ next + 1 \in 1 .. Len(Units) /\ Unit = reply.units[next + 1] /\ Unit = Units[next + 1]
         /\ Unit \in Nat /\ Unit <= 65535
         /\ room \in Nat /\ encoded_len < room
<1>1. ReplyOK /\ ~HeaderIsBad /\ next \in Nat /\ HasMore /\ encoded_len < room
  BY DEF StringInv, Translated, Translating
<1>2. next < Len(Units) /\ Len(Units) \in Nat
  BY <1>1, UnitsType DEF HasMore
<1>3. next + 1 \in 1 .. Len(Units)
  BY <1>1, <1>2
<1>4. Unit = reply.units[next + 1] /\ Unit = Units[next + 1] /\ Unit \in CodeUnit
  BY <1>1, <1>3, UnitsType DEF Unit
<1>5. Unit \in Nat /\ Unit <= 65535
  BY SMT, <1>4, CodeUnitIs
<1> QED
  BY <1>1, <1>3, <1>4, <1>5 DEF ReplyOK

\* The loop ends; of the invariant only the reason is at stake.
LEMMA EndKeeps ==
  ASSUME StringInv, SameReply, NEW o \in {"io", "length"}, End(o),
         o = "length" => ~HeaderIsBad /\ high_surrogate = 0 /\ (HasMore => encoded_len >= room),
         o = "io" /\ ~HeaderIsBad => ~IsUtf16(Units)
  PROVE  StringInv'
<1>1. /\ Units' = Units /\ Available' = Available /\ HeaderIsBad' = HeaderIsBad
      /\ reply' = reply /\ room' = room /\ ReplyOK' = ReplyOK
  BY ReplyStays
<1>2. /\ outcome' = o /\ next' = next /\ high_surrogate' = high_surrogate
      /\ encoded_len' = encoded_len /\ data' = data /\ overrun' = overrun
  BY DEF End
<1>3. HasMore' = HasMore
  BY <1>1, <1>2 DEF HasMore
<1>4. Translated'
  BY <1>1, <1>2 DEF StringInv, Translated
<1>5. HalvesMatch'
  BY <1>1, <1>2 DEF StringInv, HalvesMatch
<1>6. StaysInRoom'
  BY <1>1, <1>2 DEF StringInv, StaysInRoom
<1>7. TextSoFar'
  BY <1>1, <1>2 DEF StringInv, TextSoFar
<1>8. EndIsRight'
  BY <1>1, <1>2, <1>3 DEF EndIsRight
<1> QED
  BY <1>4, <1>5, <1>6, <1>7, <1>8 DEF StringInv

LEMMA HighIsNotLow ==
  ASSUME NEW cu \in Nat
  PROVE  ~(IsHigh(cu) /\ IsLow(cu)) /\ (IsHigh(cu) => cu # 0) /\ (cu = 0 => ~IsLow(cu))
BY SMT DEF IsHigh, IsLow

\* A unit that is refused makes the text ill-formed.
LEMMA UnpairedIsIllFormed ==
  ASSUME StringInv, Translating, IsUnpaired(Unit)
  PROVE  ~IsUtf16(Units)
<1>1. PICK n \in Nat : n = next
  BY DEF StringInv, Translated
<1>2. PICK N \in Nat : N = Len(Units)
  BY UnitsType DEF StringInv, Translated, Translating
<1>3. n + 1 \in 1 .. N /\ n < N
  BY <1>1, <1>2, UnitRead
<1>4. DOMAIN Units = 1 .. N /\ \A i \in 1 .. N : Units[i] = reply.units[i]
  <2>1. Units \in Seq(CodeUnit) /\ \A i \in 1 .. Len(Units) : Units[i] = reply.units[i]
    BY UnitsType DEF StringInv, Translated, Translating
  <2> QED
    BY <1>2, <2>1
<1>5. SUFFICES ASSUME IsUtf16(Units) PROVE FALSE
  OBVIOUS
<1>6. \A i \in 1 .. N : /\ IsHigh(Units[i]) => i < N /\ IsLow(Units[i + 1])
                        /\ IsLow(Units[i]) => i > 1 /\ IsHigh(Units[i - 1])
  BY <1>2, <1>4, <1>5 DEF IsUtf16
<1>7. CASE IsLow(Unit)
  <2>1. high_surrogate = 0
    BY <1>7 DEF IsUnpaired
  <2>2. n + 1 > 1 /\ IsHigh(Units[n])
    <3>1. n + 1 > 1 /\ IsHigh(Units[(n + 1) - 1])
      BY <1>1, <1>3, <1>6, <1>7, UnitRead
    <3>2. (n + 1) - 1 = n
      OBVIOUS
    <3> QED
      BY <3>1, <3>2
  <2>3. n \in 1 .. N
    BY <1>3, <2>2
  <2>4. IsHigh(reply.units[n])
    BY <1>4, <2>2, <2>3
  <2>5. high_surrogate = reply.units[n]
    <3>1. n \in 1 .. n /\ ~(n < n)
      BY <2>3
    <3> QED
      BY <1>1, <2>4, <3>1 DEF StringInv, HalvesMatch
  <2>6. IsHigh(0)
    BY <2>1, <2>4, <2>5
  <2> QED
    BY <2>6, HighIsNotLow
<1>8. CASE ~IsLow(Unit)
  <2>1. high_surrogate # 0
    BY <1>8 DEF IsUnpaired
  <2>2. n > 0 /\ IsHigh(reply.units[n])
    BY <1>1, <2>1 DEF StringInv, HalvesMatch
  <2>3. n \in 1 .. N
    BY <1>3, <2>2
  <2>4. IsHigh(Units[n])
    BY <1>4, <2>2, <2>3
  <2>5. IsLow(Units[n + 1])
    BY <1>6, <2>3, <2>4
  <2> QED
    BY <1>1, <1>8, <2>5, UnitRead
<1> QED
  BY <1>7, <1>8

\* A text that ends inside a pair is ill-formed.
LEMMA HalfIsIllFormed ==
  ASSUME StringInv, ~HeaderIsBad, EndsInPair
  PROVE  ~IsUtf16(Units)
<1>1. PICK n \in Nat : n = next
  BY DEF StringInv, Translated
<1>2. PICK N \in Nat : N = Len(Units)
  BY UnitsType DEF StringInv, Translated
<1>3. ReplyOK /\ n <= N
  BY <1>1, <1>2 DEF StringInv, Translated
<1>4. ~(n < N)
  BY <1>1, <1>2, <1>3, UnitsType DEF EndsInPair, HasMore
<1>5. n > 0 /\ IsHigh(reply.units[n])
  BY <1>1 DEF StringInv, HalvesMatch, EndsInPair
<1>6. n = N /\ n \in 1 .. N
  BY <1>3, <1>4, <1>5
<1>7. DOMAIN Units = 1 .. N /\ IsHigh(Units[n])
  BY <1>2, <1>3, <1>5, <1>6, UnitsType
<1> QED
  BY <1>2, <1>4, <1>6, <1>7 DEF IsUtf16

\* What was read before stays paired when one more unit follows.
LEMMA HalvesKept ==
  ASSUME StringInv, SameReply, Translating, ~IsUnpaired(Unit), next' = next + 1,
         high_surrogate' = IF IsHigh(Unit) THEN Unit ELSE 0
  PROVE  HalvesMatch'
<1>1. PICK n \in Nat : n = next
  BY DEF StringInv, Translated
<1>2. PICK u : u = reply.units
  OBVIOUS
<1>3. Unit = u[n + 1] /\ Unit \in Nat /\ reply'.units = u /\ next' = n + 1
  BY <1>1, <1>2, UnitRead DEF SameReply
<1>4. \A i \in 1 .. n : /\ IsHigh(u[i]) => \/ i < n /\ IsLow(u[i + 1])
                                           \/ i = n /\ high_surrogate = u[i]
                        /\ IsLow(u[i]) => i > 1 /\ IsHigh(u[i - 1])
  BY <1>1, <1>2 DEF StringInv, HalvesMatch
<1>5. high_surrogate # 0 => n > 0 /\ high_surrogate = u[n] /\ IsHigh(high_surrogate)
  BY <1>1, <1>2 DEF StringInv, HalvesMatch
<1>6. IsLow(u[n + 1]) <=> high_surrogate # 0
  BY <1>3 DEF IsUnpaired
<1>7. ASSUME NEW i \in 1 .. n + 1
      PROVE  /\ IsHigh(u[i]) => \/ i < n + 1 /\ IsLow(u[i + 1])
                                \/ i = n + 1 /\ high_surrogate' = u[i]
             /\ IsLow(u[i]) => i > 1 /\ IsHigh(u[i - 1])
  <2>1. CASE i = n + 1
    <3>1. IsHigh(u[i]) => high_surrogate' = u[i]
      BY <1>3, <2>1
    <3>2. ASSUME IsLow(u[i]) PROVE i > 1 /\ IsHigh(u[i - 1])
      <4>1. n > 0 /\ IsHigh(u[n])
        BY <1>5, <1>6, <2>1, <3>2
      <4>2. i > 1 /\ i - 1 = n
        BY <2>1, <4>1
      <4> QED
        BY <4>1, <4>2
    <3> QED
      BY <2>1, <3>1, <3>2
  <2>2. CASE i # n + 1
    <3>1. i \in 1 .. n /\ i < n + 1
      BY <2>2
    <3>2. ASSUME IsHigh(u[i]) PROVE IsLow(u[i + 1])
      <4>1. CASE i < n
        BY <1>4, <3>1, <3>2, <4>1
      <4>2. CASE ~(i < n)
        <5>1. i = n
          BY <3>1, <4>2
        <5>2. high_surrogate = u[n]
          BY <1>4, <3>1, <3>2, <4>2, <5>1
        <5>3. high_surrogate # 0
          <6>1. ~IsHigh(0)
            BY SMT DEF IsHigh
          <6> QED
            BY <3>2, <5>1, <5>2, <6>1
        <5> QED
          BY <1>6, <5>1, <5>3
      <4> QED
        BY <4>1, <4>2
    <3> QED
      BY <1>4, <3>1, <3>2
  <2> QED
    BY <2>1, <2>2
<1>8. high_surrogate' # 0 => /\ n + 1 > 0 /\ high_surrogate' = u[n + 1]
                             /\ IsHigh(high_surrogate')
  BY <1>3
<1> QED
  BY <1>3, <1>7, <1>8 DEF HalvesMatch

LEMMA Repeated ==
  ASSUME NEW S, NEW x \in S, NEW l \in Nat
  PROVE  /\ [k \in 1 .. l |-> x] \in Seq(S)
         /\ Len([k \in 1 .. l |-> x]) = l
         /\ \A k \in 1 .. l : [i \in 1 .. l |-> x][k] = x
OBVIOUS

LEMMA HighSurrogateKeeps ==
  ASSUME StringInv, SameReply, HighSurrogate
  PROVE  StringInv'
<1>1. /\ Units' = Units /\ Available' = Available /\ HeaderIsBad' = HeaderIsBad
      /\ reply' = reply /\ room' = room /\ ReplyOK' = ReplyOK
  BY ReplyStays
<1>2. /\ Translating /\ ~IsUnpaired(Unit) /\ IsHigh(Unit)
      /\ high_surrogate' = Unit /\ next' = next + 1
      /\ encoded_len' = encoded_len /\ outcome' = outcome /\ overrun' = overrun
      /\ data' = data \o [k \in 1 .. encoded_len |-> Unwritten]
  BY DEF HighSurrogate
<1>3. /\ next + 1 \in 1 .. Len(Units) /\ Unit = reply.units[next + 1] /\ Unit = Units[next + 1]
      /\ Unit \in Nat /\ room \in Nat /\ encoded_len < room
  BY <1>2, UnitRead
<1>4. /\ ReplyOK /\ ~HeaderIsBad /\ outcome = "pending" /\ next \in Nat /\ encoded_len \in 0 .. 4
      /\ data \in Seq(Chars) /\ overrun \in BOOLEAN
  BY <1>2 DEF StringInv, Translated, Translating
<1>5. Unit # 0 /\ high_surrogate = 0
  <2>1. ~IsLow(Unit) /\ Unit # 0
    BY <1>2, <1>3, HighIsNotLow
  <2> QED
    BY <1>2, <2>1 DEF IsUnpaired
<1>6. PICK gap : /\ gap = [k \in 1 .. encoded_len |-> Unwritten] /\ gap \in Seq(Chars)
                 /\ Len(gap) = encoded_len
                 /\ \A k \in 1 .. encoded_len : gap[k] = Unwritten
  <2>1. Unwritten \in Chars
    BY DEF Chars
  <2>2. encoded_len \in Nat
    BY <1>4
  <2> QED
    BY <2>1, <2>2, Repeated
<1>7. /\ data' = data \o gap /\ data' \in Seq(Chars) /\ Len(data') = Len(data) + Len(gap)
      /\ \A i \in 1 .. Len(data) : data'[i] = data[i]
      /\ \A i \in 1 .. Len(gap) : data'[Len(data) + i] = gap[i]
  BY <1>2, <1>4, <1>6, Joined
<1>8. Translated'
  <2>1. next' \in Nat /\ next' <= Len(Units)
    BY <1>2, <1>3, <1>4
  <2> QED
    BY <1>1, <1>2, <1>4, <1>7, <2>1 DEF Translated
<1>9. HalvesMatch'
  BY <1>2, HalvesKept
<1>10. StaysInRoom'
  <2>1. Len(data) \in Nat /\ Len(gap) \in Nat /\ Len(data) <= room
    BY <1>4, <1>5, <1>6 DEF StringInv, StaysInRoom
  <2>2. ASSUME NEW k \in 1 .. Len(data')
        PROVE  data'[k] # Unwritten => k <= room
    <3>1. CASE k <= Len(data)
      BY <1>3, <2>1, <3>1
    <3>2. CASE ~(k <= Len(data))
      <4>1. PICK i \in 1 .. Len(gap) : k = Len(data) + i
        <5>1. k - Len(data) \in 1 .. Len(gap) /\ k = Len(data) + (k - Len(data))
          BY <1>7, <2>1, <3>2
        <5> QED
          BY <5>1
      <4> QED
        BY <1>6, <1>7, <4>1
    <3> QED
      BY <3>1, <3>2
  <2>3. \E j \in 1 .. next' : IsHigh(reply'.units[j])
    <3>1. next + 1 \in 1 .. next' /\ IsHigh(reply'.units[next + 1])
      BY <1>1, <1>2, <1>3, <1>4
    <3> QED
      BY <3>1
  <2> QED
    BY <1>1, <1>2, <1>3, <1>5, <2>2, <2>3 DEF StaysInRoom
<1>11. TextSoFar'
  <2>1. ~IsPlain(Units)
    <3>1. next + 1 \in DOMAIN Units
      <4>1. Units \in Seq(CodeUnit)
        BY <1>4, UnitsType
      <4> QED
        BY <1>3, <4>1
    <3> QED
      BY <1>2, <1>3, <3>1 DEF IsPlain
  <2> QED
    BY <1>1, <2>1 DEF TextSoFar
<1>12. EndIsRight'
  BY <1>2, <1>4 DEF EndIsRight
<1> QED
  BY <1>8, <1>9, <1>10, <1>11, <1>12 DEF StringInv

\* The code point of a pair, without the offset.
LEMMA CodePointType ==
  ASSUME StringInv, Translating, ~IsUnpaired(Unit)
  PROVE  /\ CodePoint(Unit) \in Nat /\ CodePoint(Unit) < 1048576
         /\ ~IsLow(Unit) => CodePoint(Unit) = Unit
<1>1. Unit \in Nat /\ Unit <= 65535
  BY UnitRead
<1>2. CASE ~IsLow(Unit)
  BY SMT, <1>1, <1>2 DEF CodePoint
<1>3. CASE IsLow(Unit)
  <2>1. IsHigh(high_surrogate) /\ high_surrogate \in Nat
    <3>1. high_surrogate # 0
      BY <1>3 DEF IsUnpaired
    <3>2. /\ next > 0 /\ high_surrogate = reply.units[next] /\ IsHigh(high_surrogate)
      BY <3>1 DEF StringInv, HalvesMatch
    <3>3. next \in 1 .. Len(reply.units)
      <4>1. /\ next \in Nat /\ next <= Len(Units) /\ Len(Units) \in Nat
            /\ Len(Units) <= Len(reply.units)
        BY UnitsType DEF StringInv, Translated, Translating
      <4>2. Len(reply.units) \in Nat
        BY DEF StringInv, Translated, ReplyOK, Reply
      <4> QED
        BY <3>2, <4>1, <4>2
    <3>4. reply.units[next] \in CodeUnit
      BY <3>3 DEF StringInv, Translated, ReplyOK, Reply
    <3> QED
      BY SMT, <3>2, <3>4, CodeUnitIs
  <2> QED
    BY SMT, <1>1, <1>3, <2>1 DEF CodePoint, IsLow, IsHigh
<1> QED
  BY <1>2, <1>3

LEMMA BytesAreWritten ==
  ASSUME NEW B, B = 0 .. 255, NEW s \in Seq(B)
  PROVE  s \in Seq(Chars) /\ \A i \in 1 .. Len(s) : s[i] # Unwritten
<1>1. \A x \in B : x \in Chars /\ x # Unwritten
  BY DEF Chars, Unwritten
<1>2. \A i \in 1 .. Len(s) : s[i] \in Chars /\ s[i] # Unwritten
  BY ONLY <1>1, s \in Seq(B)
<1> QED
  BY ONLY <1>2, s \in Seq(B)

\* A character that has room.
LEMMA CharacterKeeps ==
  ASSUME StringInv, SameReply, Character
  PROVE  StringInv'
<1>1. /\ Units' = Units /\ Available' = Available /\ HeaderIsBad' = HeaderIsBad
      /\ reply' = reply /\ room' = room /\ ReplyOK' = ReplyOK
  BY ReplyStays
<1>2. Translating /\ ~IsUnpaired(Unit) /\ ~IsHigh(Unit) /\ outcome' = outcome
  BY DEF Character
<1>3. /\ next + 1 \in 1 .. Len(Units) /\ Unit = reply.units[next + 1] /\ Unit = Units[next + 1]
      /\ Unit \in Nat /\ room \in Nat /\ encoded_len < room
  BY <1>2, UnitRead
<1>4. /\ ReplyOK /\ ~HeaderIsBad /\ outcome = "pending" /\ next \in Nat /\ encoded_len \in 0 .. 4
      /\ data \in Seq(Chars) /\ overrun \in BOOLEAN
  BY <1>2 DEF StringInv, Translated, Translating
<1>5. Len(data) \in Nat
  BY <1>4
<1>6. CASE room <= Len(data)
  <2>1. /\ overrun' = TRUE /\ data' = data /\ encoded_len' = encoded_len
        /\ high_surrogate' = high_surrogate /\ next' = next
    BY <1>3, <1>5, <1>6 DEF Character
  <2>2. Translated'
    BY <1>1, <1>2, <2>1 DEF StringInv, Translated
  <2>3. HalvesMatch'
    BY <1>1, <2>1 DEF StringInv, HalvesMatch
  <2>4. StaysInRoom'
    BY <1>1, <2>1 DEF StringInv, StaysInRoom
  <2>5. TextSoFar'
    BY <1>1, <2>1 DEF StringInv, TextSoFar
  <2>6. EndIsRight'
    BY <1>2, <1>4 DEF EndIsRight
  <2> QED
    BY <2>2, <2>3, <2>4, <2>5, <2>6 DEF StringInv
<1>7. CASE ~(room <= Len(data))
  <2>1. PICK cp \in Nat : cp = CodePoint(Unit) /\ cp < 1048576
    BY <1>2, CodePointType
  <2>2. PICK n \in Nat : n = room - Len(data) /\ n > 0
    <3>1. room - Len(data) \in Nat /\ room - Len(data) > 0
      BY <1>3, <1>5, <1>7
    <3> QED
      BY <3>1
  <2>3. PICK s : s = Encode(cp, n)
    OBVIOUS
  <2>4. s \in Seq(0 .. 255) /\ Len(s) \in 1 .. 4 /\ Len(s) <= n
    BY <2>1, <2>2, <2>3, EncodeType
  <2>5. /\ data' = data \o s /\ encoded_len' = Len(s) /\ high_surrogate' = 0
        /\ next' = next + 1 /\ overrun' = overrun
    BY <1>7, <2>1, <2>2, <2>3 DEF Character
  <2>6. s \in Seq(Chars) /\ \A i \in 1 .. Len(s) : s[i] # Unwritten
    BY <2>4, BytesAreWritten
  <2>7. /\ data' \in Seq(Chars) /\ Len(data') = Len(data) + Len(s)
        /\ \A i \in 1 .. Len(data) : data'[i] = data[i]
        /\ \A i \in 1 .. Len(s) : data'[Len(data) + i] = s[i]
    BY <1>4, <2>5, <2>6, Joined
  <2>8. Len(data') \in Nat /\ Len(data') <= room
    BY <1>3, <1>5, <2>2, <2>4, <2>7
  <2>9. Translated'
    <3>1. next' \in Nat /\ next' <= Len(Units)
      BY <1>3, <1>4, <2>5
    <3>2. encoded_len' \in 0 .. 4
      BY <2>4, <2>5
    <3> QED
      BY <1>1, <1>2, <1>4, <2>5, <2>7, <3>1, <3>2 DEF Translated
  <2>10. HalvesMatch'
    BY <1>2, <2>5, HalvesKept
  <2>11. StaysInRoom'
    <3>1. ASSUME NEW k \in 1 .. Len(data')
          PROVE  /\ k <= room
                 /\ data'[k] = Unwritten => \E j \in 1 .. next' : IsHigh(reply.units[j])
      <4>1. k <= room
        BY <1>3, <2>8
      <4>2. CASE k <= Len(data)
        <5>1. k \in 1 .. Len(data)
          BY <1>5, <4>2
        <5>2. data[k] = Unwritten => \E j \in 1 .. next : IsHigh(reply.units[j])
          BY <5>1 DEF StringInv, StaysInRoom
        <5>3. 1 .. next \subseteq 1 .. next'
          BY <1>4, <2>5
        <5> QED
          BY <2>7, <4>1, <5>1, <5>2, <5>3
      <4>3. CASE ~(k <= Len(data))
        <5>1. PICK i \in 1 .. Len(s) : k = Len(data) + i
          <6>1. k - Len(data) \in 1 .. Len(s) /\ k = Len(data) + (k - Len(data))
            BY <1>5, <2>7, <2>8, <4>3
          <6> QED
            BY <6>1
        <5> QED
          BY <2>6, <2>7, <4>1, <5>1
      <4> QED
        BY <4>2, <4>3
    <3> QED
      BY <1>1, <2>5, <2>8, <3>1 DEF StaysInRoom
  <2>12. TextSoFar'
    <3>1. SUFFICES ASSUME IsPlain(Units)
                   PROVE  /\ encoded_len' <= Len(data')
                          /\ data' = Fits(Utf8Text(Units)[next + 1], room)
      BY <1>1, <2>5 DEF TextSoFar
    <3>2. /\ Units \in Seq(CodeUnit) /\ Len(Units) \in Nat /\ DOMAIN Units = 1 .. Len(Units)
          /\ Unit \in CodeUnit
      <4>1. Units \in Seq(CodeUnit) /\ Len(Units) \in Nat
        BY <1>4, UnitsType
      <4>2. Unit \in CodeUnit
        BY <1>3, <4>1
      <4> QED
        BY <4>1, <4>2
    <3>3. ~IsLow(Unit) /\ Unit \notin {127, 2047, 65535}
      BY <1>3, <3>1, <3>2 DEF IsPlain
    <3>4. cp = Unit /\ CodeBytes(cp) = Utf8(Unit)
      BY <1>2, <2>1, <3>2, <3>3, CodePointType, EncodeRight
    <3>5. PICK b \in Seq(Int) : b = Utf8(Unit)
      BY <1>3, Utf8Type
    <3>6. s = Fits(b, n)
      BY <2>3, <3>4, <3>5 DEF Encode, Fits
    <3>7. PICK t : t = Utf8Text(Units)
      OBVIOUS
    <3>8. t[next] \in Seq(Int) /\ t[next + 1] = t[next] \o b
      <4>1. next \in 0 .. Len(Units) /\ (next + 1) - 1 = next
        BY <1>3, <1>4, <3>2
      <4>2. t[next] \in Seq(Int)
        BY <3>2, <3>7, <4>1, TextType
      <4>3. t[next + 1] = t[(next + 1) - 1] \o Utf8(Units[next + 1])
        BY <1>3, <3>2, <3>7, TextGrows
      <4> QED
        BY <1>3, <3>5, <4>1, <4>2, <4>3
    <3>9. data = Fits(t[next], room)
      BY <1>4, <3>1, <3>7 DEF StringInv, TextSoFar
    <3>10. Len(Fits(t[next], room)) < room
      BY <1>3, <1>5, <1>7, <3>9
    <3>11. data = t[next] /\ Fits(t[next + 1], room) = t[next] \o Fits(b, room - Len(t[next]))
      <4>1. PICK a \in Seq(Int) : a = t[next]
        BY <3>8
      <4>2. Len(Fits(a, room)) < room
        BY <3>10, <4>1
      <4>3. Fits(a, room) = a /\ Fits(a \o b, room) = a \o Fits(b, room - Len(a))
        BY <1>3, <4>2, FitsConcat
      <4> QED
        BY <3>8, <3>9, <4>1, <4>3
    <3>12. data' = Fits(t[next + 1], room)
      BY <2>2, <2>5, <3>6, <3>11
    <3>13. encoded_len' <= Len(data')
      BY <1>5, <2>4, <2>5, <2>7
    <3> QED
      BY <3>7, <3>12, <3>13
  <2>13. EndIsRight'
    BY <1>2, <1>4 DEF EndIsRight
  <2> QED
    BY <2>9, <2>10, <2>11, <2>12, <2>13 DEF StringInv
<1> QED
  BY <1>6, <1>7

LEMMA StringInvInit == StringInit => StringInv
<1> SUFFICES ASSUME StringInit PROVE StringInv
  OBVIOUS
<1>1. /\ next = 0 /\ high_surrogate = 0 /\ encoded_len = 0 /\ data = <<>>
      /\ outcome = "pending" /\ overrun = FALSE
  BY DEF StringInit
<1>2. ReplyOK
  BY StringAssumption DEF StringInit, ReplyOK
<1>3. Translated
  <2>1. data \in Seq(Chars)
    BY <1>1
  <2>2. ~HeaderIsBad => next <= Len(Units)
    BY <1>1, <1>2, UnitsType
  <2>3. next \in Nat /\ encoded_len \in 0 .. 4
    BY <1>1
  <2>4. HeaderIsBad => next = 0 /\ outcome # "length"
    BY <1>1
  <2>5. outcome \in {"pending", "io", "length"} /\ overrun \in BOOLEAN
    BY <1>1
  <2> QED
    BY <1>2, <2>1, <2>2, <2>3, <2>4, <2>5 DEF Translated
<1>4. HalvesMatch
  BY <1>1 DEF HalvesMatch
<1>5. StaysInRoom
  BY <1>1, <1>2 DEF StaysInRoom, ReplyOK
<1>6. TextSoFar
  <2>1. SUFFICES ASSUME ~HeaderIsBad
                 PROVE  encoded_len <= Len(data) /\ data = Fits(Utf8Text(Units)[next], room)
    BY DEF TextSoFar
  <2>2. Utf8Text(Units)[0] = <<>>
    BY <1>2, <2>1, UnitsType, TextGrows
  <2>3. Fits(<<>>, room) = <<>>
    <3>1. <<>> \in Seq(Int) /\ Len(<<>>) = 0 /\ room \in Nat
      BY <1>2 DEF ReplyOK
    <3>2. Fits(<<>>, room) \in Seq(Int)
      BY <3>1, FitsIs
    <3>3. Len(Fits(<<>>, room)) = 0
      <4>1. Len(Fits(<<>>, room)) = IF room < Len(<<>>) THEN room ELSE Len(<<>>)
        BY <3>1, FitsIs
      <4> QED
        BY <3>1, <4>1
    <3> QED
      BY <3>2, <3>3
  <2> QED
    BY <1>1, <2>2, <2>3
<1>7. EndIsRight
  BY <1>1 DEF EndIsRight
<1> QED
  BY <1>3, <1>4, <1>5, <1>6, <1>7 DEF StringInv

LEMMA StringInvNext == StringInv /\ [StringStep]_stringVars => StringInv'
<1> SUFFICES ASSUME StringInv, [StringStep]_stringVars PROVE StringInv'
  OBVIOUS
<1>1. CASE UNCHANGED stringVars
  <2>1. SameReply
    BY <1>1 DEF stringVars, SameReply
  <2>2. /\ Units' = Units /\ Available' = Available /\ HeaderIsBad' = HeaderIsBad
        /\ reply' = reply /\ room' = room /\ ReplyOK' = ReplyOK
    BY <2>1, ReplyStays
  <2>3. /\ next' = next /\ high_surrogate' = high_surrogate /\ encoded_len' = encoded_len
        /\ data' = data /\ outcome' = outcome /\ overrun' = overrun
    BY <1>1 DEF stringVars
  <2>4. Translated'
    BY <2>2, <2>3 DEF StringInv, Translated
  <2>5. HalvesMatch'
    BY <2>2, <2>3 DEF StringInv, HalvesMatch
  <2>6. StaysInRoom'
    BY <2>2, <2>3 DEF StringInv, StaysInRoom
  <2>7. TextSoFar'
    BY <2>2, <2>3 DEF StringInv, TextSoFar
  <2>8. EndIsRight'
    BY <2>2, <2>3 DEF StringInv, EndIsRight, HasMore
  <2> QED
    BY <2>4, <2>5, <2>6, <2>7, <2>8 DEF StringInv
<1>2. CASE StringStep
  <2>1. SameReply
    BY <1>2 DEF StringStep, SameReply
  <2>2. CASE BadHeader
    BY <2>1, <2>2, EndKeeps DEF BadHeader
  <2>3. CASE Unpaired
    BY <2>1, <2>3, EndKeeps, UnpairedIsIllFormed DEF Unpaired
  <2>4. CASE HighSurrogate
    BY <2>1, <2>4, HighSurrogateKeeps
  <2>5. CASE Character
    BY <2>1, <2>5, CharacterKeeps
  <2>6. CASE Finished
    <3>1. /\ outcome = "pending" /\ ~overrun /\ ~HeaderIsBad /\ ~Translating
          /\ End(IF EndsInPair THEN "io" ELSE "length")
      BY <2>6 DEF Finished
    <3>2. CASE EndsInPair
      <4>1. ~IsUtf16(Units) /\ End("io")
        BY <3>1, <3>2, HalfIsIllFormed
      <4> QED
        BY <2>1, <4>1, EndKeeps
    <3>3. CASE ~EndsInPair
      <4>1. ~HasMore \/ ~(encoded_len < room)
        BY <3>1 DEF Translating
      <4>2. room \in Nat /\ encoded_len \in Nat
        BY DEF StringInv, Translated, ReplyOK
      <4>3. high_surrogate = 0
        BY <3>3, <4>1 DEF EndsInPair, StringInv, StaysInRoom
      <4>4. HasMore => encoded_len >= room
        BY <4>1, <4>2
      <4>5. End("length")
        BY <3>1, <3>3
      <4> QED
        BY <2>1, <3>1, <4>3, <4>4, <4>5, EndKeeps
    <3> QED
      BY <3>2, <3>3
  <2> QED
    BY <1>2, <2>2, <2>3, <2>4, <2>5, <2>6 DEF StringStep
<1> QED
  BY <1>1, <1>2

LEMMA StringInvariant == StringSpec => []StringInv
BY StringInvInit, StringInvNext, PTL DEF StringSpec

\* The variables of libusby_get_string_descriptor_utf8 have their types: what
\* is remembered between two units is nothing or a high surrogate.
THEOREM StringTypeCorrect == StringSpec => []StringTypeOK
<1>1. ASSUME StringInv PROVE StringTypeOK
  <2>1. /\ next \in Nat /\ encoded_len \in 0 .. 4 /\ data \in Seq({Unwritten} \cup 0 .. 255)
        /\ outcome \in {"pending", "io", "length"} /\ overrun \in BOOLEAN
    BY <1>1 DEF StringInv, Translated, Chars
  <2>2. next \in 0 .. Len(reply.units)
    <3>1. Len(reply.units) \in Nat
      BY <1>1 DEF StringInv, Translated, ReplyOK, Reply
    <3>2. next <= Len(reply.units)
      <4>1. CASE HeaderIsBad
        BY <1>1, <3>1, <4>1 DEF StringInv, Translated
      <4>2. CASE ~HeaderIsBad
        <5>1. Len(Units) \in Nat /\ next <= Len(Units) /\ Len(Units) <= Len(reply.units)
          BY <1>1, <4>2, UnitsType DEF StringInv, Translated
        <5> QED
          BY <2>1, <3>1, <5>1
      <4> QED
        BY <4>1, <4>2
    <3> QED
      BY <2>1, <3>1, <3>2
  <2>3. high_surrogate \in {0} \cup 55296 .. 56319
    <3>1. SUFFICES ASSUME high_surrogate # 0 PROVE high_surrogate \in 55296 .. 56319
      OBVIOUS
    <3>2. next > 0 /\ high_surrogate = reply.units[next] /\ IsHigh(high_surrogate)
      BY <1>1, <3>1 DEF StringInv, HalvesMatch
    <3>3. next \in 1 .. Len(reply.units)
      BY <2>2, <3>2
    <3>4. reply.units[next] \in CodeUnit
      BY <1>1, <3>3 DEF StringInv, Translated, ReplyOK, Reply
    <3>5. high_surrogate \in Nat
      BY SMT, <3>2, <3>4, CodeUnitIs
    <3>6. PICK a \in Int, b \in Int : a = 55296 /\ b = 56319
      BY SMT
    <3>7. a <= high_surrogate /\ high_surrogate <= b
      BY SMT, <3>2, <3>5, <3>6 DEF IsHigh
    <3>8. high_surrogate \in a .. b
      BY <3>5, <3>7
    <3> QED
      BY ONLY SMT, <3>6, <3>8
  <2> QED
    BY <2>1, <2>2, <2>3 DEF StringTypeOK
<1> QED
  BY <1>1, StringInvariant, PTL

\* A string is refused if and only if its surrogates are not paired, as far as
\* it was looked at: the variable high_surrogate is all the memory that needs.
THEOREM UnpairedIsRefused == StringSpec => []RefusesUnpaired
<1>1. ASSUME StringInv PROVE RefusesUnpaired
  <2>1. outcome = "io" /\ ~HeaderIsBad => ~IsUtf16(Units)
    BY <1>1 DEF StringInv, EndIsRight
  <2>2. ASSUME outcome = "length", ~HasMore PROVE IsUtf16(Units)
    <3>1. ReplyOK /\ ~HeaderIsBad /\ next \in Nat /\ high_surrogate = 0 /\ next <= Len(Units)
      BY <1>1, <2>2 DEF StringInv, Translated, EndIsRight
    <3>2. PICK N \in Nat : N = Len(Units)
      BY <3>1, UnitsType
    <3>3. next = N
      <4>1. ~(next < N)
        BY <2>2, <3>1, <3>2, UnitsType DEF HasMore
      <4> QED
        BY <3>1, <3>2, <4>1
    <3>4. PICK u : u = Units
      OBVIOUS
    <3>5. DOMAIN u = 1 .. N /\ \A i \in 1 .. N : u[i] = reply.units[i]
      <4>1. Units \in Seq(CodeUnit) /\ \A i \in 1 .. N : Units[i] = reply.units[i]
        BY <3>1, <3>2, UnitsType
      <4> QED
        BY <3>2, <3>4, <4>1
    <3>6. \A i \in 1 .. N : /\ IsHigh(reply.units[i]) => \/ i < N /\ IsLow(reply.units[i + 1])
                                                         \/ i = N /\ reply.units[i] = 0
                            /\ IsLow(reply.units[i]) => i > 1 /\ IsHigh(reply.units[i - 1])
      BY <1>1, <3>1, <3>3 DEF StringInv, HalvesMatch
    <3>7. ~IsHigh(0)
      BY SMT DEF IsHigh
    <3>8. ASSUME NEW i \in 1 .. N
          PROVE  /\ IsHigh(u[i]) => i < N /\ IsLow(u[i + 1])
                 /\ IsLow(u[i]) => i > 1 /\ IsHigh(u[i - 1])
      <4>1. ASSUME IsHigh(u[i]) PROVE i < N /\ IsLow(u[i + 1])
        <5>1. i < N /\ IsLow(reply.units[i + 1])
          BY <3>5, <3>6, <3>7, <4>1
        <5>2. i + 1 \in 1 .. N
          BY <5>1
        <5> QED
          BY <3>5, <5>1, <5>2
      <4>2. ASSUME IsLow(u[i]) PROVE i > 1 /\ IsHigh(u[i - 1])
        <5>1. i > 1 /\ IsHigh(reply.units[i - 1])
          BY <3>5, <3>6, <4>2
        <5>2. i - 1 \in 1 .. N
          BY <5>1
        <5> QED
          BY <3>5, <5>1, <5>2
      <4> QED
        BY <4>1, <4>2
    <3>9. Len(u) = N
      BY <3>2, <3>4
    <3>10. IsUtf16(u)
      BY <3>5, <3>8, <3>9 DEF IsUtf16
    <3> QED
      BY <3>4, <3>10
  <2> QED
    BY <2>1, <2>2 DEF RefusesUnpaired
<1> QED
  BY <1>1, StringInvariant, PTL

\* No byte is written beyond the buffer, at whatever byte of a character it
\* ends; bytes are passed over only for surrogates; and text without them,
\* whatever its length, comes out as its UTF-8 cut at the end of the buffer.
THEOREM PlainTextTranslated == StringSpec => []PlainTextIsRight
<1>1. ASSUME StringInv PROVE PlainTextIsRight
  <2>1. /\ ReplyOK /\ room \in Nat /\ next \in Nat /\ encoded_len \in Nat /\ Len(data) \in Nat
        /\ DOMAIN data = 1 .. Len(data)
    BY <1>1 DEF StringInv, Translated, ReplyOK
  <2>2. \A k \in DOMAIN data : data[k] # Unwritten => k <= room
    BY <1>1, <2>1 DEF StringInv, StaysInRoom
  <2>3. outcome = "length" => Len(data) <= room
    BY <1>1 DEF StringInv, EndIsRight, StaysInRoom
  <2>4. Unwritten \in {data[k] : k \in DOMAIN data} => \E k \in 1 .. next : IsHigh(reply.units[k])
    BY <1>1, <2>1 DEF StringInv, StaysInRoom
  <2>5. ASSUME outcome = "length", IsPlain(Units)
        PROVE  data = Fits(Utf8Text(Units)[Len(Units)], room)
    <3>1. ~HeaderIsBad /\ next <= Len(Units) /\ (HasMore => encoded_len >= room)
      BY <1>1, <2>5 DEF StringInv, Translated, EndIsRight
    <3>2. Units \in Seq(CodeUnit)
      BY <2>1, <3>1, UnitsType
    <3>3. PICK N \in Nat : N = Len(Units) /\ next \in 0 .. N /\ N \in next .. Len(Units)
      <4>1. Len(Units) \in Nat
        BY <3>2
      <4> QED
        BY <2>1, <3>1, <4>1
    <3>4. PICK t : t = Utf8Text(Units)
      OBVIOUS
    <3>5. encoded_len <= Len(data) /\ data = Fits(t[next], room)
      BY <1>1, <2>5, <3>1, <3>4 DEF StringInv, TextSoFar
    <3>6. CASE ~HasMore
      <4>1. ~(next < N)
        BY <2>1, <3>1, <3>3, <3>6, UnitsType DEF HasMore
      <4>2. next = N
        BY <3>3, <4>1
      <4> QED
        BY <3>3, <3>4, <3>5, <4>2
    <3>7. CASE HasMore
      <4>1. PICK a \in Seq(Int), b \in Seq(Int) : a = t[next] /\ b = t[N]
        <5>1. N \in 0 .. Len(Units) /\ next \in 0 .. Len(Units)
          BY <3>3
        <5> QED
          BY <3>2, <3>4, <5>1, TextType
      <4>2. Len(a) <= Len(b) /\ \A i \in 1 .. Len(a) : b[i] = a[i]
        BY <3>2, <3>3, <3>4, <4>1, TextIsPrefix
      <4>3. Len(a) \in Nat /\ Len(b) \in Nat /\ room <= Len(data)
        BY <2>1, <3>1, <3>5, <3>7
      <4>4. PICK c \in Seq(Int) : /\ c = Fits(a, room)
                                  /\ Len(c) = IF room < Len(a) THEN room ELSE Len(a)
                                  /\ \A i \in 1 .. Len(c) : c[i] = a[i]
        BY <2>1, FitsIs
      <4>5. PICK d \in Seq(Int) : /\ d = Fits(b, room)
                                  /\ Len(d) = IF room < Len(b) THEN room ELSE Len(b)
                                  /\ \A i \in 1 .. Len(d) : d[i] = b[i]
        BY <2>1, FitsIs
      <4>6. data = c /\ room <= Len(c)
        BY <3>5, <4>1, <4>3, <4>4
      <4>7. Len(c) = room /\ Len(d) = room /\ room <= Len(a)
        <5>1. PICK x \in Nat, y \in Nat, z \in Nat :
                x = Len(a) /\ y = Len(b) /\ z = room /\ x <= y
          BY <2>1, <4>2, <4>3
        <5>2. Len(c) = IF z < x THEN z ELSE x
          BY <4>4, <5>1
        <5>3. Len(d) = IF z < y THEN z ELSE y
          BY <4>5, <5>1
        <5>4. z <= Len(c)
          BY <4>6, <5>1
        <5>5. Len(c) = z /\ z <= x
          BY <5>1, <5>2, <5>4
        <5>6. Len(d) = z
          BY <5>1, <5>3, <5>5
        <5> QED
          BY <5>1, <5>5, <5>6
      <4>8. \A i \in 1 .. Len(c) : c[i] = d[i]
        <5> TAKE i \in 1 .. Len(c)
        <5>1. i \in 1 .. Len(a) /\ i \in 1 .. Len(d)
          BY <2>1, <4>3, <4>7
        <5> QED
          BY <4>2, <4>4, <4>5, <5>1
      <4>9. c = d
        BY <4>7, <4>8, SeqsAreEqual
      <4> QED
        BY <3>3, <3>4, <4>1, <4>5, <4>6, <4>9
    <3> QED
      BY <3>6, <3>7
  <2> QED
    BY <2>2, <2>3, <2>4, <2>5 DEF PlainTextIsRight, Fits
<1> QED
  BY <1>1, StringInvariant, PTL

-----------------------------------------------------------------------------
(* Strings: how much room the loop can ask for.                            *)

\* Every unit adds four bytes at most, those passed over included; the
\* assertion fails at a unit only when these have filled the buffer.
RoomAsked ==
  /\ Len(data) <= 4 * next
  /\ overrun => ~HeaderIsBad /\ room < 4 * Len(Units)

LEMMA HighSurrogateRoom ==
  ASSUME StringInv, SameReply, RoomAsked, HighSurrogate
  PROVE  RoomAsked'
<1>1. Units' = Units /\ HeaderIsBad' = HeaderIsBad /\ room' = room /\ overrun' = overrun /\ next' = next + 1
  BY ReplyStays DEF HighSurrogate
<1>2. next \in Nat /\ encoded_len \in 0 .. 4 /\ data \in Seq(Chars) /\ Len(data) \in Nat
  BY DEF StringInv, Translated
<1>3. PICK gap : gap = [k \in 1 .. encoded_len |-> Unwritten] /\ gap \in Seq(Chars)
                 /\ Len(gap) = encoded_len
                 /\ \A k \in 1 .. encoded_len : gap[k] = Unwritten
  <2>1. Unwritten \in Chars
    BY DEF Chars
  <2>2. encoded_len \in Nat
    BY <1>2
  <2> QED
    BY <2>1, <2>2, Repeated
<1>4. data' = data \o gap
  BY <1>3 DEF HighSurrogate
<1>5. Len(data') = Len(data) + encoded_len
  BY <1>2, <1>3, <1>4, Joined
<1>6. Len(data') <= 4 * (next + 1)
  BY SMT, <1>2, <1>5 DEF RoomAsked
<1> QED
  BY <1>1, <1>6 DEF RoomAsked

LEMMA CharacterRoom ==
  ASSUME StringInv, SameReply, RoomAsked, Character
  PROVE  RoomAsked'
<1>1. Units' = Units /\ HeaderIsBad' = HeaderIsBad /\ room' = room
  BY ReplyStays
<1>2. Translating /\ ~IsUnpaired(Unit) /\ ~IsHigh(Unit)
  BY DEF Character
<1>3. next + 1 \in 1 .. Len(Units) /\ room \in Nat
  BY <1>2, UnitRead
<1>4. next \in Nat /\ data \in Seq(Chars) /\ Len(data) \in Nat
  BY DEF StringInv, Translated
<1>5. CASE room <= Len(data)
  <2>1. overrun' = TRUE /\ data' = data /\ next' = next
    BY <1>3, <1>4, <1>5 DEF Character
  <2>2. room <= 4 * next /\ next < Len(Units) /\ Len(Units) \in Nat
    <3>1. Len(Units) \in Nat
      <4>1. ReplyOK /\ ~HeaderIsBad
        BY <1>2 DEF StringInv, Translated, Translating
      <4> QED
        BY <4>1, UnitsType
    <3> QED
      BY SMT, <1>3, <1>4, <1>5, <3>1 DEF RoomAsked
  <2>3. room < 4 * Len(Units)
    BY SMT, <1>3, <1>4, <2>2
  <2> QED
    BY <1>1, <1>2, <2>1, <2>3 DEF RoomAsked, Translating
<1>6. CASE ~(room <= Len(data))
  <2>1. PICK cp \in Nat : cp = CodePoint(Unit) /\ cp < 1048576
    BY <1>2, CodePointType
  <2>2. PICK n \in Nat : n = room - Len(data) /\ n > 0
    <3>1. room - Len(data) \in Nat /\ room - Len(data) > 0
      BY <1>3, <1>4, <1>6
    <3> QED
      BY <3>1
  <2>3. PICK s : s = Encode(cp, n)
    OBVIOUS
  <2>4. s \in Seq(0 .. 255) /\ Len(s) \in 1 .. 4
    BY <2>1, <2>2, <2>3, EncodeType
  <2>5. data' = data \o s /\ next' = next + 1 /\ overrun' = overrun
    BY <1>6, <2>1, <2>2, <2>3 DEF Character
  <2>6. s \in Seq(Chars)
    BY <2>4, BytesAreWritten
  <2>7. Len(data') = Len(data) + Len(s)
    BY <1>4, <2>5, <2>6, Joined
  <2>8. Len(data') <= 4 * (next + 1)
    <3>1. PICK m \in Nat, l \in 1 .. 4 : m = Len(data) /\ l = Len(s)
      BY Zenon, <1>4, <2>4
    <3>2. m <= 4 * next
      BY <3>1 DEF RoomAsked
    <3>3. m + l <= 4 * (next + 1)
      <4>1. next \in Nat
        BY <1>4
      <4> QED
        BY SMT, <3>2, <4>1
    <3> QED
      BY <2>7, <3>1, <3>3
  <2> QED
    BY <1>1, <2>5, <2>8 DEF RoomAsked
<1> QED
  BY <1>5, <1>6

\* With four bytes for every code unit of the descriptor the buffer never
\* runs out, and the assertion of encode_utf8 never fails: it takes a buffer
\* that is too small for the text, not a text of some kind.
THEOREM RoomSuffices == StringSpec => [](room >= 4 * Len(Units) => EncodeHasRoom)
<1>1. StringInit => RoomAsked
  BY DEF StringInit, RoomAsked
<1>2. StringInv /\ RoomAsked /\ [StringStep]_stringVars => RoomAsked'
  <2> SUFFICES ASSUME StringInv, RoomAsked, [StringStep]_stringVars PROVE RoomAsked'
    OBVIOUS
  <2>1. SameReply
    BY DEF StringStep, stringVars, SameReply
  <2>2. Units' = Units /\ HeaderIsBad' = HeaderIsBad /\ room' = room
    BY <2>1, ReplyStays
  <2>3. ASSUME NEW o, End(o) PROVE RoomAsked'
    BY <2>2, <2>3 DEF End, RoomAsked
  <2>4. CASE UNCHANGED stringVars
    BY <2>2, <2>4 DEF stringVars, RoomAsked
  <2>5. CASE BadHeader \/ Unpaired \/ Finished
    BY <2>3, <2>5 DEF BadHeader, Unpaired, Finished
  <2> QED
    BY <2>1, <2>4, <2>5, HighSurrogateRoom, CharacterRoom DEF StringStep
<1>3. StringInv /\ RoomAsked => (room >= 4 * Len(Units) => EncodeHasRoom)
  <2> SUFFICES ASSUME StringInv, RoomAsked, room >= 4 * Len(Units) PROVE EncodeHasRoom
    OBVIOUS
  <2>1. CASE HeaderIsBad
    BY <2>1 DEF RoomAsked, EncodeHasRoom
  <2>2. CASE ~HeaderIsBad
    <3>1. ReplyOK
      BY DEF StringInv, Translated
    <3>2. Len(Units) \in Nat /\ room \in Nat
      BY <2>2, <3>1, UnitsType DEF ReplyOK
    <3> QED
      BY SMT, <3>2 DEF RoomAsked, EncodeHasRoom
  <2> QED
    BY <2>1, <2>2
<1> QED
  BY <1>1, <1>2, <1>3, StringInvariant, PTL DEF StringSpec

-----------------------------------------------------------------------------
(* What the run of MCDescriptors checks.                                   *)

\* The composition of the run behaves as each of its two parts, so that every
\* theorem about one of them is about what the run checks.
THEOREM MCImplementsParts == MCSpec => ParserSpec /\ StringSpec
<1>1. MCInit => ParserInit /\ StringInit
  BY DEF MCInit
<1>2. [MCNext]_<<parserVars, stringVars>> => [ParserStep]_parserVars
  BY DEF MCNext
<1>3. [MCNext]_<<parserVars, stringVars>> => [StringStep]_stringVars
  BY DEF MCNext
<1> QED
  BY <1>1, <1>2, <1>3, PTL DEF MCSpec, ParserSpec, StringSpec

\* The parser and the string keep their types together, for descriptors and
\* strings of any length.
THEOREM MCTypeCorrect == MCSpec => []MCTypeOK
<1>1. ParserTypeOK /\ StringTypeOK => MCTypeOK
  BY DEF MCTypeOK
<1> QED
  BY <1>1, MCImplementsParts, ParserTypeCorrect, StringTypeCorrect, PTL

=============================================================================
