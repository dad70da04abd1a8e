---------------------------- MODULE ConfigParser ----------------------------
(***************************************************************************)
(* libusby_get_config_descriptor_by_value of src/src/libusby.c: configu-   *)
(* ration descriptors are read one after the other, each is turned into a  *)
(* tree of interfaces, alternate settings and endpoints by                 *)
(* usbyi_sanitize_config_descriptor, and those not asked for are freed.    *)
(* One step is one descriptor of the configuration.                        *)
(***************************************************************************)
EXTENDS Integers, Sequences, FiniteSets

CONSTANTS
  Devices,      \* sequences of configurations to look at
  Values,       \* values of bConfigurationValue
  AllocFails,   \* whether malloc and realloc can return NULL
  ReadFails     \* whether a descriptor can fail to be read, or be cut short

\* A descriptor inside a configuration.  good: it ends within the bytes read
\* and bLength is what its type requires.  num, alt, endpoints: of an
\* interface descriptor, bInterfaceNumber, bAlternateSetting, bNumEndpoints.
Descriptor == [kind : {"interface", "endpoint", "other"}, good : BOOLEAN,
               num : Nat, alt : Nat, endpoints : Nat]

\* A configuration; good: its first nine bytes are there and well formed.
Config == [value : Values, good : BOOLEAN, bNumInterfaces : Nat, body : Seq(Descriptor)]

ASSUME ParserAssumption ==
  /\ Devices \subseteq Seq(Config)
  /\ AllocFails \in BOOLEAN
  /\ ReadFails \in BOOLEAN

VARIABLES
  configs,      \* the device's configurations
  wanted,       \* config_value
  index,        \* i of the loop over configurations
  raw,          \* the configuration as it was read
  pos,          \* descriptors of raw.body the parser has passed
  interface,    \* res->interface: the altsettings parsed, per number
  current,      \* intf_desc, as interface number and altsetting
  stored,       \* endp_desc_index
  heap,         \* memory allocated and not freed
  phase, result,
  faults,       \* whether an allocation or a read has failed
  crash         \* memory of the process was corrupted

requestVars == <<configs, wanted>>
treeVars    == <<interface, current, stored>>
parserVars  == <<requestVars, index, raw, pos, treeVars, heap, phase, result,
                 faults, crash>>

None == <<>>
NoConfig == [value |-> 0, good |-> FALSE, bNumInterfaces |-> 0, body |-> <<>>]

Phases == {"fetch", "begin", "parse", "compare", "done"}
Results == {"pending", "success", "io", "no_mem", "not_found"}

Numbers == 0 .. raw.bNumInterfaces - 1

ParserTypeOK ==
  /\ raw.body \in Seq(Descriptor)
  /\ index \in 0 .. Len(configs)
  /\ pos \in 0 .. Len(raw.body)
  /\ \A n \in DOMAIN interface : interface[n] \in Seq(Nat)
  /\ \/ current = None
     \/ current[1] \in DOMAIN interface /\ current[2] < Len(interface[current[1]])
  /\ stored \in Nat
  /\ phase \in Phases
  /\ result \in Results
  /\ faults \in BOOLEAN
  /\ crash \in BOOLEAN

-----------------------------------------------------------------------------
(* Memory.                                                                 *)

AltsettingsOf(n) == <<"altsettings", n>>
EndpointsOf(n, a) == <<"endpoints", n, a>>

\* Mutant: the endpoints of the altsettings are not freed.
FreeConfigShallow(h) ==
  h \ ({<<"config">>, <<"interfaces">>} \cup {AltsettingsOf(n) : n \in DOMAIN interface})

\* What libusby_free_config_descriptor leaves.
FreeConfig(h) ==
  h \ ({<<"config">>, <<"interfaces">>}
        \cup {AltsettingsOf(n) : n \in DOMAIN interface}
        \cup UNION {{EndpointsOf(n, a) : a \in 0 .. Len(interface[n]) - 1} :
                      n \in DOMAIN interface})

Finish(r, h) == phase' = "done" /\ result' = r /\ heap' = h

\* The error exit of the parser, and the caller that frees the bytes.
Reject == Finish("io", FreeConfig(heap) \ {<<"raw">>}) /\ UNCHANGED <<treeVars, pos>>

\* A failed allocation in the parser takes the same exit.
RejectNoMem == AllocFails /\ Reject /\ faults' = TRUE

-----------------------------------------------------------------------------
(* libusby_get_config_descriptor                                           *)

CutAt(c, k) == [c EXCEPT !.body = SubSeq(@, 1, k)]

\* All of the configuration, or less: cut between two descriptors, inside one,
\* or inside the first nine bytes.
MayRead(c) ==
  {c} \cup (IF ~ReadFails THEN {} ELSE
              {CutAt(c, k) : k \in 0 .. Len(c.body)}
              \cup {[CutAt(c, k) EXCEPT !.body[k].good = FALSE] : k \in DOMAIN c.body}
              \cup {[CutAt(c, 0) EXCEPT !.good = FALSE]})

Fetch ==
  /\ phase = "fetch" /\ index < Len(configs)
  /\ raw' \in MayRead(configs[index + 1])
  /\ pos' = 0
  /\ interface' = <<>> /\ current' = None /\ stored' = 0
  /\ heap' = heap \cup {<<"raw">>}
  /\ phase' = "begin"
  /\ faults' = (faults \/ raw' # configs[index + 1])
  /\ UNCHANGED <<requestVars, index, result, crash>>

\* One of the two reads fails, or the allocation between them.
FetchFails ==
  /\ phase = "fetch" /\ index < Len(configs)
  /\ \/ ReadFails /\ Finish("io", heap)
     \/ AllocFails /\ Finish("no_mem", heap)
  /\ faults' = TRUE
  /\ UNCHANGED <<requestVars, index, raw, pos, treeVars, crash>>

-----------------------------------------------------------------------------
(* usbyi_sanitize_config_descriptor                                        *)

\* The first nine bytes, and the array of interfaces.
Begin ==
  /\ phase = "begin"
  /\ \/ /\ raw.good
        /\ interface' = [n \in Numbers |-> <<>>]
        /\ heap' = heap \cup {<<"config">>, <<"interfaces">>}
        /\ phase' = "parse"
        /\ UNCHANGED <<pos, current, stored, result, faults>>
     \/ /\ ~raw.good
        /\ Reject
        /\ UNCHANGED faults
     \/ /\ raw.good /\ AllocFails
        /\ Finish("no_mem", heap \ {<<"raw">>})
        /\ faults' = TRUE
        /\ UNCHANGED <<pos, treeVars>>
     \/ /\ raw.good
        /\ RejectNoMem
  /\ UNCHANGED <<requestVars, index, raw, crash>>

Upcoming == raw.body[pos + 1]

\* The parser looks at a descriptor of the given kind.
At(kind) ==
  /\ phase = "parse" /\ pos < Len(raw.body) /\ Upcoming.good /\ Upcoming.kind = kind
  /\ UNCHANGED <<requestVars, index, raw>>

\* Mutant: an altsetting may lack endpoints.
CurrentIsFullNever == TRUE

\* The altsetting being filled has all its endpoints.
CurrentIsFull ==
  current # None => stored = interface[current[1]][current[2] + 1]

\* A known interface, and its altsettings in order.
IsNextAltsetting(d) ==
  d.num < raw.bNumInterfaces /\ d.alt = Len(interface[d.num])

\* Mutant: the endpoints of the last altsetting go on being counted.
FirstEndpointStale == stored

FirstEndpoint == 0

ParseInterface ==
  LET d == Upcoming
      ok == CurrentIsFull /\ IsNextAltsetting(d)
  IN  /\ At("interface")
      /\ \/ /\ ok
            /\ interface' = [interface EXCEPT ![d.num] = Append(@, d.endpoints)]
            /\ current' = <<d.num, d.alt>>
            /\ stored' = FirstEndpoint
            /\ heap' = heap \cup {AltsettingsOf(d.num), EndpointsOf(d.num, d.alt)}
            /\ pos' = pos + 1
            /\ UNCHANGED <<phase, result, faults>>
         \/ ~ok /\ Reject /\ UNCHANGED faults
         \/ ok /\ RejectNoMem
      /\ UNCHANGED crash

\* Neither the presence of an altsetting nor the room in it is looked at.
ParseEndpoint ==
  /\ At("endpoint")
  /\ crash' = (current = None \/ stored >= interface[current[1]][current[2] + 1])
  /\ stored' = stored + 1
  /\ pos' = pos + 1
  /\ UNCHANGED <<interface, current, heap, phase, result, faults>>

ParseOther ==
  /\ At("other")
  /\ pos' = pos + 1
  /\ UNCHANGED <<treeVars, heap, phase, result, faults, crash>>

\* A descriptor that is too short, too long, or of the wrong length.
ParseBad ==
  /\ phase = "parse" /\ pos < Len(raw.body) /\ ~Upcoming.good
  /\ Reject
  /\ UNCHANGED <<requestVars, index, raw, faults, crash>>

\* The end of the bytes: every interface has an altsetting.
ParseEnd ==
  /\ phase = "parse" /\ pos = Len(raw.body)
  /\ \/ /\ CurrentIsFull /\ \A n \in Numbers : interface[n] # <<>>
        /\ phase' = "compare"
        /\ heap' = heap \ {<<"raw">>}
        /\ UNCHANGED <<pos, treeVars, result>>
     \/ /\ ~(CurrentIsFull /\ \A n \in Numbers : interface[n] # <<>>)
        /\ Reject
  /\ UNCHANGED <<requestVars, index, raw, faults, crash>>

-----------------------------------------------------------------------------
(* libusby_get_config_descriptor_by_value                                  *)

IsWanted == raw.value = wanted

Compare ==
  /\ phase = "compare"
  /\ \/ /\ IsWanted
        /\ Finish("success", heap)
        /\ UNCHANGED index
     \/ /\ ~IsWanted
        /\ index' = index + 1
        /\ heap' = FreeConfig(heap)
        /\ phase' = "fetch"
        /\ UNCHANGED result
  /\ UNCHANGED <<requestVars, raw, pos, treeVars, faults, crash>>

NotFound ==
  /\ phase = "fetch" /\ index = Len(configs)
  /\ Finish("not_found", heap)
  /\ UNCHANGED <<requestVars, index, raw, pos, treeVars, faults, crash>>

ParserInit ==
  /\ configs \in Devices
  /\ wanted \in Values
  /\ index = 0
  /\ raw = NoConfig
  /\ pos = 0
  /\ interface = <<>>
  /\ current = None
  /\ stored = 0
  /\ heap = {}
  /\ phase = "fetch"
  /\ result = "pending"
  /\ faults = FALSE
  /\ crash = FALSE

ParserStep ==
  /\ ~crash
  /\ \/ Fetch \/ FetchFails \/ Begin
     \/ ParseInterface \/ ParseEndpoint \/ ParseOther \/ ParseBad \/ ParseEnd
     \/ Compare \/ NotFound

ParserSpec ==
  ParserInit /\ [][ParserStep]_parserVars

-----------------------------------------------------------------------------
(* What a configuration means, stated without the parser.                  *)

Body(c, kind) == {k \in DOMAIN c.body : c.body[k].kind = kind}

\* The interface descriptor an endpoint descriptor belongs to, 0 if none.
OwnerOf(c, k) ==
  LET before == {j \in Body(c, "interface") : j < k}
  IN  IF before = {} THEN 0 ELSE CHOOSE j \in before : \A i \in before : i <= j

EndpointsBelow(c, j) == {k \in Body(c, "endpoint") : OwnerOf(c, k) = j}

\* The interface descriptors of one interface before position k.
Siblings(c, n, k) == {j \in Body(c, "interface") : j < k /\ c.body[j].num = n}

WellFormed(c) ==
  /\ c.good /\ \A k \in DOMAIN c.body : c.body[k].good
  /\ EndpointsBelow(c, 0) = {}
  /\ \A j \in Body(c, "interface") :
       /\ c.body[j].num < c.bNumInterfaces
       /\ c.body[j].alt = Cardinality(Siblings(c, c.body[j].num, j))
       /\ c.body[j].endpoints = Cardinality(EndpointsBelow(c, j))
  /\ \A n \in 0 .. c.bNumInterfaces - 1 : Siblings(c, n, Len(c.body) + 1) # {}

\* An endpoint descriptor stands before all interfaces, or is one too many.
HasStrayEndpoint(c) ==
  \/ EndpointsBelow(c, 0) # {}
  \/ \E j \in Body(c, "interface") :
       Cardinality(EndpointsBelow(c, j)) > c.body[j].endpoints

-----------------------------------------------------------------------------
(* Properties.                                                             *)

\* The parser accepts exactly the well formed configurations, whatever the
\* order of interfaces, altsettings and endpoints, and its tree has every
\* altsetting in its place with its endpoints; an error it reports is a
\* malformed configuration, or a failed allocation or read.
ParsesExactly ==
  /\ phase = "compare" =>
       /\ WellFormed(raw)
       /\ \A j \in Body(raw, "interface") :
            interface[raw.body[j].num][raw.body[j].alt + 1] = Cardinality(EndpointsBelow(raw, j))
  /\ result = "io" /\ ~faults => ~WellFormed(raw)

\* Memory is corrupted by stray endpoint descriptors and by nothing else.
OnlyStraysCorrupt == crash => HasStrayEndpoint(raw)

\* Every exit, the successful one and each error exit at whatever point of
\* whatever configuration, leaves exactly the memory of the descriptor it
\* returns; and that is the first one with the value asked for.
NothingLeaks ==
  phase = "done" =>
    IF result = "success"
    THEN /\ heap # {} /\ FreeConfig(heap) = {}
         /\ configs[index + 1].value = wanted
         /\ \A i \in 1 .. index : configs[i].value # wanted
    ELSE heap = {}

=============================================================================
