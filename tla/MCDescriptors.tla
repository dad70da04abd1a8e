--------------------------- MODULE MCDescriptors ---------------------------
(* Inputs for ConfigParser and StringDescriptor; a state is about one of them. *)
EXTENDS ConfigParser, StringDescriptor, SequencesExt

CONSTANTS MaxBody, MaxUnits

MCValues == 1 .. 2

Intf(n, a, e) == [kind |-> "interface", good |-> TRUE, num |-> n, alt |-> a, endpoints |-> e]
Plain(kind) == [kind |-> kind, good |-> TRUE, num |-> 0, alt |-> 0, endpoints |-> 0]

Anything ==
  {Intf(n, a, e) : n, a, e \in 0 .. 1}
    \cup {Plain("endpoint"), Plain("other"), [Plain("other") EXCEPT !.good = FALSE]}

\* What longer configurations are made of.
Usual == {Intf(0, 0, 1), Intf(0, 1, 2), Intf(1, 0, 0), Plain("endpoint")}

MCBodies == SeqOf(Anything, MaxBody) \cup SeqOf(Usual, MaxBody + 2)

Conf(v, n, body) == [value |-> v, good |-> TRUE, bNumInterfaces |-> n, body |-> body]

\* Small ones, to have several of them.
MCSmall ==
  {Conf(v, n, b) : v \in MCValues, n \in 0 .. 1, b \in {<<>>, <<Intf(0, 0, 0)>>}}

MCDevices ==
  {<<Conf(1, n, b)>> : n \in 1 .. 2, b \in MCBodies} \cup SeqOf(MCSmall, 3)

\* One, two and three bytes, both ends of a length, and a pair.
MCUnits == {65, 127, 233, 2047, 8364, 55357, 56832}

MCTexts == SeqOf(MCUnits, MaxUnits)

\* Whole answers, and answers that are cut, padded, or no strings.
MCReplies ==
  {[got |-> 2 + 2 * Len(s), bLength |-> 2 + 2 * Len(s), string |-> TRUE, units |-> s] : s \in MCTexts}
  \cup {[got |-> g, bLength |-> b, string |-> t, units |-> <<65, 55357, 56832>>] :
          g \in 0 .. 8, b \in 0 .. 9, t \in BOOLEAN}

NoReply == [got |-> 0, bLength |-> 0, string |-> FALSE, units |-> <<65, 55357, 56832>>]

MCTypeOK == ParserTypeOK /\ StringTypeOK

MCInit ==
  \/ configs = <<>> /\ ParserInit /\ StringInit
  \/ reply = NoReply /\ room = 0 /\ StringInit /\ ParserInit

MCNext == (ParserStep /\ UNCHANGED stringVars) \/ (StringStep /\ UNCHANGED parserVars)

MCSpec == MCInit /\ [][MCNext]_<<parserVars, stringVars>>
=============================================================================
