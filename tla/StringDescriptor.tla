-------------------------- MODULE StringDescriptor --------------------------
(***************************************************************************)
(* libusby_get_string_descriptor_utf8 of src/src/libusby.c, from the bytes *)
(* of the descriptor on: one step is one UTF-16 code unit.                 *)
(***************************************************************************)
EXTENDS Integers, Sequences

CONSTANTS
  Replies,      \* what the device may answer
  Rooms         \* values of length, the size of the caller's buffer

CodeUnit == 0 .. 65535

\* got: bytes returned; bLength, string: the first two bytes of the answer;
\* units: the code units that follow.
Reply == [got : Nat, bLength : Nat, string : BOOLEAN, units : Seq(CodeUnit)]

\* The units are in the bytes returned.
ASSUME StringAssumption ==
  /\ Replies \subseteq Reply
  /\ \A r \in Replies : r.got <= 2 + 2 * Len(r.units) + 1
  /\ Rooms \subseteq Nat

VARIABLES
  reply, room,
  next,           \* code units translated
  high_surrogate, \* the high surrogate seen last, or 0
  encoded_len,    \* bytes written for the last character
  data,           \* the first data_len bytes of the buffer
  outcome,        \* pending, io or length
  overrun         \* the assertion of encode_utf8 has failed

stringVars == <<reply, room, next, high_surrogate, encoded_len, data, outcome, overrun>>

\* A byte of the buffer that is passed over.
Unwritten == -1

StringTypeOK ==
  /\ next \in 0 .. Len(reply.units)
  /\ high_surrogate \in {0} \cup 55296 .. 56319
  /\ encoded_len \in 0 .. 4
  /\ data \in Seq({Unwritten} \cup 0 .. 255)
  /\ outcome \in {"pending", "io", "length"}
  /\ overrun \in BOOLEAN

-----------------------------------------------------------------------------
(* encode_utf8                                                             *)

Tail6(cp, shift) == 128 + ((cp \div shift) % 64)

CodeBytes(cp) ==
  IF cp < 127 THEN <<cp>>
  ELSE IF cp < 2047 THEN <<192 + cp \div 64, Tail6(cp, 1)>>
  ELSE IF cp < 65535 THEN <<224 + cp \div 4096, Tail6(cp, 64), Tail6(cp, 1)>>
  ELSE <<240 + cp \div 262144, Tail6(cp, 4096), Tail6(cp, 64), Tail6(cp, 1)>>

\* Mutant: a character is written although its end does not fit.
EncodeWhole(cp, n) == CodeBytes(cp)

\* What does not fit is left out, apart from the first byte.
Encode(cp, n) ==
  LET s == CodeBytes(cp) IN SubSeq(s, 1, IF n < Len(s) THEN n ELSE Len(s))

-----------------------------------------------------------------------------
(* The loop.                                                               *)

Available == IF reply.got > reply.bLength THEN reply.bLength ELSE reply.got

HeaderIsBad == reply.got < 2 \/ ~reply.string \/ Available % 2 # 0

\* i < r
HasMore == 2 + 2 * next < Available

IsLow(cu) == 56320 <= cu /\ cu < 57344
IsHigh(cu) == 55296 <= cu /\ cu < 56320

\* The unit cannot follow what came before.
IsUnpaired(cu) == IsLow(cu) <=> high_surrogate = 0

\* The code point a unit completes.
CodePoint(cu) ==
  IF IsLow(cu) THEN (high_surrogate - 55296) * 1024 + (cu - 56320) ELSE cu

End(o) == outcome' = o /\ UNCHANGED <<next, high_surrogate, encoded_len, data, overrun>>

BadHeader == outcome = "pending" /\ next = 0 /\ HeaderIsBad /\ End("io")

\* Translating goes on: the length compared is that of the last character.
Translating == outcome = "pending" /\ ~overrun /\ ~HeaderIsBad /\ encoded_len < room /\ HasMore

Unit == reply.units[next + 1]

Unpaired == Translating /\ IsUnpaired(Unit) /\ End("io")

\* Nothing is written, but data_len grows by encoded_len all the same.
HighSurrogate ==
  /\ Translating /\ ~IsUnpaired(Unit) /\ IsHigh(Unit)
  /\ high_surrogate' = Unit
  /\ data' = data \o [k \in 1 .. encoded_len |-> Unwritten]
  /\ next' = next + 1
  /\ UNCHANGED <<encoded_len, outcome, overrun>>

\* A character is complete; without room for it the assertion fails.
Character ==
  /\ Translating /\ ~IsUnpaired(Unit) /\ ~IsHigh(Unit)
  /\ \/ /\ room > Len(data)
        /\ LET s == Encode(CodePoint(Unit), room - Len(data))
           IN  data' = data \o s /\ encoded_len' = Len(s)
        /\ high_surrogate' = 0
        /\ next' = next + 1
        /\ UNCHANGED overrun
     \/ /\ room <= Len(data)
        /\ overrun' = TRUE
        /\ UNCHANGED <<data, encoded_len, high_surrogate, next>>
  /\ UNCHANGED outcome

\* Mutant: a string may end in the middle of a pair.
EndsInPairNever == FALSE

\* i == r && high_surrogate
EndsInPair == ~HasMore /\ high_surrogate # 0

Finished ==
  /\ outcome = "pending" /\ ~overrun /\ ~HeaderIsBad /\ ~Translating
  /\ End(IF EndsInPair THEN "io" ELSE "length")

StringInit ==
  /\ reply \in Replies
  /\ room \in Rooms
  /\ next = 0
  /\ high_surrogate = 0
  /\ encoded_len = 0
  /\ data = <<>>
  /\ outcome = "pending"
  /\ overrun = FALSE

StringStep ==
  /\ BadHeader \/ Unpaired \/ HighSurrogate \/ Character \/ Finished
  /\ UNCHANGED <<reply, room>>

StringSpec == StringInit /\ [][StringStep]_stringVars

-----------------------------------------------------------------------------
(* UTF-16 and UTF-8, stated without the loop.                              *)

Units == SubSeq(reply.units, 1, (Available - 2) \div 2)

\* Every surrogate is half of a pair.
IsUtf16(s) ==
  \A i \in DOMAIN s :
    /\ IsHigh(s[i]) => i < Len(s) /\ IsLow(s[i + 1])
    /\ IsLow(s[i]) => i > 1 /\ IsHigh(s[i - 1])

\* UTF-8 of a code point of the Basic Multilingual Plane.
Utf8(cp) ==
  IF cp <= 127 THEN <<cp>>
  ELSE IF cp <= 2047 THEN <<192 + (cp \div 64), 128 + (cp % 64)>>
  ELSE <<224 + (cp \div 4096), 128 + ((cp \div 64) % 64), 128 + (cp % 64)>>

\* The UTF-8 of the first n units of s, for every n.
Utf8Text(s) ==
  LET text[n \in 0 .. Len(s)] == IF n = 0 THEN <<>> ELSE text[n - 1] \o Utf8(s[n])
  IN  text

\* Text the code translates as the standards say: no surrogates, for which it
\* forgets to add 16#10000# and passes over bytes, and not the last code point
\* of a length, which it encodes as the next longer one.
IsPlain(s) ==
  \A i \in DOMAIN s : ~IsLow(s[i]) /\ ~IsHigh(s[i]) /\ s[i] \notin {127, 2047, 65535}

-----------------------------------------------------------------------------
(* Properties.                                                             *)

\* assert(length > 0) of encode_utf8: there is room for a byte.
EncodeHasRoom == ~overrun

\* No byte is written beyond the buffer however characters and its end fall,
\* and no more are returned than it has; bytes of it are passed over only for
\* surrogates; and for text without them the bytes returned are its UTF-8, cut
\* at the end.
PlainTextIsRight ==
  /\ \A k \in DOMAIN data : data[k] # Unwritten => k <= room
  /\ outcome = "length" => Len(data) <= room
  /\ Unwritten \in {data[k] : k \in DOMAIN data} => \E k \in 1 .. next : IsHigh(reply.units[k])
  /\ outcome = "length" /\ IsPlain(Units) =>
       LET s == Utf8Text(Units)[Len(Units)]
       IN  data = SubSeq(s, 1, IF room < Len(s) THEN room ELSE Len(s))

\* A string is refused if and only if its surrogates are not paired, as far
\* as it was looked at.
RefusesUnpaired ==
  /\ outcome = "io" /\ ~HeaderIsBad => ~IsUtf16(Units)
  /\ outcome = "length" /\ ~HasMore => IsUtf16(Units)

=============================================================================
