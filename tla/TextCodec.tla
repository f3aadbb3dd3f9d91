----------------------------- MODULE TextCodec -----------------------------
(***************************************************************************)
(* The UTF-8 codec of the SDK (textEncoding.ts): the encoder, and the two  *)
(* decoders, decodeUtf8 ("perByte": API answers and JWT claims) and        *)
(* decodeUtf8MaximalSubpart ("maximal": protobuf strings on Hermes), with  *)
(* and without `fatal'.  A run decodes a sequence of bytes, or encodes a   *)
(* text first.  Texts are sequences of UTF-16 code units when encoded and  *)
(* of code points when decoded.                                            *)
(*                                                                         *)
(* Standard is what they are compared with: it knows the code points that  *)
(* have a UTF-8 form and nothing of leading bytes and windows.             *)
(***************************************************************************)
EXTENDS Integers, Sequences, FiniteSetsExt, SequencesExt

CONSTANTS
  Inputs,    (* byte sequences to decode                                   *)
  Texts      (* sequences of code units to encode and decode               *)

Bytes == 0 .. 255
Units == 0 .. 65535

ASSUME CodecAssumption == Inputs \subseteq Seq(Bytes) /\ Texts \subseteq Seq(Units)

REPLACEMENT == 65533
NoText == <<>>

VARIABLES
  decoder,   (* "perByte", "maximal"                                       *)
  fatal,     (* an ill-formed byte throws                                  *)
  text,      (* what was encoded, NoText for bytes from the wire           *)
  encoder,   (* "pending", "none", "done"                                  *)
  bytes,
  i,         (* the byte the loop is at                                    *)
  out,       (* the code points so far                                     *)
  ended      (* "no", "returned", "threw"                                  *)

codecVars == <<decoder, fatal, text, encoder, bytes, i, out, ended>>

CodecInit ==
  /\ decoder \in {"perByte", "maximal"} /\ fatal \in BOOLEAN
  /\ \/ bytes \in Inputs /\ text = NoText /\ encoder = "none"
     \/ text \in Texts /\ bytes = <<>> /\ encoder = "pending"
  /\ i = 1 /\ out = <<>> /\ ended = "no"

-----------------------------------------------------------------------------
(* Encoding.                                                               *)

IsHigh(u) == u \in 55296 .. 56319
IsLow(u)  == u \in 56320 .. 57343

Pair(high, low) == 65536 + (high - 55296) * 1024 + (low - 56320)

(* A unit is the second of a pair if a high one precedes it; high and low  *)
(* are disjoint, so looking one unit back is enough.                       *)
EndsPair(t, k)   == k > 1 /\ IsHigh(t[k - 1]) /\ IsLow(t[k])
StartsPair(t, k) == k < Len(t) /\ IsHigh(t[k]) /\ IsLow(t[k + 1])

Lone(t, k) ==
  (IsHigh(t[k]) \/ IsLow(t[k])) /\ ~EndsPair(t, k) /\ ~StartsPair(t, k)

(* withLoneSurrogatesReplaced, then what encodeURIComponent reads: one code *)
(* point per unit or pair.                                                  *)
CodePoints(t) ==
  LET point(k) == CASE EndsPair(t, k)   -> <<>>
                    [] StartsPair(t, k) -> <<Pair(t[k], t[k + 1])>>
                    [] Lone(t, k)       -> <<REPLACEMENT>>
                    [] OTHER            -> <<t[k]>>
  IN  FlattenSeq([k \in DOMAIN t |-> point(k)])

(* The bytes of one code point (encodeURIComponent, less its %XX). *)
Encoded(cp) ==
  IF cp < 128 THEN <<cp>>
  ELSE IF cp < 2048 THEN <<192 + (cp \div 64), 128 + (cp % 64)>>
  ELSE IF cp < 65536
  THEN <<224 + (cp \div 4096), 128 + ((cp \div 64) % 64), 128 + (cp % 64)>>
  ELSE <<240 + (cp \div 262144), 128 + ((cp \div 4096) % 64),
         128 + ((cp \div 64) % 64), 128 + (cp % 64)>>

EncodeUtf8(t) ==
  LET points == CodePoints(t)
  IN  FlattenSeq([k \in DOMAIN points |-> Encoded(points[k])])

Encode ==
  /\ encoder = "pending"
  /\ encoder' = "done"
  /\ bytes' = EncodeUtf8(text)
  /\ UNCHANGED <<decoder, fatal, text, i, out, ended>>

-----------------------------------------------------------------------------
(* Decoding: one iteration of the loop is one step.                        *)

(* The bits of a leading byte of a sequence of n, then six of each other. *)
LeadBits(b, n) == CASE n = 1 -> b [] n = 2 -> b % 32
                    [] n = 3 -> b % 16 [] n = 4 -> b % 8
Value(s, n) ==
  LET lead == LeadBits(s[1], n)
      shifted(cp, k) == cp * 64 + (s[k] % 64)
  IN  CASE n = 1 -> lead
        [] n = 2 -> shifted(lead, 2)
        [] n = 3 -> shifted(shifted(lead, 2), 3)
        [] n = 4 -> shifted(shifted(shifted(lead, 2), 3), 4)

(* decodeUtf8: the length the leading byte asks for, 0 if it asks for none. *)
LengthPerByte(b) ==
  CASE b < 128 -> 1
    [] b \in 128 .. 193 -> 0
    [] b \in 194 .. 223 -> 2
    [] b \in 224 .. 239 -> 3
    [] b \in 240 .. 247 -> 4
    [] b > 247 -> 0

(* The least code point that needs n bytes. *)
Least == <<0, 128, 2048, 65536>>

Rejected(cp, n) ==
  \/ cp < Least[n]
  \/ cp > 1114111
  \/ cp \in 55296 .. 57343

Continuation == 128 .. 191

(* Mutant of Standing: the window is not reset after the first byte. *)
StandingInWindow(n, window) ==
  LET stands(k) == i + k <= Len(bytes) /\ bytes[i + k] \in window
  IN  Max({m \in 1 .. n : \A k \in 1 .. m - 1 : stands(k)})

(* How many of the n bytes from i are there and may stand there, if the    *)
(* second has to fall in `window'.                                         *)
Standing(n, window) ==
  LET stands(k) == /\ i + k <= Len(bytes)
                   /\ bytes[i + k] \in (IF k = 1 THEN window ELSE Continuation)
  IN  Max({m \in 1 .. n : \A k \in 1 .. m - 1 : stands(k)})

(* An iteration either takes the n bytes of a code point or replaces some. *)
Take(n) == [length |-> n, ok |-> TRUE]
Replace(n) == [length |-> n, ok |-> FALSE]

PerByte ==
  LET n == LengthPerByte(bytes[i])
      whole == n > 0 /\ Standing(n, Continuation) = n
  IN  IF whole /\ ~Rejected(Value(SubSeq(bytes, i, i + n - 1), n), n)
      THEN Take(n) ELSE Replace(1)

(* decodeUtf8MaximalSubpart: its leading bytes, and the window the first   *)
(* continuation byte has to fall in.                                       *)
LengthMaximal(b) ==
  CASE b < 128 -> 1
    [] b \in 194 .. 223 -> 2
    [] b \in 224 .. 239 -> 3
    [] b \in 240 .. 244 -> 4
    [] OTHER -> 0

Window(lead) ==
  CASE lead = 224 -> 160 .. 191
    [] lead = 237 -> 128 .. 159
    [] lead = 240 -> 144 .. 191
    [] lead = 244 -> 128 .. 143
    [] OTHER      -> Continuation

Maximal ==
  LET n == LengthMaximal(bytes[i])
  IN  IF n = 0 THEN Replace(1)
      ELSE LET subpart == Standing(n, Window(bytes[i]))
           IN  IF subpart = n THEN Take(n) ELSE Replace(subpart)

DecodeNext ==
  LET next == IF decoder = "perByte" THEN PerByte ELSE Maximal
  IN  /\ encoder # "pending" /\ ended = "no" /\ i <= Len(bytes)
      /\ IF next.ok
         THEN /\ out' = Append(out, Value(SubSeq(bytes, i, i + next.length - 1),
                                          next.length))
              /\ i' = i + next.length /\ UNCHANGED ended
         ELSE IF fatal
         THEN ended' = "threw" /\ UNCHANGED <<i, out>>
         ELSE /\ out' = Append(out, REPLACEMENT)
              /\ i' = i + next.length /\ UNCHANGED ended
      /\ UNCHANGED <<decoder, fatal, text, encoder, bytes>>

Return ==
  /\ encoder # "pending" /\ ended = "no" /\ i > Len(bytes)
  /\ ended' = "returned"
  /\ UNCHANGED <<decoder, fatal, text, encoder, bytes, i, out>>

CodecNext == Encode \/ DecodeNext \/ Return

CodecSpec == CodecInit /\ [][CodecNext]_codecVars

-----------------------------------------------------------------------------
(* The reference: Unicode, "U+FFFD substitution of maximal subparts".      *)

(* The scalar values, by the length of their UTF-8 form. *)
Scalars(n) ==
  CASE n = 1 -> {<<0, 127>>}
    [] n = 2 -> {<<128, 2047>>}
    [] n = 3 -> {<<2048, 55295>>, <<57344, 65535>>}
    [] n = 4 -> {<<65536, 1114111>>}

(* Some scalar value of n bytes has a form that begins with s: completing  *)
(* s with the least and the greatest continuation bytes spans the values   *)
(* that are left, and these meet the scalars.                              *)
Begins(s, n) ==
  LET pad(b) == Value(s \o [k \in 1 .. n - Len(s) |-> b], n)
      leads  == CASE n = 1 -> 0 .. 127 [] n = 2 -> 192 .. 223
                  [] n = 3 -> 224 .. 239 [] n = 4 -> 240 .. 247
  IN  /\ Len(s) <= n /\ s[1] \in leads
      /\ \A k \in 2 .. Len(s) : s[k] \in 128 .. 191
      /\ \E r \in Scalars(n) : r[1] <= pad(191) /\ pad(128) <= r[2]

(* What stands at position p of b: a code point, or the maximal subpart. *)
WellFormedAt(b, p) ==
  {n \in 1 .. 4 : p + n - 1 <= Len(b) /\ Begins(SubSeq(b, p, p + n - 1), n)}
SubpartAt(b, p) ==
  Max({1} \cup {m \in 1 .. 3 : /\ p + m - 1 <= Len(b)
                               /\ \E n \in 1 .. 4 :
                                    Begins(SubSeq(b, p, p + m - 1), n)})

(* How many bytes that is, and what it reads as: one U+FFFD for a maximal  *)
(* subpart, or for each byte of it.                                        *)
LengthAt(b, p) ==
  IF WellFormedAt(b, p) # {} THEN Max(WellFormedAt(b, p)) ELSE SubpartAt(b, p)
PointsAt(b, d, p) ==
  IF WellFormedAt(b, p) # {}
  THEN <<Value(SubSeq(b, p, p + LengthAt(b, p) - 1), LengthAt(b, p))>>
  ELSE [k \in 1 .. (IF d = "maximal" THEN 1 ELSE SubpartAt(b, p)) |-> REPLACEMENT]

(* From position p on: the code points that decoder d should return, and   *)
(* whether there is an ill-formed byte.                                    *)
StandardFrom(b, d) ==
  LET from[p \in 1 .. Len(b) + 1] ==
        IF p > Len(b) THEN <<>> ELSE PointsAt(b, d, p) \o from[p + LengthAt(b, p)]
  IN  from
IllFormedFrom(b) ==
  LET bad[p \in 1 .. Len(b) + 1] ==
        IF p > Len(b) THEN FALSE
        ELSE WellFormedAt(b, p) = {} \/ bad[p + LengthAt(b, p)]
  IN  bad

Standard == StandardFrom(bytes, decoder)[1]
IllFormed == IllFormedFrom(bytes)[1]

-----------------------------------------------------------------------------
(* decodeUtf8MaximalSubpart returns what "the Text Encoding API does": one *)
(* U+FFFD for each maximal subpart, and the byte that breaks a sequence is *)
(* read again.  decodeUtf8 replaces "every ill-formed byte with one        *)
(* U+FFFD" and differs in nothing else.  With `fatal' both throw on        *)
(* ill-formed bytes and on no others.                                      *)
Decodes ==
  ended # "no" =>
    IF fatal /\ IllFormed THEN ended = "threw"
    ELSE ended = "returned" /\ out = Standard

(* "checkUtf8 ... nothing was replaced": an encoded text decodes to itself *)
(* with each lone surrogate as U+FFFD, on either decoder, and never throws. *)
RoundTrips ==
  encoder = "done" /\ ended # "no" => ended = "returned" /\ out = CodePoints(text)

(* The codec is Unicode's in both directions: for ill-formed bytes, for     *)
(* sequences that are cut off and for lone surrogates.                      *)
CodecCorrect == Decodes /\ RoundTrips
=============================================================================
