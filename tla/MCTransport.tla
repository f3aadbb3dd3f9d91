---------------------------- MODULE MCTransport ----------------------------
(* Instances of TextCodec and UnaryCall for TLC: a behaviour decodes bytes, *)
(* encodes a text, or makes a call.                                         *)
EXTENDS UnaryCall, TextCodec

(* Every edge of the windows, and leading bytes on both sides of each. *)
Alphabet == {40, 128, 143, 144, 159, 160, 191, 193, 194,
             224, 230, 237, 240, 244, 245}
UpTo(n, S) == UNION {[1 .. k -> S] : k \in 0 .. n}
FourBytes  == {<<lead>> \o rest : lead \in {240, 244}, rest \in [1 .. 3 -> Alphabet]}
Sequences4 == UpTo(3, Alphabet) \cup FourBytes

(* Each length of the UTF-8 form, each edge of the surrogates. *)
Texts3 == UpTo(3, {65, 2047, 2048, 55296, 56319, 56320, 57343, 57344, 65535})

Alike(said) == [js |-> said, native |-> said]
Unsaid == Alike(Absent)

(* An empty status, and one in the HTTP/2 trailers. *)
Empty == [js |-> "ok", native |-> "garbage"]
Http2 == [js |-> Absent, native |-> "unavailable"]
Tells == {Alike(s) : s \in {Absent, "ok", "invalid", "garbage"}}

OneFrame(flag, status, length, readable) ==
  [flag |-> flag, status |-> status, length |-> length, readable |-> readable]
SomeMessages == {OneFrame("message", Unsaid, 2, readable) : readable \in BOOLEAN}
Trailer(status) == OneFrame("trailer", status, 16, TRUE)
Odd ==
  {OneFrame("trailer", Alike("ok"), 16, FALSE)}
    \cup {OneFrame("marked", Alike(s), 16, FALSE) : s \in {Absent, "invalid"}}
Trailers == {Trailer(s) : s \in Tells \cup {Empty}} \cup Odd
Bodies ==
  {<<m>> : m \in SomeMessages} \cup {<<e>> : e \in Trailers}
    \cup {<<m, e>> : m \in SomeMessages, e \in Trailers}
    \cup {<<Trailer(s), Trailer(t)>> : s, t \in {Unsaid, Alike("invalid")}}

Answer(http, grpc, header, body, arrived) ==
  [http |-> http, grpc |-> grpc, header |-> header, body |-> body,
   arrived |-> arrived]

Arriving(r, missing) == [r EXCEPT !.arrived = FrameEnd(r, Len(r.body)) - missing]

(* The gRPC answers, whole or cut by a byte, and every status on its own; *)
(* then those of a proxy, a portal or a gateway.                            *)
GrpcAnswers ==
  {Arriving(Answer(200, TRUE, header, body, 0), missing) :
     header \in Tells \cup {Http2}, body \in Bodies, missing \in {0, 1}}
  \cup {Answer(200, TRUE, header, <<>>, 0) :
          header \in {Alike(s) : s \in Said} \cup {Empty}}

(* A portal's page, a gateway that is down, a token refused by a proxy. *)
PlainAnswers ==
  {Answer(http, FALSE, Unsaid, <<>>, 0) : http \in {200, 401, 403, 404, 503}}
ErrorAnswers ==
  {Answer(http, TRUE, Alike(header), <<>>, 0) :
     http \in {401, 403, 404, 503}, header \in {Absent, "ok", "unauthenticated"}}
AllAnswers == GrpcAnswers \cup PlainAnswers \cup ErrorAnswers

(* A codec at rest beside a call, a call at rest beside a codec. *)
NoCodec ==
  /\ decoder = "maximal" /\ fatal = FALSE /\ text = NoText /\ encoder = "none"
  /\ bytes = <<>> /\ i = 1 /\ out = <<>> /\ ended = "returned"
NoCall ==
  /\ response = Answer(200, TRUE, Alike("ok"), <<>>, 0) /\ deaf = FALSE
  /\ fetch = "over" /\ signal = FALSE /\ timer = "cleared" /\ micro = <<>>
  /\ race = "ok" /\ result = "ok" /\ first = "none"

TransportInit == (CodecInit /\ NoCall) \/ (CallInit /\ NoCodec)
TransportNext ==
  (CodecNext /\ UNCHANGED callVars) \/ (CallNext /\ UNCHANGED codecVars)
TransportSpec ==
  TransportInit /\ [][TransportNext]_<<callVars, codecVars>> /\ CallFairness
=============================================================================
