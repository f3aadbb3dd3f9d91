----------------------------- MODULE UnaryCall -----------------------------
(***************************************************************************)
(* One unary call of the JS transport (api/transport.ts) that reports a    *)
(* batch of the outbox, and what its answer is taken for: by the JS        *)
(* flusher (the transport, then outcomeOf of reportOutbox.ts) and by the   *)
(* Android uploader (ReportWire.kt; ReportWire.swift has the same rules).  *)
(*                                                                         *)
(* The call races the interceptor chain against the deadline and the       *)
(* caller's AbortSignal.  JavaScript runs to completion, so what can       *)
(* interleave are the events of the host and the microtasks they queue.    *)
(* `micro' is that queue; the outcome of the chain passes through the      *)
(* promises of the interceptors before Promise.race sees it.               *)
(***************************************************************************)
EXTENDS Integers, Sequences, SequencesExt

CONSTANTS
  Responses,   (* the answers the network may give                         *)
  Deaf         (* whether fetch may ignore the abort signal                *)

(* grpc-status: absent, a class of codes, or no number. *)
Absent == "absent"
Codes  == {"ok", "invalid", "denied", "unavailable", "unauthenticated", "garbage"}
Said   == Codes \cup {Absent}

(* What JS and native each make of the status at one place.  Number('') is *)
(* 0, toIntOrNull of it nothing; "5.0" is a number in JS only; a bare CR   *)
(* ends a line natively only; fetch does not show an HTTP/2 trailer, which *)
(* native reads as the header.                                             *)
Status == [js : Said, native : Said]

(* JS reads a length as a signed integer of 32 bits. *)
MaxLength == 2147483647

(* A frame of a gRPC-web body.  A "trailer" has the flag 0x80; a "marked"  *)
(* one has that bit and others, which JS takes for a message and native    *)
(* for a trailer.  A frame is readable if its data decode as the response  *)
(* message, or its names can name headers.                                 *)
Frame ==
  [flag : {"message", "trailer", "marked"}, status : Status,
   length : 0 .. MaxLength, readable : BOOLEAN]

(* A body that is not gRPC-web has no frames: its first five characters    *)
(* read as the header of a frame longer than the body.                     *)
Response ==
  [http : {200, 401, 403, 404, 503}, grpc : BOOLEAN, header : Status,
   body : Seq(Frame), arrived : Nat]

ASSUME CallAssumption == Responses \subseteq Response /\ Deaf \subseteq BOOLEAN

Open == "open"
Readings == Codes \cup {"undecodable"}
Results == Readings \cup {"deadline", "canceled", "network", "abort"}
Places  == {"invoke", "passthrough", "auth", "race", "call"}

VARIABLES
  response,   (* what the network will answer, if it does                  *)
  deaf,       (* this fetch ignores the signal                             *)
  fetch,      (* "unsent", "pending", "body", "over"                       *)
  signal,     (* the caller's signal is aborted                            *)
  timer,      (* "unset", "armed", "fired", "cleared"                      *)
  micro,      (* the microtasks, in order                                  *)
  race,       (* Open, or what Promise.race settled with                   *)
  result,     (* Open, or what the call settled with                       *)
  first       (* history: which came first, the deadline or the caller     *)

callVars == <<response, deaf, fetch, signal, timer, micro, race, result, first>>

CallInit ==
  /\ response \in Responses /\ deaf \in Deaf
  /\ fetch = "unsent"
  /\ signal \in BOOLEAN
  /\ timer = "unset"
  /\ micro = <<>>
  /\ race = Open /\ result = Open
  /\ first = IF signal THEN "caller" ELSE "none"

-----------------------------------------------------------------------------
(* Reading a response.                                                     *)

HeaderSize == 5

(* Where frame j ends. *)
FrameEnd(r, j) ==
  FoldLeft(LAMBDA sum, f : sum + HeaderSize + f.length, 0, SubSeq(r.body, 1, j))

(* decodeEnvelopes: the frames that have arrived whole. *)
Whole(r) == {j \in DOMAIN r.body : FrameEnd(r, j) <= r.arrived}

Either(said, otherwise) == IF said # Absent THEN said ELSE otherwise

(* What a reader makes of the last status in the frames with these flags. *)
LastSaid(r, flags, reader) ==
  LET lines == {j \in Whole(r) : /\ r.body[j].flag \in flags
                                 /\ r.body[j].status[reader] # Absent}
  IN  IF lines = {} THEN Absent ELSE r.body[Max(lines)].status[reader]

(* Mutant of JsStatus: the grpc-status header is believed first. *)
HeaderFirst(r) == Either(r.header.js, Either(LastSaid(r, {"trailer"}, "js"), "ok"))

(* invoke(): trailer, then header, then the empty success.  The HTTP status *)
(* and the content type are not looked at.                                  *)
JsStatus(r) == Either(LastSaid(r, {"trailer"}, "js"), Either(r.header.js, "ok"))

(* fromBinary throws on the first message, or Headers on a trailer's name. *)
Undecodable(r) ==
  LET Messages == {j \in Whole(r) : r.body[j].flag # "trailer"}
  IN  \E j \in Whole(r) : /\ ~r.body[j].readable
                          /\ j \in Messages => \A k \in Messages : j <= k

ReadAnswer(r) ==
  IF JsStatus(r) = "ok" /\ Undecodable(r) THEN "undecodable" ELSE JsStatus(r)

(* ReportWire.grpcStatus: any frame with the bit 0x80 is a trailer, and a  *)
(* message is not looked at.                                               *)
NativeStatus(r) ==
  Either(LastSaid(r, {"trailer", "marked"}, "native"), Either(r.header.native, "ok"))

Refused == {"invalid", "denied"}

Verdict(code) ==
  CASE code = "ok"              -> "sent"
    [] code = "unauthenticated" -> "unauthenticated"
    [] code \in Refused         -> "dropped"
    [] OTHER                    -> "retry"

(* outcomeOf: what the flusher makes of the settled call; an error that is *)
(* no ConnectError is retried.                                             *)
OutcomeOf(settled) == Verdict(settled)

(* ReportWire.outcome, on the same answer. *)
NativeOutcome(r) ==
  CASE r.http = 401              -> "unauthenticated"
    [] r.http = 403              -> "dropped"
    [] r.http \in {404, 503}     -> "retry"
    [] r.http = 200 /\ ~r.grpc   -> "retry"
    [] r.http = 200 /\ r.grpc    -> Verdict(NativeStatus(r))

-----------------------------------------------------------------------------
(* The race.                                                               *)

Task(place, what) == [place |-> place, what |-> what]

(* controller.abort() rejects a fetch that listens and is still on its way. *)
Listening == ~deaf /\ fetch \in {"pending", "body"}
Aborted   == IF Listening THEN <<Task("invoke", "abort")>> ELSE <<>>
EndFetch  == fetch' = IF Listening THEN "over" ELSE fetch

(* unary(): the timer, the listener, and the chain down to fetch(); a      *)
(* signal that is aborted already has rejected `canceled' before that.     *)
Unary ==
  /\ fetch = "unsent"
  /\ timer' = "armed"
  /\ fetch' = IF signal /\ ~deaf THEN "over" ELSE "pending"
  /\ micro' = (IF signal /\ ~deaf THEN <<Task("invoke", "abort")>> ELSE <<>>)
              \o (IF signal THEN <<Task("race", "canceled")>> ELSE <<>>)
  /\ UNCHANGED <<response, deaf, signal, race, result, first>>

(* onCallerAbort, as long as `finally' has not removed the listener. *)
CallerAborts ==
  /\ fetch # "unsent" /\ ~signal /\ result = Open
  /\ signal' = TRUE
  /\ micro' = micro \o Aborted \o <<Task("race", "canceled")>>
  /\ EndFetch
  /\ first' = IF first = "none" THEN "caller" ELSE first
  /\ UNCHANGED <<response, deaf, timer, race, result>>

(* Mutant of TimerFires: the deadline only aborts the request. *)
TimerOnlyAborts ==
  /\ timer = "armed"
  /\ timer' = "fired"
  /\ micro' = micro \o Aborted
  /\ EndFetch
  /\ first' = IF first = "none" THEN "deadline" ELSE first
  /\ UNCHANGED <<response, deaf, signal, race, result>>

TimerFires ==
  /\ timer = "armed"
  /\ timer' = "fired"
  /\ micro' = micro \o Aborted \o <<Task("race", "deadline")>>
  /\ EndFetch
  /\ first' = IF first = "none" THEN "deadline" ELSE first
  /\ UNCHANGED <<response, deaf, signal, race, result>>

(* The headers are in: `await fetch' goes on to arrayBuffer(). *)
Headers ==
  /\ fetch = "pending" /\ micro = <<>>
  /\ fetch' = "body"
  /\ UNCHANGED <<response, deaf, signal, timer, micro, race, result, first>>

Body ==
  /\ fetch = "body" /\ micro = <<>>
  /\ fetch' = "over"
  /\ micro' = <<Task("invoke", ReadAnswer(response))>>
  /\ UNCHANGED <<response, deaf, signal, timer, race, result, first>>

NetworkFails ==
  /\ fetch \in {"pending", "body"} /\ micro = <<>>
  /\ fetch' = "over"
  /\ micro' = <<Task("invoke", "network")>>
  /\ UNCHANGED <<response, deaf, signal, timer, race, result, first>>

(* One promise on: invoke's, passthroughInterceptor's, authInterceptor's. *)
Hop ==
  LET task == Head(micro)
      on   == [invoke |-> "passthrough", passthrough |-> "auth", auth |-> "race"]
  IN  /\ micro # <<>> /\ task.place \in DOMAIN on
      /\ micro' = Append(Tail(micro), Task(on[task.place], task.what))
      /\ UNCHANGED <<response, deaf, fetch, signal, timer, race, result, first>>

RaceSettles ==
  LET task == Head(micro)
  IN  /\ micro # <<>> /\ task.place = "race"
      /\ IF race = Open
         THEN /\ race' = task.what
              /\ micro' = Append(Tail(micro), Task("call", task.what))
         ELSE UNCHANGED race /\ micro' = Tail(micro)
      /\ UNCHANGED <<response, deaf, fetch, signal, timer, result, first>>

(* Mutant of Caught: `!timedOut' is forgotten. *)
CaughtAnyAbort(what) == IF what # "ok" /\ signal THEN "canceled" ELSE what

(* The catch of unary(). *)
Caught(what) ==
  IF what # "ok" /\ signal /\ timer # "fired" THEN "canceled" ELSE what

(* unary() resumes: catch, then finally. *)
CallSettles ==
  LET task == Head(micro)
  IN  /\ micro # <<>> /\ task.place = "call"
      /\ result' = Caught(task.what)
      /\ timer' = IF timer = "armed" THEN "cleared" ELSE timer
      /\ micro' = Tail(micro)
      /\ UNCHANGED <<response, deaf, fetch, signal, race, first>>

RunMicrotask == Hop \/ RaceSettles \/ CallSettles

CallNext ==
  \/ Unary \/ CallerAborts \/ TimerFires
  \/ Headers \/ Body \/ NetworkFails
  \/ RunMicrotask

(* The host starts the call, drains its microtasks and fires its timers;   *)
(* the network owes nothing.                                               *)
CallFairness ==
  WF_callVars(Unary) /\ WF_callVars(RunMicrotask) /\ WF_callVars(TimerFires)

CallSpec == CallInit /\ [][CallNext]_callVars

-----------------------------------------------------------------------------
CallTypeOK ==
  /\ response \in Responses /\ deaf \in Deaf
  /\ fetch \in {"unsent", "pending", "body", "over"}
  /\ signal \in BOOLEAN
  /\ timer \in {"unset", "armed", "fired", "cleared"}
  /\ micro \in Seq([place : Places, what : Results])
  /\ race \in Results \cup {Open} /\ result \in Results \cup {Open}
  /\ first \in {"none", "caller", "deadline"}

(* A call that fails names what ended it: the deadline only if it ran out  *)
(* before the caller aborted, the caller only if it aborted first, and     *)
(* never the AbortError of the request that either of them aborted ("both  *)
(* also reject on their own", transport.ts).                               *)
CauseNamed ==
  /\ result = "deadline" => first = "deadline"
  /\ result = "canceled" => first = "caller"
  /\ result # "abort"

(* Each status is the same to JS and to native, and none stands where only *)
(* native looks for one.                                                   *)
HeardAlike(r) ==
  /\ r.header.js = r.header.native
  /\ \A j \in Whole(r) :
       /\ r.body[j].flag = "trailer" => r.body[j].status.js = r.body[j].status.native
       /\ r.body[j].flag = "marked"  => r.body[j].status.native = Absent

(* On a gRPC answer whose statuses the two hear alike, whichever frames    *)
(* arrived and whichever of trailer and header carries the status, the     *)
(* flusher and native decide alike.  One disagreement is left, and it      *)
(* deletes nothing: what JS cannot decode it retries, and native, which    *)
(* does not decode it, takes for sent.                                     *)
AgreeOnGrpc ==
  result \in Readings /\ response.http = 200 /\ response.grpc /\ HeardAlike(response) =>
    \/ OutcomeOf(result) = NativeOutcome(response)
    \/ /\ result = "undecodable" /\ OutcomeOf(result) = "retry"
       /\ NativeOutcome(response) = "sent"

(* What a call means is "the same answers as the JS flusher": a non-2xx by *)
(* its HTTP status alone, and a 2xx that is not gRPC retried (ReportWire). *)
SameAnswers ==
  result \in Readings /\ ~(response.http = 200 /\ response.grpc)
    => OutcomeOf(result) = NativeOutcome(response)

(* Every call settles, also over a network that never answers and a fetch  *)
(* that ignores its signal.                                                *)
CallEnds == <>(result # Open)
=============================================================================
