--------------------------- MODULE TransportProofs ---------------------------
(***************************************************************************)
(* Proofs about the parts of the JS transport.  UnaryCall, for any answers *)
(* of the network, of any frames in any number: its type invariant, that a *)
(* failed call names what ended it, and that the flusher and native read a *)
(* gRPC answer alike.  TextCodec, for all bytes and all texts: that the    *)
(* codec is Unicode's.                                                     *)
(***************************************************************************)
EXTENDS UnaryCall, TextCodec, SequenceTheorems, WellFoundedInduction, TLAPS

-----------------------------------------------------------------------------
(* First and last elements.                                                *)

(* A non-empty set of naturals has a least element. *)
LEMMA LeastOK ==
  ASSUME NEW T \in SUBSET Nat, T # {}
  PROVE  \E m \in T : \A k \in T : m <= k
<1> DEFINE Less == OpToRel(<, Nat)
<1>1. IsWellFoundedOn(Less, Nat)
  BY NatLessThanWellFounded, ZenonT(40)
<1>2. \A x, y \in Nat : <<y, x>> \in Less <=> y < x
  BY DEF OpToRel
<1> HIDE DEF Less
<1>3. \E x \in T : \A y \in T : ~ (<<y, x>> \in Less)
  BY <1>1, WFMin
<1>4. \A x, y \in Nat : ~(y < x) => x <= y
  OBVIOUS
<1>5. \A x \in T : x \in Nat
  OBVIOUS
<1> QED
  BY <1>2, <1>3, <1>4, <1>5, Zenon

(* A non-empty set of positions has a last one. *)
LEMMA LastOK ==
  ASSUME NEW n \in Nat, NEW S \in SUBSET (1 .. n), S # {}
  PROVE  Max(S) \in S /\ \A k \in S : k <= Max(S)
<1> DEFINE T == {n - j : j \in S}
<1>1. T \in SUBSET Nat /\ T # {}
  <2>1. \A j \in S : n - j \in Nat
    OBVIOUS
  <2> QED
    BY <2>1
<1>2. PICK m \in T : \A k \in T : m <= k
  BY <1>1, LeastOK
<1>3. PICK j \in S : m = n - j
  BY <1>2
<1>4. \A k \in S : j >= k
  <2>1. TAKE k \in S
  <2>2. m <= n - k
    BY <1>2
  <2> QED
    BY <1>3, <2>2
<1>5. \E x \in S : \A y \in S : x >= y
  BY <1>3, <1>4
<1>6. Max(S) \in S /\ \A y \in S : Max(S) >= y
  BY <1>5 DEF Max
<1> QED
  BY <1>6

-----------------------------------------------------------------------------
(* Reading a response.                                                     *)

(* The last status in some frames is one that stands there. *)
LEMMA LastSaidOK ==
  ASSUME NEW r \in Response, NEW flags, NEW reader \in {"js", "native"}
  PROVE  LastSaid(r, flags, reader) \in Said
<1> DEFINE lines == {j \in Whole(r) : /\ r.body[j].flag \in flags
                                      /\ r.body[j].status[reader] # Absent}
<1>1. r.body \in Seq(Frame)
  BY DEF Response
<1>2. Whole(r) \subseteq 1 .. Len(r.body)
  BY <1>1, LenProperties DEF Whole
<1>3. lines # {} => Max(lines) \in lines
  <2>1. Len(r.body) \in Nat /\ lines \in SUBSET (1 .. Len(r.body))
    BY <1>1, <1>2, LenProperties
  <2> HIDE DEF lines
  <2> QED
    BY <2>1, LastOK
<1>4. LastSaid(r, flags, reader) = IF lines = {} THEN Absent ELSE r.body[Max(lines)].status[reader]
  BY DEF LastSaid
<1>5. \A j \in lines : r.body[j].status[reader] \in Said
  <2>1. \A j \in 1 .. Len(r.body) : r.body[j] \in Frame
    BY <1>1, ElementOfSeq
  <2>2. \A j \in 1 .. Len(r.body) : r.body[j].status \in Status
    BY <2>1 DEF Frame
  <2> QED
    BY <1>2, <2>2 DEF Status
<1>6. Absent \in Said
  BY DEF Said
<1> HIDE DEF lines
<1> QED
  BY <1>3, <1>4, <1>5, <1>6

(* A response always reads as an answer. *)
LEMMA ReadAnswerOK ==
  ASSUME NEW r \in Response
  PROVE  ReadAnswer(r) \in Readings
<1>1. LastSaid(r, {"trailer"}, "js") \in Said
  BY LastSaidOK
<1>2. r.header.js \in Said
  <2>1. r.header \in Status
    BY DEF Response
  <2> QED
    BY <2>1 DEF Status
<1>3. JsStatus(r) \in Codes
  BY <1>1, <1>2 DEF JsStatus, Either, Said, Codes, Absent
<1> QED
  BY <1>3 DEF ReadAnswer, Readings

(* If the two hear every status alike, they go by the same one. *)
LEMMA HeardAlikeOK ==
  ASSUME NEW r \in Response, HeardAlike(r)
  PROVE  JsStatus(r) = NativeStatus(r)
<1> DEFINE Lines(flags, reader) ==
             {j \in Whole(r) : /\ r.body[j].flag \in flags
                               /\ r.body[j].status[reader] # Absent}
           js == Lines({"trailer"}, "js")
           native == Lines({"trailer", "marked"}, "native")
<1>1. js = native
  <2>1. \A j \in js : j \in native
    BY DEF HeardAlike
  <2>2. \A j \in native : j \in js
    BY DEF HeardAlike
  <2> QED
    BY <2>1, <2>2, Zenon
<1>2. \A j \in js : r.body[j].status.js = r.body[j].status.native
  BY DEF HeardAlike
<1>3. js # {} => Max(js) \in js
  <2>1. Len(r.body) \in Nat /\ js \in SUBSET (1 .. Len(r.body))
    <3>1. r.body \in Seq(Frame)
      BY DEF Response
    <3>2. Whole(r) \subseteq 1 .. Len(r.body)
      BY <3>1, LenProperties DEF Whole
    <3> QED
      BY <3>1, <3>2, LenProperties
  <2> HIDE DEF js
  <2> QED
    BY <2>1, LastOK
<1>4. /\ LastSaid(r, {"trailer"}, "js") =
           IF js = {} THEN Absent ELSE r.body[Max(js)].status.js
      /\ LastSaid(r, {"trailer", "marked"}, "native") =
           IF native = {} THEN Absent ELSE r.body[Max(native)].status.native
  BY DEF LastSaid
<1> HIDE DEF js, native
<1>5. LastSaid(r, {"trailer"}, "js") = LastSaid(r, {"trailer", "marked"}, "native")
  BY <1>1, <1>2, <1>3, <1>4
<1>6. r.header.js = r.header.native
  BY DEF HeardAlike
<1> QED
  BY <1>5, <1>6 DEF JsStatus, NativeStatus

-----------------------------------------------------------------------------
(* The inductive invariant.  What Promise.race settles with is decided by  *)
(* the order of its microtasks: a rejection that came second has the first *)
(* one before it, and the AbortError of the request has its cause before   *)
(* it, or right behind it with hops still to go.                           *)
Causes == {"canceled", "deadline"}
Tasks  == [place : Places, what : Results]

Before(pos, what) ==
  \E j \in 1 .. Len(micro) : j < pos /\ micro[j].place = "race" /\ micro[j].what = what

TaskOK(pos) ==
  /\ micro[pos].place = "call" => micro[pos].what = race
  /\ micro[pos].place \notin {"race", "call"} => micro[pos].what \notin Causes
  /\ micro[pos].what \in Readings => micro[pos].what = ReadAnswer(response)

RacerOK(pos) ==
  /\ micro[pos].what = "deadline" =>
       first = "deadline" \/ (first = "caller" /\ Before(pos, "canceled"))
  /\ micro[pos].what = "canceled" =>
       first = "caller" \/ (first = "deadline" /\ Before(pos, "deadline"))
  /\ micro[pos].what = "abort" =>
       \/ Before(pos, "canceled") \/ Before(pos, "deadline")
       \/ /\ micro[pos].place = "invoke" /\ pos + 1 \in 1 .. Len(micro)
          /\ micro[pos + 1].place = "race" /\ micro[pos + 1].what \in Causes

QueueOK == \A pos \in 1 .. Len(micro) : TaskOK(pos)

RaceOK ==
  race = Open =>
    /\ \A pos \in 1 .. Len(micro) : RacerOK(pos)
    /\ first = "caller" /\ fetch # "unsent" => Before(Len(micro) + 1, "canceled")
    /\ first = "deadline" => Before(Len(micro) + 1, "deadline")

FirstOK ==
  /\ first = "deadline" => timer = "fired"
  /\ timer = "fired" => first # "none"
  /\ first = "caller" => signal
  /\ signal => first # "none"

SettledOK ==
  /\ fetch = "unsent" => micro = <<>> /\ race = Open /\ timer = "unset"
  /\ race = "deadline" => first = "deadline"
  /\ race = "canceled" => first = "caller"
  /\ race # "abort"
  /\ race \in Readings => race = ReadAnswer(response)
  /\ result \in Readings => result = ReadAnswer(response)

CInv == CallTypeOK /\ QueueOK /\ RaceOK /\ FirstOK /\ SettledOK /\ CauseNamed

USE DEF Causes, Open

-----------------------------------------------------------------------------
(* The queue of microtasks.                                                *)

LEMMA TaskTyped ==
  ASSUME NEW place \in Places, NEW what \in Results
  PROVE  /\ Task(place, what) \in Tasks
         /\ Task(place, what).place = place /\ Task(place, what).what = what
BY DEF Task, Tasks

LEMMA ElementTyped ==
  ASSUME CallTypeOK, NEW pos \in 1 .. Len(micro)
  PROVE  micro[pos].place \in Places /\ micro[pos].what \in Results
<1>1. micro \in Seq(Tasks)
  BY DEF CallTypeOK, Tasks
<1>2. micro[pos] \in Tasks
  BY <1>1, ElementOfSeq
<1> QED
  BY <1>2 DEF Tasks

(* The first task is taken out. *)
LEMMA TakenOK ==
  ASSUME CallTypeOK, micro # <<>>
  PROVE  /\ Tail(micro) \in Seq(Tasks)
         /\ Len(micro) \in Nat \ {0} /\ Len(Tail(micro)) = Len(micro) - 1
         /\ \A pos \in 1 .. Len(micro) - 1 : Tail(micro)[pos] = micro[pos + 1]
         /\ Head(micro) = micro[1] /\ Head(micro) \in Tasks
<1>1. micro \in Seq(Tasks)
  BY DEF CallTypeOK, Tasks
<1> QED
  BY <1>1, HeadTailProperties, EmptySeq, LenProperties

LEMMA AppendedOK ==
  ASSUME NEW q \in Seq(Tasks), NEW t \in Tasks, NEW r, r = Append(q, t)
  PROVE  /\ r \in Seq(Tasks) /\ Len(r) = Len(q) + 1
         /\ \A pos \in 1 .. Len(q) : r[pos] = q[pos]
         /\ r[Len(q) + 1] = t
<1>1. /\ Append(q, t) \in Seq(Tasks) /\ Len(Append(q, t)) = Len(q) + 1
      /\ \A pos \in 1 .. Len(q) : Append(q, t)[pos] = q[pos]
      /\ Append(q, t)[Len(q) + 1] = t
  BY AppendProperties
<1> QED
  BY <1>1

(* The first task is replaced by one at the end. *)
LEMMA RotatedOK ==
  ASSUME CallTypeOK, micro # <<>>, NEW t \in Tasks, micro' = Append(Tail(micro), t)
  PROVE  /\ micro' \in Seq(Tasks)
         /\ Len(micro) \in Nat \ {0} /\ Len(micro') = Len(micro)
         /\ \A pos \in 1 .. Len(micro) - 1 : micro'[pos] = micro[pos + 1]
         /\ micro'[Len(micro)] = t
<1>1. /\ Tail(micro) \in Seq(Tasks) /\ Len(micro) \in Nat \ {0}
      /\ Len(Tail(micro)) = Len(micro) - 1
      /\ \A pos \in 1 .. Len(micro) - 1 : Tail(micro)[pos] = micro[pos + 1]
  BY TakenOK
<1> DEFINE rest == Tail(micro)
<1> HIDE DEF rest
<1>2. /\ rest \in Seq(Tasks) /\ Len(rest) = Len(micro) - 1
      /\ \A pos \in 1 .. Len(micro) - 1 : rest[pos] = micro[pos + 1]
      /\ micro' = Append(rest, t)
  BY <1>1 DEF rest
<1>3. /\ micro' \in Seq(Tasks) /\ Len(micro') = Len(rest) + 1
      /\ \A pos \in 1 .. Len(rest) : micro'[pos] = rest[pos]
      /\ micro'[Len(rest) + 1] = t
  BY <1>2, AppendedOK, ZenonT(40)
<1> QED
  BY <1>1, <1>2, <1>3

(* The deadline or the caller: the AbortError of a fetch that listens, and *)
(* behind it the rejection.                                                *)
LEMMA StoppedOK ==
  ASSUME CallTypeOK, NEW t \in Tasks, micro' = micro \o Aborted \o <<t>>
  PROVE  /\ micro' \in Seq(Tasks)
         /\ Len(micro) \in Nat /\ Len(micro') \in {Len(micro) + 1, Len(micro) + 2}
         /\ \A pos \in 1 .. Len(micro) : micro'[pos] = micro[pos]
         /\ micro'[Len(micro')] = t
         /\ Len(micro') = Len(micro) + 2 =>
              micro'[Len(micro) + 1] = Task("invoke", "abort")
<1> DEFINE abort == Task("invoke", "abort")
<1>1. micro \in Seq(Tasks) /\ Len(micro) \in Nat
  BY LenProperties DEF CallTypeOK, Tasks
<1>2. abort \in Tasks
  BY TaskTyped DEF Places, Results
<1> HIDE DEF abort
<1>3. CASE Listening
  <2> DEFINE both == Append(micro, abort)
  <2>1. micro \o Aborted = both
    BY <1>1, <1>2, <1>3, AppendIsConcat DEF Aborted, abort
  <2>2. /\ both \in Seq(Tasks) /\ Len(both) = Len(micro) + 1
        /\ \A pos \in 1 .. Len(micro) : both[pos] = micro[pos]
        /\ both[Len(micro) + 1] = abort
    BY <1>1, <1>2, AppendProperties
  <2> HIDE DEF both
  <2>3. micro' = Append(both, t)
    BY <2>1, <2>2, AppendIsConcat
  <2>4. /\ micro' \in Seq(Tasks) /\ Len(micro') = Len(both) + 1
        /\ \A pos \in 1 .. Len(both) : micro'[pos] = both[pos]
        /\ micro'[Len(both) + 1] = t
    BY <2>2, <2>3, AppendedOK, ZenonT(40)
  <2> QED
    BY <1>1, <2>2, <2>4 DEF abort
<1>4. CASE ~Listening
  <2>1. micro \o Aborted = micro
    BY <1>1, <1>4, ConcatEmptySeq DEF Aborted
  <2>2. micro' = Append(micro, t)
    BY <1>1, <2>1, AppendIsConcat
  <2>3. /\ micro' \in Seq(Tasks) /\ Len(micro') = Len(micro) + 1
        /\ \A pos \in 1 .. Len(micro) : micro'[pos] = micro[pos]
        /\ micro'[Len(micro) + 1] = t
    BY <1>1, <2>2, AppendedOK
  <2> QED
    BY <1>1, <2>3
<1> QED
  BY <1>3, <1>4

-----------------------------------------------------------------------------
(* Each step preserves the invariant.                                      *)

LEMMA LenOK == ASSUME CallTypeOK PROVE Len(micro) \in Nat
BY LenProperties DEF CallTypeOK

LEMMA CallInitOK == CallInit => CInv
<1> SUFFICES ASSUME CallInit PROVE CInv
  OBVIOUS
<1>1. micro = <<>> /\ micro \in Seq(Tasks) /\ Len(micro) = 0
  BY EmptySeq DEF CallInit
<1>2. CallTypeOK
  BY <1>1, CallAssumption DEF CallInit, CallTypeOK, Tasks
<1>3. QueueOK /\ RaceOK
  BY <1>1 DEF CallInit, QueueOK, RaceOK
<1>4. FirstOK /\ SettledOK /\ CauseNamed
  BY <1>1 DEF CallInit, FirstOK, SettledOK, CauseNamed, Readings, Codes
<1> QED
  BY <1>2, <1>3, <1>4 DEF CInv

(* A queue that is empty gets one task of the request's. *)
LEMMA ArrivedOK ==
  ASSUME CInv, NEW what \in Results, what \notin Causes \cup {"abort"},
         what \in Readings => what = ReadAnswer(response),
         fetch # "unsent", fetch' = "over", micro = <<>>, micro' = <<Task("invoke", what)>>,
         UNCHANGED <<response, deaf, signal, timer, race, result, first>>
  PROVE  CInv'
<1> DEFINE t == Task("invoke", what)
<1>1. t \in Tasks /\ t.place = "invoke" /\ t.what = what
  BY TaskTyped DEF Places
<1> HIDE DEF t
<1>2. micro' \in Seq(Tasks) /\ Len(micro') = 1 /\ micro'[1] = t
  BY <1>1 DEF t
<1>3. CallTypeOK'
  BY <1>2 DEF CInv, CallTypeOK, Tasks
<1>4. QueueOK'
  BY <1>1, <1>2 DEF QueueOK, TaskOK
<1>5. RaceOK'
  <2>1. Len(micro) = 0
    BY EmptySeq
  <2> QED
    BY <1>1, <1>2, <2>1 DEF CInv, RaceOK, RacerOK, Before
<1>6. FirstOK' /\ SettledOK' /\ CauseNamed'
  BY DEF CInv, FirstOK, SettledOK, CauseNamed
<1> QED
  BY <1>3, <1>4, <1>5, <1>6 DEF CInv

LEMMA BodyOK == ASSUME CInv, Body PROVE CInv'
<1> DEFINE what == ReadAnswer(response)
<1>1. what \in Readings
  BY ReadAnswerOK, CallAssumption DEF CInv, CallTypeOK
<1>2. what \in Results /\ what \notin Causes \cup {"abort"}
  BY <1>1 DEF Readings, Codes, Results
<1> HIDE DEF what
<1>3. /\ fetch # "unsent" /\ fetch' = "over" /\ micro = <<>>
      /\ micro' = <<Task("invoke", what)>>
      /\ UNCHANGED <<response, deaf, signal, timer, race, result, first>>
  BY DEF Body, what
<1>4. what = ReadAnswer(response)
  BY DEF what
<1> QED
  BY <1>2, <1>3, <1>4, ArrivedOK

LEMMA NetworkFailsOK == ASSUME CInv, NetworkFails PROVE CInv'
<1> DEFINE what == "network"
<1>1. what \in Results /\ what \notin Causes \cup {"abort"} /\ what \notin Readings
  BY DEF Results, Readings, Codes
<1>2. /\ fetch # "unsent" /\ fetch' = "over" /\ micro = <<>>
      /\ micro' = <<Task("invoke", what)>>
      /\ UNCHANGED <<response, deaf, signal, timer, race, result, first>>
  BY DEF NetworkFails
<1> HIDE DEF what
<1> QED
  BY <1>1, <1>2, ArrivedOK

LEMMA HeadersOK == ASSUME CInv, Headers PROVE CInv'
BY DEF CInv, Headers, CallTypeOK, QueueOK, TaskOK, RaceOK, RacerOK, Before, FirstOK,
       SettledOK, CauseNamed

LEMMA UnaryOK == ASSUME CInv, Unary PROVE CInv'
<1> DEFINE abort == Task("invoke", "abort")
           canceled == Task("race", "canceled")
<1>1. /\ abort \in Tasks /\ abort.place = "invoke" /\ abort.what = "abort"
      /\ canceled \in Tasks /\ canceled.place = "race" /\ canceled.what = "canceled"
  BY TaskTyped DEF Places, Results
<1> HIDE DEF abort, canceled
<1> DEFINE Both == Len(micro') = 2 /\ micro'[1] = abort /\ micro'[2] = canceled
<1>2. /\ micro' \in Seq(Tasks)
      /\ \/ ~signal /\ micro' = <<>>
         \/ signal /\ micro' = <<canceled>>
         \/ signal /\ Both
  <2> DEFINE request == IF signal /\ ~deaf THEN <<abort>> ELSE <<>>
             caller  == IF signal THEN <<canceled>> ELSE <<>>
  <2>1. micro' = request \o caller
    BY DEF Unary, abort, canceled
  <2>2. /\ <<abort>> \in Seq(Tasks) /\ <<canceled>> \in Seq(Tasks)
        /\ <<>> \in Seq(Tasks)
    BY <1>1
  <2>3. CASE ~signal
    BY <2>1, <2>2, <2>3, ConcatEmptySeq
  <2>4. CASE signal /\ deaf
    BY <2>1, <2>2, <2>4, ConcatEmptySeq
  <2>5. CASE signal /\ ~deaf
    <3>1. micro' = <<abort>> \o <<canceled>>
      BY <2>1, <2>5
    <3>2. micro' = Append(<<abort>>, canceled)
      BY <1>1, <2>2, <3>1, AppendIsConcat
    <3> DEFINE q == <<abort>>
    <3>3. q \in Seq(Tasks) /\ Len(q) = 1 /\ q[1] = abort
      BY <2>2
    <3> HIDE DEF q
    <3>4. micro' = Append(q, canceled)
      BY <3>2 DEF q
    <3>5. /\ micro' \in Seq(Tasks) /\ Len(micro') = Len(q) + 1
          /\ \A pos \in 1 .. Len(q) : micro'[pos] = q[pos]
          /\ micro'[Len(q) + 1] = canceled
      BY <1>1, <3>3, <3>4, AppendedOK
    <3> QED
      BY <2>5, <3>3, <3>5
  <2>6. deaf \in BOOLEAN
    BY CallAssumption DEF CInv, CallTypeOK
  <2> QED
    BY <2>3, <2>4, <2>5, <2>6
<1>3. /\ micro = <<>> /\ race = Open /\ timer = "unset"
      /\ timer' = "armed" /\ fetch' \in {"pending", "over"}
      /\ UNCHANGED <<response, deaf, signal, race, result, first>>
  BY DEF Unary, CInv, SettledOK
<1>5. CallTypeOK'
  BY <1>2, <1>3 DEF CInv, CallTypeOK, Tasks
<1>6. first = IF signal THEN "caller" ELSE "none"
  BY <1>3 DEF CInv, FirstOK, CallTypeOK
<1>7. FirstOK' /\ SettledOK' /\ CauseNamed'
  BY <1>3, <1>6 DEF CInv, FirstOK, SettledOK, CauseNamed
<1>8. CASE ~signal /\ micro' = <<>>
  <2>1. Len(micro') = 0
    BY <1>8
  <2> QED
    BY <1>2, <1>3, <1>5, <1>6, <1>7, <1>8, <2>1 DEF CInv, QueueOK, RaceOK
<1>9. CASE signal /\ micro' = <<canceled>>
  <2>1. Len(micro') = 1 /\ micro'[1] = canceled /\ first' = "caller" /\ race' = Open
    BY <1>2, <1>3, <1>6, <1>9
  <2>2. QueueOK' /\ RaceOK'
    BY <1>1, <2>1 DEF QueueOK, TaskOK, RaceOK, RacerOK, Before, Readings, Codes
  <2> QED
    BY <1>5, <1>7, <2>2 DEF CInv
<1>10. CASE signal /\ Both
  <2>1. /\ Len(micro') = 2 /\ micro'[1] = abort /\ micro'[2] = canceled
        /\ first' = "caller" /\ race' = Open
    BY <1>2, <1>3, <1>6, <1>10
  <2>2. QueueOK'
    BY <1>1, <2>1 DEF QueueOK, TaskOK, Readings, Codes
  <2>3. RacerOK(1)' /\ RacerOK(2)'
    BY <1>1, <2>1 DEF RacerOK
  <2>4. RaceOK'
    BY <1>1, <2>1, <2>3 DEF RaceOK, Before
  <2> QED
    BY <1>5, <1>7, <2>2, <2>4 DEF CInv
<1> QED
  BY <1>2, <1>8, <1>9, <1>10

(* The deadline or the caller ends the call: whoever comes first is first  *)
(* in the queue, too.                                                      *)
Who(what) == IF what = "canceled" THEN "caller" ELSE "deadline"

LEMMA StopsOK ==
  ASSUME CInv, NEW what \in Causes,
         micro' = micro \o Aborted \o <<Task("race", what)>>, EndFetch,
         fetch # "unsent",
         first' = IF first = "none" THEN Who(what) ELSE first,
         UNCHANGED <<response, deaf, race, result>>
  PROVE  /\ micro' \in Seq(Tasks) /\ QueueOK' /\ RaceOK'
         /\ fetch' \in {"pending", "body", "over"}
         /\ first' \in {"caller", "deadline"}
<1> DEFINE abort == Task("invoke", "abort")
           t == Task("race", what)
<1>1. /\ t \in Tasks /\ t.place = "race" /\ t.what = what
      /\ abort.place = "invoke" /\ abort.what = "abort"
  BY TaskTyped DEF Places, Results
<1>2. CallTypeOK /\ micro' = micro \o Aborted \o <<t>>
  BY DEF CInv
<1> HIDE DEF abort, t
<1>3. /\ micro' \in Seq(Tasks)
      /\ Len(micro) \in Nat /\ Len(micro') \in {Len(micro) + 1, Len(micro) + 2}
      /\ \A pos \in 1 .. Len(micro) : micro'[pos] = micro[pos]
      /\ micro'[Len(micro')] = t
      /\ Len(micro') = Len(micro) + 2 => micro'[Len(micro) + 1] = abort
  BY <1>1, <1>2, StoppedOK DEF abort
<1>4. \A pos \in 1 .. Len(micro') :
        pos \in 1 .. Len(micro) \/ pos = Len(micro')
        \/ (pos = Len(micro) + 1 /\ Len(micro') = Len(micro) + 2)
  BY <1>3
<1>5. /\ fetch' \in {"pending", "body", "over"} /\ fetch' # "unsent"
      /\ first \in {"none", "caller", "deadline"} /\ first' \in {"caller", "deadline"}
  BY <1>2 DEF EndFetch, CallTypeOK, Who
<1>6. QueueOK'
  <2> SUFFICES ASSUME NEW pos \in 1 .. Len(micro') PROVE TaskOK(pos)'
    BY DEF QueueOK
  <2>1. CASE pos \in 1 .. Len(micro)
    BY <1>3, <2>1 DEF CInv, QueueOK, TaskOK
  <2>2. CASE pos = Len(micro')
    BY <1>1, <1>3, <2>2 DEF TaskOK, Readings, Codes
  <2>3. CASE pos = Len(micro) + 1 /\ Len(micro') = Len(micro) + 2
    BY <1>1, <1>3, <2>3 DEF TaskOK, Readings, Codes
  <2> QED
    BY <1>4, <2>1, <2>2, <2>3
<1>7. ASSUME race = Open PROVE RaceOK'
  <2> PICK n \in Nat : n = Len(micro')
    BY <1>3
  <2>1. \A pos \in 1 .. Len(micro) : RacerOK(pos)
    BY <1>7 DEF CInv, RaceOK
  <2>2. ASSUME NEW w, NEW pos \in 1 .. Len(micro) + 1, Before(pos, w)
        PROVE  Before(pos, w)' /\ Before(n, w)' /\ Before(n + 1, w)'
    <3>1. PICK j \in 1 .. Len(micro) :
            j < pos /\ micro[j].place = "race" /\ micro[j].what = w
      BY <2>2 DEF Before
    <3>2. j \in 1 .. Len(micro') /\ j < n /\ micro'[j] = micro[j]
      BY <1>3
    <3>3. j \in 1 .. Len(micro') /\ micro'[j].place = "race" /\ micro'[j].what = w
      BY <3>1, <3>2
    <3>4. j < pos /\ j < n /\ j < n + 1
      BY <1>3, <3>1, <3>2
    <3> QED
      BY <3>3, <3>4, Zenon DEF Before
  <2>3. Before(n + 1, what)'
    <3>1. n \in 1 .. Len(micro') /\ n < n + 1
      BY <1>3
    <3> QED
      BY <1>1, <1>3, <3>1 DEF Before
  <2>4. /\ first = "caller" => Before(Len(micro) + 1, "canceled")
        /\ first = "deadline" => Before(Len(micro) + 1, "deadline")
    BY <1>7 DEF CInv, RaceOK
  <2>5. Len(micro) + 1 \in 1 .. Len(micro) + 1
    BY <1>3
  <2>6. /\ first' = "caller" => Before(n + 1, "canceled")'
        /\ first' = "deadline" => Before(n + 1, "deadline")'
    BY <1>5, <2>2, <2>3, <2>4, <2>5 DEF Who
  <2>7. ASSUME NEW pos \in 1 .. n PROVE RacerOK(pos)'
    <3>1. CASE pos \in 1 .. Len(micro)
      <4>1. micro'[pos] = micro[pos] /\ pos \in 1 .. Len(micro) + 1
        BY <1>3, <3>1
      <4>2. RacerOK(pos)
        BY <2>1, <3>1
      <4>3. micro[pos].what \in Causes => first # "none" /\ first' = first
        BY <4>2 DEF RacerOK
      <4>4. pos + 1 \in 1 .. Len(micro) =>
              pos + 1 \in 1 .. n /\ micro'[pos + 1] = micro[pos + 1]
        BY <1>3
      <4> QED
        BY <2>2, <4>1, <4>2, <4>3, <4>4 DEF RacerOK
    <3>2. CASE pos = n
      <4>1. /\ first = "caller" => Before(pos, "canceled")'
            /\ first = "deadline" => Before(pos, "deadline")'
        BY <2>2, <2>4, <2>5, <3>2
      <4> QED
        BY <1>1, <1>3, <1>5, <3>2, <4>1 DEF RacerOK, Who
    <3>3. CASE pos = Len(micro) + 1 /\ n = Len(micro) + 2
      <4>1. micro'[pos] = abort /\ pos + 1 = n /\ pos + 1 \in 1 .. n
            /\ micro'[pos + 1] = t
        BY <1>3, <3>3
      <4> QED
        BY <1>1, <4>1 DEF RacerOK
    <3> QED
      BY <1>4, <3>1, <3>2, <3>3
  <2> QED
    BY <2>6, <2>7 DEF RaceOK, Before
<1> QED
  BY <1>3, <1>5, <1>6, <1>7 DEF RaceOK

LEMMA CallerAbortsOK == ASSUME CInv, CallerAborts PROVE CInv'
<1> DEFINE what == "canceled"
<1>1. what \in Causes /\ Who(what) = "caller"
  BY DEF Who
<1>2. /\ fetch # "unsent" /\ signal' = TRUE /\ result = Open
      /\ micro' = micro \o Aborted \o <<Task("race", what)>> /\ EndFetch
      /\ first' = IF first = "none" THEN Who(what) ELSE first
      /\ UNCHANGED <<response, deaf, timer, race, result>>
  BY DEF CallerAborts, Who
<1> HIDE DEF what
<1>3. /\ micro' \in Seq(Tasks) /\ QueueOK' /\ RaceOK'
      /\ fetch' \in {"pending", "body", "over"} /\ first' \in {"caller", "deadline"}
  BY <1>1, <1>2, StopsOK
<1>4. CallTypeOK'
  BY <1>2, <1>3 DEF CInv, CallTypeOK, Tasks
<1>5. FirstOK' /\ SettledOK' /\ CauseNamed'
  BY <1>1, <1>2, <1>3 DEF CInv, FirstOK, SettledOK, CauseNamed
<1> QED
  BY <1>3, <1>4, <1>5 DEF CInv

LEMMA TimerFiresOK == ASSUME CInv, TimerFires PROVE CInv'
<1> DEFINE what == "deadline"
<1>1. what \in Causes /\ Who(what) = "deadline"
  BY DEF Who
<1>2. /\ timer = "armed" /\ timer' = "fired"
      /\ micro' = micro \o Aborted \o <<Task("race", what)>> /\ EndFetch
      /\ first' = IF first = "none" THEN Who(what) ELSE first
      /\ UNCHANGED <<response, deaf, signal, race, result>>
  BY DEF TimerFires, Who
<1>3. fetch # "unsent"
  BY <1>2 DEF CInv, SettledOK
<1> HIDE DEF what
<1>4. /\ micro' \in Seq(Tasks) /\ QueueOK' /\ RaceOK'
      /\ fetch' \in {"pending", "body", "over"} /\ first' \in {"caller", "deadline"}
  BY <1>1, <1>2, <1>3, StopsOK
<1>5. CallTypeOK'
  BY <1>2, <1>4 DEF CInv, CallTypeOK, Tasks
<1>6. FirstOK' /\ SettledOK' /\ CauseNamed'
  BY <1>1, <1>2, <1>4 DEF CInv, FirstOK, SettledOK, CauseNamed, CallTypeOK
<1> QED
  BY <1>4, <1>5, <1>6 DEF CInv

LEMMA HopOK == ASSUME CInv, Hop PROVE CInv'
<1> DEFINE place == [invoke |-> "passthrough", passthrough |-> "auth",
                     auth |-> "race"][micro[1].place]
           what == micro[1].what
           t == Task(place, what)
<1>1. /\ CallTypeOK /\ micro # <<>>
      /\ UNCHANGED <<response, deaf, fetch, signal, timer, race, result, first>>
  BY DEF CInv, Hop
<1>2. Len(micro) \in Nat \ {0} /\ Head(micro) = micro[1] /\ 1 \in 1 .. Len(micro)
  BY <1>1, TakenOK
<1>3. /\ micro[1].place \in {"invoke", "passthrough", "auth"}
      /\ micro' = Append(Tail(micro), t)
  BY <1>2 DEF Hop
<1>4. what \in Results /\ what \notin Causes /\ place \in {"passthrough", "auth", "race"}
  BY <1>1, <1>2, <1>3, ElementTyped DEF CInv, QueueOK, TaskOK
<1>5. t \in Tasks /\ t.place = place /\ t.what = what
  BY <1>4, TaskTyped DEF Places
<1> HIDE DEF t, place
<1>6. /\ micro' \in Seq(Tasks) /\ Len(micro') = Len(micro)
      /\ \A pos \in 1 .. Len(micro) - 1 : micro'[pos] = micro[pos + 1]
      /\ micro'[Len(micro)] = t
  BY <1>1, <1>3, <1>5, RotatedOK
<1>7. \A pos \in 1 .. Len(micro) : pos = Len(micro) \/ pos \in 1 .. Len(micro) - 1
  BY <1>2
<1>8. CallTypeOK'
  BY <1>1, <1>6 DEF CallTypeOK, Tasks
<1>9. QueueOK'
  <2> SUFFICES ASSUME NEW pos \in 1 .. Len(micro) PROVE TaskOK(pos)'
    BY <1>6 DEF QueueOK
  <2>1. CASE pos \in 1 .. Len(micro) - 1
    <3>1. TaskOK(pos + 1)
      BY <1>2, <2>1 DEF CInv, QueueOK
    <3> QED
      BY <1>1, <1>6, <2>1, <3>1 DEF TaskOK
  <2>2. CASE pos = Len(micro)
    <3>1. TaskOK(1)
      BY <1>2 DEF CInv, QueueOK
    <3> QED
      BY <1>1, <1>4, <1>5, <1>6, <2>2, <3>1 DEF TaskOK
  <2> QED
    BY <1>7, <2>1, <2>2
<1>10. ASSUME race = Open PROVE RaceOK'
  <2> PICK n \in Nat \ {0} : n = Len(micro)
    BY <1>2
  <2>1. \A pos \in 1 .. n : RacerOK(pos)
    BY <1>10 DEF CInv, RaceOK
  <2>2. ASSUME NEW w, NEW pos \in Nat, Before(pos + 1, w) PROVE Before(pos, w)'
    <3>1. PICK j \in 1 .. n :
            j < pos + 1 /\ micro[j].place = "race" /\ micro[j].what = w
      BY <2>2 DEF Before
    <3>2. j # 1
      BY <1>3, <3>1
    <3>3. j - 1 \in 1 .. n - 1 /\ j - 1 < pos
      BY <3>1, <3>2
    <3>4. micro'[j - 1] = micro[j]
      BY <1>6, <3>3
    <3> QED
      BY <1>6, <3>1, <3>3, <3>4 DEF Before
  <2>3. ASSUME NEW pos \in 1 .. n PROVE RacerOK(pos)'
    <3>1. CASE pos \in 1 .. n - 1
      <4>1. RacerOK(pos + 1) /\ micro'[pos] = micro[pos + 1] /\ pos \in Nat
        BY <1>6, <2>1, <3>1
      <4>2. pos + 2 \in 1 .. n => pos + 1 \in 1 .. n /\ micro'[pos + 1] = micro[pos + 2]
        BY <1>6, <3>1
      <4> QED
        BY <1>1, <1>6, <2>2, <4>1, <4>2 DEF RacerOK
    <3>2. CASE pos = n
      <4>1. micro'[pos] = t
        BY <1>6, <3>2
      <4>2. CASE what # "abort"
        BY <1>4, <1>5, <4>1, <4>2 DEF RacerOK
      <4>3. CASE what = "abort"
        <5>1. RacerOK(1) /\ ~ Before(1, "canceled") /\ ~ Before(1, "deadline")
          BY <1>2, <2>1 DEF Before
        <5>2. 2 \in 1 .. n /\ micro[2].place = "race" /\ micro[2].what \in Causes
          BY <4>3, <5>1 DEF RacerOK
        <5>3. micro'[1] = micro[2] /\ 1 \in 1 .. n /\ 1 < pos
          BY <1>6, <3>2, <5>2
        <5>4. Before(pos, "canceled")' \/ Before(pos, "deadline")'
          BY <1>6, <5>2, <5>3 DEF Before
        <5> QED
          BY <1>5, <4>1, <4>3, <5>4 DEF RacerOK
      <4> QED
        BY <4>2, <4>3
    <3> QED
      BY <1>2, <3>1, <3>2
  <2>4. /\ first = "caller" /\ fetch # "unsent" => Before(n + 1, "canceled")
        /\ first = "deadline" => Before(n + 1, "deadline")
    BY <1>10 DEF CInv, RaceOK
  <2>5. ASSUME NEW w, Before(n + 1, w) PROVE Before(n + 1, w)'
    <3>1. Before(n, w)'
      BY <2>2, <2>5
    <3> QED
      BY <3>1 DEF Before
  <2> QED
    BY <1>1, <1>6, <2>3, <2>4, <2>5 DEF RaceOK, Before
<1>11. FirstOK' /\ SettledOK' /\ CauseNamed'
  BY <1>1 DEF CInv, FirstOK, SettledOK, CauseNamed
<1> QED
  BY <1>1, <1>8, <1>9, <1>10, <1>11 DEF CInv, RaceOK

(* Once the race is settled a task less leaves the queue as it should be.  *)
LEMMA ShorterOK ==
  ASSUME CInv, micro # <<>>, micro' = Tail(micro), race # Open, UNCHANGED <<race, response>>
  PROVE  micro' \in Seq(Tasks) /\ QueueOK' /\ RaceOK'
<1>1. /\ micro' \in Seq(Tasks) /\ Len(micro) \in Nat \ {0} /\ Len(micro') = Len(micro) - 1
      /\ \A pos \in 1 .. Len(micro) - 1 : micro'[pos] = micro[pos + 1]
  BY TakenOK DEF CInv
<1>2. ASSUME NEW pos \in 1 .. Len(micro') PROVE TaskOK(pos)'
  <2>1. pos \in 1 .. Len(micro) - 1 /\ pos + 1 \in 1 .. Len(micro)
    BY <1>1
  <2>2. TaskOK(pos + 1) /\ micro'[pos] = micro[pos + 1]
    BY <1>1, <2>1 DEF CInv, QueueOK
  <2> QED
    BY <2>2 DEF TaskOK
<1> QED
  BY <1>1, <1>2 DEF QueueOK, RaceOK

LEMMA RaceSettlesOK == ASSUME CInv, RaceSettles PROVE CInv'
<1> DEFINE what == micro[1].what
           t == Task("call", what)
<1>1. /\ CallTypeOK /\ micro # <<>>
      /\ UNCHANGED <<response, deaf, fetch, signal, timer, result, first>>
  BY DEF CInv, RaceSettles
<1>2. Len(micro) \in Nat \ {0} /\ Head(micro) = micro[1] /\ 1 \in 1 .. Len(micro)
  BY <1>1, TakenOK
<1>3. /\ micro[1].place = "race"
      /\ IF race = Open THEN race' = what /\ micro' = Append(Tail(micro), t)
         ELSE race' = race /\ micro' = Tail(micro)
  BY <1>2 DEF RaceSettles
<1>4. what \in Results /\ fetch # "unsent"
  <2>1. Len(<<>>) = 0
    OBVIOUS
  <2> QED
    BY <1>1, <1>2, ElementTyped DEF CInv, SettledOK
<1>5. CASE race = Open
  <2>1. t \in Tasks /\ t.place = "call" /\ t.what = what
    BY <1>4, TaskTyped DEF Places
  <2>2. race' = what /\ micro' = Append(Tail(micro), t)
    BY <1>3, <1>5
  <2> HIDE DEF t
  <2>3. /\ micro' \in Seq(Tasks) /\ Len(micro') = Len(micro)
        /\ \A pos \in 1 .. Len(micro) - 1 : micro'[pos] = micro[pos + 1]
        /\ micro'[Len(micro)] = t
    BY <1>1, <2>1, <2>2, RotatedOK
  <2>4. CallTypeOK' /\ race' # Open
    BY <1>1, <1>4, <2>2, <2>3 DEF CallTypeOK, Tasks, Results, Readings, Codes
  <2>5. TaskOK(1) /\ RacerOK(1) /\ ~ Before(1, "canceled") /\ ~ Before(1, "deadline")
    BY <1>2, <1>5 DEF CInv, QueueOK, RaceOK, Before
  <2>6. ASSUME NEW pos \in 1 .. Len(micro) PROVE TaskOK(pos)'
    <3>1. CASE pos \in 1 .. Len(micro) - 1
      <4>1. pos + 1 \in 1 .. Len(micro)
        BY <1>2, <3>1
      <4>2. TaskOK(pos + 1) /\ micro'[pos] = micro[pos + 1] /\ micro[pos + 1].what \in Results
        BY <1>1, <2>3, <3>1, <4>1, ElementTyped DEF CInv, QueueOK
      <4> QED
        BY <1>1, <1>5, <4>2 DEF TaskOK, Results, Readings, Codes
    <3>2. CASE pos = Len(micro)
      BY <1>1, <2>1, <2>2, <2>3, <2>5, <3>2 DEF TaskOK
    <3> QED
      BY <1>2, <3>1, <3>2
  <2>7. QueueOK' /\ RaceOK'
    BY <2>3, <2>4, <2>6 DEF QueueOK, RaceOK
  <2>8. FirstOK' /\ SettledOK' /\ CauseNamed'
    BY <1>1, <1>3, <1>4, <2>2, <2>5
    DEF CInv, FirstOK, SettledOK, CauseNamed, RacerOK, TaskOK
  <2> QED
    BY <2>4, <2>7, <2>8 DEF CInv
<1>6. CASE race # Open
  <2>1. race' = race /\ micro' = Tail(micro)
    BY <1>3, <1>6
  <2>2. micro' \in Seq(Tasks) /\ QueueOK' /\ RaceOK'
    BY <1>1, <1>6, <2>1, ShorterOK
  <2>3. CallTypeOK'
    BY <1>1, <2>1, <2>2 DEF CallTypeOK, Tasks
  <2>4. FirstOK' /\ SettledOK' /\ CauseNamed'
    BY <1>1, <1>4, <2>1 DEF CInv, FirstOK, SettledOK, CauseNamed
  <2> QED
    BY <2>2, <2>3, <2>4 DEF CInv
<1> QED
  BY <1>5, <1>6

LEMMA CallSettlesOK == ASSUME CInv, CallSettles PROVE CInv'
<1>1. /\ CallTypeOK /\ micro # <<>> /\ micro' = Tail(micro)
      /\ timer' = IF timer = "armed" THEN "cleared" ELSE timer
      /\ UNCHANGED <<response, deaf, fetch, signal, race, first>>
  BY DEF CInv, CallSettles
<1>2. Len(micro) \in Nat \ {0} /\ Head(micro) = micro[1] /\ 1 \in 1 .. Len(micro)
  BY <1>1, TakenOK
<1>3. micro[1].what = race /\ race \in Results
  BY <1>1, <1>2, ElementTyped DEF CInv, QueueOK, TaskOK, CallSettles
<1>4. race # Open /\ fetch # "unsent"
  BY <1>1, <1>3 DEF CInv, SettledOK, Results, Readings, Codes
<1>5. /\ result' \in {race, "canceled"}
      /\ result' # race => signal /\ timer # "fired"
  BY <1>2, <1>3 DEF CallSettles, Caught
<1>6. micro' \in Seq(Tasks) /\ QueueOK' /\ RaceOK'
  BY <1>1, <1>4, ShorterOK
<1>7. CallTypeOK'
  BY <1>1, <1>3, <1>5, <1>6 DEF CallTypeOK, Tasks, Results
<1>8. FirstOK' /\ SettledOK' /\ CauseNamed'
  BY <1>1, <1>4, <1>5 DEF CInv, FirstOK, SettledOK, CauseNamed, Readings, Codes, CallTypeOK
<1> QED
  BY <1>6, <1>7, <1>8 DEF CInv

LEMMA CallNextOK == CInv /\ [CallNext]_callVars => CInv'
<1> SUFFICES ASSUME CInv, [CallNext]_callVars PROVE CInv'
  OBVIOUS
<1>1. CASE UNCHANGED callVars
  BY <1>1 DEF callVars, CInv, CallTypeOK, QueueOK, TaskOK, RaceOK, RacerOK, Before,
              FirstOK, SettledOK, CauseNamed
<1> QED
  BY <1>1, UnaryOK, CallerAbortsOK, TimerFiresOK, HeadersOK, BodyOK, NetworkFailsOK,
     HopOK, RaceSettlesOK, CallSettlesOK
  DEF CallNext, RunMicrotask

LEMMA CallInvariance == CallSpec => []CInv
BY CallInitOK, CallNextOK, PTL DEF CallSpec

-----------------------------------------------------------------------------
(* A call keeps its types, whatever the network answers.                   *)
THEOREM CallTypeCorrect == CallSpec => []CallTypeOK
<1>1. CInv => CallTypeOK
  BY DEF CInv
<1> QED
  BY <1>1, CallInvariance, PTL

(* A failed call names what ended it: the deadline and the caller only if  *)
(* they came first, and never the AbortError that either of them causes,   *)
(* whatever the order of events, microtasks and promise hops.              *)
THEOREM CauseCorrect == CallSpec => []CauseNamed
<1>1. CInv => CauseNamed
  BY DEF CInv
<1> QED
  BY <1>1, CallInvariance, PTL

(* On a gRPC answer of any frames, cut anywhere, whose statuses the two    *)
(* hear alike, the flusher and native decide alike, but for an answer that *)
(* JS cannot decode: it retries, and native takes the reports for sent.    *)
THEOREM AgreementCorrect == CallSpec => []AgreeOnGrpc
<1>1. CInv => AgreeOnGrpc
  <2> SUFFICES ASSUME CInv, result \in Readings, response.http = 200, response.grpc,
                      HeardAlike(response)
               PROVE  \/ OutcomeOf(result) = NativeOutcome(response)
                      \/ /\ result = "undecodable" /\ OutcomeOf(result) = "retry"
                         /\ NativeOutcome(response) = "sent"
    BY DEF AgreeOnGrpc
  <2>1. result = ReadAnswer(response) /\ response \in Response
    BY CallAssumption DEF CInv, SettledOK, CallTypeOK
  <2>2. NativeOutcome(response) = Verdict(JsStatus(response))
    BY <2>1, HeardAlikeOK DEF NativeOutcome
  <2>3. CASE result = JsStatus(response)
    BY <2>2, <2>3 DEF OutcomeOf
  <2>4. CASE JsStatus(response) = "ok" /\ result = "undecodable"
    BY <2>2, <2>4 DEF OutcomeOf, Verdict, Refused
  <2> QED
    BY <2>1, <2>3, <2>4 DEF ReadAnswer
<1> QED
  BY <1>1, CallInvariance, PTL

-----------------------------------------------------------------------------
(* Recursion and induction over the positions of a sequence.               *)

(* A set that holds 0, and n + 1 with each n, is that of the naturals. *)
LEMMA Induct ==
  ASSUME NEW S \in SUBSET Nat, 0 \in S, \A n \in S : n + 1 \in S
  PROVE  S = Nat
<1> SUFFICES ASSUME S # Nat PROVE FALSE
  OBVIOUS
<1> DEFINE T == Nat \ S
<1>1. PICK m \in T : \A k \in T : m <= k
  BY LeastOK
<1>2. m # 0 /\ m - 1 \in Nat
  OBVIOUS
<1>3. m - 1 \in S
  BY <1>1, <1>2
<1> QED
  BY <1>2, <1>3

(* From every element of D but the ends, next leads to one of lower rank.  *)
Descends(D, ends, bound, rank, next) ==
  /\ ends \in SUBSET D /\ bound \in Nat /\ rank \in [D -> Nat]
  /\ \A p \in D : rank[p] < bound
  /\ \A p \in D \ ends : next[p] \in D /\ rank[next[p]] < rank[p]
Keeps(D, V, ends, base, g) ==
  /\ \A p \in ends : base[p] \in V
  /\ \A p \in D \ ends : \A v \in V : g[p][v] \in V

(* A recursion over D that each step takes to a lower rank has a solution. *)
(* It starts at the elements of `ends', and works g into the value at next. *)
LEMMA Recursion ==
  ASSUME NEW D, NEW V, NEW ends, NEW bound, NEW rank, NEW next, NEW base, NEW g,
         Descends(D, ends, bound, rank, next), Keeps(D, V, ends, base, g)
  PROVE  \E f \in [D -> V] :
           f = [p \in D |-> IF p \in ends THEN base[p] ELSE g[p][f[next[p]]]]
<1> DEFINE Below(n) == {p \in D : rank[p] < n}
           Solves(f, n) ==
             \A p \in Below(n) :
               f[p] = IF p \in ends THEN base[p] ELSE g[p][f[next[p]]]
           S == {n \in Nat : \E f \in [Below(n) -> V] : Solves(f, n)}
<1> USE DEF Descends, Keeps
<1>1. 0 \in S
  <2>1. Below(0) = {}
    OBVIOUS
  <2> DEFINE f == [p \in {} |-> base[p]]
  <2>2. f \in [Below(0) -> V] /\ Solves(f, 0)
    BY <2>1
  <2> QED
    BY <2>2
<1>2. ASSUME NEW n \in S PROVE n + 1 \in S
  <2>1. PICK f \in [Below(n) -> V] : Solves(f, n)
    BY <1>2
  <2> DEFINE h == [p \in Below(n + 1) |->
                     IF p \in ends THEN base[p] ELSE g[p][f[next[p]]]]
  <2>2. n \in Nat
    OBVIOUS
  <2>3. \A p \in Below(n + 1) \ ends : next[p] \in Below(n)
    BY <2>2
  <2>4. \A p \in Below(n + 1) : h[p] \in V
    BY <2>3
  <2>5. h \in [Below(n + 1) -> V]
    BY <2>4
  <2>6. \A p \in Below(n) : p \in Below(n + 1) /\ h[p] = f[p]
    BY <2>1, <2>2
  <2>7. Solves(h, n + 1)
    <3>1. ASSUME NEW p \in Below(n + 1)
          PROVE  h[p] = IF p \in ends THEN base[p] ELSE g[p][h[next[p]]]
      <4>1. CASE p \in ends
        BY <4>1
      <4>2. CASE p \notin ends
        <5>1. h[next[p]] = f[next[p]]
          BY <2>3, <2>6, <4>2
        <5>2. h[p] = g[p][f[next[p]]]
          BY <4>2
        <5> QED
          BY <4>2, <5>1, <5>2, Zenon
      <4> QED
        BY <4>1, <4>2, ZenonT(40)
    <3> QED
      BY <3>1, ZenonT(40)
  <2> HIDE DEF h, Below, Solves
  <2>8. n + 1 \in Nat
    BY <2>2
  <2> QED
    BY <2>5, <2>7, <2>8
<1> HIDE DEF S
<1>3. S = Nat
  <2>1. S \in SUBSET Nat
    BY DEF S
  <2> QED
    BY <1>1, <1>2, <2>1, Induct
<1>4. PICK f \in [Below(bound) -> V] : Solves(f, bound)
  BY <1>3 DEF S
<1>5. Below(bound) = D
  OBVIOUS
<1>6. f \in [D -> V] /\ Solves(f, bound)
  BY <1>4, <1>5
<1>7. f = [p \in D |-> IF p \in ends THEN base[p] ELSE g[p][f[next[p]]]]
  BY <1>5, <1>6
<1> QED
  BY <1>6, <1>7, ZenonT(40)

Inherited(D, ends, next, G) ==
  /\ \A p \in ends : p \in G
  /\ \A p \in D \ ends : next[p] \in G => p \in G

(* What holds at the ends, and at a place if it does at the next, holds    *)
(* everywhere.                                                             *)
LEMMA RankInduct ==
  ASSUME NEW D, NEW ends, NEW bound, NEW rank, NEW next,
         Descends(D, ends, bound, rank, next), NEW G, Inherited(D, ends, next, G)
  PROVE  D \subseteq G
<1> DEFINE S == {n \in Nat : \A p \in D : rank[p] < n => p \in G}
<1> USE DEF Descends, Inherited
<1>1. 0 \in S
  OBVIOUS
<1>2. ASSUME NEW n \in S PROVE n + 1 \in S
  <2>1. n \in Nat /\ \A p \in D : rank[p] < n => p \in G
    OBVIOUS
  <2>2. ASSUME NEW p \in D, rank[p] < n + 1 PROVE p \in G
    <3>1. CASE p \in ends
      BY <3>1
    <3>2. CASE p \notin ends
      <4>1. next[p] \in D /\ rank[next[p]] < n
        BY <2>1, <2>2, <3>2
      <4> QED
        BY <2>1, <3>2, <4>1
    <3> QED
      BY <3>1, <3>2
  <2> QED
    BY <2>1, <2>2
<1>3. S = Nat
  <2>1. S \in SUBSET Nat
    OBVIOUS
  <2> HIDE DEF S
  <2> QED
    BY <1>1, <1>2, <2>1, Induct
<1>4. bound \in S
  BY <1>3
<1> QED
  BY <1>4

-----------------------------------------------------------------------------
(* The reference, position by position.                                    *)

LEMMA ByteAt ==
  ASSUME NEW b \in Seq(Bytes)
  PROVE  Len(b) \in Nat /\ \A p \in 1 .. Len(b) : b[p] \in 0 .. 255
<1>1. b \in [1 .. Len(b) -> Bytes] /\ Len(b) \in Nat
  BY LenProperties
<1> QED
  BY <1>1 DEF Bytes

(* The bytes from p to q as a sequence of their own. *)
LEMMA Part ==
  ASSUME NEW b \in Seq(Bytes), NEW p \in 1 .. Len(b), NEW m \in Nat, p + m - 1 <= Len(b)
  PROVE  /\ SubSeq(b, p, p + m - 1) \in Seq(Bytes)
         /\ Len(SubSeq(b, p, p + m - 1)) = m
         /\ \A k \in 1 .. m : SubSeq(b, p, p + m - 1)[k] = b[p + k - 1]
<1>1. Len(b) \in Nat /\ p \in Int /\ p + m - 1 \in Int
  BY ByteAt
<1>2. CASE m = 0
  <2>1. SubSeq(b, p, p + m - 1) = <<>>
    <3>1. p + m - 1 < p
      BY <1>1, <1>2
    <3> QED
      BY <1>1, <3>1, SubSeqEmpty
  <2> QED
    BY <1>2, <2>1, EmptySeq
<1>3. CASE m > 0
  <2>1. \A k \in p .. p + m - 1 : b[k] \in Bytes
    BY <1>1, ElementOfSeq
  <2>2. /\ SubSeq(b, p, p + m - 1) \in Seq(Bytes)
        /\ Len(SubSeq(b, p, p + m - 1)) = IF p <= p + m - 1 THEN (p + m - 1) - p + 1 ELSE 0
        /\ \A k \in 1 .. (p + m - 1) - p + 1 : SubSeq(b, p, p + m - 1)[k] = b[p + k - 1]
    BY <1>1, <2>1, SubSeqProperties
  <2>3. (p + m - 1) - p + 1 = m /\ p <= p + m - 1
    BY <1>1, <1>3
  <2> QED
    BY <2>2, <2>3
<1> QED
  BY <1>2, <1>3

(* What n bytes stand for is a natural number. *)
LEMMA ValueOK ==
  ASSUME NEW n \in 1 .. 4, NEW s \in Seq(Bytes), Len(s) = n
  PROVE  Value(s, n) \in Nat
<1>1. \A k \in 1 .. n : s[k] \in 0 .. 255
  BY ByteAt
<1>2. \A x \in 0 .. 255 : x \in Nat /\ x % 64 \in Nat /\ x % 32 \in Nat /\ x % 16 \in Nat /\ x % 8 \in Nat
  OBVIOUS
<1>3. CASE n = 1
  <2>1. s[1] \in 0 .. 255
    BY <1>1, <1>3
  <2>2. Value(s, 1) = s[1]
    BY DEF Value, LeadBits
  <2>3. s[1] \in Nat
    BY <1>2, <2>1
  <2> QED
    BY <1>3, <2>2, <2>3
<1>4. CASE n = 2
  <2>1. s[1] \in 0 .. 255 /\ s[2] \in 0 .. 255
    BY <1>1, <1>4
  <2>2. s[1] % 32 \in Nat /\ s[2] % 64 \in Nat
    BY <1>2, <2>1
  <2> QED
    BY <1>4, <2>2 DEF Value, LeadBits
<1>5. CASE n = 3
  <2>1. s[1] \in 0 .. 255 /\ s[2] \in 0 .. 255 /\ s[3] \in 0 .. 255
    BY <1>1, <1>5
  <2>2. s[1] % 16 \in Nat /\ s[2] % 64 \in Nat /\ s[3] % 64 \in Nat
    BY <1>2, <2>1
  <2> QED
    BY <1>5, <2>2, SMTT(40) DEF Value, LeadBits
<1>6. CASE n = 4
  <2>1. s[1] \in 0 .. 255 /\ s[2] \in 0 .. 255 /\ s[3] \in 0 .. 255 /\ s[4] \in 0 .. 255
    BY <1>1, <1>6
  <2>2. /\ s[1] % 8 \in Nat /\ s[2] % 64 \in Nat /\ s[3] % 64 \in Nat
        /\ s[4] % 64 \in Nat
    BY <1>2, <2>1
  <2> QED
    BY <1>6, <2>2, SMTT(40) DEF Value, LeadBits
<1> QED
  BY <1>3, <1>4, <1>5, <1>6

(* What stands at a position is one to four bytes, all of them there. *)
LEMMA LengthAtOK ==
  ASSUME NEW b \in Seq(Bytes), NEW p \in 1 .. Len(b)
  PROVE  /\ LengthAt(b, p) \in 1 .. 4 /\ p + LengthAt(b, p) <= Len(b) + 1
         /\ WellFormedAt(b, p) # {} => LengthAt(b, p) \in WellFormedAt(b, p)
         /\ SubpartAt(b, p) \in 1 .. 3 /\ p + SubpartAt(b, p) <= Len(b) + 1
<1>1. Len(b) \in Nat
  BY ByteAt
<1> DEFINE cut == {m \in 1 .. 3 : /\ p + m - 1 <= Len(b)
                                 /\ \E n \in 1 .. 4 : Begins(SubSeq(b, p, p + m - 1), n)}
<1>2. \A m \in cut : m \in 1 .. 3 /\ p + m - 1 <= Len(b)
  OBVIOUS
<1>3. SubpartAt(b, p) = Max({1} \cup cut)
  BY DEF SubpartAt
<1> HIDE DEF cut
<1>4. {1} \cup cut \in SUBSET (1 .. 3) /\ {1} \cup cut # {}
  BY <1>2
<1>5. SubpartAt(b, p) \in {1} \cup cut
  BY <1>3, <1>4, LastOK
<1>6. SubpartAt(b, p) \in 1 .. 3 /\ p + SubpartAt(b, p) <= Len(b) + 1
  BY <1>1, <1>2, <1>5
<1>7. CASE WellFormedAt(b, p) = {}
  BY <1>6, <1>7 DEF LengthAt
<1>8. CASE WellFormedAt(b, p) # {}
  <2>1. WellFormedAt(b, p) \in SUBSET (1 .. 4)
    BY DEF WellFormedAt
  <2>2. LengthAt(b, p) = Max(WellFormedAt(b, p))
    BY <1>8 DEF LengthAt
  <2>3. LengthAt(b, p) \in WellFormedAt(b, p)
    BY <1>8, <2>1, <2>2, LastOK
  <2>4. LengthAt(b, p) \in 1 .. 4 /\ p + LengthAt(b, p) - 1 <= Len(b)
    BY <2>3 DEF WellFormedAt
  <2> QED
    BY <1>1, <1>6, <2>3, <2>4
<1> QED
  BY <1>7, <1>8

LEMMA PointsAtOK ==
  ASSUME NEW b \in Seq(Bytes), NEW d, NEW p \in 1 .. Len(b)
  PROVE  PointsAt(b, d, p) \in Seq(Nat)
<1> DEFINE n == LengthAt(b, p)
           m == IF d = "maximal" THEN 1 ELSE SubpartAt(b, p)
<1>1. CASE WellFormedAt(b, p) # {}
  <2>1. n \in 1 .. 4 /\ p + n - 1 <= Len(b)
    BY LengthAtOK, ByteAt
  <2>2. Value(SubSeq(b, p, p + n - 1), n) \in Nat
    <3> HIDE DEF n
    <3>1. n \in Nat
      BY <2>1
    <3>2. SubSeq(b, p, p + n - 1) \in Seq(Bytes) /\ Len(SubSeq(b, p, p + n - 1)) = n
      BY <2>1, <3>1, Part
    <3> QED
      BY <2>1, <3>2, ValueOK
  <2> HIDE DEF n
  <2>3. <<Value(SubSeq(b, p, p + n - 1), n)>> \in Seq(Nat)
    BY <2>2
  <2> QED
    BY <1>1, <2>3 DEF n, PointsAt
<1>2. CASE WellFormedAt(b, p) = {}
  <2>1. m \in Nat
    BY LengthAtOK
  <2>2. REPLACEMENT \in Nat
    BY DEF REPLACEMENT
  <2> HIDE DEF m
  <2>3. [k \in 1 .. m |-> REPLACEMENT] \in Seq(Nat)
    BY <2>1, <2>2, IsASeq
  <2> QED
    BY <1>2, <2>3 DEF m, PointsAt
<1> QED
  BY <1>1, <1>2

(* The reference reads what stands at a position, and goes on behind it. *)
LEMMA StandardUnfolds ==
  ASSUME NEW b \in Seq(Bytes), NEW d
  PROVE  /\ StandardFrom(b, d)[Len(b) + 1] = <<>>
         /\ \A p \in 1 .. Len(b) + 1 : StandardFrom(b, d)[p] \in Seq(Nat)
         /\ \A p \in 1 .. Len(b) :
              StandardFrom(b, d)[p] = PointsAt(b, d, p) \o StandardFrom(b, d)[p + LengthAt(b, p)]
<1> DEFINE N == Len(b)
           D == 1 .. N + 1
           V == Seq(Nat)
           last == {N + 1}
           rank == [p \in D |-> N + 1 - p]
           next == [p \in D |-> p + LengthAt(b, p)]
           base == [p \in D |-> <<>>]
           g == [p \in D |-> [v \in V |-> PointsAt(b, d, p) \o v]]
<1>1. N \in Nat
  BY ByteAt
<1>2. last \in SUBSET D /\ N + 1 \in Nat /\ rank \in [D -> Nat] /\ \A p \in D : rank[p] < N + 1
  BY <1>1
<1>3. \A p \in last : base[p] \in V
  BY <1>1, EmptySeq
<1>4. \A p \in D \ last : p \in 1 .. N
  BY <1>1
<1>5. \A p \in D \ last : next[p] \in D /\ rank[next[p]] < rank[p]
  <2>1. TAKE p \in D \ last
  <2>2. LengthAt(b, p) \in 1 .. 4 /\ p + LengthAt(b, p) <= N + 1
    BY <1>4, LengthAtOK
  <2>3. p \in 1 .. N
    BY <1>4
  <2>4. p + LengthAt(b, p) \in D /\ N + 1 - (p + LengthAt(b, p)) < N + 1 - p
    BY <1>1, <2>2, <2>3
  <2> QED
    BY <2>4
<1>6. \A p \in D \ last : \A v \in V : g[p][v] \in V
  <2>1. TAKE p \in D \ last
  <2>2. TAKE v \in V
  <2>3. PointsAt(b, d, p) \in Seq(Nat)
    BY <1>4, PointsAtOK
  <2> QED
    BY <2>3, ConcatProperties
<1> DEFINE F(f) == [p \in D |-> IF p > N THEN <<>> ELSE PointsAt(b, d, p) \o f[p + LengthAt(b, p)]]
<1>7. \E f \in [D -> V] : f = F(f)
  <2> HIDE DEF D, V, last, rank, next, base, g, N
  <2>1. \E f \in [D -> V] : f = [p \in D |-> IF p \in last THEN base[p] ELSE g[p][f[next[p]]]]
    <3>1. Descends(D, last, N + 1, rank, next)
      BY <1>2, <1>5 DEF Descends
    <3>2. Keeps(D, V, last, base, g)
      BY <1>3, <1>6 DEF Keeps
    <3> QED
      BY <3>1, <3>2, Recursion
  <2>2. PICK f \in [D -> V] : f = [p \in D |-> IF p \in last THEN base[p] ELSE g[p][f[next[p]]]]
    BY <2>1, SMTT(40)
  <2>3. ASSUME NEW p \in D PROVE f[p] = F(f)[p]
    <3>1. CASE p \in last
      BY <1>1, <2>2, <3>1 DEF last, base
    <3>2. CASE p \notin last
      <4>1. f[p] = g[p][f[next[p]]]
        BY <2>2, <3>2, ZenonT(40)
      <4>2. next[p] = p + LengthAt(b, p) /\ next[p] \in D
        BY <1>5, <3>2 DEF next
      <4>3. f[next[p]] \in V
        BY <4>2
      <4>4. g[p][f[next[p]]] = PointsAt(b, d, p) \o f[p + LengthAt(b, p)]
        BY <4>2, <4>3 DEF g
      <4>5. ~(p > N)
        BY <1>1, <1>4, <3>2
      <4> QED
        BY <4>1, <4>4, <4>5
    <3> QED
      BY <3>1, <3>2
  <2>4. f = F(f)
    BY <2>3
  <2> QED
    BY <2>4
<1>8. StandardFrom(b, d) = CHOOSE f : f = F(f)
  BY DEF StandardFrom
<1> DEFINE s == StandardFrom(b, d)
<1>9. s = F(s)
  <2> HIDE DEF F
  <2> QED
    BY <1>7, <1>8
<1> HIDE DEF s
<1>10. s[N + 1] = <<>>
  <2>1. N + 1 \in D /\ N + 1 > N
    BY <1>1
  <2> QED
    BY <1>9, <2>1
<1>11. \A p \in 1 .. N : s[p] = PointsAt(b, d, p) \o s[p + LengthAt(b, p)]
  <2>1. \A p \in 1 .. N : p \in D /\ ~(p > N)
    BY <1>1
  <2> QED
    BY <1>9, <2>1
<1>12. \A p \in D : s[p] \in V
  <2> DEFINE G == {p \in D : s[p] \in V}
  <2>1. \A p \in last : p \in G
    <3>1. N + 1 \in D /\ <<>> \in V
      BY <1>1, EmptySeq
    <3> QED
      BY <1>10, <3>1
  <2>2. \A p \in D \ last : next[p] \in G => p \in G
    <3>1. TAKE p \in D \ last
    <3>2. HAVE next[p] \in G
    <3>3. s[p + LengthAt(b, p)] \in V /\ PointsAt(b, d, p) \in V
      BY <1>4, <3>2, PointsAtOK
    <3>4. s[p] = PointsAt(b, d, p) \o s[p + LengthAt(b, p)]
      BY <1>4, <1>11
    <3> QED
      BY <3>3, <3>4, ConcatProperties, ZenonT(40)
  <2>3. D \subseteq G
    <3> HIDE DEF G, D, V, last, rank, next, s, N
    <3>1. Descends(D, last, N + 1, rank, next)
      BY <1>2, <1>5 DEF Descends
    <3>2. Inherited(D, last, next, G)
      BY <2>1, <2>2 DEF Inherited
    <3> QED
      BY <3>1, <3>2, RankInduct
  <2> QED
    BY <2>3
<1> QED
  BY <1>10, <1>11, <1>12 DEF s

(* What stands at a position is ill-formed, or something behind it. *)
LEMMA IllFormedUnfolds ==
  ASSUME NEW b \in Seq(Bytes)
  PROVE  /\ ~IllFormedFrom(b)[Len(b) + 1]
         /\ \A p \in 1 .. Len(b) :
              IllFormedFrom(b)[p] <=>
                WellFormedAt(b, p) = {} \/ IllFormedFrom(b)[p + LengthAt(b, p)]
<1> DEFINE N == Len(b)
           D == 1 .. N + 1
           last == {N + 1}
           rank == [p \in D |-> N + 1 - p]
           next == [p \in D |-> p + LengthAt(b, p)]
           base == [p \in D |-> FALSE]
           g == [p \in D |-> [v \in BOOLEAN |-> WellFormedAt(b, p) = {} \/ v]]
<1>1. N \in Nat
  BY ByteAt
<1>2. last \in SUBSET D /\ N + 1 \in Nat /\ rank \in [D -> Nat] /\ \A p \in D : rank[p] < N + 1
  BY <1>1
<1>3. \A p \in D \ last : p \in 1 .. N
  BY <1>1
<1>4. \A p \in D \ last : next[p] \in D /\ rank[next[p]] < rank[p]
  <2>1. TAKE p \in D \ last
  <2>2. LengthAt(b, p) \in 1 .. 4 /\ p + LengthAt(b, p) <= N + 1
    BY <1>3, LengthAtOK
  <2>3. p \in 1 .. N
    BY <1>3
  <2>4. p + LengthAt(b, p) \in D /\ N + 1 - (p + LengthAt(b, p)) < N + 1 - p
    BY <1>1, <2>2, <2>3
  <2> QED
    BY <2>4
<1>5. Descends(D, last, N + 1, rank, next)
  <2> HIDE DEF D, last, rank, next, N
  <2> QED
    BY <1>2, <1>4 DEF Descends
<1>6. Keeps(D, BOOLEAN, last, base, g)
  <2>1. \A p \in last : base[p] \in BOOLEAN
    <3>1. \A p \in last : p \in D
      BY <1>1
    <3> QED
      BY <3>1
  <2>2. \A p \in D \ last : \A v \in BOOLEAN : g[p][v] \in BOOLEAN
    OBVIOUS
  <2> HIDE DEF D, last, base, g
  <2> QED
    BY <2>1, <2>2 DEF Keeps
<1> DEFINE F(f) == [p \in D |-> IF p > N THEN FALSE
                                ELSE WellFormedAt(b, p) = {} \/ f[p + LengthAt(b, p)]]
<1>7. \E f \in [D -> BOOLEAN] : f = F(f)
  <2>1. \E f \in [D -> BOOLEAN] : f = [p \in D |-> IF p \in last THEN base[p] ELSE g[p][f[next[p]]]]
    <3> HIDE DEF D, last, rank, next, base, g, N
    <3> QED
      BY <1>5, <1>6, Recursion
  <2> HIDE DEF D, last, rank, next, base, g, N
  <2>2. PICK f \in [D -> BOOLEAN] : f = [p \in D |-> IF p \in last THEN base[p] ELSE g[p][f[next[p]]]]
    BY <2>1
  <2>3. ASSUME NEW p \in D PROVE f[p] = F(f)[p]
    <3>1. CASE p \in last
      <4>1. p > N
        BY <1>1, <3>1 DEF last
      <4>2. f[p] = FALSE
        BY <2>2, <3>1 DEF base
      <4> QED
        BY <4>1, <4>2
    <3>2. CASE p \notin last
      <4>1. f[p] = g[p][f[next[p]]]
        BY <2>2, <3>2, ZenonT(40)
      <4>2. next[p] = p + LengthAt(b, p) /\ next[p] \in D
        BY <1>4, <3>2 DEF next
      <4>3. f[next[p]] \in BOOLEAN
        BY <4>2
      <4>4. g[p][f[next[p]]] = (WellFormedAt(b, p) = {} \/ f[p + LengthAt(b, p)])
        BY <4>2, <4>3, Zenon DEF g
      <4>5. ~(p > N)
        BY <1>1, <1>3, <3>2
      <4> QED
        BY <4>1, <4>4, <4>5, Zenon
    <3> QED
      BY <3>1, <3>2
  <2>4. f = F(f)
    BY <2>3
  <2> QED
    BY <2>4
<1>8. IllFormedFrom(b) = CHOOSE f : f = F(f)
  BY DEF IllFormedFrom
<1> DEFINE s == IllFormedFrom(b)
<1>9. s = F(s)
  <2> HIDE DEF F
  <2> QED
    BY <1>7, <1>8
<1> HIDE DEF s
<1>10. ~s[N + 1]
  <2>1. N + 1 \in D /\ N + 1 > N
    BY <1>1
  <2> QED
    BY <1>9, <2>1
<1>11. \A p \in 1 .. N : s[p] <=> WellFormedAt(b, p) = {} \/ s[p + LengthAt(b, p)]
  <2>1. \A p \in 1 .. N : p \in D /\ ~(p > N)
    BY <1>1
  <2> QED
    BY <1>9, <2>1
<1> QED
  BY <1>10, <1>11 DEF s

-----------------------------------------------------------------------------
(* Sequences of sequences, one after the other.                            *)

(* s is what ss holds, its kth element at the positions up to ends[k].     *)
Joined(ss, s, ends) ==
  /\ ends \in [0 .. Len(ss) -> Nat] /\ ends[0] = 0 /\ ends[Len(ss)] = Len(s)
  /\ \A k \in 1 .. Len(ss) : /\ ends[k] = ends[k - 1] + Len(ss[k]) /\ ends[k] <= Len(s)
                            /\ \A j \in 1 .. Len(ss[k]) : s[ends[k - 1] + j] = ss[k][j]

(* The concatenation of sequences holds each of them, in their order. *)
LEMMA FlattenOK ==
  ASSUME NEW V, NEW ss \in Seq(Seq(V))
  PROVE  FlattenSeq(ss) \in Seq(V) /\ \E ends : Joined(ss, FlattenSeq(ss), ends)
<1> DEFINE n == Len(ss)
           D == 1 .. n
           W == Seq(V)
<1>1. n \in Nat /\ ss \in [1 .. n -> W]
  BY LenProperties
<1>2. CASE n = 0
  <2>1. ss = <<>> /\ FlattenSeq(ss) = <<>>
    BY <1>1, <1>2, EmptySeq DEF FlattenSeq
  <2>2. <<>> \in Seq(V) /\ Len(<<>>) = 0
    BY EmptySeq
  <2>3. Joined(ss, <<>>, [k \in 0 .. 0 |-> 0])
    BY <1>2, <2>2 DEF Joined
  <2> QED
    BY <2>1, <2>2, <2>3
<1>3. CASE n > 0
  <2> DEFINE rank == [k \in D |-> k]
             next == [k \in D |-> k - 1]
             g == [k \in D |-> [v \in W |-> v \o ss[k]]]
             F(f) == [k \in D |-> IF k = 1 THEN ss[k] ELSE f[k - 1] \o ss[k]]
  <2>1. Descends(D, {1}, n + 1, rank, next)
    <3>1. {1} \in SUBSET D /\ n + 1 \in Nat /\ rank \in [D -> Nat] /\ \A k \in D : rank[k] < n + 1
      BY <1>1, <1>3
    <3>2. \A k \in D \ {1} : next[k] \in D /\ rank[next[k]] < rank[k]
      BY <1>1
    <3> HIDE DEF D, rank, next, n
    <3> QED
      BY <3>1, <3>2 DEF Descends
  <2>2. \A k \in D : ss[k] \in W
    BY <1>1
  <2>3. Keeps(D, W, {1}, ss, g)
    <3>1. \A k \in {1} : ss[k] \in W
      BY <1>1, <1>3, <2>2
    <3>2. \A k \in D \ {1} : \A v \in W : g[k][v] \in W
      BY <2>2, ConcatProperties
    <3> HIDE DEF D, W, g
    <3> QED
      BY <3>1, <3>2 DEF Keeps
  <2>4. \E f \in [D -> W] : f = [k \in D |-> IF k \in {1} THEN ss[k] ELSE g[k][f[next[k]]]]
    <3> HIDE DEF D, W, rank, next, g, n
    <3> QED
      BY <2>1, <2>3, Recursion
  <2>5. PICK e \in [D -> W] : e = [k \in D |-> IF k \in {1} THEN ss[k] ELSE g[k][e[next[k]]]]
    BY <2>4
  <2>6. ASSUME NEW k \in D PROVE e[k] = F(e)[k]
    <3>1. CASE k = 1
      BY <2>5, <3>1
    <3>2. CASE k # 1
      <4>1. k - 1 \in D
        BY <1>1, <3>2
      <4> HIDE DEF D, W
      <4>2. e[k - 1] \in W
        BY <4>1
      <4>3. e[k] = g[k][e[next[k]]]
        BY <2>5, <3>2
      <4>4. g[k][e[next[k]]] = e[k - 1] \o ss[k]
        BY <4>2
      <4> QED
        BY <3>2, <4>3, <4>4
    <3> QED
      BY <3>1, <3>2
  <2>7. e = F(e)
    <3>1. e = [k \in D |-> e[k]]
      OBVIOUS
    <3> HIDE DEF D, W
    <3> QED
      BY <2>6, <3>1
  <2> DEFINE f == CHOOSE h : h = F(h)
  <2>8. f = F(f)
    <3> HIDE DEF F
    <3> QED
      BY <2>7
  <2>9. FlattenSeq(ss) = f[n]
    BY <1>3 DEF FlattenSeq
  <2> HIDE DEF f
  <2>10. f[1] = ss[1] /\ \A k \in D \ {1} : f[k] = f[k - 1] \o ss[k]
    <3>1. 1 \in D
      BY <1>1, <1>3
    <3> HIDE DEF D
    <3> QED
      BY <2>8, <3>1
  <2> HIDE DEF F
  <2>11. \A k \in D : f[k] \in W
    <3> DEFINE G == {k \in D : f[k] \in W}
    <3>1. 1 \in G
      BY <1>1, <1>3, <2>2, <2>10
    <3>2. \A k \in D \ {1} : next[k] \in G => k \in G
      <4>1. TAKE k \in D \ {1}
      <4>2. HAVE next[k] \in G
      <4>3. f[k - 1] \in Seq(V) /\ ss[k] \in Seq(V)
        BY <2>2, <4>2
      <4>4. f[k - 1] \o ss[k] \in Seq(V)
        BY <4>3, ConcatProperties
      <4> QED
        BY <2>10, <4>4
    <3>3. D \subseteq G
      <4> HIDE DEF G, D, W, next, rank, n
      <4>1. Inherited(D, {1}, next, G)
        BY <3>1, <3>2 DEF Inherited
      <4> QED
        BY <2>1, <4>1, RankInduct
    <3> QED
      BY <3>3
  <2> DEFINE ends == [k \in 0 .. n |-> IF k = 0 THEN 0 ELSE Len(f[k])]
  <2>12. \A k \in D : Len(f[k]) \in Nat /\ Len(ss[k]) \in Nat
    BY <2>2, <2>11, LenProperties
  <2>13. ends \in [0 .. n -> Nat] /\ ends[0] = 0 /\ \A k \in D : ends[k] = Len(f[k])
    BY <1>1, <2>12
  <2>14. \A k \in D \ {1} : k - 1 \in D /\ f[k - 1] \in W /\ ss[k] \in W
    BY <1>1, <2>2, <2>11
  <2>15. \A k \in D \ {1} :
           /\ Len(f[k]) = Len(f[k - 1]) + Len(ss[k])
           /\ \A j \in 1 .. Len(f[k - 1]) + Len(ss[k]) :
                f[k][j] = IF j <= Len(f[k - 1]) THEN f[k - 1][j] ELSE ss[k][j - Len(f[k - 1])]
    <3> HIDE DEF D, W
    <3>1. TAKE k \in D \ {1}
    <3>2. f[k - 1] \in W /\ ss[k] \in W /\ f[k] = f[k - 1] \o ss[k]
      BY <2>10, <2>14
    <3>3. /\ Len(f[k - 1] \o ss[k]) = Len(f[k - 1]) + Len(ss[k])
          /\ \A j \in 1 .. Len(f[k - 1]) + Len(ss[k]) :
               (f[k - 1] \o ss[k])[j] = IF j <= Len(f[k - 1]) THEN f[k - 1][j] ELSE ss[k][j - Len(f[k - 1])]
      <4>1. f[k - 1] \in Seq(V) /\ ss[k] \in Seq(V)
        BY <3>2 DEF W
      <4> QED
        BY <4>1, ConcatProperties, ZenonT(40)
    <3> QED
      BY <3>2, <3>3
  <2> HIDE DEF ends, W
  <2>16. \A k \in D : ends[k] = ends[k - 1] + Len(ss[k])
    <3>1. TAKE k \in D
    <3>2. CASE k = 1
      BY <2>10, <2>12, <2>13, <3>2
    <3>3. CASE k # 1
      BY <2>13, <2>14, <2>15, <3>3
    <3> QED
      BY <3>2, <3>3
  <2> DEFINE Stands(k) ==
               \A l \in 1 .. k : /\ ends[l] <= ends[k]
                                 /\ \A j \in 1 .. Len(ss[l]) : f[k][ends[l - 1] + j] = ss[l][j]
             G == {k \in D : Stands(k)}
  <2>17. 1 \in G
    <3>1. 1 \in D
      BY <1>1, <1>3
    <3>2. \A l \in 1 .. 1 : l = 1
      OBVIOUS
    <3>3. Stands(1)
      BY <2>10, <2>12, <2>13, <3>1, <3>2
    <3> QED
      BY <3>1, <3>3
  <2>18. \A k \in D \ {1} : next[k] \in G => k \in G
    <3>1. TAKE k \in D \ {1}
    <3>2. HAVE next[k] \in G
    <3>3. k - 1 \in D /\ Stands(k - 1)
      BY <3>2
    <3>4. /\ ends[k] = ends[k - 1] + Len(ss[k]) /\ ends[k - 1] = Len(f[k - 1])
          /\ ends[k - 1] \in Nat /\ Len(ss[k]) \in Nat /\ k \in Nat
      BY <1>1, <2>12, <2>13, <2>16, <3>3, SMTT(40)
    <3>6. PICK a \in Nat, c \in Nat : a = ends[k - 1] /\ c = Len(ss[k])
      BY <3>4
    <3> HIDE DEF Stands, G, D
    <3>7. \A j \in 1 .. a + c : f[k][j] = IF j <= a THEN f[k - 1][j] ELSE ss[k][j - a]
      <4>1. Len(f[k - 1]) = a /\ Len(ss[k]) = c
        BY <3>4, <3>6
      <4> QED
        BY <2>15, <4>1
    <3>5. ASSUME NEW l \in 1 .. k
          PROVE  /\ ends[l] <= ends[k]
                 /\ \A j \in 1 .. Len(ss[l]) : f[k][ends[l - 1] + j] = ss[l][j]
      <4>1. CASE l = k
        <5>1. ASSUME NEW j \in 1 .. Len(ss[k]) PROVE f[k][ends[k - 1] + j] = ss[k][j]
          <6>1. a + j \in 1 .. a + c /\ ~(a + j <= a) /\ a + j - a = j
            BY <3>6, SMTT(40)
          <6>2. f[k][a + j] = ss[k][a + j - a]
            BY <3>7, <6>1
          <6> QED
            BY <3>6, <6>1, <6>2
        <5>2. ends[k] <= ends[k]
          <6>1. ends[k] = a + c
            BY <3>4, <3>6
          <6> QED
            BY <6>1
        <5> QED
          BY <4>1, <5>1, <5>2
      <4>2. CASE l # k
        <5>1. l \in 1 .. k - 1 /\ l \in D
          BY <1>1, <3>4, <4>2 DEF D
        <5>2. ends[l] <= ends[k - 1] /\ \A j \in 1 .. Len(ss[l]) : f[k - 1][ends[l - 1] + j] = ss[l][j]
          BY <3>3, <5>1 DEF Stands
        <5>3. /\ ends[l] = ends[l - 1] + Len(ss[l]) /\ ends[l - 1] \in Nat /\ Len(ss[l]) \in Nat
              /\ ends[l] \in Nat
          <6>1. l - 1 \in 0 .. n /\ l \in 0 .. n
            BY <1>1, <5>1 DEF D
          <6> QED
            BY <2>12, <2>13, <2>16, <5>1, <6>1
        <5>6. PICK x \in Nat, y \in Nat : x = ends[l - 1] /\ y = Len(ss[l])
          BY <5>3
        <5>7. x + y <= a
          BY <3>6, <5>2, <5>3, <5>6
        <5>4. ASSUME NEW j \in 1 .. Len(ss[l]) PROVE f[k][ends[l - 1] + j] = f[k - 1][ends[l - 1] + j]
          <6>1. x + j \in 1 .. a + c /\ x + j <= a
            BY <5>6, <5>7, SMTT(40)
          <6>2. f[k][x + j] = f[k - 1][x + j]
            BY <3>7, <6>1
          <6> QED
            BY <5>6, <6>2
        <5>5. ends[l] <= ends[k]
          <6>1. ends[l] = x + y /\ ends[k] = a + c
            BY <3>4, <3>6, <5>3, <5>6
          <6> QED
            BY <5>7, <6>1
        <5> QED
          BY <5>2, <5>4, <5>5
      <4> QED
        BY <4>1, <4>2
    <3> QED
      BY <3>5 DEF Stands, G
  <2>19. \A k \in D : Stands(k)
    <3>1. D \subseteq G
      <4> HIDE DEF G, D, next, rank, n
      <4>1. Inherited(D, {1}, next, G)
        BY <2>17, <2>18 DEF Inherited
      <4> QED
        BY <2>1, <4>1, RankInduct
    <3> QED
      BY <3>1
  <2>20. n \in D
    BY <1>1, <1>3
  <2>21. Joined(ss, f[n], ends)
    <3>1. ends[n] = Len(f[n])
      BY <2>13, <2>20
    <3>2. \A k \in 1 .. n : ends[k] <= Len(f[n]) /\ \A j \in 1 .. Len(ss[k]) : f[n][ends[k - 1] + j] = ss[k][j]
      BY <2>19, <2>20, <3>1
    <3> QED
      BY <2>13, <2>16, <3>1, <3>2 DEF Joined
  <2>22. f[n] \in Seq(V)
    BY <2>11, <2>20 DEF W
  <2> QED
    BY <2>9, <2>21, <2>22
<1> QED
  BY <1>1, <1>2, <1>3

-----------------------------------------------------------------------------
(* The tables of the decoders against the reference.                       *)

(* The m bytes from p are what a sequence of n may begin with, by the      *)
(* windows of decodeUtf8MaximalSubpart.                                    *)
Fits(b, p, n, m) ==
  /\ m \in 1 .. n /\ p + m - 1 <= Len(b) /\ n = LengthMaximal(b[p])
  /\ m >= 2 => b[p + 1] \in Window(b[p])
  /\ m >= 3 => b[p + 2] \in Continuation
  /\ m >= 4 => b[p + 3] \in Continuation

(* The bits of leading and other bytes. *)
LEMMA Bits ==
  /\ \A x \in 128 .. 191 : x % 64 = x - 128
  /\ \A x \in 192 .. 223 : x % 32 = x - 192
  /\ \A x \in 224 .. 239 : x % 16 = x - 224
  /\ \A x \in 240 .. 247 : x % 8 = x - 240
OBVIOUS

(* The value of a beginning that is completed with bytes x. *)
Padded(s, n, x) == Value(s \o [k \in 1 .. n - Len(s) |-> x], n)
Filled(s, m, n, x) ==
  LET c(k) == IF k <= m THEN s[k] ELSE x
  IN  CASE n = 1 -> s[1]
        [] n = 2 -> (s[1] % 32) * 64 + (c(2) % 64)
        [] n = 3 -> ((s[1] % 16) * 64 + (c(2) % 64)) * 64 + (c(3) % 64)
        [] n = 4 -> (((s[1] % 8) * 64 + (c(2) % 64)) * 64 + (c(3) % 64)) * 64 + (c(4) % 64)

(* What a completed beginning stands for, byte by byte. *)
LEMMA PadValue ==
  ASSUME NEW s \in Seq(Bytes), NEW m \in 1 .. 4, Len(s) = m, NEW n \in m .. 4, NEW x \in Bytes
  PROVE  Padded(s, n, x) = Filled(s, m, n, x)
<1> USE DEF Padded, Filled
<1> DEFINE t == [k \in 1 .. n - Len(s) |-> x]
           w == s \o t
<1>1. t \in Seq(Bytes) /\ Len(t) = n - m /\ \A k \in 1 .. n - m : t[k] = x
  <2>1. n - Len(s) \in Nat
    OBVIOUS
  <2> QED
    BY <2>1
<1>2. \A k \in 1 .. n : w[k] = IF k <= m THEN s[k] ELSE x
  <2>1. /\ Len(s) + Len(t) = n
        /\ \A k \in 1 .. Len(s) + Len(t) : w[k] = IF k <= Len(s) THEN s[k] ELSE t[k - Len(s)]
    <3> HIDE DEF t
    <3>1. \A k \in 1 .. Len(s) + Len(t) : (s \o t)[k] = IF k <= Len(s) THEN s[k] ELSE t[k - Len(s)]
      BY <1>1, ConcatProperties
    <3> QED
      BY <1>1, <3>1
  <2> HIDE DEF t, w
  <2>2. TAKE k \in 1 .. n
  <2>3. k > m => k - m \in 1 .. n - m
    OBVIOUS
  <2>4. w[k] = IF k <= Len(s) THEN s[k] ELSE t[k - Len(s)]
    BY <2>1
  <2> HIDE DEF Filled, Padded
  <2>5. CASE k <= m
    BY <2>4, <2>5
  <2>6. CASE k > m
    <3>1. w[k] = t[k - m]
      BY <2>4, <2>6
    <3>2. t[k - m] = x
      BY <1>1, <2>3, <2>6
    <3> QED
      BY <2>6, <3>1, <3>2
  <2> QED
    BY <2>5, <2>6
<1> HIDE DEF w
<1>3. w[1] = s[1]
  <2>1. 1 \in 1 .. n /\ 1 <= m
    OBVIOUS
  <2> QED
    BY <1>2, <2>1
<1>4. CASE n = 1
  BY <1>3, <1>4 DEF Value, LeadBits, w
<1>5. CASE n = 2
  <2>1. w[2] = IF 2 <= m THEN s[2] ELSE x
    BY <1>2, <1>5
  <2>2. Value(w, n) = (w[1] % 32) * 64 + (w[2] % 64)
    BY <1>5 DEF Value, LeadBits
  <2> QED
    BY <1>3, <1>5, <2>1, <2>2 DEF w
<1>6. CASE n = 3
  <2>1. w[2] = (IF 2 <= m THEN s[2] ELSE x) /\ w[3] = (IF 3 <= m THEN s[3] ELSE x)
    BY <1>2, <1>6
  <2>2. Value(w, n) = ((w[1] % 16) * 64 + (w[2] % 64)) * 64 + (w[3] % 64)
    BY <1>6 DEF Value, LeadBits
  <2> QED
    BY <1>3, <1>6, <2>1, <2>2, SMTT(40) DEF w
<1>7. CASE n = 4
  <2>1. /\ w[2] = (IF 2 <= m THEN s[2] ELSE x) /\ w[3] = (IF 3 <= m THEN s[3] ELSE x)
        /\ w[4] = (IF 4 <= m THEN s[4] ELSE x)
    BY <1>2, <1>7
  <2>2. Value(w, n) = (((w[1] % 8) * 64 + (w[2] % 64)) * 64 + (w[3] % 64)) * 64 + (w[4] % 64)
    BY <1>7 DEF Value, LeadBits
  <2> QED
    BY <1>3, <1>7, <2>1, <2>2, SMTT(40) DEF w
<1> QED
  BY <1>4, <1>5, <1>6, <1>7

(* The windows, by their bounds. *)
LEMMA WindowOK ==
  ASSUME NEW a \in 0 .. 255, NEW c \in 128 .. 191
  PROVE  c \in Window(a) <=> /\ a = 224 => c >= 160
                             /\ a = 237 => c <= 159
                             /\ a = 240 => c >= 144
                             /\ a = 244 => c <= 143
<1>1. CASE a = 224
  BY <1>1 DEF Window
<1>2. CASE a = 237
  BY <1>2 DEF Window
<1>3. CASE a = 240
  BY <1>3 DEF Window
<1>4. CASE a = 244
  BY <1>4 DEF Window
<1>5. CASE a \notin {224, 237, 240, 244}
  <2>1. Window(a) = 128 .. 191
    BY <1>5 DEF Window, Continuation
  <2> QED
    BY <1>5, <2>1
<1> QED
  BY <1>1, <1>2, <1>3, <1>4, <1>5

(* The same for the leads of three and of four bytes. *)
LEMMA WindowOfMore ==
  ASSUME NEW a, NEW c, a \in 224 .. 239 \/ a \in 240 .. 244, c \in 128 .. 191
  PROVE  c \in Window(a) <=> /\ a = 224 => c >= 160
                             /\ a = 237 => c <= 159
                             /\ a = 240 => c >= 144
                             /\ a = 244 => c <= 143
<1>1. a \in 0 .. 255
  OBVIOUS
<1> QED
  BY <1>1, WindowOK

(* Some scalar value of n bytes is between low and high. *)
Meets(n, low, high) == \E r \in Scalars(n) : r[1] <= high /\ low <= r[2]

(* The scalar values of n bytes, by their bounds. *)
LEMMA MeetsOK ==
  ASSUME NEW low \in Nat, NEW high \in Nat
  PROVE  /\ Meets(1, low, high) <=> 0 <= high /\ low <= 127
         /\ Meets(2, low, high) <=> 128 <= high /\ low <= 2047
         /\ Meets(3, low, high) <=> \/ 2048 <= high /\ low <= 55295
                                    \/ 57344 <= high /\ low <= 65535
         /\ Meets(4, low, high) <=> 65536 <= high /\ low <= 1114111
<1>1. /\ Scalars(1) = {<<0, 127>>} /\ Scalars(2) = {<<128, 2047>>}
      /\ Scalars(3) = {<<2048, 55295>>, <<57344, 65535>>}
      /\ Scalars(4) = {<<65536, 1114111>>}
  BY DEF Scalars
<1> DEFINE In(r) == r[1] <= high /\ low <= r[2]
<1>2. /\ In(<<0, 127>>) <=> 0 <= high /\ low <= 127
      /\ In(<<128, 2047>>) <=> 128 <= high /\ low <= 2047
      /\ In(<<2048, 55295>>) <=> 2048 <= high /\ low <= 55295
      /\ In(<<57344, 65535>>) <=> 57344 <= high /\ low <= 65535
      /\ In(<<65536, 1114111>>) <=> 65536 <= high /\ low <= 1114111
  OBVIOUS
<1>3. \A n : Meets(n, low, high) <=> \E r \in Scalars(n) : In(r)
  BY DEF Meets
<1> HIDE DEF In
<1>4. /\ Meets(1, low, high) <=> In(<<0, 127>>)
      /\ Meets(2, low, high) <=> In(<<128, 2047>>)
      /\ Meets(3, low, high) <=> In(<<2048, 55295>>) \/ In(<<57344, 65535>>)
      /\ Meets(4, low, high) <=> In(<<65536, 1114111>>)
  BY <1>1, <1>3, SMT
<1> QED
  BY <1>2, <1>4, SMT

(* What a beginning of three or four bytes leaves meets the scalars if its *)
(* second byte is in the window.                                           *)
Base3(a, c) == (a - 224) * 4096 + (c - 128) * 64
Base4(a, c) == (a - 240) * 262144 + (c - 128) * 4096
Within3(a, c, low, high) ==
  low \in Nat /\ high \in Nat /\ Base3(a, c) <= low /\ low <= high /\ high <= Base3(a, c) + 63
Within4(a, c, low, high) ==
  low \in Nat /\ high \in Nat /\ Base4(a, c) <= low /\ low <= high /\ high <= Base4(a, c) + 4095

LEMMA Meets3 ==
  ASSUME NEW a \in 224 .. 239, NEW c \in 128 .. 191, NEW low, NEW high, Within3(a, c, low, high)
  PROVE  Meets(3, low, high) <=> c \in Window(a)
<1> USE DEF Base3, Within3
<1>1. Meets(3, low, high) <=> \/ 2048 <= high /\ low <= 55295
                              \/ 57344 <= high /\ low <= 65535
  BY MeetsOK, SMTT(40)
<1>2. c \in Window(a) <=> (a = 224 => c >= 160) /\ (a = 237 => c <= 159)
  BY WindowOK, SMT
<1>3. CASE a = 224
  BY <1>1, <1>2, <1>3, SMT
<1>4. CASE a = 237
  BY <1>1, <1>2, <1>4, SMT
<1>5. CASE a \in 225 .. 236
  BY <1>1, <1>2, <1>5, SMT
<1>6. CASE a \in 238 .. 239
  BY <1>1, <1>2, <1>6, SMT
<1> QED
  BY <1>3, <1>4, <1>5, <1>6

LEMMA Meets4 ==
  ASSUME NEW a \in 240 .. 247, NEW c \in 128 .. 191, NEW low, NEW high, Within4(a, c, low, high)
  PROVE  Meets(4, low, high) <=> a <= 244 /\ c \in Window(a)
<1> USE DEF Base4, Within4
<1>1. Meets(4, low, high) <=> 65536 <= high /\ low <= 1114111
  BY MeetsOK, SMTT(40)
<1>2. c \in Window(a) <=> (a = 240 => c >= 144) /\ (a = 244 => c <= 143)
  BY WindowOK, SMT
<1>3. CASE a = 240
  BY <1>1, <1>2, <1>3, SMT
<1>4. CASE a = 244
  BY <1>1, <1>2, <1>4, SMT
<1>5. CASE a \in 241 .. 243
  BY <1>1, <1>2, <1>5, SMT
<1>6. CASE a \in 245 .. 247
  BY <1>1, <1>2, <1>6, SMT
<1> QED
  BY <1>3, <1>4, <1>5, <1>6

(* The leads, by their bounds. *)
LEMMA LengthMaximalOK ==
  ASSUME NEW a \in 0 .. 255
  PROVE  /\ 1 = LengthMaximal(a) <=> a <= 127
         /\ 2 = LengthMaximal(a) <=> a \in 194 .. 223
         /\ 3 = LengthMaximal(a) <=> a \in 224 .. 239
         /\ 4 = LengthMaximal(a) <=> a \in 240 .. 244
         /\ LengthMaximal(a) \in 0 .. 4
BY DEF LengthMaximal

Leads(n) == CASE n = 1 -> 0 .. 127 [] n = 2 -> 192 .. 223
              [] n = 3 -> 224 .. 239 [] n = 4 -> 240 .. 247

LEMMA BeginsIs ==
  ASSUME NEW s, NEW n \in 1 .. 4, NEW m, Len(s) = m
  PROVE  Begins(s, n) <=>
           /\ m <= n
           /\ s[1] \in Leads(n)
           /\ \A k \in 2 .. m : s[k] \in 128 .. 191
           /\ Meets(n, Padded(s, n, 128), Padded(s, n, 191))
BY SMT DEF Begins, Meets, Padded, Leads

(* s may begin a form of n bytes if its lead asks for n and each of its    *)
(* other bytes is in its window.                                           *)
Opens(s, m, n) ==
  /\ m <= n /\ n = LengthMaximal(s[1])
  /\ m >= 2 => s[2] \in Window(s[1])
  /\ m >= 3 => s[3] \in Continuation
  /\ m >= 4 => s[4] \in Continuation

InBytes(s, m) == \A k \in 1 .. m : s[k] \in 0 .. 255

LEMMA FilledOK ==
  ASSUME NEW s, NEW m \in 1 .. 4, NEW n \in 1 .. 4, InBytes(s, m)
  PROVE  (/\ m <= n /\ s[1] \in Leads(n)
          /\ \A k \in 2 .. m : s[k] \in 128 .. 191
          /\ Meets(n, Filled(s, m, n, 128), Filled(s, m, n, 191)))
           <=> Opens(s, m, n)
<1> DEFINE V(x) == Filled(s, m, n, x)
           low == V(128)
           high == V(191)
<1>1. low = V(128) /\ high = V(191)
  OBVIOUS
<1> HIDE DEF low, high
<1> SUFFICES (m <= n /\ s[1] \in Leads(n) /\ (\A k \in 2 .. m : s[k] \in 128 .. 191)
               /\ Meets(n, low, high)) <=> Opens(s, m, n)
  BY <1>1
<1> HIDE DEF V
<1>4. PICK a \in 0 .. 255 : a = s[1]
  BY SMTT(40) DEF InBytes
<1>5. 128 % 64 = 0 /\ 191 % 64 = 63
  OBVIOUS
<1>6. CASE m > n
  BY <1>1, <1>6, SMT DEF Opens
<1>7. \A x \in Window(a) : x \in 128 .. 191
  BY DEF Window, Continuation
<1>8. CASE n = 1 /\ m <= n
  <2>1. V(128) = a /\ V(191) = a /\ Leads(n) = 0 .. 127
    BY <1>4, <1>8, SMT DEF V, Filled, Leads
  <2>2. Meets(1, a, a) <=> 0 <= a /\ a <= 127
    <3>1. a \in Nat
      OBVIOUS
    <3> QED
      BY <3>1, MeetsOK
  <2>3. 1 = LengthMaximal(a) <=> a <= 127
    BY LengthMaximalOK
  <2> QED
    BY <1>1, <1>4, <1>8, <2>1, <2>2, <2>3, SMT DEF Opens
<1>9. CASE n = 2 /\ m <= n
  <2>1. Leads(n) = 192 .. 223
    BY <1>9 DEF Leads
  <2>2. (2 = LengthMaximal(a) <=> a \in 194 .. 223)
    BY LengthMaximalOK
  <2>3. CASE m = 1
    <3>1. V(128) = (a % 32) * 64 + 0 /\ V(191) = (a % 32) * 64 + 63
      BY <1>4, <1>5, <1>9, <2>3, SMT DEF V, Filled
    <3>2. ASSUME a \in 192 .. 223
          PROVE  Meets(2, low, high) <=> a \in 194 .. 223
      <4>1. a % 32 = a - 192
        BY <3>2, Bits
      <4>2. (a - 192) * 64 \in Nat /\ (a - 192) * 64 + 63 \in Nat
        BY <3>2
      <4>3. low = (a - 192) * 64 /\ high = (a - 192) * 64 + 63
        BY <1>1, <1>9, <2>3, <3>1, <4>1, <4>2
      <4>4. Meets(2, low, high) <=> 128 <= (a - 192) * 64 + 63 /\ (a - 192) * 64 <= 2047
        BY <4>2, <4>3, MeetsOK, SMT
      <4> QED
        BY <3>2, <4>4, SMT
    <3> QED
      BY <1>1, <1>4, <1>9, <2>1, <2>2, <2>3, <3>2, SMT DEF Opens
  <2>4. CASE m = 2
    <3>1. PICK e \in 0 .. 255 : e = s[2]
      BY <2>4 DEF InBytes
    <3>2. V(128) = (a % 32) * 64 + (e % 64) /\ V(191) = (a % 32) * 64 + (e % 64)
      BY <1>4, <1>9, <2>4, <3>1, SMT DEF V, Filled
    <3>3. ASSUME a \in 192 .. 223, e \in 128 .. 191
          PROVE  Meets(2, low, high) <=> a \in 194 .. 223
      <4>1. a % 32 = a - 192 /\ e % 64 = e - 128
        BY <3>3, Bits
      <4>2. (a - 192) * 64 + (e - 128) \in Nat
        BY <3>3
      <4>3. low = (a - 192) * 64 + (e - 128) /\ high = (a - 192) * 64 + (e - 128)
        BY <1>1, <1>9, <2>4, <3>2, <4>1, <4>2
      <4>4. Meets(2, low, high) <=> /\ 128 <= (a - 192) * 64 + (e - 128)
                                    /\ (a - 192) * 64 + (e - 128) <= 2047
        BY <4>2, <4>3, MeetsOK, SMTT(40)
      <4> QED
        BY <3>3, <4>4, SMT
    <3>4. a \in 192 .. 223 /\ e \in 128 .. 191 => e \in Window(a)
      BY WindowOK
    <3>5. (\A k \in 2 .. m : s[k] \in 128 .. 191) <=> e \in 128 .. 191
      BY <2>4, <3>1
    <3> QED
      BY <1>1, <1>4, <1>7, <1>9, <2>1, <2>2, <2>4, <3>1, <3>3, <3>4, <3>5, SMT DEF Opens
  <2> QED
    BY <1>9, <2>3, <2>4
<1>10. CASE n = 3 /\ m <= n
  <2>1. Leads(n) = 224 .. 239
    BY <1>10 DEF Leads
  <2>2. (3 = LengthMaximal(a) <=> a \in 224 .. 239)
    BY LengthMaximalOK
  <2>3. CASE m = 1
    <3>1. V(128) = ((a % 16) * 64 + 0) * 64 + 0 /\ V(191) = ((a % 16) * 64 + 63) * 64 + 63
      BY <1>4, <1>5, <1>10, <2>3, SMT DEF V, Filled
    <3>2. ASSUME a \in 224 .. 239 PROVE Meets(3, low, high)
      <4>1. a % 16 = a - 224
        BY <3>2, Bits
      <4>2. (a - 224) * 4096 \in Nat /\ (a - 224) * 4096 + 4095 \in Nat
        BY <3>2, SMT
      <4>3. low = (a - 224) * 4096 /\ high = (a - 224) * 4096 + 4095
        <5>1. ((a - 224) * 64 + 0) * 64 + 0 = (a - 224) * 4096
          BY SMT
        <5>2. ((a - 224) * 64 + 63) * 64 + 63 = (a - 224) * 4096 + 4095
          BY SMT
        <5> QED
          BY <1>1, <1>10, <2>3, <3>1, <4>1, <5>1, <5>2, SMT
      <4>4. Meets(3, low, high) <=>
              \/ 2048 <= (a - 224) * 4096 + 4095 /\ (a - 224) * 4096 <= 55295
              \/ 57344 <= (a - 224) * 4096 + 4095 /\ (a - 224) * 4096 <= 65535
        BY <4>2, <4>3, MeetsOK, SMT
      <4> QED
        BY <3>2, <4>4, SMT
    <3> QED
      BY <1>1, <1>4, <1>10, <2>1, <2>2, <2>3, <3>2, SMT DEF Opens
  <2>4. CASE m = 2
    <3>1. PICK e \in 0 .. 255 : e = s[2]
      BY <2>4 DEF InBytes
    <3>2. V(128) = ((a % 16) * 64 + (e % 64)) * 64 + 0 /\ V(191) = ((a % 16) * 64 + (e % 64)) * 64 + 63
      BY <1>4, <1>5, <1>10, <2>4, <3>1, SMT DEF V, Filled
    <3>3. ASSUME a \in 224 .. 239, e \in 128 .. 191
          PROVE  Meets(3, low, high) <=> e \in Window(a)
      <4>1. a % 16 = a - 224 /\ e % 64 = e - 128
        BY <3>3, Bits
      <4>2. low = ((a - 224) * 64 + (e - 128)) * 64 + 0 /\ high = ((a - 224) * 64 + (e - 128)) * 64 + 63
        BY <1>1, <1>10, <2>4, <3>2, <4>1, SMT
      <4>3. Within3(a, e, low, high)
        BY <3>3, <4>2, SMT DEF Base3, Within3
      <4> QED
        BY <3>3, <4>3, Meets3
    <3>4. (\A k \in 2 .. m : s[k] \in 128 .. 191) <=> e \in 128 .. 191
      BY <2>4, <3>1
    <3> QED
      BY <1>1, <1>4, <1>7, <1>10, <2>1, <2>2, <2>4, <3>1, <3>3, <3>4, SMT DEF Opens
  <2>5. CASE m = 3
    <3>0. s[2] \in 0 .. 255 /\ s[3] \in 0 .. 255
      BY <2>5, SMTT(40) DEF InBytes
    <3>1. PICK e \in 0 .. 255, h \in 0 .. 255 : e = s[2] /\ h = s[3]
      BY <3>0, ZenonT(40)
    <3>2. /\ V(128) = ((a % 16) * 64 + (e % 64)) * 64 + (h % 64)
          /\ V(191) = ((a % 16) * 64 + (e % 64)) * 64 + (h % 64)
      BY <1>4, <1>10, <2>5, <3>1, SMT DEF V, Filled
    <3>3. ASSUME a \in 224 .. 239, e \in 128 .. 191, h \in 128 .. 191
          PROVE  Meets(3, low, high) <=> e \in Window(a)
      <4>1. a % 16 = a - 224 /\ e % 64 = e - 128 /\ h % 64 = h - 128
        BY <3>3, Bits
      <4>2. /\ low = ((a - 224) * 64 + (e - 128)) * 64 + (h - 128)
            /\ high = ((a - 224) * 64 + (e - 128)) * 64 + (h - 128)
        BY <1>1, <1>10, <2>5, <3>2, <4>1, SMT
      <4>3. Within3(a, e, low, high)
        BY <3>3, <4>2, SMT DEF Base3, Within3
      <4> QED
        BY <3>3, <4>3, Meets3
    <3>4. (\A k \in 2 .. m : s[k] \in 128 .. 191) <=> e \in 128 .. 191 /\ h \in 128 .. 191
      <4>1. 2 .. m = {2, 3}
        BY <2>5
      <4> QED
        BY <3>1, <4>1
    <3> QED
      BY <1>1, <1>4, <1>7, <1>10, <2>1, <2>2, <2>5, <3>1, <3>3, <3>4, SMT DEF Opens, Continuation
  <2> QED
    BY <1>10, <2>3, <2>4, <2>5
<1>11. CASE n = 4 /\ m <= n
  <2>1. Leads(n) = 240 .. 247
    BY <1>11 DEF Leads
  <2>2. (4 = LengthMaximal(a) <=> a \in 240 .. 244)
    BY LengthMaximalOK
  <2>3. CASE m = 1
    <3>1. /\ V(128) = (((a % 8) * 64 + 0) * 64 + 0) * 64 + 0
          /\ V(191) = (((a % 8) * 64 + 63) * 64 + 63) * 64 + 63
      BY <1>4, <1>5, <1>11, <2>3, SMT DEF V, Filled
    <3>2. ASSUME a \in 240 .. 247 PROVE Meets(4, low, high) <=> a <= 244
      <4>1. a % 8 = a - 240
        BY <3>2, Bits
      <4>2. (a - 240) * 262144 \in Nat /\ (a - 240) * 262144 + 262143 \in Nat
        BY <3>2, SMT
      <4>3. low = (a - 240) * 262144 /\ high = (a - 240) * 262144 + 262143
        <5>1. (((a - 240) * 64 + 0) * 64 + 0) * 64 + 0 = (a - 240) * 262144
          BY SMT
        <5>2. (((a - 240) * 64 + 63) * 64 + 63) * 64 + 63 = (a - 240) * 262144 + 262143
          BY SMT
        <5> QED
          BY <1>1, <1>11, <2>3, <3>1, <4>1, <5>1, <5>2, SMT
      <4>4. Meets(4, low, high) <=> 65536 <= (a - 240) * 262144 + 262143 /\ (a - 240) * 262144 <= 1114111
        BY <4>2, <4>3, MeetsOK, SMT
      <4> QED
        BY <3>2, <4>4, SMT
    <3> QED
      BY <1>1, <1>4, <1>11, <2>1, <2>2, <2>3, <3>2, SMT DEF Opens
  <2>4. CASE m = 2
    <3>1. PICK e \in 0 .. 255 : e = s[2]
      BY <2>4 DEF InBytes
    <3>2. /\ V(128) = (((a % 8) * 64 + (e % 64)) * 64 + 0) * 64 + 0
          /\ V(191) = (((a % 8) * 64 + (e % 64)) * 64 + 63) * 64 + 63
      BY <1>4, <1>5, <1>11, <2>4, <3>1, SMT DEF V, Filled
    <3>3. ASSUME a \in 240 .. 247, e \in 128 .. 191
          PROVE  Meets(4, low, high) <=> a <= 244 /\ e \in Window(a)
      <4>1. a % 8 = a - 240 /\ e % 64 = e - 128
        BY <3>3, Bits
      <4>2. /\ low = (((a - 240) * 64 + (e - 128)) * 64 + 0) * 64 + 0
            /\ high = (((a - 240) * 64 + (e - 128)) * 64 + 63) * 64 + 63
        BY <1>1, <1>11, <2>4, <3>2, <4>1, SMT
      <4>3. Within4(a, e, low, high)
        BY <3>3, <4>2, SMT DEF Base4, Within4
      <4> QED
        BY <3>3, <4>3, Meets4
    <3>4. (\A k \in 2 .. m : s[k] \in 128 .. 191) <=> e \in 128 .. 191
      BY <2>4, <3>1
    <3> QED
      BY <1>1, <1>4, <1>7, <1>11, <2>1, <2>2, <2>4, <3>1, <3>3, <3>4, SMT DEF Opens
  <2>5. CASE m = 3
    <3>0. s[2] \in 0 .. 255 /\ s[3] \in 0 .. 255
      BY <2>5 DEF InBytes
    <3>1. PICK e \in 0 .. 255, h \in 0 .. 255 : e = s[2] /\ h = s[3]
      BY <3>0
    <3>2. /\ V(128) = (((a % 8) * 64 + (e % 64)) * 64 + (h % 64)) * 64 + 0
          /\ V(191) = (((a % 8) * 64 + (e % 64)) * 64 + (h % 64)) * 64 + 63
      BY <1>4, <1>5, <1>11, <2>5, <3>1, SMT DEF V, Filled
    <3>3. ASSUME a \in 240 .. 247, e \in 128 .. 191, h \in 128 .. 191
          PROVE  Meets(4, low, high) <=> a <= 244 /\ e \in Window(a)
      <4>1. a % 8 = a - 240 /\ e % 64 = e - 128 /\ h % 64 = h - 128
        BY <3>3, Bits
      <4>2. /\ low = (((a - 240) * 64 + (e - 128)) * 64 + (h - 128)) * 64 + 0
            /\ high = (((a - 240) * 64 + (e - 128)) * 64 + (h - 128)) * 64 + 63
        BY <1>1, <1>11, <2>5, <3>2, <4>1, SMT
      <4>3. Within4(a, e, low, high)
        BY <3>3, <4>2, SMT DEF Base4, Within4
      <4> QED
        BY <3>3, <4>3, Meets4
    <3>4. (\A k \in 2 .. m : s[k] \in 128 .. 191) <=> e \in 128 .. 191 /\ h \in 128 .. 191
      <4>1. 2 .. m = {2, 3}
        BY <2>5
      <4> QED
        BY <3>1, <4>1
    <3> QED
      BY <1>1, <1>4, <1>7, <1>11, <2>1, <2>2, <2>5, <3>1, <3>3, <3>4, SMT DEF Opens, Continuation
  <2>6. CASE m = 4
    <3>0. s[2] \in 0 .. 255 /\ s[3] \in 0 .. 255 /\ s[4] \in 0 .. 255
      BY <2>6, SMTT(40) DEF InBytes
    <3>1. PICK e \in 0 .. 255, h \in 0 .. 255, q \in 0 .. 255 : e = s[2] /\ h = s[3] /\ q = s[4]
      BY <3>0, ZenonT(40)
    <3>2. /\ V(128) = (((a % 8) * 64 + (e % 64)) * 64 + (h % 64)) * 64 + (q % 64)
          /\ V(191) = (((a % 8) * 64 + (e % 64)) * 64 + (h % 64)) * 64 + (q % 64)
      BY <1>4, <1>11, <2>6, <3>1, SMT DEF V, Filled
    <3>3. ASSUME a \in 240 .. 247, e \in 128 .. 191, h \in 128 .. 191, q \in 128 .. 191
          PROVE  Meets(4, low, high) <=> a <= 244 /\ e \in Window(a)
      <4>1. a % 8 = a - 240 /\ e % 64 = e - 128 /\ h % 64 = h - 128 /\ q % 64 = q - 128
        BY <3>3, Bits
      <4>2. /\ low = (((a - 240) * 64 + (e - 128)) * 64 + (h - 128)) * 64 + (q - 128)
            /\ high = (((a - 240) * 64 + (e - 128)) * 64 + (h - 128)) * 64 + (q - 128)
        BY <1>1, <1>11, <2>6, <3>2, <4>1, SMT
      <4>3. Within4(a, e, low, high)
        BY <3>3, <4>2, SMT DEF Base4, Within4
      <4> QED
        BY <3>3, <4>3, Meets4
    <3>4. (\A k \in 2 .. m : s[k] \in 128 .. 191)
            <=> e \in 128 .. 191 /\ h \in 128 .. 191 /\ q \in 128 .. 191
      <4>1. 2 .. m = {2, 3, 4}
        BY <2>6
      <4> QED
        BY <3>1, <4>1
    <3> QED
      BY <1>1, <1>4, <1>7, <1>11, <2>1, <2>2, <2>6, <3>1, <3>3, <3>4, SMT DEF Opens, Continuation
  <2> QED
    BY <1>11, <2>3, <2>4, <2>5, <2>6
<1>12. m > n \/ (m <= n /\ (n = 1 \/ n = 2 \/ n = 3 \/ n = 4))
  OBVIOUS
<1> QED
  BY <1>6, <1>8, <1>9, <1>10, <1>11, <1>12

(* The reference begins a form exactly where the tables do. *)
LEMMA BeginsOK ==
  ASSUME NEW s \in Seq(Bytes), NEW m \in 1 .. 4, Len(s) = m, NEW n \in 1 .. 4
  PROVE  Begins(s, n) <=> Opens(s, m, n)
<1>1. InBytes(s, m)
  BY ByteAt DEF InBytes
<1>2. ASSUME m <= n
      PROVE  Padded(s, n, 128) = Filled(s, m, n, 128) /\ Padded(s, n, 191) = Filled(s, m, n, 191)
  <2>1. 128 \in Bytes /\ 191 \in Bytes
    BY DEF Bytes
  <2>2. n \in m .. 4
    BY <1>2
  <2>3. \A x \in Bytes : Padded(s, n, x) = Filled(s, m, n, x)
    BY <2>2, PadValue
  <2> QED
    BY <2>1, <2>3
<1>3. (/\ m <= n /\ s[1] \in Leads(n)
       /\ \A k \in 2 .. m : s[k] \in 128 .. 191
       /\ Meets(n, Filled(s, m, n, 128), Filled(s, m, n, 191)))
        <=> Opens(s, m, n)
  BY <1>1, FilledOK, ZenonT(40)
<1>4. Begins(s, n) <=>
        /\ m <= n
        /\ s[1] \in Leads(n)
        /\ \A k \in 2 .. m : s[k] \in 128 .. 191
        /\ Meets(n, Padded(s, n, 128), Padded(s, n, 191))
  BY BeginsIs, ZenonT(40)
<1> QED
  BY <1>2, <1>3, <1>4

-----------------------------------------------------------------------------
(* What stands at a position, by the tables.                               *)

LEMMA LengthPerByteOK ==
  ASSUME NEW a \in 0 .. 255
  PROVE  /\ 1 = LengthPerByte(a) <=> a <= 127
         /\ 2 = LengthPerByte(a) <=> a \in 194 .. 223
         /\ 3 = LengthPerByte(a) <=> a \in 224 .. 239
         /\ 4 = LengthPerByte(a) <=> a \in 240 .. 247
         /\ LengthPerByte(a) \in 0 .. 4
BY SMT DEF LengthPerByte

(* The largest values of one to three bytes. *)
Reach(n) == CASE n = 1 -> 127 [] n = 2 -> 2047 [] n = 3 -> 65535 [] n = 4 -> 2097151

LEMMA BesideSurrogates ==
  ASSUME NEW w \in Nat, w <= 65535
  PROVE  /\ 2048 <= w /\ w <= 55295 => ~(w < 2048 \/ w > 1114111 \/ w \in 55296 .. 57343)
         /\ 57344 <= w => ~(w < 2048 \/ w > 1114111 \/ w \in 55296 .. 57343)
         /\ \/ w < 2048 \/ w > 1114111 \/ w \in 55296 .. 57343
            \/ 2048 <= w /\ w <= 55295
            \/ 57344 <= w
BY SMT

(* decodeUtf8 rejects the value of a whole sequence just when no scalar    *)
(* value of that length has the form.                                      *)
LEMMA RejectedOK ==
  ASSUME NEW s, NEW n \in 1 .. 4, InBytes(s, n), n = LengthPerByte(s[1]),
         \A k \in 2 .. n : s[k] \in Continuation
  PROVE  ~Rejected(Value(s, n), n) <=> Opens(s, n, n)
<1> DEFINE v == Value(s, n)
<1>1. Filled(s, n, n, 128) = v /\ Filled(s, n, n, 191) = v
  <2>1. CASE n = 1
    BY <2>1, SMT DEF Filled, Value, LeadBits
  <2>2. CASE n = 2
    BY <2>2, SMT DEF Filled, Value, LeadBits
  <2>3. CASE n = 3
    BY <2>3, SMT DEF Filled, Value, LeadBits
  <2>4. CASE n = 4
    BY <2>4, SMT DEF Filled, Value, LeadBits
  <2> QED
    BY <2>1, <2>2, <2>3, <2>4
<1>2. \A k \in 1 .. n : s[k] \in 0 .. 255
  BY DEF InBytes
<1>3. s[1] \in Leads(n)
  <2>1. PICK a \in 0 .. 255 : a = s[1]
    BY <1>2
  <2>2. n = LengthPerByte(a)
    BY <2>1
  <2>3. /\ n = 1 => a <= 127
        /\ n = 2 => a \in 194 .. 223
        /\ n = 3 => a \in 224 .. 239
        /\ n = 4 => a \in 240 .. 247
    BY <2>2, LengthPerByteOK
  <2>4. CASE n = 1
    BY <2>1, <2>3, <2>4 DEF Leads
  <2>5. CASE n = 2
    BY <2>1, <2>3, <2>5 DEF Leads
  <2>6. CASE n = 3
    BY <2>1, <2>3, <2>6 DEF Leads
  <2>7. CASE n = 4
    BY <2>1, <2>3, <2>7 DEF Leads
  <2> QED
    BY <2>4, <2>5, <2>6, <2>7
<1> HIDE DEF v
<1>4. v \in Nat /\ v <= Reach(n)
  <2>0. \A x \in 0 .. 255 : /\ x % 64 \in 0 .. 63 /\ x % 32 \in 0 .. 31
                            /\ x % 16 \in 0 .. 15 /\ x % 8 \in 0 .. 7
    BY SMT
  <2>1. CASE n = 1
    <3>1. v = s[1] /\ s[1] \in 0 .. 127
      BY <1>3, <2>1, SMT DEF v, Value, LeadBits, Leads
    <3>2. \A x \in 0 .. 127 : x \in Nat /\ x <= 127
      OBVIOUS
    <3>3. Reach(1) = 127
      BY DEF Reach
    <3> QED
      BY <2>1, <3>1, <3>2, <3>3
  <2>2. CASE n = 2
    <3>1. s[1] \in 0 .. 255 /\ s[2] \in 0 .. 255
      BY <1>2, <2>2, SMTT(40)
    <3>2. PICK x \in 0 .. 31, y \in 0 .. 63 : x = s[1] % 32 /\ y = s[2] % 64
      BY <2>0, <3>1, ZenonT(40)
    <3>3. v = x * 64 + y
      BY <2>2, <3>2, SMT DEF v, Value, LeadBits
    <3>4. x * 64 + y \in Nat /\ x * 64 + y <= 2047
      BY SMT
    <3>5. Reach(n) = 2047
      BY <2>2, SMT DEF Reach
    <3> QED
      BY <2>2, <3>3, <3>4, <3>5, SMT
  <2>3. CASE n = 3
    <3>1. s[1] \in 0 .. 255 /\ s[2] \in 0 .. 255 /\ s[3] \in 0 .. 255
      BY <1>2, <2>3
    <3>2. PICK x \in 0 .. 15, y \in 0 .. 63, z \in 0 .. 63 :
            x = s[1] % 16 /\ y = s[2] % 64 /\ z = s[3] % 64
      BY <2>0, <3>1, ZenonT(40)
    <3>3. v = (x * 64 + y) * 64 + z
      BY <2>3, <3>2, SMT DEF v, Value, LeadBits
    <3>4. (x * 64 + y) * 64 + z \in Nat /\ (x * 64 + y) * 64 + z <= 65535
      BY SMT
    <3>5. Reach(n) = 65535
      BY <2>3, SMT DEF Reach
    <3> QED
      BY <2>3, <3>3, <3>4, <3>5, SMT
  <2>4. CASE n = 4
    <3>1. s[1] \in 0 .. 255 /\ s[2] \in 0 .. 255 /\ s[3] \in 0 .. 255 /\ s[4] \in 0 .. 255
      BY <1>2, <2>4
    <3>2. PICK x \in 0 .. 7, y \in 0 .. 63, z \in 0 .. 63, u \in 0 .. 63 :
            x = s[1] % 8 /\ y = s[2] % 64 /\ z = s[3] % 64 /\ u = s[4] % 64
      BY <2>0, <3>1, ZenonT(40)
    <3>3. v = ((x * 64 + y) * 64 + z) * 64 + u
      BY <2>4, <3>2, SMT DEF v, Value, LeadBits
    <3>4. ((x * 64 + y) * 64 + z) * 64 + u \in Nat /\ ((x * 64 + y) * 64 + z) * 64 + u <= 2097151
      BY SMT
    <3>5. Reach(n) = 2097151
      BY <2>4, SMT DEF Reach
    <3> QED
      BY <2>4, <3>3, <3>4, <3>5, SMT
  <2> QED
    BY <2>1, <2>2, <2>3, <2>4
<1>6. ~Rejected(v, n) <=> Meets(n, v, v)
  <2>0. /\ Meets(1, v, v) <=> 0 <= v /\ v <= 127
        /\ Meets(2, v, v) <=> 128 <= v /\ v <= 2047
        /\ Meets(3, v, v) <=> \/ 2048 <= v /\ v <= 55295
                              \/ 57344 <= v /\ v <= 65535
        /\ Meets(4, v, v) <=> 65536 <= v /\ v <= 1114111
    BY <1>4, MeetsOK, SMT
  <2>1. Least[1] = 0 /\ Least[2] = 128 /\ Least[3] = 2048 /\ Least[4] = 65536
    BY SMT DEF Least
  <2>2. CASE n = 1
    <3>1. Rejected(v, n) <=> v < 0 \/ v > 1114111 \/ v \in 55296 .. 57343
      BY <2>1, <2>2, SMT DEF Rejected
    <3>2. v \in Nat /\ v <= 127
      <4>1. Reach(n) = 127
        BY <2>2, SMT DEF Reach
      <4> QED
        BY <1>4, <4>1, SMT
    <3> QED
      BY <2>0, <2>2, <3>1, <3>2, SMT
  <2>3. CASE n = 2
    <3>1. Rejected(v, n) <=> v < 128 \/ v > 1114111 \/ v \in 55296 .. 57343
      BY <2>1, <2>3, SMT DEF Rejected
    <3>2. v \in Nat /\ v <= 2047
      <4>1. Reach(n) = 2047
        BY <2>3, SMT DEF Reach
      <4> QED
        BY <1>4, <4>1, SMT
    <3> QED
      BY <2>0, <2>3, <3>1, <3>2, SMTT(40)
  <2>4. CASE n = 3
    <3>1. Rejected(v, n) <=> v < 2048 \/ v > 1114111 \/ v \in 55296 .. 57343
      BY <2>1, <2>4, SMT DEF Rejected
    <3>2. v \in Nat /\ v <= 65535
      <4>1. Reach(n) = 65535
        BY <2>4, SMT DEF Reach
      <4> QED
        BY <1>4, <4>1, SMT
    <3>3. /\ 2048 <= v /\ v <= 55295 => ~(v < 2048 \/ v > 1114111 \/ v \in 55296 .. 57343)
          /\ 57344 <= v => ~(v < 2048 \/ v > 1114111 \/ v \in 55296 .. 57343)
          /\ \/ v < 2048 \/ v > 1114111 \/ v \in 55296 .. 57343
             \/ 2048 <= v /\ v <= 55295
             \/ 57344 <= v
      BY <3>2, BesideSurrogates, SMT
    <3>4. Meets(n, v, v) => ~Rejected(v, n)
      BY <2>0, <2>4, <3>1, <3>3, SMT
    <3>5. ~Rejected(v, n) => Meets(n, v, v)
      BY <2>0, <2>4, <3>1, <3>2, <3>3, SMT
    <3> QED
      BY <3>4, <3>5
  <2>5. CASE n = 4
    <3>1. Rejected(v, n) <=> v < 65536 \/ v > 1114111 \/ v \in 55296 .. 57343
      BY <2>1, <2>5, SMT DEF Rejected
    <3>2. v \in Nat /\ v <= 2097151
      <4>1. Reach(n) = 2097151
        BY <2>5, SMT DEF Reach
      <4> QED
        BY <1>4, <4>1, SMT
    <3> QED
      BY <2>0, <2>5, <3>1, <3>2, SMTT(40)
  <2> QED
    BY <2>2, <2>3, <2>4, <2>5
<1>7. \A k \in 2 .. n : s[k] \in 128 .. 191
  BY DEF Continuation
<1>8. (/\ n <= n /\ s[1] \in Leads(n)
       /\ \A k \in 2 .. n : s[k] \in 128 .. 191
       /\ Meets(n, Filled(s, n, n, 128), Filled(s, n, n, 191)))
        <=> Opens(s, n, n)
  BY FilledOK
<1>9. Meets(n, v, v) <=> Opens(s, n, n)
  BY <1>1, <1>3, <1>7, <1>8
<1> QED
  BY <1>6, <1>9 DEF v

(* Both decoders read a lead byte alike, where the reference does. *)
LEMMA LengthsAgree ==
  ASSUME NEW a \in 0 .. 255, LengthMaximal(a) # 0
  PROVE  LengthPerByte(a) = LengthMaximal(a)
BY SMT DEF LengthPerByte, LengthMaximal

(* The same for bytes in their place. *)
LEMMA FitsOK ==
  ASSUME NEW b \in Seq(Bytes), NEW p \in 1 .. Len(b), NEW m \in 1 .. 4, NEW n \in 1 .. 4,
         p + m - 1 <= Len(b)
  PROVE  Begins(SubSeq(b, p, p + m - 1), n) <=> Fits(b, p, n, m)
<1> DEFINE s == SubSeq(b, p, p + m - 1)
<1>1. s \in Seq(Bytes) /\ Len(s) = m /\ \A k \in 1 .. m : s[k] = b[p + k - 1]
  <2>1. m \in Nat
    OBVIOUS
  <2> QED
    BY <2>1, Part
<1>2. Begins(s, n) <=> Opens(s, m, n)
  <2> HIDE DEF s
  <2> QED
    BY <1>1, BeginsOK
<1> HIDE DEF s
<1>3. p + 1 - 1 = p /\ p + 2 - 1 = p + 1 /\ p + 3 - 1 = p + 2 /\ p + 4 - 1 = p + 3
  BY SMT
<1>4. /\ s[1] = b[p]
      /\ m >= 2 => s[2] = b[p + 1]
      /\ m >= 3 => s[3] = b[p + 2]
      /\ m >= 4 => s[4] = b[p + 3]
  BY <1>1, <1>3
<1>5. Opens(s, m, n) <=> Fits(b, p, n, m)
  BY <1>4, SMTT(40) DEF Opens, Fits
<1> QED
  BY <1>2, <1>5 DEF s

(* A form is what its lead asks for, and a subpart the longest beginning. *)
LEMMA WellFormedIs ==
  ASSUME NEW b \in Seq(Bytes), NEW p \in 1 .. Len(b)
  PROVE  LET n == LengthMaximal(b[p])
         IN  /\ n \in 0 .. 4
             /\ Fits(b, p, n, n) => WellFormedAt(b, p) = {n}
             /\ ~Fits(b, p, n, n) => WellFormedAt(b, p) = {}
<1> DEFINE n == LengthMaximal(b[p])
<1>1. n \in 0 .. 4
  <2>1. b[p] \in 0 .. 255
    BY ByteAt
  <2> QED
    BY <2>1, LengthMaximalOK, ZenonT(40)
<1>2. \A m \in 1 .. 4 : m \in WellFormedAt(b, p) <=> p + m - 1 <= Len(b) /\ Fits(b, p, m, m)
  BY FitsOK DEF WellFormedAt
<1>3. \A m \in 1 .. 4 : Fits(b, p, m, m) => m = n /\ p + m - 1 <= Len(b)
  BY DEF Fits
<1>4. Fits(b, p, n, n) => n \in 1 .. 4
  <2>1. Fits(b, p, n, n) => n \in 1 .. n
    BY DEF Fits
  <2> HIDE DEF n
  <2> QED
    BY <1>1, <2>1
<1>5. WellFormedAt(b, p) \subseteq 1 .. 4
  BY DEF WellFormedAt
<1> HIDE DEF n
<1>6. \A m : m \in WellFormedAt(b, p) <=> m \in 1 .. 4 /\ Fits(b, p, m, m)
  BY <1>2, <1>3, <1>5
<1>7. Fits(b, p, n, n) => WellFormedAt(b, p) = {n}
  BY <1>3, <1>4, <1>6
<1>8. ~Fits(b, p, n, n) => WellFormedAt(b, p) = {}
  BY <1>3, <1>6
<1> QED
  BY <1>1, <1>7, <1>8 DEF n

(* The maximal subpart, by the tables. *)
LEMMA SubpartIs ==
  ASSUME NEW b \in Seq(Bytes), NEW p \in 1 .. Len(b)
  PROVE  LET n == LengthMaximal(b[p])
         IN  SubpartAt(b, p) = Max({1} \cup {m \in 1 .. 3 : Fits(b, p, n, m)})
<1> DEFINE n == LengthMaximal(b[p])
           cut == {m \in 1 .. 3 : /\ p + m - 1 <= Len(b)
                                  /\ \E k \in 1 .. 4 : Begins(SubSeq(b, p, p + m - 1), k)}
           fit == {m \in 1 .. 3 : Fits(b, p, n, m)}
<1>1. n \in 0 .. 4
  BY WellFormedIs
<1>2. \A k : \A m : Fits(b, p, k, m) => k = n /\ p + m - 1 <= Len(b) /\ m \in 1 .. k
  BY DEF Fits
<1>3. \A m \in 1 .. 3 : m \in 1 .. 4
  OBVIOUS
<1>4. \A m \in 1 .. 3 : p + m - 1 <= Len(b) =>
        ((\E k \in 1 .. 4 : Begins(SubSeq(b, p, p + m - 1), k)) <=> \E k \in 1 .. 4 : Fits(b, p, k, m))
  BY <1>3, FitsOK
<1> HIDE DEF n
<1>5. \A m \in 1 .. 3 : (\E k \in 1 .. 4 : Fits(b, p, k, m)) <=> Fits(b, p, n, m)
  <2>1. TAKE m \in 1 .. 3
  <2>2. Fits(b, p, n, m) => n \in 1 .. 4
    <3>1. Fits(b, p, n, m) => m \in 1 .. n
      BY <1>2
    <3> QED
      BY <1>1, <3>1
  <2> QED
    BY <1>2, <2>2
<1>6. \A m \in 1 .. 3 : m \in cut <=> m \in fit
  BY <1>2, <1>4, <1>5
<1>7. cut = fit
  BY <1>6
<1> QED
  BY <1>7 DEF SubpartAt, n

-----------------------------------------------------------------------------
(* An iteration of either decoder reads what stands at its byte.           *)

(* The m bytes from p are there, the second in `window'. *)
InWindows(b, p, window, m) ==
  /\ p + m - 1 <= Len(b)
  /\ m >= 2 => b[p + 1] \in window
  /\ m >= 3 => b[p + 2] \in Continuation
  /\ m >= 4 => b[p + 3] \in Continuation

(* Standing is the last of the bytes that fit. *)
LEMMA StandingIs ==
  ASSUME bytes \in Seq(Bytes), i \in 1 .. Len(bytes), NEW n \in 1 .. 4, NEW window
  PROVE  /\ Standing(n, window) \in 1 .. n
         /\ \A m \in 1 .. n : m <= Standing(n, window) <=> InWindows(bytes, i, window, m)
<1> DEFINE stands(k) == /\ i + k <= Len(bytes)
                        /\ bytes[i + k] \in (IF k = 1 THEN window ELSE Continuation)
           S == {m \in 1 .. n : \A k \in 1 .. m - 1 : stands(k)}
<1>1. Len(bytes) \in Nat
  BY ByteAt
<1>2. Standing(n, window) = Max(S)
  BY DEF Standing
<1>3. \A m \in 1 .. n : m \in S <=> InWindows(bytes, i, window, m)
  <2>1. TAKE m \in 1 .. n
  <2>2. /\ stands(1) <=> i + 1 <= Len(bytes) /\ bytes[i + 1] \in window
        /\ stands(2) <=> i + 2 <= Len(bytes) /\ bytes[i + 2] \in Continuation
        /\ stands(3) <=> i + 3 <= Len(bytes) /\ bytes[i + 3] \in Continuation
    OBVIOUS
  <2> HIDE DEF stands
  <2>3. CASE m = 1
    <3>1. 1 .. m - 1 = {}
      BY <2>3
    <3>2. i + m - 1 <= Len(bytes)
      BY <1>1, <2>3
    <3> QED
      BY <2>3, <3>1, <3>2 DEF InWindows
  <2>4. CASE m = 2
    <3>1. 1 .. m - 1 = {1}
      BY <2>4
    <3>2. i + 1 <= Len(bytes) <=> i + m - 1 <= Len(bytes)
      BY <1>1, <2>4
    <3> QED
      BY <2>2, <2>4, <3>1, <3>2 DEF InWindows
  <2>5. CASE m = 3
    <3>1. 1 .. m - 1 = {1, 2}
      BY <2>5
    <3>2. /\ i + 2 <= Len(bytes) <=> i + m - 1 <= Len(bytes)
          /\ i + 2 <= Len(bytes) => i + 1 <= Len(bytes)
      BY <1>1, <2>5
    <3> QED
      BY <2>2, <2>5, <3>1, <3>2 DEF InWindows
  <2>6. CASE m = 4
    <3>1. 1 .. m - 1 = {1, 2, 3}
      BY <2>6
    <3>2. /\ i + 3 <= Len(bytes) <=> i + m - 1 <= Len(bytes)
          /\ i + 3 <= Len(bytes) => i + 1 <= Len(bytes) /\ i + 2 <= Len(bytes)
      BY <1>1, <2>6
    <3> QED
      BY <2>2, <2>6, <3>1, <3>2 DEF InWindows
  <2>7. m = 1 \/ m = 2 \/ m = 3 \/ m = 4
    OBVIOUS
  <2> QED
    BY <2>3, <2>4, <2>5, <2>6, <2>7
<1>4. 1 \in S
  <2>1. 1 \in 1 .. n
    OBVIOUS
  <2>2. i + 1 - 1 <= Len(bytes)
    BY <1>1
  <2>3. InWindows(bytes, i, window, 1)
    BY <2>2 DEF InWindows
  <2> HIDE DEF S
  <2> QED
    BY <1>3, <2>1, <2>3
<1>5. \A m, k \in 1 .. n : m \in S /\ k <= m => k \in S
  <2> HIDE DEF stands
  <2>1. TAKE m, k \in 1 .. n
  <2>2. HAVE m \in S /\ k <= m
  <2>3. \A j \in 1 .. k - 1 : j \in 1 .. m - 1
    BY <2>2
  <2> QED
    BY <2>2, <2>3
<1>6. S \in SUBSET (1 .. n)
  OBVIOUS
<1> HIDE DEF S
<1>7. Max(S) \in S /\ \A m \in S : m <= Max(S)
  <2>1. n \in Nat /\ S # {}
    BY <1>4
  <2> QED
    BY <1>6, <2>1, LastOK
<1> QED
  BY <1>2, <1>3, <1>5, <1>6, <1>7

LEMMA FitsInWindows ==
  ASSUME NEW b, NEW p, NEW n, n = LengthMaximal(b[p]), NEW m \in 1 .. n
  PROVE  Fits(b, p, n, m) <=> InWindows(b, p, Window(b[p]), m)
BY DEF Fits, InWindows

(* decodeUtf8MaximalSubpart takes a form, or replaces a maximal subpart. *)
LEMMA MaximalOK ==
  ASSUME bytes \in Seq(Bytes), i \in 1 .. Len(bytes)
  PROVE  /\ Maximal.ok \in BOOLEAN
         /\ Maximal.ok <=> WellFormedAt(bytes, i) # {}
         /\ Maximal.length = LengthAt(bytes, i)
<1> DEFINE n == LengthMaximal(bytes[i])
           st == Standing(n, Window(bytes[i]))
<1>1. /\ n \in 0 .. 4
      /\ Fits(bytes, i, n, n) => WellFormedAt(bytes, i) = {n}
      /\ ~Fits(bytes, i, n, n) => WellFormedAt(bytes, i) = {}
  BY WellFormedIs
<1>2. SubpartAt(bytes, i) = Max({1} \cup {m \in 1 .. 3 : Fits(bytes, i, n, m)})
  BY SubpartIs
<1>3. \A S \in SUBSET (1 .. 4) : S # {} => Max(S) \in S /\ \A k \in S : k <= Max(S)
  BY LastOK
<1>4. CASE n = 0
  <2>1. Maximal = Replace(1)
    BY <1>4 DEF Maximal
  <2>2. \A m : ~Fits(bytes, i, n, m)
    BY <1>4 DEF Fits
  <2>3. WellFormedAt(bytes, i) = {}
    BY <1>1, <2>2
  <2>4. SubpartAt(bytes, i) = Max({1})
    <3> HIDE DEF n
    <3>1. {1} \cup {m \in 1 .. 3 : Fits(bytes, i, n, m)} = {1}
      BY <2>2
    <3> QED
      BY <1>2, <3>1
  <2>5. Max({1}) = 1
    <3>1. {1} \in SUBSET (1 .. 4)
      OBVIOUS
    <3> QED
      BY <1>3, <3>1
  <2> QED
    BY <2>1, <2>3, <2>4, <2>5 DEF Replace, LengthAt
<1>5. CASE n # 0
  <2>1. n \in 1 .. 4
    BY <1>1, <1>5
  <2>2. Maximal = IF st = n THEN Take(n) ELSE Replace(st)
    BY <1>5 DEF Maximal
  <2>3. \A m \in 1 .. n : Fits(bytes, i, n, m) <=> InWindows(bytes, i, Window(bytes[i]), m)
    BY FitsInWindows
  <2>4. st \in 1 .. n /\ \A m \in 1 .. n : m <= st <=> InWindows(bytes, i, Window(bytes[i]), m)
    <3> HIDE DEF n
    <3> QED
      BY <2>1, StandingIs
  <2> HIDE DEF n, st
  <2>5. \A m \in 1 .. n : m <= st <=> Fits(bytes, i, n, m)
    BY <2>3, <2>4
  <2>6. CASE st = n
    <3>1. n \in 1 .. n /\ n <= st
      BY <2>1, <2>6
    <3>2. Fits(bytes, i, n, n)
      BY <2>5, <3>1
    <3>3. WellFormedAt(bytes, i) = {n}
      BY <1>1, <3>2
    <3>4. Max({n}) = n
      <4>1. {n} \in SUBSET (1 .. 4)
        BY <2>1
      <4> QED
        BY <1>3, <4>1
    <3> QED
      BY <2>2, <2>6, <3>3, <3>4 DEF Take, LengthAt
  <2>7. CASE st # n
    <3>1. n \in 1 .. n /\ ~(n <= st) /\ st <= 3
      BY <2>1, <2>4, <2>7
    <3>2. ~Fits(bytes, i, n, n)
      BY <2>5, <3>1
    <3>3. WellFormedAt(bytes, i) = {}
      BY <1>1, <3>2
    <3> DEFINE fit == {1} \cup {m \in 1 .. 3 : Fits(bytes, i, n, m)}
    <3>4. \A m : Fits(bytes, i, n, m) => m \in 1 .. n
      BY DEF Fits
    <3>5. st \in fit
      <4>1. st \in 1 .. n /\ st <= st
        BY <2>1, <2>4
      <4>2. Fits(bytes, i, n, st)
        BY <2>5, <4>1
      <4>3. st \in 1 .. 3
        BY <2>1, <2>4, <3>1
      <4> QED
        BY <4>2, <4>3
    <3>6. \A m \in fit : m <= st
      <4>1. 1 <= st
        BY <2>1, <2>4
      <4>2. \A m \in 1 .. 3 : Fits(bytes, i, n, m) => m <= st
        BY <2>5, <3>4
      <4> QED
        BY <4>1, <4>2
    <3>7. fit \in SUBSET (1 .. 4)
      OBVIOUS
    <3> HIDE DEF fit
    <3>8. Max(fit) \in fit /\ \A k \in fit : k <= Max(fit)
      BY <1>3, <3>5, <3>7
    <3>9. Max(fit) = st
      <4>1. Max(fit) \in 1 .. 4 /\ st \in 1 .. 4
        BY <3>5, <3>7, <3>8
      <4> QED
        BY <3>5, <3>6, <3>8, <4>1
    <3>10. LengthAt(bytes, i) = st
      BY <1>2, <3>3, <3>9 DEF LengthAt, fit
    <3> QED
      BY <2>2, <2>7, <3>3, <3>10 DEF Replace
  <2> QED
    BY <2>6, <2>7
<1> QED
  BY <1>4, <1>5

(* decodeUtf8 takes the same forms, and replaces one byte. *)
LEMMA PerByteOK ==
  ASSUME bytes \in Seq(Bytes), i \in 1 .. Len(bytes)
  PROVE  /\ PerByte.ok \in BOOLEAN
         /\ PerByte.ok <=> WellFormedAt(bytes, i) # {}
         /\ PerByte.ok => PerByte.length = LengthAt(bytes, i)
         /\ ~PerByte.ok => PerByte.length = 1
<1> DEFINE n == LengthPerByte(bytes[i])
           l == LengthMaximal(bytes[i])
           whole == n > 0 /\ Standing(n, Continuation) = n
           s == SubSeq(bytes, i, i + n - 1)
           taken == whole /\ ~Rejected(Value(s, n), n)
<1>1. /\ l \in 0 .. 4
      /\ Fits(bytes, i, l, l) => WellFormedAt(bytes, i) = {l}
      /\ ~Fits(bytes, i, l, l) => WellFormedAt(bytes, i) = {}
  BY WellFormedIs
<1>2. PerByte = IF taken THEN Take(n) ELSE Replace(1)
  BY DEF PerByte
<1>3. n \in 0 .. 4 /\ (l # 0 => n = l)
  <2>1. bytes[i] \in 0 .. 255
    BY ByteAt
  <2> QED
    BY <2>1, LengthPerByteOK, LengthsAgree, ZenonT(40)
<1>4. ASSUME Fits(bytes, i, l, l) PROVE l # 0 /\ n = l
  <2>1. l \in 1 .. l
    BY <1>4 DEF Fits
  <2> HIDE DEF l
  <2> QED
    BY <1>1, <1>3, <2>1
<1>5. \A x \in Window(bytes[i]) : x \in Continuation
  BY DEF Window, Continuation
<1>6. n \in 1 .. 4 => (whole <=> InWindows(bytes, i, Continuation, n))
  <2>1. ASSUME n \in 1 .. 4 PROVE Standing(n, Continuation) = n <=> InWindows(bytes, i, Continuation, n)
    <3> HIDE DEF n
    <3>1. /\ Standing(n, Continuation) \in 1 .. n
          /\ \A m \in 1 .. n : m <= Standing(n, Continuation) <=> InWindows(bytes, i, Continuation, m)
      BY <2>1, StandingIs
    <3>2. n \in 1 .. n /\ (n <= Standing(n, Continuation) <=> Standing(n, Continuation) = n)
      BY <2>1, <3>1
    <3> QED
      BY <3>1, <3>2
  <2>2. n \in 1 .. 4 => n > 0
    OBVIOUS
  <2> QED
    BY <2>1, <2>2
<1>7. ASSUME n \in 1 .. 4, InWindows(bytes, i, Continuation, n)
      PROVE  ~Rejected(Value(s, n), n) <=> Fits(bytes, i, n, n)
  <2> HIDE DEF n
  <2>1. n \in Nat /\ i + n - 1 <= Len(bytes)
    BY <1>7 DEF InWindows
  <2>2. s \in Seq(Bytes) /\ Len(s) = n /\ \A k \in 1 .. n : s[k] = bytes[i + k - 1]
    BY <2>1, Part
  <2> HIDE DEF s
  <2>3. InBytes(s, n)
    BY <2>2, ByteAt DEF InBytes
  <2>4. i + 1 - 1 = i /\ i + 2 - 1 = i + 1 /\ i + 3 - 1 = i + 2 /\ i + 4 - 1 = i + 3
    OBVIOUS
  <2>5. /\ s[1] = bytes[i]
        /\ n >= 2 => s[2] = bytes[i + 1]
        /\ n >= 3 => s[3] = bytes[i + 2]
        /\ n >= 4 => s[4] = bytes[i + 3]
    BY <1>7, <2>2, <2>4
  <2>6. \A k \in 2 .. n : k = 2 \/ (k = 3 /\ n >= 3) \/ (k = 4 /\ n >= 4)
    BY <1>7
  <2>7. \A k \in 2 .. n : s[k] \in Continuation
    <3>1. \A k \in 2 .. n : n >= 2
      BY <1>7
    <3> QED
      BY <1>7, <2>5, <2>6, <3>1 DEF InWindows
  <2>8. n = LengthPerByte(s[1])
    BY <2>5 DEF n
  <2>9. ~Rejected(Value(s, n), n) <=> Opens(s, n, n)
    BY <1>7, <2>3, <2>7, <2>8, RejectedOK
  <2>10. Opens(s, n, n) <=> Fits(bytes, i, n, n)
    <3>1. n \in 1 .. n /\ n <= n
      BY <1>7
    <3> QED
      BY <2>1, <2>5, <3>1 DEF Opens, Fits
  <2> QED
    BY <2>9, <2>10
<1>8. taken <=> Fits(bytes, i, l, l)
  <2>1. ASSUME taken PROVE Fits(bytes, i, l, l)
    <3>1. n \in 1 .. 4
      BY <1>3, <2>1
    <3>2. InWindows(bytes, i, Continuation, n)
      BY <1>6, <2>1, <3>1
    <3>3. Fits(bytes, i, n, n)
      BY <1>7, <2>1, <3>1, <3>2
    <3>4. n = l
      BY <3>3 DEF Fits
    <3> QED
      BY <3>3, <3>4
  <2>2. ASSUME Fits(bytes, i, l, l) PROVE taken
    <3>1. n = l /\ n \in 1 .. 4
      BY <1>3, <1>4, <2>2
    <3>2. InWindows(bytes, i, Continuation, n)
      BY <1>5, <2>2, <3>1 DEF Fits, InWindows
    <3> QED
      BY <1>6, <1>7, <2>2, <3>1, <3>2
  <2> QED
    BY <2>1, <2>2
<1> HIDE DEF taken, n, l
<1>9. CASE Fits(bytes, i, l, l)
  <2>1. PerByte = Take(n) /\ WellFormedAt(bytes, i) = {l} /\ n = l /\ l \in 1 .. 4
    BY <1>1, <1>2, <1>4, <1>8, <1>9
  <2>2. Max({l}) = l
    <3>1. {l} \in SUBSET (1 .. 4) /\ {l} # {} /\ 4 \in Nat
      BY <2>1
    <3>2. Max({l}) \in {l}
      BY <3>1, LastOK
    <3> QED
      BY <3>2
  <2> QED
    BY <2>1, <2>2 DEF Take, LengthAt
<1>10. CASE ~Fits(bytes, i, l, l)
  BY <1>1, <1>2, <1>8, <1>10 DEF Replace
<1> QED
  BY <1>9, <1>10

-----------------------------------------------------------------------------
(* What an iteration appends, and what it leaves to the rest.              *)

(* Where no form stands, the reference for decodeUtf8 is one U+FFFD and    *)
(* what it is for the bytes from the next on.                              *)
LEMMA ContinuationLead ==
  ASSUME NEW a \in Continuation
  PROVE  LengthMaximal(a) = 0
BY SMT DEF Continuation, LengthMaximal

(* A continuation byte begins no form: it is a subpart of its own. *)
LEMMA StandsAlone ==
  ASSUME NEW b \in Seq(Bytes), NEW q \in 1 .. Len(b), b[q] \in Continuation
  PROVE  WellFormedAt(b, q) = {} /\ SubpartAt(b, q) = 1 /\ LengthAt(b, q) = 1
<1> DEFINE n == LengthMaximal(b[q])
<1>1. n = 0
  BY ContinuationLead
<1>2. \A m : ~Fits(b, q, n, m)
  BY <1>1 DEF Fits
<1>3. WellFormedAt(b, q) = {}
  BY <1>2, WellFormedIs
<1>4. SubpartAt(b, q) = Max({1} \cup {m \in 1 .. 3 : Fits(b, q, n, m)})
  BY SubpartIs
<1> HIDE DEF n
<1>5. {1} \cup {m \in 1 .. 3 : Fits(b, q, n, m)} = {1}
  BY <1>2
<1>6. Max({1}) = 1
  <2>1. {1} \in SUBSET (1 .. 4) /\ {1} # {} /\ 4 \in Nat
    OBVIOUS
  <2>2. Max({1}) \in {1}
    BY <2>1, LastOK
  <2> QED
    BY <2>2
<1> QED
  BY <1>3, <1>4, <1>5, <1>6 DEF LengthAt

(* The bytes of a maximal subpart behind its lead are continuation bytes. *)
LEMMA SubpartContinues ==
  ASSUME NEW b \in Seq(Bytes), NEW p \in 1 .. Len(b)
  PROVE  \A k \in 1 .. SubpartAt(b, p) - 1 : b[p + k] \in Continuation
<1> DEFINE n == LengthMaximal(b[p])
           fit == {1} \cup {m \in 1 .. 3 : Fits(b, p, n, m)}
           m == SubpartAt(b, p)
<1>1. m = Max(fit)
  BY SubpartIs
<1>2. m \in fit
  <2>1. fit \in SUBSET (1 .. 4) /\ fit # {} /\ 4 \in Nat
    OBVIOUS
  <2> HIDE DEF fit, m
  <2> QED
    BY <1>1, <2>1, LastOK
<1>3. \A x \in Window(b[p]) : x \in Continuation
  BY DEF Window, Continuation
<1> HIDE DEF n, m
<1>4. m = 1 \/ ((m = 2 \/ m = 3) /\ Fits(b, p, n, m))
  BY <1>2
<1>5. CASE m = 1
  BY <1>5 DEF m
<1>6. CASE m = 2
  <2>1. b[p + 1] \in Continuation
    BY <1>3, <1>4, <1>6 DEF Fits
  <2>2. \A k \in 1 .. m - 1 : k = 1
    BY <1>6
  <2> QED
    BY <2>1, <2>2 DEF m
<1>7. CASE m = 3
  <2>1. b[p + 1] \in Continuation /\ b[p + 2] \in Continuation
    BY <1>3, <1>4, <1>7 DEF Fits
  <2>2. \A k \in 1 .. m - 1 : k = 1 \/ k = 2
    BY <1>7
  <2> QED
    BY <2>1, <2>2 DEF m
<1> QED
  BY <1>4, <1>5, <1>6, <1>7

One == <<REPLACEMENT>>

LEMMA Replacements ==
  /\ One \in Seq(Nat)
  /\ [k \in 1 .. 1 |-> REPLACEMENT] = One
  /\ [k \in 1 .. 2 |-> REPLACEMENT] = One \o One
  /\ [k \in 1 .. 3 |-> REPLACEMENT] = One \o (One \o One)
<1>1. REPLACEMENT \in Nat
  BY DEF REPLACEMENT
<1>2. One \in Seq(Nat) /\ Len(One) = 1 /\ One[1] = REPLACEMENT
  BY <1>1 DEF One
<1> HIDE DEF REPLACEMENT
<1>3. \A n \in Nat : /\ [k \in 1 .. n |-> REPLACEMENT] \in Seq(Nat)
                     /\ Len([k \in 1 .. n |-> REPLACEMENT]) = n
                     /\ \A k \in 1 .. n : [j \in 1 .. n |-> REPLACEMENT][k] = REPLACEMENT
  BY <1>1
<1>4. [k \in 1 .. 1 |-> REPLACEMENT] = One
  BY <1>2, <1>3, SeqEqual
<1> DEFINE two == One \o One
           three == One \o two
<1>5. two \in Seq(Nat) /\ Len(two) = 2 /\ \A k \in 1 .. 2 : two[k] = REPLACEMENT
  <2>1. /\ two \in Seq(Nat) /\ Len(two) = Len(One) + Len(One)
        /\ \A k \in 1 .. Len(One) + Len(One) : two[k] = IF k <= Len(One) THEN One[k] ELSE One[k - Len(One)]
    BY <1>2, ConcatProperties
  <2> HIDE DEF two
  <2>2. \A k \in 1 .. 2 : k = 1 \/ (k = 2 /\ ~(k <= 1) /\ k - 1 = 1)
    OBVIOUS
  <2>3. 1 <= 1 /\ 1 + 1 = 2
    OBVIOUS
  <2> QED
    BY <1>2, <2>1, <2>2, <2>3
<1>6. [k \in 1 .. 2 |-> REPLACEMENT] = two
  <2> HIDE DEF two
  <2> QED
    BY <1>3, <1>5, SeqEqual
<1>7. three \in Seq(Nat) /\ Len(three) = 3 /\ \A k \in 1 .. 3 : three[k] = REPLACEMENT
  <2> HIDE DEF two
  <2>1. /\ three \in Seq(Nat) /\ Len(three) = Len(One) + Len(two)
        /\ \A k \in 1 .. Len(One) + Len(two) : three[k] = IF k <= Len(One) THEN One[k] ELSE two[k - Len(One)]
    BY <1>2, <1>5, ConcatProperties
  <2> HIDE DEF three
  <2>2. \A k \in 1 .. 3 : k = 1 \/ (~(k <= 1) /\ k - 1 \in 1 .. 2)
    OBVIOUS
  <2>3. 1 <= 1 /\ 1 + 2 = 3
    OBVIOUS
  <2> QED
    BY <1>2, <1>5, <2>1, <2>2, <2>3
<1>8. [k \in 1 .. 3 |-> REPLACEMENT] = three
  <2> HIDE DEF three
  <2> QED
    BY <1>3, <1>7, SeqEqual
<1> QED
  BY <1>2, <1>4, <1>6, <1>8

LEMMA NatAssociative ==
  ASSUME NEW s \in Seq(Nat), NEW t \in Seq(Nat), NEW u \in Seq(Nat)
  PROVE  (s \o t) \o u = s \o (t \o u)
<1> DEFINE V == Nat
<1>1. s \in Seq(V) /\ t \in Seq(V) /\ u \in Seq(V)
  OBVIOUS
<1> HIDE DEF V
<1> QED
  BY <1>1, ConcatAssociative, SMTT(40)

(* Where no form stands decodeUtf8 is to replace one byte, and to read on  *)
(* at the next.                                                            *)
LEMMA ReplacedPerByte ==
  ASSUME NEW b \in Seq(Bytes), NEW p \in 1 .. Len(b), WellFormedAt(b, p) = {}
  PROVE  StandardFrom(b, "perByte")[p] = One \o StandardFrom(b, "perByte")[p + 1]
<1> DEFINE f == StandardFrom(b, "perByte")
           m == SubpartAt(b, p)
           R(n) == [k \in 1 .. n |-> REPLACEMENT]
<1>1. /\ \A q \in 1 .. Len(b) + 1 : f[q] \in Seq(Nat)
      /\ \A q \in 1 .. Len(b) : f[q] = PointsAt(b, "perByte", q) \o f[q + LengthAt(b, q)]
  BY StandardUnfolds
<1>2. Len(b) \in Nat /\ m \in 1 .. 3 /\ p + m <= Len(b) + 1 /\ LengthAt(b, p) = m
  BY LengthAtOK, ByteAt DEF LengthAt
<1>3. f[p] = R(m) \o f[p + m]
  <2>1. PointsAt(b, "perByte", p) = R(m)
    BY DEF PointsAt
  <2> HIDE DEF f, m, R
  <2> QED
    BY <1>1, <1>2, <2>1
<1>4. \A k \in 1 .. m - 1 : p + k \in 1 .. Len(b) /\ f[p + k] = One \o f[p + k + 1]
  <2>1. TAKE k \in 1 .. m - 1
  <2>2. b[p + k] \in Continuation
    BY SubpartContinues
  <2>3. p + k \in 1 .. Len(b)
    <3> HIDE DEF m
    <3> QED
      BY <1>2
  <2>4. WellFormedAt(b, p + k) = {} /\ SubpartAt(b, p + k) = 1 /\ LengthAt(b, p + k) = 1
    BY <2>2, <2>3, StandsAlone
  <2>5. PointsAt(b, "perByte", p + k) = One
    BY <2>4, Replacements DEF PointsAt
  <2>6. f[p + k] = One \o f[p + k + 1]
    <3> HIDE DEF f
    <3> QED
      BY <1>1, <2>3, <2>4, <2>5
  <2> QED
    BY <2>3, <2>6
<1> HIDE DEF f, m
<1>5. One \in Seq(Nat) /\ f[p + m] \in Seq(Nat)
  BY <1>1, <1>2, Replacements
<1>9. \A s, t, u \in Seq(Nat) : (s \o t) \o u = s \o (t \o u)
  BY NatAssociative
<1>6. CASE m = 1
  BY <1>3, <1>6, Replacements DEF f
<1>7. CASE m = 2
  <2>1. f[p + 1] = One \o f[p + 2]
    <3>1. 1 \in 1 .. m - 1 /\ p + 1 + 1 = p + 2
      BY <1>7
    <3> QED
      BY <1>4, <3>1
  <2>2. f[p] = (One \o One) \o f[p + 2]
    BY <1>3, <1>7, Replacements
  <2>3. (One \o One) \o f[p + 2] = One \o (One \o f[p + 2])
    BY <1>5, <1>7, <1>9
  <2> QED
    BY <2>1, <2>2, <2>3 DEF f
<1>8. CASE m = 3
  <2>1. f[p + 1] = One \o f[p + 2] /\ f[p + 2] = One \o f[p + 3]
    <3>1. 1 \in 1 .. m - 1 /\ 2 \in 1 .. m - 1 /\ p + 1 + 1 = p + 2 /\ p + 2 + 1 = p + 3
      BY <1>8
    <3> QED
      BY <1>4, <3>1
  <2>2. f[p] = (One \o (One \o One)) \o f[p + 3]
    BY <1>3, <1>8, Replacements
  <2>3. One \o One \in Seq(Nat)
    BY <1>5, ConcatProperties
  <2>4. (One \o (One \o One)) \o f[p + 3] = One \o ((One \o One) \o f[p + 3])
    BY <1>5, <1>8, <1>9, <2>3, ZenonT(40)
  <2>5. (One \o One) \o f[p + 3] = One \o (One \o f[p + 3])
    BY <1>5, <1>8, <1>9
  <2> QED
    BY <2>1, <2>2, <2>4, <2>5 DEF f
<1>10. m = 1 \/ m = 2 \/ m = 3
  BY <1>2
<1> QED
  BY <1>6, <1>7, <1>8, <1>10

(* What an iteration does: Taken to take a code point or to replace, the   *)
(* number of bytes it moves on by, and what it appends.                    *)
Iteration == IF decoder = "perByte" THEN PerByte ELSE Maximal
Appended == IF Iteration.ok
            THEN Value(SubSeq(bytes, i, i + Iteration.length - 1), Iteration.length)
            ELSE REPLACEMENT

(* One iteration appends the first code point the reference reads from i,  *)
(* and goes on where the reference does.                                   *)
LEMMA IterationOK ==
  ASSUME bytes \in Seq(Bytes), i \in 1 .. Len(bytes), decoder \in {"perByte", "maximal"}
  PROVE  /\ Iteration.ok \in BOOLEAN
         /\ Iteration.ok <=> WellFormedAt(bytes, i) # {}
         /\ Iteration.ok => Iteration.length = LengthAt(bytes, i)
         /\ i + Iteration.length \in 1 .. Len(bytes) + 1 /\ Iteration.length \in Nat
         /\ Appended \in Nat
         /\ StandardFrom(bytes, decoder)[i]
              = <<Appended>> \o StandardFrom(bytes, decoder)[i + Iteration.length]
<1> DEFINE l == LengthAt(bytes, i)
           it == Iteration
           f == StandardFrom(bytes, decoder)
<1>1. /\ it.ok \in BOOLEAN
      /\ it.ok <=> WellFormedAt(bytes, i) # {}
      /\ it.ok => it.length = l
      /\ ~it.ok => it.length = IF decoder = "perByte" THEN 1 ELSE l
  BY PerByteOK, MaximalOK DEF Iteration
<1>2. Len(bytes) \in Nat /\ l \in 1 .. 4 /\ i + l <= Len(bytes) + 1
  BY ByteAt, LengthAtOK
<1>3. f[i] = PointsAt(bytes, decoder, i) \o f[i + l] /\ PointsAt(bytes, decoder, i) \in Seq(Nat)
  BY StandardUnfolds, PointsAtOK
<1>4. it.length \in 1 .. 4 /\ i + it.length <= Len(bytes) + 1
  <2> HIDE DEF it, l
  <2> QED
    BY <1>1, <1>2
<1>5. i + it.length \in 1 .. Len(bytes) + 1 /\ it.length \in Nat
  <2> HIDE DEF it
  <2> QED
    BY <1>2, <1>4
<1>6. CASE it.ok
  <2>1. it.length = l /\ WellFormedAt(bytes, i) # {}
    BY <1>1, <1>6
  <2>2. Appended = Value(SubSeq(bytes, i, i + l - 1), l)
    BY <1>6, <2>1 DEF Appended
  <2>3. PointsAt(bytes, decoder, i) = <<Appended>>
    BY <2>1, <2>2 DEF PointsAt
  <2>4. Appended \in Nat
    <3> HIDE DEF l
    <3>1. l \in Nat /\ i + l - 1 <= Len(bytes)
      BY <1>2
    <3>2. SubSeq(bytes, i, i + l - 1) \in Seq(Bytes) /\ Len(SubSeq(bytes, i, i + l - 1)) = l
      BY <3>1, Part
    <3> QED
      BY <1>2, <2>2, <3>2, ValueOK
  <2> QED
    BY <1>1, <1>3, <1>5, <2>1, <2>3, <2>4
<1>7. CASE ~it.ok
  <2>1. Appended = REPLACEMENT /\ <<Appended>> = One /\ WellFormedAt(bytes, i) = {}
    BY <1>1, <1>7 DEF Appended, One
  <2>2. Appended \in Nat
    BY <2>1 DEF REPLACEMENT
  <2>3. CASE decoder = "perByte"
    <3>1. f[i] = One \o f[i + 1]
      BY <2>1, <2>3, ReplacedPerByte
    <3>2. it.length = 1
      BY <1>1, <1>7, <2>3
    <3> QED
      BY <1>1, <1>5, <1>7, <2>1, <2>2, <3>1, <3>2
  <2>4. CASE decoder = "maximal"
    <3>1. PointsAt(bytes, decoder, i) = One
      BY <2>1, <2>4, Replacements DEF PointsAt
    <3>2. it.length = l
      BY <1>1, <1>7, <2>4
    <3> QED
      BY <1>1, <1>3, <1>5, <1>7, <2>1, <2>2, <3>1, <3>2
  <2> QED
    BY <2>3, <2>4
<1> QED
  BY <1>1, <1>6, <1>7

-----------------------------------------------------------------------------
(* The loop: what it has read, and the reference for what is left, are the *)
(* reference for the whole.                                                *)

CodecType ==
  /\ decoder \in {"perByte", "maximal"} /\ fatal \in BOOLEAN
  /\ encoder \in {"pending", "none", "done"} /\ ended \in {"no", "returned", "threw"}
  /\ text \in Seq(Units) /\ bytes \in Seq(Bytes) /\ out \in Seq(Nat)
  /\ i \in 1 .. Len(bytes) + 1

CodecLoop ==
  /\ out \o StandardFrom(bytes, decoder)[i] = StandardFrom(bytes, decoder)[1]
  /\ fatal => (IllFormedFrom(bytes)[i] <=> IllFormedFrom(bytes)[1])
  /\ ended = "threw" => fatal /\ IllFormedFrom(bytes)[1]
  /\ ended = "returned" => i = Len(bytes) + 1
  /\ encoder = "pending" => i = 1 /\ out = <<>> /\ ended = "no"
  /\ encoder = "done" => bytes = EncodeUtf8(text)

CodecInv == CodecType /\ CodecLoop

LEMMA CodecInitOK ==
  ASSUME CodecInit
  PROVE  CodecInv
<1>1. <<>> \in Seq(Bytes) /\ <<>> \in Seq(Units) /\ <<>> \in Seq(Nat) /\ Len(<<>>) = 0
  BY EmptySeq
<1>2. bytes \in Seq(Bytes) /\ text \in Seq(Units)
  BY <1>1, CodecAssumption DEF CodecInit, NoText
<1>3. Len(bytes) \in Nat
  BY <1>2, ByteAt
<1>4. 1 \in 1 .. Len(bytes) + 1
  BY <1>3
<1>5. CodecType
  BY <1>1, <1>2, <1>4 DEF CodecInit, CodecType
<1>6. StandardFrom(bytes, decoder)[1] \in Seq(Nat)
  BY <1>2, <1>4, StandardUnfolds
<1>7. <<>> \o StandardFrom(bytes, decoder)[1] = StandardFrom(bytes, decoder)[1]
  BY <1>6, ConcatEmptySeq
<1>8. CodecLoop
  BY <1>7 DEF CodecInit, CodecLoop
<1> QED
  BY <1>5, <1>8 DEF CodecInv

LEMMA DecodeNextOK ==
  ASSUME CodecInv, DecodeNext
  PROVE  CodecInv'
<1> DEFINE f == StandardFrom(bytes, decoder)
           bad == IllFormedFrom(bytes)
           it == Iteration
<1>1. /\ bytes \in Seq(Bytes) /\ out \in Seq(Nat) /\ decoder \in {"perByte", "maximal"}
      /\ i \in 1 .. Len(bytes) + 1 /\ i <= Len(bytes) /\ encoder # "pending" /\ ended = "no"
  BY DEF CodecInv, CodecType, DecodeNext
<1>2. Len(bytes) \in Nat /\ i \in 1 .. Len(bytes)
  BY <1>1, ByteAt
<1>3. /\ it.ok \in BOOLEAN
      /\ it.ok <=> WellFormedAt(bytes, i) # {}
      /\ it.ok => it.length = LengthAt(bytes, i)
      /\ i + it.length \in 1 .. Len(bytes) + 1 /\ it.length \in Nat
      /\ Appended \in Nat
      /\ f[i] = <<Appended>> \o f[i + it.length]
  BY <1>1, <1>2, IterationOK
<1>4. /\ it.ok => out' = Append(out, Appended) /\ i' = i + it.length /\ ended' = ended
      /\ ~it.ok /\ fatal => ended' = "threw" /\ i' = i /\ out' = out
      /\ ~it.ok /\ ~fatal => out' = Append(out, Appended) /\ i' = i + it.length /\ ended' = ended
  BY <1>3 DEF DecodeNext, Iteration, Appended
<1>5. /\ decoder' = decoder /\ fatal' = fatal /\ text' = text /\ encoder' = encoder
      /\ bytes' = bytes
  BY DEF DecodeNext
<1>6. bad[i] <=> WellFormedAt(bytes, i) = {} \/ bad[i + LengthAt(bytes, i)]
  BY <1>1, <1>2, IllFormedUnfolds
<1>7. CASE ~it.ok /\ fatal
  <2>1. ended' = "threw" /\ i' = i /\ out' = out
    BY <1>4, <1>7
  <2>2. bad[i]
    BY <1>3, <1>6, <1>7
  <2>3. CodecType'
    BY <1>5, <2>1 DEF CodecInv, CodecType
  <2>4. CodecLoop'
    BY <1>1, <1>5, <1>7, <2>1, <2>2 DEF CodecInv, CodecLoop
  <2> QED
    BY <2>3, <2>4 DEF CodecInv
<1>8. CASE it.ok \/ ~fatal
  <2>1. out' = Append(out, Appended) /\ i' = i + it.length /\ ended' = ended
    BY <1>3, <1>4, <1>8
  <2>2. f[i + it.length] \in Seq(Nat)
    BY <1>1, <1>3, StandardUnfolds
  <2>3. out' \in Seq(Nat) /\ out' = out \o <<Appended>> /\ <<Appended>> \in Seq(Nat)
    <3> DEFINE V == Nat
    <3>1. out \in Seq(V) /\ Appended \in V
      BY <1>1, <1>3
    <3> HIDE DEF V
    <3>2. Append(out, Appended) \in Seq(V) /\ Append(out, Appended) = out \o <<Appended>>
      BY <3>1, AppendProperties, AppendIsConcat
    <3>3. <<Appended>> \in Seq(V)
      BY <3>1
    <3> QED
      BY <2>1, <3>2, <3>3 DEF V
  <2>4. out' \o f[i + it.length] = out \o f[i]
    <3> DEFINE g == f[i + it.length]
    <3>1. g \in Seq(Nat) /\ out \in Seq(Nat) /\ <<Appended>> \in Seq(Nat)
      BY <1>1, <2>2, <2>3
    <3>2. f[i] = <<Appended>> \o g /\ out' = out \o <<Appended>>
      BY <1>3, <2>3
    <3> HIDE DEF g, f, it
    <3>3. (out \o <<Appended>>) \o g = out \o (<<Appended>> \o g)
      BY <3>1, NatAssociative
    <3>4. out' \o g = out \o f[i]
      BY <3>2, <3>3
    <3> QED
      BY <3>4 DEF g
  <2>5. out' \o f[i'] = f[1]
    BY <2>1, <2>4 DEF CodecInv, CodecLoop
  <2>6. fatal => (bad[i'] <=> bad[1])
    <3>1. ASSUME fatal PROVE bad[i'] <=> bad[1]
      <4>1. it.ok /\ WellFormedAt(bytes, i) # {}
        BY <1>3, <1>8, <3>1
      <4>2. bad[i] <=> bad[i']
        BY <1>3, <1>6, <2>1, <4>1
      <4> QED
        BY <3>1, <4>2 DEF CodecInv, CodecLoop
    <3> QED
      BY <3>1
  <2>7. CodecType'
    BY <1>3, <1>5, <2>1, <2>3 DEF CodecInv, CodecType
  <2>8. CodecLoop'
    <3> HIDE DEF it
    <3> QED
      BY <1>1, <1>5, <2>1, <2>5, <2>6 DEF CodecInv, CodecLoop
  <2> QED
    BY <2>7, <2>8 DEF CodecInv
<1> QED
  BY <1>3, <1>7, <1>8

LEMMA ReturnOK ==
  ASSUME CodecInv, Return
  PROVE  CodecInv'
<1>1. i = Len(bytes) + 1
  <2>1. i \in 1 .. Len(bytes) + 1 /\ i > Len(bytes) /\ Len(bytes) \in Nat
    BY ByteAt DEF CodecInv, CodecType, Return
  <2> QED
    BY <2>1
<1>2. CodecType'
  BY DEF CodecInv, CodecType, Return
<1>3. CodecLoop'
  BY <1>1 DEF CodecInv, CodecLoop, Return
<1> QED
  BY <1>2, <1>3 DEF CodecInv

LEMMA EncodeOK ==
  ASSUME CodecInv, Encode, EncodeUtf8(text) \in Seq(Bytes)
  PROVE  CodecInv'
<1> DEFINE b == EncodeUtf8(text)
<1>1. /\ b \in Seq(Bytes) /\ bytes' = b /\ i' = 1 /\ out' = <<>> /\ ended' = "no"
      /\ decoder' = decoder /\ fatal' = fatal /\ text' = text /\ encoder' = "done"
  BY DEF CodecInv, CodecLoop, Encode
<1> HIDE DEF b
<1>2. 1 \in 1 .. Len(b) + 1
  <2>1. Len(b) \in Nat
    BY <1>1, ByteAt
  <2> QED
    BY <2>1
<1>3. CodecType'
  BY <1>1, <1>2, EmptySeq DEF CodecInv, CodecType
<1>4. StandardFrom(b, decoder)[1] \in Seq(Nat)
  BY <1>1, <1>2, StandardUnfolds
<1>5. <<>> \o StandardFrom(b, decoder)[1] = StandardFrom(b, decoder)[1]
  BY <1>4, ConcatEmptySeq
<1>6. CodecLoop'
  BY <1>1, <1>5 DEF CodecLoop, b
<1> QED
  BY <1>3, <1>6 DEF CodecInv

(* The invariant at the end of the loop: all of the reference has been     *)
(* read.                                                                   *)
LEMMA DecodesOK ==
  ASSUME CodecInv
  PROVE  Decodes
<1> SUFFICES ASSUME ended # "no" PROVE IF fatal /\ IllFormed THEN ended = "threw"
                                       ELSE ended = "returned" /\ out = Standard
  BY DEF Decodes
<1>1. /\ bytes \in Seq(Bytes) /\ out \in Seq(Nat) /\ ended \in {"returned", "threw"}
      /\ Len(bytes) \in Nat
  BY ByteAt DEF CodecInv, CodecType
<1>2. CASE ended = "threw"
  BY <1>2 DEF CodecInv, CodecLoop, IllFormed
<1>3. CASE ended = "returned"
  <2>1. i = Len(bytes) + 1
    BY <1>3 DEF CodecInv, CodecLoop
  <2>2. StandardFrom(bytes, decoder)[i] = <<>> /\ ~IllFormedFrom(bytes)[i]
    BY <1>1, <2>1, StandardUnfolds, IllFormedUnfolds
  <2>3. out \o <<>> = out
    BY <1>1, ConcatEmptySeq
  <2>4. out = Standard
    BY <2>2, <2>3 DEF CodecInv, CodecLoop, Standard
  <2>5. fatal => ~IllFormed
    BY <2>2 DEF CodecInv, CodecLoop, IllFormed
  <2> QED
    BY <1>3, <2>4, <2>5
<1> QED
  BY <1>1, <1>2, <1>3

-----------------------------------------------------------------------------
(* Encoding and decoding again.                                            *)

Scalar == {c \in Nat : c <= 1114111 /\ (c < 55296 \/ c > 57343)}

(* The surrogates, by their bounds. *)
LEMMA HighLow ==
  \A u \in Nat : /\ IsHigh(u) <=> 55296 <= u /\ u <= 56319
                 /\ IsLow(u) <=> 56320 <= u /\ u <= 57343
BY SMT DEF IsHigh, IsLow

LEMMA HighNat == \A u : IsHigh(u) \/ IsLow(u) => u \in Nat
<1>1. \A u : IsHigh(u) => u \in Nat
  BY SMT DEF IsHigh
<1>2. \A u : IsLow(u) => u \in Nat
  BY SMT DEF IsLow
<1> QED
  BY <1>1, <1>2

(* What is no surrogate is a scalar value, and so is what a pair stands    *)
(* for.                                                                    *)
LEMMA UnitPoint ==
  ASSUME NEW u \in Units, ~IsHigh(u), ~IsLow(u)
  PROVE  u \in Scalar
<1>1. u \in Nat /\ u <= 65535
  BY SMTT(40) DEF Units
<1>2. ~(55296 <= u /\ u <= 56319) /\ ~(56320 <= u /\ u <= 57343)
  BY <1>1, HighLow
<1>3. u <= 1114111 /\ (u < 55296 \/ u > 57343)
  BY <1>1, <1>2, SMT
<1> QED
  BY <1>1, <1>3, SMTT(40) DEF Scalar

LEMMA PairPoint ==
  ASSUME NEW h, NEW l, IsHigh(h), IsLow(l)
  PROVE  Pair(h, l) \in Scalar
<1>1. h \in Nat /\ l \in Nat
  BY HighNat
<1>2. 55296 <= h /\ h <= 56319 /\ 56320 <= l /\ l <= 57343
  BY <1>1, HighLow
<1>3. Pair(h, l) \in Nat /\ Pair(h, l) <= 1114111 /\ Pair(h, l) > 57343
  BY <1>1, <1>2, SMT DEF Pair
<1> QED
  BY <1>3 DEF Scalar

LEMMA Disjoint == \A u : IsLow(u) => ~IsHigh(u)
<1> SUFFICES ASSUME NEW u, IsLow(u), IsHigh(u) PROVE FALSE
  OBVIOUS
<1>1. u \in Nat
  BY HighNat
<1>2. u <= 56319 /\ 56320 <= u
  BY <1>1, HighLow
<1> QED
  BY <1>1, <1>2, SMT

(* The digits of a code point to the base of 64. *)
LEMMA Digits ==
  \A c \in Nat : /\ c \div 64 \in Nat /\ c % 64 \in 0 .. 63
                 /\ c = (c \div 64) * 64 + (c % 64)
                 /\ c \div 4096 = (c \div 64) \div 64
                 /\ c \div 262144 = (c \div 4096) \div 64
<1> TAKE c \in Nat
<1>1. c \div 64 \in Nat /\ c % 64 \in 0 .. 63 /\ c = (c \div 64) * 64 + (c % 64)
  BY SMT
<1>2. c \div 4096 = (c \div 64) \div 64
  BY SMT
<1>3. c \div 262144 = (c \div 4096) \div 64
  BY SMT
<1> QED
  BY <1>1, <1>2, <1>3

(* The bytes of two, three and four: each in its range and window, and     *)
(* together the code point again.                                          *)
LEMMA EncodedTwo ==
  ASSUME NEW c \in Nat, 128 <= c, c <= 2047
  PROVE  /\ 192 + (c \div 64) \in 194 .. 223 /\ 128 + (c % 64) \in 128 .. 191
         /\ ((192 + (c \div 64)) % 32) * 64 + ((128 + (c % 64)) % 64) = c
<1>1. PICK q \in Nat, r \in 0 .. 63 : q = c \div 64 /\ r = c % 64 /\ c = q * 64 + r
  BY Digits
<1>2. q \in 2 .. 31
  BY <1>1, SMT
<1>3. (192 + q) % 32 = q /\ (128 + r) % 64 = r
  BY <1>2, SMT
<1>4. 192 + q \in 194 .. 223 /\ 128 + r \in 128 .. 191
  BY <1>2, SMT
<1> QED
  BY <1>1, <1>3, <1>4

LEMMA EncodedThree ==
  ASSUME NEW c \in Nat, 2048 <= c, c <= 65535, c < 55296 \/ c > 57343
  PROVE  /\ 224 + (c \div 4096) \in 224 .. 239
         /\ 128 + ((c \div 64) % 64) \in Window(224 + (c \div 4096))
         /\ 128 + ((c \div 64) % 64) \in 128 .. 191
         /\ 128 + (c % 64) \in 128 .. 191
         /\ (((224 + (c \div 4096)) % 16) * 64 + ((128 + ((c \div 64) % 64)) % 64)) * 64
              + ((128 + (c % 64)) % 64) = c
<1>1. PICK v \in Nat, r \in 0 .. 63 : v = c \div 64 /\ r = c % 64 /\ c = v * 64 + r
  BY Digits
<1>2. PICK q \in Nat, s \in 0 .. 63 : q = v \div 64 /\ s = v % 64 /\ v = q * 64 + s
  BY Digits
<1>3. q = c \div 4096
  BY <1>1, <1>2, Digits
<1>4. q \in 0 .. 15
  BY <1>1, <1>2, SMT
<1>5. (224 + q) % 16 = q /\ (128 + r) % 64 = r /\ (128 + s) % 64 = s
  BY <1>4, SMT
<1>6. 224 + q \in 224 .. 239 /\ 128 + r \in 128 .. 191 /\ 128 + s \in 128 .. 191
  BY <1>4, SMT
<1>7. 128 + s \in Window(224 + q)
  <2>0. PICK a, e : a = 224 + q /\ e = 128 + s
    OBVIOUS
  <2>1. a \in 224 .. 239 /\ e \in 128 .. 191 /\ a = 224 + q /\ e = 128 + s
    BY <1>6, <2>0
  <2>2. e \in Window(a) <=> /\ a = 224 => e >= 160
                            /\ a = 237 => e <= 159
                            /\ a = 240 => e >= 144
                            /\ a = 244 => e <= 143
    BY <2>1, WindowOfMore
  <2>3. a = 224 => e >= 160
    BY <1>1, <1>2, <2>1, SMT
  <2>4. a = 237 => e <= 159
    BY <1>1, <1>2, <2>1, SMT
  <2>5. a # 240 /\ a # 244
    BY <1>4, <2>1, SMT
  <2> QED
    BY <2>1, <2>2, <2>3, <2>4, <2>5, SMTT(40)
<1>8. (q * 64 + s) * 64 + r = c
  BY <1>1, <1>2
<1> QED
  BY <1>1, <1>2, <1>3, <1>5, <1>6, <1>7, <1>8

LEMMA EncodedFour ==
  ASSUME NEW c \in Nat, 65536 <= c, c <= 1114111
  PROVE  /\ 240 + (c \div 262144) \in 240 .. 244
         /\ 128 + ((c \div 4096) % 64) \in Window(240 + (c \div 262144))
         /\ 128 + ((c \div 4096) % 64) \in 128 .. 191
         /\ 128 + ((c \div 64) % 64) \in 128 .. 191
         /\ 128 + (c % 64) \in 128 .. 191
         /\ ((((240 + (c \div 262144)) % 8) * 64 + ((128 + ((c \div 4096) % 64)) % 64)) * 64
              + ((128 + ((c \div 64) % 64)) % 64)) * 64 + ((128 + (c % 64)) % 64) = c
<1>1. PICK v \in Nat, r \in 0 .. 63 : v = c \div 64 /\ r = c % 64 /\ c = v * 64 + r
  BY Digits
<1>2. PICK w \in Nat, s \in 0 .. 63 : w = v \div 64 /\ s = v % 64 /\ v = w * 64 + s
  BY Digits
<1>3. PICK q \in Nat, u \in 0 .. 63 : q = w \div 64 /\ u = w % 64 /\ w = q * 64 + u
  BY Digits
<1>4. w = c \div 4096 /\ q = c \div 262144
  BY <1>1, <1>2, <1>3, Digits
<1>5. q \in 0 .. 4
  BY <1>1, <1>2, <1>3, SMT
<1>6. (240 + q) % 8 = q /\ (128 + r) % 64 = r /\ (128 + s) % 64 = s /\ (128 + u) % 64 = u
  BY <1>5, SMT
<1>7. /\ 240 + q \in 240 .. 244 /\ 128 + r \in 128 .. 191 /\ 128 + s \in 128 .. 191
      /\ 128 + u \in 128 .. 191
  BY <1>5, SMT
<1>8. 128 + u \in Window(240 + q)
  <2>0. PICK a, e : a = 240 + q /\ e = 128 + u
    OBVIOUS
  <2>1. a \in 240 .. 244 /\ e \in 128 .. 191 /\ a = 240 + q /\ e = 128 + u
    BY <1>7, <2>0
  <2>2. e \in Window(a) <=> /\ a = 224 => e >= 160
                            /\ a = 237 => e <= 159
                            /\ a = 240 => e >= 144
                            /\ a = 244 => e <= 143
    BY <2>1, WindowOfMore
  <2>3. a = 240 => e >= 144
    BY <1>1, <1>2, <1>3, <2>1, SMT
  <2>4. a = 244 => e <= 143
    BY <1>1, <1>2, <1>3, <2>1, SMT
  <2>5. a # 224 /\ a # 237
    BY <1>5, <2>1, SMT
  <2> QED
    BY <2>1, <2>2, <2>3, <2>4, <2>5, SMTT(40)
<1>9. ((q * 64 + u) * 64 + s) * 64 + r = c
  BY <1>1, <1>2, <1>3
<1> QED
  BY <1>1, <1>2, <1>3, <1>4, <1>6, <1>7, <1>8, <1>9

(* A text reads as scalar values. *)
LEMMA CodePointsOK ==
  ASSUME NEW t \in Seq(Units)
  PROVE  CodePoints(t) \in Seq(Scalar)
<1> DEFINE point(k) == CASE EndsPair(t, k)   -> <<>>
                         [] StartsPair(t, k) -> <<Pair(t[k], t[k + 1])>>
                         [] Lone(t, k)       -> <<REPLACEMENT>>
                         [] OTHER            -> <<t[k]>>
           n == Len(t)
           W == Seq(Scalar)
<1>1. n \in Nat /\ DOMAIN t = 1 .. n /\ \A k \in 1 .. n : t[k] \in Units
  BY LenProperties, ElementOfSeq
<1>2. REPLACEMENT \in Scalar
  BY SMT DEF REPLACEMENT, Scalar
<1>3. \A x \in Scalar : <<x>> \in W
  <2> HIDE DEF Scalar
  <2> QED
    OBVIOUS
<1>4. <<>> \in W
  BY EmptySeq
<1> HIDE DEF W
<1>5. ASSUME NEW k \in 1 .. n PROVE point(k) \in W
  <2>1. CASE EndsPair(t, k)
    <3>1. ~StartsPair(t, k)
      BY <2>1, Disjoint DEF EndsPair, StartsPair
    <3>2. point(k) = <<>>
      BY <2>1, <3>1 DEF Lone
    <3> QED
      BY <1>4, <3>2
  <2>2. CASE ~EndsPair(t, k) /\ StartsPair(t, k)
    <3>1. Pair(t[k], t[k + 1]) \in Scalar
      BY <2>2, PairPoint DEF StartsPair
    <3>2. point(k) = <<Pair(t[k], t[k + 1])>>
      BY <2>2 DEF Lone
    <3> QED
      BY <1>3, <3>1, <3>2
  <2>3. CASE Lone(t, k)
    <3>1. point(k) = <<REPLACEMENT>>
      BY <2>3 DEF Lone
    <3> QED
      BY <1>2, <1>3, <3>1
  <2>4. CASE ~EndsPair(t, k) /\ ~StartsPair(t, k) /\ ~Lone(t, k)
    <3>1. t[k] \in Scalar
      BY <1>1, <2>4, UnitPoint DEF Lone
    <3>2. point(k) = <<t[k]>>
      BY <2>4
    <3> QED
      BY <1>3, <3>1, <3>2
  <2> QED
    BY <2>1, <2>2, <2>3, <2>4
<1> DEFINE ss == [k \in 1 .. n |-> point(k)]
<1>6. ss \in Seq(W)
  <2> HIDE DEF point
  <2> QED
    BY <1>1, <1>5
<1>7. CodePoints(t) = FlattenSeq(ss)
  BY <1>1 DEF CodePoints
<1> HIDE DEF ss
<1>8. FlattenSeq(ss) \in Seq(Scalar)
  BY <1>6, FlattenOK DEF W
<1> QED
  BY <1>7, <1>8

LEMMA EncodedIs ==
  ASSUME NEW c \in Nat
  PROVE  /\ c < 128 => Encoded(c) = <<c>>
         /\ 128 <= c /\ c <= 2047 => Encoded(c) = <<192 + (c \div 64), 128 + (c % 64)>>
         /\ 2048 <= c /\ c <= 65535 =>
              Encoded(c) = <<224 + (c \div 4096), 128 + ((c \div 64) % 64), 128 + (c % 64)>>
         /\ 65536 <= c =>
              Encoded(c) = <<240 + (c \div 262144), 128 + ((c \div 4096) % 64),
                             128 + ((c \div 64) % 64), 128 + (c % 64)>>
BY SMT DEF Encoded

(* One to four bytes are a sequence. *)
LEMMA ByteTuples ==
  /\ \A x \in Bytes : <<x>> \in Seq(Bytes)
  /\ \A x, y \in Bytes : <<x, y>> \in Seq(Bytes)
  /\ \A x, y, z \in Bytes : <<x, y, z>> \in Seq(Bytes)
  /\ \A x, y, z, w \in Bytes : <<x, y, z, w>> \in Seq(Bytes)
OBVIOUS

(* e is n bytes that stand for the code point c. *)
Form(e, n, c) ==
  /\ n \in 1 .. 4 /\ e \in Seq(Bytes) /\ Len(e) = n /\ Value(e, n) = c
  /\ n = LengthMaximal(e[1])
  /\ n >= 2 => e[2] \in Window(e[1])
  /\ n >= 3 => e[3] \in Continuation
  /\ n >= 4 => e[4] \in Continuation

(* The encoder writes the form of a scalar value. *)
LEMMA FormOK ==
  ASSUME NEW c \in Scalar
  PROVE  \E n : Form(Encoded(c), n, c)
<1>1. c \in Nat /\ c <= 1114111 /\ (c < 55296 \/ c > 57343)
  BY DEF Scalar
<1>3. Continuation = 128 .. 191
  BY DEF Continuation
<1>4. CASE c < 128
  <2>1. Encoded(c) = <<c>>
    BY <1>1, <1>4, EncodedIs
  <2>2. c \in 0 .. 255 /\ LengthMaximal(c) = 1
    BY <1>1, <1>4, SMTT(40) DEF LengthMaximal
  <2>3. <<c>> \in Seq(Bytes) /\ Len(<<c>>) = 1 /\ <<c>>[1] = c
    BY <2>2, ByteTuples, ZenonT(40) DEF Bytes
  <2>4. Value(<<c>>, 1) = c
    BY DEF Value, LeadBits
  <2> QED
    BY <2>1, <2>2, <2>3, <2>4 DEF Form
<1>5. CASE 128 <= c /\ c <= 2047
  <2> DEFINE x == 192 + (c \div 64)
             y == 128 + (c % 64)
  <2>1. Encoded(c) = <<x, y>>
    BY <1>1, <1>5, EncodedIs
  <2>2. x \in 194 .. 223 /\ y \in 128 .. 191 /\ (x % 32) * 64 + (y % 64) = c
    BY <1>1, <1>5, EncodedTwo
  <2> HIDE DEF x, y
  <2>3. x \in 0 .. 255 /\ y \in 0 .. 255 /\ LengthMaximal(x) = 2
    BY <2>2, SMT DEF LengthMaximal
  <2>4. y \in Window(x)
    <3>1. x # 224 /\ x # 237 /\ x # 240 /\ x # 244
      BY <2>2
    <3> QED
      BY <2>2, <2>3, <3>1, WindowOK, SMTT(40)
  <2>5. <<x, y>> \in Seq(Bytes)
    BY <2>3, ByteTuples, ZenonT(40) DEF Bytes
  <2>6. Value(<<x, y>>, 2) = c
    BY <2>2 DEF Value, LeadBits
  <2> DEFINE e == <<x, y>>
  <2>7. Len(e) = 2 /\ e[1] = x /\ e[2] = y
    OBVIOUS
  <2> HIDE DEF e
  <2>8. Form(e, 2, c)
    BY <2>3, <2>4, <2>5, <2>6, <2>7 DEF Form, e
  <2> QED
    BY <2>1, <2>8 DEF e
<1>6. CASE 2048 <= c /\ c <= 65535
  <2> DEFINE x == 224 + (c \div 4096)
             y == 128 + ((c \div 64) % 64)
             z == 128 + (c % 64)
  <2>1. Encoded(c) = <<x, y, z>>
    BY <1>1, <1>6, EncodedIs
  <2>2. /\ x \in 224 .. 239 /\ y \in 128 .. 191 /\ z \in 128 .. 191 /\ y \in Window(x)
        /\ ((x % 16) * 64 + (y % 64)) * 64 + (z % 64) = c
    BY <1>1, <1>6, EncodedThree
  <2> HIDE DEF x, y, z
  <2>3. x \in 0 .. 255 /\ y \in 0 .. 255 /\ z \in 0 .. 255 /\ LengthMaximal(x) = 3
    BY <2>2, SMT DEF LengthMaximal
  <2>4. <<x, y, z>> \in Seq(Bytes)
    BY <2>3, ByteTuples, ZenonT(40) DEF Bytes
  <2>5. Value(<<x, y, z>>, 3) = c
    BY <2>2 DEF Value, LeadBits
  <2> DEFINE e == <<x, y, z>>
  <2>6. Len(e) = 3 /\ e[1] = x /\ e[2] = y /\ e[3] = z
    OBVIOUS
  <2> HIDE DEF e
  <2>7. Form(e, 3, c)
    BY <1>3, <2>2, <2>3, <2>4, <2>5, <2>6 DEF Form, e
  <2> QED
    BY <2>1, <2>7 DEF e
<1>7. CASE 65536 <= c
  <2> DEFINE x == 240 + (c \div 262144)
             y == 128 + ((c \div 4096) % 64)
             z == 128 + ((c \div 64) % 64)
             w == 128 + (c % 64)
  <2>1. Encoded(c) = <<x, y, z, w>>
    BY <1>1, <1>7, EncodedIs
  <2>2. /\ x \in 240 .. 244 /\ y \in 128 .. 191 /\ z \in 128 .. 191 /\ w \in 128 .. 191
        /\ y \in Window(x)
        /\ (((x % 8) * 64 + (y % 64)) * 64 + (z % 64)) * 64 + (w % 64) = c
    BY <1>1, <1>7, EncodedFour
  <2> HIDE DEF x, y, z, w
  <2>3. /\ x \in 0 .. 255 /\ y \in 0 .. 255 /\ z \in 0 .. 255 /\ w \in 0 .. 255
        /\ LengthMaximal(x) = 4
    BY <2>2, SMT DEF LengthMaximal
  <2>4. <<x, y, z, w>> \in Seq(Bytes)
    BY <2>3, ByteTuples, ZenonT(40) DEF Bytes
  <2>5. Value(<<x, y, z, w>>, 4) = c
    BY <2>2 DEF Value, LeadBits
  <2> DEFINE e == <<x, y, z, w>>
  <2>6. Len(e) = 4 /\ e[1] = x /\ e[2] = y /\ e[3] = z /\ e[4] = w
    OBVIOUS
  <2> HIDE DEF e
  <2>7. Form(e, 4, c)
    BY <1>3, <2>2, <2>3, <2>4, <2>5, <2>6 DEF Form, e
  <2> QED
    BY <2>1, <2>7 DEF e
<1>8. c < 128 \/ (128 <= c /\ c <= 2047) \/ (2048 <= c /\ c <= 65535) \/ 65536 <= c
  BY <1>1, SMT
<1> QED
  BY <1>4, <1>5, <1>6, <1>7, <1>8

(* A form is read where it stands, and nothing else is. *)
LEMMA FormStands ==
  ASSUME NEW b \in Seq(Bytes), NEW q \in Nat, NEW e, NEW n, NEW c, NEW d, Form(e, n, c),
         q + n <= Len(b), \A j \in 1 .. n : b[q + j] = e[j]
  PROVE  /\ q + 1 \in 1 .. Len(b) /\ WellFormedAt(b, q + 1) # {} /\ LengthAt(b, q + 1) = n
         /\ PointsAt(b, d, q + 1) = <<c>>
<1> DEFINE p == q + 1
<1>1. n \in 1 .. 4 /\ n \in Nat /\ Len(b) \in Nat /\ e \in Seq(Bytes) /\ Len(e) = n
  BY ByteAt DEF Form
<1>2. p \in 1 .. Len(b) /\ p + n - 1 = q + n /\ p + n - 1 <= Len(b)
  BY <1>1
<1>3. /\ b[p] = e[1]
      /\ n >= 2 => b[p + 1] = e[2]
      /\ n >= 3 => b[p + 2] = e[3]
      /\ n >= 4 => b[p + 3] = e[4]
  <2>1. p = q + 1 /\ p + 1 = q + 2 /\ p + 2 = q + 3 /\ p + 3 = q + 4
    OBVIOUS
  <2>2. /\ 1 \in 1 .. n
        /\ n >= 2 => 2 \in 1 .. n
        /\ n >= 3 => 3 \in 1 .. n
        /\ n >= 4 => 4 \in 1 .. n
    BY <1>1
  <2> HIDE DEF p
  <2> QED
    BY <2>1, <2>2
<1> HIDE DEF p
<1>4. Fits(b, p, n, n)
  <2>1. n \in 1 .. n
    BY <1>1
  <2>2. /\ n = LengthMaximal(b[p])
        /\ n >= 2 => b[p + 1] \in Window(b[p])
        /\ n >= 3 => b[p + 2] \in Continuation
        /\ n >= 4 => b[p + 3] \in Continuation
    BY <1>3, Zenon DEF Form
  <2> QED
    BY <1>2, <2>1, <2>2, Zenon DEF Fits
<1>5. n = LengthMaximal(b[p])
  BY <1>4 DEF Fits
<1>6. WellFormedAt(b, p) = {n}
  BY <1>2, <1>4, <1>5, WellFormedIs
<1>7. LengthAt(b, p) = n
  <2>1. LengthAt(b, p) \in {n}
    BY <1>2, <1>6, LengthAtOK
  <2> QED
    BY <2>1
<1>8. SubSeq(b, p, p + n - 1) = e
  <2> DEFINE s == SubSeq(b, p, p + n - 1)
  <2>1. s \in Seq(Bytes) /\ Len(s) = n /\ \A k \in 1 .. n : s[k] = b[p + k - 1]
    BY <1>1, <1>2, Part
  <2>2. \A k \in 1 .. n : p + k - 1 = q + k
    BY <1>1 DEF p
  <2> HIDE DEF s
  <2>3. \A k \in 1 .. Len(s) : s[k] = e[k]
    BY <2>1, <2>2
  <2>4. s = e
    BY <1>1, <2>1, <2>3, SeqEqual
  <2> QED
    BY <2>4 DEF s
<1>9. PointsAt(b, d, p) = <<c>>
  <2>1. PointsAt(b, d, p) = <<Value(e, n)>>
    BY <1>6, <1>7, <1>8 DEF PointsAt
  <2> QED
    BY <2>1 DEF Form
<1> QED
  BY <1>2, <1>6, <1>7, <1>9 DEF p

(* The readings of a sequence P, element by element. *)
Reads(P, f, bad, at) ==
  /\ f[at[Len(P)]] = <<>> /\ ~bad[at[Len(P)]]
  /\ \A k \in 0 .. Len(P) - 1 : /\ f[at[k]] = <<P[k + 1]>> \o f[at[k + 1]]
                                /\ bad[at[k]] => bad[at[k + 1]]

(* Element by element, the whole of P is read. *)
LEMMA ReadThrough ==
  ASSUME NEW P \in Seq(Nat), NEW f, NEW bad, NEW at, Reads(P, f, bad, at)
  PROVE  f[at[0]] = P /\ ~bad[at[0]]
<1> DEFINE N == Len(P)
           D == 0 .. N
           last == {N}
           rank == [k \in D |-> N - k]
           next == [k \in D |-> k + 1]
           G == {k \in D : f[at[k]] = SubSeq(P, k + 1, N) /\ ~bad[at[k]]}
<1>1. N \in Nat
  BY LenProperties
<1>2. Descends(D, last, N + 1, rank, next)
  <2>1. last \in SUBSET D /\ N + 1 \in Nat /\ rank \in [D -> Nat] /\ \A k \in D : rank[k] < N + 1
    BY <1>1
  <2>2. \A k \in D \ last : next[k] \in D /\ rank[next[k]] < rank[k]
    BY <1>1
  <2> HIDE DEF D, last, rank, next, N
  <2> QED
    BY <2>1, <2>2 DEF Descends
<1>3. N \in G
  <2>1. SubSeq(P, N + 1, N) = <<>>
    <3>1. N + 1 \in Int /\ N \in Int /\ N < N + 1
      BY <1>1
    <3> HIDE DEF N
    <3> QED
      BY <3>1, SubSeqEmpty
  <2>2. f[at[N]] = <<>> /\ ~bad[at[N]]
    BY DEF Reads
  <2>3. N \in D
    BY <1>1
  <2> HIDE DEF D, N
  <2> QED
    BY <2>1, <2>2, <2>3
<1>4. ASSUME NEW k \in D \ last, next[k] \in G PROVE k \in G
  <2>1. k \in 0 .. N - 1 /\ k + 1 \in 1 .. N /\ N \in k + 1 .. N /\ next[k] = k + 1
    BY <1>1
  <2>2. f[at[k]] = <<P[k + 1]>> \o f[at[k + 1]] /\ (bad[at[k]] => bad[at[k + 1]])
    BY <2>1 DEF Reads
  <2>3. f[at[k + 1]] = SubSeq(P, (k + 1) + 1, N) /\ ~bad[at[k + 1]]
    BY <1>4, <2>1
  <2>4. SubSeq(P, k + 1, N) = <<P[k + 1]>> \o SubSeq(P, (k + 1) + 1, N)
    BY <2>1, SubSeqRecursiveFirst
  <2>5. f[at[k]] = SubSeq(P, k + 1, N) /\ ~bad[at[k]]
    BY <2>2, <2>3, <2>4
  <2> QED
    BY <2>5
<1>5. D \subseteq G
  <2> HIDE DEF D, last, rank, next, N, G
  <2>1. Inherited(D, last, next, G)
    BY <1>3, <1>4 DEF Inherited, last
  <2> QED
    BY <1>2, <2>1, RankInduct
<1>6. 0 \in D /\ 0 + 1 = 1
  BY <1>1
<1>7. f[at[0]] = SubSeq(P, 1, N) /\ ~bad[at[0]]
  BY <1>5, <1>6
<1> QED
  BY <1>7, SubSeqFull

(* An encoded text reads as its code points, and nothing in it is          *)
(* ill-formed.                                                             *)
LEMMA EncodedReads ==
  ASSUME NEW t \in Seq(Units)
  PROVE  /\ EncodeUtf8(t) \in Seq(Bytes)
         /\ \A d : StandardFrom(EncodeUtf8(t), d)[1] = CodePoints(t)
         /\ ~IllFormedFrom(EncodeUtf8(t))[1]
<1> DEFINE P == CodePoints(t)
           N == Len(P)
           ss == [k \in 1 .. N |-> Encoded(P[k])]
           b == EncodeUtf8(t)
<1>1. P \in Seq(Scalar) /\ N \in Nat /\ DOMAIN P = 1 .. N /\ \A k \in 1 .. N : P[k] \in Scalar
  <2>1. P \in Seq(Scalar)
    BY CodePointsOK
  <2> HIDE DEF P
  <2> QED
    BY <2>1, LenProperties, ElementOfSeq
<1>2. b = FlattenSeq(ss)
  BY <1>1 DEF EncodeUtf8
<1> HIDE DEF P, b
<1>3. P \in Seq(Nat)
  <2>1. Scalar \subseteq Nat
    BY DEF Scalar
  <2>2. P \in [1 .. N -> Scalar]
    BY <1>1, LenProperties
  <2>3. P \in [1 .. N -> Nat]
    BY <2>1, <2>2
  <2> QED
    BY <1>1, <2>3
<1>4. \A k \in 1 .. N : \E n : Form(ss[k], n, P[k])
  BY <1>1, FormOK
<1>5. Len(ss) = N
  BY <1>1
<1>6. ss \in Seq(Seq(Bytes))
  <2>1. \A k \in 1 .. N : Encoded(P[k]) \in Seq(Bytes)
    BY <1>1, FormOK DEF Form
  <2> DEFINE W == Seq(Bytes)
  <2> HIDE DEF W
  <2>2. \A k \in 1 .. N : Encoded(P[k]) \in W
    BY <2>1 DEF W
  <2>3. ss \in Seq(W)
    BY <1>1, <2>2, IsASeq
  <2> QED
    BY <2>3 DEF W
<1> HIDE DEF ss
<1>7. b \in Seq(Bytes) /\ \E ends : Joined(ss, b, ends)
  BY <1>2, <1>6, FlattenOK
<1>8. PICK ends : Joined(ss, b, ends)
  BY <1>7
<1> DEFINE at == [k \in 0 .. N |-> ends[k] + 1]
<1>9. Len(b) \in Nat /\ at[N] = Len(b) + 1 /\ at[0] = 1
  BY <1>1, <1>5, <1>7, <1>8, ByteAt DEF Joined
<1>10. ASSUME NEW d
       PROVE  Reads(P, StandardFrom(b, d), IllFormedFrom(b), at)
  <2> DEFINE f == StandardFrom(b, d)
             bad == IllFormedFrom(b)
  <2>1. f[at[N]] = <<>> /\ ~bad[at[N]]
    BY <1>7, <1>9, StandardUnfolds, IllFormedUnfolds
  <2>2. ASSUME NEW k \in 0 .. N - 1
        PROVE  f[at[k]] = <<P[k + 1]>> \o f[at[k + 1]] /\ (bad[at[k]] => bad[at[k + 1]])
    <3> DEFINE q == ends[k]
               m == k + 1
    <3>1. m \in 1 .. N /\ m - 1 = k /\ k \in 0 .. N /\ m \in 0 .. N
      BY <1>1
    <3>2. q \in Nat
      BY <1>5, <1>8, <3>1 DEF Joined
    <3>3. PICK n : Form(ss[m], n, P[m])
      BY <1>4, <3>1
    <3>4. Len(ss[m]) = n /\ n \in 1 .. 4
      BY <3>3 DEF Form
    <3>5. ends[m] = q + n /\ q + n <= Len(b) /\ \A j \in 1 .. n : b[q + j] = ss[m][j]
      BY <1>5, <1>8, <3>1, <3>4, SMTT(40) DEF Joined
    <3>6. at[k] = q + 1 /\ at[m] = (q + 1) + n
      <4>1. at[k] = ends[k] + 1 /\ at[m] = ends[m] + 1
        BY <3>1
      <4> HIDE DEF q, m, at
      <4> QED
        BY <3>2, <3>4, <3>5, <4>1 DEF q
    <3> HIDE DEF q, m, at
    <3>7. /\ q + 1 \in 1 .. Len(b) /\ WellFormedAt(b, q + 1) # {} /\ LengthAt(b, q + 1) = n
          /\ PointsAt(b, d, q + 1) = <<P[m]>>
      <4>1. PICK e, c : e = ss[m] /\ c = P[m]
        OBVIOUS
      <4>2. Form(e, n, c) /\ q + n <= Len(b) /\ \A j \in 1 .. n : b[q + j] = e[j]
        BY <3>3, <3>5, <4>1
      <4>3. /\ q + 1 \in 1 .. Len(b) /\ WellFormedAt(b, q + 1) # {} /\ LengthAt(b, q + 1) = n
            /\ PointsAt(b, d, q + 1) = <<c>>
        BY <1>7, <3>2, <4>2, FormStands
      <4> QED
        BY <4>1, <4>3
    <3>8. f[q + 1] = PointsAt(b, d, q + 1) \o f[(q + 1) + n]
      BY <1>7, <3>7, StandardUnfolds
    <3>9. bad[q + 1] => bad[(q + 1) + n]
      BY <1>7, <3>7, IllFormedUnfolds
    <3>10. f[at[k]] = <<P[m]>> \o f[at[m]] /\ (bad[at[k]] => bad[at[m]])
      BY <3>6, <3>7, <3>8, <3>9
    <3> QED
      BY <3>10 DEF m
  <2> HIDE DEF at, f, bad
  <2> QED
    BY <2>1, <2>2 DEF Reads, f, bad
<1>11. ASSUME NEW d PROVE StandardFrom(b, d)[1] = P /\ ~IllFormedFrom(b)[1]
  <2> HIDE DEF at
  <2> QED
    BY <1>3, <1>9, <1>10, ReadThrough
<1> QED
  BY <1>7, <1>11 DEF P, b

(* What was encoded is read back. *)
LEMMA RoundTripsOK ==
  ASSUME CodecInv
  PROVE  RoundTrips
<1> SUFFICES ASSUME encoder = "done", ended # "no"
             PROVE  ended = "returned" /\ out = CodePoints(text)
  BY DEF RoundTrips
<1>1. bytes = EncodeUtf8(text) /\ text \in Seq(Units)
  BY DEF CodecInv, CodecType, CodecLoop
<1>2. Standard = CodePoints(text) /\ ~IllFormed
  BY <1>1, EncodedReads DEF Standard, IllFormed
<1> QED
  BY <1>2, DecodesOK DEF Decodes

(* The loop keeps to CodecInv. *)
LEMMA CodecStepOK ==
  ASSUME CodecInv, [CodecNext]_codecVars
  PROVE  CodecInv'
<1>1. CASE Encode
  <2>1. EncodeUtf8(text) \in Seq(Bytes)
    BY EncodedReads DEF CodecInv, CodecType
  <2> QED
    BY <1>1, <2>1, EncodeOK
<1>2. CASE DecodeNext
  BY <1>2, DecodeNextOK
<1>3. CASE Return
  BY <1>3, ReturnOK
<1>4. CASE UNCHANGED codecVars
  BY <1>4 DEF codecVars, CodecInv, CodecType, CodecLoop
<1> QED
  BY <1>1, <1>2, <1>3, <1>4 DEF CodecNext

(* For all bytes and all texts: either decoder returns the code points     *)
(* Unicode's reference reads, throws on ill-formed bytes exactly when it   *)
(* is fatal, and reads back what the encoder wrote (textEncoding.ts).      *)
THEOREM CodecIsUnicode == CodecSpec => []CodecCorrect
<1>1. CodecInit => CodecInv
  BY CodecInitOK
<1>2. CodecInv /\ [CodecNext]_codecVars => CodecInv'
  BY CodecStepOK
<1>3. CodecInv => CodecCorrect
  BY DecodesOK, RoundTripsOK DEF CodecCorrect
<1> QED
  BY <1>1, <1>2, <1>3, PTL DEF CodecSpec
=============================================================================
