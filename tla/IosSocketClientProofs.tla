----------------------- MODULE IosSocketClientProofs -----------------------
(***************************************************************************)
(* The iOS client is driven by one thing (DrivenByOne) and reports once    *)
(* (ReportedOnce), for any reports, budgets and capacities, and queues of  *)
(* any length.                                                             *)
(*                                                                         *)
(* IInv has three parts that meet in the scheduler's queue: what its tasks *)
(* say of the client (TasksDrive), what its Acks say of the reports on the *)
(* wire (TasksAnswer), and the outbox against the sent-set (OutboxOK).     *)
(***************************************************************************)
EXTENDS IosSocketClient, SequenceTheorems, TLAPS

Dos == {"configure", "stop", "suspend", "resume", "report", "nothing"} \cup Callbacks
Saids == {"none", "accepted"} \cup AckErrors \cup CloseReasons
OfReports == {"report", "message", "ack"}
Tasks ==
  {t \in [do : Dos, report : Reports \cup {NoReport}, said : Saids] :
     t.do \in OfReports => t.report \in Reports}

Facades ==
  [relay : BOOLEAN, made : BOOLEAN, config : BOOLEAN, observing : BOOLEAN, away : BOOLEAN]
Statuses == {"idle", "connecting", "connected", "stopped", "authRequired", "replaced"}
Clients ==
  [configured : BOOLEAN, stopped : BOOLEAN, suspended : BOOLEAN, status : Statuses,
   poll : BOOLEAN, reconnect : BOOLEAN, deferral : Reports \cup {NoReport}]
Stages == {"none", "dialled", "greeted", "session", "closing", "ended"}
Entries == [report : Reports, attempts : Nat, defer : {"none", "running", "over"}]

IosTypeOK ==
  /\ facade \in Facades
  /\ ios \in Clients
  /\ stage \in Stages
  /\ tasks \in Seq(Tasks)
  /\ pending \in Seq(Entries)
  /\ inFlight \subseteq Reports
  /\ sentKeys \in Seq(Reports)
  /\ wire \subseteq Reports
  /\ heard \subseteq Reports

(* One driver while the client runs, none while it does not. *)
Driven(c, st) ==
  IF Running(c) THEN (st # "none") # c.reconnect ELSE st = "none" /\ ~c.reconnect

(* Only a configured client has had a socket; and with the relay off, a    *)
(* start in the queue has a stop behind it, and a client with no stop in   *)
(* the queue is stopped, or was never started.                             *)
CallbacksMean(ts, c) ==
  \A i \in DOMAIN ts : ts[i].do \in Callbacks => c.configured
OffStops(ts, f, c) ==
  ~f.relay =>
    /\ \A i \in DOMAIN ts :
         ts[i].do = "configure" => \E j \in DOMAIN ts : j > i /\ ts[j].do = "stop"
    /\ (\A i \in DOMAIN ts : ts[i].do # "stop") => ~c.configured \/ c.stopped
UnmadeRests(ts, f, c) ==
  ~f.made => ~c.configured /\ \A i \in DOMAIN ts : ts[i].do # "configure"

TasksDrive(ts, f, c) == CallbacksMean(ts, c) /\ OffStops(ts, f, c) /\ UnmadeRests(ts, f, c)

(* An Ack in the queue is the only one for its report, which is still      *)
(* marked as sent and waits for no other answer.                           *)
TasksAnswer(ts, st, w, sent) ==
  \A i \in DOMAIN ts : ts[i].do = "ack" =>
    /\ \A j \in DOMAIN ts : ts[j].do = "ack" /\ ts[j].report = ts[i].report => j = i
    /\ ts[i].report \notin w
    /\ st # "none" => ts[i].report \in sent

WireOK(st, w, sent) == w \subseteq sent /\ (st # "session" => w = {})

Distinct(p) ==
  \A i, j \in DOMAIN p : p[i].report = p[j].report => i = j
OutboxOK(h, keys, p) ==
  h \subseteq ToSet(keys) /\ h \cap Queued(p) = {} /\ Distinct(p)

IInv ==
  /\ IosTypeOK
  /\ Driven(ios, stage)
  /\ TasksDrive(tasks, facade, ios)
  /\ TasksAnswer(tasks, stage, wire, inFlight)
  /\ WireOK(stage, wire, inFlight)
  /\ OutboxOK(heard, sentKeys, pending)

-----------------------------------------------------------------------------
(* Queues and lists, position by position.                                 *)

(* The oldest element goes: every other one moves down by one place.       *)
LEMMA TailAt ==
  ASSUME NEW S, NEW ts \in Seq(S), ts # <<>>
  PROVE  /\ Tail(ts) \in Seq(S) /\ Head(ts) \in S /\ Head(ts) = ts[1]
         /\ 1 \in DOMAIN ts
         /\ DOMAIN Tail(ts) = 1 .. Len(ts) - 1 /\ Len(ts) \in Nat /\ Len(ts) >= 1
         /\ DOMAIN ts = 1 .. Len(ts)
         /\ \A i \in DOMAIN Tail(ts) : i + 1 \in DOMAIN ts /\ Tail(ts)[i] = ts[i + 1]
         /\ \A i \in DOMAIN ts : i # 1 => i - 1 \in DOMAIN Tail(ts) /\ Tail(ts)[i - 1] = ts[i]
  OBVIOUS

(* A new element is the last one, and the others keep their places.        *)
LEMMA AppendAt ==
  ASSUME NEW S, NEW ts \in Seq(S), NEW t \in S
  PROVE  /\ Append(ts, t) \in Seq(S)
         /\ DOMAIN Append(ts, t) = DOMAIN ts \cup {Len(ts) + 1}
         /\ DOMAIN ts = 1 .. Len(ts) /\ Len(ts) \in Nat
         /\ Append(ts, t)[Len(ts) + 1] = t
         /\ \A i \in DOMAIN ts : Append(ts, t)[i] = ts[i]
         /\ \A i \in DOMAIN Append(ts, t) :
              Append(ts, t)[i] = IF i = Len(ts) + 1 THEN t ELSE ts[i]
  OBVIOUS

(* What is behind the element that goes moves down by one place.           *)
LEMMA RemoveAtIs ==
  ASSUME NEW S, NEW s \in Seq(S), NEW k \in DOMAIN s
  PROVE  /\ RemoveAt(s, k) \in Seq(S)
         /\ DOMAIN RemoveAt(s, k) = 1 .. Len(s) - 1 /\ Len(s) \in Nat /\ k \in 1 .. Len(s)
         /\ \A i \in DOMAIN RemoveAt(s, k) :
              RemoveAt(s, k)[i] = IF i < k THEN s[i] ELSE s[i + 1]
<1>1. k \in 1 .. Len(s) /\ Len(s) \in Nat
  OBVIOUS
<1> DEFINE front == SubSeq(s, 1, k - 1)
           back  == SubSeq(s, k + 1, Len(s))
<1>2. /\ front \in Seq(S) /\ Len(front) = k - 1
      /\ \A i \in 1 .. k - 1 : front[i] = s[i]
  BY <1>1
<1>3. /\ back \in Seq(S) /\ Len(back) = Len(s) - k
      /\ \A i \in 1 .. Len(s) - k : back[i] = s[k + i]
  BY <1>1
<1>4. RemoveAt(s, k) = front \o back
  BY DEF RemoveAt
<1> HIDE DEF front, back
<1>5. /\ front \o back \in Seq(S)
      /\ Len(front \o back) = Len(front) + Len(back)
      /\ \A i \in 1 .. Len(front) + Len(back) :
           (front \o back)[i] = IF i <= Len(front) THEN front[i] ELSE back[i - Len(front)]
  BY <1>2, <1>3, ConcatProperties
<1>6. DOMAIN RemoveAt(s, k) = 1 .. Len(s) - 1
  BY <1>1, <1>2, <1>3, <1>4, <1>5
<1>7. ASSUME NEW i \in 1 .. Len(s) - 1
      PROVE  RemoveAt(s, k)[i] = IF i < k THEN s[i] ELSE s[i + 1]
  <2>1. CASE i < k
    <3>1. i \in 1 .. Len(front) + Len(back) /\ i <= Len(front) /\ i \in 1 .. k - 1
      BY <2>1, <1>1, <1>2, <1>3, <1>7
    <3>2. (front \o back)[i] = front[i]
      BY <3>1, <1>5
    <3>3. RemoveAt(s, k)[i] = s[i]
      BY <3>1, <3>2, <1>2, <1>4
    <3> QED BY <3>3, <2>1
  <2>2. CASE i >= k
    <3>1. i - (k - 1) \in 1 .. Len(s) - k /\ k + (i - (k - 1)) = i + 1
      BY <2>2, <1>1, <1>7
    <3>a. i \in 1 .. Len(front) + Len(back) /\ ~(i <= Len(front))
      BY <2>2, <1>1, <1>2, <1>3, <1>7
    <3>b. (front \o back)[i] = back[i - Len(front)]
      BY <3>a, <1>5
    <3>2. RemoveAt(s, k)[i] = back[i - (k - 1)]
      BY <3>b, <1>2, <1>4
    <3>3. back[i - (k - 1)] = s[k + (i - (k - 1))]
      BY <3>1, <1>3
    <3>4. RemoveAt(s, k)[i] = s[i + 1]
      BY <3>1, <3>2, <3>3
    <3> QED BY <3>4, <2>2, <1>1, <1>7
  <2> QED BY <2>1, <2>2, <1>1, <1>7
<1> QED BY <1>1, <1>4, <1>5, <1>6, <1>7

-----------------------------------------------------------------------------
(* The scheduler's queue.                                                  *)

LEMMA WorkType ==
  /\ \A d \in Dos, r \in Reports \cup {NoReport}, s \in Saids :
       (d \in OfReports => r \in Reports)
         => Work(d, r, s) \in Tasks /\ Work(d, r, s).do = d /\ Work(d, r, s).report = r
  /\ \A d \in Dos \ OfReports : Plain(d) \in Tasks /\ Plain(d).do = d
  BY DEF Work, Plain, Tasks, Saids

LEMMA OutdatedAt ==
  ASSUME NEW ts \in Seq(Tasks)
  PROVE  /\ Outdated(ts) \in Seq(Tasks)
         /\ DOMAIN Outdated(ts) = DOMAIN ts
         /\ \A i \in DOMAIN ts :
              IF ts[i].do \in Callbacks THEN Outdated(ts)[i].do = "nothing"
                                        ELSE Outdated(ts)[i] = ts[i]
<1> DEFINE Entry0(i) == IF ts[i].do \in Callbacks THEN Plain("nothing") ELSE ts[i]
<1>1. Plain("nothing") \in Tasks /\ Plain("nothing").do = "nothing"
  BY WorkType DEF Dos, OfReports
<1>2. DOMAIN ts = 1 .. Len(ts) /\ Len(ts) \in Nat /\ \A i \in 1 .. Len(ts) : ts[i] \in Tasks
  OBVIOUS
<1>3. \A i \in 1 .. Len(ts) : Entry0(i) \in Tasks
  BY <1>1, <1>2
<1>4. Outdated(ts) = [i \in 1 .. Len(ts) |-> Entry0(i)]
  BY <1>2 DEF Outdated
<1> HIDE DEF Entry0
<1>5. Outdated(ts) \in Seq(Tasks) /\ DOMAIN Outdated(ts) = DOMAIN ts
  BY <1>2, <1>3, <1>4
<1>6. \A i \in DOMAIN ts : Outdated(ts)[i] = Entry0(i)
  BY <1>2, <1>4
<1> USE DEF Entry0
<1> QED BY <1>1, <1>5, <1>6

(* What a task, a new task and a dial leave of TasksDrive.                 *)
LEMMA DriveTail ==
  ASSUME NEW f, NEW c, NEW d, NEW ts \in Seq(Tasks), ts # <<>>,
         TasksDrive(ts, f, c), d.configured = c.configured, c.stopped => d.stopped,
         Head(ts).do = "stop" => d.stopped
  PROVE  TasksDrive(Tail(ts), f, d)
<1> DEFINE us == Tail(ts)
<1>a. /\ \A i \in DOMAIN us : i \in Nat /\ i + 1 \in DOMAIN ts /\ us[i] = ts[i + 1]
      /\ \A i \in DOMAIN ts : i \in Nat /\ (i # 1 => i - 1 \in DOMAIN us /\ us[i - 1] = ts[i])
      /\ Head(ts) = ts[1]
  BY TailAt
<1> HIDE DEF us
<1>1. CallbacksMean(us, d)
  BY <1>a DEF TasksDrive, CallbacksMean
<1>2. ASSUME ~f.relay, NEW i \in DOMAIN us, us[i].do = "configure"
      PROVE  \E j \in DOMAIN us : j > i /\ us[j].do = "stop"
  <2>1. PICK k \in DOMAIN ts : k > i + 1 /\ ts[k].do = "stop"
    BY <1>2, <1>a DEF TasksDrive, OffStops
  <2>2. k - 1 \in DOMAIN us /\ us[k - 1].do = "stop" /\ k - 1 > i
    BY <2>1, <1>a, <1>2
  <2> QED BY <2>2
<1>3. ASSUME ~f.relay, \A i \in DOMAIN us : us[i].do # "stop"
      PROVE  ~d.configured \/ d.stopped
  <2>1. CASE Head(ts).do = "stop"
    BY <2>1
  <2>2. CASE Head(ts).do # "stop"
    <3>1. \A i \in DOMAIN ts : ts[i].do # "stop"
      BY <1>3, <1>a, <2>2
    <3> QED BY <3>1, <1>3 DEF TasksDrive, OffStops
  <2> QED BY <2>1, <2>2
<1>4. UnmadeRests(us, f, d)
  BY <1>a DEF TasksDrive, UnmadeRests
<1> QED BY <1>1, <1>2, <1>3, <1>4 DEF TasksDrive, OffStops, us

LEMMA DriveClient ==
  ASSUME NEW f, NEW c, NEW ts, TasksDrive(ts, f, c),
         NEW d, d.configured = c.configured, c.stopped => d.stopped
  PROVE  TasksDrive(ts, f, d)
  BY DEF TasksDrive, CallbacksMean, OffStops, UnmadeRests

LEMMA DriveAppend ==
  ASSUME NEW f, NEW c, NEW ts \in Seq(Tasks), NEW t \in Tasks,
         TasksDrive(ts, f, c), t.do \in Callbacks => c.configured, t.do # "configure"
  PROVE  TasksDrive(Append(ts, t), f, c)
<1> DEFINE us == Append(ts, t)
<1>a. /\ DOMAIN us = DOMAIN ts \cup {Len(ts) + 1} /\ DOMAIN ts = 1 .. Len(ts) /\ Len(ts) \in Nat
      /\ \A i \in DOMAIN us : us[i] = IF i = Len(ts) + 1 THEN t ELSE ts[i]
  BY AppendAt
<1> HIDE DEF us
<1>1. CallbacksMean(us, c)
  BY <1>a DEF TasksDrive, CallbacksMean
<1>2. ASSUME ~f.relay, NEW i \in DOMAIN us, us[i].do = "configure"
      PROVE  \E j \in DOMAIN us : j > i /\ us[j].do = "stop"
  <2>1. i \in DOMAIN ts /\ ts[i].do = "configure"
    BY <1>2, <1>a
  <2>2. PICK j \in DOMAIN ts : j > i /\ ts[j].do = "stop"
    BY <2>1, <1>2 DEF TasksDrive, OffStops
  <2> QED BY <2>2, <1>a
<1>3. ASSUME ~f.relay, \A i \in DOMAIN us : us[i].do # "stop"
      PROVE  ~c.configured \/ c.stopped
  <2>1. \A i \in DOMAIN ts : ts[i].do # "stop"
    BY <1>3, <1>a
  <2> QED BY <2>1, <1>3 DEF TasksDrive, OffStops
<1>4. UnmadeRests(us, f, c)
  BY <1>a DEF TasksDrive, UnmadeRests
<1> QED BY <1>1, <1>2, <1>3, <1>4 DEF TasksDrive, OffStops, us

LEMMA DriveOutdated ==
  ASSUME NEW f, NEW c, NEW ts \in Seq(Tasks), TasksDrive(ts, f, c)
  PROVE  TasksDrive(Outdated(ts), f, c)
<1> DEFINE us == Outdated(ts)
<1>a. DOMAIN us = DOMAIN ts /\ \A i \in DOMAIN ts :
         IF ts[i].do \in Callbacks THEN us[i].do = "nothing" ELSE us[i] = ts[i]
  BY OutdatedAt
<1> HIDE DEF us
<1>b. \A i \in DOMAIN ts :
         /\ us[i].do \notin Callbacks
         /\ us[i].do = "stop" <=> ts[i].do = "stop"
         /\ us[i].do = "configure" <=> ts[i].do = "configure"
  BY <1>a DEF Callbacks
<1> QED BY <1>a, <1>b DEF TasksDrive, CallbacksMean, OffStops, UnmadeRests, us

(* What they leave of TasksAnswer.                                         *)
LEMMA AnswerTail ==
  ASSUME NEW st, NEW w, NEW sent, NEW ts \in Seq(Tasks), ts # <<>>,
         TasksAnswer(ts, st, w, sent)
  PROVE  TasksAnswer(Tail(ts), st, w, sent)
<1> DEFINE us == Tail(ts)
<1>a. \A i \in DOMAIN us : i \in Nat /\ i + 1 \in DOMAIN ts /\ us[i] = ts[i + 1]
  BY TailAt
<1> HIDE DEF us
<1>1. SUFFICES ASSUME NEW i \in DOMAIN us, us[i].do = "ack"
               PROVE  /\ \A j \in DOMAIN us :
                           us[j].do = "ack" /\ us[j].report = us[i].report => j = i
                      /\ us[i].report \notin w
                      /\ st # "none" => us[i].report \in sent
  BY DEF TasksAnswer, us
<1>2. i + 1 \in DOMAIN ts /\ ts[i + 1].do = "ack" /\ ts[i + 1].report = us[i].report
  BY <1>1, <1>a
<1>3. ASSUME NEW j \in DOMAIN us, us[j].do = "ack", us[j].report = us[i].report
      PROVE  j = i
  <2>1. j + 1 \in DOMAIN ts /\ ts[j + 1].do = "ack" /\ ts[j + 1].report = us[j].report
    BY <1>3, <1>a
  <2>2. j + 1 = i + 1
    BY <2>1, <1>2, <1>3 DEF TasksAnswer
  <2> QED BY <2>2, <1>a, <1>1, <1>3
<1> QED BY <1>2, <1>3 DEF TasksAnswer

(* The Ack at the head is the only one for its report.                     *)
LEMMA AnswerHead ==
  ASSUME NEW st, NEW w, NEW sent, NEW ts \in Seq(Tasks), ts # <<>>,
         TasksAnswer(ts, st, w, sent), Head(ts).do = "ack"
  PROVE  /\ Head(ts).report \notin w
         /\ \A i \in DOMAIN Tail(ts) :
              Tail(ts)[i].do = "ack" => Tail(ts)[i].report # Head(ts).report
<1>a. /\ \A i \in DOMAIN Tail(ts) : i \in Nat /\ i >= 1 /\ i + 1 \in DOMAIN ts
                                  /\ Tail(ts)[i] = ts[i + 1]
      /\ Head(ts) = ts[1] /\ 1 \in DOMAIN ts
  BY TailAt
<1> QED BY <1>a DEF TasksAnswer

LEMMA AnswerAppend ==
  ASSUME NEW st, NEW w, NEW sent, NEW ts \in Seq(Tasks), NEW t \in Tasks,
         TasksAnswer(ts, st, w, sent), t.do # "ack"
  PROVE  TasksAnswer(Append(ts, t), st, w, sent)
<1> DEFINE us == Append(ts, t)
<1>a. /\ DOMAIN us = DOMAIN ts \cup {Len(ts) + 1} /\ DOMAIN ts = 1 .. Len(ts) /\ Len(ts) \in Nat
      /\ \A i \in DOMAIN us : us[i] = IF i = Len(ts) + 1 THEN t ELSE ts[i]
  BY AppendAt
<1> HIDE DEF us
<1>b. \A i \in DOMAIN us : us[i].do = "ack" => i \in DOMAIN ts /\ us[i] = ts[i]
  BY <1>a
<1> QED BY <1>b DEF TasksAnswer, us

(* A report that is answered leaves the wire.                              *)
LEMMA AnswerAck ==
  ASSUME NEW st, NEW w, NEW sent, NEW ts \in Seq(Tasks), NEW t \in Tasks,
         TasksAnswer(ts, st, w, sent), t.report \in w, w \subseteq sent
  PROVE  TasksAnswer(Append(ts, t), st, w \ {t.report}, sent)
<1> DEFINE us == Append(ts, t)
<1>a. /\ DOMAIN us = DOMAIN ts \cup {Len(ts) + 1} /\ DOMAIN ts = 1 .. Len(ts) /\ Len(ts) \in Nat
      /\ \A i \in DOMAIN us : us[i] = IF i = Len(ts) + 1 THEN t ELSE ts[i]
  BY AppendAt
<1> HIDE DEF us
<1>1. \A i \in DOMAIN ts : ts[i].do = "ack" => ts[i].report # t.report
  BY DEF TasksAnswer
<1>2. SUFFICES ASSUME NEW i \in DOMAIN us, us[i].do = "ack"
               PROVE  /\ \A j \in DOMAIN us :
                           us[j].do = "ack" /\ us[j].report = us[i].report => j = i
                      /\ us[i].report \notin w \ {t.report}
                      /\ st # "none" => us[i].report \in sent
  BY DEF TasksAnswer, us
<1>3. CASE i = Len(ts) + 1
  BY <1>1, <1>2, <1>3, <1>a
<1>4. CASE i \in DOMAIN ts
  <2>1. us[i] = ts[i] /\ ts[i].do = "ack"
    BY <1>a, <1>2, <1>4
  <2>2. \A j \in DOMAIN us : us[j].do = "ack" /\ us[j].report = us[i].report => j = i
    BY <2>1, <1>1, <1>a, <1>4 DEF TasksAnswer
  <2> QED BY <2>1, <2>2, <1>4 DEF TasksAnswer
<1> QED BY <1>3, <1>4, <1>a

LEMMA AnswerOutdated ==
  ASSUME NEW st, NEW w, NEW sent, NEW ts \in Seq(Tasks)
  PROVE  TasksAnswer(Outdated(ts), st, w, sent)
<1>1. \A i \in DOMAIN Outdated(ts) : Outdated(ts)[i].do # "ack"
  BY OutdatedAt DEF Callbacks
<1> QED BY <1>1 DEF TasksAnswer

(* A socket that is closed, a flush, and marks that go without an Ack.     *)
LEMMA AnswerClosed ==
  ASSUME NEW st, NEW w, NEW sent, NEW fewer, NEW ts, TasksAnswer(ts, st, w, sent)
  PROVE  TasksAnswer(ts, "none", {}, fewer)
  BY DEF TasksAnswer

LEMMA AnswerFlushed ==
  ASSUME NEW st, NEW st2, NEW w, NEW sent, NEW out, NEW w2, NEW ts,
         TasksAnswer(ts, st, w, sent), st = "none" => out = {} /\ st2 = "none",
         out \cap sent = {}, w2 \subseteq w \cup out
  PROVE  TasksAnswer(ts, st2, w2, sent \cup out)
  BY DEF TasksAnswer

LEMMA AnswerUnmarked ==
  ASSUME NEW st, NEW w, NEW sent, NEW r, NEW ts, TasksAnswer(ts, st, w, sent),
         \A i \in DOMAIN ts : ts[i].do = "ack" => ts[i].report # r
  PROVE  TasksAnswer(ts, st, w, sent \ {r})
  BY DEF TasksAnswer

-----------------------------------------------------------------------------
(* The client.                                                             *)

LEMMA ClearedIs ==
  ASSUME NEW c \in Clients
  PROVE  /\ Cleared(c) \in Clients
         /\ Cleared(c).configured = c.configured
         /\ Cleared(c).stopped = c.stopped
         /\ Cleared(c).suspended = c.suspended
         /\ ~Cleared(c).reconnect
  BY DEF Cleared, Clients

LEMMA OpenSocketIs ==
  ASSUME NEW c \in Clients, NEW rest, OpenSocket(c, rest)
  PROVE  /\ ios' \in Clients
         /\ ios'.configured = c.configured
         /\ ios'.stopped = c.stopped
         /\ ios'.suspended = c.suspended
         /\ IF Running(c)
            THEN /\ stage' = "dialled" /\ ~ios'.reconnect /\ wire' = {}
                 /\ tasks' = Append(Outdated(rest), Plain("open"))
            ELSE ios' = c /\ tasks' = rest /\ stage' = stage /\ wire' = wire
<1>1. CASE Running(c)
  <2> DEFINE d == [c EXCEPT !.status = "connecting", !.reconnect = FALSE]
  <2>1. /\ d \in Clients /\ d.configured = c.configured /\ d.stopped = c.stopped
        /\ d.suspended = c.suspended /\ ~d.reconnect
    BY DEF Clients, Statuses
  <2>2. ios' = d
    BY <1>1 DEF OpenSocket
  <2> HIDE DEF d
  <2> QED BY <1>1, <2>1, <2>2 DEF OpenSocket
<1>2. CASE ~Running(c)
  BY <1>2 DEF OpenSocket
<1> QED BY <1>1, <1>2

-----------------------------------------------------------------------------
(* The outbox.                                                             *)

LEMMA EntryType == \A r \in Reports : Entry(r) \in Entries /\ Entry(r).report = r
  BY DEF Entry, Entries

(* queue() *)
LEMMA AfterQueueOK ==
  ASSUME IosTypeOK, OutboxOK(heard, sentKeys, pending), NEW r \in Reports
  PROVE  /\ AfterQueue(r) \in Seq(Entries)
         /\ OutboxOK(heard, sentKeys, AfterQueue(r))
<1>1. CASE r \in ToSet(sentKeys) \cup Queued(pending)
  BY <1>1 DEF AfterQueue, IosTypeOK
<1>2. CASE r \notin ToSet(sentKeys) \cup Queued(pending)
  <2> DEFINE longer == Append(pending, Entry(r))
  <2>a. pending \in Seq(Entries) /\ Entry(r) \in Entries /\ Entry(r).report = r
    BY EntryType DEF IosTypeOK
  <2>1. /\ longer \in Seq(Entries) /\ longer # <<>>
        /\ DOMAIN longer = DOMAIN pending \cup {Len(pending) + 1}
        /\ DOMAIN pending = 1 .. Len(pending) /\ Len(pending) \in Nat
        /\ \A i \in DOMAIN longer :
             longer[i] = IF i = Len(pending) + 1 THEN Entry(r) ELSE pending[i]
    BY <2>a, AppendAt
  <2> HIDE DEF longer
  <2>2. \A i \in DOMAIN pending : pending[i].report # r
    BY <1>2 DEF Queued
  <2>3. Distinct(longer)
    BY <2>a, <2>1, <2>2 DEF OutboxOK, Distinct
  <2>4. \A i \in DOMAIN longer : longer[i].report \notin heard
    BY <2>a, <2>1, <1>2 DEF OutboxOK, Queued
  <2>5. heard \cap Queued(longer) = {}
    BY <2>4 DEF Queued
  <2>b. /\ Tail(longer) \in Seq(Entries)
        /\ \A i \in DOMAIN Tail(longer) :
             i \in Nat /\ i + 1 \in DOMAIN longer /\ Tail(longer)[i] = longer[i + 1]
    BY <2>1, TailAt
  <2>6. Distinct(Tail(longer))
    BY <2>3, <2>b DEF Distinct
  <2>7. heard \cap Queued(Tail(longer)) = {}
    BY <2>4, <2>b DEF Queued
  <2>8. AfterQueue(r) = longer \/ AfterQueue(r) = Tail(longer)
    BY <1>2 DEF AfterQueue, longer
  <2> QED BY <2>1, <2>3, <2>5, <2>b, <2>6, <2>7, <2>8 DEF OutboxOK
<1> QED BY <1>1, <1>2

LEMMA IndexIs ==
  ASSUME NEW r, r \in Queued(pending)
  PROVE  Index(r) \in DOMAIN pending /\ pending[Index(r)].report = r
  BY DEF Queued, Index

(* A report that leaves the outbox, and one that changes in its place.     *)
LEMMA WithoutOK ==
  ASSUME pending \in Seq(Entries), Distinct(pending), NEW r, r \in Queued(pending)
  PROVE  /\ Without(r) \in Seq(Entries)
         /\ Distinct(Without(r))
         /\ Queued(Without(r)) \subseteq Queued(pending) \ {r}
<1> DEFINE k == Index(r)
           p == Without(r)
<1>1. k \in DOMAIN pending /\ pending[k].report = r
  BY IndexIs
<1>2. p = RemoveAt(pending, k)
  BY DEF Without
<1> HIDE DEF k, p
<1>3. /\ p \in Seq(Entries) /\ Len(pending) \in Nat /\ k \in 1 .. Len(pending)
      /\ DOMAIN p = 1 .. Len(pending) - 1
      /\ \A i \in DOMAIN p : p[i] = IF i < k THEN pending[i] ELSE pending[i + 1]
  BY <1>1, <1>2, RemoveAtIs
<1>4. DOMAIN pending = 1 .. Len(pending)
  OBVIOUS
<1>5. Distinct(p)
  <2>1. SUFFICES ASSUME NEW i \in DOMAIN p, NEW j \in DOMAIN p, p[i].report = p[j].report
                 PROVE  i = j
    BY DEF Distinct
  <2> DEFINE at(n) == IF n < k THEN n ELSE n + 1
  <2>2. /\ at(i) \in DOMAIN pending /\ p[i] = pending[at(i)]
        /\ at(j) \in DOMAIN pending /\ p[j] = pending[at(j)]
    BY <1>3, <1>4
  <2>3. at(i) = at(j)
    BY <2>1, <2>2 DEF Distinct
  <2> QED BY <2>3, <1>3
<1>6. ASSUME NEW i \in DOMAIN p
      PROVE  p[i].report \in Queued(pending) /\ p[i].report # r
  <2> DEFINE at == IF i < k THEN i ELSE i + 1
  <2>1. at \in DOMAIN pending /\ p[i] = pending[at] /\ at # k
    BY <1>3, <1>4, <1>6
  <2> QED BY <2>1, <1>1 DEF Distinct, Queued
<1>7. Queued(p) \subseteq Queued(pending) \ {r}
  BY <1>6 DEF Queued
<1> QED BY <1>3, <1>5, <1>7 DEF p

LEMMA WithOK ==
  ASSUME pending \in Seq(Entries), Distinct(pending),
         NEW e \in Entries, e.report \in Queued(pending)
  PROVE  /\ With(e) \in Seq(Entries)
         /\ Distinct(With(e))
         /\ Queued(With(e)) = Queued(pending)
<1> DEFINE k == Index(e.report)
           p == With(e)
<1>1. k \in DOMAIN pending /\ pending[k].report = e.report
  BY IndexIs
<1>2. p = [pending EXCEPT ![k] = e]
  BY DEF With
<1> HIDE DEF k, p
<1>3. /\ p \in Seq(Entries) /\ DOMAIN p = DOMAIN pending
      /\ \A i \in DOMAIN pending : p[i] = IF i = k THEN e ELSE pending[i]
  BY <1>1, <1>2
<1>4. \A i \in DOMAIN pending : p[i].report = pending[i].report
  BY <1>1, <1>3
<1>5. Distinct(p) /\ Queued(p) = Queued(pending)
  BY <1>3, <1>4 DEF Distinct, Queued
<1> QED BY <1>3, <1>5 DEF p

(* The sent-set.                                                           *)
LEMMA SentWithIs ==
  ASSUME sentKeys \in Seq(Reports), NEW r \in Reports
  PROVE  /\ SentWith(r) \in Seq(Reports)
         /\ r \in ToSet(SentWith(r))
         /\ \A x \in ToSet(sentKeys) \ Evicted(r) : x \in ToSet(SentWith(r))
<1>1. CASE r \in ToSet(sentKeys)
  BY <1>1 DEF SentWith, Evicted
<1>2. CASE r \notin ToSet(sentKeys)
  <2> DEFINE longer == Append(sentKeys, r)
             n == Len(sentKeys) + 1
  <2>1. /\ longer \in Seq(Reports) /\ longer # <<>> /\ Len(longer) = n
        /\ n \in DOMAIN longer /\ longer[n] = r /\ n \in Nat
    OBVIOUS
  <2>2. CASE Len(longer) > SentLimit
    <3>1. SentWith(r) = Tail(longer)
      BY <1>2, <2>2 DEF SentWith
    <3>2. n # 1
      BY <2>1, <2>2, IosAssumption
    <3>3. n - 1 \in DOMAIN Tail(longer) /\ Tail(longer)[n - 1] = r /\ Tail(longer) \in Seq(Reports)
      BY <2>1, <3>2
    <3> QED BY <3>1, <3>3 DEF ToSet, Evicted
  <2>3. CASE ~(Len(longer) > SentLimit)
    <3>1. SentWith(r) = longer
      BY <1>2, <2>3 DEF SentWith
    <3> QED BY <3>1, <2>1 DEF ToSet, Evicted
  <2> QED BY <2>2, <2>3
<1> QED BY <1>1, <1>2

(* flushReports() *)
LEMMA FlushOK ==
  ASSUME IosTypeOK, WireOK(stage, wire, inFlight),
         NEW status, NEW p \in Seq(Entries), NEW mode, Flush(status, p, mode)
  PROVE  /\ inFlight' \subseteq Reports
         /\ wire' \subseteq Reports
         /\ WireOK(stage, wire', inFlight')
         /\ \A ts : TasksAnswer(ts, stage, wire, inFlight)
                      => TasksAnswer(ts, stage, wire', inFlight')
<1> DEFINE out == IF status = "connected" /\ IsOpen THEN ToSend(p, mode) ELSE {}
<1>1. /\ inFlight' = inFlight \cup out
      /\ wire' = IF stage = "session" THEN wire \cup out ELSE wire
  BY DEF Flush
<1>2. \A i \in DOMAIN p : p[i] \in Entries
  OBVIOUS
<1>3. ASSUME NEW r \in ToSend(p, mode)
      PROVE  r \in Reports /\ r \notin inFlight
  <2>1. PICK e \in ToSet(p) : e.report = r /\ e.report \notin inFlight
    BY <1>3 DEF ToSend
  <2>2. e \in Entries
    BY <1>2, <2>1 DEF ToSet
  <2> QED BY <2>1, <2>2 DEF Entries
<1>4. stage = "none" => out = {}
  BY DEF IsOpen
<1>5. out \subseteq Reports /\ out \cap inFlight = {}
  BY <1>3
<1> HIDE DEF out
<1>6. /\ inFlight' \subseteq Reports /\ wire' \subseteq Reports
      /\ WireOK(stage, wire', inFlight')
  BY <1>1, <1>5 DEF WireOK, IosTypeOK
<1>7. ASSUME NEW ts, TasksAnswer(ts, stage, wire, inFlight)
      PROVE  TasksAnswer(ts, stage, wire', inFlight')
  <2>1. wire' \subseteq wire \cup out
    BY <1>1
  <2>2. TasksAnswer(ts, stage, wire', inFlight \cup out)
    BY <1>4, <1>5, <1>7, <2>1, AnswerFlushed
  <2> QED BY <2>2, <1>1
<1> QED BY <1>6, <1>7

-----------------------------------------------------------------------------
(* The host.                                                               *)

LEMMA DriveFacade ==
  ASSUME NEW f, NEW g, NEW c, NEW ts, TasksDrive(ts, f, c),
         f.relay => g.relay, f.made => g.made
  PROVE  TasksDrive(ts, g, c)
  BY DEF TasksDrive, CallbacksMean, OffStops, UnmadeRests

LEMMA StartStep == IInv /\ (Start \/ UpdateToken) => IInv'
<1> SUFFICES ASSUME IInv, Start \/ UpdateToken PROVE IInv'
  OBVIOUS
<1>1. /\ facade' \in Facades /\ facade'.relay = facade.relay /\ facade'.relay /\ facade'.made
  BY DEF Start, UpdateToken, IInv, IosTypeOK, Facades
<1>2. /\ tasks' = Append(tasks, Plain("configure"))
      /\ Plain("configure") \in Tasks /\ Plain("configure").do = "configure"
  BY WorkType DEF Start, UpdateToken, Perform, Dos, OfReports
<1>3. UNCHANGED <<ios, stage, pending, inFlight, sentKeys, wire, heard>>
  BY DEF Start, UpdateToken, reportVars
<1>4. tasks' \in Seq(Tasks)
  BY <1>2, AppendAt DEF IInv, IosTypeOK
<1>5. TasksDrive(tasks', facade', ios)
  <2>1. \A i \in DOMAIN tasks' :
          tasks'[i].do \in Callbacks => i \in DOMAIN tasks /\ tasks'[i] = tasks[i]
    <3>1. \A i \in DOMAIN tasks' :
            tasks'[i] = (IF i = Len(tasks) + 1 THEN Plain("configure") ELSE tasks[i])
      BY <1>2, AppendAt DEF IInv, IosTypeOK
    <3>2. DOMAIN tasks' = DOMAIN tasks \cup {Len(tasks) + 1}
      BY <1>2, AppendAt DEF IInv, IosTypeOK
    <3> QED BY <1>2, <3>1, <3>2 DEF Callbacks
  <2> QED BY <1>1, <2>1 DEF IInv, TasksDrive, CallbacksMean, OffStops, UnmadeRests
<1>6. TasksAnswer(tasks', stage, wire, inFlight)
  BY <1>2, AnswerAppend DEF IInv, IosTypeOK
<1> QED BY <1>1, <1>3, <1>4, <1>5, <1>6 DEF IInv, IosTypeOK

(* stop(), and the switch: the stop is behind every start.                 *)
LEMMA StopToStep == ASSUME IInv, NEW relay \in BOOLEAN, StopTo(relay) PROVE IInv'
<1>1. /\ facade' \in Facades /\ facade'.relay = relay /\ facade'.made = facade.made
  BY DEF StopTo, IInv, IosTypeOK, Facades
<1>2. UNCHANGED <<ios, stage, pending, inFlight, sentKeys, wire, heard>>
  BY DEF StopTo, reportVars
<1>3. CASE facade.made
  <2> DEFINE t == Plain("stop")
  <2>1. tasks' = Append(tasks, t) /\ t \in Tasks /\ t.do = "stop"
    BY <1>3, WorkType DEF StopTo, Perform, Dos, OfReports
  <2> HIDE DEF t
  <2>2. /\ tasks' \in Seq(Tasks)
        /\ DOMAIN tasks' = DOMAIN tasks \cup {Len(tasks) + 1}
        /\ DOMAIN tasks = 1 .. Len(tasks) /\ Len(tasks) \in Nat
        /\ tasks'[Len(tasks) + 1] = t
        /\ \A i \in DOMAIN tasks : tasks'[i] = tasks[i]
    BY <2>1, AppendAt DEF IInv, IosTypeOK
  <2>3. CallbacksMean(tasks', ios)
    BY <2>1, <2>2 DEF IInv, TasksDrive, CallbacksMean, Callbacks
  <2>4. OffStops(tasks', facade', ios)
    <3>1. ASSUME NEW i \in DOMAIN tasks', tasks'[i].do = "configure"
          PROVE  \E j \in DOMAIN tasks' : j > i /\ tasks'[j].do = "stop"
      <4>1. Len(tasks) + 1 > i
        BY <2>1, <2>2, <3>1
      <4> QED BY <4>1, <2>1, <2>2
    <3>2. \E i \in DOMAIN tasks' : tasks'[i].do = "stop"
      BY <2>1, <2>2
    <3> QED BY <3>1, <3>2 DEF OffStops
  <2>5. TasksDrive(tasks', facade', ios)
    BY <2>3, <2>4, <1>1, <1>3 DEF TasksDrive, UnmadeRests
  <2>6. TasksAnswer(tasks', stage, wire, inFlight)
    BY <2>1, AnswerAppend DEF IInv, IosTypeOK
  <2> QED BY <1>1, <1>2, <2>2, <2>5, <2>6 DEF IInv, IosTypeOK
<1>4. CASE ~facade.made
  <2>1. tasks' = tasks
    BY <1>4 DEF StopTo
  <2>2. TasksDrive(tasks, facade', ios)
    BY <1>1, <1>4 DEF IInv, TasksDrive, OffStops, UnmadeRests
  <2> QED BY <1>1, <1>2, <2>1, <2>2 DEF IInv, IosTypeOK
<1> QED BY <1>3, <1>4

LEMMA SwitchOnStep == IInv /\ SwitchOn => IInv'
<1> SUFFICES ASSUME IInv, SwitchOn PROVE IInv'
  OBVIOUS
<1>1. /\ facade' \in Facades /\ facade'.relay /\ facade'.made = facade.made
  BY DEF SwitchOn, IInv, IosTypeOK, Facades
<1>2. UNCHANGED <<ios, stage, tasks, pending, inFlight, sentKeys, wire, heard>>
  BY DEF SwitchOn, reportVars
<1>3. TasksDrive(tasks, facade', ios)
  BY <1>1, DriveFacade DEF IInv
<1> QED BY <1>1, <1>2, <1>3 DEF IInv, IosTypeOK

(* A call that only leaves a task: a report, a move of the app.            *)
LEMMA LeavesTask ==
  ASSUME IInv, facade' \in Facades, facade.relay => facade'.relay, facade.made => facade'.made,
         UNCHANGED <<ios, stage, pending, inFlight, sentKeys, wire, heard>>,
         NEW t \in Tasks, t.do \notin Callbacks \cup {"configure"},
         tasks' = Append(tasks, t) \/ tasks' = tasks
  PROVE  IInv'
<1>1. TasksDrive(tasks, facade', ios)
  BY DriveFacade DEF IInv
<1>2. t.do # "ack"
  BY DEF Callbacks
<1>3. TasksDrive(tasks', facade', ios)
  BY <1>1, DriveAppend DEF IInv, IosTypeOK
<1>4. TasksAnswer(tasks', stage, wire, inFlight)
  BY <1>2, AnswerAppend DEF IInv, IosTypeOK
<1>5. tasks' \in Seq(Tasks)
  <2>1. tasks \in Seq(Tasks)
    BY DEF IInv, IosTypeOK
  <2>2. Append(tasks, t) \in Seq(Tasks)
    BY <2>1, AppendAt
  <2> QED BY <2>1, <2>2
<1> QED BY <1>3, <1>4, <1>5 DEF IInv, IosTypeOK

LEMMA HostReportStep == ASSUME IInv, NEW r \in Hosted, HostReport(r) PROVE IInv'
<1>1. /\ facade' \in Facades /\ facade'.relay = facade.relay /\ facade'.made
  BY DEF HostReport, IInv, IosTypeOK, Facades
<1>2. Work("report", r, "none") \in Tasks /\ Work("report", r, "none").do = "report"
  BY WorkType DEF Dos, OfReports, Saids, Reports
<1>3. "report" \notin Callbacks \cup {"configure"}
  BY DEF Callbacks
<1> QED BY <1>1, <1>2, <1>3, LeavesTask DEF HostReport, Perform, reportVars

LEMMA MovesStep ==
  ASSUME IInv, NEW away \in BOOLEAN, NEW do \in {"suspend", "resume"}, Moves(away, do)
  PROVE  IInv'
<1>1. /\ facade' \in Facades /\ facade'.relay = facade.relay /\ facade'.made = facade.made
  BY DEF Moves, IInv, IosTypeOK, Facades
<1>2. Plain(do) \in Tasks /\ Plain(do).do = do
  BY WorkType DEF Dos, OfReports
<1>3. do \notin Callbacks \cup {"configure"}
  BY DEF Callbacks
<1>4. tasks' = Append(tasks, Plain(do)) \/ tasks' = tasks
  BY DEF Moves, Perform
<1>5. UNCHANGED <<ios, stage, pending, inFlight, sentKeys, wire, heard>>
  BY DEF Moves, reportVars
<1> QED BY <1>1, <1>2, <1>3, <1>4, <1>5, LeavesTask

LEMMA HostStep == IInv /\ Host => IInv'
<1> SUFFICES ASSUME IInv, Host PROVE IInv'
  OBVIOUS
<1>1. facade.relay \in BOOLEAN
  BY DEF IInv, IosTypeOK, Facades
<1>2. CASE Start \/ UpdateToken BY <1>2, StartStep
<1>3. CASE Stop BY <1>3, <1>1, StopToStep DEF Stop
<1>4. CASE SwitchOff BY <1>4, StopToStep DEF SwitchOff
<1>5. CASE SwitchOn BY <1>5, SwitchOnStep
<1>6. CASE Background BY <1>6, MovesStep DEF Background
<1>7. CASE Foreground BY <1>7, MovesStep DEF Foreground
<1>8. CASE \E r \in Hosted : HostReport(r) BY <1>8, HostReportStep
<1> QED BY <1>2, <1>3, <1>4, <1>5, <1>6, <1>7, <1>8 DEF Host

-----------------------------------------------------------------------------
(* The tasks that open or close the socket.                                *)

(* What a step that has to do with the client alone leaves as it was.      *)
LEMMA TakenTask ==
  ASSUME IInv, tasks # <<>>
  PROVE  /\ Rest \in Seq(Tasks) /\ TheTask \in Tasks /\ tasks \in Seq(Tasks)
         /\ TasksAnswer(Rest, stage, wire, inFlight)
         /\ \A d : d.configured = ios.configured /\ (ios.stopped => d.stopped)
                     /\ (TheTask.do = "stop" => d.stopped)
                   => TasksDrive(Rest, facade, d)
<1>1. tasks \in Seq(Tasks)
  BY DEF IInv, IosTypeOK
<1>2. Rest \in Seq(Tasks) /\ TheTask \in Tasks
  BY <1>1, TailAt DEF Rest, TheTask
<1>3. TasksAnswer(Rest, stage, wire, inFlight)
  BY <1>1, AnswerTail DEF IInv, Rest
<1>4. ASSUME NEW d, d.configured = ios.configured, ios.stopped => d.stopped,
             TheTask.do = "stop" => d.stopped
      PROVE  TasksDrive(Rest, facade, d)
  BY <1>1, <1>4, DriveTail DEF IInv, Rest, TheTask
<1> QED BY <1>1, <1>2, <1>3, <1>4

(* A socket that is closed.                                                *)
LEMMA ClosedStep ==
  ASSUME IInv, tasks # <<>>, CloseSocket(Rest), ios' \in Clients,
         ios'.configured = ios.configured, ios.stopped => ios'.stopped,
         TheTask.do = "stop" => ios'.stopped, Driven(ios', "none"),
         UNCHANGED <<facade, pending, sentKeys, heard>>, inFlight' \subseteq Reports
  PROVE  IInv'
<1>1. stage' = "none" /\ wire' = {} /\ tasks' = Rest
  BY DEF CloseSocket
<1>2. Rest \in Seq(Tasks) /\ TasksDrive(Rest, facade, ios')
  BY TakenTask
<1>3. TasksAnswer(Rest, "none", {}, inFlight')
  BY TakenTask, AnswerClosed
<1>4. WireOK(stage', wire', inFlight')
  BY <1>1 DEF WireOK
<1>5. "none" \in Stages
  BY DEF Stages
<1> QED BY <1>1, <1>2, <1>3, <1>4, <1>5 DEF IInv, IosTypeOK

(* A socket that is dialled: nothing that is queued speaks of an earlier   *)
(* one.                                                                    *)
LEMMA DialledStep ==
  ASSUME IInv, NEW c \in Clients, NEW rest \in Seq(Tasks), OpenSocket(c, rest),
         Running(c), TasksDrive(rest, facade, c),
         UNCHANGED <<facade, pending, inFlight, sentKeys, heard>>
  PROVE  IInv'
<1>1. /\ ios' \in Clients /\ ios'.configured = c.configured
      /\ ios'.stopped = c.stopped /\ ios'.suspended = c.suspended
      /\ stage' = "dialled" /\ ~ios'.reconnect /\ wire' = {}
      /\ tasks' = Append(Outdated(rest), Plain("open"))
  BY OpenSocketIs
<1>2. Plain("open") \in Tasks /\ Plain("open").do = "open"
  BY WorkType DEF Dos, OfReports, Callbacks
<1>3. Outdated(rest) \in Seq(Tasks)
  BY OutdatedAt
<1>4. c.configured
  BY DEF Running
<1>5. TasksDrive(tasks', facade', ios')
  <2>1. TasksDrive(Outdated(rest), facade, c)
    BY DriveOutdated
  <2>2. TasksDrive(Append(Outdated(rest), Plain("open")), facade, c)
    BY <1>2, <1>3, <1>4, <2>1, DriveAppend
  <2>3. TasksDrive(Append(Outdated(rest), Plain("open")), facade, ios')
    BY <2>2, <1>1, DriveClient
  <2> QED BY <2>3, <1>1
<1>6. TasksAnswer(tasks', stage', wire', inFlight')
  <2>1. TasksAnswer(Outdated(rest), "dialled", {}, inFlight)
    BY AnswerOutdated
  <2>2. TasksAnswer(Append(Outdated(rest), Plain("open")), "dialled", {}, inFlight)
    BY <2>1, <1>2, <1>3, AnswerAppend
  <2> QED BY <2>2, <1>1
<1>7. tasks' \in Seq(Tasks)
  BY <1>1, <1>2, <1>3, AppendAt
<1>8. Driven(ios', stage') /\ WireOK(stage', wire', inFlight')
  BY <1>1 DEF Driven, Running, WireOK
<1> QED BY <1>1, <1>5, <1>6, <1>7, <1>8 DEF IInv, IosTypeOK, Stages

(* With the relay off a start has a stop behind it.                        *)
LEMMA ConfigureStep == IInv /\ UpdateConfiguration => IInv'
<1> SUFFICES ASSUME IInv, UpdateConfiguration PROVE IInv'
  OBVIOUS
<1> DEFINE c == [Cleared(ios) EXCEPT !.configured = TRUE, !.stopped = FALSE, !.suspended = FALSE]
<1>1. c \in Clients /\ c.configured /\ ~c.stopped /\ ~c.suspended
  BY DEF Cleared, Clients, IInv, IosTypeOK
<1>2. /\ tasks # <<>> /\ Head(tasks).do = "configure" /\ OpenSocket(c, Rest)
      /\ UNCHANGED <<facade, pending, inFlight, sentKeys, heard>>
  BY DEF UpdateConfiguration, Taken
<1> HIDE DEF c
<1>3. tasks \in Seq(Tasks) /\ Rest \in Seq(Tasks)
  BY <1>2, TakenTask
<1>4. TasksDrive(Rest, facade, c)
  <2>a. /\ \A i \in DOMAIN Rest : i \in Nat /\ i + 1 \in DOMAIN tasks /\ Rest[i] = tasks[i + 1]
        /\ \A i \in DOMAIN tasks : i \in Nat /\ (i # 1 => i - 1 \in DOMAIN Rest /\ Rest[i - 1] = tasks[i])
        /\ Head(tasks) = tasks[1] /\ 1 \in DOMAIN tasks
    BY <1>2, <1>3, TailAt DEF Rest
  <2>1. CallbacksMean(Rest, c)
    BY <1>1 DEF CallbacksMean
  <2>2. UnmadeRests(Rest, facade, c)
    BY <1>2, <2>a DEF UnmadeRests, IInv, TasksDrive
  <2>3. ASSUME ~facade.relay, NEW i \in DOMAIN Rest, Rest[i].do = "configure"
        PROVE  \E j \in DOMAIN Rest : j > i /\ Rest[j].do = "stop"
    <3>1. PICK k \in DOMAIN tasks : k > i + 1 /\ tasks[k].do = "stop"
      BY <2>3, <2>a DEF IInv, TasksDrive, OffStops
    <3>2. k - 1 \in DOMAIN Rest /\ Rest[k - 1].do = "stop" /\ k - 1 > i
      BY <3>1, <2>a, <2>3
    <3> QED BY <3>2
  <2>4. ASSUME ~facade.relay
        PROVE  \E j \in DOMAIN Rest : Rest[j].do = "stop"
    <3>1. PICK k \in DOMAIN tasks : k > 1 /\ tasks[k].do = "stop"
      BY <1>2, <2>4, <2>a DEF IInv, TasksDrive, OffStops
    <3>2. k - 1 \in DOMAIN Rest /\ Rest[k - 1].do = "stop"
      BY <3>1, <2>a
    <3> QED BY <3>2
  <2> QED BY <2>1, <2>2, <2>3, <2>4 DEF TasksDrive, OffStops
<1>5. Running(c)
  BY <1>1 DEF Running
<1> QED BY <1>1, <1>2, <1>3, <1>4, <1>5, DialledStep

LEMMA StopStep == IInv /\ StopNow => IInv'
<1> SUFFICES ASSUME IInv, StopNow PROVE IInv'
  OBVIOUS
<1>1. /\ tasks # <<>> /\ CloseSocket(Rest)
      /\ UNCHANGED <<facade, pending, inFlight, sentKeys, heard>>
      /\ ios' = [Cleared(ios) EXCEPT !.stopped = TRUE, !.suspended = FALSE, !.status = "stopped"]
  BY DEF StopNow, Taken
<1>2. ios \in Clients /\ inFlight \subseteq Reports
  BY DEF IInv, IosTypeOK
<1>3. /\ ios' \in Clients /\ ios'.configured = ios.configured /\ ios'.stopped
      /\ ~ios'.reconnect
  BY <1>1, <1>2 DEF Cleared, Clients, Statuses
<1> QED BY <1>1, <1>2, <1>3, ClosedStep DEF Driven, Running

(* A task that does nothing.                                               *)
LEMMA IdleStep ==
  ASSUME IInv, tasks # <<>>, tasks' = Rest, TheTask.do # "stop",
         UNCHANGED <<facade, stage, pending, inFlight, sentKeys, wire, heard>>,
         ios' \in Clients, ios'.configured = ios.configured, ios.stopped => ios'.stopped,
         Driven(ios', stage)
  PROVE  IInv'
<1>1. Rest \in Seq(Tasks) /\ TasksAnswer(Rest, stage, wire, inFlight)
      /\ TasksDrive(Rest, facade, ios')
  BY TakenTask
<1> QED BY <1>1 DEF IInv, IosTypeOK

LEMMA SuspendStep == IInv /\ Suspend => IInv'
<1> SUFFICES ASSUME IInv, Suspend PROVE IInv'
  OBVIOUS
<1>1. /\ tasks # <<>> /\ TheTask.do = "suspend"
      /\ UNCHANGED <<facade, pending, sentKeys, heard>>
      /\ ios \in Clients /\ inFlight \subseteq Reports /\ Driven(ios, stage)
  BY DEF Suspend, Taken, TheTask, IInv, IosTypeOK
<1>2. CASE ios.stopped \/ ios.suspended
  BY <1>1, <1>2, IdleStep DEF Suspend
<1>3. CASE ~(ios.stopped \/ ios.suspended)
  <2>1. CloseSocket(Rest) /\ inFlight' = {}
        /\ ios' = [Cleared(ios) EXCEPT !.suspended = TRUE, !.status = "idle"]
    BY <1>3 DEF Suspend
  <2>2. /\ ios' \in Clients /\ ios'.configured = ios.configured /\ ios'.suspended
        /\ ios'.stopped = ios.stopped /\ ~ios'.reconnect
    BY <1>1, <2>1 DEF Cleared, Clients, Statuses
  <2> QED BY <1>1, <2>1, <2>2, ClosedStep DEF Driven, Running
<1> QED BY <1>2, <1>3

LEMMA ResumeStep == IInv /\ ResumeClient => IInv'
<1> SUFFICES ASSUME IInv, ResumeClient PROVE IInv'
  OBVIOUS
<1>1. /\ tasks # <<>> /\ TheTask.do = "resume"
      /\ UNCHANGED <<facade, pending, inFlight, sentKeys, heard>>
      /\ ios \in Clients /\ Driven(ios, stage)
  BY DEF ResumeClient, Taken, TheTask, IInv, IosTypeOK
<1>2. CASE ios.stopped \/ ~ios.suspended
  BY <1>1, <1>2, IdleStep DEF ResumeClient
<1>3. CASE ~(ios.stopped \/ ~ios.suspended)
  <2> DEFINE c == [ios EXCEPT !.suspended = FALSE]
  <2>1. /\ c \in Clients /\ c.configured = ios.configured /\ c.stopped = ios.stopped
        /\ ~c.suspended /\ c.reconnect = ios.reconnect
    BY <1>1 DEF Clients
  <2>2. OpenSocket(c, Rest)
    BY <1>3 DEF ResumeClient
  <2> HIDE DEF c
  <2>3. CASE Running(c)
    <3>1. Rest \in Seq(Tasks) /\ TasksDrive(Rest, facade, c)
      BY <1>1, <2>1, TakenTask
    <3> QED BY <1>1, <2>1, <2>2, <2>3, <3>1, DialledStep
  <2>4. CASE ~Running(c)
    <3>1. ios' = c /\ tasks' = Rest /\ UNCHANGED <<stage, wire>>
      BY <2>4, <2>2 DEF OpenSocket
    <3>2. Driven(c, stage)
      BY <1>1, <1>3, <2>1, <2>4 DEF Driven, Running
    <3> QED BY <1>1, <2>1, <3>1, <3>2, IdleStep
  <2> QED BY <2>3, <2>4
<1> QED BY <1>2, <1>3

LEMMA StaleStep == IInv /\ HandleStale => IInv'
<1> SUFFICES ASSUME IInv, HandleStale PROVE IInv'
  OBVIOUS
<1>1. /\ tasks # <<>> /\ TheTask.do = "close"
      /\ UNCHANGED <<facade, pending, inFlight, sentKeys, heard>>
      /\ ios \in Clients /\ inFlight \subseteq Reports
  BY DEF HandleStale, Closed, Taken, TheTask, IInv, IosTypeOK
<1> DEFINE c == Cleared(ios)
<1>2. /\ c \in Clients /\ c.configured = ios.configured /\ c.stopped = ios.stopped
      /\ c.suspended = ios.suspended /\ ~c.reconnect
  BY <1>1, ClearedIs
<1>3. IF Running(ios) THEN OpenSocket(c, Rest) ELSE CloseSocket(Rest) /\ ios' = c
  BY DEF HandleStale
<1> HIDE DEF c
<1>4. Running(c) <=> Running(ios)
  BY <1>2 DEF Running
<1>5. CASE Running(ios)
  <2>1. Rest \in Seq(Tasks) /\ TasksDrive(Rest, facade, c)
    BY <1>1, <1>2, TakenTask
  <2> QED BY <1>1, <1>2, <1>3, <1>4, <1>5, <2>1, DialledStep
<1>6. CASE ~Running(ios)
  BY <1>1, <1>2, <1>3, <1>4, <1>6, ClosedStep DEF Driven
<1> QED BY <1>5, <1>6

LEMMA TerminalStep == IInv /\ HandleTerminal => IInv'
<1> SUFFICES ASSUME IInv, HandleTerminal PROVE IInv'
  OBVIOUS
<1>1. /\ tasks # <<>> /\ TheTask.do = "close"
      /\ UNCHANGED <<facade, pending, sentKeys, heard>> /\ ios \in Clients
  BY DEF HandleTerminal, Closed, Taken, TheTask, IInv, IosTypeOK
<1>2. PICK status \in Statuses : StopTerminally(status)
  BY DEF HandleTerminal, Statuses
<1>3. /\ CloseSocket(Rest) /\ inFlight' = {}
      /\ ios' = [Cleared(ios) EXCEPT !.stopped = TRUE, !.status = status]
  BY <1>2 DEF StopTerminally
<1>4. /\ ios' \in Clients /\ ios'.configured = ios.configured /\ ios'.stopped
      /\ ~ios'.reconnect
  BY <1>1, <1>3 DEF Cleared, Clients
<1> QED BY <1>1, <1>3, <1>4, ClosedStep DEF Driven, Running

(* A callback speaks of a socket, so that there is a configuration, and a  *)
(* client that is not stopped nor suspended runs.                          *)
LEMMA DisconnectStep == IInv /\ HandleDisconnect => IInv'
<1> SUFFICES ASSUME IInv, HandleDisconnect PROVE IInv'
  OBVIOUS
<1>1. /\ tasks # <<>> /\ TheTask.do \in {"close", "gone"} /\ TheTask = Head(tasks)
      /\ UNCHANGED <<facade, pending, sentKeys, heard>>
      /\ ios \in Clients /\ tasks \in Seq(Tasks)
  BY DEF HandleDisconnect, Closed, Taken, TheTask, IInv, IosTypeOK
<1>2. ios.configured
  <2>1. 1 \in DOMAIN tasks /\ tasks[1].do \in Callbacks
    BY <1>1, TailAt DEF Callbacks
  <2> QED BY <2>1 DEF IInv, TasksDrive, CallbacksMean
<1>3. /\ CloseSocket(Rest) /\ inFlight' = {}
      /\ ios' = IF ios.stopped \/ ios.suspended THEN Cleared(ios)
                ELSE [Cleared(ios) EXCEPT !.status = "connecting", !.reconnect = TRUE]
  BY DEF HandleDisconnect, Disconnect
<1>4. /\ ios' \in Clients /\ ios'.configured = ios.configured
      /\ ios'.stopped = ios.stopped /\ ios'.suspended = ios.suspended
      /\ ios'.reconnect <=> ~(ios.stopped \/ ios.suspended)
  BY <1>1, <1>3 DEF Cleared, Clients, Statuses
<1> QED BY <1>1, <1>2, <1>3, <1>4, ClosedStep DEF Driven, Running

LEMMA IgnoredStep == IInv /\ Ignored => IInv'
<1> SUFFICES ASSUME IInv, Ignored PROVE IInv'
  OBVIOUS
<1>1. /\ tasks # <<>> /\ TheTask.do # "stop" /\ tasks' = Rest
      /\ UNCHANGED <<facade, ios, stage, pending, inFlight, sentKeys, wire, heard>>
  BY DEF Ignored, Taken, TheTask, reportVars
<1> QED BY <1>1, IdleStep DEF IInv, IosTypeOK

(* Only a client that runs has the timer set.                              *)
LEMMA ReconnectStep == IInv /\ ReconnectFires => IInv'
<1> SUFFICES ASSUME IInv, ReconnectFires PROVE IInv'
  OBVIOUS
<1>1. Running(ios)
  BY DEF ReconnectFires, IInv, Driven
<1>2. OpenSocket(ios, tasks) /\ UNCHANGED <<facade, pending, inFlight, sentKeys, heard>>
  BY DEF ReconnectFires
<1> QED BY <1>1, <1>2, DialledStep DEF IInv, IosTypeOK

-----------------------------------------------------------------------------
(* The tasks that have to do with the reports.                             *)

(* One that changes nothing the socket depends on.                         *)
LEMMA ReportingStep ==
  ASSUME IInv, tasks # <<>>, tasks' = Rest, TheTask.do # "stop", UNCHANGED <<facade, stage>>,
         ios' \in Clients, ios'.configured = ios.configured, ios'.stopped = ios.stopped,
         ios'.suspended = ios.suspended, ios'.reconnect = ios.reconnect,
         pending' \in Seq(Entries), inFlight' \subseteq Reports, sentKeys' \in Seq(Reports),
         wire' \subseteq Reports, heard' \subseteq Reports,
         TasksAnswer(Rest, stage, wire', inFlight'), WireOK(stage, wire', inFlight'),
         OutboxOK(heard', sentKeys', pending')
  PROVE  IInv'
<1>1. Rest \in Seq(Tasks) /\ TasksDrive(Rest, facade, ios')
  BY TakenTask
<1>2. Driven(ios', stage)
  BY DEF IInv, Driven, Running
<1> QED BY <1>1, <1>2 DEF IInv, IosTypeOK

LEMMA QueueReportStep == IInv /\ QueueReport => IInv'
<1> SUFFICES ASSUME IInv, QueueReport PROVE IInv'
  OBVIOUS
<1>1. /\ tasks # <<>> /\ TheTask.do \in {"report", "message"} /\ tasks' = Rest
      /\ pending' = AfterQueue(TheTask.report) /\ Flush(ios.status, pending', "all")
      /\ UNCHANGED <<facade, ios, stage, sentKeys, heard>>
  BY DEF QueueReport, Taken, TheTask
<1>2. TheTask.report \in Reports
  BY <1>1, TakenTask DEF Tasks, OfReports
<1>3. pending' \in Seq(Entries) /\ OutboxOK(heard, sentKeys, pending')
  BY <1>1, <1>2, AfterQueueOK DEF IInv
<1>4. /\ inFlight' \subseteq Reports /\ wire' \subseteq Reports
      /\ WireOK(stage, wire', inFlight')
      /\ \A ts : TasksAnswer(ts, stage, wire, inFlight)
                   => TasksAnswer(ts, stage, wire', inFlight')
  BY <1>1, <1>3, FlushOK DEF IInv
<1>5. TasksAnswer(Rest, stage, wire', inFlight')
  BY <1>1, <1>4, TakenTask
<1> QED BY <1>1, <1>3, <1>4, <1>5, ReportingStep DEF IInv, IosTypeOK

LEMMA EarliestType ==
  ASSUME NEW p \in Seq(Entries) PROVE Earliest(p) \subseteq Reports \cup {NoReport}
<1>1. \A i \in DOMAIN p : p[i] \in Entries
  OBVIOUS
<1>2. \A e \in ToSet(p) : e.report \in Reports
  BY <1>1 DEF ToSet, Entries
<1> QED BY <1>2 DEF Earliest, Deferred

LEMMA HelloAckStep == IInv /\ HandleHelloAck => IInv'
<1> SUFFICES ASSUME IInv, HandleHelloAck PROVE IInv'
  OBVIOUS
<1>1. /\ tasks # <<>> /\ TheTask.do = "helloAck" /\ tasks' = Rest
      /\ pending' = IF TheTask.report = NoReport THEN pending ELSE AfterQueue(TheTask.report)
      /\ Flush("connected", pending', "all")
      /\ UNCHANGED <<facade, stage, sentKeys, heard>> /\ ios \in Clients
  BY DEF HandleHelloAck, Taken, TheTask, IInv, IosTypeOK
<1>2. TheTask.report \in Reports \cup {NoReport}
  BY <1>1, TakenTask DEF Tasks
<1>3. pending' \in Seq(Entries) /\ OutboxOK(heard, sentKeys, pending')
  BY <1>1, <1>2, AfterQueueOK DEF IInv, IosTypeOK
<1>4. /\ inFlight' \subseteq Reports /\ wire' \subseteq Reports
      /\ WireOK(stage, wire', inFlight')
      /\ \A ts : TasksAnswer(ts, stage, wire, inFlight)
                   => TasksAnswer(ts, stage, wire', inFlight')
  BY <1>1, <1>3, FlushOK DEF IInv
<1>5. TasksAnswer(Rest, stage, wire', inFlight')
  BY <1>1, <1>4, TakenTask
<1>6. PICK r \in Reports \cup {NoReport} :
        ios' = [ios EXCEPT !.status = "connected", !.poll = TRUE, !.deferral = r]
  BY <1>3, EarliestType DEF HandleHelloAck
<1>7. /\ ios' \in Clients /\ ios'.configured = ios.configured /\ ios'.stopped = ios.stopped
      /\ ios'.suspended = ios.suspended /\ ios'.reconnect = ios.reconnect
  BY <1>1, <1>6 DEF Clients, Statuses
<1> QED BY <1>1, <1>3, <1>4, <1>5, <1>7, ReportingStep DEF IInv, IosTypeOK

LEMMA OpenStep == IInv /\ HandleOpen => IInv'
<1> SUFFICES ASSUME IInv, HandleOpen PROVE IInv'
  OBVIOUS
<1>1. /\ tasks # <<>> /\ TheTask.do # "stop" /\ tasks' = Rest
      /\ stage' = IF stage = "dialled" THEN "greeted" ELSE stage
      /\ UNCHANGED <<facade, ios, pending, inFlight, sentKeys, wire, heard>>
  BY DEF HandleOpen, Taken, TheTask, reportVars
<1>2. stage' \in Stages /\ (stage' = "none" <=> stage = "none")
      /\ (stage' = "session" <=> stage = "session")
  BY <1>1 DEF IInv, IosTypeOK, Stages
<1>3. Driven(ios, stage') /\ WireOK(stage', wire, inFlight)
  BY <1>2 DEF IInv, Driven, WireOK
<1>4. Rest \in Seq(Tasks) /\ TasksDrive(Rest, facade, ios)
      /\ TasksAnswer(Rest, stage, wire, inFlight)
  BY <1>1, TakenTask
<1>5. TasksAnswer(Rest, stage', wire, inFlight)
  BY <1>2, <1>4 DEF TasksAnswer
<1> QED BY <1>1, <1>2, <1>3, <1>4, <1>5 DEF IInv, IosTypeOK

(* An accepted report leaves the outbox in the step its key is kept in.    *)
LEMMA AcceptedOK ==
  ASSUME IosTypeOK, OutboxOK(heard, sentKeys, pending),
         NEW r \in Reports, r \in Queued(pending), Accepted(r)
  PROVE  /\ pending' \in Seq(Entries) /\ sentKeys' \in Seq(Reports) /\ heard' \subseteq Reports
         /\ OutboxOK(heard', sentKeys', pending')
<1>1. /\ sentKeys' = SentWith(r) /\ heard' = (heard \cup {r}) \ Evicted(r)
      /\ pending' = Without(r)
  BY DEF Accepted
<1>2. /\ SentWith(r) \in Seq(Reports) /\ r \in ToSet(SentWith(r))
      /\ \A x \in ToSet(sentKeys) \ Evicted(r) : x \in ToSet(SentWith(r))
  BY SentWithIs DEF IosTypeOK
<1>3. /\ Without(r) \in Seq(Entries) /\ Distinct(Without(r))
      /\ Queued(Without(r)) \subseteq Queued(pending) \ {r}
  BY WithoutOK DEF IosTypeOK, OutboxOK
<1>4. heard' \subseteq ToSet(sentKeys')
  BY <1>1, <1>2 DEF OutboxOK
<1>5. heard' \cap Queued(pending') = {}
  BY <1>1, <1>3 DEF OutboxOK
<1> QED BY <1>1, <1>2, <1>3, <1>4, <1>5 DEF OutboxOK, IosTypeOK

LEMMA EntryOfIs ==
  ASSUME IosTypeOK, NEW r, r \in Queued(pending)
  PROVE  EntryOf(r) \in Entries /\ EntryOf(r).report = r
<1>1. Index(r) \in DOMAIN pending /\ pending[Index(r)].report = r
  BY IndexIs
<1> QED BY <1>1 DEF EntryOf, IosTypeOK

LEMMA RejectionOK ==
  ASSUME IosTypeOK, OutboxOK(heard, sentKeys, pending),
         NEW r, r \in Queued(pending), NEW error, ApplyRejection(r, error)
  PROVE  /\ pending' \in Seq(Entries) /\ UNCHANGED <<sentKeys, heard>>
         /\ inFlight' \in {inFlight, inFlight \ {r}}
         /\ OutboxOK(heard, sentKeys, pending')
<1> DEFINE e == EntryOf(r)
           again == [e EXCEPT !.attempts = IF @ < MaxRetries THEN @ + 1 ELSE @]
           later == [again EXCEPT !.defer = "running"]
           soon == [again EXCEPT !.defer = "none"]
<1>1. e \in Entries /\ e.report = r
  BY EntryOfIs
<1>2. again \in Entries /\ again.report = r
  <2> HIDE DEF e
  <2>1. e.attempts \in Nat /\ MaxRetries \in Nat
    BY <1>1, IosAssumption DEF Entries
  <2> DEFINE n == IF e.attempts < MaxRetries THEN e.attempts + 1 ELSE e.attempts
  <2>2. n \in Nat
    BY <2>1
  <2>3. again = [e EXCEPT !.attempts = n]
    OBVIOUS
  <2> HIDE DEF n, again
  <2> QED BY <1>1, <2>2, <2>3 DEF Entries
<1>3. /\ later \in Entries /\ later.report = r
      /\ soon \in Entries /\ soon.report = r
  <2> HIDE DEF e, again
  <2> QED BY <1>2 DEF Entries
<1>4. /\ UNCHANGED <<sentKeys, heard>>
      /\ inFlight' = IF error = "other" THEN inFlight ELSE inFlight \ {r}
      /\ pending' \in {With(later), With(soon), pending, Without(r)}
  BY DEF ApplyRejection
<1> HIDE DEF e, again, later, soon
<1>5. pending \in Seq(Entries) /\ Distinct(pending) /\ heard \cap Queued(pending) = {}
  BY DEF IosTypeOK, OutboxOK
<1>6. \A x \in {later, soon} :
         /\ With(x) \in Seq(Entries) /\ Distinct(With(x)) /\ Queued(With(x)) = Queued(pending)
  BY <1>3, <1>5, WithOK
<1>7. /\ Without(r) \in Seq(Entries) /\ Distinct(Without(r))
      /\ Queued(Without(r)) \subseteq Queued(pending) \ {r}
  BY <1>5, WithoutOK
<1>8. pending' \in Seq(Entries) /\ Distinct(pending') /\ Queued(pending') \subseteq Queued(pending)
  BY <1>4, <1>5, <1>6, <1>7
<1> QED BY <1>4, <1>5, <1>8 DEF OutboxOK

LEMMA AckStep == IInv /\ HandleAck => IInv'
<1> SUFFICES ASSUME IInv, HandleAck PROVE IInv'
  OBVIOUS
<1> DEFINE r == TheTask.report
<1>1. /\ tasks # <<>> /\ TheTask.do = "ack" /\ tasks' = Rest
      /\ UNCHANGED <<facade, stage, wire>>
      /\ ios \in Clients /\ wire \subseteq Reports /\ inFlight \subseteq Reports
  BY DEF HandleAck, Taken, TheTask, IInv, IosTypeOK
<1>2. r \in Reports
  BY <1>1, TakenTask DEF Tasks, OfReports
<1>3. /\ pending' \in Seq(Entries) /\ sentKeys' \in Seq(Reports) /\ heard' \subseteq Reports
      /\ OutboxOK(heard', sentKeys', pending')
      /\ inFlight' \in {inFlight, inFlight \ {r}}
  <2>1. CASE r \notin Queued(pending)
    BY <2>1 DEF HandleAck, IInv, IosTypeOK
  <2>2. CASE r \in Queued(pending) /\ TheTask.said = "accepted"
    <3>1. Accepted(r)
      BY <2>2 DEF HandleAck
    <3> QED BY <1>2, <2>2, <3>1, AcceptedOK DEF IInv, Accepted
  <2>3. CASE r \in Queued(pending) /\ TheTask.said # "accepted"
    <3>1. ApplyRejection(r, TheTask.said)
      BY <2>3 DEF HandleAck
    <3>2. /\ pending' \in Seq(Entries) /\ UNCHANGED <<sentKeys, heard>>
          /\ inFlight' \in {inFlight, inFlight \ {r}}
          /\ OutboxOK(heard, sentKeys, pending')
      BY <2>3, <3>1, RejectionOK DEF IInv
    <3> QED BY <3>2 DEF IInv, IosTypeOK
  <2> QED BY <2>1, <2>2, <2>3
<1>4. /\ r \notin wire
      /\ \A i \in DOMAIN Rest : Rest[i].do = "ack" => Rest[i].report # r
  <2>1. tasks \in Seq(Tasks) /\ TasksAnswer(tasks, stage, wire, inFlight) /\ Head(tasks).do = "ack"
    BY <1>1 DEF IInv, IosTypeOK, TheTask
  <2> QED BY <1>1, <2>1, AnswerHead DEF Rest, TheTask
<1>5. TasksAnswer(Rest, stage, wire, inFlight) /\ WireOK(stage, wire, inFlight)
  BY <1>1, TakenTask DEF IInv
<1> HIDE DEF r
<1>6. TasksAnswer(Rest, stage, wire, inFlight \ {r}) /\ WireOK(stage, wire, inFlight \ {r})
  BY <1>4, <1>5, AnswerUnmarked DEF WireOK
<1>7. PICK d \in Reports \cup {NoReport} : ios' = [ios EXCEPT !.deferral = d]
  BY <1>3, EarliestType DEF HandleAck
<1>8. /\ ios' \in Clients /\ ios'.configured = ios.configured /\ ios'.stopped = ios.stopped
      /\ ios'.suspended = ios.suspended /\ ios'.reconnect = ios.reconnect
  BY <1>1, <1>7 DEF Clients
<1>9. /\ inFlight' \subseteq Reports /\ TasksAnswer(Rest, stage, wire', inFlight')
      /\ WireOK(stage, wire', inFlight') /\ wire' \subseteq Reports
  BY <1>1, <1>3, <1>5, <1>6
<1> QED BY <1>1, <1>3, <1>8, <1>9, ReportingStep

LEMMA RunTaskStep == IInv /\ RunTask => IInv'
  BY ConfigureStep, StopStep, SuspendStep, ResumeStep, QueueReportStep, OpenStep, HelloAckStep,
     AckStep, StaleStep, TerminalStep, DisconnectStep, IgnoredStep DEF RunTask

-----------------------------------------------------------------------------
(* The timers.                                                             *)

(* One that sends reports.                                                 *)
LEMMA SendingStep ==
  ASSUME IInv, NEW mode, Flush(ios.status, pending, mode),
         UNCHANGED <<facade, stage, tasks, pending, sentKeys, heard>>,
         ios' \in Clients, ios'.configured = ios.configured, ios'.stopped = ios.stopped,
         ios'.suspended = ios.suspended, ios'.reconnect = ios.reconnect
  PROVE  IInv'
<1>1. /\ inFlight' \subseteq Reports /\ wire' \subseteq Reports
      /\ WireOK(stage, wire', inFlight')
      /\ TasksAnswer(tasks, stage, wire', inFlight')
  BY FlushOK DEF IInv, IosTypeOK
<1>2. TasksDrive(tasks, facade, ios')
  BY DriveClient DEF IInv
<1>3. Driven(ios', stage)
  BY DEF IInv, Driven, Running
<1> QED BY <1>1, <1>2, <1>3 DEF IInv, IosTypeOK

LEMMA PollStep == IInv /\ PollFires => IInv'
  BY SendingStep DEF PollFires, IInv, IosTypeOK

LEMMA DeferralStep == IInv /\ DeferralFires => IInv'
<1> SUFFICES ASSUME IInv, DeferralFires PROVE IInv'
  OBVIOUS
<1>1. /\ Flush(ios.status, pending, "deferredOnly") /\ ios \in Clients
      /\ UNCHANGED <<facade, stage, tasks, pending, sentKeys, heard>>
  BY DEF DeferralFires, IInv, IosTypeOK
<1>2. PICK d \in Reports \cup {NoReport} : ios' = [ios EXCEPT !.deferral = d]
  BY EarliestType DEF DeferralFires, IInv, IosTypeOK
<1>3. /\ ios' \in Clients /\ ios'.configured = ios.configured /\ ios'.stopped = ios.stopped
      /\ ios'.suspended = ios.suspended /\ ios'.reconnect = ios.reconnect
  BY <1>1, <1>2 DEF Clients
<1> QED BY <1>1, <1>3, SendingStep

LEMMA ExpireStep == ASSUME IInv, NEW r, Expire(r) PROVE IInv'
<1>1. r \in Queued(pending)
  BY DEF Expire, Deferred, Queued, ToSet
<1> DEFINE e == [EntryOf(r) EXCEPT !.defer = "over"]
<1>2. e \in Entries /\ e.report = r
  BY <1>1, EntryOfIs DEF IInv, Entries
<1>3. /\ pending' = With(e)
      /\ UNCHANGED <<facade, ios, stage, tasks, inFlight, sentKeys, wire, heard>>
  BY DEF Expire
<1> HIDE DEF e
<1>4. /\ pending' \in Seq(Entries) /\ Distinct(pending') /\ Queued(pending') = Queued(pending)
  BY <1>1, <1>2, <1>3, WithOK DEF IInv, IosTypeOK, OutboxOK
<1> QED BY <1>3, <1>4 DEF IInv, IosTypeOK, OutboxOK

LEMMA TimersStep == IInv /\ Timers => IInv'
  BY ReconnectStep, PollStep, DeferralStep, ExpireStep DEF Timers

-----------------------------------------------------------------------------
(* The relay, the network and the platform.                                *)

(* There is a socket, so that the client runs and is configured.           *)
LEMMA CallsStep ==
  ASSUME IInv, NEW from, NEW to \in Stages \ {"none"}, NEW t \in Tasks, t.do \in Callbacks,
         "none" \notin from, Calls(from, to, t), wire' \subseteq wire,
         to # "session" => wire' = {},
         TasksAnswer(Append(tasks, t), stage, wire', inFlight)
  PROVE  IInv'
<1>1. /\ stage # "none" /\ stage' = to /\ tasks' = Append(tasks, t)
      /\ UNCHANGED <<facade, ios, pending, inFlight, sentKeys, heard>>
      /\ tasks \in Seq(Tasks)
  BY DEF Calls, Perform, IInv, IosTypeOK
<1>2. Running(ios) /\ ~ios.reconnect
  BY <1>1 DEF IInv, Driven
<1>3. TasksDrive(Append(tasks, t), facade, ios)
  <2>1. t.do # "configure" /\ ios.configured
    BY <1>2 DEF Callbacks, Running
  <2> QED BY <1>1, <2>1, DriveAppend DEF IInv
<1>4. Append(tasks, t) \in Seq(Tasks)
  BY <1>1, AppendAt
<1>5. TasksAnswer(Append(tasks, t), to, wire', inFlight)
  BY <1>1 DEF TasksAnswer
<1>6. Driven(ios, to) /\ WireOK(to, wire', inFlight)
  BY <1>2 DEF Driven, WireOK, IInv
<1> QED BY <1>1, <1>3, <1>4, <1>5, <1>6 DEF IInv, IosTypeOK

(* A callback that is no Ack.                                              *)
LEMMA CallbackStep ==
  ASSUME IInv, NEW from, NEW to \in Stages \ {"none"}, NEW t \in Tasks,
         t.do \in Callbacks \ {"ack"}, "none" \notin from, Calls(from, to, t),
         wire' = {} \/ (to = "session" /\ UNCHANGED wire)
  PROVE  IInv'
<1>1. TasksAnswer(Append(tasks, t), stage, wire, inFlight)
  BY AnswerAppend DEF IInv, IosTypeOK
<1>2. TasksAnswer(Append(tasks, t), stage, wire', inFlight)
  <2>1. wire' \subseteq wire
    OBVIOUS
  <2> QED BY <1>1, <2>1 DEF TasksAnswer
<1> QED BY <1>2, CallsStep

LEMMA GreetsStep == ASSUME IInv, NEW r \in Relayed \cup {NoReport}, Greets(r) PROVE IInv'
<1>1. /\ Work("helloAck", r, "none") \in Tasks
      /\ Work("helloAck", r, "none").do \in Callbacks \ {"ack"}
  BY WorkType DEF Dos, OfReports, Saids, Reports, Callbacks
<1>2. Calls({"greeted"}, "session", Work("helloAck", r, "none")) /\ UNCHANGED wire
  BY DEF Greets
<1> QED BY <1>1, <1>2, CallbackStep DEF Stages

LEMMA OffersStep == ASSUME IInv, NEW r \in Relayed, Offers(r) PROVE IInv'
<1>1. /\ Work("message", r, "none") \in Tasks
      /\ Work("message", r, "none").do \in Callbacks \ {"ack"}
  BY WorkType DEF Dos, OfReports, Saids, Reports, Callbacks
<1>2. Calls({"session"}, "session", Work("message", r, "none")) /\ UNCHANGED wire
  BY DEF Offers
<1> QED BY <1>1, <1>2, CallbackStep DEF Stages

(* The one answer of a report that is on the wire.                         *)
LEMMA AnswersStep ==
  ASSUME IInv, NEW r \in Reports, NEW said \in AckErrors \cup {"accepted"}, Answers(r, said)
  PROVE  IInv'
<1> DEFINE t == Work("ack", r, said)
<1>1. t \in Tasks /\ t.do = "ack" /\ t.report = r
  <2>1. "ack" \in Dos /\ r \in Reports
    BY DEF Dos, Callbacks
  <2>2. said \in Saids
    BY DEF Saids
  <2> QED BY <2>1, <2>2, WorkType
<1>2. Calls({"session"}, "session", t) /\ r \in wire /\ wire' = wire \ {r}
  BY DEF Answers
<1> HIDE DEF t
<1>3. TasksAnswer(Append(tasks, t), stage, wire \ {t.report}, inFlight)
  BY <1>1, <1>2, AnswerAck DEF IInv, IosTypeOK, WireOK
<1>4. TasksAnswer(Append(tasks, t), stage, wire', inFlight)
  BY <1>1, <1>2, <1>3
<1>5. "session" \in Stages \ {"none"} /\ t.do \in Callbacks /\ "none" \notin {"session"}
  BY <1>1 DEF Stages, Callbacks
<1>6. wire' \subseteq wire
  BY <1>2
<1> QED BY <1>1, <1>2, <1>4, <1>5, <1>6, CallsStep

LEMMA ClosesStep == ASSUME IInv, NEW reason \in CloseReasons, Closes(reason) PROVE IInv'
<1>1. /\ Work("close", NoReport, reason) \in Tasks
      /\ Work("close", NoReport, reason).do \in Callbacks \ {"ack"}
  <2>1. /\ "close" \in Dos /\ "close" \in Callbacks \ {"ack"} /\ "close" \notin OfReports
        /\ NoReport \in Reports \cup {NoReport}
    BY DEF Dos, Callbacks, OfReports
  <2>2. reason \in Saids
    BY DEF Saids
  <2> QED BY <2>1, <2>2, WorkType
<1>2. Calls({"greeted", "session"}, "closing", Work("close", NoReport, reason)) /\ wire' = {}
  BY DEF Closes
<1> QED BY <1>1, <1>2, CallbackStep DEF Stages

LEMMA EndsStep == IInv /\ Ends => IInv'
<1> SUFFICES ASSUME IInv, Ends PROVE IInv'
  OBVIOUS
<1>1. Plain("gone") \in Tasks /\ Plain("gone").do \in Callbacks \ {"ack"}
  BY WorkType DEF Dos, OfReports, Callbacks
<1>2. Calls({"dialled", "greeted", "session", "closing"}, "ended", Plain("gone")) /\ wire' = {}
  BY DEF Ends
<1> QED BY <1>1, <1>2, CallbackStep DEF Stages

LEMMA RelayStep == IInv /\ Relay => IInv'
  BY GreetsStep, OffersStep, AnswersStep, ClosesStep, EndsStep DEF Relay

(* A new process has the outbox and the sent-set, and nothing else.        *)
LEMMA FreshOK ==
  ASSUME NEW relay \in BOOLEAN
  PROVE  /\ NewFacade(relay) \in Facades /\ NewClient \in Clients
         /\ Driven(NewClient, "none") /\ TasksDrive(<<>>, NewFacade(relay), NewClient)
         /\ TasksAnswer(<<>>, "none", {}, {}) /\ WireOK("none", {}, {})
         /\ <<>> \in Seq(Tasks)
<1>1. NewFacade(relay) \in Facades
  BY DEF NewFacade, Facades
<1>2. NewClient \in Clients /\ ~NewClient.configured /\ ~NewClient.reconnect
  BY DEF NewClient, Clients, Statuses
<1>3. Driven(NewClient, "none")
  BY <1>2 DEF Driven, Running
<1>4. TasksDrive(<<>>, NewFacade(relay), NewClient)
  BY <1>2 DEF TasksDrive, CallbacksMean, OffStops, UnmadeRests
<1> QED BY <1>1, <1>2, <1>3, <1>4 DEF TasksAnswer, WireOK

LEMMA DiesStep == IInv /\ Dies => IInv'
<1> SUFFICES ASSUME IInv, Dies PROVE IInv'
  OBVIOUS
<1>1. /\ facade' = NewFacade(facade.relay) /\ ios' = NewClient /\ stage' = "none"
      /\ tasks' = <<>> /\ inFlight' = {} /\ wire' = {} /\ UNCHANGED pending
  BY DEF Dies
<1>2. facade.relay \in BOOLEAN
  BY DEF IInv, IosTypeOK, Facades
<1>3. /\ sentKeys' \in Seq(Reports) /\ heard' \subseteq heard
      /\ heard' \subseteq ToSet(sentKeys')
  <2>1. CASE UNCHANGED <<sentKeys, heard>>
    BY <2>1 DEF IInv, IosTypeOK, OutboxOK
  <2>2. CASE ~UNCHANGED <<sentKeys, heard>>
    <3> DEFINE r == TheTask.report
    <3>1. /\ tasks # <<>> /\ TheTask.do = "ack" /\ sentKeys' = SentWith(r)
          /\ heard' = heard \ (Evicted(r) \cup {r})
      BY <2>2 DEF Dies, Taken, TheTask
    <3>2. r \in Reports
      BY <3>1, TakenTask DEF Tasks, OfReports
    <3>3. /\ SentWith(r) \in Seq(Reports)
          /\ \A x \in ToSet(sentKeys) \ Evicted(r) : x \in ToSet(SentWith(r))
      BY <3>2, SentWithIs DEF IInv, IosTypeOK
    <3> QED BY <3>1, <3>3 DEF IInv, OutboxOK
  <2> QED BY <2>1, <2>2
<1>4. OutboxOK(heard', sentKeys', pending')
  BY <1>1, <1>3 DEF IInv, OutboxOK
<1>5. /\ facade' \in Facades /\ ios' \in Clients
      /\ Driven(ios', stage') /\ TasksDrive(tasks', facade', ios')
      /\ TasksAnswer(tasks', stage', wire', inFlight') /\ WireOK(stage', wire', inFlight')
      /\ tasks' \in Seq(Tasks)
  BY <1>1, <1>2, FreshOK
<1> QED BY <1>1, <1>3, <1>4, <1>5 DEF IInv, IosTypeOK, Stages

-----------------------------------------------------------------------------
LEMMA Initially == IosInit => IInv
<1> SUFFICES ASSUME IosInit PROVE IInv
  OBVIOUS
<1>1. /\ facade = NewFacade(TRUE) /\ ios = NewClient /\ stage = "none" /\ tasks = <<>>
      /\ pending = <<>> /\ inFlight = {} /\ sentKeys = <<>> /\ wire = {} /\ heard = {}
  BY DEF IosInit
<1>2. OutboxOK(heard, sentKeys, pending)
  BY <1>1 DEF OutboxOK, Distinct
<1>3. pending \in Seq(Entries) /\ sentKeys \in Seq(Reports) /\ stage \in Stages
  BY <1>1 DEF Stages
<1> QED BY <1>1, <1>2, <1>3, FreshOK DEF IInv, IosTypeOK

LEMMA Stuttering == IInv /\ UNCHANGED iosVars => IInv'
<1> SUFFICES ASSUME IInv, UNCHANGED iosVars PROVE IInv'
  OBVIOUS
<1>1. UNCHANGED <<facade, ios, stage, tasks, pending, inFlight, sentKeys, wire, heard>>
  BY DEF iosVars, reportVars
<1> QED BY <1>1 DEF IInv, IosTypeOK

(* IInv holds in every state the client and its surroundings can be in.    *)
THEOREM Inductive == IosSpec => []IInv
<1>1. IosInit => IInv
  BY Initially
<1>2. IInv /\ [IosNext]_iosVars => IInv'
  BY HostStep, RunTaskStep, TimersStep, RelayStep, DiesStep, Stuttering DEF IosNext
<1> QED BY <1>1, <1>2, PTL DEF IosSpec

(* Socket or reconnect timer, one of them while the client runs and none   *)
(* while it does not; and with the relay off, once the scheduler has       *)
(* caught up with the switch, it does not run: whatever tasks and late     *)
(* callbacks were queued, in any order the host and the platform leave     *)
(* them.                                                                   *)
THEOREM DrivenCorrect == IosSpec => []DrivenByOne
<1>1. IInv => DrivenByOne
  <2> SUFFICES ASSUME IInv PROVE DrivenByOne
    OBVIOUS
  <2>1. IF Running(ios) THEN (stage # "none") # ios.reconnect
                        ELSE stage = "none" /\ ~ios.reconnect
    BY DEF IInv, Driven
  <2>2. ASSUME ~facade.relay, \A i \in DOMAIN tasks : tasks[i].do \notin {"configure", "stop"}
        PROVE  ~Running(ios)
    BY <2>2 DEF IInv, TasksDrive, OffStops, Running
  <2> QED BY <2>1, <2>2 DEF DrivenByOne
<1> QED BY <1>1, Inductive, PTL

(* A report is not queued again after the client was told that it was      *)
(* accepted, nor on the wire without its mark, over any number of          *)
(* connections, refusals and deaths; a key that was evicted excepted.      *)
THEOREM ReportedCorrect == IosSpec => []ReportedOnce
<1>1. IInv => ReportedOnce
  BY DEF IInv, OutboxOK, WireOK, ReportedOnce
<1> QED BY <1>1, Inductive, PTL
=============================================================================
