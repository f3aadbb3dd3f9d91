-------------------------- MODULE DeliveryReports --------------------------
(***************************************************************************)
(* The Android delivery-report path: what happens to a message_id between  *)
(* the frame that carries it and the relay's Ack of the reports made       *)
(* about it.  It composes                                                  *)
(*   - SinchPushSocketClient.deliverMessage / onAck / onHelloAck /         *)
(*     schedulePoll and their callees, as far as they move reports,        *)
(*   - ReportTracker (sent-set, pending map, outbox),                      *)
(*   - SeenSet, shared with the FCM service,                               *)
(*   - SocketStateStore, whose writes are SharedPreferences apply().       *)
(*                                                                         *)
(* Everything runs on the client's one scheduler thread, so a task is      *)
(* never interrupted by another task; what can come between two writes of  *)
(* one task is the FCM thread, the write-back of apply(), and the death of *)
(* the process.  `task' is the program counter of the running task.        *)
(***************************************************************************)
EXTENDS Integers, Sequences, SequencesExt, FiniteSets

CONSTANTS
  Messages,        (* message ids                                          *)
  NoMessage,       (* filler of an idle task                               *)
  EnqueuedAt,      (* enqueued_at_unix_millis of each message, 0 = unknown *)
  SeenCapacity,    (* SEEN_SET_CAPACITY                                    *)
  MaxAttempts,     (* MAX_REPORT_ATTEMPTS                                  *)
  Deferrals,       (* values serverPressureCeilingMs() takes               *)
  Setups,          (* what a behaviour may be set up with, see Setup       *)
  FcmMessages,     (* messages that may also arrive through FCM            *)
  MaxClock,        (* bound on the clock                                   *)
  MaxCrashes       (* bound on process deaths                              *)

DELIVERED == 1
DISPLAYED == 2
FAILED    == 3
DISMISSED == 4
Statuses  == {DELIVERED, DISPLAYED, FAILED, DISMISSED}

(* OUTBOX_CAPACITY; whether the display rule lets a notification be        *)
(* posted; the statuses the host reports itself; the messages some frame   *)
(* of which does not decode.  None of it changes while the client runs.    *)
Setup == [capacity : Nat \ {0}, display : BOOLEAN,
          hostStatuses : SUBSET {DISPLAYED, DISMISSED},
          undecodable : SUBSET Messages]

ASSUME ConstantsAssumption ==
  /\ NoMessage \notin Messages
  /\ IsFiniteSet(Messages)
  /\ EnqueuedAt \in [Messages -> Nat]
  /\ SeenCapacity \in Nat \ {0}
  /\ MaxAttempts \in Nat \ {0}
  /\ Deferrals \subseteq Nat \ {0}
  /\ Setups \subseteq Setup
  /\ FcmMessages \subseteq Messages
  /\ MaxClock \in Nat
  /\ MaxCrashes \in Nat

SentCapacity == 4 * SeenCapacity

(* An Ack token names a (message_id, status) pair. *)
Tokens == [msg : Messages, status : Statuses]

Entry == [tok : Tokens, attempts : Nat, notBefore : Nat, deferred : BOOLEAN]

(* What last became of the frame that carried a report: never sent, sent   *)
(* and not answered, or the answer, or the connection died first.          *)
Fates == {"unsent", "unanswered", "accepted", "rejected", "refused", "lost"}

Stages == {"idle", "cursor", "issue", "hand", "present", "flush", "resend"}

VARIABLES
  setup,        (* drawn from Setups                                       *)
  clock,
  connected,    (* the HelloAck of the live socket has been handled        *)
  polling,      (* pollFuture is scheduled                                 *)
  task,         (* where the running scheduler task is                     *)
  queued,       (* resend()'s snapshot still to be walked                  *)
  seen,         (* SeenSet.ids, oldest first                               *)
  cursor,       (* last_seen_message_id with its timestamp                 *)
  sentKeys,     (* ReportTracker.sentKeys, oldest first                    *)
  pending,      (* ReportTracker.pending, oldest first                     *)
  outbox,       (* ReportTracker.outbox, oldest first                      *)
  saved,        (* the outbox as last given to the store                   *)
  disk,         (* the preferences file                                    *)
  crashes,
  lostWrite,    (* history: a process died before a write reached the disk *)
  fate,         (* history: per token, its last frame                      *)
  repeats,      (* history: frames sent although nothing asked for them    *)
  discarded,    (* history: reports dropped by the outbox with a log line  *)
  interrupted,  (* history: reports a process death caught in report()     *)
  presented     (* history: presentations per message, capped at 2         *)

storeVars == <<seen, cursor, sentKeys, saved>>
processVars == <<disk, crashes, lostWrite>>
histVars  == <<fate, repeats, discarded, interrupted, presented>>
vars == <<setup, clock, connected, polling, task, queued, storeVars, pending, outbox,
          processVars, histVars>>

-----------------------------------------------------------------------------
(* BoundedLru: re-inserting keeps the position, a new key evicts the       *)
(* oldest one when the map is full.                                        *)

Holds(s, t)  == \E i \in DOMAIN s : s[i].tok = t
IndexOf(s, t) == CHOOSE i \in DOMAIN s : s[i].tok = t

Insert(s, x, capacity) ==
  IF Len(s) >= capacity THEN Append(Tail(s), x) ELSE Append(s, x)

AddKey(s, key, capacity) ==
  IF key \in ToSet(s) THEN s ELSE Insert(s, key, capacity)

PutEntry(s, e, capacity) ==
  IF Holds(s, e.tok) THEN [s EXCEPT ![IndexOf(s, e.tok)] = e]
                     ELSE Insert(s, e, capacity)

(* ReportTracker's outbox: one entry per token. *)
RemoveToken(s, t) ==
  IF Holds(s, t) THEN RemoveAt(s, IndexOf(s, t)) ELSE s

(* What the preferences file holds once every save has reached it.        *)
Prefs == [seen |-> seen, cursor |-> cursor, sentKeys |-> sentKeys,
          outbox |-> saved]

-----------------------------------------------------------------------------
Idle == [at |-> "idle", msg |-> NoMessage, status |-> DELIVERED,
         fresh |-> FALSE, flush |-> FALSE]

Token(t) == [msg |-> t.msg, status |-> t.status]

Init ==
  /\ setup \in Setups
  /\ clock = 0
  /\ connected = FALSE
  /\ polling = FALSE
  /\ task = Idle
  /\ queued = <<>>
  /\ seen = <<>>
  /\ cursor = [msg |-> NoMessage, at |-> 0]
  /\ sentKeys = <<>>
  /\ pending = <<>>
  /\ outbox = <<>>
  /\ saved = <<>>
  /\ disk = Prefs
  /\ crashes = 0
  /\ lostWrite = FALSE
  /\ fate = [t \in Tokens |-> "unsent"]
  /\ repeats = {}
  /\ discarded = {}
  /\ interrupted = {}
  /\ presented = [m \in Messages |-> 0]

(* The frame is with the socket.  A frame for a token whose last frame was *)
(* not answered with a retryable rejection is one nobody asked for.        *)
Sent(t) ==
  /\ fate' = [fate EXCEPT ![t] = "unanswered"]
  /\ repeats' = IF fate[t] \in {"unsent", "rejected"} THEN repeats
                ELSE repeats \cup {[tok |-> t, after |-> fate[t]]}

(* Enqueue at the back; a full outbox drops its oldest entry first. *)
Enqueue(s, e) ==
  /\ outbox' = Insert(s, e, setup.capacity)
  /\ saved' = outbox'
  /\ discarded' = IF Len(s) >= setup.capacity
                  THEN discarded \cup {Head(s).tok} ELSE discarded

Present(m) == presented' = [presented EXCEPT ![m] = IF @ < 2 THEN @ + 1 ELSE 2]

(* Where the task goes once a report has been issued or refused. *)
AfterReport ==
  task' = IF task.fresh THEN [task EXCEPT !.at = "present"]
          ELSE IF task.flush THEN [Idle EXCEPT !.at = "flush"] ELSE Idle

-----------------------------------------------------------------------------
(* deliverMessage, first statement: seen.add, which persists a new id. *)
Deliver(m, flush) ==
  /\ seen' = AddKey(seen, m, SeenCapacity)
  /\ task' = [at |-> "cursor", msg |-> m, status |-> DELIVERED,
              fresh |-> m \notin ToSet(seen), flush |-> flush]
  /\ UNCHANGED <<queued, cursor, sentKeys, pending, outbox, saved>>

(* A Message frame. *)
OnMessage(m) ==
  /\ task.at = "idle" /\ connected
  /\ Deliver(m, FALSE)
  /\ UNCHANGED <<setup, clock, connected, polling, processVars, histVars>>

(* HelloAck, with or without a pooled message; the flush comes last. *)
OnHelloAck ==
  /\ task.at = "idle" /\ ~connected
  /\ connected' = TRUE
  /\ polling' = TRUE
  /\ \/ /\ task' = [Idle EXCEPT !.at = "flush"]
        /\ UNCHANGED <<queued, storeVars, pending, outbox>>
     \/ \E m \in Messages : Deliver(m, TRUE)
  /\ UNCHANGED <<setup, clock, processVars, histVars>>

(* advanceLastSeen: a miss moves the cursor unless it is known to be       *)
(* older, a hit only when it is known to be newer.                         *)
Advances(at) ==
  LET older == at > 0 /\ cursor.at > 0 /\ at < cursor.at
      newer == at > 0 /\ (cursor.at = 0 \/ at > cursor.at)
  IN (task.fresh /\ ~older) \/ newer

AdvanceLastSeen ==
  LET at == EnqueuedAt[task.msg] IN
  /\ task.at = "cursor"
  /\ cursor' = IF Advances(at) THEN [msg |-> task.msg, at |-> at] ELSE cursor
  /\ task' = [task EXCEPT !.at = "issue"]
  /\ UNCHANGED <<seen, sentKeys, saved>>
  /\ UNCHANGED <<setup, clock, connected, polling, queued, pending, outbox,
                 processVars, histVars>>

(* A report as report() builds it. *)
Fresh(t) == [tok |-> t, attempts |-> 0, notBefore |-> 0, deferred |-> FALSE]

(* report(), up to the persisted sent-set: the once-per-pair decision. *)
Issue ==
  LET t == Token(task) IN
  /\ task.at = "issue"
  /\ IF t \in ToSet(sentKeys)
     THEN /\ AfterReport
          /\ UNCHANGED <<sentKeys, pending>>
     ELSE /\ sentKeys' = AddKey(sentKeys, t, SentCapacity)
          /\ pending' = PutEntry(pending, Fresh(t), SentCapacity)
          /\ task' = [task EXCEPT !.at = "hand"]
  /\ UNCHANGED <<seen, cursor, saved>>
  /\ UNCHANGED <<setup, clock, connected, polling, queued, outbox, processVars,
                 histVars>>

(* report(), second half: the socket takes the frame. *)
HandToSocket ==
  /\ task.at = "hand" /\ connected
  /\ Sent(Token(task))
  /\ AfterReport
  /\ UNCHANGED <<setup, clock, connected, polling, queued, storeVars, pending, outbox,
                 processVars, discarded, interrupted, presented>>

(* report(), second half: not connected, or send() fails. *)
HandToOutbox ==
  /\ task.at = "hand"
  /\ Enqueue(outbox, Fresh(Token(task)))
  /\ AfterReport
  /\ UNCHANGED <<seen, cursor, sentKeys>>
  /\ UNCHANGED <<setup, clock, connected, polling, queued, pending, processVars, fate,
                 repeats, interrupted, presented>>

(* recordMessage, the host listener and, when the display rule and the     *)
(* platform let it, a notification, which is a DISPLAYED report.           *)
PresentMessage ==
  /\ task.at = "present"
  /\ Present(task.msg)
  /\ \/ /\ setup.display
        /\ task' = [task EXCEPT !.at = "issue", !.status = DISPLAYED,
                                !.fresh = FALSE]
     \/ task' = IF task.flush THEN [Idle EXCEPT !.at = "flush"] ELSE Idle
  /\ UNCHANGED <<setup, clock, connected, polling, queued, storeVars, pending, outbox,
                 processVars, fate, repeats, discarded, interrupted>>

(* A Message frame that does not decode but whose id can be salvaged: a    *)
(* FAILED report, and the id does not enter the seen set.                  *)
OnPayloadDecodeFailure(m) ==
  /\ task.at = "idle" /\ connected
  /\ task' = [Idle EXCEPT !.at = "issue", !.msg = m, !.status = FAILED]
  /\ UNCHANGED <<setup, clock, connected, polling, queued, storeVars, pending, outbox,
                 processVars, histVars>>

(* reportPushMessageStatus, from the host, connected or not. *)
ReportStatus(m, s) ==
  /\ task.at = "idle"
  /\ task' = [Idle EXCEPT !.at = "issue", !.msg = m, !.status = s]
  /\ UNCHANGED <<setup, clock, connected, polling, queued, storeVars, pending, outbox,
                 processVars, histVars>>

(* Mutant of IsShedding: a deferral that has run out still counts. *)
IsSheddingForever == \E i \in DOMAIN outbox : outbox[i].deferred

-----------------------------------------------------------------------------
IsShedding == \E i \in DOMAIN outbox :
                outbox[i].deferred /\ outbox[i].notBefore > clock

(* The poll tick, when the socket refuses the Poll: the timer goes. *)
PollRefused ==
  /\ task.at = "idle" /\ connected /\ polling
  /\ polling' = FALSE
  /\ UNCHANGED <<setup, clock, connected, task, queued, storeVars, pending, outbox,
                 processVars, histVars>>

(* The poll tick, otherwise.  While a deferral is running it sends its     *)
(* Poll and nothing else.                                                  *)
PollRetry ==
  /\ task.at = "idle" /\ connected /\ polling
  /\ ~IsShedding
  /\ task' = [Idle EXCEPT !.at = "flush"]
  /\ UNCHANGED <<setup, clock, connected, polling, queued, storeVars, pending, outbox,
                 processVars, histVars>>

(* Mutant of StartResend: the outbox is walked but not emptied. *)
StartResendKeepsOutbox ==
  /\ task.at = "flush"
  /\ queued' = outbox
  /\ task' = [Idle EXCEPT !.at = "resend"]
  /\ UNCHANGED <<setup, clock, connected, polling, storeVars, pending, outbox,
                 processVars, histVars>>

(* resend(): snapshot the outbox and empty it, in memory only. *)
StartResend ==
  /\ task.at = "flush"
  /\ queued' = outbox
  /\ outbox' = <<>>
  /\ task' = [Idle EXCEPT !.at = "resend"]
  /\ UNCHANGED <<setup, clock, connected, polling, storeVars, pending, processVars,
                 histVars>>

(* One turn of resend()'s loop: keep what is not due, drop what is out of  *)
(* attempts, otherwise send, and keep what the socket does not take.       *)
ResendNext ==
  \E taken \in BOOLEAN :
    LET e     == Head(queued)
        due   == e.notBefore <= clock
        spent == e.attempts >= MaxAttempts
        goes  == due /\ ~spent /\ connected /\ taken
    IN
    /\ task.at = "resend" /\ queued # <<>>
    /\ queued' = Tail(queued)
    /\ outbox' = IF goes \/ (due /\ spent) THEN outbox ELSE Append(outbox, e)
    /\ discarded' = IF due /\ spent THEN discarded \cup {e.tok} ELSE discarded
    /\ IF goes
       THEN /\ Sent(e.tok)
            /\ pending' = PutEntry(pending, [e EXCEPT !.deferred = FALSE],
                                   SentCapacity)
       ELSE UNCHANGED <<pending, fate, repeats>>
    /\ UNCHANGED <<setup, clock, connected, polling, task, storeVars, processVars,
                   interrupted, presented>>

(* The end of resend(): one write, of whatever is left. *)
ResendDone ==
  /\ task.at = "resend" /\ queued = <<>>
  /\ saved' = outbox
  /\ task' = Idle
  /\ UNCHANGED <<seen, cursor, sentKeys>>
  /\ UNCHANGED <<setup, clock, connected, polling, queued, pending, outbox,
                 processVars, histVars>>

-----------------------------------------------------------------------------
(* onAck: the relay answers a frame of this connection.  resolve() looks   *)
(* in the outbox first, then in the pending map.                           *)

Known(t)   == t \in ToSet(sentKeys)
Live(t)    == Holds(outbox, t) \/ Holds(pending, t)
Resolve(t) == IF Holds(outbox, t) THEN outbox[IndexOf(outbox, t)]
                                  ELSE pending[IndexOf(pending, t)]

AckStep(t, verdict) ==
  /\ task.at = "idle" /\ connected
  /\ fate[t] = "unanswered"
  /\ fate' = [fate EXCEPT ![t] = verdict]
  /\ UNCHANGED <<setup, clock, connected, polling, task, queued, seen, cursor,
                 sentKeys, processVars, repeats, interrupted, presented>>

(* upsert(): replace the queued copy, move it to the back, keep a pending  *)
(* copy.                                                                   *)
Upsert(e) ==
  /\ Enqueue(RemoveToken(outbox, e.tok), e)
  /\ pending' = PutEntry(pending, e, SentCapacity)

Forget(t) ==
  /\ outbox' = RemoveToken(outbox, t)
  /\ saved' = IF Holds(outbox, t) THEN outbox' ELSE saved
  /\ UNCHANGED <<pending, discarded>>

AckAccepted(t) ==
  /\ AckStep(t, "accepted")
  /\ IF Known(t) THEN Forget(t)
     ELSE UNCHANGED <<outbox, saved, pending, discarded>>

(* rate_limited: deferred by the ceiling of the backoff in force, and not  *)
(* a strike.                                                               *)
AckRateLimited(t) ==
  \E delay \in Deferrals :
    /\ clock + delay <= MaxClock
    /\ Known(t) /\ Live(t)
    /\ AckStep(t, "rejected")
    /\ Upsert([Resolve(t) EXCEPT !.notBefore = clock + delay,
                                 !.deferred = TRUE])

(* upstream_forward_failed: a strike; the last one drops the report. *)
AckUpstreamFailed(t) ==
  /\ Known(t) /\ Live(t)
  /\ LET attempts == Resolve(t).attempts + 1 IN
     \/ /\ attempts < MaxAttempts
        /\ AckStep(t, "rejected")
        /\ Upsert([Resolve(t) EXCEPT !.attempts = attempts])
     \/ /\ attempts >= MaxAttempts
        /\ AckStep(t, "refused")
        /\ Forget(t)

(* unsupported_status: permanent. *)
AckUnsupported(t) ==
  /\ Known(t) /\ Live(t)
  /\ AckStep(t, "refused")
  /\ Forget(t)

(* Any other error, or a token the tracker holds no entry for: log only. *)
AckOtherError(t) ==
  /\ AckStep(t, "refused")
  /\ UNCHANGED <<outbox, saved, pending, discarded>>

OnAck(t) ==
  \/ AckAccepted(t)
  \/ AckRateLimited(t)
  \/ AckUpstreamFailed(t)
  \/ AckUnsupported(t)
  \/ AckOtherError(t)

-----------------------------------------------------------------------------
LoseUnanswered ==
  fate' = [t \in Tokens |->
             IF fate[t] = "unanswered" THEN "lost" ELSE fate[t]]

(* handleDisconnect, handleStale and stop, as far as reports see them. *)
Disconnect ==
  /\ task.at = "idle" /\ connected
  /\ connected' = FALSE
  /\ polling' = FALSE
  /\ LoseUnanswered
  /\ UNCHANGED <<setup, clock, task, queued, storeVars, pending, outbox, processVars,
                 repeats, discarded, interrupted, presented>>

(* The FCM thread, at any point of a task: SeenSet.add decides whether it  *)
(* presents.                                                               *)
FcmMessage(m) ==
  /\ seen' = AddKey(seen, m, SeenCapacity)
  /\ IF m \in ToSet(seen) THEN UNCHANGED presented ELSE Present(m)
  /\ UNCHANGED <<cursor, sentKeys, saved>>
  /\ UNCHANGED <<setup, clock, connected, polling, task, queued, pending, outbox,
                 processVars, fate, repeats, discarded, interrupted>>

(* SharedPreferences writes an apply() behind the caller's back.  Only a   *)
(* process death still to come will read the file.                         *)
WriteBack ==
  /\ crashes < MaxCrashes
  /\ disk # Prefs
  /\ disk' = Prefs
  /\ UNCHANGED <<setup, clock, connected, polling, task, queued, storeVars, pending,
                 outbox, crashes, lostWrite, histVars>>

(* What a new process reads from the file: SeenSet and ReportTracker. *)
LoadNothing == <<>>   (* mutant of the three below *)

LoadedSeen     == disk.seen
LoadedSentKeys == disk.sentKeys
LoadedOutbox   == disk.outbox

(* The process dies and is started again over the preferences file. *)
Crash ==
  /\ crashes < MaxCrashes
  /\ crashes' = crashes + 1
  /\ lostWrite' = (lostWrite \/ disk # Prefs)
  /\ connected' = FALSE
  /\ polling' = FALSE
  /\ task' = Idle
  /\ queued' = <<>>
  /\ seen' = LoadedSeen
  /\ cursor' = disk.cursor
  /\ sentKeys' = LoadedSentKeys
  /\ pending' = <<>>
  /\ outbox' = LoadedOutbox
  /\ saved' = LoadedOutbox
  /\ LoseUnanswered
  /\ interrupted' = IF task.at = "hand" THEN interrupted \cup {Token(task)}
                    ELSE interrupted
  /\ UNCHANGED <<setup, clock, disk, repeats, discarded, presented>>

Tick ==
  /\ clock < MaxClock
  /\ clock' = clock + 1
  /\ UNCHANGED <<setup, connected, polling, task, queued, storeVars, pending,
                 outbox, processVars, histVars>>

TaskStep ==
  \/ AdvanceLastSeen
  \/ Issue
  \/ HandToSocket
  \/ HandToOutbox
  \/ PresentMessage
  \/ StartResend
  \/ ResendNext
  \/ ResendDone

Next ==
  \/ TaskStep
  \/ OnHelloAck
  \/ PollRefused
  \/ PollRetry
  \/ Disconnect
  \/ WriteBack
  \/ Crash
  \/ Tick
  \/ \E m \in Messages : OnMessage(m)
  \/ \E m \in setup.undecodable : OnPayloadDecodeFailure(m)
  \/ \E m \in FcmMessages : FcmMessage(m)
  \/ \E m \in Messages, s \in setup.hostStatuses : ReportStatus(m, s)
  \/ \E t \in Tokens : OnAck(t)

Spec == Init /\ [][Next]_vars

(* The scheduler runs every task to its end; a lost connection is redialled *)
(* and a refused Poll is followed by the transport's own onFailure or       *)
(* onClosed; the poll timer fires as long as it is armed; time passes; and  *)
(* a socket asked again and again to take a report takes it once.           *)
Takes(t) == /\ queued # <<>> /\ Head(queued).tok = t
            /\ ResendNext
            /\ fate'[t] = "unanswered"

Fairness ==
  /\ WF_vars(TaskStep)
  /\ SF_vars(OnHelloAck)
  /\ SF_vars(~polling /\ Disconnect)
  /\ SF_vars(PollRetry)
  /\ WF_vars(Tick)
  /\ \A t \in Tokens : SF_vars(Takes(t))

FairSpec == Spec /\ Fairness

-----------------------------------------------------------------------------
(* No two entries are for one token. *)
Keyed(s) == \A i, j \in DOMAIN s : s[i].tok = s[j].tok => i = j

(* Issued once (SB-30): a frame goes to the relay for a token only when it *)
(* is the first or the last one was rejected retryably; the one exception  *)
(* is a frame a process death left unanswered in the middle of resend().   *)
OnlyCrashesRepeat ==
  ~lostWrite => \A r \in repeats : r.after = "lost" /\ crashes > 0

(* The queue and the wire never hold the same report: what waits in the    *)
(* outbox has not been sent, or was rejected, and is waiting only once,    *)
(* within its attempt budget and under a sent-set key (SB-30, SB-33).      *)
Waiting == ToSet(outbox) \cup ToSet(queued)

QueueAndWireApart ==
  /\ Keyed(outbox \o queued)
  /\ \A e \in Waiting :
       /\ e.tok \in ToSet(sentKeys)
       /\ e.attempts < MaxAttempts
       /\ fate[e.tok] \in {"unsent", "rejected"} \/ crashes > 0

(* No report is lost silently (ReportTracker.resend, SB-35): one that was  *)
(* issued and not handed to a socket, or was rejected retryably, is still  *)
(* queued, was dropped with a log line, or is the one a process death      *)
(* interrupted between the sent-set write and the outbox write.            *)
NothingVanishes ==
  ~lostWrite =>
    \A t \in ToSet(sentKeys) :
      fate[t] \in {"unsent", "rejected"} =>
        \/ \E e \in Waiting : e.tok = t
        \/ t \in discarded \cup interrupted
        \/ task.at = "hand" /\ Token(task) = t

(* One presentation per message over both channels (SB-64), as long as the *)
(* seen window holds every message and a process death loses no write.     *)
PresentedOnce ==
  ~lostWrite => \A m \in Messages : presented[m] <= 1

(* The replay cursor never names a message the seen set does not hold      *)
(* (SB-29): the relay would not offer it again, and the dedupe would not   *)
(* recognise it.                                                           *)
CursorBehindSeen ==
  /\ cursor.msg \in ToSet(seen) \cup {NoMessage}
  /\ disk.cursor.msg \in ToSet(disk.seen) \cup {NoMessage}

(* A report that waits in the outbox leaves it: it is sent, or the relay   *)
(* has taken it, or a full outbox drops it (SB-35).                        *)
OutboxDrains ==
  \A t \in Tokens :
    (\E e \in Waiting : e.tok = t) ~> ~(\E e \in Waiting : e.tok = t)
=============================================================================
