--------------------------- MODULE IosSocketClient ---------------------------
(***************************************************************************)
(* The iOS socket: SinchPushSocketFacade with the relay switch and the     *)
(* lifecycle observer, SocketClient with its one transport, and            *)
(* ReportTracker.                                                          *)
(*                                                                         *)
(* The facade is called on a thread of the bridge, the observer on the     *)
(* main queue, the transport on a queue of its own; all they do to the     *)
(* client they do by scheduler.perform, so that the client and the tracker *)
(* change one whole task at a time.  `tasks' is what the scheduler has     *)
(* still to run.                                                           *)
(*                                                                         *)
(* A socket that is closed gets no further callbacks, but those that are   *)
(* already in `tasks' are run; open() moves the generation on, after which *)
(* they do nothing.                                                        *)
(*                                                                         *)
(* Backoff and its count are abstracted to a timer that fires in time, the *)
(* cursor, the pending message store and the notification are left out: a  *)
(* message frame is the DELIVERED report it leads to, new or a duplicate.  *)
(***************************************************************************)
EXTENDS Naturals, Sequences, SequencesExt, FiniteSets

CONSTANTS
  Relayed,      (* DELIVERED reports, each of a message of the relay       *)
  Hosted,       (* reports the host makes                                  *)
  NoReport,
  IosSetups,    (* what one behaviour is about, see Budget                 *)
  SentLimit,    (* ReportTracker.sentSetCapacity                           *)
  MaxRetries,   (* ReportTracker.maxForwardFailureRetries                  *)
  MaxTasks      (* bound on the tasks waiting in the scheduler             *)

Reports == Relayed \cup Hosted

AckErrors == {"rate_limited", "upstream_forward_failed", "unsupported_status", "other"}
CloseReasons == {"stale", "unauthorized", "bgResumed", "pressure"}

(* What JS, the relay and the platform may do, how often, and              *)
(* ReportTracker.outboxCapacity.                                           *)
Kinds  == {"start", "token", "stop", "switch", "report", "offer", "refuse", "end", "death"}
Budget == [spend : [Kinds -> Nat], outbox : Nat \ {0},
           refusals : SUBSET AckErrors, closes : SUBSET CloseReasons]

ASSUME IosAssumption ==
  /\ Relayed \cap Hosted = {} /\ NoReport \notin Reports
  /\ IosSetups \subseteq Budget
  /\ SentLimit \in Nat \ {0} /\ MaxRetries \in Nat /\ MaxTasks \in Nat \ {0}

VARIABLES
  budget,     (* what may still happen, drawn from IosSetups               *)
  facade,     (* relay: the persisted switch; made: there is a client;
                 config: there is a currentConfiguration; observing: the
                 lifecycle observer; away: the app is in the background    *)
  ios,        (* the client: configuration # nil, stopped, suspended, the
                 published status, its three timers: `deferral' is the
                 report it waits for                                       *)
  stage,      (* its transport: none, or how far the connection is         *)
  tasks,      (* scheduler: work that is queued, oldest first              *)
  pending,    (* ReportTracker.pending, oldest first                       *)
  inFlight,
  sentKeys,   (* oldest first                                              *)
  wire,       (* reports sent on this socket and not answered              *)
  heard       (* history: the reports the client has been told were
                 accepted, but for those whose key was evicted, and the one
                 a death caught between the two saves                      *)

reportVars == <<pending, inFlight, sentKeys, wire, heard>>
iosVars == <<budget, facade, ios, stage, tasks, reportVars>>

NewFacade(relay) ==
  [relay |-> relay, made |-> FALSE, config |-> FALSE, observing |-> FALSE,
   away |-> FALSE]
NewClient ==
  [configured |-> FALSE, stopped |-> FALSE, suspended |-> FALSE, status |-> "idle",
   poll |-> FALSE, reconnect |-> FALSE, deferral |-> NoReport]

IosInit ==
  /\ budget \in IosSetups
  /\ facade = NewFacade(TRUE)
  /\ ios = NewClient
  /\ stage = "none"
  /\ tasks = <<>>
  /\ pending = <<>>
  /\ inFlight = {}
  /\ sentKeys = <<>>
  /\ wire = {}
  /\ heard = {}

Spend(kind) ==
  /\ budget.spend[kind] > 0
  /\ budget' = [budget EXCEPT !.spend[kind] = @ - 1]

(* A task: what it does, the report it is about, and what the relay said. *)
Work(do, report, said) == [do |-> do, report |-> report, said |-> said]
Plain(do) == Work(do, NoReport, "none")
Callbacks == {"open", "helloAck", "message", "ack", "close", "gone"}

Perform(task) ==
  /\ Len(tasks) < MaxTasks
  /\ tasks' = Append(tasks, task)

(* The scheduler takes its oldest task. *)
Taken(do) == tasks # <<>> /\ Head(tasks).do = do
TheTask   == Head(tasks)
Rest      == Tail(tasks)

-----------------------------------------------------------------------------
(* SinchPushSocketFacade and the lifecycle observer.                       *)

Start ==
  /\ facade.relay
  /\ Spend("start")
  /\ facade' = [facade EXCEPT !.made = TRUE, !.config = TRUE, !.observing = TRUE]
  /\ Perform(Plain("configure"))
  /\ UNCHANGED <<ios, stage, reportVars>>

(* A new token dials again, whether or not the lifecycle is observed. *)
UpdateToken ==
  /\ facade.relay /\ facade.config /\ facade.made
  /\ Spend("token")
  /\ Perform(Plain("configure"))
  /\ UNCHANGED <<facade, ios, stage, reportVars>>

(* stop(): a client there is none of is not stopped. *)
StopTo(relay) ==
  /\ facade' = [facade EXCEPT !.relay = relay, !.observing = FALSE]
  /\ IF facade.made THEN Perform(Plain("stop")) ELSE UNCHANGED tasks
  /\ UNCHANGED <<ios, stage, reportVars>>

Stop == Spend("stop") /\ StopTo(facade.relay)

SwitchOff == Spend("switch") /\ StopTo(FALSE)

SwitchOn ==
  /\ Spend("switch")
  /\ facade' = [facade EXCEPT !.relay = TRUE]
  /\ UNCHANGED <<ios, stage, tasks, reportVars>>

HostReport(r) ==
  /\ Spend("report")
  /\ facade' = [facade EXCEPT !.made = TRUE]
  /\ Perform(Work("report", r, "none"))
  /\ UNCHANGED <<ios, stage, reportVars>>

(* didEnterBackground, willEnterForeground and didBecomeActive. *)
Moves(away, do) ==
  /\ facade.away # away
  /\ facade' = [facade EXCEPT !.away = away]
  /\ IF facade.observing THEN Perform(Plain(do)) ELSE UNCHANGED tasks
  /\ UNCHANGED <<budget, ios, stage, reportVars>>

Background == Moves(TRUE, "suspend")
Foreground == Moves(FALSE, "resume")

-----------------------------------------------------------------------------
(* ReportTracker.                                                          *)

Entry(r)   == [report |-> r, attempts |-> 0, defer |-> "none"]
Queued(p)  == {p[i].report : i \in DOMAIN p}
Index(r)   == CHOOSE i \in DOMAIN pending : pending[i].report = r
EntryOf(r) == pending[Index(r)]
Without(r) == RemoveAt(pending, Index(r))
With(entry) == [pending EXCEPT ![Index(entry.report)] = entry]

(* queue(): once per report; the oldest one goes when the outbox is full. *)
AfterQueue(r) ==
  IF r \in ToSet(sentKeys) \cup Queued(pending) THEN pending
  ELSE LET longer == Append(pending, Entry(r))
       IN  IF Len(longer) > budget.outbox THEN Tail(longer) ELSE longer

(* reportsToSend(): a deferred entry waits until its deadline is over, and *)
(* a poll tick takes those that were refused and not deferred.             *)
ToSend(p, mode) ==
  {e.report : e \in {e \in ToSet(p) :
     /\ e.report \notin inFlight
     /\ CASE mode = "all"          -> e.defer # "running"
          [] mode = "deferredOnly" -> e.defer = "over"
          [] mode = "retryOnly"    -> e.defer = "none" /\ e.attempts > 0}}

(* flushReports(): what is sent after the relay's Close frame, or when the *)
(* connection is gone, does not arrive.                                    *)
IsOpen == stage \in {"dialled", "greeted", "session", "closing"}

Flush(status, p, mode) ==
  LET out == IF status = "connected" /\ IsOpen THEN ToSend(p, mode) ELSE {}
  IN  /\ inFlight' = inFlight \cup out
      /\ wire' = IF stage = "session" THEN wire \cup out ELSE wire

(* armDeferralTimer(): for the earliest of the deadlines that are not over. *)
Deferred(p) == {e.report : e \in {e \in ToSet(p) : e.defer = "running"}}
Earliest(p) == IF Deferred(p) = {} THEN {NoReport} ELSE Deferred(p)

-----------------------------------------------------------------------------
(* SocketClient: the socket and its timers.                                *)

Cleared(c) == [c EXCEPT !.poll = FALSE, !.reconnect = FALSE, !.deferral = NoReport]
Running(c) == c.configured /\ ~c.stopped /\ ~c.suspended

CloseSocket(rest) ==
  /\ stage' = "none"
  /\ wire' = {}
  /\ tasks' = rest

(* The generation moves on: a callback of an earlier socket does nothing. *)
Outdated(rest) ==
  [i \in DOMAIN rest |-> IF rest[i].do \in Callbacks THEN Plain("nothing") ELSE rest[i]]

(* open() *)
OpenSocket(c, rest) ==
  IF Running(c)
  THEN /\ ios' = [c EXCEPT !.status = "connecting", !.reconnect = FALSE]
       /\ stage' = "dialled"
       /\ wire' = {}
       /\ tasks' = Append(Outdated(rest), Plain("open"))
  ELSE ios' = c /\ tasks' = rest /\ UNCHANGED <<stage, wire>>

(* Mutant of Disconnect: a stopped client reconnects as well. *)
DisconnectAnyway(rest) ==
  /\ CloseSocket(rest)
  /\ inFlight' = {}
  /\ ios' = [Cleared(ios) EXCEPT !.status = "connecting", !.reconnect = TRUE]

(* handleDisconnect() *)
Disconnect(rest) ==
  /\ CloseSocket(rest)
  /\ inFlight' = {}
  /\ ios' = IF ios.stopped \/ ios.suspended THEN Cleared(ios)
            ELSE [Cleared(ios) EXCEPT !.status = "connecting", !.reconnect = TRUE]

-----------------------------------------------------------------------------
(* SocketClient: the tasks.                                                *)

UpdateConfiguration ==
  /\ Taken("configure")
  /\ OpenSocket([Cleared(ios) EXCEPT !.configured = TRUE, !.stopped = FALSE, !.suspended = FALSE],
          Rest)
  /\ UNCHANGED <<budget, facade, pending, inFlight, sentKeys, heard>>

StopNow ==
  /\ Taken("stop")
  /\ CloseSocket(Rest)
  /\ ios' = [Cleared(ios) EXCEPT !.stopped = TRUE, !.suspended = FALSE, !.status = "stopped"]
  /\ UNCHANGED <<budget, facade, pending, inFlight, sentKeys, heard>>

(* Mutant of Suspend: what was in flight stays so. *)
SuspendInFlight ==
  /\ Taken("suspend")
  /\ IF ios.stopped \/ ios.suspended
     THEN tasks' = Rest /\ UNCHANGED <<ios, stage, wire>>
     ELSE /\ CloseSocket(Rest)
          /\ ios' = [Cleared(ios) EXCEPT !.suspended = TRUE, !.status = "idle"]
  /\ UNCHANGED <<budget, facade, pending, inFlight, sentKeys, heard>>

(* suspend(), and connectionClosed() *)
Suspend ==
  /\ Taken("suspend")
  /\ IF ios.stopped \/ ios.suspended
     THEN tasks' = Rest /\ UNCHANGED <<ios, stage, wire, inFlight>>
     ELSE /\ CloseSocket(Rest)
          /\ inFlight' = {}
          /\ ios' = [Cleared(ios) EXCEPT !.suspended = TRUE, !.status = "idle"]
  /\ UNCHANGED <<budget, facade, pending, sentKeys, heard>>

ResumeClient ==
  /\ Taken("resume")
  /\ IF ios.stopped \/ ~ios.suspended
     THEN tasks' = Rest /\ UNCHANGED <<ios, stage, wire>>
     ELSE OpenSocket([ios EXCEPT !.suspended = FALSE], Rest)
  /\ UNCHANGED <<budget, facade, pending, inFlight, sentKeys, heard>>

(* report(), and a message, new or not: both queue and flush. *)
QueueReport ==
  /\ Taken("report") \/ Taken("message")
  /\ pending' = AfterQueue(TheTask.report)
  /\ Flush(ios.status, pending', "all")
  /\ tasks' = Rest
  /\ UNCHANGED <<budget, facade, ios, stage, sentKeys, heard>>

(* handleOpen(): Hello, if there is still a socket. *)
HandleOpen ==
  /\ Taken("open")
  /\ stage' = IF stage = "dialled" THEN "greeted" ELSE stage
  /\ tasks' = Rest
  /\ UNCHANGED <<budget, facade, ios, reportVars>>

(* handleHelloAck(), with the messages it carries. *)
HandleHelloAck ==
  /\ Taken("helloAck")
  /\ pending' = IF TheTask.report = NoReport THEN pending ELSE AfterQueue(TheTask.report)
  /\ Flush("connected", pending', "all")
  /\ \E r \in Earliest(pending') :
       ios' = [ios EXCEPT !.status = "connected", !.poll = TRUE, !.deferral = r]
  /\ tasks' = Rest
  /\ UNCHANGED <<budget, facade, stage, sentKeys, heard>>

(* The sent-set with one more key, the oldest evicted when it is full. *)
SentWith(r) ==
  IF r \in ToSet(sentKeys) THEN sentKeys
  ELSE LET longer == Append(sentKeys, r)
       IN  IF Len(longer) > SentLimit THEN Tail(longer) ELSE longer
Evicted(r) == ToSet(sentKeys) \ ToSet(SentWith(r))

(* Mutant of Accepted: a sent-set that does not learn. *)
AcceptedUnsaved(r) ==
  /\ heard' = heard \cup {r}
  /\ pending' = Without(r)
  /\ inFlight' = inFlight \ {r}
  /\ UNCHANGED sentKeys

Accepted(r) ==
  /\ sentKeys' = SentWith(r)
  /\ heard' = (heard \cup {r}) \ Evicted(r)
  /\ pending' = Without(r)
  /\ inFlight' = inFlight \ {r}

(* applyRejection(); an error without a policy changes nothing. *)
ApplyRejection(r, error) ==
  LET e == EntryOf(r)
      again == [e EXCEPT !.attempts = IF @ < MaxRetries THEN @ + 1 ELSE @]
      spent == e.attempts >= MaxRetries
  IN  /\ pending' = CASE error = "rate_limited" -> With([again EXCEPT !.defer = "running"])
                      [] error = "upstream_forward_failed" /\ ~spent ->
                           With([again EXCEPT !.defer = "none"])
                      [] error = "other" -> pending
                      [] OTHER -> Without(r)
      /\ inFlight' = IF error = "other" THEN inFlight ELSE inFlight \ {r}
      /\ UNCHANGED <<sentKeys, heard>>

(* The Ack of a report that has left the outbox changes nothing. *)
HandleAck ==
  /\ Taken("ack")
  /\ CASE TheTask.report \notin Queued(pending) ->
            UNCHANGED <<pending, inFlight, sentKeys, heard>>
       [] TheTask.report \in Queued(pending) /\ TheTask.said = "accepted" ->
            Accepted(TheTask.report)
       [] OTHER -> ApplyRejection(TheTask.report, TheTask.said)
  /\ \E r \in Earliest(pending') : ios' = [ios EXCEPT !.deferral = r]
  /\ tasks' = Rest
  /\ UNCHANGED <<budget, facade, stage, wire>>

Closed(reason) == Taken("close") /\ TheTask.said = reason

(* handleStale(): at once, with a fresh Hello. *)
HandleStale ==
  /\ Closed("stale")
  /\ IF Running(ios) THEN OpenSocket(Cleared(ios), Rest)
                     ELSE CloseSocket(Rest) /\ ios' = Cleared(ios)
  /\ UNCHANGED <<budget, facade, pending, inFlight, sentKeys, heard>>

StopTerminally(status) ==
  /\ CloseSocket(Rest)
  /\ inFlight' = {}
  /\ ios' = [Cleared(ios) EXCEPT !.stopped = TRUE, !.status = status]

HandleTerminal ==
  /\ \/ Closed("unauthorized") /\ StopTerminally("authRequired")
     \/ Closed("bgResumed") /\ StopTerminally("replaced")
  /\ UNCHANGED <<budget, facade, pending, sentKeys, heard>>

(* The other reasons, and the end of the connection itself. *)
HandleDisconnect ==
  /\ Closed("pressure") \/ Taken("gone")
  /\ Disconnect(Rest)
  /\ UNCHANGED <<budget, facade, pending, sentKeys, heard>>

Ignored ==
  /\ Taken("nothing")
  /\ tasks' = Rest
  /\ UNCHANGED <<budget, facade, ios, stage, reportVars>>

RunTask ==
  \/ UpdateConfiguration \/ StopNow \/ Suspend \/ ResumeClient \/ QueueReport
  \/ HandleOpen \/ HandleHelloAck \/ HandleAck
  \/ HandleStale \/ HandleTerminal \/ HandleDisconnect \/ Ignored

-----------------------------------------------------------------------------
(* SocketClient: the timers.                                               *)

ReconnectFires ==
  /\ ios.reconnect
  /\ OpenSocket(ios, tasks)
  /\ UNCHANGED <<budget, facade, pending, inFlight, sentKeys, heard>>

(* A poll tick, if it has something to send. *)
PollFires ==
  /\ ios.poll
  /\ ios.status = "connected" /\ IsOpen /\ ToSend(pending, "retryOnly") # {}
  /\ Flush(ios.status, pending, "retryOnly")
  /\ UNCHANGED <<budget, facade, ios, stage, tasks, pending, sentKeys, heard>>

DeferralFires ==
  /\ ios.deferral # NoReport
  /\ ios.deferral \notin Deferred(pending)
  /\ Flush(ios.status, pending, "deferredOnly")
  /\ \E r \in Earliest(pending) : ios' = [ios EXCEPT !.deferral = r]
  /\ UNCHANGED <<budget, facade, stage, tasks, pending, sentKeys, heard>>

(* The deadline of `r' is over; the one the timer was set for comes first. *)
Expire(r) ==
  /\ r \in Deferred(pending)
  /\ ios.deferral \in Deferred(pending) => ios.deferral = r
  /\ pending' = With([EntryOf(r) EXCEPT !.defer = "over"])
  /\ UNCHANGED <<budget, facade, ios, stage, tasks, inFlight, sentKeys, wire, heard>>

-----------------------------------------------------------------------------
(* The relay, the network and the platform.                                *)

(* The socket calls back. *)
Calls(from, to, task) ==
  /\ stage \in from
  /\ stage' = to
  /\ Perform(task)
  /\ UNCHANGED <<facade, ios, pending, inFlight, sentKeys, heard>>

Greets(r) ==
  /\ IF r = NoReport THEN UNCHANGED budget ELSE Spend("offer")
  /\ Calls({"greeted"}, "session", Work("helloAck", r, "none"))
  /\ UNCHANGED wire

Offers(r) ==
  /\ Spend("offer")
  /\ Calls({"session"}, "session", Work("message", r, "none"))
  /\ UNCHANGED wire

Answers(r, said) ==
  /\ r \in wire
  /\ IF said = "accepted" THEN UNCHANGED budget
                          ELSE said \in budget.refusals /\ Spend("refuse")
  /\ Calls({"session"}, "session", Work("ack", r, said))
  /\ wire' = wire \ {r}

Closes(reason) ==
  /\ reason \in budget.closes
  /\ Spend("end")
  /\ Calls({"greeted", "session"}, "closing", Work("close", NoReport, reason))
  /\ wire' = {}

(* The connection ends, after a Close frame or without one. *)
Ends ==
  /\ IF stage = "closing" THEN UNCHANGED budget ELSE Spend("end")
  /\ Calls({"dialled", "greeted", "session", "closing"}, "ended", Plain("gone"))
  /\ wire' = {}

(* The process dies, perhaps between the two saves of an accepted Ack: the *)
(* key is on disk, and the report still in the outbox.                     *)
Dies ==
  /\ Spend("death")
  /\ \/ UNCHANGED <<sentKeys, heard>>
     \/ /\ Taken("ack") /\ TheTask.said = "accepted"
        /\ TheTask.report \in Queued(pending)
        /\ sentKeys' = SentWith(TheTask.report)
        /\ heard' = heard \ (Evicted(TheTask.report) \cup {TheTask.report})
  /\ facade' = NewFacade(facade.relay)
  /\ ios' = NewClient
  /\ stage' = "none"
  /\ tasks' = <<>>
  /\ inFlight' = {}
  /\ wire' = {}
  /\ UNCHANGED pending

-----------------------------------------------------------------------------
Host == Start \/ UpdateToken \/ Stop \/ SwitchOff \/ SwitchOn \/ Background \/ Foreground
          \/ \E r \in Hosted : HostReport(r)

Timers == ReconnectFires \/ PollFires \/ DeferralFires \/ \E r \in Reports : Expire(r)

Relay ==
  \/ \E r \in Relayed \cup {NoReport} : Greets(r)
  \/ \E r \in Relayed : Offers(r)
  \/ \E r \in Reports, said \in AckErrors \cup {"accepted"} : Answers(r, said)
  \/ \E reason \in CloseReasons : Closes(reason)
  \/ Ends

IosNext == Host \/ RunTask \/ Timers \/ Relay \/ Dies

(* What the client has queued or set a timer for happens; nothing is       *)
(* assumed of JS, of the relay or of the platform.                         *)
IosFairness ==
  /\ WF_iosVars(RunTask) /\ WF_iosVars(ReconnectFires)
  /\ WF_iosVars(PollFires) /\ WF_iosVars(DeferralFires)
  /\ WF_iosVars(\E r \in Reports : Expire(r))

IosSpec == IosInit /\ [][IosNext]_iosVars /\ IosFairness

-----------------------------------------------------------------------------
(* A client that runs is driven by one thing, its socket or the reconnect  *)
(* timer, and one that does not by nothing (SB-51, SB-53), whatever        *)
(* callbacks were still queued when its socket was closed; and with the    *)
(* relay off it does not run, once the scheduler has caught up (SB-66).    *)
DrivenByOne ==
  /\ IF Running(ios) THEN (stage # "none") # ios.reconnect
                     ELSE stage = "none" /\ ~ios.reconnect
  /\ ~facade.relay /\ (\A i \in DOMAIN tasks : tasks[i].do \notin {"configure", "stop"})
       => ~Running(ios)

(* A report is reported once (SB-30): it is not queued again after the     *)
(* client was told that it was accepted, nor sent a second time on a       *)
(* connection that may still answer.  But for a key that was evicted and a *)
(* process that died between the two saves of an Ack.                      *)
ReportedOnce == heard \cap Queued(pending) = {} /\ wire \subseteq inFlight

(* A queued report leaves the outbox (SB-35), whatever was refused, closed *)
(* or interrupted, if the app is used: it keeps going to the background    *)
(* with its lifecycle observed (updateToken() after stop() dials without   *)
(* an observer), and coming back for long enough to get a session and its  *)
(* answers.                                                                *)
Answered ==
  ~facade.away /\ stage = "session" /\ wire = {} /\ tasks = <<>>
AppIsUsed == []<>(facade.away /\ facade.observing) /\ []<>Answered

ReportsLeave ==
  AppIsUsed => \A r \in Reports : []<>(r \notin Queued(pending))

(* A report in flight "goes back to queued when the connection dies,       *)
(* because an Ack for a frame sent on a dead socket can never arrive"      *)
(* (ReportTracker.swift).                                                  *)
DeadSocketHoldsNothing == stage \in {"none", "dialled"} => inFlight = {}
=============================================================================
