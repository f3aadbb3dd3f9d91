--------------------------- MODULE SocketSession ---------------------------
(***************************************************************************)
(* The connection lifecycle of the Android SinchPushSocketClient: dial,    *)
(* handshake, the close-reason matrix, reconnect backoff, stop.            *)
(*                                                                         *)
(* The client's state is one record and each of its private functions an   *)
(* operator from record to record, composed in the order the code calls    *)
(* them; an action is one task of the scheduler thread, run whole.  Tasks  *)
(* come from three sides: the host (start, stop), the callbacks of every   *)
(* socket ever dialled, which hop onto the scheduler tagged with the epoch *)
(* of their dial, and the reconnect timer.  Between a callback and its     *)
(* task, anything queued earlier runs, so a task may find its socket       *)
(* retired.                                                                *)
(***************************************************************************)
EXTENDS Integers, Sequences, FiniteSets

CONSTANTS
  MaxEpoch,   (* bound on the dial counter: (MaxEpoch + 1) \div 2 dials    *)
  MaxInbox    (* bound on the scheduler's queue                            *)

ASSUME BoundsAssumption == MaxEpoch \in Nat \ {0} /\ MaxInbox \in Nat \ {0}

NoSocket == 0
Epochs   == 1 .. MaxEpoch

Works    == {"message", "accepted"}          (* frames that are work (SB-46) *)
Pressure == {"shed", "other"}                (* POOL_FULL; SHUTDOWN, INTERNAL,
                                                unspecified                  *)
Reasons  == {"stale", "unauthorized", "bg_resumed"} \cup Pressure
Frames   == {"helloAck", "rejected"} \cup Works \cup Reasons
Callbacks == {"open", "gone"} \cup Frames

Task == [kind : {"start", "stop"} \cup Callbacks, epoch : Nat]

Finals   == {"stopped", "auth_required", "replaced"}
Statuses == {"idle", "connecting", "reconnecting", "connected"} \cup Finals

(* One socket as the transport and the relay see it. *)
Stages == {"none", "dialing", "open", "greeted", "session", "refused", "gone"}

VARIABLES
  client,   (* the fields of SinchPushSocketClient, and the sockets it opened
               and did not close                                           *)
  inbox,    (* tasks handed to scheduler.execute, oldest first             *)
  net,      (* stage of every socket, by epoch                             *)
  host,     (* what the owner has asked so far                             *)
  worked,   (* history: this session did real work                         *)
  denials   (* history: handshakes in a row that were shed without work    *)

vars == <<client, inbox, net, host, worked, denials>>

ClientState ==
  [stopped : BOOLEAN, socket : Nat, connected : BOOLEAN, epoch : Nat,
   attempts : Nat, before : Nat, armed : BOOLEAN, polling : BOOLEAN,
   timers : Nat, held : BOOLEAN, status : Statuses, unclosed : SUBSET Epochs]

Init ==
  /\ client = [stopped |-> FALSE, socket |-> NoSocket, connected |-> FALSE,
               epoch |-> 0, attempts |-> 0, before |-> 0, armed |-> FALSE,
               polling |-> FALSE, timers |-> 0, held |-> FALSE,
               status |-> "idle", unclosed |-> {}]
  /\ inbox = <<>>
  /\ net = [e \in Epochs |-> "none"]
  /\ host = "new"
  /\ worked = FALSE
  /\ denials = 0

-----------------------------------------------------------------------------
(* The client's functions. *)

PublishState(c, s) == [c EXCEPT !.status = s]

CancelPoll(c) == [c EXCEPT !.polling = FALSE]

(* Mutants of CancelTimers: the poll survives; the reconnect survives. *)
CancelTimersKeepsPoll(c) ==
  [c EXCEPT !.timers = IF c.held THEN @ - 1 ELSE @, !.held = FALSE]
CancelTimersKeepsReconnect(c) == CancelPoll(c)

(* Both timers; `held' says that reconnectFuture is still pending, `timers' *)
(* counts the reconnects the scheduler has pending.                        *)
CancelTimers(c) ==
  [CancelPoll(c) EXCEPT !.timers = IF c.held THEN @ - 1 ELSE @,
                        !.held = FALSE]

(* Mutant of CloseSocket: the dial stays the current one. *)
CloseSocketKeepsEpoch(c) ==
  [c EXCEPT !.socket = NoSocket, !.connected = FALSE,
            !.unclosed = @ \ {c.socket}]

(* The reference and the epoch go before the socket is closed. *)
CloseSocket(c) ==
  [c EXCEPT !.socket = NoSocket, !.connected = FALSE, !.epoch = @ + 1,
            !.unclosed = @ \ {c.socket}]

(* Mutant of ScheduleReconnect: nothing is scheduled. *)
NoReconnect(c) == c

ScheduleReconnect(c) == [c EXCEPT !.timers = @ + 1, !.held = TRUE]

(* Mutant of Forfeit: a shed keeps the reset of its handshake. *)
NoForfeit(c, shed) == c

(* SB-45: a shed forfeits the reset its handshake armed. *)
Forfeit(c, shed) ==
  IF shed /\ c.armed THEN [c EXCEPT !.armed = FALSE, !.attempts = c.before]
                     ELSE c

HandleDisconnect(c, shed) ==
  LET closed == CloseSocket(CancelTimers([c EXCEPT !.connected = FALSE]))
      f      == Forfeit(closed, shed)
      next   == [f EXCEPT !.attempts = @ + 1]
  IN IF c.stopped THEN PublishState(closed, "stopped")
     ELSE ScheduleReconnect(PublishState(next, "reconnecting"))

(* openSocket(); connect() may throw after the epoch has moved. *)
OpenSocket(c, throws) ==
  LET p == PublishState(c, IF c.attempts = 0 THEN "connecting"
                                             ELSE "reconnecting")
      d == [p EXCEPT !.epoch = @ + 1]
  IN IF c.stopped THEN c
     ELSE IF throws THEN HandleDisconnect(d, FALSE)
     ELSE [d EXCEPT !.socket = d.epoch, !.unclosed = @ \cup {d.epoch}]

StartClient(c, throws) ==
  OpenSocket([c EXCEPT !.stopped = FALSE, !.attempts = 0], throws)

StopClient(c) ==
  PublishState(CloseSocket(CancelTimers([c EXCEPT !.stopped = TRUE])),
               "stopped")

(* handleAuthRequired and handleReplaced. *)
Retire(c, s) ==
  PublishState(CloseSocket(CancelTimers(
    [c EXCEPT !.stopped = TRUE, !.connected = FALSE])), s)

(* Mutant of HandleStale: the stale socket is dropped, not closed. *)
HandleStaleUnclosed(c, throws) ==
  OpenSocket([CancelTimers(c) EXCEPT !.connected = FALSE, !.socket = NoSocket,
                                     !.attempts = 0], throws)

HandleStale(c, throws) ==
  LET closed == CloseSocket(CancelTimers([c EXCEPT !.connected = FALSE]))
  IN IF c.stopped THEN PublishState(closed, "stopped")
     ELSE OpenSocket([closed EXCEPT !.attempts = 0], throws)

HandleClose(c, reason, throws) ==
  CASE reason = "stale"        -> HandleStale(c, throws)
    [] reason = "unauthorized" -> Retire(c, "auth_required")
    [] reason = "bg_resumed"   -> Retire(c, "replaced")
    [] OTHER                   -> HandleDisconnect(c, reason = "shed")

(* Mutant of NoteHelloAck: the attempt that a shed would add is taken off  *)
(* beforehand, also when there has been none.                              *)
NoteHelloAckLess(c) ==
  [c EXCEPT !.before = c.attempts - 1, !.attempts = 0, !.armed = TRUE]

NoteHelloAck(c) ==
  [c EXCEPT !.before = c.attempts, !.attempts = 0, !.armed = TRUE]

NoteSessionWork(c) == [c EXCEPT !.armed = FALSE]

SchedulePoll(c) == [CancelPoll(c) EXCEPT !.polling = TRUE]

OnHelloAck(c) ==
  SchedulePoll(PublishState(NoteHelloAck([c EXCEPT !.connected = TRUE]),
                            "connected"))

CurrentStatus(c) ==
  IF c.stopped THEN "stopped"
  ELSE IF c.connected THEN "connected"
  ELSE IF c.attempts > 0 THEN "reconnecting" ELSE "connecting"

OnAck(c, accepted) ==
  IF accepted THEN NoteSessionWork(c) ELSE PublishState(c, CurrentStatus(c))

-----------------------------------------------------------------------------
(* The owner: start once, stop once, at any time. *)
Room == Len(inbox) < MaxInbox

Post(kind, e) == inbox' = Append(inbox, [kind |-> kind, epoch |-> e])

HostStart ==
  /\ host = "new" /\ Room
  /\ host' = "started"
  /\ Post("start", 0)
  /\ UNCHANGED <<client, net, worked, denials>>

HostStop ==
  /\ host = "started" /\ Room
  /\ host' = "stopping"
  /\ Post("stop", 0)
  /\ UNCHANGED <<client, net, worked, denials>>

(* The transport and the relay, for any socket, also one the client has    *)
(* closed: callbacks in their order, and nothing after onClosed/onFailure. *)
Callback(e, from, to, kind) ==
  /\ net[e] \in from /\ Room
  /\ net' = [net EXCEPT ![e] = to]
  /\ Post(kind, e)
  /\ UNCHANGED <<client, host, worked, denials>>

Alive == {"open", "greeted", "session"}

Opens(e)      == Callback(e, {"dialing"}, "open", "open")
Greets(e)     == Callback(e, {"greeted"}, "session", "helloAck")
Feeds(e, f)   == Callback(e, {"session"}, "session", f)
Refuses(e, r) == /\ r = "stale" => e + 2 <= MaxEpoch
                 /\ Callback(e, Alive, "refused", r)
Drops(e)      == Callback(e, Alive \cup {"dialing", "refused"}, "gone", "gone")

-----------------------------------------------------------------------------
(* The scheduler thread runs the oldest task. *)

Runs(kinds) == inbox # <<>> /\ Head(inbox).kind \in kinds
             /\ inbox' = Tail(inbox)

(* SocketListener.onScheduler: a callback of a retired dial does nothing. *)
Current(kinds) == Runs(kinds) /\ client.epoch = Head(inbox).epoch

RunRetired ==
  /\ Runs(Callbacks)
  /\ client.epoch # Head(inbox).epoch
  /\ UNCHANGED <<client, net, host, worked, denials>>

(* A dial that was not refused by connect() is on its way. *)
Dials == net' = [e \in Epochs |-> IF e = client'.socket /\ net[e] = "none"
                                  THEN "dialing" ELSE net[e]]

RunStart ==
  /\ Runs({"start"})
  /\ \E throws \in BOOLEAN : client' = StartClient(client, throws)
  /\ Dials
  /\ denials' = 0
  /\ UNCHANGED <<host, worked>>

RunStop ==
  /\ Runs({"stop"})
  /\ client' = StopClient(client)
  /\ UNCHANGED <<net, host, worked, denials>>

(* onOpen: Hello, which reaches the relay when the socket still takes it. *)
RunOpen ==
  /\ Current({"open"})
  /\ net' = [net EXCEPT ![client.socket] = IF @ = "open" THEN "greeted" ELSE @]
  /\ UNCHANGED <<client, host, worked, denials>>

RunHelloAck ==
  /\ Current({"helloAck"})
  /\ client' = OnHelloAck(client)
  /\ worked' = FALSE
  /\ UNCHANGED <<net, host, denials>>

RunMessage ==
  /\ Current({"message"})
  /\ client' = NoteSessionWork(client)
  /\ worked' = TRUE
  /\ denials' = 0
  /\ UNCHANGED <<net, host>>

RunAck ==
  /\ Current({"accepted", "rejected"})
  /\ LET accepted == Head(inbox).kind = "accepted" IN
     /\ client' = OnAck(client, accepted)
     /\ worked' = (worked \/ accepted)
     /\ denials' = IF accepted THEN 0 ELSE denials
  /\ UNCHANGED <<net, host>>

(* A shed of a completed handshake that did no work is a denial; every     *)
(* other end of a completed handshake is not, and ends the streak.         *)
Denial(reason) ==
  denials' = IF ~client.connected /\ reason # "stale" THEN denials
             ELSE IF reason = "shed" /\ ~worked THEN denials + 1 ELSE 0

RunClose ==
  /\ Current(Reasons)
  /\ \E throws \in BOOLEAN :
       client' = HandleClose(client, Head(inbox).kind, throws)
  /\ Dials
  /\ Denial(Head(inbox).kind)
  /\ UNCHANGED <<host, worked>>

(* onFailure and onClosed. *)
RunGone ==
  /\ Current({"gone"})
  /\ client' = HandleDisconnect(client, FALSE)
  /\ Denial("gone")
  /\ UNCHANGED <<net, host, worked>>

(* The reconnect timer; its future is done once it has run. *)
ReconnectFires ==
  /\ client.timers > 0
  /\ client.epoch < MaxEpoch
  /\ \E throws \in BOOLEAN :
       client' = OpenSocket([client EXCEPT !.timers = @ - 1, !.held = FALSE],
                            throws)
  /\ Dials
  /\ UNCHANGED <<inbox, host, worked, denials>>

(* The poll tick: a socket that does not take the Poll ends the poll. *)
PollFails ==
  /\ client.polling /\ ~client.stopped
  /\ client.socket # NoSocket /\ net[client.socket] = "gone"
  /\ client' = CancelPoll(client)
  /\ UNCHANGED <<inbox, net, host, worked, denials>>

RunTask ==
  \/ RunRetired
  \/ RunStart
  \/ RunStop
  \/ RunOpen
  \/ RunHelloAck
  \/ RunMessage
  \/ RunAck
  \/ RunClose
  \/ RunGone

Next ==
  \/ HostStart
  \/ HostStop
  \/ RunTask
  \/ ReconnectFires
  \/ PollFails
  \/ \E e \in Epochs : Opens(e) \/ Greets(e) \/ Drops(e)
  \/ \E e \in Epochs, f \in Works \cup {"rejected"} : Feeds(e, f)
  \/ \E e \in Epochs, r \in Reasons : Refuses(e, r)

Spec == Init /\ [][Next]_vars

(* The executor runs what it is given and fires its timer. *)
Fairness == WF_vars(RunTask) /\ WF_vars(ReconnectFires)

FairSpec == Spec /\ Fairness

-----------------------------------------------------------------------------
TypeOK ==
  /\ client \in ClientState
  /\ inbox \in Seq(Task)
  /\ net \in [Epochs -> Stages]
  /\ host \in {"new", "started", "stopping"}
  /\ worked \in BOOLEAN
  /\ denials \in Nat

Running == client.status # "idle" /\ ~client.stopped

(* Between two tasks a running client is driven by exactly one thing: a    *)
(* socket, or one pending reconnect.  Never two reconnects, never a        *)
(* reconnect beside a live socket (SB-51), never neither; and a client     *)
(* that is stopped, signed out or replaced has nothing left that could     *)
(* open a socket (SB-53).                                                  *)
OneDriver ==
  client.timers = (IF Running /\ client.socket = NoSocket THEN 1 ELSE 0)

(* No socket is left open that the client no longer drives (SB-51), and a  *)
(* client that has ended has none.                                         *)
NoOrphanSocket ==
  /\ client.unclosed = {client.socket} \ {NoSocket}
  /\ ~Running => client.socket = NoSocket

(* What the host reads as "connected" is a session: the handshake of the   *)
(* socket being driven has completed (SB-21), and the poll timer never     *)
(* outlives the session it polls for (SB-53).                              *)
ConnectedMeansSession ==
  /\ (client.status = "connected") = client.connected
  /\ client.connected => /\ client.socket # NoSocket
                         /\ net[client.socket] \in {"session", "refused", "gone"}
  /\ client.polling => client.connected

(* Denials in a row climb the backoff (SB-45): the n-th handshake in a row *)
(* that is shed before it did any work waits out attempt n or a later one. *)
DenialsClimb ==
  Running /\ client.socket = NoSocket => client.attempts >= denials

(* An end is final (SB-48, SB-49): no late callback, timer or close        *)
(* reopens the client or renames the end; only the owner's stop does.      *)
EndIsFinal ==
  [][client.status \in Finals /\ client'.status # client.status
       => client'.status = "stopped" /\ host = "stopping"]_<<client, host>>

(* A running client that has lost its socket dials again, as far as the    *)
(* bound on dials lets it (SB-42, SB-47).                                  *)
Redials ==
  (Running /\ client.socket = NoSocket /\ client.epoch < MaxEpoch - 1)
    ~> (client.socket # NoSocket \/ ~Running \/ client.epoch >= MaxEpoch - 1)

(* The client implements the lifecycle its owner relies on. *)
Life == INSTANCE SocketLifecycle WITH
  Sockets <- Epochs,
  life    <- IF client.status = "idle" THEN "new"
             ELSE IF client.stopped THEN "ended" ELSE "running",
  open    <- client.unclosed,
  pending <- client.timers

ImplementsLifecycle == Life!Spec
=============================================================================
