------------------------- MODULE SocketSessionProofs -------------------------
(***************************************************************************)
(* Proofs about SocketSession, for every bound on dials and queue: its     *)
(* type invariant, the driver, socket and session invariants, the finality *)
(* of an end, that it implements SocketLifecycle, and that the backoff     *)
(* climbs.                                                                 *)
(***************************************************************************)
EXTENDS SocketSession, SequenceTheorems, TLAPS

-----------------------------------------------------------------------------
(* The inductive invariant.  Base is what holds of the client's record in  *)
(* the middle of a task, ClientOK what a task leaves behind.               *)
Base(c) ==
  /\ c \in ClientState
  /\ c.timers \in {0, 1}
  /\ c.held <=> c.timers = 1
  /\ c.unclosed = {c.socket} \ {NoSocket}

ClientOK(c) ==
  /\ Base(c)
  /\ c.timers = 1 <=> (c.status # "idle" /\ ~c.stopped /\ c.socket = NoSocket)
  /\ c.stopped <=> c.status \in Finals
  /\ c.stopped \/ c.status = "idle" => c.socket = NoSocket
  /\ c.socket # NoSocket => c.socket = c.epoch
  /\ c.status = "idle" => c.epoch = 0
  /\ c.connected <=> c.status = "connected"
  /\ c.connected => c.socket # NoSocket
  /\ c.polling => c.connected

(* A socket that was ever dialled is an older one, or the current one. *)
NetOK ==
  \A e \in Epochs : net[e] # "none" => e < client.epoch \/ e = client.socket

(* The stages behind a completed handshake. *)
Late == {"session", "refused", "gone"}

SessionOK == client.connected => net[client.socket] \in Late

(* Callbacks come from sockets that were dialled; the start is the oldest  *)
(* task of an idle client, and a stop the owner's.                         *)
TaskOK(i) ==
  /\ inbox[i].kind \in Callbacks =>
       inbox[i].epoch \in Epochs /\ net[inbox[i].epoch] # "none"
  /\ inbox[i].kind = "helloAck" => net[inbox[i].epoch] \in Late
  /\ inbox[i].kind = "stale" => inbox[i].epoch + 2 <= MaxEpoch
  /\ inbox[i].kind = "stop" => host = "stopping"
  /\ inbox[i].kind = "start" => i = 1 /\ client.status = "idle"

IdleOK ==
  /\ host = "new" => client.status = "idle" /\ inbox = <<>>
  /\ client.status = "idle" /\ host # "new" =>
       inbox # <<>> /\ inbox[1].kind = "start"

IInv ==
  /\ TypeOK
  /\ ClientOK(client)
  /\ NetOK
  /\ SessionOK
  /\ \A i \in 1 .. Len(inbox) : TaskOK(i)
  /\ IdleOK

-----------------------------------------------------------------------------
(* What the client's functions do to the fields the invariant is about.    *)

LEMMA PublishStateOK ==
  ASSUME NEW c \in ClientState, NEW s \in Statuses
  PROVE  /\ PublishState(c, s) \in ClientState
         /\ PublishState(c, s).status = s
         /\ PublishState(c, s).timers = c.timers
         /\ PublishState(c, s).held = c.held
         /\ PublishState(c, s).polling = c.polling
         /\ PublishState(c, s).stopped = c.stopped
         /\ PublishState(c, s).socket = c.socket
         /\ PublishState(c, s).connected = c.connected
         /\ PublishState(c, s).epoch = c.epoch
         /\ PublishState(c, s).unclosed = c.unclosed
BY DEF PublishState, ClientState

LEMMA CancelTimersOK ==
  ASSUME NEW c, Base(c)
  PROVE  /\ CancelTimers(c) \in ClientState
         /\ CancelTimers(c).timers = 0
         /\ CancelTimers(c).held = FALSE
         /\ CancelTimers(c).polling = FALSE
         /\ CancelTimers(c).stopped = c.stopped
         /\ CancelTimers(c).socket = c.socket
         /\ CancelTimers(c).connected = c.connected
         /\ CancelTimers(c).epoch = c.epoch
         /\ CancelTimers(c).unclosed = c.unclosed
         /\ CancelTimers(c).status = c.status
<1>1. c \in ClientState
  BY DEF Base
<1>2. [[c EXCEPT !.polling = FALSE] EXCEPT !.timers = 0, !.held = FALSE]
        \in ClientState
  BY <1>1 DEF ClientState
<1>3. (IF c.held THEN c.timers - 1 ELSE c.timers) = 0
  BY <1>1 DEF Base, ClientState
<1>4. CancelTimers(c) =
        [[c EXCEPT !.polling = FALSE] EXCEPT !.timers = 0, !.held = FALSE]
  BY <1>1, <1>3 DEF CancelTimers, CancelPoll, ClientState
<1> QED
  BY <1>1, <1>2, <1>4 DEF ClientState

LEMMA CloseSocketOK ==
  ASSUME NEW c \in ClientState
  PROVE  /\ CloseSocket(c) \in ClientState
         /\ CloseSocket(c).socket = NoSocket
         /\ CloseSocket(c).connected = FALSE
         /\ CloseSocket(c).epoch = c.epoch + 1
         /\ CloseSocket(c).unclosed = c.unclosed \ {c.socket}
         /\ CloseSocket(c).timers = c.timers
         /\ CloseSocket(c).held = c.held
         /\ CloseSocket(c).polling = c.polling
         /\ CloseSocket(c).stopped = c.stopped
         /\ CloseSocket(c).status = c.status
<1>1. ASSUME NEW e \in Nat, NEW u \in SUBSET Epochs
      PROVE  [c EXCEPT !.socket = 0, !.connected = FALSE, !.epoch = e,
                       !.unclosed = u] \in ClientState
  BY DEF ClientState
<1>2. c.epoch + 1 \in Nat /\ c.unclosed \ {c.socket} \in SUBSET Epochs
  BY DEF ClientState
<1>3. CloseSocket(c) \in ClientState
  BY <1>1, <1>2 DEF CloseSocket, NoSocket
<1>4. /\ CloseSocket(c).socket = NoSocket
      /\ CloseSocket(c).connected = FALSE
      /\ CloseSocket(c).epoch = c.epoch + 1
      /\ CloseSocket(c).unclosed = c.unclosed \ {c.socket}
  BY DEF CloseSocket, NoSocket, ClientState
<1>5. /\ CloseSocket(c).timers = c.timers
      /\ CloseSocket(c).held = c.held
      /\ CloseSocket(c).polling = c.polling
      /\ CloseSocket(c).stopped = c.stopped
      /\ CloseSocket(c).status = c.status
  BY DEF CloseSocket, NoSocket, ClientState
<1> QED
  BY <1>3, <1>4, <1>5

(* The common part of every end: both timers cancelled, the socket closed. *)
Shut(c) == CloseSocket(CancelTimers(c))

LEMMA ShutOK ==
  ASSUME NEW c, Base(c)
  PROVE  /\ Base(Shut(c))
         /\ Shut(c).timers = 0
         /\ Shut(c).socket = NoSocket
         /\ Shut(c).connected = FALSE
         /\ Shut(c).polling = FALSE
         /\ Shut(c).epoch = c.epoch + 1
         /\ Shut(c).stopped = c.stopped
         /\ Shut(c).status = c.status
<1> DEFINE d == CancelTimers(c)
<1>1. /\ d \in ClientState /\ d.timers = 0 /\ d.held = FALSE
      /\ d.polling = FALSE /\ d.stopped = c.stopped /\ d.epoch = c.epoch
      /\ d.status = c.status
      /\ d.unclosed \ {d.socket} = {}
  BY CancelTimersOK DEF Base
<1> HIDE DEF d
<1>2. Shut(c) = CloseSocket(d)
  BY DEF Shut, d
<1> DEFINE e == CloseSocket(d)
<1>3. /\ e \in ClientState /\ e.timers = 0 /\ e.held = FALSE
      /\ e.polling = FALSE /\ e.stopped = c.stopped /\ e.epoch = c.epoch + 1
      /\ e.status = c.status /\ e.socket = NoSocket /\ e.connected = FALSE
      /\ e.unclosed = {}
  BY <1>1, CloseSocketOK
<1> HIDE DEF e
<1>4. Base(e)
  BY <1>3 DEF Base
<1> QED
  BY <1>2, <1>3, <1>4 DEF e

(* The flags a function sets first leave Base as it is. *)
LEMMA FlagsOK ==
  ASSUME NEW c, Base(c), NEW s \in BOOLEAN, NEW k \in BOOLEAN
  PROVE  /\ Base([c EXCEPT !.stopped = s, !.connected = k])
         /\ Base([c EXCEPT !.stopped = s])
         /\ Base([c EXCEPT !.connected = k])
BY DEF Base, ClientState

LEMMA ForfeitOK ==
  ASSUME NEW c \in ClientState, NEW shed \in BOOLEAN
  PROVE  /\ Forfeit(c, shed) \in ClientState
         /\ Forfeit(c, shed).timers = c.timers
         /\ Forfeit(c, shed).held = c.held
         /\ Forfeit(c, shed).polling = c.polling
         /\ Forfeit(c, shed).stopped = c.stopped
         /\ Forfeit(c, shed).socket = c.socket
         /\ Forfeit(c, shed).connected = c.connected
         /\ Forfeit(c, shed).epoch = c.epoch
         /\ Forfeit(c, shed).unclosed = c.unclosed
         /\ Forfeit(c, shed).status = c.status
BY DEF Forfeit, ClientState

LEMMA ScheduleReconnectOK ==
  ASSUME NEW c \in ClientState, c.timers = 0
  PROVE  /\ ScheduleReconnect(c) \in ClientState
         /\ ScheduleReconnect(c).timers = 1
         /\ ScheduleReconnect(c).held = TRUE
         /\ ScheduleReconnect(c).polling = c.polling
         /\ ScheduleReconnect(c).stopped = c.stopped
         /\ ScheduleReconnect(c).socket = c.socket
         /\ ScheduleReconnect(c).connected = c.connected
         /\ ScheduleReconnect(c).epoch = c.epoch
         /\ ScheduleReconnect(c).unclosed = c.unclosed
         /\ ScheduleReconnect(c).status = c.status
<1>1. [c EXCEPT !.timers = 1, !.held = TRUE] \in ClientState
  BY DEF ClientState
<1>2. ScheduleReconnect(c) = [c EXCEPT !.timers = 1, !.held = TRUE]
  BY DEF ScheduleReconnect, ClientState
<1> QED
  BY <1>1, <1>2 DEF ClientState

LEMMA HandleDisconnectOK ==
  ASSUME NEW c, Base(c), NEW shed \in BOOLEAN
  PROVE  /\ ClientOK(HandleDisconnect(c, shed))
         /\ HandleDisconnect(c, shed).epoch = c.epoch + 1
         /\ HandleDisconnect(c, shed).socket = NoSocket
         /\ HandleDisconnect(c, shed).stopped = c.stopped
         /\ HandleDisconnect(c, shed).status \notin {"idle", "connected"}
<1> DEFINE f    == [c EXCEPT !.connected = FALSE]
           d    == Shut(f)
           g    == Forfeit(d, shed)
           next == [g EXCEPT !.attempts = @ + 1]
           r    == PublishState(next, "reconnecting")
<1>1. Base(f) /\ f.epoch = c.epoch /\ f.stopped = c.stopped
  <2>1. Base(f)
    BY FlagsOK
  <2>2. f.epoch = c.epoch /\ f.stopped = c.stopped
    BY DEF Base, ClientState
  <2> QED
    BY <2>1, <2>2
<1>2. HandleDisconnect(c, shed) = IF c.stopped THEN PublishState(d, "stopped")
                                               ELSE ScheduleReconnect(r)
  BY DEF HandleDisconnect, Shut
<1>3. /\ Base(d) /\ d.timers = 0 /\ d.socket = NoSocket /\ d.connected = FALSE
      /\ d.polling = FALSE /\ d.epoch = c.epoch + 1 /\ d.stopped = c.stopped
  BY <1>1, ShutOK
<1>4. "stopped" \in Statuses /\ "reconnecting" \in Statuses
  BY DEF Statuses, Finals
<1> HIDE DEF d
<1>5. CASE c.stopped
  <2> DEFINE p == PublishState(d, "stopped")
  <2>1. /\ p \in ClientState /\ p.status = "stopped" /\ p.timers = 0
        /\ p.held = d.held /\ p.polling = FALSE /\ p.stopped = c.stopped
        /\ p.socket = NoSocket /\ p.connected = FALSE /\ p.epoch = c.epoch + 1
        /\ p.unclosed = d.unclosed
    BY <1>3, <1>4, PublishStateOK DEF Base
  <2> HIDE DEF p
  <2>2. Base(p)
    BY <1>3, <2>1 DEF Base
  <2>3. ClientOK(p)
    BY <1>5, <2>1, <2>2 DEF ClientOK, Finals
  <2>4. HandleDisconnect(c, shed) = p
    BY <1>2, <1>5 DEF p
  <2> QED
    BY <2>1, <2>3, <2>4
<1>6. CASE ~c.stopped
  <2>1. /\ g \in ClientState /\ g.timers = 0 /\ g.polling = FALSE
        /\ g.socket = NoSocket /\ g.connected = FALSE /\ g.epoch = d.epoch
        /\ g.stopped = d.stopped /\ g.unclosed = d.unclosed
    BY <1>3, ForfeitOK DEF Base
  <2> HIDE DEF g
  <2>2. /\ next \in ClientState /\ next.timers = 0 /\ next.polling = FALSE
        /\ next.socket = NoSocket /\ next.connected = FALSE
        /\ next.epoch = d.epoch /\ next.stopped = d.stopped
        /\ next.unclosed = d.unclosed
    BY <2>1 DEF ClientState
  <2> HIDE DEF next
  <2>3. /\ r \in ClientState /\ r.timers = 0 /\ r.polling = FALSE
        /\ r.socket = NoSocket /\ r.connected = FALSE
        /\ r.epoch = d.epoch /\ r.stopped = d.stopped
        /\ r.unclosed = d.unclosed /\ r.status = "reconnecting"
    BY <2>2, <1>4, PublishStateOK
  <2>4. HandleDisconnect(c, shed) = ScheduleReconnect(r)
    BY <1>2, <1>6
  <2> HIDE DEF r
  <2> DEFINE q == ScheduleReconnect(r)
  <2>5. /\ q \in ClientState /\ q.status = "reconnecting" /\ q.timers = 1
        /\ q.held = TRUE /\ q.polling = FALSE /\ q.stopped = c.stopped
        /\ q.socket = NoSocket /\ q.connected = FALSE /\ q.epoch = c.epoch + 1
        /\ q.unclosed = d.unclosed
    BY <1>3, <2>3, ScheduleReconnectOK
  <2> HIDE DEF q
  <2>6. Base(q)
    BY <1>3, <2>5 DEF Base
  <2>7. ClientOK(q)
    BY <1>6, <2>5, <2>6 DEF ClientOK, Finals
  <2>8. HandleDisconnect(c, shed) = q
    BY <2>4 DEF q
  <2> QED
    BY <2>5, <2>7, <2>8
<1> QED
  BY <1>5, <1>6

(* A client without socket or timer, as every path brings it to            *)
(* openSocket().                                                           *)
Ready(c) ==
  /\ Base(c)
  /\ c.timers = 0
  /\ c.socket = NoSocket
  /\ c.connected = FALSE
  /\ c.polling = FALSE

LEMMA OpenSocketOK ==
  ASSUME NEW c, Ready(c), ~c.stopped, c.epoch + 1 \in Epochs,
         NEW throws \in BOOLEAN
  PROVE  /\ ClientOK(OpenSocket(c, throws))
         /\ OpenSocket(c, throws).status \notin {"idle", "connected"}
         /\ OpenSocket(c, throws).stopped = FALSE
         /\ OpenSocket(c, throws).epoch > c.epoch
         /\ throws => OpenSocket(c, throws).socket = NoSocket
         /\ ~throws => OpenSocket(c, throws).socket = c.epoch + 1
<1> DEFINE s == IF c.attempts = 0 THEN "connecting" ELSE "reconnecting"
           p == PublishState(c, s)
           d == [p EXCEPT !.epoch = @ + 1]
           o == [d EXCEPT !.socket = d.epoch, !.unclosed = @ \cup {d.epoch}]
<1>1. OpenSocket(c, throws) = IF throws THEN HandleDisconnect(d, FALSE) ELSE o
  BY DEF OpenSocket
<1>2. c \in ClientState /\ c.held = FALSE /\ c.unclosed = {} /\ c.epoch \in Nat
  BY DEF Ready, Base, ClientState
<1>3. s \in Statuses \ ({"idle", "connected"} \cup Finals)
  BY DEF Statuses, Finals
<1> HIDE DEF s
<1>4. /\ p \in ClientState /\ p.status = s /\ p.timers = 0 /\ p.held = FALSE
      /\ p.polling = FALSE /\ p.stopped = c.stopped /\ p.socket = NoSocket
      /\ p.connected = FALSE /\ p.epoch = c.epoch /\ p.unclosed = {}
  BY <1>2, <1>3, PublishStateOK DEF Ready
<1> HIDE DEF p
<1>5. /\ d \in ClientState /\ d.status = s /\ d.timers = 0 /\ d.held = FALSE
      /\ d.polling = FALSE /\ d.stopped = c.stopped /\ d.socket = NoSocket
      /\ d.connected = FALSE /\ d.epoch = c.epoch + 1 /\ d.unclosed = {}
  BY <1>2, <1>4 DEF ClientState
<1> HIDE DEF d
<1>6. CASE throws
  <2>1. Base(d)
    BY <1>5 DEF Base
  <2> DEFINE h == HandleDisconnect(d, FALSE)
  <2>2. /\ ClientOK(h) /\ h.epoch = d.epoch + 1 /\ h.socket = NoSocket
        /\ h.stopped = d.stopped /\ h.status \notin {"idle", "connected"}
    BY <2>1, HandleDisconnectOK
  <2> HIDE DEF h
  <2>3. OpenSocket(c, throws) = h
    BY <1>1, <1>6 DEF h
  <2>4. h.stopped = FALSE /\ h.epoch > c.epoch
    BY <1>2, <1>5, <2>2 DEF ClientState
  <2> QED
    BY <1>6, <2>2, <2>3, <2>4
<1>7. CASE ~throws
  <2>1. d.epoch \in Epochs /\ d.epoch \in Nat
        /\ {d.epoch} \in SUBSET Epochs
    BY <1>5 DEF ClientState
  <2>2. o = [d EXCEPT !.socket = d.epoch, !.unclosed = {d.epoch}]
    BY <1>5 DEF ClientState
  <2>3. ASSUME NEW e \in Nat, NEW u \in SUBSET Epochs
        PROVE  [d EXCEPT !.socket = e, !.unclosed = u] \in ClientState
    BY <1>5 DEF ClientState
  <2>4. /\ o \in ClientState /\ o.socket = d.epoch /\ o.unclosed = {d.epoch}
        /\ o.status = s /\ o.timers = 0 /\ o.held = FALSE /\ o.polling = FALSE
        /\ o.stopped = c.stopped /\ o.connected = FALSE /\ o.epoch = d.epoch
    <3>1. o \in ClientState
      BY <2>1, <2>2, <2>3
    <3>2. /\ o.socket = d.epoch /\ o.unclosed = {d.epoch} /\ o.status = d.status
          /\ o.timers = d.timers /\ o.held = d.held /\ o.polling = d.polling
          /\ o.stopped = d.stopped /\ o.connected = d.connected
          /\ o.epoch = d.epoch
      BY <1>5, <2>2 DEF ClientState
    <3> QED
      BY <1>5, <3>1, <3>2
  <2> HIDE DEF o
  <2>5. d.epoch # NoSocket /\ d.epoch > c.epoch
    BY <2>1, <1>2, <1>5 DEF Epochs, NoSocket
  <2>6. Base(o)
    BY <2>4, <2>5 DEF Base
  <2>7. ClientOK(o)
    BY <1>3, <2>4, <2>5, <2>6 DEF ClientOK
  <2> QED
    BY <1>1, <1>3, <1>5, <1>7, <2>4, <2>5, <2>7
<1> QED
  BY <1>6, <1>7

LEMMA StopClientOK ==
  ASSUME NEW c, Base(c)
  PROVE  /\ ClientOK(StopClient(c))
         /\ StopClient(c).status = "stopped"
         /\ StopClient(c).epoch = c.epoch + 1
         /\ StopClient(c).socket = NoSocket
         /\ StopClient(c).stopped = TRUE
<1> DEFINE f == [c EXCEPT !.stopped = TRUE]
           d == Shut(f)
           p == PublishState(d, "stopped")
<1>1. Base(f)
  BY FlagsOK
<1>2. f.epoch = c.epoch /\ f.stopped = TRUE
  BY DEF Base, ClientState
<1> HIDE DEF f
<1>3. /\ Base(d) /\ d.timers = 0 /\ d.socket = NoSocket /\ d.connected = FALSE
      /\ d.polling = FALSE /\ d.epoch = c.epoch + 1 /\ d.stopped = TRUE
  BY <1>1, <1>2, ShutOK
<1> HIDE DEF d
<1>4. /\ p \in ClientState /\ p.status = "stopped" /\ p.timers = 0
      /\ p.held = d.held /\ p.polling = FALSE /\ p.stopped = TRUE
      /\ p.socket = NoSocket /\ p.connected = FALSE /\ p.epoch = c.epoch + 1
      /\ p.unclosed = d.unclosed
  BY <1>3, PublishStateOK DEF Base, Statuses, Finals
<1>5. StopClient(c) = p
  BY DEF StopClient, Shut, f, d
<1> HIDE DEF p
<1>6. Base(p)
  BY <1>3, <1>4 DEF Base
<1> QED
  BY <1>4, <1>5, <1>6 DEF ClientOK, Finals

LEMMA RetireOK ==
  ASSUME NEW c, Base(c), NEW s \in Finals
  PROVE  /\ ClientOK(Retire(c, s))
         /\ Retire(c, s).status = s
         /\ Retire(c, s).epoch = c.epoch + 1
         /\ Retire(c, s).socket = NoSocket
         /\ Retire(c, s).stopped = TRUE
<1> DEFINE f == [c EXCEPT !.stopped = TRUE, !.connected = FALSE]
           d == Shut(f)
           p == PublishState(d, s)
<1>1. Base(f)
  BY FlagsOK
<1>2. f.epoch = c.epoch /\ f.stopped = TRUE
  BY DEF Base, ClientState
<1> HIDE DEF f
<1>3. /\ Base(d) /\ d.timers = 0 /\ d.socket = NoSocket /\ d.connected = FALSE
      /\ d.polling = FALSE /\ d.epoch = c.epoch + 1 /\ d.stopped = TRUE
  BY <1>1, <1>2, ShutOK
<1> HIDE DEF d
<1>4. /\ p \in ClientState /\ p.status = s /\ p.timers = 0
      /\ p.held = d.held /\ p.polling = FALSE /\ p.stopped = TRUE
      /\ p.socket = NoSocket /\ p.connected = FALSE /\ p.epoch = c.epoch + 1
      /\ p.unclosed = d.unclosed
  <2>1. s \in Statuses
    BY DEF Statuses
  <2> QED
    BY <1>3, <2>1, PublishStateOK DEF Base
<1>5. Retire(c, s) = p
  BY DEF Retire, Shut, f, d
<1> HIDE DEF p
<1>6. Base(p)
  BY <1>3, <1>4 DEF Base
<1> QED
  BY <1>4, <1>5, <1>6 DEF ClientOK, Finals

LEMMA HandleStaleOK ==
  ASSUME NEW c, Base(c), ~c.stopped, c.epoch + 2 \in Epochs,
         NEW throws \in BOOLEAN
  PROVE  /\ ClientOK(HandleStale(c, throws))
         /\ HandleStale(c, throws).status \notin {"idle", "connected"}
         /\ HandleStale(c, throws).stopped = FALSE
         /\ HandleStale(c, throws).epoch > c.epoch
         /\ HandleStale(c, throws).socket \in Epochs \cup {NoSocket}
<1> DEFINE f == [c EXCEPT !.connected = FALSE]
           d == Shut(f)
           a == [d EXCEPT !.attempts = 0]
<1>1. Base(f)
  BY FlagsOK
<1>2. f.epoch = c.epoch /\ f.stopped = FALSE /\ c.epoch \in Nat
  BY DEF Base, ClientState
<1>3. HandleStale(c, throws) = OpenSocket(a, throws)
  BY DEF HandleStale, Shut
<1> HIDE DEF f
<1>4. /\ Base(d) /\ d.timers = 0 /\ d.socket = NoSocket /\ d.connected = FALSE
      /\ d.polling = FALSE /\ d.epoch = c.epoch + 1 /\ d.stopped = FALSE
  BY <1>1, <1>2, ShutOK
<1> HIDE DEF d
<1>5. /\ a \in ClientState /\ a.timers = 0 /\ a.socket = NoSocket
      /\ a.connected = FALSE /\ a.polling = FALSE /\ a.epoch = c.epoch + 1
      /\ a.stopped = FALSE /\ a.held = d.held /\ a.unclosed = d.unclosed
  BY <1>4 DEF Base, ClientState
<1> HIDE DEF a
<1>6. Ready(a)
  BY <1>4, <1>5 DEF Ready, Base
<1>7. a.epoch + 1 \in Epochs /\ a.epoch > c.epoch /\ a.epoch \in Nat
  BY <1>2, <1>5
<1> DEFINE o == OpenSocket(a, throws)
<1>8. /\ ClientOK(o) /\ o.status \notin {"idle", "connected"}
      /\ o.stopped = FALSE
      /\ o.epoch > a.epoch /\ o.socket \in {NoSocket, a.epoch + 1}
  BY <1>5, <1>6, <1>7, OpenSocketOK
<1> HIDE DEF o
<1>9. o.epoch \in Nat
  BY <1>8 DEF ClientOK, Base, ClientState
<1> QED
  BY <1>2, <1>3, <1>7, <1>8, <1>9 DEF o

LEMMA StartClientOK ==
  ASSUME NEW c, Ready(c), c.epoch = 0, NEW throws \in BOOLEAN
  PROVE  /\ ClientOK(StartClient(c, throws))
         /\ StartClient(c, throws).status \notin {"idle", "connected"}
         /\ StartClient(c, throws).stopped = FALSE
         /\ StartClient(c, throws).epoch > c.epoch
         /\ StartClient(c, throws).socket \in Epochs \cup {NoSocket}
<1> DEFINE a == [c EXCEPT !.stopped = FALSE, !.attempts = 0]
<1>1. /\ a \in ClientState /\ a.timers = 0 /\ a.socket = NoSocket
      /\ a.connected = FALSE /\ a.polling = FALSE /\ a.epoch = c.epoch
      /\ a.stopped = FALSE /\ a.held = c.held /\ a.unclosed = c.unclosed
  BY DEF Ready, Base, ClientState
<1>2. StartClient(c, throws) = OpenSocket(a, throws)
  BY DEF StartClient
<1> HIDE DEF a
<1>3. Ready(a)
  BY <1>1 DEF Ready, Base
<1>4. a.epoch + 1 \in Epochs
  BY <1>1, BoundsAssumption DEF Epochs
<1> QED
  BY <1>1, <1>2, <1>3, <1>4, OpenSocketOK

LEMMA NoteSessionWorkOK ==
  ASSUME NEW c, ClientOK(c)
  PROVE  /\ ClientOK(NoteSessionWork(c))
         /\ NoteSessionWork(c).status = c.status
         /\ NoteSessionWork(c).stopped = c.stopped
         /\ NoteSessionWork(c).socket = c.socket
         /\ NoteSessionWork(c).connected = c.connected
         /\ NoteSessionWork(c).epoch = c.epoch
<1> DEFINE d == NoteSessionWork(c)
<1>1. /\ d \in ClientState /\ d.status = c.status /\ d.stopped = c.stopped
      /\ d.socket = c.socket /\ d.connected = c.connected /\ d.epoch = c.epoch
      /\ d.timers = c.timers /\ d.held = c.held /\ d.polling = c.polling
      /\ d.unclosed = c.unclosed
  BY DEF NoteSessionWork, ClientOK, Base, ClientState
<1> HIDE DEF d
<1>2. ClientOK(d)
  BY <1>1 DEF ClientOK, Base
<1> QED
  BY <1>1, <1>2 DEF d

LEMMA CancelPollOK ==
  ASSUME NEW c, ClientOK(c)
  PROVE  /\ ClientOK(CancelPoll(c))
         /\ CancelPoll(c).status = c.status
         /\ CancelPoll(c).stopped = c.stopped
         /\ CancelPoll(c).socket = c.socket
         /\ CancelPoll(c).connected = c.connected
         /\ CancelPoll(c).epoch = c.epoch
<1> DEFINE d == CancelPoll(c)
<1>1. /\ d \in ClientState /\ d.status = c.status /\ d.stopped = c.stopped
      /\ d.socket = c.socket /\ d.connected = c.connected /\ d.epoch = c.epoch
      /\ d.timers = c.timers /\ d.held = c.held /\ d.polling = FALSE
      /\ d.unclosed = c.unclosed
  BY DEF CancelPoll, ClientOK, Base, ClientState
<1> HIDE DEF d
<1>2. ClientOK(d)
  BY <1>1 DEF ClientOK, Base
<1> QED
  BY <1>1, <1>2 DEF d

LEMMA OnHelloAckOK ==
  ASSUME NEW c, ClientOK(c), c.socket # NoSocket
  PROVE  /\ ClientOK(OnHelloAck(c))
         /\ OnHelloAck(c).status = "connected"
         /\ OnHelloAck(c).stopped = c.stopped
         /\ OnHelloAck(c).socket = c.socket
         /\ OnHelloAck(c).epoch = c.epoch
<1> DEFINE f == [c EXCEPT !.connected = TRUE]
           n == NoteHelloAck(f)
           p == PublishState(n, "connected")
           d == OnHelloAck(c)
<1>1. /\ f \in ClientState /\ f.stopped = c.stopped /\ f.socket = c.socket
      /\ f.connected = TRUE /\ f.epoch = c.epoch /\ f.timers = c.timers
      /\ f.held = c.held /\ f.unclosed = c.unclosed
  BY DEF ClientOK, Base, ClientState
<1>2. d = SchedulePoll(p)
  BY DEF OnHelloAck
<1> HIDE DEF f
<1>3. /\ n \in ClientState /\ n.stopped = c.stopped /\ n.socket = c.socket
      /\ n.connected = TRUE /\ n.epoch = c.epoch /\ n.timers = c.timers
      /\ n.held = c.held /\ n.unclosed = c.unclosed
  BY <1>1 DEF NoteHelloAck, ClientState
<1> HIDE DEF n
<1>4. /\ p \in ClientState /\ p.stopped = c.stopped /\ p.socket = c.socket
      /\ p.connected = TRUE /\ p.epoch = c.epoch /\ p.timers = c.timers
      /\ p.held = c.held /\ p.unclosed = c.unclosed /\ p.status = "connected"
  BY <1>3, PublishStateOK DEF Statuses
<1> HIDE DEF p
<1>5. /\ d \in ClientState /\ d.stopped = c.stopped /\ d.socket = c.socket
      /\ d.connected = TRUE /\ d.epoch = c.epoch /\ d.timers = c.timers
      /\ d.held = c.held /\ d.unclosed = c.unclosed /\ d.status = "connected"
  BY <1>2, <1>4 DEF SchedulePoll, CancelPoll, ClientState
<1> HIDE DEF d
<1>6. ClientOK(d)
  BY <1>5 DEF ClientOK, Base, Finals
<1> QED
  BY <1>5, <1>6 DEF d

LEMMA OnAckOK ==
  ASSUME NEW c, ClientOK(c), c.socket # NoSocket, NEW accepted \in BOOLEAN
  PROVE  /\ ClientOK(OnAck(c, accepted))
         /\ OnAck(c, accepted).status # "idle"
         /\ OnAck(c, accepted).stopped = c.stopped
         /\ OnAck(c, accepted).socket = c.socket
         /\ OnAck(c, accepted).connected = c.connected
         /\ OnAck(c, accepted).epoch = c.epoch
<1>1. ~c.stopped /\ c.status # "idle"
  BY DEF ClientOK
<1>2. CASE accepted
  BY <1>1, <1>2, NoteSessionWorkOK DEF OnAck
<1>3. CASE ~accepted
  <2> DEFINE s == CurrentStatus(c)
             d == PublishState(c, s)
  <2>1. /\ s \in Statuses \ ({"idle"} \cup Finals)
        /\ c.connected <=> s = "connected"
    BY <1>1 DEF CurrentStatus, Statuses, Finals, ClientOK, Base, ClientState
  <2> HIDE DEF s
  <2>2. /\ d \in ClientState /\ d.status = s /\ d.stopped = c.stopped
        /\ d.socket = c.socket /\ d.connected = c.connected
        /\ d.epoch = c.epoch /\ d.timers = c.timers /\ d.held = c.held
        /\ d.polling = c.polling /\ d.unclosed = c.unclosed
    BY <2>1, PublishStateOK DEF ClientOK, Base
  <2>3. OnAck(c, accepted) = d
    BY <1>3 DEF OnAck, s
  <2> HIDE DEF d
  <2>4. ClientOK(d)
    BY <1>1, <2>1, <2>2 DEF ClientOK, Base
  <2> QED
    BY <2>1, <2>2, <2>3, <2>4
<1> QED
  BY <1>2, <1>3

(* What openSocket() finds when the reconnect timer fires. *)
LEMMA TimerOK ==
  ASSUME NEW c, ClientOK(c), c.timers > 0
  PROVE  LET d == [c EXCEPT !.timers = @ - 1, !.held = FALSE] IN
         /\ Ready(d) /\ d.stopped = FALSE /\ d.epoch = c.epoch
<1> DEFINE d == [c EXCEPT !.timers = 0, !.held = FALSE]
<1>1. c \in ClientState /\ c.timers = 1 /\ c.timers - 1 = 0
  BY DEF ClientOK, Base
<1>2. [c EXCEPT !.timers = @ - 1, !.held = FALSE] = d
  BY <1>1
<1>3. /\ d \in ClientState /\ d.timers = 0 /\ d.held = FALSE
      /\ d.socket = c.socket /\ d.connected = c.connected
      /\ d.polling = c.polling /\ d.stopped = c.stopped /\ d.epoch = c.epoch
      /\ d.unclosed = c.unclosed
  BY <1>1 DEF ClientState
<1> HIDE DEF d
<1>4. c.socket = NoSocket /\ c.stopped = FALSE /\ c.connected = FALSE
      /\ c.polling = FALSE
  BY <1>1 DEF ClientOK, ClientState
<1>5. Ready(d)
  BY <1>3, <1>4 DEF Ready, ClientOK, Base
<1> QED
  BY <1>2, <1>3, <1>4, <1>5

LEMMA HandleCloseOK ==
  ASSUME NEW c, ClientOK(c), c.socket # NoSocket, NEW reason \in Reasons,
         reason = "stale" => c.epoch + 2 \in Epochs, NEW throws \in BOOLEAN
  PROVE  /\ ClientOK(HandleClose(c, reason, throws))
         /\ HandleClose(c, reason, throws).status \notin {"idle", "connected"}
         /\ HandleClose(c, reason, throws).epoch > c.epoch
         /\ HandleClose(c, reason, throws).socket \in Epochs \cup {NoSocket}
         /\ HandleClose(c, reason, throws).stopped
              => HandleClose(c, reason, throws).socket = NoSocket
<1>1. Base(c) /\ ~c.stopped /\ c.epoch \in Nat /\ c.epoch + 1 > c.epoch
  BY DEF ClientOK, Base, ClientState
<1>2. CASE reason = "stale"
  BY <1>1, <1>2, HandleStaleOK DEF HandleClose
<1>3. CASE reason = "unauthorized"
  <2>1. HandleClose(c, reason, throws) = Retire(c, "auth_required")
    BY <1>3 DEF HandleClose
  <2> DEFINE r == Retire(c, "auth_required")
  <2>2. "auth_required" \in Finals
    BY DEF Finals
  <2>3. /\ ClientOK(r) /\ r.status = "auth_required" /\ r.epoch = c.epoch + 1
        /\ r.socket = NoSocket
    BY <1>1, <2>2, RetireOK
  <2> HIDE DEF r
  <2>4. HandleClose(c, reason, throws) = r
    BY <2>1 DEF r
  <2> QED
    BY <1>1, <2>3, <2>4
<1>4. CASE reason = "bg_resumed"
  <2>1. HandleClose(c, reason, throws) = Retire(c, "replaced")
    BY <1>4 DEF HandleClose
  <2> DEFINE r == Retire(c, "replaced")
  <2>2. "replaced" \in Finals
    BY DEF Finals
  <2>3. /\ ClientOK(r) /\ r.status = "replaced" /\ r.epoch = c.epoch + 1
        /\ r.socket = NoSocket
    BY <1>1, <2>2, RetireOK
  <2> HIDE DEF r
  <2>4. HandleClose(c, reason, throws) = r
    BY <2>1 DEF r
  <2> QED
    BY <1>1, <2>3, <2>4
<1>5. CASE reason \in Pressure
  <2>1. HandleClose(c, reason, throws) = HandleDisconnect(c, reason = "shed")
    BY <1>5 DEF HandleClose, Pressure
  <2> DEFINE b == reason = "shed"
             r == HandleDisconnect(c, b)
  <2>2. b \in BOOLEAN
    OBVIOUS
  <2> HIDE DEF b
  <2>3. /\ ClientOK(r) /\ r.status \notin {"idle", "connected"}
        /\ r.epoch = c.epoch + 1 /\ r.socket = NoSocket
    BY <1>1, <2>2, HandleDisconnectOK
  <2> HIDE DEF r
  <2>4. HandleClose(c, reason, throws) = r
    BY <2>1 DEF r, b
  <2> QED
    BY <1>1, <2>3, <2>4
<1> QED
  BY <1>2, <1>3, <1>4, <1>5 DEF Reasons

-----------------------------------------------------------------------------
(* The scheduler's queue.                                                  *)

LEMMA TailOK ==
  ASSUME NEW q \in Seq(Task), q # <<>>
  PROVE  /\ Tail(q) \in Seq(Task)
         /\ Head(q) = q[1] /\ q[1] \in Task /\ 1 \in 1 .. Len(q)
         /\ \A i \in 1 .. Len(Tail(q)) :
              i + 1 \in 1 .. Len(q) /\ i + 1 # 1 /\ Tail(q)[i] = q[i + 1]
BY HeadTailProperties

LEMMA AppendOK ==
  ASSUME NEW q \in Seq(Task), NEW t \in Task
  PROVE  /\ Append(q, t) \in Seq(Task)
         /\ Append(q, t) # <<>>
         /\ \A i \in 1 .. Len(Append(q, t)) :
              \/ i \in 1 .. Len(q) /\ Append(q, t)[i] = q[i]
              \/ i = Len(q) + 1 /\ Append(q, t)[i] = t
         /\ q # <<>> => Append(q, t)[1] = q[1]
         /\ q = <<>> => Append(q, t)[1] = t /\ Len(q) = 0
BY AppendProperties

(* The sockets only move on; a task keeps what it says about them. *)
NetMoves ==
  /\ net' \in [Epochs -> Stages]
  /\ \A e \in Epochs : net[e] # "none" => net'[e] # "none"
  /\ \A e \in Epochs : net[e] \in Late => net'[e] \in Late

(* What a task leaves of the invariant, whatever it did to the client. *)
LEMMA RunOK ==
  ASSUME IInv, NEW kinds, Runs(kinds), host' = host, NetMoves,
         ClientOK(client'), client'.status # "idle",
         worked' \in BOOLEAN, denials' \in Nat
  PROVE  /\ TypeOK'
         /\ \A i \in 1 .. Len(inbox') : TaskOK(i)'
         /\ IdleOK'
<1>1. /\ inbox \in Seq(Task) /\ inbox # <<>> /\ inbox' = Tail(inbox)
      /\ host \in {"new", "started", "stopping"}
  BY DEF IInv, TypeOK, Runs
<1>2. TypeOK'
  <2>1. inbox' \in Seq(Task)
    BY <1>1, TailOK
  <2> QED
    BY <1>1, <2>1 DEF TypeOK, NetMoves, ClientOK, Base
<1>3. ASSUME NEW i \in 1 .. Len(inbox')
      PROVE  TaskOK(i)'
  <2>1. i + 1 \in 1 .. Len(inbox) /\ i + 1 # 1 /\ inbox'[i] = inbox[i + 1]
    BY <1>1, <1>3, TailOK
  <2>2. TaskOK(i + 1)
    BY <2>1 DEF IInv
  <2> QED
    BY <1>1, <2>1, <2>2 DEF TaskOK, NetMoves, Callbacks, Frames
<1>4. host # "new"
  BY <1>1 DEF IInv, IdleOK
<1> QED
  BY <1>2, <1>3, <1>4 DEF IdleOK

(* The task at the head, and that an idle client only has its start. *)
LEMMA HeadOK ==
  ASSUME IInv, NEW kinds, Runs(kinds)
  PROVE  /\ TaskOK(1) /\ Head(inbox) = inbox[1] /\ inbox[1] \in Task
         /\ inbox[1].kind \in kinds
         /\ client.status = "idle" => inbox[1].kind = "start"
<1>1. inbox \in Seq(Task) /\ inbox # <<>> /\ Head(inbox).kind \in kinds
  BY DEF IInv, TypeOK, Runs
<1>2. Head(inbox) = inbox[1] /\ inbox[1] \in Task /\ 1 \in 1 .. Len(inbox)
  BY <1>1, TailOK
<1> QED
  BY <1>1, <1>2 DEF IInv, IdleOK

(* A callback that is not retired comes from the socket being driven. *)
LEMMA CurrentOK ==
  ASSUME IInv, NEW kinds \in SUBSET Callbacks, Current(kinds)
  PROVE  /\ Runs(kinds)
         /\ TaskOK(1) /\ Head(inbox) = inbox[1]
         /\ inbox[1].kind \in kinds
         /\ inbox[1].epoch = client.socket /\ client.socket \in Epochs
         /\ client.socket # NoSocket /\ client.socket = client.epoch
         /\ net[client.socket] # "none"
         /\ ~client.stopped /\ client.status # "idle"
<1>1. Runs(kinds) /\ client.epoch = Head(inbox).epoch
  BY DEF Current
<1>2. /\ TaskOK(1) /\ Head(inbox) = inbox[1] /\ inbox[1].kind \in kinds
      /\ inbox[1].kind \in Callbacks
  BY <1>1, HeadOK
<1>3. inbox[1].epoch \in Epochs /\ net[inbox[1].epoch] # "none"
  BY <1>2 DEF TaskOK
<1>4. client.epoch \in Nat /\ ~(client.epoch < client.epoch)
  BY DEF IInv, ClientOK, Base, ClientState
<1>5. inbox[1].epoch = client.socket
  BY <1>1, <1>2, <1>3, <1>4 DEF IInv, NetOK
<1>6. client.socket # NoSocket
  BY <1>3, <1>5, BoundsAssumption DEF Epochs, NoSocket
<1> QED
  BY <1>1, <1>2, <1>3, <1>5, <1>6 DEF IInv, ClientOK

(* A client whose dial counter has moved on. *)
LEMMA DialsOK ==
  ASSUME IInv, ClientOK(client'), client'.epoch > client.epoch, Dials
  PROVE  NetMoves /\ NetOK'
<1>1. client.epoch \in Nat /\ client'.epoch \in Nat /\ client.socket \in Nat
  BY DEF IInv, ClientOK, Base, ClientState
<1>2. net \in [Epochs -> Stages]
  BY DEF IInv, TypeOK
<1>3. client.socket # NoSocket => client.socket = client.epoch
  BY DEF IInv, ClientOK
<1>4. NetMoves
  BY <1>2 DEF Dials, NetMoves, Late, Stages
<1>5. ASSUME NEW e \in Epochs, net'[e] # "none"
      PROVE  e < client'.epoch \/ e = client'.socket
  <2>1. CASE net[e] = "none"
    BY <1>2, <1>5, <2>1 DEF Dials
  <2>2. CASE net[e] # "none"
    <3>1. e \in Nat /\ e # NoSocket
      BY BoundsAssumption DEF Epochs, NoSocket
    <3>2. e < client.epoch \/ e = client.socket
      BY <2>2 DEF IInv, NetOK
    <3> QED
      BY <1>1, <1>3, <3>1, <3>2
  <2> QED
    BY <2>1, <2>2
<1> QED
  BY <1>4, <1>5 DEF NetOK

(* What posting a task leaves of the invariant. *)
LEMMA PostOK ==
  ASSUME IInv, NEW k \in {"start", "stop"} \cup Callbacks, NEW e \in Nat,
         Post(k, e), UNCHANGED <<client, worked, denials>>, NetMoves,
         host' \in {"started", "stopping"},
         host = "stopping" => host' = "stopping",
         k \in Callbacks => e \in Epochs /\ net'[e] # "none",
         k = "helloAck" => net'[e] \in Late,
         k = "stale" => e + 2 <= MaxEpoch,
         k = "stop" => host' = "stopping",
         k = "start" => inbox = <<>> /\ client.status = "idle",
         client.status = "idle" /\ inbox = <<>> => k = "start"
  PROVE  /\ TypeOK'
         /\ \A i \in 1 .. Len(inbox') : TaskOK(i)'
         /\ IdleOK'
<1> DEFINE t == [kind |-> k, epoch |-> e]
<1>1. t \in Task /\ t.kind = k /\ t.epoch = e
  BY DEF Task
<1>2. inbox \in Seq(Task) /\ inbox' = Append(inbox, t)
  BY DEF IInv, TypeOK, Post
<1> HIDE DEF t
<1>3. inbox' \in Seq(Task) /\ inbox' # <<>>
  BY <1>1, <1>2, AppendOK
<1>4. TypeOK'
  BY <1>3 DEF IInv, TypeOK, NetMoves
<1>5. ASSUME NEW i \in 1 .. Len(inbox')
      PROVE  TaskOK(i)'
  <2>1. CASE i \in 1 .. Len(inbox) /\ inbox'[i] = inbox[i]
    <3>1. TaskOK(i)
      BY <2>1 DEF IInv
    <3> QED
      BY <2>1, <3>1 DEF TaskOK, NetMoves, Callbacks, Frames
  <2>2. CASE i = Len(inbox) + 1 /\ inbox'[i] = t
    <3>1. k = "start" => i = 1
      BY <1>1, <1>2, <2>2, AppendOK
    <3> QED
      BY <1>1, <2>2, <3>1 DEF TaskOK
  <2> QED
    BY <1>1, <1>2, <1>5, <2>1, <2>2, AppendOK
<1>6. IdleOK'
  <2>1. CASE inbox = <<>>
    BY <1>1, <1>2, <1>3, <2>1, AppendOK DEF IdleOK
  <2>2. CASE inbox # <<>>
    <3>1. client.status = "idle" => inbox[1].kind = "start"
      BY <2>2 DEF IInv, IdleOK
    <3> QED
      BY <1>1, <1>2, <1>3, <2>2, <3>1, AppendOK DEF IdleOK
  <2> QED
    BY <2>1, <2>2
<1> QED
  BY <1>4, <1>5, <1>6

LEMMA CallbackOK ==
  ASSUME IInv, NEW e \in Epochs, NEW from, NEW to \in Stages \ {"none"},
         NEW k \in Callbacks, Callback(e, from, to, k),
         "none" \notin from,
         \A s \in from : s \in Late => to \in Late,
         k = "helloAck" => to \in Late,
         k = "stale" => e + 2 <= MaxEpoch
  PROVE  IInv'
<1>1. /\ net \in [Epochs -> Stages] /\ net[e] \in from
      /\ net' = [net EXCEPT ![e] = to]
      /\ Post(k, e) /\ UNCHANGED <<client, host, worked, denials>>
      /\ e \in Nat /\ e # 0
  BY BoundsAssumption DEF IInv, TypeOK, Callback, Epochs
<1>2. NetMoves
  BY <1>1 DEF NetMoves
<1>3. client.status # "idle"
  <2>1. client.epoch \in Nat /\ client.socket \in Nat
    BY DEF IInv, ClientOK, Base, ClientState
  <2>2. e < client.epoch \/ e = client.socket
    BY <1>1 DEF IInv, NetOK
  <2> QED
    BY <1>1, <2>1, <2>2 DEF IInv, ClientOK, NoSocket
<1>4. host' \in {"started", "stopping"}
  BY <1>1, <1>3 DEF IInv, TypeOK, IdleOK
<1>5. k \notin {"start", "stop"}
  BY DEF Callbacks, Frames, Works, Reasons, Pressure
<1>6. net'[e] = to
  BY <1>1
<1>7. /\ TypeOK' /\ IdleOK'
      /\ \A i \in 1 .. Len(inbox') : TaskOK(i)'
  BY <1>1, <1>2, <1>3, <1>4, <1>5, <1>6, PostOK
<1>8. ClientOK(client)'
  BY <1>1 DEF IInv
<1>9. NetOK'
  BY <1>1 DEF IInv, NetOK
<1>10. SessionOK'
  <2>1. client.connected => client.socket \in Epochs
    BY BoundsAssumption DEF IInv, ClientOK, Base, ClientState, NoSocket
  <2> QED
    BY <1>1, <1>2, <2>1 DEF IInv, SessionOK, NetMoves
<1> QED
  BY <1>7, <1>8, <1>9, <1>10 DEF IInv

-----------------------------------------------------------------------------
(* Each task preserves the invariant.                                      *)

LEMMA HostStartOK == IInv /\ HostStart => IInv'
<1> SUFFICES ASSUME IInv, HostStart PROVE IInv'
  OBVIOUS
<1>1. /\ Post("start", 0) /\ host' = "started" /\ inbox = <<>>
      /\ client.status = "idle" /\ UNCHANGED <<client, net, worked, denials>>
  BY DEF HostStart, IInv, IdleOK
<1>2. NetMoves
  BY <1>1 DEF IInv, TypeOK, NetMoves
<1>3. "start" \notin Callbacks
  BY DEF Callbacks, Frames, Works, Reasons, Pressure
<1>4. /\ TypeOK' /\ IdleOK'
      /\ \A i \in 1 .. Len(inbox') : TaskOK(i)'
  BY <1>1, <1>2, <1>3, PostOK DEF HostStart
<1> QED
  BY <1>1, <1>4 DEF IInv, NetOK, SessionOK

LEMMA HostStopOK == IInv /\ HostStop => IInv'
<1> SUFFICES ASSUME IInv, HostStop PROVE IInv'
  OBVIOUS
<1>1. /\ Post("stop", 0) /\ host' = "stopping" /\ host = "started"
      /\ UNCHANGED <<client, net, worked, denials>>
  BY DEF HostStop
<1>2. NetMoves
  BY <1>1 DEF IInv, TypeOK, NetMoves
<1>3. "stop" \notin Callbacks
  BY DEF Callbacks, Frames, Works, Reasons, Pressure
<1>4. client.status = "idle" => inbox # <<>>
  BY <1>1 DEF IInv, IdleOK
<1>5. /\ TypeOK' /\ IdleOK'
      /\ \A i \in 1 .. Len(inbox') : TaskOK(i)'
  BY <1>1, <1>2, <1>3, <1>4, PostOK
<1> QED
  BY <1>1, <1>5 DEF IInv, NetOK, SessionOK

(* A task that leaves the sockets alone moves them. *)
LEMMA StillOK == ASSUME IInv, UNCHANGED net PROVE NetMoves
BY DEF IInv, TypeOK, NetMoves

LEMMA RunRetiredOK == IInv /\ RunRetired => IInv'
<1> SUFFICES ASSUME IInv, RunRetired PROVE IInv'
  OBVIOUS
<1>1. Runs(Callbacks) /\ UNCHANGED <<client, net, host, worked, denials>>
  BY DEF RunRetired
<1>2. "start" \notin Callbacks
  BY DEF Callbacks, Frames, Works, Reasons, Pressure
<1>3. client.status # "idle"
  BY <1>1, <1>2, HeadOK
<1>4. ClientOK(client') /\ worked' \in BOOLEAN /\ denials' \in Nat /\ NetMoves
  BY <1>1, StillOK DEF IInv, TypeOK
<1>5. /\ TypeOK' /\ IdleOK'
      /\ \A i \in 1 .. Len(inbox') : TaskOK(i)'
  BY <1>1, <1>3, <1>4, RunOK
<1> QED
  BY <1>1, <1>5 DEF IInv, NetOK, SessionOK

LEMMA RunStartOK == IInv /\ RunStart => IInv'
<1> SUFFICES ASSUME IInv, RunStart PROVE IInv'
  OBVIOUS
<1>1. Runs({"start"}) /\ Dials /\ denials' = 0 /\ UNCHANGED <<host, worked>>
  BY DEF RunStart
<1>2. client.status = "idle"
  <2>1. TaskOK(1) /\ inbox[1].kind = "start"
    BY <1>1, HeadOK
  <2> QED
    BY <2>1 DEF TaskOK
<1>3. Ready(client) /\ client.epoch = 0
  BY <1>2 DEF IInv, ClientOK, Ready, Base, ClientState
<1>4. /\ ClientOK(client') /\ client'.status \notin {"idle", "connected"}
      /\ client'.epoch > client.epoch
  BY <1>3, StartClientOK DEF RunStart
<1>5. NetMoves /\ NetOK'
  BY <1>1, <1>4, DialsOK
<1>6. worked' \in BOOLEAN /\ denials' \in Nat
  BY <1>1 DEF IInv, TypeOK
<1>7. /\ TypeOK' /\ IdleOK'
      /\ \A i \in 1 .. Len(inbox') : TaskOK(i)'
  BY <1>1, <1>4, <1>5, <1>6, RunOK
<1> QED
  BY <1>4, <1>5, <1>7 DEF IInv, SessionOK, ClientOK

(* An end without a dial: the counter moves, the sockets stay. *)
LEMMA EndOK ==
  ASSUME IInv, ClientOK(client'), client'.epoch > client.epoch, UNCHANGED net
  PROVE  NetOK'
<1>2. client.epoch \in Nat /\ client'.epoch \in Nat /\ client.socket \in Nat
  BY DEF IInv, ClientOK, Base, ClientState
<1>3. client.socket # NoSocket => client.socket = client.epoch
  BY DEF IInv, ClientOK
<1>4. ASSUME NEW e \in Epochs, net'[e] # "none"
      PROVE  e < client'.epoch
  <2>1. e \in Nat /\ e # NoSocket
    BY BoundsAssumption DEF Epochs, NoSocket
  <2>2. e < client.epoch \/ e = client.socket
    BY <1>4 DEF IInv, NetOK
  <2> QED
    BY <1>2, <1>3, <2>1, <2>2
<1> QED
  BY <1>4 DEF NetOK

LEMMA RunStopOK == IInv /\ RunStop => IInv'
<1> SUFFICES ASSUME IInv, RunStop PROVE IInv'
  OBVIOUS
<1>1. /\ Runs({"stop"}) /\ client' = StopClient(client)
      /\ UNCHANGED <<net, host, worked, denials>>
  BY DEF RunStop
<1>2. /\ ClientOK(client') /\ client'.status = "stopped"
      /\ client'.epoch = client.epoch + 1
  BY <1>1, StopClientOK DEF IInv, ClientOK
<1>3. client'.epoch > client.epoch
  BY <1>2 DEF IInv, ClientOK, Base, ClientState
<1>4. NetMoves /\ NetOK'
  BY <1>1, <1>2, <1>3, StillOK, EndOK
<1>5. worked' \in BOOLEAN /\ denials' \in Nat
  BY <1>1 DEF IInv, TypeOK
<1>6. /\ TypeOK' /\ IdleOK'
      /\ \A i \in 1 .. Len(inbox') : TaskOK(i)'
  BY <1>1, <1>2, <1>4, <1>5, RunOK
<1> QED
  BY <1>2, <1>4, <1>6 DEF IInv, SessionOK, ClientOK

LEMMA RunOpenOK == IInv /\ RunOpen => IInv'
<1> SUFFICES ASSUME IInv, RunOpen PROVE IInv'
  OBVIOUS
<1>1. {"open"} \in SUBSET Callbacks
  BY DEF Callbacks
<1>2. /\ Runs({"open"}) /\ client.socket \in Epochs
      /\ net[client.socket] # "none" /\ client.status # "idle"
  BY <1>1, CurrentOK DEF RunOpen
<1>3. /\ UNCHANGED <<client, host, worked, denials>>
      /\ net \in [Epochs -> Stages]
      /\ net' = [net EXCEPT ![client.socket] =
                          IF @ = "open" THEN "greeted" ELSE @]
  BY DEF IInv, TypeOK, RunOpen
<1>4. NetMoves
  BY <1>2, <1>3 DEF NetMoves, Late, Stages
<1>5. ClientOK(client') /\ worked' \in BOOLEAN /\ denials' \in Nat
  BY <1>3 DEF IInv, TypeOK
<1>6. /\ TypeOK' /\ IdleOK'
      /\ \A i \in 1 .. Len(inbox') : TaskOK(i)'
  BY <1>2, <1>3, <1>4, <1>5, RunOK
<1>7. NetOK'
  BY <1>2, <1>3 DEF IInv, NetOK
<1>8. SessionOK'
  BY <1>2, <1>3, <1>4 DEF IInv, SessionOK, NetMoves
<1> QED
  BY <1>5, <1>6, <1>7, <1>8 DEF IInv

(* A frame that leaves the dial as it is. *)
LEMMA FrameOK ==
  ASSUME IInv, NEW kinds \in SUBSET Callbacks, Current(kinds),
         UNCHANGED <<net, host>>, worked' \in BOOLEAN, denials' \in Nat,
         ClientOK(client'), client'.status # "idle",
         client'.socket = client.socket, client'.epoch = client.epoch,
         client'.connected => net[client.socket] \in Late
  PROVE  IInv'
<1>1. Runs(kinds)
  BY CurrentOK
<1>2. NetMoves
  BY StillOK
<1>3. /\ TypeOK' /\ IdleOK'
      /\ \A i \in 1 .. Len(inbox') : TaskOK(i)'
  BY <1>1, <1>2, RunOK
<1> QED
  BY <1>3 DEF IInv, NetOK, SessionOK

LEMMA RunHelloAckOK == IInv /\ RunHelloAck => IInv'
<1> SUFFICES ASSUME IInv, RunHelloAck PROVE IInv'
  OBVIOUS
<1>1. /\ Current({"helloAck"}) /\ client' = OnHelloAck(client)
      /\ worked' = FALSE /\ UNCHANGED <<net, host, denials>>
  BY DEF RunHelloAck
<1>2. {"helloAck"} \in SUBSET Callbacks
  BY DEF Callbacks, Frames
<1>3. /\ TaskOK(1) /\ inbox[1].kind = "helloAck"
      /\ inbox[1].epoch = client.socket /\ client.socket # NoSocket
  BY <1>1, <1>2, CurrentOK
<1>4. net[client.socket] \in Late
  BY <1>3 DEF TaskOK
<1>5. ClientOK(client)
  BY DEF IInv
<1>6. /\ ClientOK(client') /\ client'.status = "connected"
      /\ client'.socket = client.socket /\ client'.epoch = client.epoch
  BY <1>1, <1>3, <1>5, OnHelloAckOK
<1>7. worked' \in BOOLEAN /\ denials' \in Nat
  BY <1>1 DEF IInv, TypeOK
<1> QED
  BY <1>1, <1>2, <1>4, <1>6, <1>7, FrameOK

LEMMA RunMessageOK == IInv /\ RunMessage => IInv'
<1> SUFFICES ASSUME IInv, RunMessage PROVE IInv'
  OBVIOUS
<1>1. /\ Current({"message"}) /\ client' = NoteSessionWork(client)
      /\ worked' = TRUE /\ denials' = 0 /\ UNCHANGED <<net, host>>
  BY DEF RunMessage
<1>2. {"message"} \in SUBSET Callbacks
  BY DEF Callbacks, Frames, Works
<1>3. client.status # "idle"
  BY <1>1, <1>2, CurrentOK
<1>4. ClientOK(client) /\ (client.connected => net[client.socket] \in Late)
  BY DEF IInv, SessionOK
<1>5. /\ ClientOK(client') /\ client'.status = client.status
      /\ client'.socket = client.socket /\ client'.epoch = client.epoch
      /\ client'.connected = client.connected
  BY <1>1, <1>4, NoteSessionWorkOK
<1> QED
  BY <1>1, <1>2, <1>3, <1>4, <1>5, FrameOK

LEMMA RunAckOK == IInv /\ RunAck => IInv'
<1> SUFFICES ASSUME IInv, RunAck PROVE IInv'
  OBVIOUS
<1> DEFINE accepted == Head(inbox).kind = "accepted"
<1>1. /\ Current({"accepted", "rejected"}) /\ client' = OnAck(client, accepted)
      /\ worked' = (worked \/ accepted)
      /\ denials' = (IF accepted THEN 0 ELSE denials)
      /\ UNCHANGED <<net, host>>
  BY DEF RunAck
<1>2. accepted \in BOOLEAN
  OBVIOUS
<1> HIDE DEF accepted
<1>3. {"accepted", "rejected"} \in SUBSET Callbacks
  BY DEF Callbacks, Frames, Works
<1>4. client.socket # NoSocket
  BY <1>1, <1>3, CurrentOK
<1>5. ClientOK(client) /\ (client.connected => net[client.socket] \in Late)
  BY DEF IInv, SessionOK
<1>6. /\ ClientOK(client') /\ client'.status # "idle"
      /\ client'.socket = client.socket /\ client'.epoch = client.epoch
      /\ client'.connected = client.connected
  BY <1>1, <1>2, <1>4, <1>5, OnAckOK
<1>7. worked' \in BOOLEAN /\ denials' \in Nat
  BY <1>1, <1>2 DEF IInv, TypeOK
<1> QED
  BY <1>1, <1>3, <1>5, <1>6, <1>7, FrameOK

LEMMA DenialOK ==
  ASSUME IInv, NEW r, Denial(r) PROVE denials' \in Nat
BY DEF IInv, TypeOK, Denial

LEMMA RunCloseOK == IInv /\ RunClose => IInv'
<1> SUFFICES ASSUME IInv, RunClose PROVE IInv'
  OBVIOUS
<1> DEFINE r == Head(inbox).kind
<1>1. /\ Current(Reasons) /\ Dials /\ Denial(r) /\ UNCHANGED <<host, worked>>
  BY DEF RunClose
<1>2. PICK throws \in BOOLEAN : client' = HandleClose(client, r, throws)
  BY DEF RunClose
<1>3. Reasons \in SUBSET Callbacks
  BY DEF Callbacks, Frames
<1>4. /\ Runs(Reasons) /\ TaskOK(1) /\ Head(inbox) = inbox[1] /\ r \in Reasons
      /\ inbox[1].epoch = client.epoch /\ client.socket # NoSocket
      /\ client.socket = client.epoch /\ client.epoch \in Epochs
  BY <1>1, <1>3, CurrentOK
<1>5. r = "stale" => client.epoch + 2 \in Epochs
  BY <1>4, BoundsAssumption DEF TaskOK, Epochs
<1> HIDE DEF r
<1>6. ClientOK(client)
  BY DEF IInv
<1>7. /\ ClientOK(client') /\ client'.status \notin {"idle", "connected"}
      /\ client'.epoch > client.epoch
  BY <1>2, <1>4, <1>5, <1>6, HandleCloseOK
<1>8. NetMoves /\ NetOK'
  BY <1>1, <1>7, DialsOK
<1>9. worked' \in BOOLEAN /\ denials' \in Nat
  BY <1>1, DenialOK DEF IInv, TypeOK
<1>10. /\ TypeOK' /\ IdleOK'
       /\ \A i \in 1 .. Len(inbox') : TaskOK(i)'
  BY <1>1, <1>4, <1>7, <1>8, <1>9, RunOK
<1> QED
  BY <1>7, <1>8, <1>10 DEF IInv, SessionOK, ClientOK

LEMMA RunGoneOK == IInv /\ RunGone => IInv'
<1> SUFFICES ASSUME IInv, RunGone PROVE IInv'
  OBVIOUS
<1>1. /\ Current({"gone"}) /\ client' = HandleDisconnect(client, FALSE)
      /\ Denial("gone") /\ UNCHANGED <<net, host, worked>>
  BY DEF RunGone
<1>2. {"gone"} \in SUBSET Callbacks
  BY DEF Callbacks
<1>3. Runs({"gone"})
  BY <1>1, <1>2, CurrentOK
<1>4. Base(client) /\ client.epoch \in Nat
  BY DEF IInv, ClientOK, Base, ClientState
<1>5. /\ ClientOK(client') /\ client'.status \notin {"idle", "connected"}
      /\ client'.epoch = client.epoch + 1
  BY <1>1, <1>4, HandleDisconnectOK
<1>6. NetMoves /\ NetOK'
  <2>1. client'.epoch > client.epoch
    BY <1>4, <1>5
  <2> QED
    BY <1>1, <1>5, <2>1, StillOK, EndOK
<1>7. worked' \in BOOLEAN /\ denials' \in Nat
  BY <1>1, DenialOK DEF IInv, TypeOK
<1>8. /\ TypeOK' /\ IdleOK'
      /\ \A i \in 1 .. Len(inbox') : TaskOK(i)'
  BY <1>1, <1>3, <1>5, <1>6, <1>7, RunOK
<1> QED
  BY <1>5, <1>6, <1>8 DEF IInv, SessionOK, ClientOK

LEMMA ReconnectFiresOK == IInv /\ ReconnectFires => IInv'
<1> SUFFICES ASSUME IInv, ReconnectFires PROVE IInv'
  OBVIOUS
<1> DEFINE d == [client EXCEPT !.timers = @ - 1, !.held = FALSE]
<1>1. /\ client.timers > 0 /\ client.epoch < MaxEpoch /\ Dials
      /\ UNCHANGED <<inbox, host, worked, denials>>
  BY DEF ReconnectFires
<1>2. PICK throws \in BOOLEAN : client' = OpenSocket(d, throws)
  BY DEF ReconnectFires
<1>3. ClientOK(client) /\ client.epoch \in Nat
  BY DEF IInv, ClientOK, Base, ClientState
<1>4. Ready(d) /\ d.stopped = FALSE /\ d.epoch = client.epoch
  BY <1>1, <1>3, TimerOK
<1> HIDE DEF d
<1>5. d.epoch + 1 \in Epochs
  BY <1>1, <1>3, <1>4, BoundsAssumption DEF Epochs
<1>6. /\ ClientOK(client') /\ client'.status \notin {"idle", "connected"}
      /\ client'.epoch > client.epoch
  BY <1>2, <1>4, <1>5, OpenSocketOK
<1>7. NetMoves /\ NetOK'
  BY <1>1, <1>6, DialsOK
<1>8. client.status # "idle"
  BY <1>1, <1>3 DEF ClientOK, Base
<1>9. TypeOK'
  BY <1>1, <1>6, <1>7 DEF IInv, TypeOK, NetMoves, ClientOK, Base
<1>10. ASSUME NEW i \in 1 .. Len(inbox') PROVE TaskOK(i)'
  <2>1. TaskOK(i)
    BY <1>1, <1>10 DEF IInv
  <2> QED
    BY <1>1, <1>7, <1>8, <2>1 DEF TaskOK, NetMoves, Callbacks, Frames
<1>11. IdleOK'
  BY <1>1, <1>6, <1>8 DEF IInv, IdleOK
<1> QED
  BY <1>6, <1>7, <1>9, <1>10, <1>11 DEF IInv, SessionOK, ClientOK

LEMMA PollFailsOK == IInv /\ PollFails => IInv'
<1> SUFFICES ASSUME IInv, PollFails PROVE IInv'
  OBVIOUS
<1>1. /\ client' = CancelPoll(client)
      /\ UNCHANGED <<inbox, net, host, worked, denials>>
  BY DEF PollFails
<1>2. ClientOK(client)
  BY DEF IInv
<1>3. /\ ClientOK(client') /\ client'.status = client.status
      /\ client'.socket = client.socket /\ client'.connected = client.connected
      /\ client'.epoch = client.epoch
  BY <1>1, <1>2, CancelPollOK
<1>4. TypeOK'
  BY <1>1, <1>3 DEF IInv, TypeOK, ClientOK, Base
<1>5. ASSUME NEW i \in 1 .. Len(inbox') PROVE TaskOK(i)'
  BY <1>1, <1>3, <1>5 DEF IInv, TaskOK
<1> QED
  BY <1>1, <1>3, <1>4, <1>5 DEF IInv, NetOK, SessionOK, IdleOK

(* The callbacks of one socket. *)
LEMMA SocketOK ==
  ASSUME IInv, NEW e \in Epochs,
         \/ Opens(e) \/ Greets(e) \/ Drops(e)
         \/ \E f \in Works \cup {"rejected"} : Feeds(e, f)
         \/ \E r \in Reasons : Refuses(e, r)
  PROVE  IInv'
<1>1. /\ {"open", "gone", "helloAck", "rejected"} \cup Works \cup Reasons
           \subseteq Callbacks
      /\ "helloAck" \notin Works \cup Reasons \cup {"rejected", "open", "gone"}
      /\ "stale" \notin Works \cup {"rejected", "open", "gone", "helloAck"}
      /\ {"open", "session", "refused", "gone"} \subseteq Stages \ {"none"}
      /\ "none" \notin Alive \cup {"dialing", "refused"}
  BY DEF Callbacks, Frames, Works, Reasons, Pressure, Stages, Alive
<1>2. CASE Opens(e)
  BY <1>1, <1>2, CallbackOK DEF Opens, Late
<1>3. CASE Greets(e)
  BY <1>1, <1>3, CallbackOK DEF Greets, Late
<1>4. CASE Drops(e)
  BY <1>1, <1>4, CallbackOK DEF Drops, Late
<1>5. ASSUME NEW f \in Works \cup {"rejected"}, Feeds(e, f) PROVE IInv'
  BY <1>1, <1>5, CallbackOK DEF Feeds, Late
<1>6. ASSUME NEW r \in Reasons, Refuses(e, r) PROVE IInv'
  BY <1>1, <1>6, CallbackOK DEF Refuses, Late
<1> QED
  BY <1>2, <1>3, <1>4, <1>5, <1>6

-----------------------------------------------------------------------------
LEMMA InitOK == Init => IInv
<1> SUFFICES ASSUME Init PROVE IInv
  OBVIOUS
<1>1. client \in ClientState
  BY DEF Init, ClientState, NoSocket, Statuses
<1>2. TypeOK
  <2>1. inbox \in Seq(Task) /\ net \in [Epochs -> Stages]
    BY DEF Init, Stages
  <2> QED
    BY <1>1, <2>1 DEF Init, TypeOK
<1>3. ClientOK(client)
  BY <1>1 DEF Init, ClientOK, Base, NoSocket, Finals
<1>4. NetOK /\ SessionOK
  BY DEF Init, NetOK, SessionOK
<1>5. inbox = <<>> /\ Len(inbox) = 0 /\ IdleOK
  BY DEF Init, IdleOK
<1> QED
  BY <1>2, <1>3, <1>4, <1>5 DEF IInv

LEMMA NextOK == IInv /\ [Next]_vars => IInv'
<1> SUFFICES ASSUME IInv, [Next]_vars PROVE IInv'
  OBVIOUS
<1>1. CASE RunTask
  BY <1>1, RunRetiredOK, RunStartOK, RunStopOK, RunOpenOK, RunHelloAckOK,
     RunMessageOK, RunAckOK, RunCloseOK, RunGoneOK DEF RunTask
<1>2. CASE HostStart \/ HostStop \/ ReconnectFires \/ PollFails
  BY <1>2, HostStartOK, HostStopOK, ReconnectFiresOK, PollFailsOK
<1>3. ASSUME NEW e \in Epochs,
             \/ Opens(e) \/ Greets(e) \/ Drops(e)
             \/ \E f \in Works \cup {"rejected"} : Feeds(e, f)
             \/ \E r \in Reasons : Refuses(e, r)
      PROVE  IInv'
  BY <1>3, SocketOK
<1>4. CASE UNCHANGED vars
  BY <1>4 DEF IInv, TypeOK, NetOK, SessionOK, TaskOK, IdleOK, vars
<1> QED
  BY <1>1, <1>2, <1>3, <1>4 DEF Next

(* The strengthened invariant holds of every reachable state. *)
THEOREM Inductive == Spec => []IInv
BY InitOK, NextOK, PTL DEF Spec

(* Every field keeps its type: the counters of the dial, the reconnects    *)
(* and the streak never go below zero, whatever callbacks race.            *)
THEOREM TypeCorrect == Spec => []TypeOK
<1>1. IInv => TypeOK
  BY DEF IInv
<1> QED
  BY <1>1, Inductive, PTL

(* A running client is driven by exactly one socket or one reconnect, and  *)
(* one that has ended by neither (handleDisconnect, SB-51, SB-53).         *)
THEOREM DriverCorrect == Spec => []OneDriver
<1>1. IInv => OneDriver
  BY DEF IInv, ClientOK, Base, OneDriver, Running
<1> QED
  BY <1>1, Inductive, PTL

(* No socket is left open that the client does not drive (closeSocket).    *)
THEOREM SocketsCorrect == Spec => []NoOrphanSocket
<1>1. IInv => NoOrphanSocket
  BY DEF IInv, ClientOK, Base, NoOrphanSocket, Running
<1> QED
  BY <1>1, Inductive, PTL

(* "connected" is a session, and the poll does not outlive it (onHelloAck, *)
(* cancelTimers).                                                          *)
THEOREM SessionCorrect == Spec => []ConnectedMeansSession
<1>1. IInv => ConnectedMeansSession
  <2>1. IInv => client \in ClientState
    BY DEF IInv, ClientOK, Base
  <2> QED
    BY <2>1 DEF IInv, ClientOK, SessionOK, Late, ConnectedMeansSession,
       ClientState
<1> QED
  BY <1>1, Inductive, PTL

-----------------------------------------------------------------------------
(* An end is final (handleAuthRequired, handleReplaced, stop): no late     *)
(* callback and no timer reopens the client or renames its end.            *)
THEOREM FinalityCorrect == Spec => EndIsFinal
<1> DEFINE A == client.status \in Finals /\ client'.status # client.status
                  => client'.status = "stopped" /\ host = "stopping"
<1>1. IInv /\ [Next]_vars => [A]_<<client, host>>
  <2> SUFFICES ASSUME IInv, [Next]_vars, client.status \in Finals,
                      client'.status # client.status
               PROVE  client'.status = "stopped" /\ host = "stopping"
    OBVIOUS
  <2>1. /\ client.stopped /\ client.status # "idle" /\ client.timers # 1
        /\ client.timers \in {0, 1}
    BY DEF IInv, ClientOK, Base, Finals
  <2>2. ASSUME NEW kinds \in SUBSET Callbacks, Current(kinds) PROVE FALSE
    BY <2>1, <2>2, CurrentOK
  <2>3. CASE RunStop
    <3>1. /\ Runs({"stop"}) /\ client' = StopClient(client)
      BY <2>3 DEF RunStop
    <3>2. host = "stopping"
      BY <3>1, HeadOK DEF TaskOK
    <3> QED
      BY <3>1, <3>2, StopClientOK DEF IInv, ClientOK
  <2>4. CASE RunStart
    <3>1. TaskOK(1) /\ inbox[1].kind = "start"
      BY <2>4, HeadOK DEF RunStart
    <3> QED
      BY <2>1, <3>1 DEF TaskOK
  <2>5. CASE \/ RunOpen \/ RunHelloAck \/ RunMessage \/ RunAck \/ RunClose
             \/ RunGone
    BY <2>2, <2>5 DEF RunOpen, RunHelloAck, RunMessage, RunAck, RunClose,
       RunGone, Callbacks, Frames, Works
  <2>6. CASE ReconnectFires \/ PollFails
    BY <2>1, <2>6 DEF ReconnectFires, PollFails
  <2>7. CASE \/ HostStart \/ HostStop \/ RunRetired \/ UNCHANGED vars
    BY <2>7 DEF HostStart, HostStop, RunRetired, vars
  <2>8. CASE \E e \in Epochs :
               \/ Opens(e) \/ Greets(e) \/ Drops(e)
               \/ \E f \in Works \cup {"rejected"} : Feeds(e, f)
               \/ \E r \in Reasons : Refuses(e, r)
    BY <2>8 DEF Opens, Greets, Drops, Feeds, Refuses, Callback
  <2> QED
    BY <2>3, <2>4, <2>5, <2>6, <2>7, <2>8 DEF Next, RunTask
<1> QED
  BY <1>1, Inductive, PTL DEF Spec, EndIsFinal

-----------------------------------------------------------------------------
(* The refinement.                                                         *)

(* A dial, as the lifecycle sees it. *)
LEMMA AttemptOK ==
  ASSUME IInv, ClientOK(client'), client'.status # "idle", ~client'.stopped,
         client'.epoch > client.epoch
  PROVE  Life!Attempt
<1>1. /\ client.epoch \in Nat /\ client'.epoch \in Nat
      /\ client.unclosed = {client.socket} \ {NoSocket}
      /\ client'.unclosed = {client'.socket} \ {NoSocket}
      /\ client'.unclosed \in SUBSET Epochs
  BY DEF IInv, ClientOK, Base, ClientState
<1>2. CASE client'.socket = NoSocket
  BY <1>1, <1>2 DEF ClientOK, Life!Attempt
<1>3. CASE client'.socket # NoSocket
  <2>1. client'.socket = client'.epoch /\ client'.timers = 0
    BY <1>3 DEF ClientOK, Base
  <2>2. client'.unclosed = {client'.socket} /\ client'.socket \in Epochs
    BY <1>1, <1>3
  <2>3. client'.socket \notin client.unclosed
    <3>1. client.socket # NoSocket => client.socket = client.epoch
      BY DEF IInv, ClientOK
    <3> QED
      BY <1>1, <2>1, <3>1
  <2> QED
    BY <2>1, <2>2, <2>3 DEF Life!Attempt
<1> QED
  BY <1>2, <1>3

(* A client that ends, or stays ended. *)
LEMMA EndsOK ==
  ASSUME IInv, ClientOK(client'), client'.stopped, client'.status # "idle",
         client.status # "idle"
  PROVE  [Life!Next]_Life!vars
<1>1. client'.unclosed = {} /\ client'.timers = 0
  BY DEF ClientOK, Base
<1>2. CASE client.stopped
  <2>1. client.unclosed = {} /\ client.timers = 0
    BY <1>2 DEF IInv, ClientOK, Base
  <2> QED
    BY <1>1, <1>2, <2>1 DEF Life!vars
<1>3. CASE ~client.stopped
  BY <1>1, <1>3 DEF Life!Next, Life!End
<1> QED
  BY <1>2, <1>3

(* A step that leaves the dial as it is. *)
LEMMA StutterOK ==
  ASSUME IInv, ClientOK(client'), client'.socket = client.socket,
         client'.stopped = client.stopped,
         (client'.status = "idle") = (client.status = "idle")
  PROVE  UNCHANGED Life!vars
<1>1. client'.unclosed = client.unclosed
  BY DEF IInv, ClientOK, Base
<1>2. client'.timers = client.timers
  BY DEF IInv, ClientOK, Base
<1> QED
  BY <1>1, <1>2 DEF Life!vars

LEMMA StepOK == IInv /\ IInv' /\ [Next]_vars => [Life!Next]_Life!vars
<1> SUFFICES ASSUME IInv, IInv', [Next]_vars PROVE [Life!Next]_Life!vars
  OBVIOUS
<1>1. ClientOK(client) /\ ClientOK(client')
  BY DEF IInv
<1>2. CASE RunStart
  <2>1. TaskOK(1) /\ inbox[1].kind = "start"
    BY <1>2, HeadOK DEF RunStart
  <2>2. client.status = "idle"
    BY <2>1 DEF TaskOK
  <2>3. Ready(client) /\ client.epoch = 0
    BY <1>1, <2>2 DEF ClientOK, Ready, Base, ClientState
  <2>4. /\ client'.status \notin {"idle", "connected"}
        /\ client'.stopped = FALSE /\ client'.epoch > client.epoch
    BY <1>2, <2>3, StartClientOK DEF RunStart
  <2> QED
    BY <1>1, <2>2, <2>4, AttemptOK DEF Life!Next, Life!Start
<1>3. CASE RunStop
  <2>1. Runs({"stop"}) /\ client' = StopClient(client)
    BY <1>3 DEF RunStop
  <2>2. client.status # "idle"
    BY <2>1, HeadOK
  <2>3. client'.stopped = TRUE /\ client'.status = "stopped"
    BY <1>1, <2>1, StopClientOK DEF ClientOK
  <2> QED
    BY <1>1, <2>2, <2>3, EndsOK
<1>4. CASE RunClose \/ RunGone
  <2> DEFINE r == Head(inbox).kind
  <2>1. PICK kinds \in SUBSET Callbacks :
               Current(kinds) /\ kinds \in {Reasons, {"gone"}}
    BY <1>4 DEF RunClose, RunGone, Callbacks, Frames
  <2>2. /\ TaskOK(1) /\ Head(inbox) = inbox[1] /\ r \in kinds
        /\ inbox[1].epoch = client.epoch /\ client.socket # NoSocket
        /\ client.epoch \in Epochs /\ ~client.stopped /\ client.status # "idle"
    BY <2>1, CurrentOK
  <2>3. r = "stale" => client.epoch + 2 \in Epochs
    BY <2>2, BoundsAssumption DEF TaskOK, Epochs
  <2>4. client'.status # "idle" /\ client'.epoch > client.epoch
    <3>1. CASE RunClose
      <4>1. PICK throws \in BOOLEAN : client' = HandleClose(client, r, throws)
        BY <3>1 DEF RunClose
      <4>2. r \in Reasons
        BY <3>1 DEF RunClose, Current, Runs
      <4> HIDE DEF r
      <4> QED
        BY <1>1, <2>2, <2>3, <4>1, <4>2, HandleCloseOK
    <3>2. CASE RunGone
      <4>1. client' = HandleDisconnect(client, FALSE) /\ Base(client)
        BY <1>1, <3>2 DEF RunGone, ClientOK
      <4>2. client'.epoch = client.epoch + 1 /\ client'.status # "idle"
        BY <4>1, HandleDisconnectOK
      <4>3. client.epoch \in Nat
        BY <1>1 DEF ClientOK, Base, ClientState
      <4> QED
        BY <4>2, <4>3
    <3> QED
      BY <1>4, <3>1, <3>2
  <2>5. CASE client'.stopped
    BY <1>1, <2>2, <2>4, <2>5, EndsOK
  <2>6. CASE ~client'.stopped
    <3>1. client.unclosed # {}
      BY <1>1, <2>2 DEF ClientOK, Base
    <3> QED
      BY <1>1, <2>2, <2>4, <2>6, <3>1, AttemptOK DEF Life!Next, Life!Renew
  <2> QED
    BY <2>5, <2>6
<1>5. CASE ReconnectFires
  <2> DEFINE d == [client EXCEPT !.timers = @ - 1, !.held = FALSE]
  <2>1. client.timers > 0 /\ client.epoch < MaxEpoch
    BY <1>5 DEF ReconnectFires
  <2>2. PICK throws \in BOOLEAN : client' = OpenSocket(d, throws)
    BY <1>5 DEF ReconnectFires
  <2>3. Ready(d) /\ d.stopped = FALSE /\ d.epoch = client.epoch
    BY <1>1, <2>1, TimerOK
  <2> HIDE DEF d
  <2>4. d.epoch + 1 \in Epochs
    BY <1>1, <2>1, <2>3, BoundsAssumption
       DEF Epochs, ClientOK, Base, ClientState
  <2>5. /\ client'.status \notin {"idle", "connected"}
        /\ client'.stopped = FALSE /\ client'.epoch > client.epoch
    BY <2>2, <2>3, <2>4, OpenSocketOK
  <2>6. client.status # "idle" /\ ~client.stopped /\ client.timers = 1
    BY <1>1, <2>1 DEF ClientOK, Base
  <2> QED
    BY <1>1, <2>5, <2>6, AttemptOK DEF Life!Next, Life!Redial
<1>6. CASE RunHelloAck
  <2>1. client.socket # NoSocket /\ client.status # "idle"
    BY <1>6, CurrentOK DEF RunHelloAck, Callbacks, Frames
  <2>2. /\ client'.stopped = client.stopped /\ client'.socket = client.socket
        /\ client'.status = "connected"
    BY <1>1, <1>6, <2>1, OnHelloAckOK DEF RunHelloAck
  <2> QED
    BY <1>1, <2>1, <2>2, StutterOK
<1>7. CASE RunMessage
  <2>1. /\ client'.stopped = client.stopped /\ client'.socket = client.socket
        /\ client'.status = client.status
    BY <1>1, <1>7, NoteSessionWorkOK DEF RunMessage
  <2> QED
    BY <1>1, <2>1, StutterOK
<1>8. CASE RunAck
  <2>1. {"accepted", "rejected"} \in SUBSET Callbacks
    BY DEF Callbacks, Frames, Works
  <2>2. client.socket # NoSocket /\ client.status # "idle"
    BY <1>8, <2>1, CurrentOK DEF RunAck
  <2>3. PICK b \in BOOLEAN : client' = OnAck(client, b)
    BY <1>8 DEF RunAck
  <2>4. /\ client'.stopped = client.stopped /\ client'.socket = client.socket
        /\ client'.status # "idle"
    BY <1>1, <2>2, <2>3, OnAckOK
  <2> QED
    BY <1>1, <2>2, <2>4, StutterOK
<1>9. CASE PollFails
  <2>1. /\ client'.stopped = client.stopped /\ client'.socket = client.socket
        /\ client'.status = client.status
    BY <1>1, <1>9, CancelPollOK DEF PollFails
  <2> QED
    BY <1>1, <2>1, StutterOK
<1>10. CASE UNCHANGED client
  BY <1>1, <1>10, StutterOK
<1>11. CASE \E e \in Epochs :
               \/ Opens(e) \/ Greets(e) \/ Drops(e)
               \/ \E f \in Works \cup {"rejected"} : Feeds(e, f)
               \/ \E r \in Reasons : Refuses(e, r)
  BY <1>10, <1>11 DEF Opens, Greets, Drops, Feeds, Refuses, Callback
<1>12. CASE HostStart \/ HostStop \/ RunRetired \/ RunOpen \/ UNCHANGED vars
  BY <1>10, <1>12 DEF HostStart, HostStop, RunRetired, RunOpen, vars
<1> QED
  BY <1>2, <1>3, <1>4, <1>5, <1>6, <1>7, <1>8, <1>9, <1>11, <1>12
     DEF Next, RunTask

(* The Android socket client implements SocketLifecycle: one open socket   *)
(* or one pending reconnect while it runs, neither once it has ended.      *)
THEOREM RefinementCorrect == Spec => ImplementsLifecycle
<1>1. Init => Life!Init
  BY DEF Init, Life!Init
<1> QED
  BY <1>1, StepOK, Inductive, PTL DEF Spec, ImplementsLifecycle, Life!Spec

-----------------------------------------------------------------------------
(* The backoff climbs.  What a record of the client, the session's work    *)
(* and the streak say of each other: a reset that can be taken back goes   *)
(* back far enough, and a session that did no work can take it back.       *)
Climbs(c, w, n) ==
  ~c.stopped =>
    /\ c.armed => c.before >= n
    /\ ~c.connected => c.attempts >= n
    /\ c.connected => IF w THEN n = 0 ELSE c.armed

(* A socket's HelloAck is queued once, and before the session it begins.   *)
HelloOnce ==
  /\ \A i, j \in 1 .. Len(inbox) :
       /\ inbox[i].kind = "helloAck" /\ inbox[j].kind = "helloAck"
       /\ inbox[i].epoch = inbox[j].epoch
       => i = j
  /\ client.connected =>
       \A i \in 1 .. Len(inbox) :
         inbox[i].kind = "helloAck" => inbox[i].epoch # client.socket

ClimbOK == HelloOnce /\ Climbs(client, worked, denials)

(* What the client's functions do to its counts.                           *)
SameCounts(c, d) ==
  d.attempts = c.attempts /\ d.before = c.before /\ d.armed = c.armed

LEMMA CountsKept ==
  ASSUME NEW c \in ClientState
  PROVE  /\ \A s \in Statuses : SameCounts(c, PublishState(c, s))
         /\ SameCounts(c, CancelPoll(c))
         /\ SameCounts(c, CancelTimers(c))
         /\ SameCounts(c, CloseSocket(c))
         /\ SameCounts(c, ScheduleReconnect(c))
         /\ SameCounts(c, SchedulePoll(c))
         /\ \A k \in BOOLEAN : SameCounts(c, [c EXCEPT !.connected = k])
BY DEF SameCounts, PublishState, CancelPoll, CancelTimers, CloseSocket,
       ScheduleReconnect, SchedulePoll, ClientState

LEMMA ShutCounts ==
  ASSUME NEW c, Base(c)
  PROVE  SameCounts(c, Shut(c))
<1>1. c \in ClientState /\ CancelTimers(c) \in ClientState
  BY CancelTimersOK DEF Base
<1>2. SameCounts(c, CancelTimers(c))
  BY <1>1, CountsKept
<1>3. SameCounts(CancelTimers(c), CloseSocket(CancelTimers(c)))
  BY <1>1, CountsKept
<1> QED
  BY <1>2, <1>3 DEF SameCounts, Shut

(* A disconnect counts an attempt, on top of those a shed takes back.      *)
LEMMA DisconnectCounts ==
  ASSUME NEW c, Base(c), ~c.stopped, NEW shed \in BOOLEAN
  PROVE  /\ HandleDisconnect(c, shed).attempts =
              (IF shed /\ c.armed THEN c.before ELSE c.attempts) + 1
         /\ HandleDisconnect(c, shed).before = c.before
         /\ HandleDisconnect(c, shed).armed <=> c.armed /\ ~shed
<1> DEFINE f    == [c EXCEPT !.connected = FALSE]
           d    == Shut(f)
           g    == Forfeit(d, shed)
           next == [g EXCEPT !.attempts = @ + 1]
           r    == PublishState(next, "reconnecting")
<1>1. HandleDisconnect(c, shed) = ScheduleReconnect(r)
  BY DEF HandleDisconnect, Shut
<1>2. c \in ClientState
  BY DEF Base
<1>3. Base(f) /\ SameCounts(c, f)
  BY <1>2, FlagsOK, CountsKept
<1> HIDE DEF f
<1>4. d \in ClientState /\ SameCounts(f, d)
  BY <1>3, ShutOK, ShutCounts DEF Base
<1>5. SameCounts(c, d)
  BY <1>3, <1>4 DEF SameCounts
<1> HIDE DEF d
<1>6. /\ g \in ClientState
      /\ g.attempts = IF shed /\ c.armed THEN c.before ELSE c.attempts
      /\ g.before = c.before
      /\ g.armed <=> c.armed /\ ~shed
  <2>1. g \in ClientState
    BY <1>4, ForfeitOK
  <2>2. CASE shed /\ c.armed
    BY <1>4, <1>5, <2>1, <2>2 DEF Forfeit, SameCounts, ClientState
  <2>3. CASE ~(shed /\ c.armed)
    <3>1. g = d
      BY <1>5, <2>3 DEF Forfeit, SameCounts
    <3> QED
      BY <1>5, <2>1, <2>3, <3>1 DEF SameCounts
  <2> QED
    BY <2>1, <2>2, <2>3
<1> HIDE DEF g
<1>7. /\ next \in ClientState /\ next.attempts = g.attempts + 1
      /\ next.before = g.before /\ next.armed = g.armed
  BY <1>6 DEF ClientState
<1> HIDE DEF next
<1>8. "reconnecting" \in Statuses
  BY DEF Statuses
<1>9. r \in ClientState /\ SameCounts(next, r)
  BY <1>7, <1>8, PublishStateOK, CountsKept
<1> HIDE DEF r
<1>10. SameCounts(r, ScheduleReconnect(r))
  BY <1>9, CountsKept
<1>11. SameCounts(next, HandleDisconnect(c, shed))
  BY <1>1, <1>9, <1>10 DEF SameCounts
<1> DEFINE h == HandleDisconnect(c, shed)
           n == IF shed /\ c.armed THEN c.before ELSE c.attempts
<1>12. /\ h.attempts = next.attempts /\ h.before = next.before
       /\ h.armed <=> next.armed
  BY <1>11 DEF SameCounts
<1> HIDE DEF h
<1>13. g.attempts = n
  BY <1>6
<1> HIDE DEF n
<1>14. h.attempts = n + 1
  BY <1>7, <1>12, <1>13
<1>15. h.before = c.before /\ (h.armed <=> c.armed /\ ~shed)
  BY <1>6, <1>7, <1>12
<1> QED
  BY <1>14, <1>15 DEF h, n

(* A dial keeps the counts; one that is refused at once counts, too.       *)
LEMMA OpenCounts ==
  ASSUME NEW c, Ready(c), ~c.stopped, c.epoch + 1 \in Epochs,
         NEW throws \in BOOLEAN
  PROVE  /\ OpenSocket(c, throws).attempts >= c.attempts
         /\ OpenSocket(c, throws).before = c.before
         /\ OpenSocket(c, throws).armed <=> c.armed
<1> DEFINE s == IF c.attempts = 0 THEN "connecting" ELSE "reconnecting"
           p == PublishState(c, s)
           d == [p EXCEPT !.epoch = @ + 1]
           o == [d EXCEPT !.socket = d.epoch, !.unclosed = @ \cup {d.epoch}]
<1>1. OpenSocket(c, throws) = IF throws THEN HandleDisconnect(d, FALSE) ELSE o
  BY DEF OpenSocket
<1>2. /\ c \in ClientState /\ c.timers = 0 /\ c.held = FALSE
      /\ c.unclosed = {} /\ c.socket = NoSocket /\ c.attempts \in Nat
  BY DEF Ready, Base, ClientState
<1>3. s \in Statuses
  BY DEF Statuses
<1> HIDE DEF s
<1>4. /\ p \in ClientState /\ p.timers = 0 /\ p.held = FALSE /\ p.unclosed = {}
      /\ p.socket = NoSocket /\ p.stopped = c.stopped /\ SameCounts(c, p)
  BY <1>2, <1>3, PublishStateOK, CountsKept
<1> HIDE DEF p
<1>5. /\ d \in ClientState /\ d.timers = 0 /\ d.held = FALSE /\ d.unclosed = {}
      /\ d.socket = NoSocket /\ d.stopped = c.stopped
      /\ d.attempts = c.attempts /\ d.before = c.before /\ d.armed = c.armed
  BY <1>4 DEF ClientState, SameCounts
<1> HIDE DEF d
<1>6. CASE throws
  <2>1. Base(d) /\ ~d.stopped
    BY <1>5 DEF Base
  <2> DEFINE h == HandleDisconnect(d, FALSE)
  <2>2. h.attempts = d.attempts + 1 /\ h.before = d.before /\ (h.armed <=> d.armed)
    BY <2>1, DisconnectCounts
  <2>3. OpenSocket(c, throws) = h
    BY <1>1, <1>6
  <2> HIDE DEF h
  <2>4. h.attempts >= c.attempts
    BY <1>2, <1>5, <2>2
  <2> QED
    BY <1>5, <2>2, <2>3, <2>4
<1>7. CASE ~throws
  <2>1. o.attempts = d.attempts /\ o.before = d.before /\ o.armed = d.armed
    BY <1>5 DEF ClientState
  <2> QED
    BY <1>1, <1>2, <1>5, <1>7, <2>1
<1> QED
  BY <1>6, <1>7

(* A new client without a session climbs where the streak is over.         *)
LEMMA OverClimbs ==
  ASSUME NEW c, ClientOK(c), ~c.connected, NEW w
  PROVE  Climbs(c, w, 0)
<1>1. c.attempts >= 0 /\ c.before >= 0
  BY DEF ClientOK, Base, ClientState
<1> QED
  BY <1>1 DEF Climbs

LEMMA DisconnectClimbs ==
  ASSUME IInv, Climbs(client, worked, denials), ~client.stopped,
         NEW r, r # "stale", NEW shed \in BOOLEAN, shed <=> r = "shed",
         Denial(r), worked' = worked, client' = HandleDisconnect(client, shed)
  PROVE  Climbs(client', worked', denials')
<1>1. /\ Base(client) /\ denials \in Nat /\ worked \in BOOLEAN
      /\ client.attempts \in Nat /\ client.before \in Nat
      /\ client.armed \in BOOLEAN /\ client.connected \in BOOLEAN
  BY DEF IInv, TypeOK, ClientOK, Base, ClientState
<1>2. ClientOK(client') /\ client'.status \notin {"idle", "connected"}
  BY <1>1, HandleDisconnectOK
<1>3. ~client'.connected
  BY <1>2 DEF ClientOK
<1>4. /\ client'.attempts =
           (IF shed /\ client.armed THEN client.before ELSE client.attempts) + 1
      /\ client'.before = client.before
      /\ client'.armed <=> client.armed /\ ~shed
  BY <1>1, DisconnectCounts
<1>5. CASE denials' = 0
  BY <1>2, <1>3, <1>5, OverClimbs
<1>6. CASE ~client.connected
  <2>1. denials' = denials
    BY <1>6 DEF Denial
  <2>2. /\ client.attempts >= denials
        /\ client.armed => client.before >= denials
    BY <1>6 DEF Climbs
  <2> QED
    BY <1>1, <1>3, <1>4, <2>1, <2>2 DEF Climbs
<1>7. CASE client.connected /\ shed /\ ~worked
  <2>1. denials' = denials + 1
    BY <1>7 DEF Denial
  <2>2. client.armed /\ client.before >= denials
    BY <1>7 DEF Climbs
  <2>3. client'.attempts = client.before + 1 /\ ~client'.armed
    BY <1>4, <1>7, <2>2
  <2>4. client'.attempts >= denials'
    BY <1>1, <2>1, <2>2, <2>3
  <2> QED
    BY <1>3, <2>3, <2>4 DEF Climbs
<1>8. client.connected /\ ~(shed /\ ~worked) => denials' = 0
  BY DEF Denial
<1> QED
  BY <1>5, <1>6, <1>7, <1>8

(* Taking a task, and adding one.                                          *)
LEMMA HelloTail ==
  ASSUME IInv, HelloOnce, NEW kinds, Runs(kinds),
         client'.connected => client.connected /\ client'.socket = client.socket
  PROVE  HelloOnce'
<1>1. inbox \in Seq(Task) /\ inbox # <<>> /\ inbox' = Tail(inbox)
  BY DEF IInv, TypeOK, Runs
<1>2. ASSUME NEW i \in 1 .. Len(inbox')
      PROVE  i \in Nat /\ i + 1 \in 1 .. Len(inbox) /\ inbox'[i] = inbox[i + 1]
  BY <1>1, <1>2, TailOK
<1>3. ASSUME NEW i \in 1 .. Len(inbox'), NEW j \in 1 .. Len(inbox'),
             inbox'[i].kind = "helloAck", inbox'[j].kind = "helloAck",
             inbox'[i].epoch = inbox'[j].epoch
      PROVE  i = j
  <2>1. i + 1 = j + 1
    BY <1>2, <1>3 DEF HelloOnce
  <2> QED
    BY <1>2, <2>1
<1>4. ASSUME client'.connected, NEW i \in 1 .. Len(inbox'),
             inbox'[i].kind = "helloAck"
      PROVE  inbox'[i].epoch # client'.socket
  BY <1>2, <1>4 DEF HelloOnce
<1> QED
  BY <1>3, <1>4 DEF HelloOnce

LEMMA HelloAppend ==
  ASSUME IInv, HelloOnce, UNCHANGED client,
         NEW k \in {"start", "stop"} \cup Callbacks, NEW e \in Nat, Post(k, e),
         k = "helloAck" => e \in Epochs /\ net[e] \notin Late
  PROVE  HelloOnce'
<1> DEFINE t == [kind |-> k, epoch |-> e]
<1>1. /\ inbox \in Seq(Task) /\ inbox' = Append(inbox, t)
      /\ t \in Task /\ t.kind = k /\ t.epoch = e
  BY DEF IInv, TypeOK, Post, Task
<1> HIDE DEF t
<1>2. ASSUME NEW i \in 1 .. Len(inbox')
      PROVE  \/ i \in 1 .. Len(inbox) /\ inbox'[i] = inbox[i]
             \/ i = Len(inbox) + 1 /\ inbox'[i] = t
  BY <1>1, <1>2, AppendOK
<1>3. ASSUME NEW i \in 1 .. Len(inbox), inbox[i].kind = "helloAck",
             k = "helloAck"
      PROVE  inbox[i].epoch # e
  <2>1. TaskOK(i)
    BY DEF IInv
  <2> QED
    BY <1>3, <2>1 DEF TaskOK
<1>4. ASSUME NEW i \in 1 .. Len(inbox'), NEW j \in 1 .. Len(inbox'),
             inbox'[i].kind = "helloAck", inbox'[j].kind = "helloAck",
             inbox'[i].epoch = inbox'[j].epoch
      PROVE  i = j
  <2>1. CASE i \in 1 .. Len(inbox) /\ inbox'[i] = inbox[i]
    <3>1. ~(j = Len(inbox) + 1 /\ inbox'[j] = t)
      BY <1>1, <1>3, <1>4, <2>1
    <3> QED
      BY <1>2, <1>4, <2>1, <3>1 DEF HelloOnce
  <2>2. CASE i = Len(inbox) + 1 /\ inbox'[i] = t
    <3>1. ~(j \in 1 .. Len(inbox) /\ inbox'[j] = inbox[j])
      BY <1>1, <1>3, <1>4, <2>2
    <3> QED
      BY <1>2, <1>4, <2>2, <3>1
  <2> QED
    BY <1>2, <2>1, <2>2
<1>5. ASSUME client.connected, NEW i \in 1 .. Len(inbox'),
             inbox'[i].kind = "helloAck"
      PROVE  inbox'[i].epoch # client.socket
  <2>1. CASE i \in 1 .. Len(inbox) /\ inbox'[i] = inbox[i]
    BY <1>5, <2>1 DEF HelloOnce
  <2>2. CASE inbox'[i] = t
    <3>1. net[client.socket] \in Late
      BY <1>5 DEF IInv, SessionOK
    <3> QED
      BY <1>1, <1>5, <2>2, <3>1
  <2> QED
    BY <1>2, <2>1, <2>2
<1> QED
  BY <1>4, <1>5 DEF HelloOnce

LEMMA CallbackClimbs ==
  ASSUME IInv, ClimbOK, NEW e \in Epochs, NEW from, NEW to,
         NEW k \in Callbacks, Callback(e, from, to, k),
         k = "helloAck" => from \cap Late = {}
  PROVE  ClimbOK'
<1>1. /\ Post(k, e) /\ net[e] \in from
      /\ UNCHANGED <<client, worked, denials>> /\ e \in Nat
  BY BoundsAssumption DEF Callback, Epochs
<1>2. HelloOnce'
  BY <1>1, HelloAppend DEF ClimbOK
<1> QED
  BY <1>1, <1>2 DEF ClimbOK

LEMMA SocketClimbs ==
  ASSUME IInv, ClimbOK, NEW e \in Epochs,
         \/ Opens(e) \/ Greets(e) \/ Drops(e)
         \/ \E f \in Works \cup {"rejected"} : Feeds(e, f)
         \/ \E r \in Reasons : Refuses(e, r)
  PROVE  ClimbOK'
<1>1. /\ {"open", "gone", "helloAck", "rejected"} \cup Works \cup Reasons
           \subseteq Callbacks
      /\ "helloAck" \notin Works \cup Reasons \cup {"rejected", "open", "gone"}
      /\ {"greeted"} \cap Late = {}
  BY DEF Callbacks, Frames, Works, Reasons, Pressure, Late
<1>2. CASE Opens(e)
  BY <1>1, <1>2, CallbackClimbs DEF Opens
<1>3. CASE Greets(e)
  BY <1>1, <1>3, CallbackClimbs DEF Greets
<1>4. CASE Drops(e)
  BY <1>1, <1>4, CallbackClimbs DEF Drops
<1>5. ASSUME NEW f \in Works \cup {"rejected"}, Feeds(e, f) PROVE ClimbOK'
  BY <1>1, <1>5, CallbackClimbs DEF Feeds
<1>6. ASSUME NEW r \in Reasons, Refuses(e, r) PROVE ClimbOK'
  BY <1>1, <1>6, CallbackClimbs DEF Refuses
<1> QED
  BY <1>2, <1>3, <1>4, <1>5, <1>6

LEMMA HostClimbs == IInv /\ ClimbOK /\ (HostStart \/ HostStop) => ClimbOK'
<1> SUFFICES ASSUME IInv, ClimbOK, HostStart \/ HostStop PROVE ClimbOK'
  OBVIOUS
<1>1. UNCHANGED <<client, worked, denials>> /\ (Post("start", 0) \/ Post("stop", 0))
  BY DEF HostStart, HostStop
<1>2. HelloOnce'
  BY <1>1, HelloAppend DEF ClimbOK
<1> QED
  BY <1>1, <1>2 DEF ClimbOK

(* The client's own steps.                                                 *)
LEMMA QuietClimbs ==
  IInv /\ ClimbOK /\ (RunRetired \/ RunOpen \/ PollFails) => ClimbOK'
<1> SUFFICES ASSUME IInv, ClimbOK PROVE RunRetired \/ RunOpen \/ PollFails => ClimbOK'
  OBVIOUS
<1>1. CASE RunRetired \/ RunOpen
  <2>1. /\ Runs(Callbacks) \/ Runs({"open"})
        /\ UNCHANGED <<client, worked, denials>>
    BY <1>1 DEF RunRetired, RunOpen, Current
  <2>2. HelloOnce'
    BY <2>1, HelloTail DEF ClimbOK
  <2> QED
    BY <2>1, <2>2 DEF ClimbOK
<1>2. CASE PollFails
  <2>1. /\ client' = CancelPoll(client)
        /\ UNCHANGED <<inbox, worked, denials>>
        /\ ClientOK(client) /\ client \in ClientState
    BY <1>2 DEF PollFails, IInv, ClientOK, Base
  <2>2. /\ SameCounts(client, client') /\ client'.stopped = client.stopped
        /\ client'.connected = client.connected
        /\ client'.socket = client.socket
    BY <2>1, CountsKept, CancelPollOK
  <2> QED
    BY <2>1, <2>2 DEF ClimbOK, HelloOnce, Climbs, SameCounts
<1> QED
  BY <1>1, <1>2

LEMMA StartClimbs == IInv /\ ClimbOK /\ RunStart => ClimbOK'
<1> SUFFICES ASSUME IInv, ClimbOK, RunStart PROVE ClimbOK'
  OBVIOUS
<1>1. IInv'
  BY RunStartOK
<1>2. Runs({"start"}) /\ denials' = 0
  BY DEF RunStart
<1>3. client.status = "idle"
  <2>1. TaskOK(1) /\ inbox[1].kind = "start"
    BY <1>2, HeadOK
  <2> QED
    BY <2>1 DEF TaskOK
<1>4. Ready(client) /\ client.epoch = 0
  BY <1>3 DEF IInv, ClientOK, Ready, Base, ClientState
<1>5. ClientOK(client') /\ client'.status # "connected"
  BY <1>4, StartClientOK DEF RunStart
<1>6. ~client'.connected
  BY <1>5 DEF ClientOK
<1> QED
  BY <1>2, <1>5, <1>6, OverClimbs, HelloTail DEF ClimbOK

LEMMA StopClimbs == IInv /\ ClimbOK /\ RunStop => ClimbOK'
<1> SUFFICES ASSUME IInv, ClimbOK, RunStop PROVE ClimbOK'
  OBVIOUS
<1>1. Runs({"stop"}) /\ client' = StopClient(client)
  BY DEF RunStop
<1>2. ClientOK(client') /\ client'.status = "stopped"
  BY <1>1, StopClientOK DEF IInv, ClientOK
<1>3. client'.stopped /\ ~client'.connected
  BY <1>2 DEF ClientOK, Finals
<1> QED
  BY <1>1, <1>3, HelloTail DEF ClimbOK, Climbs

(* The one step that begins a session: the counts of a dial without one.   *)
LEMMA HelloAckClimbs == IInv /\ ClimbOK /\ RunHelloAck => ClimbOK'
<1> SUFFICES ASSUME IInv, ClimbOK, RunHelloAck PROVE ClimbOK'
  OBVIOUS
<1>1. /\ Current({"helloAck"}) /\ client' = OnHelloAck(client)
      /\ worked' = FALSE /\ denials' = denials
  BY DEF RunHelloAck
<1>2. {"helloAck"} \in SUBSET Callbacks
  BY DEF Callbacks, Frames
<1>3. /\ Runs({"helloAck"}) /\ inbox[1].kind = "helloAck"
      /\ inbox[1].epoch = client.socket /\ client.socket # NoSocket
      /\ ~client.stopped
  BY <1>1, <1>2, CurrentOK
<1>4. inbox \in Seq(Task) /\ inbox # <<>> /\ inbox' = Tail(inbox)
  BY <1>3 DEF IInv, TypeOK, Runs
<1>5. 1 \in 1 .. Len(inbox)
  BY <1>4, TailOK
<1>6. ~client.connected
  BY <1>3, <1>5 DEF ClimbOK, HelloOnce
<1>7. /\ client \in ClientState /\ denials \in Nat
      /\ client.attempts >= denials
  BY <1>3, <1>6 DEF ClimbOK, Climbs, IInv, TypeOK
<1>8. /\ client'.socket = client.socket
      /\ client'.before = client.attempts /\ client'.armed = TRUE
      /\ client'.connected = TRUE
  <2> DEFINE f == [client EXCEPT !.connected = TRUE]
             n == NoteHelloAck(f)
             p == PublishState(n, "connected")
  <2>1. f \in ClientState /\ f.attempts = client.attempts
    BY <1>7 DEF ClientState
  <2>2. client' = SchedulePoll(p)
    BY <1>1 DEF OnHelloAck
  <2> HIDE DEF f
  <2>3. n \in ClientState /\ n.before = client.attempts /\ n.armed = TRUE
    BY <2>1 DEF NoteHelloAck, ClientState
  <2> HIDE DEF n
  <2>4. "connected" \in Statuses
    BY DEF Statuses
  <2>5. p \in ClientState /\ SameCounts(n, p)
    BY <2>3, <2>4, PublishStateOK, CountsKept
  <2> HIDE DEF p
  <2>6. SameCounts(p, client')
    BY <2>2, <2>5, CountsKept
  <2>7. /\ client'.socket = client.socket /\ client'.status = "connected"
        /\ ClientOK(client')
    BY <1>1, <1>3, OnHelloAckOK DEF IInv
  <2> QED
    BY <2>3, <2>5, <2>6, <2>7 DEF SameCounts, ClientOK, Base, ClientState
<1>9. ASSUME NEW i \in 1 .. Len(inbox')
      PROVE  /\ i \in Nat /\ i + 1 \in 1 .. Len(inbox) /\ i + 1 # 1
             /\ inbox'[i] = inbox[i + 1]
  BY <1>4, <1>9, TailOK
<1>10. ASSUME NEW i \in 1 .. Len(inbox'), inbox'[i].kind = "helloAck"
       PROVE  inbox'[i].epoch # client'.socket
  BY <1>3, <1>5, <1>8, <1>9, <1>10 DEF ClimbOK, HelloOnce
<1>11. ASSUME NEW i \in 1 .. Len(inbox'), NEW j \in 1 .. Len(inbox'),
              inbox'[i].kind = "helloAck", inbox'[j].kind = "helloAck",
              inbox'[i].epoch = inbox'[j].epoch
       PROVE  i = j
  <2>1. i + 1 = j + 1
    BY <1>9, <1>11 DEF ClimbOK, HelloOnce
  <2> QED
    BY <1>9, <2>1
<1>12. HelloOnce'
  BY <1>10, <1>11 DEF HelloOnce
<1>13. Climbs(client', worked', denials')
  BY <1>1, <1>7, <1>8 DEF Climbs
<1> QED
  BY <1>12, <1>13 DEF ClimbOK

(* Work ends the streak; a rejected report changes neither.                *)
LEMMA WorkClimbs == IInv /\ ClimbOK /\ (RunMessage \/ RunAck) => ClimbOK'
<1> SUFFICES ASSUME IInv, ClimbOK, RunMessage \/ RunAck PROVE ClimbOK'
  OBVIOUS
<1> DEFINE rejected == ~RunMessage /\ Head(inbox).kind # "accepted"
<1>1. PICK kinds \in SUBSET Callbacks : Current(kinds)
  BY DEF RunMessage, RunAck, Callbacks, Frames, Works
<1>2. Runs(kinds) /\ client.socket # NoSocket /\ ~client.stopped
  BY <1>1, CurrentOK
<1>3. ClientOK(client) /\ client \in ClientState
  BY DEF IInv, ClientOK, Base
<1>4. CASE ~rejected
  <2>1. /\ client' = NoteSessionWork(client)
        /\ worked' = TRUE /\ denials' = 0
    BY <1>4 DEF RunMessage, RunAck, OnAck
  <2>2. /\ client'.connected = client.connected
        /\ client'.socket = client.socket /\ ClientOK(client')
    BY <1>3, <2>1, NoteSessionWorkOK
  <2>3. /\ client'.attempts >= 0 /\ client'.before >= 0
    BY <2>2 DEF ClientOK, Base, ClientState
  <2>4. Climbs(client', worked', denials')
    BY <2>1, <2>3 DEF Climbs
  <2> QED
    BY <1>2, <2>2, <2>4, HelloTail DEF ClimbOK
<1>5. CASE rejected
  <2> DEFINE s == CurrentStatus(client)
  <2>1. /\ client' = PublishState(client, s)
        /\ (worked' <=> worked) /\ denials' = denials
    BY <1>5 DEF RunMessage, RunAck, OnAck
  <2>2. s \in Statuses
    BY DEF CurrentStatus, Statuses, Finals
  <2> HIDE DEF s
  <2>3. /\ SameCounts(client, client') /\ client'.stopped = client.stopped
        /\ client'.connected = client.connected
        /\ client'.socket = client.socket
    BY <1>3, <2>1, <2>2, CountsKept, PublishStateOK
  <2>4. Climbs(client', worked', denials')
    BY <2>1, <2>3 DEF ClimbOK, Climbs, SameCounts
  <2> QED
    BY <1>2, <2>3, <2>4, HelloTail DEF ClimbOK
<1> QED
  BY <1>4, <1>5

(* The ends of a dial.                                                     *)
LEMMA CloseClimbs == IInv /\ ClimbOK /\ RunClose => ClimbOK'
<1> SUFFICES ASSUME IInv, ClimbOK, RunClose PROVE ClimbOK'
  OBVIOUS
<1> DEFINE r == Head(inbox).kind
<1>1. Current(Reasons) /\ Denial(r) /\ worked' = worked
  BY DEF RunClose
<1>2. PICK throws \in BOOLEAN : client' = HandleClose(client, r, throws)
  BY DEF RunClose
<1>3. Reasons \in SUBSET Callbacks
  BY DEF Callbacks, Frames
<1>4. /\ Runs(Reasons) /\ TaskOK(1) /\ Head(inbox) = inbox[1] /\ r \in Reasons
      /\ inbox[1].epoch = client.epoch /\ client.socket # NoSocket
      /\ client.socket = client.epoch /\ client.epoch \in Epochs
      /\ ~client.stopped
  BY <1>1, <1>3, CurrentOK
<1>5. r = "stale" => client.epoch + 2 \in Epochs
  BY <1>4, BoundsAssumption DEF TaskOK, Epochs
<1> HIDE DEF r
<1>6. ClientOK(client) /\ Base(client)
  BY DEF IInv, ClientOK
<1>7. ClientOK(client') /\ client'.status # "connected"
  BY <1>2, <1>4, <1>5, <1>6, HandleCloseOK
<1>8. ~client'.connected
  BY <1>7 DEF ClientOK
<1>9. HelloOnce'
  BY <1>4, <1>8, HelloTail DEF ClimbOK
<1>10. CASE r = "stale"
  <2>1. denials' = 0
    BY <1>1, <1>10 DEF Denial
  <2> QED
    BY <1>7, <1>8, <1>9, <2>1, OverClimbs DEF ClimbOK
<1>11. CASE r \in {"unauthorized", "bg_resumed"}
  <2>1. client' = Retire(client, "auth_required") \/ client' = Retire(client, "replaced")
    BY <1>2, <1>11 DEF HandleClose
  <2>2. client'.status \in Finals
    BY <1>6, <2>1, RetireOK DEF Finals
  <2> QED
    BY <1>7, <1>9, <2>2 DEF ClimbOK, Climbs, ClientOK
<1>12. CASE r \in Pressure
  <2> DEFINE shed == r = "shed"
  <2>1. client' = HandleDisconnect(client, shed) /\ r # "stale"
    BY <1>2, <1>12 DEF HandleClose, Pressure
  <2>2. shed \in BOOLEAN /\ (shed <=> r = "shed")
    OBVIOUS
  <2> HIDE DEF shed
  <2>3. Climbs(client', worked', denials')
    BY <1>1, <1>4, <2>1, <2>2, DisconnectClimbs DEF ClimbOK
  <2> QED
    BY <1>9, <2>3 DEF ClimbOK
<1> QED
  BY <1>4, <1>10, <1>11, <1>12 DEF Reasons

LEMMA GoneClimbs == IInv /\ ClimbOK /\ RunGone => ClimbOK'
<1> SUFFICES ASSUME IInv, ClimbOK, RunGone PROVE ClimbOK'
  OBVIOUS
<1>1. /\ Current({"gone"}) /\ client' = HandleDisconnect(client, FALSE)
      /\ Denial("gone") /\ worked' = worked
  BY DEF RunGone
<1>2. {"gone"} \in SUBSET Callbacks
  BY DEF Callbacks
<1>3. Runs({"gone"}) /\ ~client.stopped
  BY <1>1, <1>2, CurrentOK
<1>4. Climbs(client', worked', denials')
  BY <1>1, <1>3, DisconnectClimbs DEF ClimbOK
<1>5. ClientOK(client') /\ client'.status # "connected"
  BY <1>1, HandleDisconnectOK DEF IInv, ClientOK
<1>6. ~client'.connected
  BY <1>5 DEF ClientOK
<1> QED
  BY <1>3, <1>4, <1>6, HelloTail DEF ClimbOK

LEMMA ReconnectClimbs == IInv /\ ClimbOK /\ ReconnectFires => ClimbOK'
<1> SUFFICES ASSUME IInv, ClimbOK, ReconnectFires PROVE ClimbOK'
  OBVIOUS
<1> DEFINE d == [client EXCEPT !.timers = @ - 1, !.held = FALSE]
<1>1. /\ client.timers > 0 /\ client.epoch < MaxEpoch
      /\ UNCHANGED <<inbox, worked, denials>>
  BY DEF ReconnectFires
<1>2. PICK throws \in BOOLEAN : client' = OpenSocket(d, throws)
  BY DEF ReconnectFires
<1>3. /\ ClientOK(client) /\ client.epoch \in Nat /\ client.attempts \in Nat
      /\ denials \in Nat
  BY DEF IInv, TypeOK, ClientOK, Base, ClientState
<1>4. Ready(d) /\ d.stopped = FALSE /\ d.epoch = client.epoch
  BY <1>1, <1>3, TimerOK
<1>5. SameCounts(client, d)
  BY <1>3 DEF SameCounts, ClientOK, Base, ClientState
<1> HIDE DEF d
<1>6. d.epoch + 1 \in Epochs
  BY <1>1, <1>3, <1>4, BoundsAssumption DEF Epochs
<1>7. ClientOK(client') /\ client'.status # "connected"
  BY <1>2, <1>4, <1>6, OpenSocketOK
<1>8. /\ client'.attempts >= d.attempts /\ client'.before = d.before
      /\ client'.armed <=> d.armed
  BY <1>2, <1>4, <1>6, OpenCounts
<1>9. ~client.connected /\ ~client.stopped
  BY <1>1, <1>3 DEF ClientOK, Base
<1>10. ~client'.connected /\ client'.attempts \in Nat
  BY <1>7 DEF ClientOK, Base, ClientState
<1>11. /\ client.attempts >= denials
       /\ client.armed => client.before >= denials
  BY <1>9 DEF ClimbOK, Climbs
<1>12. Climbs(client', worked', denials')
  BY <1>1, <1>3, <1>5, <1>8, <1>10, <1>11 DEF Climbs, SameCounts
<1> QED
  BY <1>1, <1>10, <1>12 DEF ClimbOK, HelloOnce

LEMMA ClimbInit == Init => ClimbOK
BY DEF Init, ClimbOK, Climbs, HelloOnce

LEMMA ClimbNext == IInv /\ ClimbOK /\ [Next]_vars => ClimbOK'
<1> SUFFICES ASSUME IInv, ClimbOK, [Next]_vars PROVE ClimbOK'
  OBVIOUS
<1>1. CASE RunTask
  BY <1>1, QuietClimbs, StartClimbs, StopClimbs, HelloAckClimbs, WorkClimbs,
     CloseClimbs, GoneClimbs DEF RunTask
<1>2. CASE HostStart \/ HostStop \/ ReconnectFires \/ PollFails
  BY <1>2, HostClimbs, ReconnectClimbs, QuietClimbs
<1>3. ASSUME NEW e \in Epochs,
             \/ Opens(e) \/ Greets(e) \/ Drops(e)
             \/ \E f \in Works \cup {"rejected"} : Feeds(e, f)
             \/ \E r \in Reasons : Refuses(e, r)
      PROVE  ClimbOK'
  BY <1>3, SocketClimbs
<1>4. CASE UNCHANGED vars
  BY <1>4 DEF ClimbOK, HelloOnce, vars
<1> QED
  BY <1>1, <1>2, <1>3, <1>4 DEF Next

(* Denials in a row climb the backoff (SB-45).                             *)
THEOREM ClimbCorrect == Spec => []DenialsClimb
<1>1. IInv /\ ClimbOK => DenialsClimb
  BY DEF IInv, ClientOK, ClimbOK, Climbs, DenialsClimb, Running
<1> QED
  BY <1>1, InitOK, NextOK, ClimbInit, ClimbNext, PTL DEF Spec
=============================================================================
