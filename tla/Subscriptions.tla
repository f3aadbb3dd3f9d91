--------------------------- MODULE Subscriptions ---------------------------
(***************************************************************************)
(* Identity and subscription of src/index.tsx: the queue (runExclusive)    *)
(* that setIdentity, removeIdentity, the relay switch and every check of   *)
(* the device go through, the fingerprint of the last Subscribe, and the   *)
(* push-socket facade that takes its JWT from here.                        *)
(*                                                                         *)
(* A step is what JS does between two awaits; the stored JWT and the       *)
(* fingerprint are read and written by the operation on turn alone, so a   *)
(* read of either belongs to the step that uses it.                        *)
(***************************************************************************)
EXTENDS PushSocketFacade, FiniteSets

CONSTANTS
  Users,       (* the identities a host signs                              *)
  MaxTokens,   (* FCM hands out device tokens 1..MaxTokens, each once      *)
  Scenarios    (* the switch at first, and what host and platform may do   *)

Kinds == {"initialize", "setIdentity", "removeIdentity", "setRelayEnabled",
          "setDeviceToken", "start", "stop", "rotate", "restart"}

ASSUME SubscriptionsAssumption ==
  /\ Users # {}
  /\ MaxTokens \in Nat \ {0}
  /\ Scenarios \subseteq [relay : BOOLEAN, calls : [Kinds -> Nat]]

NoToken == 0
OwnToken == -1                       (* the one a host gives setDeviceToken *)
Tokens == 1 .. MaxTokens \cup {OwnToken}

(* getDeviceInfo().backgroundService, the device fact that moves while the *)
(* app runs; the last is the answer of a native that fails.                *)
Infos == {"off", "running", "ready", "failed"}

NoRecord == [token |-> NoToken, info |-> "failed"]
Records == [token : Tokens \cup {NoToken}, info : Infos]

(* A call waiting for its turn: what it is, with the user, the token, or   *)
(* the position of the switch it is about. *)
Ops == [kind : {"setIdentity"}, user : Users]
  \cup [kind : {"removeIdentity"}]
  \cup [kind : {"check"}, token : Tokens \cup {NoToken}]
  \cup [kind : {"applySwitch", "setRelayEnabled"}, enabled : BOOLEAN]

NoOp == [at |-> "idle", token |-> NoToken, info |-> "failed", cred |-> NoJwt]

VARIABLES
  queue,       (* _subscribeLock: the calls that have not settled          *)
  op,          (* the place of the oldest of them, and what it has read    *)
  up,          (* initialize() has run in this process                     *)
  minted,      (* the user of every JWT so far                             *)
  fcm,         (* FCM's token for this install                             *)
  captured,    (* native has it (latestToken)                              *)
  provided,    (* setDeviceToken was called in this process                *)
  record,      (* the fingerprint on file                                  *)
  persisted,   (* the relay switch on file                                 *)
  backend,     (* what the push API has for each device token              *)
  event,       (* an onDeviceInfoChanged on its way to JS                  *)
  timer,       (* its debounce                                             *)
  left,        (* how often each kind of call may still be made            *)
  gaps         (* history: why the backend may not have what it should     *)

deviceVars == <<fcm, captured, provided>>
subVars == <<queue, op, up, minted, deviceVars, record, persisted,
             backend, event, timer, left, gaps>>
vars == <<facadeVars, subVars>>

NoSubscription == [user |-> "nobody", info |-> "failed"]

Init ==
  /\ FacadeInit
  /\ queue = <<>> /\ op = NoOp
  /\ up = FALSE
  /\ minted = <<>>
  /\ fcm = 1 /\ captured = FALSE /\ provided = FALSE
  /\ record = NoRecord
  /\ backend = [t \in Tokens |-> NoSubscription]
  /\ event = FALSE /\ timer = FALSE
  /\ \E scenario \in Scenarios : relay = scenario.relay /\ left = scenario.calls
  /\ persisted = relay
  /\ gaps = {}
-----------------------------------------------------------------------------
Info == IF ~relay THEN "off" ELSE IF native # NoJwt THEN "running" ELSE "ready"

(* getDeviceToken *)
DeviceToken == IF provided THEN OwnToken ELSE IF captured THEN fcm ELSE NoToken

User(token) == minted[token]

(* DeviceInfoChangeNotifier: every change is told to a JS that listens. *)
TellInfo == event' = (event \/ (up /\ Info' # Info))

Spend(kinds) ==
  /\ \A k \in kinds : left[k] > 0
  /\ left' = [k \in Kinds |-> IF k \in kinds THEN left[k] - 1 ELSE left[k]]

(* runExclusive *)
Enqueue(call) == queue' = Append(queue, call)

Calling(kinds) == queue # <<>> /\ Head(queue).kind \in kinds
OnTurn(kinds, place) == Calling(kinds) /\ op.at = place
Reach(place) == op' = [op EXCEPT !.at = place] /\ UNCHANGED queue

EndOp == op' = NoOp /\ queue' = Tail(queue)

(* Mutant of EndFailed: a failure poisons the queue. *)
EndFailedPoisons == op' = [NoOp EXCEPT !.at = "failed"] /\ UNCHANGED queue

(* A failure goes to the caller, the queue goes on. *)
EndFailed == EndOp

IdentityCalls == {"setIdentity", "removeIdentity"}

(* Mutant of Resolved: removeIdentity asks for no refresh. *)
ResolvedUnrefreshed ==
  /\ EndOp
  /\ IF Calling({"setIdentity"}) THEN Queue("refresh") ELSE UNCHANGED sockets
  /\ UNCHANGED astray

(* The call resolves; an identity call then asks for a refresh. *)
Resolved ==
  /\ EndOp
  /\ IF Calling(IdentityCalls) THEN Queue("refresh") ELSE UNCHANGED sockets
  /\ UNCHANGED astray

(* It rejects: no refresh, whether it has changed the JWT or not. *)
Rejected(changed) ==
  /\ EndFailed
  /\ UNCHANGED sockets
  /\ astray' = IF changed THEN astray \cup {"unrefreshed"} ELSE astray

Continues(place) == Reach(place) /\ UNCHANGED <<sockets, astray>>

(* What no step of the queue's operations touches. *)
rest == <<requested, active, polling, turn, up, deviceVars, timer, left>>
identity == <<jwt, minted>>
socket == <<relay, persisted, native, event>>
-----------------------------------------------------------------------------
(* resubscribeIfChanged *)
Check ==
  /\ OnTurn({"check"}, "idle") \/ op.at = "rechecking"
  /\ LET override == IF Calling({"check"}) THEN Head(queue).token ELSE NoToken
         token == IF override # NoToken THEN override ELSE DeviceToken
     IN  \/ /\ jwt = NoJwt \/ token = NoToken
            /\ NoFault /\ Resolved /\ UNCHANGED gaps
         \/ /\ jwt # NoJwt /\ token # NoToken /\ NoFault
            /\ op' = [op EXCEPT !.at = "info", !.token = token, !.cred = jwt]
            /\ UNCHANGED <<queue, sockets, astray, gaps>>
         \/ /\ Fault                       (* the keychain or native throws *)
            /\ Rejected(FALSE) /\ gaps' = gaps \cup {"missed"}
  /\ UNCHANGED <<rest, identity, socket, record, backend>>

(* Mutant of Skips: compares the token alone. *)
SkipsOnToken(info) == ~Calling({"setIdentity"}) /\ record.token = op.token

(* onlyIfChanged, of every Subscribe but setIdentity's *)
Skips(info) ==
  /\ ~Calling({"setIdentity"})
  /\ record = [token |-> op.token, info |-> info]

(* A Subscribe without device info, or of a token that is no longer the    *)
(* device's, does not bring the backend up to date. *)
Owed(info) ==
  IF info = "failed" \/ op.token # DeviceToken THEN {"missed"} ELSE {}

(* subscribeWith up to its Subscribe; a record that cannot be read is none. *)
FetchInfo ==
  /\ op.at = "info"
  /\ \E info \in {Info, "failed"}, unreadable \in {FALSE, Skips(Info)} :
       /\ IF info = "failed" \/ unreadable THEN Fault ELSE NoFault
       /\ IF Skips(info) /\ ~unreadable
          THEN /\ Resolved
               /\ gaps' = (gaps \ {"missed"}) \cup Owed(info)
          ELSE /\ op' = [op EXCEPT !.at = "subscribing", !.info = info]
               /\ UNCHANGED <<queue, sockets, astray, gaps>>
  /\ UNCHANGED <<rest, identity, socket, record, backend>>

Subscribed == [backend EXCEPT ![op.token] = [user |-> User(op.cred), info |-> op.info]]

(* Mutant of Sent: the fingerprint of what the device is by now. *)
SentNow == [token |-> op.token, info |-> Info]

(* The fingerprint of what was sent. *)
Sent == [token |-> op.token, info |-> op.info]

SubscribeAnswered ==
  /\ op.at = "subscribing"
  /\ backend' = Subscribed
  /\ \/ /\ NoFault
        /\ record' = Sent /\ Resolved
        /\ gaps' = (gaps \cap {"ghost"}) \cup Owed(op.info)
     \/ /\ Fault /\ UNCHANGED record        (* writeLastSent throws, or the *)
        /\ gaps' = gaps \cup {"record"}     (* fingerprint is not written   *)
        /\ Resolved \/ Rejected(Calling({"setIdentity"}))
  /\ UNCHANGED <<rest, identity, socket>>

(* The Subscribe is refused, or its answer is lost. *)
SubscribeFails ==
  /\ op.at = "subscribing" /\ Fault
  /\ \/ UNCHANGED backend /\ gaps' = gaps \cup {"missed"}
     \/ backend' = Subscribed /\ gaps' = gaps \cup {"missed", "record"}
  /\ Rejected(Calling({"setIdentity"}))
  /\ UNCHANGED <<rest, identity, socket, record>>

(* generateToken: the model's hash is not in the stored JSON, so every call *)
(* mints and stores a new JWT.                                             *)
Mint ==
  /\ OnTurn({"setIdentity"}, "idle")
  /\ \/ /\ NoFault
        /\ minted' = Append(minted, Head(queue).user)
        /\ jwt' = Len(minted')
        /\ gaps' = gaps \cup {"user"}
        /\ Continues("token")
     \/ Fault /\ Rejected(FALSE) /\ UNCHANGED <<identity, gaps>>
  /\ UNCHANGED <<rest, socket, record, backend>>

(* setIdentity's Subscribe, if there is a device token *)
PickToken ==
  /\ op.at = "token"
  /\ \/ /\ DeviceToken # NoToken /\ NoFault
        /\ op' = [op EXCEPT !.at = "info", !.token = DeviceToken, !.cred = jwt]
        /\ UNCHANGED <<queue, sockets, astray>>
     \/ DeviceToken = NoToken /\ NoFault /\ Resolved
     \/ Fault /\ Rejected(TRUE)
  /\ UNCHANGED <<rest, identity, socket, record, backend, gaps>>

(* Mutant of Unsubscribe: the JWT goes first, and none is left to do it with. *)
UnsubscribeTooLate ==
  /\ OnTurn({"removeIdentity"}, "idle")
  /\ NoFault /\ Continues("deleting")
  /\ UNCHANGED <<rest, identity, socket, record, backend, gaps>>

(* removeIdentity on its turn *)
Unsubscribe ==
  /\ OnTurn({"removeIdentity"}, "idle")
  /\ \/ /\ jwt # NoJwt /\ DeviceToken # NoToken /\ NoFault
        /\ op' = [op EXCEPT !.at = "unsubscribing", !.token = DeviceToken, !.cred = jwt]
        /\ UNCHANGED <<queue, sockets, astray, gaps>>
     \/ /\ jwt = NoJwt \/ DeviceToken = NoToken
        /\ NoFault /\ Continues("deleting")
        /\ gaps' = IF jwt = NoJwt THEN gaps ELSE gaps \cup {"ghost"}
     \/ Fault /\ Rejected(FALSE) /\ gaps' = gaps \cup {"missed"}
  /\ UNCHANGED <<rest, identity, socket, record, backend>>

(* The push API forgets the token if it has it for the user of the JWT. *)
Unsubscribed ==
  IF backend[op.token].user = User(op.cred)
  THEN [backend EXCEPT ![op.token] = NoSubscription]
  ELSE backend

UnsubscribeAnswered ==
  /\ op.at = "unsubscribing"
  /\ \/ /\ NoFault
        /\ backend' = Unsubscribed
        /\ gaps' = gaps \cup {"record"}
             \cup (IF gaps \cap {"user", "missed"} # {} THEN {"ghost"} ELSE {})
     \/ Fault /\ UNCHANGED backend /\ gaps' = gaps \cup {"ghost"}
  /\ Continues("deleting")
  /\ UNCHANGED <<rest, identity, socket, record>>

DeleteToken ==
  /\ op.at = "deleting"
  /\ \/ NoFault /\ jwt' = NoJwt /\ Continues("clearing") /\ UNCHANGED gaps
     \/ Fault /\ Rejected(FALSE) /\ UNCHANGED jwt /\ gaps' = gaps \cup {"missed"}
  /\ UNCHANGED <<rest, minted, socket, record, backend>>

(* clearLastSent, which may throw, then the fingerprint, which may not. *)
ClearRecords ==
  /\ op.at = "clearing"
  /\ \/ NoFault /\ record' = NoRecord /\ gaps' = gaps \cap {"ghost"} /\ Resolved
     \/ Fault /\ UNCHANGED <<record, gaps>> /\ (Resolved \/ Rejected(TRUE))
  /\ UNCHANGED <<rest, identity, socket, backend>>

(* applyRelaySwitch: native first; switching off stops the socket.  A      *)
(* switch that could not be written holds until the process dies: it       *)
(* rejects, and JS is not stopped.                                         *)
ApplySwitch ==
  /\ OnTurn({"applySwitch", "setRelayEnabled"}, "idle")
  /\ \/ /\ relay' = Head(queue).enabled
        /\ native' = IF relay' THEN native ELSE NoJwt
        /\ \/ /\ NoFault
              /\ persisted' = relay'
              /\ IF relay' THEN UNCHANGED astray /\ Reach("switched")
                           ELSE astray' = {} /\ Reach("stopping")
           \/ /\ Fault
              /\ UNCHANGED persisted
              /\ astray' = IF relay' THEN astray
                           ELSE (astray \cap {"unrefreshed"}) \cup {"unsaved"}
              /\ EndFailed
        /\ TellInfo
        /\ UNCHANGED sockets
     \/ Fault /\ Rejected(FALSE) /\ UNCHANGED socket
  /\ UNCHANGED <<rest, identity, record, backend, gaps>>

(* Mutant of StopJs: the JS side of the socket is left as it is. *)
StopJsForgotten ==
  /\ op.at = "stopping"
  /\ Continues("stopped")
  /\ UNCHANGED <<rest, identity, socket, record, backend, gaps, faults>>

(* stopPushSocket(false), which the switch waits for *)
StopJs ==
  /\ op.at = "stopping"
  /\ Queue("stopJs") /\ Reach("stopped") /\ UNCHANGED astray
  /\ UNCHANGED <<rest, identity, socket, record, backend, gaps, faults>>

(* The start-up switch ends there; setRelayEnabled goes on with a check. *)
Switched ==
  /\ \/ op.at = "switched"
     \/ op.at = "stopped" /\ "stopJs" \notin Range(sockets)
  /\ \/ Calling({"applySwitch"}) /\ Resolved
     \/ Calling({"setRelayEnabled"}) /\ Continues("rechecking")
  /\ UNCHANGED <<rest, identity, socket, record, backend, gaps, faults>>

OpStep ==
  \/ Check
  \/ FetchInfo
  \/ SubscribeAnswered
  \/ SubscribeFails
  \/ Mint
  \/ PickToken
  \/ Unsubscribe
  \/ UnsubscribeAnswered
  \/ DeleteToken
  \/ ClearRecords
  \/ ApplySwitch
  \/ StopJs
  \/ Switched
-----------------------------------------------------------------------------
(* The host.  A call is put on the queue when it is made. *)
facade == <<facadeVars, minted, deviceVars, record, persisted, backend, event>>

(* The watchers are installed and a pending check cancelled; the switch, if *)
(* the config names it, goes before the start-up check.                    *)
Initialize ==
  /\ LET check == <<[kind |-> "check", token |-> NoToken]>>
     IN  \/ Spend({"initialize"}) /\ queue' = queue \o check
         \/ /\ Spend({"initialize", "setRelayEnabled"})
            /\ \E enabled \in BOOLEAN :
                 queue' = queue \o <<[kind |-> "applySwitch", enabled |-> enabled]>> \o check
  /\ up' = TRUE /\ timer' = FALSE
  /\ UNCHANGED <<facade, op, gaps>>

(* Mutant of SetIdentity: the JWT is minted at the call, not on its turn. *)
SetIdentityAtOnce(user) ==
  /\ up /\ Spend({"setIdentity"})
  /\ minted' = Append(minted, user) /\ jwt' = Len(minted')
  /\ gaps' = gaps \cup {"user"}
  /\ Enqueue([kind |-> "setIdentity", user |-> user])
  /\ UNCHANGED <<relay, native, socketVars, faults, deviceVars, record, persisted,
                 backend, event, op, up, timer>>

SetIdentity(user) ==
  /\ up /\ Spend({"setIdentity"})
  /\ Enqueue([kind |-> "setIdentity", user |-> user])
  /\ UNCHANGED <<facade, op, up, timer, gaps>>

RemoveIdentity ==
  /\ up /\ Spend({"removeIdentity"})
  /\ timer' = FALSE
  /\ Enqueue([kind |-> "removeIdentity"])
  /\ UNCHANGED <<facade, op, up, gaps>>

SetRelayEnabled(enabled) ==
  /\ up /\ Spend({"setRelayEnabled"})
  /\ Enqueue([kind |-> "setRelayEnabled", enabled |-> enabled])
  /\ UNCHANGED <<facade, op, up, timer, gaps>>

SetDeviceToken ==
  /\ ~provided /\ Spend({"setDeviceToken"})
  /\ provided' = TRUE
  /\ gaps' = gaps \cup {"missed", "ghost"}
  /\ UNCHANGED <<facadeVars, queue, op, up, minted, fcm, captured, record,
                 persisted, backend, event, timer>>

SocketCall ==
  /\ up
  /\ \/ Spend({"start"}) /\ \E start \in StartOps : Queue(start)
     \/ Spend({"stop"}) /\ Queue("stop")
  /\ UNCHANGED <<jwt, relay, native, requested, active, polling, turn, faults, astray>>
  /\ UNCHANGED <<queue, op, up, minted, deviceVars, record, persisted, backend, event, timer, gaps>>
-----------------------------------------------------------------------------
(* The platform. *)

(* Native has a token, for the first time in this process or a new one, and *)
(* tells JS, which asks for a check with it (maybeResendDeviceToken).      *)
TokenReceived ==
  /\ \/ ~captured /\ UNCHANGED <<fcm, left>>
     \/ fcm < MaxTokens /\ fcm' = fcm + 1 /\ Spend({"rotate"})
  /\ captured' = TRUE
  /\ IF up THEN Enqueue([kind |-> "check", token |-> fcm']) ELSE UNCHANGED queue
  /\ UNCHANGED <<facadeVars, op, up, minted, provided, record,
                 persisted, backend, event, timer, gaps>>

(* scheduleDeviceInfoCheck *)
InfoChanged ==
  /\ event
  /\ event' = FALSE /\ timer' = TRUE
  /\ UNCHANGED <<facadeVars, queue, op, up, minted, deviceVars, record,
                 persisted, backend, left, gaps>>

TimerFires ==
  /\ timer
  /\ timer' = FALSE
  /\ Enqueue([kind |-> "check", token |-> NoToken])
  /\ UNCHANGED <<facadeVars, op, up, minted, deviceVars, record,
                 persisted, backend, event, left, gaps>>

(* The process dies: what is on the wire may arrive, the relay is what is  *)
(* on file, and if it is on Android may bring the foreground service back  *)
(* with the JWT it was last started with.                                  *)
Restart ==
  /\ Spend({"restart"})
  /\ op' = NoOp /\ queue' = <<>>
  /\ up' = FALSE /\ event' = FALSE /\ timer' = FALSE
  /\ captured' = FALSE /\ provided' = FALSE
  /\ requested' = "none" /\ active' = NoJwt /\ polling' = FALSE
  /\ sockets' = <<>> /\ turn' = Waiting
  /\ \/ native' = NoJwt /\ astray' = {}
     \/ native # NoJwt /\ persisted /\ UNCHANGED native /\ astray' = {"revived"}
  /\ relay' = persisted
  /\ \/ UNCHANGED <<backend, gaps>>
     \/ op.at = "subscribing" /\ backend' = Subscribed /\ gaps' = gaps \cup {"record"}
     \/ op.at = "unsubscribing" /\ backend' = Unsubscribed /\ gaps' = gaps \cup {"record"}
  /\ UNCHANGED <<jwt, faults, minted, fcm, record, persisted>>

SocketStep ==
  /\ FacadeStep
  /\ TellInfo
  /\ UNCHANGED <<queue, op, up, minted, deviceVars, record, persisted, backend, timer, left, gaps>>

HostStep ==
  \/ Initialize
  \/ \E user \in Users : SetIdentity(user)
  \/ RemoveIdentity
  \/ \E enabled \in BOOLEAN : SetRelayEnabled(enabled)
  \/ SetDeviceToken
  \/ SocketCall

Next ==
  \/ OpStep
  \/ SocketStep
  \/ HostStep
  \/ TokenReceived
  \/ InfoChanged
  \/ TimerFires
  \/ Restart

Spec == Init /\ [][Next]_vars

(* Promises settle: native, storage and the push API answer or fail. *)
FairSpec == Spec /\ WF_vars(OpStep) /\ WF_vars(SocketStep)

-----------------------------------------------------------------------------
Quiet == queue = <<>> /\ sockets = <<>>

(* With the relay off and nothing under way there is no socket, no config  *)
(* with a JWT, nothing a later setIdentity could restart, and no poll;     *)
(* after a switch that could not be written there is still no socket.      *)
OffIsOff ==
  Quiet /\ ~relay =>
    /\ native = NoJwt
    /\ (active = NoJwt /\ requested = "none" /\ ~polling) \/ "unsaved" \in astray

(* What JS holds is what runs: a poll and a request exactly with a config, *)
(* and native runs with that config, unless a native stop has failed, the  *)
(* switch could not be written, or Android has brought the service back.   *)
ConfigMatchesSocket ==
  Quiet =>
    /\ polling <=> active # NoJwt
    /\ requested # "none" <=> active # NoJwt
    /\ native # active => astray \cap {"unstopped", "unsaved", "revived"} # {}

(* A socket that took the stored JWT runs with the one stored now, unless  *)
(* an identity call rejected after it had changed the JWT, a refresh could *)
(* not read it, a native stop failed, or Android brought the service back. *)
SocketFollowsJwt ==
  Quiet /\ native \notin {NoJwt, PinnedJwt, jwt} => astray # {}

(* A Subscribe on the wire carries the stored JWT, never that of a user    *)
(* who has left or been replaced meanwhile. *)
SubscribesAsStored == op.at = "subscribing" => op.cred = jwt

(* A check may be skipped on the fingerprint: what is on file is what the  *)
(* push API has of the stored JWT's user, unless an answer was lost, the   *)
(* record could not be written or cleared, or a new user's JWT has not     *)
(* been subscribed yet.                                                    *)
RecordMatchesBackend ==
  /\ op.at \notin {"deleting", "clearing"}
  /\ jwt # NoJwt /\ record # NoRecord /\ gaps \cap {"user", "record"} = {}
  => backend[record.token] = [user |-> User(jwt), info |-> record.info]

(* With nothing under way the push API has the device token and the facts  *)
(* of the device as they are for the user who is logged in, unless an      *)
(* attempt has failed since.                                               *)
BackendUpToDate ==
  /\ Quiet /\ up /\ ~event /\ ~timer
  /\ jwt # NoJwt /\ DeviceToken # NoToken
  /\ gaps \cap {"user", "record", "missed"} = {}
  => backend[DeviceToken] = [user |-> User(jwt), info |-> Info]

(* Once logged out, nobody is subscribed with this device's token, unless  *)
(* an Unsubscribe failed, none could be made, or the token was overridden. *)
NoGhost ==
  Quiet /\ jwt = NoJwt /\ DeviceToken # NoToken /\ "ghost" \notin gaps
  => backend[DeviceToken] = NoSubscription

(* No call waits for ever, whatever the calls before it did: neither queue *)
(* is poisoned by a failure, nor do the two wait for each other.           *)
CallsSettle == []<>Quiet
=============================================================================
