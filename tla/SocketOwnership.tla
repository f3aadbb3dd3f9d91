-------------------------- MODULE SocketOwnership --------------------------
(***************************************************************************)
(* Who owns the Android socket: SinchPushSocketController with the relay   *)
(* switch, the foreground service and the clients they start and stop.     *)
(*                                                                         *)
(* Two threads call into the controller, the React native-modules thread   *)
(* (`nm') and the main thread of the service (`main'); each client runs    *)
(* its start() and stop() later, on a thread of its own, and publishes     *)
(* through the listener the controller gave it.  A thread's frame says     *)
(* where it is; every read or write another thread can see is a step,      *)
(* since only begin() and the relay-off stop take the ownerLock.           *)
(***************************************************************************)
EXTENDS Integers, Sequences, FiniteSets

CONSTANTS
  Budgets,     (* what JS may ask, per kind of HostOps: one is drawn       *)
  MaxClients,  (* bound on the clients, over every budget                  *)
  Refusals,    (* TRUE: the platform may refuse a service start            *)
  MaxTimeouts, (* bound on onTimeout                                       *)
  MaxCrashes   (* bound on process deaths                                  *)

HostOps == {"startService", "startInProcess", "stop", "relayOff", "relayOn"}

ASSUME OwnershipAssumption ==
  /\ Budgets \subseteq [HostOps -> Nat] /\ MaxClients \in Nat
  /\ \A b \in Budgets :
       b["startService"] + b["startInProcess"] + MaxCrashes <= MaxClients
  /\ Refusals \in BOOLEAN
  /\ MaxTimeouts \in Nat /\ MaxCrashes \in Nat

None    == 0
Free    == "free"
Clients == 1 .. MaxClients
Threads == {"nm", "main"}

VARIABLES
  relayOn,      (* the persisted switch (RelaySwitch)                      *)
  component,    (* the service component is enabled                        *)
  saved,        (* a PushSocketConfig is persisted                         *)
  frames,       (* per thread: where it is                                 *)
  ownerLock,    (* Free or the thread that holds it                        *)
  client,       (* SinchPushSocketController.client                        *)
  activeConfig, (* None, or the generation of the start it came from; 0 as
                   well for a config that a restart read from the file     *)
  activeGen,    (* activeConfigGeneration                                  *)
  generation,
  listener,     (* per client: the generation its listener was made with   *)
  queue,        (* per client: what its own thread has still to run        *)
  live,         (* clients that have run start() and not stop()            *)
  publishing,   (* a listener between its check and its write (stateLock)  *)
  status,       (* SinchPushSocketStore.state().status                     *)
  service,      (* up: the instance exists; running: SocketServiceState;
                   sticky: the last onStartCommand returned START_STICKY   *)
  intents,      (* starts the platform has still to deliver                *)
  left,         (* requests JS may still make, per kind                    *)
  cleared,      (* a stop has come since the last start                    *)
  timeouts, crashes,
  born,         (* history: per client, the generation of its start        *)
  errorGen,     (* history: the generation the last error was published at *)
  orphans       (* history: clients that a stop dropped and did not reach,
                   installed or started between its two statements         *)

storage  == <<relayOn, component, saved>>
control  == <<client, activeConfig, activeGen>>
world    == <<queue, live, publishing>>
platform == <<service, intents>>
bounds   == <<left, cleared, timeouts, crashes>>
hist     == <<born, errorGen, orphans>>
vars == <<storage, frames, ownerLock, control, generation, listener, world,
          status, platform, bounds, hist>>

Idle == [op |-> "none", at |-> "idle", gen |-> 0, ref |-> None]
Silent == [who |-> None, what |-> "idle"]
Down == [up |-> FALSE, running |-> FALSE, sticky |-> FALSE]

Init ==
  /\ relayOn \in BOOLEAN
  /\ component = relayOn
  /\ saved = FALSE
  /\ frames = [t \in Threads |-> Idle]
  /\ ownerLock = Free
  /\ client = None
  /\ activeConfig = None
  /\ activeGen = 0
  /\ generation = 0
  /\ listener = [c \in Clients |-> 0]
  /\ queue = [c \in Clients |-> <<>>]
  /\ live = {}
  /\ publishing = Silent
  /\ status = "idle"
  /\ service = Down
  /\ intents = <<>>
  /\ left \in Budgets
  /\ cleared = FALSE
  /\ timeouts = 0 /\ crashes = 0
  /\ born = [c \in Clients |-> 0]
  /\ errorGen = 0 /\ orphans = {}

-----------------------------------------------------------------------------
At(t, place) == frames[t].at = place
Op(t, op)    == frames[t].op = op
Go(t, place) == frames' = [frames EXCEPT ![t].at = place]
Done(t)      == frames' = [frames EXCEPT ![t] = Idle]

(* The platform takes a start of the service or, with no component to      *)
(* start, drops it.                                                        *)
Send(kind, gen) ==
  intents' = IF component THEN Append(intents, [kind |-> kind, gen |-> gen])
                          ELSE intents

(* The bridge runs one request at a time, and JS stops the socket before   *)
(* every start of it (pushSocket/index.ts, startLocked).                   *)
Ask(op) ==
  /\ At("nm", "idle") /\ left[op] > 0
  /\ op \in {"startService", "startInProcess"} => cleared
  /\ left' = [left EXCEPT ![op] = @ - 1]
  /\ cleared' = (op = "stop" \/ (cleared /\ op \in {"relayOn", "relayOff"}))
  /\ frames' = [frames EXCEPT !["nm"] = [Idle EXCEPT !.op = op, !.at = "entry"]]
  /\ UNCHANGED <<storage, ownerLock, control, generation, listener, world,
                 status, platform, timeouts, crashes, hist>>

(* start(): refused while the relay is off, before anything is written. *)
StartEntry ==
  /\ At("nm", "entry") /\ frames["nm"].op \in {"startService", "startInProcess"}
  /\ IF relayOn THEN /\ component' = TRUE
                     /\ Go("nm", "mark")
                ELSE /\ Done("nm")
                     /\ UNCHANGED component
  /\ UNCHANGED <<relayOn, saved, ownerLock, control, generation, listener,
                 world, status, platform, bounds, hist>>

StartMark ==
  /\ At("nm", "mark")
  /\ generation' = generation + 1
  /\ activeGen' = generation'
  /\ frames' = [frames EXCEPT !["nm"].at = "claim", !["nm"].gen = generation']
  /\ UNCHANGED <<storage, ownerLock, client, activeConfig, listener, world,
                 status, platform, bounds, hist>>

(* activeConfig, and the state straight into the store: no stateLock. *)
StartClaim ==
  /\ At("nm", "claim")
  /\ activeConfig' = frames["nm"].gen
  /\ status' = "connecting"
  /\ Go("nm", IF Op("nm", "startService") THEN "startService" ELSE "begin")
  /\ UNCHANGED <<storage, ownerLock, client, activeGen, generation, listener,
                 world, platform, bounds, hist>>

(* SinchPushSocketService.start. *)
StartService ==
  /\ At("nm", "startService")
  /\ saved' = TRUE
  /\ \/ component /\ Send("start", frames["nm"].gen) /\ Done("nm")
     \/ (Refusals \/ ~component) /\ Go("nm", "publishError") /\ UNCHANGED intents
  /\ UNCHANGED <<relayOn, component, ownerLock, control, generation, listener,
                 world, status, service, bounds, hist>>

(* publishServiceError, under the stateLock. *)
PublishServiceError(t) ==
  /\ At(t, "publishError") /\ publishing = Silent
  /\ generation' = generation + 1
  /\ status' = "error"
  /\ errorGen' = generation'
  /\ IF t = "nm" THEN Done(t) ELSE Go(t, "stopSelf")
  /\ UNCHANGED <<storage, ownerLock, control, listener, world, platform, bounds,
                 born, orphans>>

-----------------------------------------------------------------------------
(* The client, if a stop can reach it: its start is at least on its thread. *)
Started == IF client # None /\ (client \in live \/ queue[client] # <<>>)
           THEN client ELSE None

(* Mutant of StopClient: the reference is dropped, the client is not stopped. *)
StopClientUnstopped(t) ==
  /\ At(t, "stopClient")
  /\ frames' = [frames EXCEPT ![t].at = "dropClient", ![t].ref = Started]
  /\ UNCHANGED <<storage, ownerLock, control, generation, listener, world,
                 status, platform, bounds, hist>>

(* stopClient(), from whoever calls it: client?.stop(), then client = null. *)
StopClient(t) ==
  /\ At(t, "stopClient")
  /\ queue' = IF client = None THEN queue
              ELSE [queue EXCEPT ![client] = Append(@, "stop")]
  /\ frames' = [frames EXCEPT ![t].at = "dropClient", ![t].ref = Started]
  /\ UNCHANGED <<storage, ownerLock, control, generation, listener, live,
                 publishing, status, platform, bounds, hist>>

(* Where the caller of stopClient goes on. *)
Resume(op) ==
  CASE op \in {"startInProcess", "start", "restart"} -> "install"
    [] op = "relayOff"                               -> "unlock"
    [] op = "stopRequest"                            -> "staleCheck"
    [] op \in {"refused", "timeout"}                 -> "publishError"
    [] OTHER                                         -> "done"

DropClient(t) ==
  /\ At(t, "dropClient")
  /\ client' = None
  /\ IF Resume(frames[t].op) = "done" THEN Done(t)
     ELSE frames' = [frames EXCEPT ![t].at = Resume(frames[t].op), ![t].ref = None]
  /\ orphans' = IF client \in {None, frames[t].ref} THEN orphans
                ELSE orphans \cup {client}
  /\ UNCHANGED <<storage, ownerLock, activeConfig, activeGen, generation,
                 listener, world, status, platform, bounds, born, errorGen>>

(* Mutant of Begin: the switch is not read again. *)
BeginUnchecked(t) ==
  /\ At(t, "begin") /\ ownerLock = Free
  /\ ownerLock' = t
  /\ Go(t, "stopClient")
  /\ service' = [service EXCEPT !.sticky = @ \/ t = "main"]
  /\ UNCHANGED <<storage, control, generation, listener, world, status, intents,
                 bounds, hist>>

(* begin(): the switch is read again under the ownerLock. *)
Begin(t) ==
  /\ At(t, "begin") /\ ownerLock = Free
  /\ IF relayOn THEN ownerLock' = t /\ Go(t, "stopClient")
                ELSE Done(t) /\ UNCHANGED ownerLock
  /\ service' = [service EXCEPT !.sticky = @ \/ t = "main"]
  /\ UNCHANGED <<storage, control, generation, listener, world, status, intents,
                 bounds, hist>>

Fresh == CHOOSE c \in Clients : listener[c] = 0

(* A client with a listener of its own becomes the owner... *)
Install(t) ==
  /\ At(t, "install")
  /\ activeConfig' = frames[t].gen
  /\ generation' = generation + 1
  /\ listener' = [listener EXCEPT ![Fresh] = generation']
  /\ born' = [born EXCEPT ![Fresh] = frames[t].gen]
  /\ client' = Fresh
  /\ frames' = [frames EXCEPT ![t].at = "startClient", ![t].ref = Fresh]
  /\ UNCHANGED <<storage, ownerLock, activeGen, world, status, platform, bounds,
                 errorGen, orphans>>

(* ... and is started. *)
StartClient(t) ==
  /\ At(t, "startClient")
  /\ queue' = [queue EXCEPT ![frames[t].ref] = Append(@, "start")]
  /\ ownerLock' = Free
  /\ Done(t)
  /\ UNCHANGED <<storage, control, generation, listener, live, publishing,
                 status, platform, bounds, hist>>

-----------------------------------------------------------------------------
(* stop(): forget, tell the service, stop the client.  A start of the      *)
(* service that is refused throws out of it; the platform refuses it only  *)
(* to an app in the background, where no service of its own is up.         *)
StopEntry ==
  /\ At("nm", "entry") /\ Op("nm", "stop")
  /\ activeConfig' = None
  /\ Go("nm", "sendStop")
  /\ UNCHANGED <<storage, ownerLock, client, activeGen, generation, listener,
                 world, status, platform, bounds, hist>>

SendStop ==
  /\ At("nm", "sendStop")
  /\ \/ Send("stop", generation) /\ Go("nm", "stopClient")
     \/ Refusals /\ component /\ ~service.up /\ Done("nm") /\ UNCHANGED intents
  /\ UNCHANGED <<storage, ownerLock, control, generation, listener, world,
                 status, service, bounds, hist>>

(* setRelayEnabled(false): persist, stop under the ownerLock, STOP to a    *)
(* service that was running, clear the config, disable the component.      *)
RelayOff ==
  /\ At("nm", "entry") /\ Op("nm", "relayOff")
  /\ relayOn' = FALSE
  /\ Go("nm", "offRunning")
  /\ UNCHANGED <<component, saved, ownerLock, control, generation, listener,
                 world, status, platform, bounds, hist>>

(* Whether a service was running is read before the lock; the frame keeps  *)
(* the answer in `gen' until OffStop.                                      *)
OffRunning ==
  /\ At("nm", "offRunning")
  /\ frames' = [frames EXCEPT !["nm"].at = "lock",
                              !["nm"].gen = IF service.running THEN 1 ELSE 0]
  /\ UNCHANGED <<storage, ownerLock, control, generation, listener, world,
                 status, platform, bounds, hist>>

OffLock ==
  /\ At("nm", "lock") /\ ownerLock = Free
  /\ ownerLock' = "nm"
  /\ activeConfig' = None
  /\ Go("nm", "stopClient")
  /\ UNCHANGED <<storage, client, activeGen, generation, listener, world,
                 status, platform, bounds, hist>>

OffUnlock ==
  /\ At("nm", "unlock")
  /\ ownerLock' = Free
  /\ Go("nm", "offStop")
  /\ UNCHANGED <<storage, control, generation, listener, world, status,
                 platform, bounds, hist>>

OffStop ==
  /\ At("nm", "offStop")
  /\ \/ frames["nm"].gen = 1 /\ Send("stop", generation)
     \/ frames["nm"].gen = 0 /\ UNCHANGED intents
     \/ Refusals /\ component /\ ~service.up /\ UNCHANGED intents
  /\ Go("nm", "offClear")
  /\ UNCHANGED <<storage, ownerLock, control, generation, listener, world,
                 status, service, bounds, hist>>

OffClear ==
  /\ At("nm", "offClear")
  /\ saved' = FALSE
  /\ Go("nm", "offDisable")
  /\ UNCHANGED <<relayOn, component, ownerLock, control, generation, listener,
                 world, status, platform, bounds, hist>>

OffDisable ==
  /\ At("nm", "offDisable")
  /\ component' = FALSE
  /\ Done("nm")
  /\ UNCHANGED <<relayOn, saved, ownerLock, control, generation, listener, world,
                 status, platform, bounds, hist>>

(* setRelayEnabled(true): persist, enable, start nothing. *)
RelayOn ==
  /\ At("nm", "entry") /\ Op("nm", "relayOn")
  /\ relayOn' = TRUE
  /\ component' = TRUE
  /\ Done("nm")
  /\ UNCHANGED <<saved, ownerLock, control, generation, listener, world, status,
                 platform, bounds, hist>>

-----------------------------------------------------------------------------
(* The service, on the main thread.  Delivering a start creates it. *)
OnStartCommand ==
  /\ At("main", "idle") /\ intents # <<>>
  /\ intents' = Tail(intents)
  /\ service' = [service EXCEPT !.up = TRUE,
                                !.running = IF service.up THEN @ ELSE TRUE]
  /\ LET i == Head(intents)
         f == [Idle EXCEPT !.gen = i.gen]
     IN frames' = [frames EXCEPT !["main"] =
          IF i.kind = "stop" THEN [f EXCEPT !.op = "stopRequest", !.at = "stopClient"]
                             ELSE [f EXCEPT !.op = i.kind, !.at = "promote"]]
  /\ UNCHANGED <<storage, ownerLock, control, generation, listener, world,
                 status, bounds, hist>>

(* onServicePromotionRefused and onServiceTimeout: not running any more,   *)
(* and the listeners are muted before the client is stopped.               *)
Demote(op) ==
  /\ service' = [service EXCEPT !.running = FALSE]
  /\ generation' = generation + 1
  /\ frames' = [frames EXCEPT !["main"] = [@ EXCEPT !.op = op, !.at = "stopClient"]]

PromotionRefused ==
  /\ At("main", "promote") /\ Refusals
  /\ Demote("refused")
  /\ UNCHANGED <<storage, ownerLock, control, listener, world, status, intents,
                 bounds, hist>>

OnTimeout ==
  /\ At("main", "idle") /\ service.up /\ service.sticky /\ timeouts < MaxTimeouts
  /\ timeouts' = timeouts + 1
  /\ Demote("timeout")
  /\ UNCHANGED <<storage, ownerLock, control, listener, world, status, intents,
                 left, cleared, crashes, hist>>

(* Promoted; decideSocketServiceStart. *)
Decide ==
  /\ At("main", "promote")
  /\ Go("main", IF relayOn /\ (Op("main", "start") \/ saved)
                THEN "begin" ELSE "stopSelf")
  /\ UNCHANGED <<storage, ownerLock, control, generation, listener, world,
                 status, platform, bounds, hist>>

(* onServiceStopRequested, second half: is the STOP older than the config? *)
StaleCheck ==
  /\ At("main", "staleCheck")
  /\ Go("main", IF activeGen <= frames["main"].gen THEN "forget" ELSE "clear")
  /\ UNCHANGED <<storage, ownerLock, control, generation, listener, world,
                 status, platform, bounds, hist>>

Forget ==
  /\ At("main", "forget")
  /\ activeConfig' = None
  /\ Go("main", "clear")
  /\ UNCHANGED <<storage, ownerLock, client, activeGen, generation, listener,
                 world, status, platform, bounds, hist>>

ClearConfig ==
  /\ At("main", "clear")
  /\ saved' = FALSE
  /\ Go("main", "stopSelf")
  /\ UNCHANGED <<relayOn, component, ownerLock, control, generation, listener,
                 world, status, platform, bounds, hist>>

(* stopSelf(startId) is ignored while a newer start is pending; the        *)
(* timeout's stopSelf() is not, and takes the pending ones with it.        *)
StopSelf ==
  /\ At("main", "stopSelf")
  /\ IF intents # <<>> /\ ~Op("main", "timeout")
     THEN /\ service' = [service EXCEPT !.sticky = FALSE]
          /\ Done("main")
          /\ UNCHANGED intents
     ELSE /\ service' = Down
          /\ intents' = <<>>
          /\ frames' = [frames EXCEPT !["main"] =
                          [Idle EXCEPT !.op = "destroy", !.at = "stopClient"]]
  /\ UNCHANGED <<storage, ownerLock, control, generation, listener, world,
                 status, bounds, hist>>

(* The platform brings down a service whose component was disabled. *)
PlatformStops ==
  /\ At("main", "idle") /\ service.up /\ ~component
  /\ service' = Down
  /\ intents' = <<>>
  /\ frames' = [frames EXCEPT !["main"] =
                  [Idle EXCEPT !.op = "destroy", !.at = "stopClient"]]
  /\ UNCHANGED <<storage, ownerLock, control, generation, listener, world,
                 status, bounds, hist>>

-----------------------------------------------------------------------------
(* Mutant of Publish: a muted listener still speaks. *)
PublishAlways(c, s) == publishing' = [who |-> c, what |-> s]

(* The client's own thread.  It publishes through its listener, which      *)
(* checks the generation and writes under the stateLock.                   *)
Publish(c, s) ==
  publishing' = IF listener[c] = generation THEN [who |-> c, what |-> s]
                                            ELSE Silent

RunClient(c) ==
  /\ queue[c] # <<>> /\ publishing = Silent
  /\ queue' = [queue EXCEPT ![c] = Tail(@)]
  /\ \/ /\ Head(queue[c]) = "start"
        /\ live' = live \cup {c}
        /\ Publish(c, "connecting")
     \/ /\ Head(queue[c]) = "stop"
        /\ live' = live \ {c}
        /\ Publish(c, "stopped")
  /\ UNCHANGED <<storage, frames, ownerLock, control, generation, listener,
                 status, platform, bounds, hist>>

Connected(c) ==
  /\ c \in live /\ publishing = Silent
  /\ Publish(c, "connected")
  /\ UNCHANGED <<storage, frames, ownerLock, control, generation, listener,
                 queue, live, status, platform, bounds, hist>>

WriteState ==
  /\ publishing # Silent
  /\ status' = publishing.what
  /\ publishing' = Silent
  /\ UNCHANGED <<storage, frames, ownerLock, control, generation, listener,
                 queue, live, platform, bounds, hist>>

(* The process dies.  What is persisted stays, undelivered starts stay     *)
(* with the platform, and a sticky service is restarted with a null Intent. *)
Crash ==
  /\ crashes < MaxCrashes
  /\ crashes' = crashes + 1
  /\ frames' = [t \in Threads |-> Idle]
  /\ ownerLock' = Free
  /\ client' = None /\ activeConfig' = None /\ activeGen' = 0
  /\ generation' = 0
  /\ queue' = [c \in Clients |-> <<>>]
  /\ live' = {}
  /\ publishing' = Silent
  /\ status' = "idle"
  /\ errorGen' = 0
  /\ service' = Down
  /\ intents' = IF ~component THEN <<>>
                ELSE IF service.up /\ service.sticky
                THEN <<[kind |-> "restart", gen |-> 0]>> \o intents
                ELSE intents
  /\ cleared' = FALSE
  /\ UNCHANGED <<storage, listener, left, timeouts, born, orphans>>

Controller ==
  \/ StartEntry \/ StartMark \/ StartClaim \/ StartService
  \/ StopEntry \/ SendStop
  \/ RelayOff \/ OffRunning \/ OffLock \/ OffUnlock \/ OffStop \/ OffClear
  \/ OffDisable \/ RelayOn

Service ==
  \/ OnStartCommand \/ PromotionRefused \/ Decide \/ StaleCheck \/ Forget
  \/ ClearConfig \/ StopSelf \/ OnTimeout \/ PlatformStops

Next ==
  \/ \E op \in HostOps : Ask(op)
  \/ Controller
  \/ Service
  \/ \E t \in Threads : \/ StopClient(t) \/ DropClient(t) \/ Begin(t)
                        \/ Install(t) \/ StartClient(t) \/ PublishServiceError(t)
  \/ \E c \in Clients : RunClient(c) \/ Connected(c)
  \/ WriteState
  \/ Crash

Spec == Init /\ [][Next]_vars

-----------------------------------------------------------------------------
(* What a client will be once its own thread has caught up. *)
Runs(c) == IF queue[c] # <<>> THEN queue[c][Len(queue[c])] = "start"
                              ELSE c \in live

(* Off is off (SB-66): once setRelayEnabled(false) has returned, and as    *)
(* long as nothing turns the relay on, no client runs, whatever the        *)
(* service was doing, and after a process death as well.                   *)
RelayOffHolds == ~relayOn /\ At("nm", "idle") => \A c \in Clients : ~Runs(c)

(* One owner at a time (SB-54): a client that runs is the controller's, so *)
(* that the next stop reaches it; but for one that begin() installed or    *)
(* started between the two statements of a stop without the ownerLock.     *)
OneOwner == \A c \in Clients : Runs(c) => c = client \/ c \in orphans

(* A published error stays until a newer start or a newer client speaks    *)
(* (SB-60): the late `stopped' of a client that was muted does not land on *)
(* top of it.                                                              *)
ErrorSticks ==
  [][status = "error" /\ status' # "error" /\ crashes' = crashes
       => At("nm", "claim") \/ listener[publishing.who] > errorGen]_vars

(* A STOP that was queued before a start does not stop what that start     *)
(* opened (SinchPushSocketController.activeConfigGeneration: "an older     *)
(* STOP").                                                                 *)
StopSparesNewer ==
  [][At("main", "stopClient") /\ Op("main", "stopRequest") /\ client # None
       /\ queue'[client] # queue[client] /\ frames'["main"] # frames["main"]
       => born[client] <= frames["main"].gen]_vars

=============================================================================
