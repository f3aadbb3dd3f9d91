# TLA+ models of react-native-sinch-push

This directory models the parts of the library whose correctness depends on order: the
push socket of both platforms, its delivery reports, who owns the socket, the upload of the
reports of provider pushes on both platforms, the JavaScript that drives them (identity, subscription,
the push-socket facade, the transport), and the text codec, whose loops are easy to get wrong
by one. Each part is a TLA+ module, TLC checks it on small instances, and TLAPS proves the
main results about seven of them for every value of their constants. Paths below are relative
to the repository root; `K/` stands for `android/src/main/java/com/sinchpush/socket/`, `X/` for
`ios/NotificationExtension/Core/`, `S/` for `ios/SinchPushSocket/`.

    tlc -workers 2 -config MCSession.cfg MCSocketSession.tla
    tlapm SocketSessionProofs.tla

Contents: [inventory](#inventory), [modules and plan](#modules-and-plan),
[the modules](#the-modules), [runs](#the-runs), [proofs](#the-proofs),
[not modelled](#not-modelled), [limits](#limits).

## Inventory

The library has three hand-written parts, JavaScript in `src/`, Kotlin in `android/` and
Swift in `ios/`. Two ways bring a push to the device: provider push (FCM or APNs), and the
*push socket*, a WebSocket to a relay. Either way the library deduplicates the message, shows
it, and reports its status back.

| Component | State | Operations | Talks to | Module |
|---|---|---|---|---|
| Android socket client, `K/SinchPushSocketClient.kt` | current socket, dial epoch, connected, attempt counter and the reset that a HelloAck armed, reconnect and poll timers, stopped | start, stop, the WebSocket callbacks, HelloAck / Message / Ack / Close, timer ticks | relay, ReportTracker, SeenSet, the controller's listener | SocketSession |
| Android delivery reports, `K/ReportTracker.kt`, `SeenSet.kt`, `BoundedLru.kt`, `SocketStateStore.kt` | sent-set, pending map, outbox, seen set, replay cursor, and their SharedPreferences file | report, resend, onAck, add, persist | socket client, FCM service (shares the seen set) | DeliveryReports |
| Android ownership, `K/SinchPushSocketController.kt`, `SinchPushSocketService.kt`, `RelaySwitch.kt` | relay switch, component enabled, persisted config, active config and generation, the client, the published state | start (service or in-process), stop, relay on / off, onStartCommand, onTimeout, refusals | JS, Android's service manager, clients | SocketOwnership |
| Android provider-push reports, `K/ReportOutbox.kt`, `NativeReportUploader.kt` | persisted queue of reports with leases, handled ids | enqueue, claim, release, remove, clear, flush | FCM service, the JS flusher over the bridge | ReportUpload |
| iOS provider-push reports, `X/ReportStorage.swift`, `ReportCenter.swift`, `ReportUploader.swift`, `ExtensionReportHandler.swift`, `S/ReportOutbox.swift` | the marker file in the app group and its flock, the app's outbox, the upload tasks of two background sessions | claim, mark sent, mark retry, clear retries, upload, the delegate's completion, a wake, the bridge's outbox calls | the extension and the app as two processes, JS, the server | ReportMarkers |
| JS flusher, `src/api/reportOutbox.ts` | running flush, rerun flag, failures | flush, drain | the outboxes above, the transport, token storage | ReportUpload |
| JS transport, `src/api/transport.ts`, and native's reading of the same answers, `K/ReportWire.kt` | one call: the fetch, the deadline, the caller's signal, the promises in between | unary, abort, the reading of a response | HTTP API | UnaryCall |
| JS socket facade, `src/pushSocket/index.ts` | requested and active config, the queue, the poll | start, stop, refresh | native, token storage, the relay switch | PushSocketFacade |
| JS subscription and identity, `src/index.tsx` and `src/api/` | identity, device token, subscribe fingerprint, the device-info watcher and its debounce | initialize, setIdentity, removeIdentity, setRelayEnabled, setDeviceToken, checks | HTTP API, storage, the facade | Subscriptions |
| Text codec, `src/textEncoding.ts` | a loop over bytes or code units | decode (two ways), encode | transport, tokens | TextCodec |
| iOS socket client and reports, `S/SinchPushSocketFacade.swift`, `SocketClient.swift`, `ReportTracker.swift`, `SystemDependencies.swift`, `URLSessionWebSocketTransport.swift`, `S/iOS/UIApplicationSocketLifecycle.swift` | the switch and the lifecycle observer; configuration, stopped, suspended, status, transport, generation, poll, reconnect and deferral timers; outbox, in-flight set, sent-set | start, stop, setRelayEnabled, report; suspend, resume, the transport's callbacks, HelloAck / Message / Ack / Close, timer ticks | JS, UIKit, relay, one serial scheduler | IosSocketClient |
| Frame and outbox codecs, backoff, JWT claims, installation id | none, or an id in two stores | pure functions; get or create, migrate | all of the above | none |

### What is hard in it

* **Callbacks of old sockets.** OkHttp calls back on its own threads, and the client hops
  to its scheduler. By the time a callback runs, its socket may have been replaced. The dial
  epoch must stop it.
* **Two timers and a stop** that race with those callbacks.
* **apply() and process death.** All report state of the socket is saved with
  `SharedPreferences.apply()`. A process can die between any two statements, before or after a
  save reaches the file.
* **Two threads share the seen set** (FCM and the socket client), and **two call into the
  controller** (the React native-modules thread and the main thread of the service), which
  holds a lock in only some of its methods.
* **Intents arrive late.** A STOP or a start for the service is delivered after the caller
  has gone on, and a sticky service is restarted with a null Intent.
* **Callbacks that are already queued.** The iOS client detaches a socket's callbacks before it
  closes it, but what they have put on the scheduler's queue still runs, behind a stop, a
  suspend or a Close, until the next dial moves the generation on. What a report's in-flight mark
  says about a socket has to end with that socket, on each of the six paths that close one.
* **Two processes share a file.** On iOS the extension and the app read and rewrite one marker
  file as a whole; the flock between them is given up on after half a second.
* **Two promise queues** of JS wait for each other: the relay switch, on turn in one, waits for
  a stop in the other; an identity call asks for a refresh there.
* **Answers that are lost**, of a Subscribe, an Unsubscribe or a ReportEvents that was applied.
* **Bounded containers.** The outboxes drop their oldest report; the seen set and the sent-set
  forget their oldest entries.

`PROJECT.json` lists each hazard at its line, with the property that would notice it going
wrong or the reason why none does.

### What makes each component correct

* Socket client: one driver (a socket or a pending reconnect) while it runs, none once it
  has ended; no open socket without an owner; an end is final; denied handshakes climb the
  backoff.
* Reports: a status goes to the relay once; what was issued is on the wire, in the queue, or
  was dropped on record; the queue drains; the cursor never outruns the seen set.
* iOS socket: one driver while it runs and none while it does not; a report is reported once and
  leaves the outbox as long as the app is used.
* Ownership: off means off; one client runs, and it is the one the controller can stop; a
  published error is not overwritten by something older.
* Provider-push reports: a report is never lost, is sent twice only for a reason, and reaches
  the server in the end; a mark for a sent report is final.
* Facade: what JS holds is what native runs; with the relay off nothing runs and nothing is
  kept that a later call could restart; a running socket follows the stored JWT.
* Subscription: the fingerprint on file is what the push API has; the push API has the facts of
  the device for the user who is logged in, and nothing for one who has left; no call hangs.
* Transport: every call ends, and the caller is told what ended it; two implementations read
  the same answer alike.
* Text codec: decoding is the standard's, and what was encoded decodes to itself.

## Modules and plan

1. **SocketSession** and its abstract specification **SocketLifecycle**: checked, proved.
2. **DeliveryReports**: checked, proved.
3. **SocketOwnership**: checked, proved, with two violated claims of the code.
4. **ReportUpload**: checked, proved.
5. **PushSocketFacade**, and **Subscriptions**, which EXTENDS it: checked together and
   proved.
6. **UnaryCall** and **TextCodec**, put side by side in **MCTransport**: checked, proved in
   **TransportProofs**, with one violated claim of the code.
7. **ReportMarkers**: checked, proved.
8. **IosSocketClient**: checked, proved, with one violated claim of the code.

Left of the plan: an abstract outbox that both upload modules implement; the seen set, the cursor
and the presentation of the iOS socket.

Each `MC...` module instantiates the module of the same name for TLC; each `...Proofs` module
holds its theorems. What composes what:

* Subscriptions EXTENDS PushSocketFacade, because identity calls and the relay switch queue
  calls of the facade and wait for them, and the facade reads the JWT and the switch they write.
* SocketSession and DeliveryReports are two views of the same class. The first keeps the
  connection and drops the reports; the second keeps the reports and needs of the connection
  only whether it is up. Their product is out of TLC's reach and nothing but `connected`
  crosses the line between them: `Disconnect` in DeliveryReports stands for every step of
  SocketSession that clears `connected`.
* SocketOwnership sees of a client that it starts, publishes and stops; of JS that it asks for
  one thing at a time and stops before it starts, which is what PushSocketFacade's queue does.
* IosSocketClient is a module of its own and not a second instance of SocketSession: it has no
  dial epoch but a generation, no lock but one queue, and suspends. It has the connection and the
  reports in one module, because what can go wrong on iOS is the line between them, the
  in-flight set.
* **MCParts** runs the owners of the Android socket (SocketOwnership), IosSocketClient and the
  JS transport (MCTransport) side by side. They share no state; one of them runs in each behaviour.
* ReportUpload takes the outcome of a call from a set; UnaryCall is how the call comes by it.
  ReportMarkers leaves attempts and backoff of the flusher to ReportUpload.

## The modules

### SocketSession (and SocketLifecycle, SocketSessionProofs)

`SinchPushSocketClient` keeps its state in fields that one scheduler thread owns. The model
keeps it in one record, `client`. Each private method is an operator from record to record
with the method's name, composed in the order of the calls. `HandleDisconnect` is
`CancelTimers`, then `CloseSocket`, then the forfeit of a shed, the attempt counter, the
published status and `ScheduleReconnect`. A task of the scheduler is one action, since
nothing can interrupt it. `inbox` is the executor's queue; `net` is what the transport and
the relay hold of every socket ever dialled. A socket may go on calling back after the client
has closed it, until it reports `gone`. `RunRetired` is the epoch check of `onScheduler`.

`client.timers` counts the reconnects pending in the executor, and `client.held` says whether
`reconnectFuture` refers to one; a scheduler that lost its reference would show as the two
disagreeing. `client.unclosed` is a history of the sockets opened and not closed.

SocketLifecycle is the promise to the owner, in terms of running, open sockets and pending
reconnects only. The refinement mapping reads `life` off the status and the stopped flag.

Abstracted: durations (a timer fires at any time), the contents of Hello and of messages,
TLS and proxy details. `worked` and `denials` are history variables for the backoff property.

### DeliveryReports

One message id travels through `deliverMessage`: seen set, cursor, sent-set, socket or
outbox, presentation. The path is split into steps wherever something may come between two
statements: the FCM thread, a write-back, a process death. `task.at` is the position.
`seen`, `cursor`, `sentKeys` and `saved` are what the store was last given; `disk` is the
file. `WriteBack` moves the one to the other at any time, and `Crash` restarts from the file.
`lostWrite` records whether a crash lost a write, so that the properties can tell a loss by
apply() from a wrong order of statements.

`OnAck` has one action per row of the policy table: accepted, rate_limited (deferred, no
strike), upstream_forward_failed (a strike; the last one drops), unsupported_status
(dropped), anything else. `resend()` is three actions because a process can die between a
frame and the one write at its end.

Abstracted: a HelloAck brings at most one pooled message, and others come as Message frames behind
it, since both go through `deliverMessage`; the Sinch id map (it fills a field of the report and decides nothing), the delay
lengths (members of `Deferrals`), the notification's content. `fate` and the other history
variables record what was sent and answered.

### SocketOwnership

The two threads `nm` and `main` each have a frame with a position. A statement that reads or
writes what the other thread can see is a step, and `ownerLock` is held over exactly the
statements it guards in the code (`begin`, `stopForRelayOff`). A client runs its `start()`
and `stop()` later, from its own queue, and publishes through the listener it was given; a
listener's check and its write are two steps under the state lock. `intents` are the starts
that Android has accepted and not delivered. `Crash` is a process death with the sticky
restart that follows. `Ask` is the JS facade, which runs one request at a time and stops the
socket before every start (`src/pushSocket/index.ts`, `startLocked`).

Abstracted: what a client does between start and stop (that is SocketSession), notification
channels, the reason texts of errors, storage failures of the switch.

### ReportUpload

Three parties share the outbox. The FCM thread (`fcm`) queues the report, calls
`super.handleIntent`, then flushes; every statement that reads or writes what the others can
see is a step. The JS flusher (`js`) takes one step per await; its `pc` names the promise it
waits for, and `running` is not null from `outbox` to `settled`, one microtask longer than
`drain()` looks at `rerun`. An identity call (`op`) and the session check of `initialize`
(`launch`) go through the exclusive queue, an await at a time. The methods of `ReportOutbox`
are synchronized and commit before they return, so each is one operator (`Enqueue`, `Claim`,
`Release`, `RemoveKeys`, `Clear`) inside the step that calls it. `Tick` drops the leases that
run out, which the code does at the next claim; nothing reads them before that.

The server is `Answer`: it takes the entries, refuses them, takes them while the answer is
lost, never hears of them, or rejects the token. `server`, `repeatable` and `failed` are
history variables. `Crash` loses everything but the outbox, the JWT and the mirrored session,
and any part of the seen set.

Abstracted: the request itself; expiry of a JWT (`LoadSession` may find the mirrored one
unusable, the server may deny either at any time); the Subscribe and the device token (members
of `reached` can be pushed to); the migration of the old session file; a second flusher, which
a second `initialize` with another account builds.

### PushSocketFacade and Subscriptions

Both are JavaScript, so a step is what runs between two awaits. `queue` is `_subscribeLock` of
`src/index.tsx`, the calls that have not settled, oldest first; `op` says where the oldest is
and what it has read. `sockets` and `turn` are the same for `socketLock` of the facade. The two
wait for each other in one direction only: the switch, on turn in the first queue, waits for
the `stopJs` it puts on the second; a resolved identity call queues a refresh there and waits
for nothing. `CallsSettle` would notice a second direction.

A JWT is the number of its minting, so that the JWTs of two mintings for one user differ, as
they do in the code: the identity hash is a getter that is not in the JSON the keychain keeps,
hence the comparison of `generateToken` never matches and every setIdentity mints. `backend` is
what the push API has for each device token. `Info` is the device fact that moves with the
socket, `getDeviceInfo().backgroundService`, as off, ready or running; `event` and `timer` are
the native notification of its change and JS's debounce. `relay` is the switch as native reads
it and `persisted` the switch on file, which differ once `commit()` has failed: `ApplySwitch` then
rejects although native has stopped, and a restart goes back to what is on file.

`faults` counts refusals: of the keychain, of native, of storage and of the push API, and an
answer that was lost. `astray` and `gaps` are histories of *why* what is kept on two sides may
differ: a native stop that failed, a process that was brought back by Android, an identity call
that rejected after it had changed the JWT, a switch that could not be written; a Subscribe that failed, a record that could not be
written, a new user's JWT not yet subscribed. The properties allow a difference only for a
reason of its own kind, and a later success takes the reason away again.

Abstracted: the other facts of getDeviceInfo and `DISABLED` as distinct from "on and not
running", the revocation of the notification permission, a native socket that dies by itself,
the content of messages and the facade's message store. A host calls after `initialize`.

### UnaryCall, TextCodec, MCTransport

UnaryCall is one call of `createTransport().unary`. What can interleave in JavaScript are the
events of the host (the headers, the body, a network error, the deadline, the caller's abort)
and the microtasks they leave behind, so `micro` is the microtask queue. The outcome of the
chain passes a promise of each interceptor (`Hop`) before `Promise.race` sees it, while the
deadline and the caller reject at the race at once; that is why the AbortError of an aborted
fetch comes too late to be the answer. The host may fire a timer or the signal before it has
drained the microtasks. A `deaf` fetch ignores its
AbortSignal, which the deadline must survive.

The answer is an HTTP status, a content type, a grpc-status header and a body of frames cut
after some byte. `ReadAnswer` is `invoke()`; `NativeOutcome` is `ReportWire.kt` (and
`ReportWire.swift`), which reads the same answer for the native uploader. The two readers are
modelled apart, since they do not hear the same thing everywhere. A status is what JS makes of it
and what native makes of it (`Status`): an empty one is 0 to JS and no number to native, one in
the HTTP/2 trailers does not reach fetch. A frame whose flag has the bit 0x80 and others
(`marked`) is a message to JS and a trailer to native. And a frame may not decode (`readable`):
JS throws on a message that is none and on a trailer whose names cannot name headers
(`Undecodable`), where native does not look. `HeardAlike` says of an answer that none of the
differences in the status is in it.

TextCodec has the decoders of `src/textEncoding.ts` byte by byte, an iteration of the loop per
step, and the encoder. What they are compared with (`StandardFrom`, `IllFormedFrom`) is the
maximal subpart practice of the Unicode standard, which the code's comment names. It is stated without
the code's tables: a form begins with some bytes if completing them can still reach a scalar
value (`Begins`). MCTransport runs a behaviour of either module.

Abstracted: what a message decodes to (whether it does is a choice); the encoder that
transport.ts has of its own. A frame length is at most `MaxLength`, 2^31 - 1: JS reads a larger
one as negative and may walk back over the body, and `CallEnds` does not cover such an answer.

### ReportMarkers

The extension (`nse`), a background wake of the app (`wake`), the JS flusher and an identity
call through the bridge (`js`, `identity`), and the delegate of the background sessions each
have a place (`at`) and take one transaction on the marker file per step. Every operation of
`ReportCenter` builds a `ReportMarkerStore` and with it an `NSLock` of its own, so only the
flock separates two of them, in one process or in two. `Enter` is a transaction that is slow:
it has read (`open`) and not written; one that comes meanwhile waits, or gives up on the lock
after half a second and writes over it. What is written over, or not written because the
lock file does not open, is in `slipped`, the only excuse the properties know for the lock.

`uploads` are tasks of the system's daemon, which outlive both processes. Time is one step,
`Overdue`: 30 minutes have passed since a claim. `Turn` is the serial queue of the bridge
module, `UploadInBackground` one block on it.

Abstracted: message ids and statuses (a report is a key), the 72 hours of retention, the sizes
of batches (one claim is one batch), the expiry of the session, attempts and backoff of the
flusher (ReportUpload has them), the two sources of one wake (one wake and one completion of a
task are at work at a time).

### IosSocketClient

The facade is called on a thread of the bridge, the lifecycle observer on the main queue, the
transport on a queue of its own. All three reach the client through `scheduler.perform` only, so
`tasks` is the scheduler's queue and a task is one action (`UpdateConfiguration`, `StopNow`,
`Suspend`, `ResumeClient`, `QueueReport`, `HandleOpen`, `HandleHelloAck`, `HandleAck`,
`HandleStale`, `HandleTerminal`, `HandleDisconnect`, `Ignored`); the facade's own fields are `facade`.
`OpenSocket` and `CloseSocket` are `open()` and `closeSocket()`: a closed socket calls back no
more (`stage`), what it has queued stays in `tasks`, and a dial turns it into tasks that do
nothing (`Outdated`, `Ignored`), which is what the generation check amounts to. `wire` holds what was sent on this socket and can still be answered.

ReportTracker is `pending`, `inFlight` and `sentKeys`. `AfterQueue` is `queue()` with its
eviction, `ToSend` is `reportsToSend` with its three modes, `Accepted` and `ApplyRejection` are
the two halves of `handle(ack)`. The deferral of an entry is `running` or `over`; the one-shot
timer waits for one entry (`ios.deferral`) and skips those that are over, as `nextDeferral` does.
`heard` is a history of accepted reports.

`Dies` is a process death, which may fall between the two saves of an accepted Ack. A message of
the relay is the DELIVERED report it leads to, and a duplicate leads to the same one. Each
behaviour draws a budget of host calls, relay moves and faults (`IosSetups`). `UpdateToken` dials
like `Start`, but does not start the lifecycle observer.

Abstracted: the backoff and its count (a timer fires in time), presentation and DISPLAYED
reports, cursor and seen set, the pending message store, the poll interval, the token. A
configuration has a usable URL: with one that has none `open()` only keeps a reconnect timer going
(`SocketClient.swift:298-301`), and nothing else of the client moves. The
completion of a presentation calls the tracker off the scheduler, a data race that the model does
not have.

## The runs

| Run | Question | States |
|---|---|---|
| MCSession | Do late callbacks, timers and stop keep one driver, no orphan, a true status, and the backoff; does the client implement SocketLifecycle, and dial again after a loss? | 794 k |
| MCReports_policy | Does any order of reports, flushes, verdicts and reconnects put a report on the wire and in the queue at once, and does each leave the queue? | 43 k |
| MCReports_crash | What can a process death at any statement do to reports, presentations and the cursor? | 2.8 M |
| MCUpload_safety | Can two flushers lose a report, send it twice or hold on to it, while the outbox overflows, identities change and the process dies? | 1.8 M |
| MCUpload_drain | Does the mirrored credential follow the stored one, and does every queued report leave? | 625 k |
| MCSdk | Do the two queues of JS keep native, the fingerprint, the push API and the stored JWT together, whatever fails once and wherever the process dies? | 958 k |
| MCParts | Owners: does off stay off, with one owner, and does an error stay until something newer speaks, under every order of switch, service, timeout and crash? iOS: is the client driven by one thing, and does each report go out once and leave the outbox? Transport: is every call told what ended it, do JS and native read an answer alike, does the codec do what Unicode says? | 1.3 M |
| MCMarkers | Can extension, app, flusher and delegate lose a report over the shared file, or send one twice without a reason? | 255 k |
| MCOwner_orphan | violation, see below | |
| MCOwner_stale_stop | violation, see below | |
| MCTransport_answers | violation, see below | |
| MCIos_stale | violation, see below | |

### Bounds

* *Sessions*: `MaxEpoch = 7` allows four dials, and every dial and every close uses one epoch.
  Four are enough for a stale redial that fails, a shed, and a third session that hears from
  the first. `MaxInbox` is the number of tasks that can be waiting when a socket is replaced.
  The proofs hold for every value of both.
* *Reports*: one message with all its statuses for the policy table, two for eviction order,
  cursor and deduplication. The outbox of the policy run holds one entry, so that every second
  report evicts. `MaxAttempts = 2` lets a report be struck once and survive, and be struck out.
  One crash: a second starts from a state of the same kind as the first. A file write only
  matters to a death still to come, so `WriteBack` is disabled after the last one.
* *Owner* (MCParts, and the two MCOwner runs): `Budgets` limits what JS asks: a service start with off, on, off (`Switch`), or a
  service start and an in-process start, each behind its stop (`Turns`). One timeout and one
  process death.
* *Upload*: MCUpload_safety starts with an outbox of two that an earlier process left
  (`Stored`), so that a third push evicts one, and with batches of one, so that every flush
  has a rest to lose. `MaxEvents = 2` is shared by pushes, identity calls and process deaths;
  JS may flush at any time and the server answer as it likes besides. Leases and budget last
  one tick of two instants, `Ttl = 0` lets an entry expire in it, and `MaxFailures = 1` leaves
  the retry to MCUpload_drain. The pushes are interchangeable there (symmetry). MCUpload_drain
  has one report, two users, a fresh install as well, and no symmetry.
* *Sdk*: the calls of all kinds at once are out of reach. `AllScenarios` has nine
  combinations, each of the operations that touch the same state: users with a changing device
  token, a running socket whose JWT is replaced or removed, the switch in both directions, a
  process death with and without a socket or with a switch that is not on file, a device token of the host's own. Within a scenario
  the order is free. Two users, two device tokens; one fault anywhere (`MaxFaults`), which makes
  every single failure of every call meet every order.
* *iOS* (MCParts): `IosCases` has five budgets, each of the moves that touch the same state:
  every refusal of a report with a lost connection; an outbox and a sent-set of one, so that
  every second report evicts; every Close against a stop and a second start; the switch both ways
  and a new token;
  a process death. One report of the relay and one of the host are enough for "the other one
  evicts, defers or is in flight"; the app may go to the background and come back at any time.
  Three tasks may wait in the scheduler, so that a callback of a closed socket can stand behind a
  stop and before a start.
* *Transport* (MCParts): every grpc-status class on its own, and four of them
  in trailer, header or both; a status each reader hears differently, a marked frame, a message
  and a trailer that do not decode; bodies of up to two frames, whole or a byte short. `Alphabet` has the bytes at which the UTF-8 tables
  change; a text has up to three code units out of those at which the form or the role of a
  unit changes.
* *Markers*: two pushes, and four setups, as without faults two workers are needed for an
  interleaving, and with faults one worker with uploads, retries and a flusher is enough. The
  proofs hold for every set of pushes and every number of faults.

### Fairness

* SocketSession: weak fairness of the executor (it runs what it is given) and of its timer;
  none of the relay or of the host.
* DeliveryReports: the same for tasks and clock; the redial is strongly fair (SocketSession
  shows that a lost socket is redialled); a refused Poll is followed by the transport's own
  onFailure or onClosed; a poll timer that stays armed fires; and a socket that is asked to take
  a report again and again takes it once. Without the last assumption a socket could refuse
  every frame for ever, which no code can repair.
* ReportUpload: the FCM thread and the promises of the flusher run; the host is launched again
  after a process death and comes to the foreground again and again (the code flushes then);
  the keychain and the server, asked again and again, answer once. Nothing is asked of identity
  calls, which may hang, and `Drains` asks nothing of a device without a JWT.
* Subscriptions: the step a queue waits for comes, with an answer or a failure. Nothing
  is asked of the host.
* IosSocketClient: the scheduler runs its tasks, the reconnect, poll and deferral timers fire, and a
  deadline passes. Nothing is asked of JS, the relay or the platform; `ReportsLeave` is about an app
  that is used (`AppIsUsed`): it goes to the background again and again, with its lifecycle
  observed, and comes back for long enough to get a session whose answers arrive. Without the trips to the background a report
  can stay for as long as one connection lasts (MCIos_stale).
* UnaryCall: the host starts the call, runs its microtasks and fires its timers. The network
  owes nothing, so it is the deadline that ends a call.
* ReportMarkers: a process at work goes on or dies, an upload is answered or lost, half an hour
  passes; the flusher comes round again, and the server, asked again and again, answers for
  good.

### What the passing runs show

* **OneDriver, NoOrphanSocket, EndIsFinal, ImplementsLifecycle**: the epoch check together
  with `cancelTimers` and `closeSocket` is enough. No order of late callbacks, timer and stop
  gives a second reconnect, a reconnect beside a socket, or a socket without an owner.
* **DenialsClimb**: a run of handshakes that are shed without work reaches an attempt count of
  at least its length, whatever other losses come between.
* **OnlyCrashesRepeat, NothingVanishes**: as long as no write is lost, the only report sent
  twice unasked is one whose frame a process death caught inside `resend()`, and the only one
  lost without record is one that it caught between the sent-set and the outbox write.
* **QueueAndWireApart, OutboxDrains**: what waits was not sent or was rejected, once, within its
  attempts; and it leaves the queue.
* **PresentedOnce**: the shared seen set is enough for both channels.
* **CursorBehindSeen**: the order "seen set, then cursor" holds on disk too.
* **RelayOffHolds, OneOwner** with one start: the second reading of the switch under the lock
  is enough against the service's own start, a timeout, and a sticky restart. **ErrorSticks**: a
  listener's check is enough that a replaced client does not overwrite an error.
* **NothingLost, DuplicatesExplained** of ReportUpload: a report leaves the outbox only with the
  server's word, by age, by eviction, or with its identity; and the server takes it a second
  time only after a lost answer, a JS flush that outlives its lease, or a process death. The
  `handled` set is what keeps FCM's second sight of a message from being a third cause.
* **MirrorFollows**: the exclusive queue and the second look at the JWT are enough: a launch
  that races setIdentity, or one after a death in the middle of it, ends with the stored JWT
  mirrored, unless a write failed.
* **Drains**: a flush request that comes between the last look at `rerun` and the microtask
  that clears `running` gets no run of its own (`Settle` drops it), but the next trigger makes
  up for it.
* **OffIsOff, ConfigMatchesSocket, SocketFollowsJwt**: the two queues are enough. After the
  switch nothing is left that a later setIdentity could restart; the socket's JWT is an old one
  only after a failure, or in a service that Android brought back. A switch to off that could not be
written still leaves no socket, but JS keeps its config (see the observations).
* **SubscribesAsStored, RecordMatchesBackend, BackendUpToDate, NoGhost**: no Subscribe goes out
  for a user who has left. A check that is skipped could have been skipped on the push API's own
  record. A change of token or facts that races an identity call is not lost, and a logged-out
  device is unsubscribed, except after a failure that the properties name.
* **CauseNamed, CallEnds**: see UnaryCall; a call over a deaf fetch ends too. **AgreeOnGrpc**: on
  a gRPC answer with statuses that JS and native hear alike, they treat a report alike, whichever
  frames arrived and wherever the status is, or JS retries what it cannot decode and native takes
  it for sent. No report is deleted by JS that native would keep.
* **CodecCorrect** (`Decodes`, `RoundTrips`): the decoders emit what the standard says, one
  U+FFFD for each maximal subpart or for each byte of it, and what was encoded is read back.
* **NothingForgotten, SentIsFinal** and **DuplicatesExplained** of ReportMarkers: as long as the
  lock is not given up, no report is lost by any death or upload, no sent mark goes back, and a
  report is sent twice only where `repeatable` says why. **Reported**: a report that is taken on
  reaches the server, or leaves with the identity.

* **DrivenByOne** of IosSocketClient: `stopped`, `suspended` and the order in `closeSocket` are
  enough against callbacks that were queued before: an iOS client that runs has a socket or a
  reconnect timer, not both, and one that does not run has neither.
* **ReportedOnce**: sent-set, outbox and in-flight set never let an accepted report in again, nor
  send one twice on a connection that may answer, but for an evicted key or a death between the
  two saves. **ReportsLeave**: whatever was refused, closed or interrupted, the report of an app
  that is used leaves the outbox; the deferral timer that skips what is over costs no more than
  a handshake.

### Disagreements with what the code says of itself

* **MCOwner_orphan**. `stop()` and `onServiceStopRequested()` call `stopClient()` without the
  owner lock. `begin()` on the other thread can install its client between `client?.stop()` and
  `client = null`. Nothing refers to that client any more, and turning the relay off does not
  stop it.
* **MCOwner_stale_stop**. `onServiceStopRequested` stops the current client before it compares
  generations. The STOP of an earlier stop, delivered after a newer in-process start, stops
  the new client.
* **MCTransport_answers**. `invoke()` takes an answer with neither trailer nor header for the
  empty success, whatever its HTTP status or content type: the page of a captive portal, a 503
  of a gateway. The flusher then removes the reports as sent. `ReportWire`
  claims the same answers as the JS flusher; native retries.

* **MCIos_stale**. `handleStale()` closes the socket and dials again without
  `connectionClosed()`, and so do `stop()` and `updateConfiguration()`, where ReportTracker.swift
  says that an entry "goes back to queued when the connection dies". A report that was in flight
  at the relay's STALE is excluded from every flush of the next connection, for as long as that
  one lasts.

### Observations without a run

What reading and modelling turned up, stated here because no property of a run is about it, or
because a property allows for it by name:

* The reset that a HelloAck arms survives a disconnect that is not a shed, so a later shed
  before the next HelloAck restores the attempt count of an older handshake
  (`SinchPushSocketClient.kt:746-752`). `DenialsClimb` holds all the same, since it counts denied
  handshakes only.
* setIdentity drops the previous user's reports once, before it mints (`src/index.tsx:307-312`).
  One that is queued after that, or held by a flush, goes out with the next user's JWT. On iOS
  a claim that is in flight survives the clear, and its failure makes a retry under the next
  identity.
* An identity call that rejects after it changed the JWT asks for no refresh, and a foreground
  service that Android restarts runs on the JWT it was last started with, until the next
  refresh or start (cf. `src/index.tsx:367-369`, `src/pushSocket/index.ts:376-382`). Both are
  causes in `astray`.
* The fingerprint does not name the user (cf. `src/index.tsx:828-832`); a Subscribe that fails
  after a new JWT is made up for by the next change or login, not by the next check. This is the
  cause `user` in `gaps`.
* A refresh whose restart fails has dropped `requestedConfig`, and a later JWT does not bring the
  socket back (cf. `src/pushSocket/index.ts:58-59`). A start refused with E_NOT_AUTHENTICATED
  leaves the earlier socket, its config and its poll (cf. line 321).
* `setDeviceToken` does not unsubscribe the captured token it replaces.
* On iOS a flush of JS claims nothing, so a wake may claim, and report, what it is sending, where
  `ReportStorage.swift` says of claims "so none re-reports another's"; `repeatable` has it as a
  cause. A lock file that does not open makes a claim return nothing, which its caller takes for
  "somebody else has it". And a claim is overdue after 30 minutes while an upload may live for
  24 hours.
* A HelloAck that is queued when the iOS client is stopped still passes the generation check, since
  `stop()` does not move the generation on: it publishes `connected` and starts a poll timer that
  rearms itself until the next start, over a closed socket (`S/SocketClient.swift:188-198`, "Stop
  for good", and SB-53). `DrivenByOne` is about the socket and the reconnect timer, which stay off.
* `updateConfiguration` clears `suspended` and dials in the background too, where the client calls
  itself foreground-only; the socket then stays until the system suspends the app.
* `authRefreshAttempted` of the iOS client is reset by its `start()` only, which the facade never
  calls: after one UNAUTHORIZED, a second does not ask for a refresh.
* `armDeferralTimer` on an Ack cancels a timer that is due, and passes over its entry; the entry
  then waits for the next handshake or another deferral.
* A trailer cut off by the end of the body reads as success, to JS and native alike. Where a status
  is not heard alike, they may differ either way: an empty grpc-status is 0, so sent, to JS
  (`src/api/transport.ts:382`) and a retry to native (`K/ReportWire.kt:105`); a number such as `5.0`
  is one to JS only; JS compares the trailer flag with `0x80` (`:372`), native tests the bit
  (`:120`); a bare CR ends a line of the trailer to native only; and a status in the HTTP/2
  trailers reaches native only. `AgreeOnGrpc` is about the other answers. A message or a trailer name that JS
  cannot decode is retried by JS and, with status 0, sent to native.
* `decodeUtf8MaximalSubpart` keeps a byte order mark.
* `setRelayEnabled(false)` rejects if the switch could not be written, after native has stopped
  (`K/RelaySwitch.kt:219-262`, "it holds for this process only"). JS then skips `stopPushSocket(false)`
  (`src/index.tsx:271-276`): it keeps its config, and after a later `setRelayEnabled(true)` a
  setIdentity restarts the socket, which the comment above the function rules out. This is the cause
  `unsaved` in `astray`.
* `updateToken` of the iOS facade dials after a `stop()` too, without a lifecycle observer, so the
  socket is not closed in the background. `ReportsLeave` asks for an observed lifecycle.

## The proofs

Eight modules have proofs, each checked by TLAPS from the assumptions on the constants that
TLC evaluates in the runs. The theorems hold for every value of the constants that meets them.

### SocketSessionProofs

Proved for every `MaxEpoch` and `MaxInbox` (positive numbers):

| Theorem | Statement |
|---|---|
| Inductive | `Spec => []IInv` |
| TypeCorrect | `Spec => []TypeOK` |
| DriverCorrect | `Spec => []OneDriver` |
| SocketsCorrect | `Spec => []NoOrphanSocket` |
| SessionCorrect | `Spec => []ConnectedMeansSession` |
| FinalityCorrect | `Spec => EndIsFinal` |
| RefinementCorrect | `Spec => ImplementsLifecycle` |
| ClimbCorrect | `Spec => []DenialsClimb` |

None of the safety properties is inductive alone. `OneDriver` says nothing of a client whose
queue holds a callback of a socket that was never dialled, or a second start. The invariant
`IInv` therefore adds

* `ClientOK`: what every task leaves of the record. A reconnect is pending exactly when the
  client runs without a socket; the current socket carries the current epoch; the stopped
  flag and the final statuses agree.
* `NetOK`: a socket that was ever dialled is older than the current epoch, or is the current
  one. Hence a callback that passes the epoch check comes from the socket being driven
  (lemma `CurrentOK`).
* `TaskOK` for every queued task: callbacks come from dialled sockets, a HelloAck from a
  socket past its handshake, and a start is the first task of an idle client.
* `SessionOK` and `IdleOK`.

The proof goes from the inside out. One lemma per method says what it does to the fields of
the record, composed as the methods are (`ShutOK` for cancel and close, `HandleDisconnectOK`,
`OpenSocketOK`, ...). `RunOK` and `PostOK` say what taking a task from the queue and adding one
preserve, whatever happened to the client. One lemma per action then needs only the facts
about its own method. `StepOK` uses the same method lemmas to map every step to a step of
SocketLifecycle or a stutter.

`DenialsClimb` speaks of a client between two dials, and the counts it compares were set when the
session began. `ClimbOK` adds the session itself: one that did no work can still take its reset
back, to an attempt count at least as high as the streak (`Climbs`), and so can a reset that
outlived its session. A second HelloAck of one socket would overwrite that count with zero, so
`HelloOnce` says that none is queued twice, or behind the session it began.

### ReportMarkersProofs

Proved for every set of pushes, every choice of arrivals and every number of faults:

| Theorem | Statement |
|---|---|
| TypeCorrect | `Spec => []TypeOK` |
| ForgottenCorrect | `Spec => []NothingForgotten` |
| FinalityCorrect | `Spec => SentIsFinal` |
| DuplicatesCorrect | `Spec => []DuplicatesExplained` |

`NothingForgotten` accepts a report that the server has heard of or that is queued or marked, and
a report leaves the outbox or gets its `sent` mark on the word of an actor who heard the answer
several steps before. The invariant therefore adds `SettlersKnow` (whoever is about to remove or
mark reports has an answer for them, and so has an upload that ended with one) and
`MarksMeanAnswers` (so has a mark that was not written over). `TransactionOK` and its companions
say what a transaction leaves of the file, also one that is slow; there is one lemma per
action. `FinalityCorrect` needs the type invariant only: no transaction but one that writes over
another's work takes a sent mark back.

`DuplicatesExplained` needs to know where every copy of a key is. `SendersOK` says of each report
that nothing has happened to which explains a second sending ("plain": not in `repeatable`, not in
`slipped`):

* it has one carrier (`OneCarrier`): a worker about to upload it, one background upload, or the
  delegate that settles it;
* what is carried is marked `inFlight`, and the JS flusher is not sending it (`CarriedOK`);
* what the server took is no longer on its way to the server but to its `sent` mark (`TakenOK`);
* a push starts one upload in a process (`FreshStarts`), without which an upload could be replaced
  by another and its report forgotten.

TLC confirmed these conjuncts on an instance of two million states before they were proved. Most
actions leave every sender where it was (`SameKeeps`, `QuietKeeps`); the ones that matter are the
claim, which finds a mark that nobody's upload has, the flusher's two looks, and the answers.

### TransportProofs

Proved of UnaryCall for every set of answers, of any number of frames, and of TextCodec for every
set of byte sequences and of texts, of any length:

| Theorem | Statement |
|---|---|
| CallTypeCorrect | `CallSpec => []CallTypeOK` |
| CauseCorrect | `CallSpec => []CauseNamed` |
| AgreementCorrect | `CallSpec => []AgreeOnGrpc` |
| CodecIsUnicode | `CodecSpec => []CodecCorrect` |

`CauseNamed` is about the order of microtasks. `CInv` says of every rejection that waits before
the race: one that came second has the first one before it in the queue, and the AbortError of
an aborted fetch has its cause before it, or right behind it with hops still to go (`RacerOK`).
`LastOK`, that a set of positions has a last one, rests on the well-foundedness of the naturals;
with it a reader has a last status in any number of frames (`LastSaidOK`). `AgreementCorrect`
rests on `HeardAlikeOK`: in an answer heard alike, the last status that JS finds in the trailers
is the last that native finds in trailers and marked frames, although the two sets of frames
differ.

`CodecCorrect` compares a loop with two recursive functions and a concatenation of unknown length,
and the theorems on recursion and induction in the library take an operator as a parameter. The
proof does without them: `Recursion` and `RankInduct` speak of sets and functions only, for a
recursion that goes from each position to one of lower rank, and follow from the least element
of a set of naturals (`LeastOK`, `Induct`). Then

* `StandardUnfolds`, `IllFormedUnfolds`: the reference reads what stands at a position and goes on
  behind it; `FlattenOK`: a concatenation holds each of its sequences, where `Joined` says.
* `BeginsOK`, `FitsOK`: bytes begin a form for the reference exactly if the lead asks for that
  length and the others are in the windows of decodeUtf8MaximalSubpart (`Fits`); the arithmetic
  is in `Meets3` and `Meets4`. `RejectedOK`: decodeUtf8, which looks at the value instead, rejects
  what has no form and nothing else.
* `IterationOK`: so an iteration of either decoder appends the first code point that the reference
  reads from `i`, and moves to where the reference goes on. decodeUtf8 replaces one byte where the
  reference replaces a maximal subpart, byte by byte: each byte left of it stands alone
  (`StandsAlone`, `ReplacedPerByte`).
* `CodecInv`: what is in `out`, followed by the reference from `i`, is the reference from the
  start; while `fatal` is set nothing before `i` was ill-formed. At the end of the loop this is
  `Decodes`.
* `FormOK`, `EncodedReads`: the bytes of a scalar value are a form of it, a text reads as scalar
  values, and so the reference reads an encoded text as its code points and finds nothing
  ill-formed, which with `Decodes` is `RoundTrips`.

### SubscriptionsProofs

Proved for every set of users and of scenarios, every number of device tokens and of faults, and
so for queues of any length:

| Theorem | Statement |
|---|---|
| OffCorrect | `Spec => []OffIsOff` |
| ConfigCorrect | `Spec => []ConfigMatchesSocket` |
| FollowCorrect | `Spec => []SocketFollowsJwt` |
| SubscribeCorrect | `Spec => []SubscribesAsStored` |
| RecordCorrect | `Spec => []RecordMatchesBackend` |
| UpToDateCorrect | `Spec => []BackendUpToDate` |
| GhostCorrect | `Spec => []NoGhost` |

The first three speak of a state with nothing under way, so the invariant `SInv` has to say what
holds while something is:

* `TurnOK`, `OpOK`: the place a call has reached is one that its kind has.
* `SwitchOK`: with the relay off native does not run, and a stop that the switch owes JS
  (`StopPending`) is owed only while the relay is off.
* `ConfigOK`: what JS holds at each place of the call on turn, unless an unwritten switch is on record; between the native stop and the
  native start of one call, JS has neither a request nor a poll.
* `FollowOK`: if native runs with a JWT that is not the stored one, a failure is on record, or an
  identity call is past its change, or a refresh is in the queue. It is the only part that
  relates the two queues.
* `CredOK`: the JWT that an operation has read for its Subscribe is the stored one until the
  answer.

`JoinedOK` and its companions say what appending to a queue and taking from its head leave of it;
`SettleOK`, `ResolvedOK`, `RejectedOK` and their like do the same for the ways a call can end.
One lemma per action combines them, and `QuietOK` says what is left of `SInv` when both queues
are empty.

The last three relate the device, the fingerprint on file and the push API. They come from a
second invariant, `RInv`, which is inductive together with `SInv`:

* `FileOK`, `PlacesOK`: types, and that a call at a Subscribe or an Unsubscribe has the stored JWT
  and a token; an overridden token is itself a gap.
* `TokensOK`: no call, and no subscription, has a token that FCM has not handed out yet. Without it
  a rotation could come upon a token that somebody is already subscribed with.
* `RecordOK`: while the stored JWT has been subscribed, the token on file is its user's or nobody's
  at the push API, and with no answer lost the info is the one on file. `RecordMatchesBackend` is
  its second half; the first is what survives a lost answer.
* `OwnerOK`: FCM's token is the stored JWT's user's or nobody's, unless an attempt has failed, and
  nobody's from the Unsubscribe on. `NoGhost` is this once the calls have settled.
* `DueOK`: unless a gap says why not, the fingerprint is of the device as it is, or a check is on
  its way (`Coming`): as an event, in the debounce, or in the queue, where a removeIdentity counts
  for the check that it cancels. `BackendUpToDate` is this with nothing on its way, and `RecordOK`.
* `SendingOK`: a Subscribe on the wire has the device's info, or a check is behind it. It is what
  makes it safe to file what was sent and not what the device is when the answer comes.

`SettlesOK` and `ContinuesOK` say what keeps `RInv` when a call ends or goes on, `SubscribedOK` and
`UnsubscribedOK` what a request leaves the push API with, whether its answer comes or a crash takes
it; again there is one lemma per action.

### IosSocketClientProofs

Proved for every set of reports, of budgets and of capacities, and for task queues of any length:

| Theorem | Statement |
|---|---|
| Inductive | `IosSpec => []IInv` |
| DrivenCorrect | `IosSpec => []DrivenByOne` |
| ReportedCorrect | `IosSpec => []ReportedOnce` |

`DrivenByOne` says nothing of what is queued, and a late `gone` would start the reconnect timer of
a client that was never configured; `ReportedOnce` says nothing of the Acks under way. The
invariant `IInv` therefore adds

* `TasksDrive`: a callback in the queue speaks of a client that has a configuration
  (`CallbacksMean`); with the relay off every start in the queue has a stop behind it, and a
  client with no stop in the queue is stopped or was never started (`OffStops`); a facade
  without a client has started nothing (`UnmadeRests`).
* `TasksAnswer`: an Ack in the queue is the only one for its report, which is not on the wire, and
  is still marked as sent unless the socket is gone. Without it an Ack could take the mark off a
  report that was sent again.
* `OutboxOK`: what was accepted is in the sent-set, and an entry of the outbox is the only one
  for its report.

`DriveTail`, `DriveAppend`, `DriveOutdated`, `AnswerTail` and their like say what a task taken, a
task added and a dial leave of the first two, `AfterQueueOK`, `WithoutOK` and `WithOK` what the
operations of the tracker leave of the third. `ClosedStep`, `DialledStep`, `IdleStep` and
`ReportingStep` then cover every task, and one lemma per action is left with its own guard.

### DeliveryReportsProofs

Proved for every set of messages, setups, deferrals and attempts, for any clock and any number of
process deaths, under one hypothesis: `SeenFits`, a seen set as large as the set of messages. The
sent-set is four times as large, so that it holds a key for every pair of a message and a status
(`TokensFit`). Without it a key can be evicted and its report issued again (see Limits).

| Theorem | Statement |
|---|---|
| Inductive | `Spec => []IInv` |
| ApartCorrect | `Spec => []QueueAndWireApart` |
| VanishCorrect | `Spec => []NothingVanishes` |
| RepeatCorrect | `Spec => []OnlyCrashesRepeat` |
| PresentedCorrect | `Spec => []PresentedOnce` |
| CursorCorrect | `Spec => []CursorBehindSeen` |

None of them is inductive: each says what was sent, and the step that breaks it is the one that
reads something stale before. `IInv` adds what memory, the written preferences and the file say
of each other:

* `JobOK`: only `resend()` walks a snapshot, and only there is the outbox not the one last saved.
* `WaitOK`: outbox and snapshot share no report, what is written covers both, and every report
  of theirs has a key in the sent-set; `DiskOK`: the file agrees with itself in the same way, which
  is what a restart begins with.
* `HandOK`, `HandUnsent`: the report in hand has its key, is not in the outbox, and has never
  been sent.
* `SavedUnsent`: a report that is written as waiting has not been sent or was rejected,
  unless `resend()` has just sent it or a dead process had. That exception is
  `OnlyCrashesRepeat`.
* `Kept`: a key without a frame belongs to a report that waits, is in hand, or is on record as
  dropped or interrupted.
* `PresentedOK`: a task that found its message new in the seen set has not presented it, and no
  one else will.

From `HandUnsent` on they are about what was sent, and hold as long as no write was lost
(`~lostWrite`). Each part is an operator on the values it relates, so that a step that leaves
them alone leaves it alone. `InsertIs`, `RemoveTokenIs` and `AddKeyIs` say what the outbox and the
sent-set are after the code's operations; `TurnStep` (a task moves on), `ResendingStep`
(a walk goes on) and `AnsweredStep` (an Ack is settled) cover what several actions share.

### SocketOwnershipProofs

Proved for every budget of requests, with or without refusals, for any number of timeouts and
process deaths:

| Theorem | Statement |
|---|---|
| Inductive | `Spec => []IInv` |
| OwnerCorrect | `Spec => []OneOwner` |
| OffCorrect | `Spec => [](OnlyOrphansRun /\ (orphans = {} => RelayOffHolds))` |
| ErrorCorrect | `Spec => ErrorSticks` |

`RelayOffHolds` is not a theorem of `Spec`: run `MCOwner_orphan` shows the trace in which a stop
without the ownerLock drops a client that it did not stop, and the switch no longer finds it.
OffCorrect says that this is the only way: with the relay off and nothing under way, every client
that runs is in `orphans`, whose one source is that window of `stopClient()`. A fix of the window
would make the plain claim follow.

`OneOwner` is not inductive: it says nothing of a thread that stands between two statements.
`IInv` adds

* `FramesOK`: where a request or a service command can stand, by its kind.
* `LockOK`: a thread holds the ownerLock exactly over `begin()` and over the stop of the switch;
  hence there is at most one thread that installs.
* `BeginOK`: from its stop to its install `begin()` has no client, and the one it has installed
  only it can start: nothing but stops can be on that client's thread before.
* `StopsOK`: the client that a stop reached does not run when the reference goes, and no
  `begin()` is about to start it. What the stop did not reach goes to `orphans`.
* `OffOK`: with the switch off, and past the switch's own stop, there is no client and no
  `begin()` under way. It rests on the second reading of the switch under the lock.
* `ListensOK`: a client in use has a listener from the current process's generations, and not the
  one that the last error was published under; what is about to be written comes from a listener
  newer than that error.
* `BudgetOK`, a counting argument: clients in use, starts on their way to the service, starts in
  hand, requests left and deaths left never exceed `MaxClients`. So `Install` always finds a client
  that was never used, and the bound of the model cuts nothing off.

The parts are operators on the values they relate. `QuietStep` and `QuietKeeps` cover every step
that touches no client, `MoveKeeps`, `DoneKeeps` and `GoKeeps` the ways a thread moves on without the
lock; the seven steps that touch a client, its queue or the process each have a lemma of their own.

### ReportUploadProofs

Proved for every set of pushes and of users, every capacity, batch size, lease, budget and age, and
any number of identity calls, failures and process deaths:

| Theorem | Statement |
|---|---|
| Inductive | `Spec => []IInv` |
| LossCorrect | `Spec => NothingLost` |
| DuplicatesCorrect | `Spec => []DuplicatesExplained` |
| MirrorCorrect | `Spec => []MirrorFollows` |

`DuplicatesExplained` speaks of what the server has; the step that would break it is a flusher's,
who took the report out of the outbox several steps before. `IInv` says what is known of it
meanwhile:

* `BoxOK`: the outbox holds a key once, and `handled` every key it holds; `HandedOK`: what a flusher
  was handed is in `handled` too, so nothing queues it again, and a native request does not outlast
  its deadline.
* `NativeLeased`, `JsLeased`: a report that is about to be sent and is still queued is leased to
  whoever sends it. The native lease runs to the deadline and `LEASE_SLACK_MS` beyond, so it
  cannot run out under a request; the lease of JS can, and then the report is in `repeatable`.
* `HeldApart`: hence both flushers have a report only if it is in `repeatable`.
* `TakenOK`: what the server took nobody is about to send, and it is queued only between the answer
  and the removal; the outbox knows it or the device has seen it. `SeenOK`: what was queued
  is seen once `super.handleIntent` returns, which is why `handled` may be emptied by a death.
* `SentOK`: what is about to be removed was answered. `NothingLost` is this, and what the outbox
  operations take out.
* `MirrorOK`: what the mirror is at each step of an identity call, and at the launch's. No other
  part is about them.

The outbox operations pick the entries at some positions. `PickPlaces` says that the rank among those
positions is one to one, from which `PickIs`, `WithoutIs` and `FreshIs` say what is left;
`EnqueueIs`, `ClaimIs` and `RemoveIs` follow. `AnswerIs` says what a call leaves of the histories for
either flusher. There is one lemma per action; `OnceStep` then needs only the old `IInv`.

### Only model-checked

* Liveness, which is out of the prover's reach: `Redials`, `OutboxDrains`, `Drains`,
  `CallsSettle`, `CallEnds`, `Reported`, `ReportsLeave`. Every other property that a passing run
  checks is proved, `RelayOffHolds` with the exception that SocketOwnershipProofs names.

## Not modelled

* **The rest of the iOS socket client**: presentation, the seen set and the cursor (which follow the
  Android client's; `S/SeenSet.swift:44` keeps the oldest of an over-long list), the alert slot, the
  pending message store.
* **The facade's message store and handlers**, device info, notifications and channels, the
  bridge and AppDelegate glue: they hand values on, or keep nothing between calls.
* **JWT claims, frame and outbox codecs, backoff arithmetic**: pure functions. SocketSession takes
  a delay as any; the parse of a stored outbox is taken to succeed.
* **Installation id**: get or create over two stores, in one place of start-up.
* **Generated protocol buffers** (`src/generated/`): descriptors without behaviour. They are some
  nine tenths of the repository's TypeScript lines, so the share of *all* lines that the map
  covers stays small however much of the hand-written code is modelled.

## Limits

* The bounded sent-set is larger than any instance fills. With more than `4 x SEEN_SET_CAPACITY`
  pairs, ids that never entered the seen set (FAILED, host statuses) can evict the key of a
  message that is still in it.
* Properties of DeliveryReports that `~lostWrite` guards say nothing of a process that dies
  before apply() reaches the file; a report that was accepted can then be sent again.
* SocketOwnership has further check-then-act windows that no run states a property about: a
  listener between its check and `start()`'s write of the state, and a STOP between its
  generation check and its write of the config.
* ReportUpload starts with the seen ids of stored reports on disk; a push that an earlier
  process had queued without saving its seen id is not in it. One flusher; a second one, which
  another `initialize` with another account would build, is not modelled.
* ReportMarkers keeps one wake and one completion at a time, so two wakes that share a claim are
  only there as wake and extension.
* Subscriptions gives each behaviour one scenario; calls of two scenarios never meet.
