---------------------------- MODULE ReportUpload ----------------------------
(***************************************************************************)
(* The provider-push report path of Android: a push arrives through FCM,   *)
(* its DELIVERED report is queued in the persisted ReportOutbox, and two   *)
(* flushers upload what is queued there:                                   *)
(*   - NativeReportUploader, on the FCM thread, with the credential JS     *)
(*     mirrored to native;                                                 *)
(*   - ReportOutboxFlusher, in JS, with the stored device JWT.             *)
(* Leases in the outbox keep the two apart.  Meanwhile initialize,         *)
(* setIdentity and removeIdentity replace the JWT, the mirrored credential *)
(* and the contents of the outbox, an await at a time.                     *)
(*                                                                         *)
(* A push is its (message_id, subscriber_id) key.                          *)
(***************************************************************************)
EXTENDS Integers, Sequences, SequencesExt, FiniteSets

CONSTANTS
  Users,         (* identities of the host app                             *)
  Pushes,        (* keys of provider pushes                                *)
  NoPush,
  Owner,         (* the user a push is addressed to                        *)
  Capacity,      (* ReportOutbox.CAPACITY                                  *)
  BatchSize,     (* REPORT_BATCH_SIZE, ReportWire.BATCH_SIZE               *)
  MaxFailures,   (* REPORT_MAX_ATTEMPTS                                    *)
  JsLease,       (* JS_REPORT_LEASE_MS                                     *)
  Budget,        (* NativeReportUploader.BUDGET_MS                         *)
  LeaseSlack,    (* LEASE_SLACK_MS                                         *)
  Ttl,           (* REPORT_TTL_MS, NativeReportUploader.TTL_MS             *)
  Stored,        (* how many reports an earlier process may have left      *)
  Calls,         (* the identity calls the host app makes                  *)
  MaxClock,      (* bound on the clock                                     *)
  MaxEvents      (* bound on messages, identity calls and process deaths   *)

ASSUME ConstantsAssumption ==
  /\ NoPush \notin Pushes
  /\ Owner \in [Pushes -> Users]
  /\ {Capacity, BatchSize, MaxFailures, JsLease, Budget, LeaseSlack}
       \subseteq Nat \ {0}
  /\ {Ttl, MaxClock, MaxEvents} \cup Stored \subseteq Nat
  /\ Calls \subseteq {"setIdentity", "removeIdentity"}

(* A device JWT: whose it is, and which of the ones issued.                *)
NoToken == [user |-> "none", serial |-> 0]
Tokens  == [user : Users, serial : 0 .. MaxEvents] \cup {NoToken}

Flushers == {"native", "js"}
NoLease  == [owner |-> "none", until |-> 0]

(* What the server and the network make of one ReportEvents call: the      *)
(* server takes it, refuses it for good, takes it but the answer is lost,  *)
(* never gets it, or does not accept the token.                            *)
Outcomes == {"accepted", "refused", "lost", "failed", "denied"}
Final    == {"accepted", "refused"}

VARIABLES
  clock,
  entries,   (* ReportOutbox.entries, oldest first; committed as changed   *)
  lease,     (* ReportOutbox.leases                                        *)
  handled,   (* ReportOutbox.handled                                       *)
  seen,      (* the SeenSet shared with the socket                         *)
  fcm,       (* the FCM thread                                             *)
  js,        (* the ReportOutboxFlusher                                    *)
  token,     (* the JWT in the keychain                                    *)
  mirror,    (* the shared report session                                  *)
  op,        (* the setIdentity or removeIdentity that holds the queue     *)
  launch,    (* the session check of initialize                            *)
  events,
  reached,       (* users this device was ever subscribed for              *)
  server,        (* history: what the server made of the report of a push  *)
  repeatable,    (* history: pushes a second report of which is explained  *)
  failed         (* history: which of the last two stores went wrong       *)

boxVars      == <<entries, lease, handled>>
identityVars == <<token, mirror, op, launch, reached, failed>>
serverVars   == <<server, repeatable>>
outside      == <<clock, seen, fcm, serverVars>>
vars == <<clock, boxVars, seen, fcm, js, identityVars, events, serverVars>>

FcmIdle == [pc |-> "idle", push |-> NoPush, queued |-> FALSE, pending |-> <<>>,
            session |-> NoToken, deadline |-> 0]
JsOff   == [pc |-> "off", pending |-> <<>>, token |-> NoToken, failures |-> 0,
            refreshed |-> FALSE, rerun |-> FALSE]
OpIdle  == [pc |-> "idle", user |-> "none"]

Event == events < MaxEvents /\ events' = events + 1

Batch(pending) ==
  SubSeq(pending, 1, IF Len(pending) < BatchSize THEN Len(pending) ELSE BatchSize)
Rest(pending) == SubSeq(pending, Len(Batch(pending)) + 1, Len(pending))

Keys(es) == {es[i].key : i \in DOMAIN es}

(* The elements of s at the positions in K, in the order they are in.      *)
Pick(s, K) ==
  LET Rank(i) == Cardinality({j \in K : j <= i})
  IN  [n \in 1 .. Cardinality(K) |-> s[CHOOSE i \in K : Rank(i) = n]]

-----------------------------------------------------------------------------
(* ReportOutbox.  Every method is synchronized and saves with commit().    *)

(* Mutant of CanEnqueue: what was queued before and is gone may come again. *)
CanEnqueueAgain(p) == p \notin Keys(entries)

CanEnqueue(p) == p \notin handled \cup Keys(entries)

Enqueue(p) ==
  /\ handled' = handled \cup {p}
  /\ entries' = IF CanEnqueue(p)
                  THEN Append(IF Len(entries) >= Capacity THEN Tail(entries)
                                                          ELSE entries,
                              [key |-> p, at |-> clock])
                  ELSE entries
  /\ UNCHANGED lease

Expired(e) == e.at < clock - Ttl

Without(keys) == Pick(entries, {i \in DOMAIN entries : entries[i].key \notin keys})

(* What `who' is handed: the places of every entry no other flusher holds. *)
(* Both flushers begin by removing what is too old of it; nobody else can  *)
(* claim those entries in between.                                         *)
Claimed(who) ==
  {i \in DOMAIN entries : lease[entries[i].key].owner \in {"none", who}}

Fresh(who) ==
  LET fresh == Pick(entries, {i \in Claimed(who) : ~Expired(entries[i])})
  IN  [i \in DOMAIN fresh |-> fresh[i].key]

Claim(who, until) ==
  LET claimed == {entries[i].key : i \in Claimed(who)}
      kept    == ToSet(Fresh(who))
  IN  /\ lease' = [p \in Pushes |->
                     IF p \in kept THEN [owner |-> who, until |-> until]
                     ELSE IF p \in claimed THEN NoLease ELSE lease[p]]
      /\ entries' = Without(claimed \ kept)
      /\ UNCHANGED handled

Release(who, keys) ==
  /\ lease' = [p \in Pushes |->
                 IF p \in keys /\ lease[p].owner = who THEN NoLease ELSE lease[p]]
  /\ UNCHANGED <<entries, handled>>

RemoveKeys(keys) ==
  /\ lease' = [p \in Pushes |-> IF p \in keys THEN NoLease ELSE lease[p]]
  /\ entries' = Without(keys)
  /\ UNCHANGED handled

Clear ==
  /\ lease' = [p \in Pushes |-> NoLease]
  /\ entries' = <<>>
  /\ UNCHANGED handled

-----------------------------------------------------------------------------
(* The server end of a ReportEvents call that carries `keys'.  A second    *)
(* report of a push is explained once an answer was lost, JS outlived its  *)
(* lease or the process died.                                              *)
Answer(keys, outcome) ==
  /\ server' = [p \in Pushes |->
       IF p \notin keys \/ outcome \in {"failed", "denied"} THEN server[p]
       ELSE IF outcome = "refused"
              THEN IF server[p] = "none" THEN "refused" ELSE server[p]
       ELSE IF server[p] = "taken" /\ p \notin repeatable THEN "repeated"
       ELSE "taken"]
  /\ repeatable' = IF outcome = "lost" THEN repeatable \cup keys ELSE repeatable

-----------------------------------------------------------------------------
(* The FCM thread: ProviderPushIntent.handle and, inside                   *)
(* super.handleIntent, PushDedupe.decide; then NativeReportUploader.flush. *)

(* The report is queued before super.handleIntent, unless the socket       *)
(* already delivered the message.                                          *)
HandleIntent(p) ==
  /\ Event
  /\ fcm.pc = "idle"
  /\ Owner[p] \in reached
  /\ IF p \in seen
       THEN /\ fcm' = [FcmIdle EXCEPT !.pc = "super", !.push = p]
            /\ UNCHANGED boxVars
       ELSE /\ fcm' = [FcmIdle EXCEPT !.pc = "super", !.push = p,
                                      !.queued = CanEnqueue(p)]
            /\ Enqueue(p)
  /\ UNCHANGED <<clock, seen, js, identityVars, serverVars>>

(* onMessageReceived is only called for a data message or in the           *)
(* foreground; either way the message is seen once super has returned.     *)
SuperHandleIntent(received) ==
  /\ fcm.pc = "super"
  /\ LET again  == received /\ fcm.push \notin seen
         queued == fcm.queued \/ (again /\ CanEnqueue(fcm.push))
     IN  /\ IF again THEN Enqueue(fcm.push) ELSE UNCHANGED boxVars
         /\ fcm' = IF queued THEN [FcmIdle EXCEPT !.pc = "load"] ELSE FcmIdle
  /\ seen' = seen \cup {fcm.push}
  /\ UNCHANGED <<clock, js, identityVars, events, serverVars>>

(* flush: without a session that is still usable it leaves everything.     *)
LoadSession(usable) ==
  /\ fcm.pc = "load"
  /\ fcm' = IF mirror = NoToken \/ ~usable
              THEN FcmIdle
              ELSE [fcm EXCEPT !.pc = "claim", !.session = mirror,
                               !.deadline = clock + Budget]
  /\ UNCHANGED <<clock, boxVars, seen, js, identityVars, events, serverVars>>

Over(pending) == [FcmIdle EXCEPT !.pc = "release", !.pending = pending]

(* The next request starts while time remains; otherwise the flush is over. *)
NextBatch(pending) ==
  IF pending # <<>> /\ clock < fcm.deadline
    THEN [fcm EXCEPT !.pc = "post", !.pending = pending]
    ELSE Over(pending)

(* The lease runs from the deadline, or from now when that has passed.     *)
NativeClaim ==
  /\ fcm.pc = "claim"
  /\ fcm' = IF Claimed("native") = {} THEN FcmIdle ELSE NextBatch(Fresh("native"))
  /\ Claim("native", LeaseSlack
                     + IF fcm.deadline > clock THEN fcm.deadline ELSE clock)
  /\ UNCHANGED <<clock, seen, js, identityVars, events, serverVars>>

NativeAnswer(outcome) ==
  LET keys == ToSet(Batch(fcm.pending))
  IN  /\ fcm.pc = "post"
      /\ Answer(keys, outcome)
      /\ IF outcome \in Final
           THEN /\ RemoveKeys(keys)
                /\ fcm' = NextBatch(Rest(fcm.pending))
           ELSE /\ fcm' = Over(fcm.pending)
                /\ UNCHANGED boxVars
      /\ UNCHANGED <<clock, seen, js, identityVars, events>>

(* finally: what was not sent goes back.                                   *)
NativeRelease ==
  /\ fcm.pc = "release"
  /\ fcm' = FcmIdle
  /\ Release("native", ToSet(fcm.pending))
  /\ UNCHANGED <<clock, seen, js, identityVars, events, serverVars>>

-----------------------------------------------------------------------------
(* The JS flusher.  `running' is not null from "outbox" to "settled".      *)

Running == js.pc \notin {"off", "idle"}

(* flushOnce is over: drain() starts another run, or returns.              *)
Ended == [JsOff EXCEPT !.pc = IF js.rerun THEN "outbox" ELSE "settled"]

(* What flush() makes of the flusher.                                      *)
Flushed ==
  IF Running THEN [js EXCEPT !.rerun = TRUE]
             ELSE [js EXCEPT !.pc = "outbox", !.rerun = FALSE]

(* The app becomes active, or a push is queued while it is.                *)
Foreground ==
  /\ js.pc # "off"
  /\ js' = Flushed
  /\ UNCHANGED <<clock, boxVars, seen, fcm, identityVars, events, serverVars>>

(* getReportOutbox; nothing left to send ends the run.                     *)
GetOutbox ==
  /\ js.pc = "outbox"
  /\ js' = IF Fresh("js") = <<>> THEN Ended
           ELSE [js EXCEPT !.pc = "token", !.pending = Fresh("js")]
  /\ Claim("js", clock + JsLease)
  /\ UNCHANGED <<clock, seen, fcm, identityVars, events, serverVars>>

CurrentToken ==
  /\ js.pc = "token"
  /\ js' = IF token = NoToken
             THEN Ended
             ELSE [js EXCEPT !.pc = "post", !.token = token, !.refreshed = FALSE]
  /\ UNCHANGED <<clock, boxVars, seen, fcm, identityVars, events, serverVars>>

(* The keychain throws; drain() catches it.                                *)
KeychainThrows ==
  /\ js.pc \in {"token", "retoken"}
  /\ js' = Ended
  /\ UNCHANGED <<clock, boxVars, seen, fcm, identityVars, events, serverVars>>

JsAnswer(outcome) ==
  /\ js.pc = "post"
  /\ Answer(ToSet(Batch(js.pending)), outcome)
  /\ js' = CASE outcome \in Final -> [js EXCEPT !.pc = "remove"]
             [] outcome = "denied" /\ ~js.refreshed ->
                  [js EXCEPT !.pc = "retoken"]
             [] outcome \in {"lost", "failed"} /\ js.failures + 1 < MaxFailures ->
                  [js EXCEPT !.pc = "sleep", !.failures = @ + 1]
             [] OTHER -> Ended
  /\ UNCHANGED <<clock, boxVars, seen, fcm, identityVars, events>>

(* Unauthenticated: once per batch, try again with a newer token.          *)
NewerToken ==
  /\ js.pc = "retoken"
  /\ js' = IF token \in {NoToken, js.token}
             THEN Ended
             ELSE [js EXCEPT !.pc = "post", !.token = token, !.refreshed = TRUE]
  /\ UNCHANGED <<clock, boxVars, seen, fcm, identityVars, events, serverVars>>

BackoffEnds ==
  /\ js.pc = "sleep"
  /\ js' = [js EXCEPT !.pc = "post"]
  /\ UNCHANGED <<clock, boxVars, seen, fcm, identityVars, events, serverVars>>

(* Mutant of RemoveEntries: everything it was handed goes with the batch. *)
RemoveEntriesAll ==
  LET rest == Rest(js.pending)
  IN  /\ js.pc = "remove"
      /\ RemoveKeys(ToSet(js.pending))
      /\ js' = IF rest = <<>> THEN Ended
               ELSE [js EXCEPT !.pc = "post", !.pending = rest, !.refreshed = FALSE]
      /\ UNCHANGED <<clock, seen, fcm, identityVars, events, serverVars>>

RemoveEntries ==
  LET rest == Rest(js.pending)
  IN  /\ js.pc = "remove"
      /\ RemoveKeys(ToSet(Batch(js.pending)))
      /\ js' = IF rest = <<>> THEN Ended
               ELSE [js EXCEPT !.pc = "post", !.pending = rest, !.refreshed = FALSE]
      /\ UNCHANGED <<clock, seen, fcm, identityVars, events, serverVars>>

(* Mutant of Settle: `running' is not cleared. *)
SettleRunning ==
  /\ js.pc = "settled"
  /\ js' = [js EXCEPT !.rerun = FALSE]
  /\ UNCHANGED <<clock, boxVars, seen, fcm, identityVars, events, serverVars>>

(* A microtask after drain() `finally' clears `running'.                   *)
Settle ==
  /\ js.pc = "settled"
  /\ js' = [js EXCEPT !.pc = "idle"]
  /\ UNCHANGED <<clock, boxVars, seen, fcm, identityVars, events, serverVars>>

-----------------------------------------------------------------------------
(* Identity.  setIdentity and removeIdentity run behind one queue, an      *)
(* await at a time; `op.pc' is the step that comes next.                   *)

EndOp == op' = OpIdle

WriteMirror(t, ok) ==
  /\ mirror' = IF ok THEN t ELSE mirror
  /\ failed' = IF ok THEN "none" ELSE "mirror"

(* Another user's reports are dropped first; re-signing keeps them.        *)
SetIdentity(u) ==
  /\ "setIdentity" \in Calls
  /\ js.pc # "off" /\ op.pc = "idle"
  /\ Event
  /\ op' = [user |-> u,
            pc |-> IF token # NoToken /\ token.user # u THEN "drop" ELSE "mint"]
  /\ UNCHANGED <<outside, boxVars, js, token, mirror, launch, reached, failed>>

DropReports ==
  /\ op.pc = "drop"
  /\ op' = [op EXCEPT !.pc = "mint"]
  /\ Clear
  /\ UNCHANGED <<outside, js, token, mirror, launch, reached, failed, events>>

(* generateToken.  A JWT read back from the keychain has lost the          *)
(* `identityHash' it is looked up by, so each call has a new one issued.   *)
GenerateToken ==
  /\ op.pc = "mint"
  /\ token' = [user |-> op.user, serial |-> events]
  /\ op' = [op EXCEPT !.pc = "mirror"]
  /\ UNCHANGED <<outside, boxVars, js, mirror, launch, reached, failed, events>>

(* The backend does not answer, or the keychain throws: setIdentity        *)
(* rejects with whatever was done before it.                               *)
GenerateTokenFails ==
  /\ op.pc = "mint"
  /\ EndOp
  /\ UNCHANGED <<outside, boxVars, js, token, mirror, launch, reached, failed,
                 events>>

MirrorSession(ok) ==
  /\ op.pc = "mirror"
  /\ WriteMirror(token, ok)
  /\ op' = [op EXCEPT !.pc = "subscribe"]
  /\ UNCHANGED <<outside, boxVars, js, token, launch, reached, events>>

(* Subscribe, then flush(); a Subscribe that fails skips the flush.        *)
SubscribeUser(ok) ==
  /\ op.pc = "subscribe"
  /\ reached' = IF ok THEN reached \cup {op.user} ELSE reached
  /\ js' = IF ok THEN Flushed ELSE js
  /\ EndOp
  /\ UNCHANGED <<outside, boxVars, token, mirror, launch, failed, events>>

RemoveIdentity ==
  /\ "removeIdentity" \in Calls
  /\ js.pc # "off" /\ op.pc = "idle"
  /\ Event
  /\ op' = [OpIdle EXCEPT !.pc = "clear"]
  /\ UNCHANGED <<outside, boxVars, js, token, mirror, launch, reached, failed>>

ClearReports ==
  /\ op.pc = "clear"
  /\ op' = [op EXCEPT !.pc = "unmirror"]
  /\ Clear
  /\ UNCHANGED <<outside, js, token, mirror, launch, reached, failed, events>>

ClearSession(ok) ==
  /\ op.pc = "unmirror"
  /\ WriteMirror(NoToken, ok)
  /\ op' = [op EXCEPT !.pc = "delete"]
  /\ UNCHANGED <<outside, boxVars, js, token, launch, reached, events>>

DeleteToken(ok) ==
  /\ op.pc = "delete"
  /\ token' = IF ok THEN NoToken ELSE token
  /\ failed' = IF ok \/ failed = "mirror" THEN failed ELSE "delete"
  /\ EndOp
  /\ UNCHANGED <<outside, boxVars, js, mirror, launch, reached, events>>

(* initialize, in a new JS runtime: read the JWT, then behind the queue    *)
(* mirror it, or clear the session of an earlier one.                      *)
Launch ==
  /\ js.pc = "off"
  /\ js' = [JsOff EXCEPT !.pc = "idle"]
  /\ launch' = "read"
  /\ UNCHANGED <<outside, boxVars, token, mirror, op, reached, failed, events>>

LaunchRead(active) ==
  /\ launch = "read"
  /\ launch' = IF token = NoToken THEN "blank" ELSE "stored"
  /\ js' = IF token # NoToken /\ active THEN Flushed ELSE js
  /\ UNCHANGED <<outside, boxVars, token, mirror, op, reached, failed, events>>

(* The keychain throws; the session of the last launch stays.              *)
LaunchReadFails ==
  /\ launch = "read"
  /\ launch' = "done"
  /\ failed' = "mirror"
  /\ UNCHANGED <<outside, boxVars, js, token, mirror, op, reached, events>>

(* Mutant of LaunchTurn: the session is cleared without another look. *)
LaunchTurnUnchecked(ok) ==
  /\ launch \in {"stored", "blank"} /\ op.pc = "idle"
  /\ launch' = "done"
  /\ WriteMirror(IF launch = "blank" THEN NoToken ELSE token, ok)
  /\ UNCHANGED <<outside, boxVars, js, token, op, reached, events>>

(* A setIdentity or removeIdentity that was asked for before the read is   *)
(* ahead of it in the queue.                                               *)
LaunchTurn(ok) ==
  /\ launch \in {"stored", "blank"} /\ op.pc = "idle"
  /\ launch' = "done"
  /\ IF (launch = "stored") = (token # NoToken)
       THEN WriteMirror(token, ok)
       ELSE UNCHANGED <<mirror, failed>>
  /\ UNCHANGED <<outside, boxVars, js, token, op, reached, events>>

-----------------------------------------------------------------------------
(* The environment.                                                        *)

(* The relay delivers the message before FCM does.                         *)
SocketSees(p) ==
  /\ Event
  /\ p \notin seen
  /\ Owner[p] \in reached
  /\ seen' = seen \cup {p}
  /\ UNCHANGED <<clock, boxVars, fcm, js, identityVars, serverVars>>

(* A lease that runs out is as good as none.  A native request is cut off  *)
(* at its deadline; what JS still holds then may be sent by both.          *)
Tick ==
  LET lapsed == {p \in Pushes : lease[p].until = clock'}
  IN  /\ clock < MaxClock
      /\ ~(fcm.pc = "post" /\ clock >= fcm.deadline)
      /\ clock' = clock + 1
      /\ lease' = [p \in Pushes |-> IF p \in lapsed THEN NoLease ELSE lease[p]]
      /\ repeatable' = repeatable \cup (lapsed \cap ToSet(js.pending))
      /\ UNCHANGED <<entries, handled, seen, fcm, js, identityVars, events, server>>

(* The process dies.  The outbox was committed; the newest seen ids may    *)
(* not have been.                                                          *)
Crash ==
  /\ Event
  /\ lease' = [p \in Pushes |-> NoLease]
  /\ handled' = Keys(entries)
  /\ \E s \in SUBSET seen :
       /\ seen' = s
       /\ repeatable' = repeatable \cup Keys(entries) \cup (seen \ s)
                          \cup ({fcm.push} \ {NoPush})
  /\ fcm' = FcmIdle
  /\ js' = JsOff
  /\ op' = OpIdle
  /\ launch' = "done"
  /\ UNCHANGED <<clock, entries, token, mirror, reached, failed, server>>

-----------------------------------------------------------------------------
(* A fresh install, or one with the session and reports of a user.         *)
Init ==
  /\ clock = 0
  /\ token \in {NoToken} \cup [user : Users, serial : {0}]
  /\ entries \in
       {es \in SeqOf([key : {p \in Pushes : Owner[p] = token.user}, at : {0}],
                     Capacity) : IsInjective(es) /\ Len(es) \in Stored}
  /\ lease = [p \in Pushes |-> NoLease]
  /\ handled = Keys(entries)
  /\ seen = handled
  /\ fcm = FcmIdle
  /\ js = JsOff
  /\ mirror = token
  /\ op = OpIdle
  /\ launch = "done"
  /\ events = 0
  /\ reached = {token.user} \ {"none"}
  /\ server = [p \in Pushes |-> "none"]
  /\ repeatable = {}
  /\ failed = "none"

FcmThread ==
  \/ \E b \in BOOLEAN : SuperHandleIntent(b) \/ LoadSession(b)
  \/ NativeClaim \/ NativeRelease
  \/ \E o \in Outcomes : NativeAnswer(o)

Flusher ==
  \/ GetOutbox \/ CurrentToken \/ NewerToken
  \/ KeychainThrows \/ BackoffEnds \/ RemoveEntries \/ Settle
  \/ \E o \in Outcomes : JsAnswer(o)

IdentityStep ==
  \/ DropReports \/ GenerateToken \/ GenerateTokenFails
  \/ ClearReports \/ LaunchReadFails
  \/ \E ok \in BOOLEAN :
       \/ MirrorSession(ok) \/ SubscribeUser(ok)
       \/ ClearSession(ok) \/ DeleteToken(ok)
       \/ LaunchRead(ok) \/ LaunchTurn(ok)

Host == Foreground \/ Launch \/ RemoveIdentity \/ \E u \in Users : SetIdentity(u)

Next ==
  \/ FcmThread \/ Flusher \/ IdentityStep \/ Host \/ Tick \/ Crash
  \/ \E p \in Pushes : HandleIntent(p) \/ SocketSees(p)

(* The FCM thread and the flusher's promises run; the app is opened again  *)
(* and again; the keychain and the server do not fail every time.          *)
Fairness ==
  /\ WF_vars(FcmThread) /\ WF_vars(Flusher)
  /\ WF_vars(Launch \/ Foreground)
  /\ SF_vars(CurrentToken)
  /\ SF_vars(\E o \in Final : JsAnswer(o))

Spec == Init /\ [][Next]_vars /\ Fairness

-----------------------------------------------------------------------------
(* "Neither deletes anything it was not acknowledged for": a report leaves *)
(* the outbox only once the server has it or has refused it, past its age, *)
(* as the oldest of a full outbox, or with the identity it belonged to.    *)
NothingLost ==
  [][\A i \in DOMAIN entries :
       entries[i].key \notin Keys(entries') =>
         \/ server'[entries[i].key] # "none"
         \/ Expired(entries[i])
         \/ i = 1 /\ Len(entries) = Capacity /\ fcm'.pc = "super"
         \/ op.pc \in {"drop", "clear"} /\ op' # op]_vars

(* "A lost lease costs at worst a duplicate": the server takes a second    *)
(* report of a push only if the first answer was lost, JS outlived its     *)
(* lease, or the process died.                                             *)
DuplicatesExplained == \A p \in Pushes : server[p] # "repeated"

(* "The mirrored credential must not outlive the identity even if the      *)
(* deletion throws": once no identity call is under way, native holds the  *)
(* stored JWT, or nothing where the stored one could not be deleted.       *)
MirrorFollows ==
  js.pc # "off" /\ op.pc = "idle" /\ launch = "done"
    => \/ mirror = token
       \/ failed = "mirror"
       \/ failed = "delete" /\ mirror = NoToken

(* A queued report does not stay in the outbox of a device with a JWT.     *)
Drains ==
  \A p \in Pushes :
    p \in Keys(entries) ~> p \notin Keys(entries) \/ token = NoToken
=============================================================================
