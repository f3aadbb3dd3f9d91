---------------------------- MODULE ReportMarkers ----------------------------
(***************************************************************************)
(* The provider-push report path of iOS.  A push may be handled by the     *)
(* Notification Service Extension, by the app, or by both, and its report  *)
(* uploaded by a background URLSession of either, or by the JS flusher.    *)
(* They share one marker file, read and rewritten as a whole under an      *)
(* flock that is given up on when it is busy for half a second, after      *)
(* which the file is read and written without it.                          *)
(*                                                                         *)
(* Time is short against the 72 hours after which a marker or an entry is  *)
(* dropped, and only tells an upload younger than IN_FLIGHT_TTL from an    *)
(* older one, which is "overdue".                                          *)
(***************************************************************************)
EXTENDS Naturals, FiniteSets

CONSTANTS
  Pushes,      (* keys of provider pushes                                  *)
  NoPush,
  Setups       (* what one behaviour is about: records of `coming', the    *)
               (* <<"nse", p>> and <<"app", p>> if the extension or the    *)
               (* app may be given p, <<"left", p>> if p was left for a    *)
               (* retry earlier, and of `faults', how many slow locks,     *)
               (* lock files that do not open, dead processes and lost     *)
               (* uploads there may be                                     *)

ASSUME ConstantsAssumption ==
  /\ NoPush \notin Pushes
  /\ \A setup \in Setups :
       /\ setup.coming \subseteq {"nse", "app", "left"} \X Pushes
       /\ setup.faults \in Nat

(* Whoever works on the marker file: the extension, a background wake of   *)
(* the app, the JS flusher through the native module, an identity call     *)
(* that drops the reports, and the delegate of the URLSessions.            *)
Actors  == {"nse", "wake", "js", "identity", "delegate"}
States  == {"none", "inFlight", "overdue", "sent", "retry"}
Markers == [Pushes -> States]

(* An upload is named by the process and the push it was started for. *)
Starts   == {"nse", "wake"} \X Pushes
Uploads  == [keys : SUBSET Pushes, answer : {"none", "running", "final", "retry"}]
NoUpload == [keys |-> {}, answer |-> "none"]

VARIABLES
  markers,     (* reports.json                                             *)
  lock,        (* who holds the flock, "free"                              *)
  open,        (* what a slow transaction has read, {} outside of one      *)
  outbox,      (* the app's ReportOutbox                                   *)
  coming,      (* arrivals that are still to come                          *)
  at,          (* where each actor is                                      *)
  push,        (* the push the extension or the wake is about              *)
  entries,     (* the outbox as the wake or the flusher has read it        *)
  keys,        (* the reports each actor is about to deal with             *)
  uploads,     (* the tasks of the background sessions                     *)
  faults,      (* how many more there may be                               *)
  owed,        (* history: reports somebody has taken on                   *)
  slipped,     (* history: reports the file was written over, or not at all *)
  repeatable,  (* history: reports a second sending of which is explained  *)
  server       (* history: what the server made of each report             *)

fileVars  == <<markers, lock, open>>
actorVars == <<at, push, entries, keys>>
histVars  == <<owed, slipped, repeatable>>
vars == <<fileVars, outbox, coming, actorVars, uploads, faults, histVars, server>>

Fault == faults > 0 /\ faults' = faults - 1

(* Where `a' goes next, and what it takes along. *)
Move(a, place, p, es, ks) ==
  /\ at' = [at EXCEPT ![a] = place]
  /\ push' = [push EXCEPT ![a] = p]
  /\ entries' = [entries EXCEPT ![a] = es]
  /\ keys' = [keys EXCEPT ![a] = ks]

Go(a, place)         == Move(a, place, push[a], entries[a], keys[a])
Carry(a, place, ks)  == Move(a, place, push[a], {}, ks)
End(a)               == Move(a, "idle", NoPush, {}, {})

-----------------------------------------------------------------------------
(* ReportMarkerStore.                                                      *)

(* Mutant of Prune: an upload that never reported back stays in flight. *)
PruneNothing(m) == m

(* An in-flight upload that never reported back becomes a retry. *)
Prune(m) == [p \in Pushes |-> IF m[p] = "overdue" THEN "retry" ELSE m[p]]

Excluded(m) == {p \in Pushes : m[p] \in {"sent", "inFlight"}}

Put(m, ps, state) == [p \in Pushes |-> IF p \in ps THEN state ELSE m[p]]

(* Mutant of Claimed: what another upload carries is claimed again. *)
ClaimedUnsent(m, ps) == {p \in ps : m[p] # "sent"}

Claimed(m, ps) == ps \ Excluded(m)

(* Mutant of MarkRetry: a sent report is downgraded. *)
MarkAnyRetry(m, ps) == Put(m, ps, "retry")

(* Mutant of MarkRetry: a report without a marker gets none. *)
MarkKnownRetry(m, ps) == Put(m, {p \in ps : m[p] \notin {"none", "sent"}}, "retry")

MarkRetry(m, ps) == Put(m, {p \in ps : m[p] # "sent"}, "retry")

(* The places at which an actor is in a transaction; the ones that write.  *)
Writing   == {"claim", "markSent", "markBatch", "markRetry", "clearRetries"}
Transacts == {"sent", "excluded", "retries"} \cup Writing

After(place, m, ps) ==
  CASE place = "claim"        -> Put(m, Claimed(m, ps), "inFlight")
    [] place = "markSent"     -> Put(m, ps, "sent")
    [] place \in {"markBatch", "markRetry"} -> MarkRetry(m, ps)
    [] place = "clearRetries" -> Put(m, {p \in Pushes : m[p] = "retry"}, "none")
    [] OTHER                  -> m

Found(place, m, ps) ==
  CASE place = "claim"    -> Claimed(m, ps)
    [] place = "sent"     -> {p \in Pushes : m[p] = "sent"}
    [] place = "excluded" -> Excluded(m)
    [] place = "retries"  -> {p \in Pushes : m[p] = "retry"}
    [] OTHER              -> {}

(* A transaction that is slow has read the file and not written it yet.    *)
(* The others wait for its lock, or give up on it and go on without.       *)
Slow(a) == open[a] # {}
Read(a) == IF Slow(a) THEN CHOOSE m \in open[a] : TRUE ELSE markers

Turn(a) == a \in {"js", "identity"} => at["wake"] \in {"idle", "waiting"}

Enter(a) ==
  /\ at[a] \in Transacts /\ Turn(a) /\ ~Slow(a)
  /\ IF lock = "free" THEN Fault /\ lock' = a ELSE UNCHANGED <<lock, faults>>
  /\ open' = [open EXCEPT ![a] = {markers}]
  /\ UNCHANGED <<markers, outbox, coming, actorVars, uploads, histVars, server>>

(* What `a' does to the file, and what it finds there; a transaction saves *)
(* when it changes or has pruned.  What another one wrote since it read is *)
(* written over.                                                           *)
Locked(a, found) ==
  LET read  == Read(a)
      after == After(at[a], Prune(read), keys[a])
  IN  /\ Slow(a) \/ lock = "free"
      /\ found = Found(at[a], Prune(read), keys[a])
      /\ markers' = IF at[a] \in Writing \/ after # read THEN after ELSE markers
      /\ slipped' = slipped \cup {p \in Pushes : markers[p] # read[p]}
      /\ lock' = IF lock = a THEN "free" ELSE lock
      /\ open' = [open EXCEPT ![a] = {}]
      /\ UNCHANGED faults

(* The lock file does not open, and nothing is read or written. *)
NoFile(a, found) ==
  /\ ~Slow(a) /\ Fault
  /\ found = {}
  /\ slipped' = slipped \cup keys[a] \cup entries[a]
  /\ UNCHANGED fileVars

Transaction(a, place, found) ==
  /\ at[a] = place /\ Turn(a)
  /\ Locked(a, found) \/ NoFile(a, found)

-----------------------------------------------------------------------------
(* Uploads.                                                                *)

(* An upload of p is on its way, or its result. *)
Carried(p) ==
  \/ \E s \in Starts : p \in uploads[s].keys
  \/ p \in keys["delegate"]
  \/ \E a \in {"nse", "wake"} : at[a] = "upload" /\ p \in keys[a]

(* The JS flusher, which claims nothing, has decided to send p. *)
JsSends(p) == /\ at["js"] \in {"retries", "post", "remove", "markSent"}
                /\ p \in keys["js"]

(* claim: what it gets is uploaded; what it does not get somebody else has. *)
ClaimReports(a) ==
  \E found \in SUBSET Pushes :
    /\ Transaction(a, "claim", found)
    /\ IF found = {} THEN End(a) ELSE Carry(a, "upload", found)
    /\ owed' = owed \cup found
    /\ repeatable' = repeatable \cup {p \in found : JsSends(p)}
    /\ UNCHANGED <<outbox, coming, uploads, server>>

Upload(a) ==
  /\ at[a] = "upload"
  /\ uploads' = [uploads EXCEPT ![<<a, push[a]>>] =
                   [keys |-> keys[a], answer |-> "running"]]
  /\ End(a)
  /\ UNCHANGED <<fileVars, outbox, coming, faults, histVars, server>>

(* Nothing could be started: for want of an endpoint, or of a body file,   *)
(* which upload marks itself before its caller does.                       *)
UploadFails(a) ==
  /\ at[a] = "upload"
  /\ \E place \in {"markBatch", "markRetry"} : Go(a, place)
  /\ UNCHANGED <<fileVars, outbox, coming, uploads, faults, histVars, server>>

(* What was not started is left for the app; marking a report that is on   *)
(* its way lets it be sent again.                                          *)
LeaveForApp(a) ==
  /\ \/ Transaction(a, "markBatch", {}) /\ Go(a, "markRetry")
     \/ Transaction(a, "markRetry", {}) /\ End(a)
  /\ owed' = owed \cup keys[a]
  /\ repeatable' = repeatable \cup {p \in keys[a] : Carried(p)}
  /\ UNCHANGED <<outbox, coming, uploads, server>>

(* What the server and the network make of a ReportEvents call with `ps':  *)
(* taken, refused for good, taken without the answer arriving, or nothing. *)
Outcomes == {"accepted", "refused", "lost", "failed"}
Final    == {"accepted", "refused"}

Answer(ps, outcome) ==
  server' = [p \in Pushes |->
    IF p \notin ps \/ outcome = "failed" THEN server[p]
    ELSE IF outcome = "refused"
           THEN IF server[p] = "none" THEN "refused" ELSE server[p]
    ELSE IF server[p] = "taken" /\ p \notin repeatable \cup slipped THEN "repeated"
    ELSE "taken"]

UploadAnswered(s, outcome) ==
  LET ps == uploads[s].keys
  IN  /\ uploads[s].answer = "running"
      /\ uploads' = [uploads EXCEPT ![s].answer =
                       IF outcome \in Final THEN "final" ELSE "retry"]
      /\ Answer(ps, outcome)
      /\ repeatable' = IF outcome = "lost" THEN repeatable \cup ps ELSE repeatable
      /\ UNCHANGED <<fileVars, outbox, coming, actorVars, faults, owed, slipped>>

(* didCompleteWithError, in whichever process has the session. *)
Complete(s) ==
  /\ at["delegate"] = "idle"
  /\ uploads[s].answer \in {"final", "retry"}
  /\ Carry("delegate", IF uploads[s].answer = "final" THEN "markSent" ELSE "markRetry",
           uploads[s].keys)
  /\ uploads' = [uploads EXCEPT ![s] = NoUpload]
  /\ UNCHANGED <<fileVars, outbox, coming, faults, histVars, server>>

Settle ==
  /\ \E place \in {"markSent", "markRetry"} : Transaction("delegate", place, {})
  /\ End("delegate")
  /\ UNCHANGED <<outbox, coming, uploads, owed, repeatable, server>>

-----------------------------------------------------------------------------
(* The extension: ExtensionReportHandler.handle.                           *)

(* With a usable session it goes on to an upload, else to the mark. *)
Handle(p, usable) ==
  /\ at["nse"] = "idle" /\ <<"nse", p>> \in coming
  /\ coming' = coming \ {<<"nse", p>>}
  /\ Move("nse", IF usable THEN "claim" ELSE "excluded", p, {}, {p})
  /\ UNCHANGED <<fileVars, outbox, uploads, faults, histVars, server>>

(* markRetryIfUnknown: two looks, then the mark. *)
LookUp(place, next) ==
  \E found \in SUBSET Pushes :
    /\ Transaction("nse", place, found)
    /\ IF push["nse"] \in found
         THEN End("nse") ELSE Go("nse", next)
    /\ UNCHANGED <<outbox, coming, uploads, owed, repeatable, server>>

-----------------------------------------------------------------------------
(* The app: a push in the foreground, or one that wakes it.                *)

Receive(p) ==
  /\ <<"app", p>> \in coming
  /\ coming' = coming \ {<<"app", p>>}
  /\ outbox' = outbox \cup {p}
  /\ owed' = owed \cup {p}

Foreground(p) ==
  /\ Receive(p)
  /\ UNCHANGED <<fileVars, actorVars, uploads, faults, slipped, repeatable, server>>

(* The wake reads the outbox before it queues behind the report module.    *)
Wake(p) ==
  /\ at["wake"] = "idle"
  /\ Receive(p)
  /\ Move("wake", "waiting", p, outbox', {})
  /\ UNCHANGED <<fileVars, uploads, faults, slipped, repeatable, server>>

(* uploadInBackground is one block of the serial queue, and so are both    *)
(* looks of pendingReports.                                                *)
UploadInBackground ==
  /\ at["wake"] = "waiting"
  /\ ~Slow("js") /\ ~Slow("identity") /\ at["js"] # "retries"
  /\ Go("wake", "excluded")
  /\ UNCHANGED <<fileVars, outbox, coming, uploads, faults, histVars, server>>

(* pendingReports: what is queued and not excluded, then what the          *)
(* extension left for a retry.                                             *)
PendingExcluded(a) ==
  \E found \in SUBSET Pushes :
    /\ Transaction(a, "excluded", found)
    /\ Move(a, "retries", push[a], entries[a], entries[a] \ found)
    /\ UNCHANGED <<outbox, coming, uploads, owed, repeatable, server>>

PendingRetries(a, next) ==
  \E found \in SUBSET Pushes :
    /\ Transaction(a, "retries", found)
    /\ LET pending == keys[a] \cup (found \ entries[a])
       IN  IF pending = {} THEN End(a) ELSE Carry(a, next, pending)
    /\ UNCHANGED <<outbox, coming, uploads, owed, repeatable, server>>

(* Without a usable session the wake is handed to JS. *)
WakeUnusable ==
  /\ at["wake"] = "claim" /\ ~Slow("wake")
  /\ End("wake")
  /\ UNCHANGED <<fileVars, outbox, coming, uploads, faults, histVars, server>>

-----------------------------------------------------------------------------
(* JS: the flusher, and the identity calls.                                *)

GetReportOutbox ==
  /\ at["js"] = "idle" /\ at["identity"] = "idle"
  /\ Move("js", "sent", NoPush, outbox, {})
  /\ UNCHANGED <<fileVars, outbox, coming, uploads, faults, histVars, server>>

(* Entries that went out already are dropped from the outbox. *)
SentReports ==
  \E found \in SUBSET Pushes :
    /\ Transaction("js", "sent", found)
    /\ outbox' = outbox \ (entries["js"] \cap found)
    /\ Go("js", "excluded")
    /\ UNCHANGED <<coming, uploads, owed, repeatable, server>>

NoCurrentToken ==
  /\ at["js"] = "post"
  /\ End("js")
  /\ UNCHANGED <<fileVars, outbox, coming, uploads, faults, histVars, server>>

(* Attempts and backoff are those of ReportOutboxFlusher (ReportUpload):   *)
(* what was not answered for good stays for the next flush.                *)
ReportEvents(outcome) ==
  /\ at["js"] = "post"
  /\ Answer(keys["js"], outcome)
  /\ repeatable' = IF outcome = "lost" THEN repeatable \cup keys["js"] ELSE repeatable
  /\ IF outcome \in Final THEN Go("js", "remove") ELSE End("js")
  /\ UNCHANGED <<fileVars, outbox, coming, uploads, faults, owed, slipped>>

(* removeReportOutboxEntries: the outbox, then markReported. *)
RemoveEntries ==
  /\ at["js"] = "remove" /\ at["identity"] = "idle"
  /\ outbox' = outbox \ keys["js"]
  /\ Go("js", "markSent")
  /\ UNCHANGED <<fileVars, coming, uploads, faults, histVars, server>>

MarkReported ==
  /\ Transaction("js", "markSent", {})
  /\ End("js")
  /\ UNCHANGED <<outbox, coming, uploads, owed, repeatable, server>>

(* clearReportOutbox.  What it drops is not owed any more. *)
ClearReportOutbox ==
  /\ at["identity"] = "idle"
  /\ at["js"] \in {"idle", "post", "remove"}
  /\ outbox' = {}
  /\ owed' = owed \ outbox
  /\ Go("identity", "clearRetries")
  /\ UNCHANGED <<fileVars, coming, uploads, faults, slipped, repeatable, server>>

ClearRetries ==
  /\ Transaction("identity", "clearRetries", {})
  /\ owed' = owed \ {p \in Pushes : Prune(Read("identity"))[p] = "retry"}
  /\ End("identity")
  /\ UNCHANGED <<outbox, coming, uploads, repeatable, server>>

-----------------------------------------------------------------------------
(* Time, and what goes wrong.                                              *)

(* 30 minutes have passed since p was claimed. *)
Aged(m, p) == IF m[p] = "inFlight" THEN [m EXCEPT ![p] = "overdue"] ELSE m

Overdue(p) ==
  /\ markers[p] = "inFlight"
  /\ markers' = Aged(markers, p)
  /\ open' = [a \in Actors |-> {Aged(m, p) : m \in open[a]}]
  /\ repeatable' = IF Carried(p) THEN repeatable \cup {p} ELSE repeatable
  /\ UNCHANGED <<lock, outbox, coming, actorVars, uploads, faults, owed, slipped,
                 server>>

(* An upload is cancelled, or its result is never delivered. *)
UploadLost(s) ==
  /\ uploads[s] # NoUpload
  /\ Fault
  /\ uploads' = [uploads EXCEPT ![s] = NoUpload]
  /\ repeatable' = repeatable \cup uploads[s].keys
  /\ UNCHANGED <<fileVars, outbox, coming, actorVars, owed, slipped, server>>

(* A process dies; the flock goes with it. *)
Dies(actors) ==
  /\ \E a \in actors : at[a] # "idle"
  /\ Fault
  /\ at' = [a \in Actors |-> IF a \in actors THEN "idle" ELSE at[a]]
  /\ push' = [a \in Actors |-> IF a \in actors THEN NoPush ELSE push[a]]
  /\ keys' = [a \in Actors |-> IF a \in actors THEN {} ELSE keys[a]]
  /\ entries' = [a \in Actors |-> IF a \in actors THEN {} ELSE entries[a]]
  /\ open' = [a \in Actors |-> IF a \in actors THEN {} ELSE open[a]]
  /\ lock' = IF lock \in actors THEN "free" ELSE lock
  /\ repeatable' = repeatable \cup UNION {keys[a] : a \in actors}
  /\ UNCHANGED <<markers, outbox, coming, uploads, owed, slipped, server>>

-----------------------------------------------------------------------------
Init ==
  /\ \E setup \in Setups : coming = setup.coming /\ faults = setup.faults
  /\ owed = {p \in Pushes : <<"left", p>> \in coming}
  /\ markers = [p \in Pushes |-> IF p \in owed THEN "retry" ELSE "none"]
  /\ lock = "free"
  /\ open = [a \in Actors |-> {}]
  /\ outbox = {}
  /\ at = [a \in Actors |-> "idle"]
  /\ push = [a \in Actors |-> NoPush]
  /\ entries = [a \in Actors |-> {}]
  /\ keys = [a \in Actors |-> {}]
  /\ uploads = [s \in Starts |-> NoUpload]
  /\ slipped = {} /\ repeatable = {}
  /\ server = [p \in Pushes |-> "none"]

Extension ==
  \/ LookUp("excluded", "retries") \/ LookUp("retries", "markRetry")
  \/ ClaimReports("nse") \/ Upload("nse") \/ UploadFails("nse") \/ LeaveForApp("nse")

AppWake ==
  \/ UploadInBackground \/ PendingExcluded("wake") \/ PendingRetries("wake", "claim")
  \/ WakeUnusable
  \/ ClaimReports("wake") \/ Upload("wake") \/ UploadFails("wake") \/ LeaveForApp("wake")

Flusher ==
  \/ GetReportOutbox \/ SentReports
  \/ PendingExcluded("js") \/ PendingRetries("js", "post")
  \/ NoCurrentToken \/ \E o \in Outcomes : ReportEvents(o)
  \/ RemoveEntries \/ MarkReported

Delegate == Settle \/ \E s \in Starts : Complete(s)

Next ==
  \/ Extension \/ AppWake \/ Flusher \/ Delegate
  \/ ClearReportOutbox \/ ClearRetries
  \/ \E p \in Pushes : Foreground(p) \/ Wake(p) \/ Overdue(p)
  \/ \E p \in Pushes, usable \in BOOLEAN : Handle(p, usable)
  \/ \E s \in Starts, o \in Outcomes : UploadAnswered(s, o)
  \/ \E s \in Starts : UploadLost(s)
  \/ \E a \in Actors : Enter(a)
  \/ Dies({"nse"}) \/ Dies(Actors \ {"nse"})

Spec == Init /\ [][Next]_vars

(* A process that is at work goes on, an upload is answered, half an hour   *)
(* passes; one WF for these is enough, since all of it is finite.  The      *)
(* flusher comes round again, and the server answers it for good in the end. *)
Fairness ==
  /\ WF_vars(\/ Extension \/ AppWake \/ Delegate
             \/ \E p \in Pushes : Overdue(p)
             \/ \E s \in Starts, o \in Outcomes : UploadAnswered(s, o))
  /\ WF_vars(ClearRetries)
  /\ WF_vars(Flusher) /\ SF_vars(\E o \in Final : ReportEvents(o))

FairSpec == Spec /\ Fairness

-----------------------------------------------------------------------------
Places == {"idle", "waiting", "upload", "post", "remove"} \cup Transacts

TypeOK ==
  /\ markers \in Markers
  /\ lock \in Actors \cup {"free"}
  /\ open \in [Actors -> SUBSET Markers]
  /\ outbox \subseteq Pushes
  /\ coming \subseteq {"nse", "app", "left"} \X Pushes
  /\ at \in [Actors -> Places]
  /\ push \in [Actors -> Pushes \cup {NoPush}]
  /\ entries \in [Actors -> SUBSET Pushes]
  /\ keys \in [Actors -> SUBSET Pushes]
  /\ uploads \in [Starts -> Uploads]
  /\ faults \in Nat
  /\ owed \subseteq Pushes /\ slipped \subseteq Pushes /\ repeatable \subseteq Pushes
  /\ server \in [Pushes -> {"none", "taken", "refused", "repeated"}]

(* No report is forgotten: what the extension or the app has taken on is   *)
(* queued, being uploaded or marked for a retry until the server has it or *)
(* has refused it, also when processes die and uploads get lost; unless    *)
(* the lock was given up and one writer's file replaced the other's.       *)
NothingForgotten ==
  \A p \in owed \ slipped :
    \/ server[p] # "none"
    \/ p \in outbox
    \/ markers[p] \in {"inFlight", "overdue", "retry"}

(* "Never downgrades a sent report." *)
SentIsFinal ==
  [][\A p \in Pushes :
       markers[p] = "sent" => markers'[p] = "sent" \/ p \in slipped']_vars

(* "None re-reports another's": the server takes a report twice only if an *)
(* answer or an upload was lost, an upload outlived its claim, a process   *)
(* died holding it, the JS flusher, which claims nothing, was sending it   *)
(* when it was claimed, or a writer went without the lock.                 *)
DuplicatesExplained == \A p \in Pushes : server[p] # "repeated"

(* Every report somebody has taken on reaches the server, or is refused by *)
(* it or dropped by an identity call: an upload that never reports back    *)
(* becomes a retry of the app's.                                           *)
Reported ==
  \A p \in Pushes :
    p \in owed ~> server[p] # "none" \/ p \notin owed \/ p \in slipped
=============================================================================
