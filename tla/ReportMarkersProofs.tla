------------------------ MODULE ReportMarkersProofs ------------------------
(***************************************************************************)
(* Proofs about ReportMarkers, for any pushes, arrivals and number of      *)
(* faults: its type invariant, that no report is forgotten, that a sent    *)
(* report stays sent, and that a second sending is always explained.       *)
(***************************************************************************)
EXTENDS ReportMarkers, TLAPS

-----------------------------------------------------------------------------
(* The inductive invariant: whoever is about to mark a report sent knows   *)
(* what the server said of it, and so does a mark that is not an           *)
(* overwritten one.                                                        *)
Answered(p) == server[p] # "none"

MarksMeanAnswers == \A p \in Pushes \ slipped : markers[p] = "sent" => Answered(p)

SettlersKnow ==
  /\ at["delegate"] = "markSent" => \A p \in keys["delegate"] : Answered(p)
  /\ at["js"] \in {"remove", "markSent"} => \A p \in keys["js"] : Answered(p)
  /\ \A s \in Starts : uploads[s].answer = "final" =>
       \A p \in uploads[s].keys : Answered(p)

IInv ==
  /\ TypeOK
  /\ MarksMeanAnswers
  /\ SettlersKnow
  /\ NothingForgotten

-----------------------------------------------------------------------------
(* The operators on marker files.                                          *)

LEMMA PruneOK ==
  ASSUME NEW m \in Markers
  PROVE  /\ Prune(m) \in Markers
         /\ \A p \in Pushes : Prune(m)[p] = IF m[p] = "overdue" THEN "retry" ELSE m[p]
BY DEF Prune, Markers, States

LEMMA PutOK ==
  ASSUME NEW m \in Markers, NEW ps, NEW state \in States
  PROVE  /\ Put(m, ps, state) \in Markers
         /\ \A p \in Pushes : Put(m, ps, state)[p] = IF p \in ps THEN state ELSE m[p]
BY DEF Put, Markers

LEMMA AfterType ==
  ASSUME NEW m \in Markers, NEW ps \in SUBSET Pushes, NEW place
  PROVE  After(place, m, ps) \in Markers
BY PutOK DEF After, MarkRetry, States

(* What each transaction makes of one report. *)
LEMMA AfterOK ==
  ASSUME NEW m \in Markers, NEW ps \in SUBSET Pushes, NEW place, NEW p \in Pushes
  PROVE  LET was == m[p]  is == After(place, m, ps)[p]
         IN  /\ place = "claim" =>
                  is = IF p \in ps /\ was \notin {"sent", "inFlight"} THEN "inFlight" ELSE was
             /\ place = "markSent" => is = IF p \in ps THEN "sent" ELSE was
             /\ place \in {"markBatch", "markRetry"} =>
                  is = IF p \in ps /\ was # "sent" THEN "retry" ELSE was
             /\ place = "clearRetries" => is = IF was = "retry" THEN "none" ELSE was
             /\ place \notin Writing => is = was
BY PutOK DEF After, Writing, States, MarkRetry, Claimed, Excluded

LEMMA FoundOK ==
  ASSUME NEW m \in Markers, NEW ps \in SUBSET Pushes, NEW place
  PROVE  Found(place, m, ps) \subseteq Pushes
BY DEF Found, Claimed, Excluded

LEMMA ReadOK ==
  ASSUME TypeOK, NEW a \in Actors
  PROVE  Read(a) \in Markers
<1>1. CASE open[a] # {}
  <2>1. (CHOOSE m \in open[a] : TRUE) \in open[a]
    BY <1>1
  <2> QED
    BY <1>1, <2>1 DEF Read, Slow, TypeOK
<1>2. CASE open[a] = {}
  BY <1>2 DEF Read, Slow, TypeOK
<1> QED
  BY <1>1, <1>2

-----------------------------------------------------------------------------
(* Transactions.                                                           *)

(* The types a transaction keeps. *)
LEMMA TransactionTypes ==
  ASSUME TypeOK, NEW a \in Actors, NEW place, NEW found, Transaction(a, place, found)
  PROVE  /\ markers' \in Markers
         /\ lock' \in Actors \cup {"free"}
         /\ open' \in [Actors -> SUBSET Markers]
         /\ faults' \in Nat
         /\ slipped \subseteq slipped' /\ slipped' \subseteq Pushes
         /\ found \subseteq Pushes
<1>1. CASE Locked(a, found)
  <2> DEFINE read  == Read(a)
             after == After(at[a], Prune(read), keys[a])
  <2>1. read \in Markers /\ Prune(read) \in Markers /\ keys[a] \in SUBSET Pushes
    BY ReadOK, PruneOK DEF TypeOK
  <2>2. after \in Markers
    BY <2>1, AfterType
  <2>3. found \subseteq Pushes
    BY <1>1, <2>1, FoundOK DEF Locked
  <2>4. markers' \in {after, markers}
    BY <1>1 DEF Locked
  <2>5. lock' \in {"free", lock} /\ open' = [open EXCEPT ![a] = {}] /\ faults' = faults
        /\ slipped' = slipped \cup {p \in Pushes : markers[p] # read[p]}
    BY <1>1 DEF Locked
  <2> QED
    BY <2>2, <2>3, <2>4, <2>5 DEF TypeOK
<1>2. CASE NoFile(a, found)
  BY <1>2 DEF NoFile, Fault, fileVars, TypeOK
<1> QED
  BY <1>1, <1>2 DEF Transaction

(* What a transaction does to a report that nobody's file is written over. *)
LEMMA TransactionOK ==
  ASSUME TypeOK, NEW a \in Actors, NEW place, NEW found, Transaction(a, place, found),
         NEW p \in Pushes \ slipped'
  PROVE  /\ p \notin slipped
         /\ markers'[p] = "sent" =>
              markers[p] = "sent" \/ (place = "markSent" /\ p \in keys[a])
         /\ markers[p] = "sent" => markers'[p] = "sent"
         /\ markers[p] \in {"inFlight", "overdue", "retry"} =>
              \/ markers'[p] \in {"inFlight", "overdue", "retry"}
              \/ place = "markSent" /\ p \in keys[a]
              \/ place = "clearRetries" /\ Prune(Read(a))[p] = "retry"
         /\ place = "claim" /\ p \in found => markers'[p] = "inFlight"
         /\ place \in {"markBatch", "markRetry"} /\ p \in keys[a] =>
              markers'[p] \in {"retry", "sent"}
         /\ place = "sent" /\ p \in found => markers[p] = "sent"
<1>1. CASE Locked(a, found)
  <2> DEFINE read   == Read(a)
             pruned == Prune(read)
             after  == After(place, pruned, keys[a])
  <2>1. at[a] = place /\ p \in Pushes
    BY DEF Transaction
  <2>2. read \in Markers /\ keys[a] \in SUBSET Pushes
    BY ReadOK DEF TypeOK
  <2>3. read[p] = markers[p] /\ p \notin slipped
    BY <1>1 DEF Locked
  <2>4. pruned \in Markers /\ pruned[p] = IF markers[p] = "overdue" THEN "retry" ELSE markers[p]
    BY <2>2, <2>3, PruneOK
  <2>5. /\ found = Found(place, pruned, keys[a])
        /\ markers' = IF place \in Writing \/ after # read THEN after ELSE markers
    BY <1>1, <2>1 DEF Locked
  <2>6. markers[p] \in States
    BY DEF TypeOK, Markers
  <2> HIDE DEF read, pruned
  <2>7. LET was == pruned[p]  is == after[p]
        IN  /\ place = "claim" =>
                 is = IF p \in keys[a] /\ was \notin {"sent", "inFlight"} THEN "inFlight" ELSE was
            /\ place = "markSent" => is = IF p \in keys[a] THEN "sent" ELSE was
            /\ place \in {"markBatch", "markRetry"} =>
                 is = IF p \in keys[a] /\ was # "sent" THEN "retry" ELSE was
            /\ place = "clearRetries" => is = IF was = "retry" THEN "none" ELSE was
            /\ place \notin Writing => is = was
    BY <2>1, <2>2, <2>4, AfterOK
  <2>8. /\ markers'[p] \in {after[p], markers[p]}
        /\ place \in Writing => markers'[p] = after[p]
    BY <2>5
  <2>9. Claimed(pruned, keys[a]) = {q \in keys[a] : pruned[q] \notin {"sent", "inFlight"}}
    BY <2>2 DEF Claimed, Excluded
  <2> HIDE DEF after
  <2>10. CASE place = "claim"
    <3>1. found = Claimed(pruned, keys[a]) /\ place \in Writing
      BY <2>5, <2>10 DEF Found, Writing
    <3> QED
      BY <2>3, <2>4, <2>6, <2>7, <2>8, <2>9, <2>10, <3>1 DEF States
  <2>11. CASE place = "markSent"
    BY <2>3, <2>4, <2>6, <2>7, <2>8, <2>11 DEF States, Writing
  <2>12. CASE place \in {"markBatch", "markRetry"}
    BY <2>3, <2>4, <2>6, <2>7, <2>8, <2>12 DEF States, Writing
  <2>13. CASE place = "clearRetries"
    <3>1. pruned[p] = Prune(Read(a))[p]
      BY DEF pruned, read
    <3> QED
      BY <2>3, <2>4, <2>6, <2>7, <2>8, <2>13, <3>1 DEF States, Writing
  <2>14. CASE place \notin Writing
    <3>1. place = "sent" => found = {q \in Pushes : pruned[q] = "sent"}
      BY <2>5 DEF Found
    <3> QED
      BY <2>3, <2>4, <2>6, <2>7, <2>8, <2>14, <3>1 DEF States, Writing
  <2> QED
    BY <2>10, <2>11, <2>12, <2>13, <2>14 DEF Writing
<1>2. CASE NoFile(a, found)
  BY <1>2 DEF NoFile, fileVars, Transaction
<1> QED
  BY <1>1, <1>2 DEF Transaction

-----------------------------------------------------------------------------
(* What a step does to the actors, and what the rest of it leaves alone.   *)

LEMMA MoveOK ==
  ASSUME TypeOK, NEW a \in Actors, NEW place \in Places, NEW p \in Pushes \cup {NoPush},
         NEW es \in SUBSET Pushes, NEW ks \in SUBSET Pushes, Move(a, place, p, es, ks)
  PROVE  /\ at' \in [Actors -> Places] /\ push' \in [Actors -> Pushes \cup {NoPush}]
         /\ entries' \in [Actors -> SUBSET Pushes] /\ keys' \in [Actors -> SUBSET Pushes]
         /\ at'[a] = place /\ keys'[a] = ks
         /\ \A b \in Actors \ {a} : at'[b] = at[b] /\ keys'[b] = keys[b]
BY DEF Move, TypeOK

LEMMA EndOK ==
  ASSUME TypeOK, NEW a \in Actors, End(a)
  PROVE  /\ Move(a, "idle", NoPush, {}, {})
         /\ at' \in [Actors -> Places] /\ push' \in [Actors -> Pushes \cup {NoPush}]
         /\ entries' \in [Actors -> SUBSET Pushes] /\ keys' \in [Actors -> SUBSET Pushes]
BY DEF End, Move, TypeOK, Places

LEMMA GoOK ==
  ASSUME TypeOK, NEW a \in Actors, NEW place, Go(a, place)
  PROVE  /\ Move(a, place, push[a], entries[a], keys[a])
         /\ push[a] \in Pushes \cup {NoPush}
         /\ entries[a] \in SUBSET Pushes /\ keys[a] \in SUBSET Pushes
BY DEF Go, TypeOK

LEMMA CarryOK ==
  ASSUME TypeOK, NEW a \in Actors, NEW place, NEW ks, Carry(a, place, ks)
  PROVE  Move(a, place, push[a], {}, ks) /\ push[a] \in Pushes \cup {NoPush}
BY DEF Carry, TypeOK

(* Who moves without having to mark anything sent leaves the settlers be.  *)
LEMMA MoveKnows ==
  ASSUME IInv, NEW a \in Actors, NEW place \in Places, NEW p \in Pushes \cup {NoPush},
         NEW es \in SUBSET Pushes, NEW ks \in SUBSET Pushes, Move(a, place, p, es, ks),
         \A q \in Pushes : Answered(q) => Answered(q)',
         \A s \in Starts : uploads'[s].answer = "final" =>
           \/ \A q \in uploads'[s].keys : Answered(q)'
           \/ uploads'[s] = uploads[s],
         a = "delegate" /\ place = "markSent" => \A q \in ks : Answered(q)',
         a = "js" /\ place \in {"remove", "markSent"} => \A q \in ks : Answered(q)'
  PROVE  SettlersKnow'
<1>1. /\ at'[a] = place /\ keys'[a] = ks
      /\ \A b \in Actors \ {a} : at'[b] = at[b] /\ keys'[b] = keys[b]
  BY MoveOK DEF IInv
<1>2. \A b \in Actors : keys[b] \subseteq Pushes
  BY DEF IInv, TypeOK
<1>3. \A s \in Starts : uploads[s].keys \subseteq Pushes
  BY DEF IInv, TypeOK, Uploads
<1>4. {"delegate", "js"} \subseteq Actors
  BY DEF Actors
<1>5. \A s \in Starts : uploads'[s].answer = "final" =>
        \A q \in uploads'[s].keys : Answered(q)'
  BY <1>3 DEF IInv, SettlersKnow
<1>6. at'["delegate"] = "markSent" => \A q \in keys'["delegate"] : Answered(q)'
  BY <1>1, <1>2, <1>4 DEF IInv, SettlersKnow
<1>7. at'["js"] \in {"remove", "markSent"} => \A q \in keys'["js"] : Answered(q)'
  BY <1>1, <1>2, <1>4 DEF IInv, SettlersKnow
<1> QED
  BY <1>5, <1>6, <1>7 DEF SettlersKnow

(* A step that does not touch the marker file keeps the invariant. *)
LEMMA OutsideOK ==
  ASSUME IInv, TypeOK', SettlersKnow', markers' = markers, slipped \subseteq slipped',
         \A q \in Pushes : Answered(q) => Answered(q)',
         \A q \in outbox \ outbox' : q \in owed' => Answered(q)',
         owed' \subseteq owed \cup outbox'
  PROVE  IInv'
BY DEF IInv, MarksMeanAnswers, NothingForgotten, Answered, TypeOK

(* What a transaction leaves of the invariant; a mark for reports that     *)
(* have been answered, or a dropped retry, is the caller's affair.         *)
LEMMA TransactionKeeps ==
  ASSUME IInv, NEW a \in Actors, NEW place, NEW found, Transaction(a, place, found),
         UNCHANGED server,
         place = "markSent" => \A q \in keys[a] : Answered(q)
  PROVE  /\ MarksMeanAnswers'
         /\ \A q \in owed \ slipped' :
              \/ Answered(q)
              \/ q \in outbox
              \/ markers'[q] \in {"inFlight", "overdue", "retry"}
              \/ place = "clearRetries" /\ Prune(Read(a))[q] = "retry"
<1>1. TypeOK
  BY DEF IInv
<1>2. MarksMeanAnswers'
  <2> SUFFICES ASSUME NEW q \in Pushes \ slipped', markers'[q] = "sent"
               PROVE  Answered(q)'
    BY DEF MarksMeanAnswers
  <2>1. q \in Pushes \ slipped
        /\ (markers[q] = "sent" \/ (place = "markSent" /\ q \in keys[a]))
    BY <1>1, TransactionOK
  <2> QED
    BY <2>1 DEF IInv, MarksMeanAnswers, Answered
<1>3. ASSUME NEW q \in owed \ slipped'
      PROVE  \/ Answered(q)
             \/ q \in outbox
             \/ markers'[q] \in {"inFlight", "overdue", "retry"}
             \/ place = "clearRetries" /\ Prune(Read(a))[q] = "retry"
  <2>1. q \in Pushes \ slipped'
    BY <1>1 DEF TypeOK
  <2>2. q \notin slipped
    BY <1>1, <2>1, TransactionOK
  <2>3. Answered(q) \/ q \in outbox \/ markers[q] \in {"inFlight", "overdue", "retry"}
    BY <2>2 DEF IInv, NothingForgotten, Answered
  <2> QED
    BY <1>1, <2>1, <2>3, TransactionOK
<1> QED
  BY <1>2, <1>3

(* A transaction after which its actor moves on, and nothing else changes. *)
LEMMA LookOK ==
  ASSUME IInv, NEW a \in Actors, NEW place, NEW found, Transaction(a, place, found),
         NEW next \in Places, NEW p \in Pushes \cup {NoPush},
         NEW es \in SUBSET Pushes, NEW ks \in SUBSET Pushes, Move(a, next, p, es, ks),
         place \notin {"markSent", "clearRetries"},
         a \in {"js", "delegate"} => next \notin {"remove", "markSent"},
         UNCHANGED <<outbox, coming, uploads, owed, repeatable, server>>
  PROVE  IInv'
<1>1. TypeOK
  BY DEF IInv
<1>2. TypeOK'
  BY <1>1, MoveOK, TransactionTypes DEF TypeOK
<1>3. MarksMeanAnswers' /\ NothingForgotten'
  BY TransactionKeeps DEF NothingForgotten, Answered
<1>4. SettlersKnow'
  BY MoveKnows DEF Answered
<1> QED
  BY <1>2, <1>3, <1>4 DEF IInv

-----------------------------------------------------------------------------
(* Each action preserves the invariant.                                    *)

Workers == {"nse", "wake"}

LEMMA EnterOK == ASSUME IInv, NEW a \in Actors, Enter(a) PROVE IInv'
<1>1. TypeOK /\ UNCHANGED <<markers, outbox, coming, actorVars, uploads, histVars, server>>
  BY DEF IInv, Enter
<1>2. faults' \in Nat /\ lock' \in Actors \cup {"free"}
  BY <1>1 DEF Enter, Fault, TypeOK
<1>3. open' \in [Actors -> SUBSET Markers]
  BY <1>1 DEF Enter, TypeOK
<1>4. TypeOK'
  BY <1>1, <1>2, <1>3 DEF TypeOK, actorVars, histVars
<1>5. SettlersKnow'
  BY <1>1 DEF IInv, SettlersKnow, Answered, actorVars
<1> QED
  BY <1>1, <1>4, <1>5, OutsideOK DEF Answered, actorVars, histVars

LEMMA ClaimReportsOK == ASSUME IInv, NEW a \in Workers, ClaimReports(a) PROVE IInv'
<1>1. TypeOK /\ a \in Actors /\ a \notin {"js", "delegate"}
  BY DEF IInv, Workers, Actors
<1>2. PICK found \in SUBSET Pushes :
        /\ Transaction(a, "claim", found)
        /\ IF found = {} THEN End(a) ELSE Carry(a, "upload", found)
        /\ owed' = owed \cup found
        /\ repeatable' = repeatable \cup {p \in found : JsSends(p)}
        /\ UNCHANGED <<outbox, coming, uploads, server>>
  BY DEF ClaimReports
<1>3. PICK place \in {"idle", "upload"}, p \in Pushes \cup {NoPush}, ks \in SUBSET Pushes :
        Move(a, place, p, {}, ks)
  BY <1>1, <1>2, EndOK, CarryOK
<1>4. place \in Places
  BY DEF Places
<1>5. TypeOK'
  BY <1>1, <1>2, <1>3, <1>4, MoveOK, TransactionTypes DEF TypeOK
<1>6. SettlersKnow'
  BY <1>1, <1>2, <1>3, <1>4, MoveKnows DEF Answered
<1>7. MarksMeanAnswers'
  BY <1>1, <1>2, TransactionKeeps
<1>8. NothingForgotten'
  <2> SUFFICES ASSUME NEW q \in owed' \ slipped'
               PROVE  \/ Answered(q)'
                      \/ q \in outbox'
                      \/ markers'[q] \in {"inFlight", "overdue", "retry"}
    BY DEF NothingForgotten, Answered
  <2>1. CASE q \in owed
    BY <1>1, <1>2, <2>1, TransactionKeeps DEF Answered
  <2>2. CASE q \in found
    BY <1>1, <1>2, <2>2, TransactionOK
  <2> QED
    BY <1>2, <2>1, <2>2
<1> QED
  BY <1>5, <1>6, <1>7, <1>8 DEF IInv

LEMMA UploadOK == ASSUME IInv, NEW a \in Workers, Upload(a) PROVE IInv'
<1>1. TypeOK /\ a \in Actors /\ a \notin {"js", "delegate"} /\ "idle" \in Places
  BY DEF IInv, Workers, Actors, Places
<1>2. /\ Move(a, "idle", NoPush, {}, {})
      /\ UNCHANGED <<fileVars, outbox, coming, faults, histVars, server>>
  BY <1>1, EndOK DEF Upload
<1> DEFINE s == <<a, push[a]>>
           u == [keys |-> keys[a], answer |-> "running"]
<1>3. u \in Uploads /\ u.answer = "running"
  BY <1>1 DEF TypeOK, Uploads
<1>4. uploads' = [uploads EXCEPT ![s] = u]
  BY DEF Upload
<1> HIDE DEF u, s
<1>5. /\ uploads' \in [Starts -> Uploads]
      /\ \A t \in Starts : uploads'[t] = uploads[t] \/ uploads'[t].answer = "running"
  BY <1>1, <1>3, <1>4 DEF TypeOK
<1>6. TypeOK'
  <2>1. /\ at' \in [Actors -> Places] /\ push' \in [Actors -> Pushes \cup {NoPush}]
        /\ entries' \in [Actors -> SUBSET Pushes] /\ keys' \in [Actors -> SUBSET Pushes]
    BY <1>1, EndOK DEF Upload
  <2> QED
    BY <1>1, <1>2, <1>5, <2>1 DEF TypeOK, fileVars, histVars
<1>7. SettlersKnow'
  BY <1>1, <1>2, <1>5, MoveKnows DEF Answered
<1> QED
  BY <1>2, <1>6, <1>7, OutsideOK DEF Answered, fileVars, histVars

LEMMA UploadFailsOK == ASSUME IInv, NEW a \in Workers, UploadFails(a) PROVE IInv'
<1>1. TypeOK /\ a \in Actors /\ a \notin {"js", "delegate"}
  BY DEF IInv, Workers, Actors
<1>2. PICK place \in {"markBatch", "markRetry"} : Go(a, place)
  BY DEF UploadFails
<1>3. /\ Move(a, place, push[a], entries[a], keys[a]) /\ place \in Places
      /\ push[a] \in Pushes \cup {NoPush}
      /\ entries[a] \in SUBSET Pushes /\ keys[a] \in SUBSET Pushes
  BY <1>1, <1>2, GoOK DEF Places, Transacts, Writing
<1>4. UNCHANGED <<fileVars, outbox, coming, uploads, faults, histVars, server>>
  BY DEF UploadFails
<1>5. TypeOK'
  BY <1>1, <1>3, <1>4, MoveOK DEF TypeOK, fileVars, histVars
<1>6. SettlersKnow'
  BY <1>1, <1>3, <1>4, MoveKnows DEF Answered
<1> QED
  BY <1>4, <1>5, <1>6, OutsideOK DEF Answered, fileVars, histVars

LEMMA LeaveForAppOK == ASSUME IInv, NEW a \in Workers, LeaveForApp(a) PROVE IInv'
<1>1. TypeOK /\ a \in Actors /\ a \notin {"js", "delegate"}
  BY DEF IInv, Workers, Actors
<1>2. /\ owed' = owed \cup keys[a]
      /\ repeatable' = repeatable \cup {p \in keys[a] : Carried(p)}
      /\ UNCHANGED <<outbox, coming, uploads, server>>
  BY DEF LeaveForApp
<1>3. PICK place \in {"markBatch", "markRetry"} : Transaction(a, place, {})
  BY DEF LeaveForApp
<1>4. keys[a] \in SUBSET Pushes
  BY <1>1 DEF TypeOK
<1>5. PICK next \in {"markRetry", "idle"}, p \in Pushes \cup {NoPush}, es \in SUBSET Pushes,
           ks \in SUBSET Pushes : Move(a, next, p, es, ks)
  <2>1. Go(a, "markRetry") \/ End(a)
    BY DEF LeaveForApp
  <2> QED
    BY <1>1, <2>1, EndOK, GoOK
<1>6. next \in Places
  BY DEF Places, Transacts, Writing
<1>7. TypeOK'
  <2>1. repeatable' \subseteq Pushes /\ owed' \subseteq Pushes
    BY <1>1, <1>2, <1>4 DEF TypeOK
  <2> QED
    BY <1>1, <1>2, <1>3, <1>5, <1>6, <2>1, MoveOK, TransactionTypes DEF TypeOK
<1>8. SettlersKnow'
  BY <1>1, <1>2, <1>5, <1>6, MoveKnows DEF Answered
<1>9. MarksMeanAnswers'
  BY <1>1, <1>2, <1>3, TransactionKeeps
<1>10. NothingForgotten'
  <2> SUFFICES ASSUME NEW q \in owed' \ slipped'
               PROVE  \/ Answered(q)'
                      \/ q \in outbox'
                      \/ markers'[q] \in {"inFlight", "overdue", "retry"}
    BY DEF NothingForgotten, Answered
  <2>1. CASE q \in owed
    BY <1>1, <1>2, <1>3, <2>1, TransactionKeeps DEF Answered
  <2>2. CASE q \in keys[a]
    <3>1. q \in Pushes \ slipped'
      BY <1>4, <2>2
    <3>2. markers'[q] \in {"retry", "sent"}
      BY <1>1, <1>3, <2>2, <3>1, TransactionOK
    <3> QED
      BY <1>9, <3>1, <3>2 DEF MarksMeanAnswers
  <2> QED
    BY <1>2, <2>1, <2>2
<1> QED
  BY <1>7, <1>8, <1>9, <1>10 DEF IInv

LEMMA UploadAnsweredOK ==
  ASSUME IInv, NEW s \in Starts, NEW o \in Outcomes, UploadAnswered(s, o) PROVE IInv'
<1>1. TypeOK /\ uploads[s].keys \subseteq Pushes /\ uploads[s] \in Uploads
  BY DEF IInv, TypeOK, Uploads
<1> DEFINE ps == uploads[s].keys
           answer == IF o \in Final THEN "final" ELSE "retry"
<1>2. /\ uploads' = [uploads EXCEPT ![s].answer = answer]
      /\ Answer(ps, o)
      /\ repeatable' \in {repeatable, repeatable \cup ps}
      /\ UNCHANGED <<fileVars, outbox, coming, actorVars, faults, owed, slipped>>
  BY DEF UploadAnswered
<1>3. /\ server' \in [Pushes -> {"none", "taken", "refused", "repeated"}]
      /\ \A q \in Pushes : Answered(q) => Answered(q)'
      /\ o \in Final => \A q \in ps : Answered(q)'
  BY <1>1, <1>2 DEF TypeOK, Answer, Answered, Final
<1>4. /\ uploads' \in [Starts -> Uploads]
      /\ uploads'[s].keys = ps /\ uploads'[s].answer = answer
      /\ \A t \in Starts \ {s} : uploads'[t] = uploads[t]
  BY <1>1, <1>2 DEF TypeOK, Uploads
<1>5. TypeOK'
  BY <1>1, <1>2, <1>3, <1>4 DEF TypeOK, fileVars, actorVars
<1>6. \A t \in Starts : uploads[t].keys \subseteq Pushes
  BY <1>1 DEF TypeOK, Uploads
<1>7. \A b \in Actors : keys[b] \subseteq Pushes
  BY <1>1 DEF TypeOK
<1>8. SettlersKnow'
  <2>1. \A t \in Starts : uploads'[t].answer = "final" =>
          \A q \in uploads'[t].keys : Answered(q)'
    BY <1>3, <1>4, <1>6 DEF IInv, SettlersKnow
  <2>2. {"delegate", "js"} \subseteq Actors
    BY DEF Actors
  <2> QED
    BY <1>2, <1>3, <1>7, <2>1, <2>2 DEF IInv, SettlersKnow, actorVars
<1> QED
  BY <1>2, <1>3, <1>5, <1>8, OutsideOK DEF fileVars

LEMMA CompleteOK == ASSUME IInv, NEW s \in Starts, Complete(s) PROVE IInv'
<1>1. TypeOK /\ "delegate" \in Actors /\ NoUpload \in Uploads /\ NoUpload.answer = "none"
      /\ uploads[s].keys \in SUBSET Pushes
  BY DEF IInv, Actors, NoUpload, Uploads, TypeOK
<1> DEFINE place == IF uploads[s].answer = "final" THEN "markSent" ELSE "markRetry"
           p == push["delegate"]
           ks == uploads[s].keys
<1>2. /\ Move("delegate", place, p, {}, ks) /\ p \in Pushes \cup {NoPush}
      /\ place \in Places
  BY <1>1, CarryOK DEF Complete, Places, Transacts, Writing
<1>3. /\ uploads' = [uploads EXCEPT ![s] = NoUpload]
      /\ UNCHANGED <<fileVars, outbox, coming, faults, histVars, server>>
  BY DEF Complete
<1>4. /\ uploads' \in [Starts -> Uploads]
      /\ \A t \in Starts : uploads'[t] = uploads[t] \/ uploads'[t].answer = "none"
  BY <1>1, <1>3 DEF TypeOK
<1>5. place = "markSent" => \A q \in ks : Answered(q)'
  BY <1>3 DEF IInv, SettlersKnow, Answered
<1> HIDE DEF place, p, ks
<1>6. TypeOK'
  <2>1. /\ at' \in [Actors -> Places] /\ push' \in [Actors -> Pushes \cup {NoPush}]
        /\ entries' \in [Actors -> SUBSET Pushes] /\ keys' \in [Actors -> SUBSET Pushes]
    BY <1>1, <1>2, MoveOK DEF ks
  <2> QED
    BY <1>1, <1>3, <1>4, <2>1 DEF TypeOK, fileVars, histVars
<1>7. SettlersKnow'
  <2>1. ks \in SUBSET Pushes
    BY <1>1 DEF ks
  <2> QED
    BY <1>1, <1>2, <1>3, <1>4, <1>5, <2>1, MoveKnows DEF Answered
<1> QED
  BY <1>3, <1>6, <1>7, OutsideOK DEF Answered, fileVars, histVars

(* A transaction that settles reports the server has answered. *)
LEMMA SettlesOK ==
  ASSUME IInv, NEW a \in {"delegate", "js"}, NEW place \in {"markSent", "markRetry"},
         Transaction(a, place, {}), End(a),
         UNCHANGED <<outbox, coming, uploads, owed, repeatable, server>>
  PROVE  IInv'
<1>1. TypeOK /\ a \in Actors /\ "idle" \in Places
  BY DEF IInv, Actors, Places
<1>2. Move(a, "idle", NoPush, {}, {})
  BY <1>1, EndOK
<1>3. at[a] = place
  BY DEF Transaction
<1>4. place = "markSent" => \A q \in keys[a] : Answered(q)
  BY <1>3 DEF IInv, SettlersKnow
<1>5. TypeOK'
  <2>1. /\ at' \in [Actors -> Places] /\ push' \in [Actors -> Pushes \cup {NoPush}]
        /\ entries' \in [Actors -> SUBSET Pushes] /\ keys' \in [Actors -> SUBSET Pushes]
    BY <1>1, EndOK
  <2> QED
    BY <1>1, <2>1, TransactionTypes DEF TypeOK
<1>6. SettlersKnow'
  BY <1>1, <1>2, MoveKnows DEF Answered
<1>7. MarksMeanAnswers' /\ NothingForgotten'
  BY <1>1, <1>4, TransactionKeeps DEF NothingForgotten, Answered
<1> QED
  BY <1>5, <1>6, <1>7 DEF IInv

LEMMA SettleOK == ASSUME IInv, Settle PROVE IInv'
BY SettlesOK DEF Settle

LEMMA MarkReportedOK == ASSUME IInv, MarkReported PROVE IInv'
BY SettlesOK DEF MarkReported

(* A step that moves an actor and at most takes a report in. *)
LEMMA OutsideMoveOK ==
  ASSUME IInv, NEW a \in Actors, NEW place \in Places, NEW p \in Pushes \cup {NoPush},
         NEW es \in SUBSET Pushes, NEW ks \in SUBSET Pushes, Move(a, place, p, es, ks),
         a \in {"delegate", "js"} => place \notin {"remove", "markSent"},
         UNCHANGED <<fileVars, uploads, faults, slipped, repeatable, server>>,
         coming' \subseteq coming, outbox' \subseteq Pushes, owed' \subseteq Pushes,
         outbox \subseteq outbox', owed' \subseteq owed \cup outbox'
  PROVE  IInv'
<1>1. TypeOK'
  <2>1. /\ at' \in [Actors -> Places] /\ push' \in [Actors -> Pushes \cup {NoPush}]
        /\ entries' \in [Actors -> SUBSET Pushes] /\ keys' \in [Actors -> SUBSET Pushes]
    BY MoveOK DEF IInv
  <2> QED
    BY <2>1 DEF IInv, TypeOK, fileVars
<1>2. SettlersKnow'
  BY MoveKnows DEF Answered
<1> QED
  BY <1>1, <1>2, OutsideOK DEF Answered, fileVars

LEMMA HandleOK ==
  ASSUME IInv, NEW p \in Pushes, NEW usable \in BOOLEAN, Handle(p, usable) PROVE IInv'
<1> DEFINE place == IF usable THEN "claim" ELSE "excluded"
           ks == {p}
<1>1. /\ "nse" \in Actors /\ place \in Places /\ ks \in SUBSET Pushes
      /\ outbox \subseteq Pushes /\ owed \subseteq Pushes
  BY DEF Actors, Places, Transacts, Writing, IInv, TypeOK
<1>2. /\ Move("nse", place, p, {}, ks) /\ coming' \subseteq coming
      /\ UNCHANGED <<fileVars, outbox, uploads, faults, histVars, server>>
  BY DEF Handle
<1> HIDE DEF place, ks
<1> QED
  BY <1>1, <1>2, OutsideMoveOK DEF histVars

LEMMA ForegroundOK == ASSUME IInv, NEW p \in Pushes, Foreground(p) PROVE IInv'
<1>1. /\ coming' \subseteq coming /\ outbox' = outbox \cup {p} /\ owed' = owed \cup {p}
      /\ UNCHANGED <<fileVars, actorVars, uploads, faults, slipped, repeatable, server>>
  BY DEF Foreground, Receive
<1>2. TypeOK'
  BY <1>1 DEF IInv, TypeOK, fileVars, actorVars
<1>3. SettlersKnow'
  BY <1>1 DEF IInv, SettlersKnow, Answered, actorVars
<1> QED
  BY <1>1, <1>2, <1>3, OutsideOK DEF Answered, fileVars

LEMMA WakeOK == ASSUME IInv, NEW p \in Pushes, Wake(p) PROVE IInv'
<1>1. /\ coming' \subseteq coming /\ outbox' = outbox \cup {p} /\ owed' = owed \cup {p}
      /\ Move("wake", "waiting", p, outbox', {})
      /\ UNCHANGED <<fileVars, uploads, faults, slipped, repeatable, server>>
  BY DEF Wake, Receive
<1>2. /\ "wake" \in Actors /\ "waiting" \in Places
      /\ outbox' \in SUBSET Pushes /\ owed' \subseteq Pushes /\ {} \in SUBSET Pushes
  BY <1>1 DEF Actors, Places, IInv, TypeOK
<1> QED
  BY <1>1, <1>2, OutsideMoveOK

LEMMA UploadInBackgroundOK == ASSUME IInv, UploadInBackground PROVE IInv'
<1>1. /\ TypeOK /\ "wake" \in Actors /\ "excluded" \in Places
      /\ outbox \subseteq Pushes /\ owed \subseteq Pushes
  BY DEF IInv, TypeOK, Actors, Places, Transacts
<1>2. /\ Move("wake", "excluded", push["wake"], entries["wake"], keys["wake"])
      /\ push["wake"] \in Pushes \cup {NoPush}
      /\ entries["wake"] \in SUBSET Pushes /\ keys["wake"] \in SUBSET Pushes
  BY <1>1, GoOK DEF UploadInBackground
<1>3. UNCHANGED <<fileVars, outbox, coming, uploads, faults, histVars, server>>
  BY DEF UploadInBackground
<1> QED
  BY <1>1, <1>2, <1>3, OutsideMoveOK DEF histVars

(* An actor that ends and changes nothing else. *)
LEMMA EndsOK ==
  ASSUME IInv, NEW a \in Actors, End(a),
         UNCHANGED <<fileVars, coming, uploads, faults, owed, slipped, repeatable, server>>,
         UNCHANGED outbox
  PROVE  IInv'
<1> DEFINE place == "idle"
           none == {}
<1>1. TypeOK /\ place \in Places /\ outbox \subseteq Pushes /\ owed \subseteq Pushes
      /\ none \in SUBSET Pushes
  BY DEF IInv, TypeOK, Places
<1>2. Move(a, place, NoPush, none, none) /\ place \notin {"remove", "markSent"}
  BY <1>1, EndOK
<1> HIDE DEF place, none
<1> QED
  BY <1>1, <1>2, OutsideMoveOK

LEMMA WakeUnusableOK == ASSUME IInv, WakeUnusable PROVE IInv'
BY EndsOK DEF WakeUnusable, histVars, Actors

LEMMA NoCurrentTokenOK == ASSUME IInv, NoCurrentToken PROVE IInv'
BY EndsOK DEF NoCurrentToken, histVars, Actors

LEMMA GetReportOutboxOK == ASSUME IInv, GetReportOutbox PROVE IInv'
<1> DEFINE none == {}
<1>1. /\ "js" \in Actors /\ "sent" \in Places /\ none \in SUBSET Pushes
      /\ outbox \in SUBSET Pushes /\ owed \subseteq Pushes
  BY DEF IInv, TypeOK, Actors, Places, Transacts
<1>2. /\ Move("js", "sent", NoPush, outbox, none)
      /\ UNCHANGED <<fileVars, outbox, coming, uploads, faults, histVars, server>>
  BY DEF GetReportOutbox
<1> HIDE DEF none
<1> QED
  BY <1>1, <1>2, OutsideMoveOK DEF histVars

LEMMA LookUpOK ==
  ASSUME IInv,
         NEW place \in {"excluded", "retries"}, NEW next \in {"retries", "markRetry"},
         LookUp(place, next)
  PROVE  IInv'
<1>1. TypeOK /\ "nse" \in Actors /\ {"idle", "retries", "markRetry"} \subseteq Places
  BY DEF IInv, Actors, Places, Transacts, Writing
<1>2. PICK found \in SUBSET Pushes :
        /\ Transaction("nse", place, found)
        /\ End("nse") \/ Go("nse", next)
        /\ UNCHANGED <<outbox, coming, uploads, owed, repeatable, server>>
  BY DEF LookUp
<1>3. PICK there \in {"idle", "retries", "markRetry"}, p \in Pushes \cup {NoPush},
           es \in SUBSET Pushes, ks \in SUBSET Pushes : Move("nse", there, p, es, ks)
  BY <1>1, <1>2, EndOK, GoOK
<1>4. there \in Places
  BY <1>1
<1> QED
  BY <1>1, <1>2, <1>3, <1>4, LookOK

LEMMA PendingExcludedOK ==
  ASSUME IInv, NEW a \in {"wake", "js"}, PendingExcluded(a) PROVE IInv'
<1>1. TypeOK /\ a \in Actors /\ "retries" \in Places
  BY DEF IInv, Actors, Places, Transacts
<1>2. PICK found \in SUBSET Pushes :
        /\ Transaction(a, "excluded", found)
        /\ Move(a, "retries", push[a], entries[a], entries[a] \ found)
        /\ UNCHANGED <<outbox, coming, uploads, owed, repeatable, server>>
  BY DEF PendingExcluded
<1>3. /\ push[a] \in Pushes \cup {NoPush} /\ entries[a] \in SUBSET Pushes
      /\ entries[a] \ found \in SUBSET Pushes
  BY <1>1 DEF TypeOK
<1> QED
  BY <1>1, <1>2, <1>3, LookOK

LEMMA PendingRetriesOK ==
  ASSUME IInv, NEW a \in {"wake", "js"}, NEW next \in {"claim", "post"},
         PendingRetries(a, next)
  PROVE  IInv'
<1>1. TypeOK /\ a \in Actors /\ {"idle", "claim", "post"} \subseteq Places
  BY DEF IInv, Actors, Places, Transacts, Writing
<1>2. PICK found \in SUBSET Pushes :
        /\ Transaction(a, "retries", found)
        /\ \/ End(a)
           \/ Carry(a, next, keys[a] \cup (found \ entries[a]))
        /\ UNCHANGED <<outbox, coming, uploads, owed, repeatable, server>>
  BY DEF PendingRetries
<1>3. keys[a] \cup (found \ entries[a]) \in SUBSET Pushes
  BY <1>1, <1>2 DEF TypeOK
<1>4. PICK there \in {"idle", "claim", "post"}, p \in Pushes \cup {NoPush},
           es \in SUBSET Pushes, ks \in SUBSET Pushes : Move(a, there, p, es, ks)
  BY <1>1, <1>2, <1>3, EndOK, CarryOK
<1>5. there \in Places /\ there \notin {"remove", "markSent"}
  BY <1>1
<1>6. /\ Transaction(a, "retries", found) /\ a \in Actors
      /\ UNCHANGED <<outbox, coming, uploads, owed, repeatable, server>>
  BY <1>1, <1>2
<1> QED
  BY <1>4, <1>5, <1>6, LookOK

LEMMA SentReportsOK == ASSUME IInv, SentReports PROVE IInv'
<1>1. /\ TypeOK /\ "js" \in Actors /\ "excluded" \in Places
  BY DEF IInv, Actors, Places, Transacts
<1>2. PICK found \in SUBSET Pushes :
        /\ Transaction("js", "sent", found)
        /\ outbox' = outbox \ (entries["js"] \cap found)
        /\ Go("js", "excluded")
        /\ UNCHANGED <<coming, uploads, owed, repeatable, server>>
  BY DEF SentReports
<1>3. /\ Move("js", "excluded", push["js"], entries["js"], keys["js"])
      /\ push["js"] \in Pushes \cup {NoPush}
      /\ entries["js"] \in SUBSET Pushes /\ keys["js"] \in SUBSET Pushes
  BY <1>1, <1>2, GoOK
<1>4. TypeOK'
  <2>1. outbox' \subseteq Pushes
    BY <1>1, <1>2 DEF TypeOK
  <2> QED
    BY <1>1, <1>2, <1>3, <2>1, MoveOK, TransactionTypes DEF TypeOK
<1>5. SettlersKnow'
  BY <1>1, <1>2, <1>3, MoveKnows DEF Answered
<1>6. MarksMeanAnswers'
  BY <1>1, <1>2, TransactionKeeps
<1>7. NothingForgotten'
  <2> SUFFICES ASSUME NEW q \in owed' \ slipped'
               PROVE  \/ Answered(q)'
                      \/ q \in outbox'
                      \/ markers'[q] \in {"inFlight", "overdue", "retry"}
    BY DEF NothingForgotten, Answered
  <2>1. q \in Pushes \ slipped' /\ q \in owed
    BY <1>1, <1>2 DEF TypeOK
  <2>2. CASE q \in found
    <3>1. markers[q] = "sent" /\ q \notin slipped
      BY <1>1, <1>2, <2>1, <2>2, TransactionOK
    <3> QED
      BY <1>2, <2>1, <3>1 DEF IInv, MarksMeanAnswers, Answered
  <2>3. CASE q \notin found
    BY <1>1, <1>2, <2>1, <2>3, TransactionKeeps DEF Answered
  <2> QED
    BY <2>2, <2>3
<1> QED
  BY <1>4, <1>5, <1>6, <1>7 DEF IInv

LEMMA ReportEventsOK == ASSUME IInv, NEW o \in Outcomes, ReportEvents(o) PROVE IInv'
<1>1. /\ TypeOK /\ "js" \in Actors /\ {"idle", "remove"} \subseteq Places
      /\ keys["js"] \in SUBSET Pushes
  BY DEF IInv, TypeOK, Actors, Places
<1>2. /\ Answer(keys["js"], o)
      /\ repeatable' \in {repeatable, repeatable \cup keys["js"]}
      /\ IF o \in Final THEN Go("js", "remove") ELSE End("js")
      /\ UNCHANGED <<fileVars, outbox, coming, uploads, faults, owed, slipped>>
  BY DEF ReportEvents
<1>3. /\ server' \in [Pushes -> {"none", "taken", "refused", "repeated"}]
      /\ \A q \in Pushes : Answered(q) => Answered(q)'
      /\ o \in Final => \A q \in keys["js"] : Answered(q)'
  BY <1>1, <1>2 DEF TypeOK, Answer, Answered, Final
<1>4. PICK there \in {"idle", "remove"}, p \in Pushes \cup {NoPush},
           es \in SUBSET Pushes, ks \in SUBSET Pushes :
        /\ Move("js", there, p, es, ks)
        /\ there = "remove" => o \in Final /\ ks = keys["js"]
  <2>1. CASE o \in Final
    <3>1. /\ Move("js", "remove", push["js"], entries["js"], keys["js"])
          /\ push["js"] \in Pushes \cup {NoPush} /\ entries["js"] \in SUBSET Pushes
      BY <1>1, <1>2, <2>1, GoOK
    <3> QED
      BY <1>1, <2>1, <3>1
  <2>2. CASE o \notin Final
    <3> DEFINE idle == "idle"
               none == {}
    <3>1. Move("js", idle, NoPush, none, none) /\ idle \in {"idle", "remove"}
          /\ idle # "remove" /\ none \in SUBSET Pushes
      BY <1>1, <1>2, <2>2, EndOK
    <3> HIDE DEF idle, none
    <3> QED
      BY <3>1
  <2> QED
    BY <2>1, <2>2
<1>5. there \in Places
  BY <1>1
<1>6. TypeOK'
  BY <1>1, <1>2, <1>3, <1>4, <1>5, MoveOK DEF TypeOK, fileVars
<1>7. SettlersKnow'
  BY <1>1, <1>2, <1>3, <1>4, <1>5, MoveKnows
<1> QED
  BY <1>2, <1>3, <1>6, <1>7, OutsideOK DEF fileVars

LEMMA RemoveEntriesOK == ASSUME IInv, RemoveEntries PROVE IInv'
<1>1. /\ TypeOK /\ "js" \in Actors /\ "markSent" \in Places /\ at["js"] = "remove"
      /\ outbox' = outbox \ keys["js"] /\ outbox' \subseteq Pushes
      /\ UNCHANGED <<fileVars, coming, uploads, faults, histVars, server>>
  BY DEF IInv, TypeOK, RemoveEntries, Actors, Places, Transacts, Writing
<1>2. /\ Move("js", "markSent", push["js"], entries["js"], keys["js"])
      /\ push["js"] \in Pushes \cup {NoPush}
      /\ entries["js"] \in SUBSET Pushes /\ keys["js"] \in SUBSET Pushes
  BY <1>1, GoOK DEF RemoveEntries
<1>3. \A q \in keys["js"] : Answered(q) /\ Answered(q)'
  BY <1>1 DEF IInv, SettlersKnow, Answered
<1>4. TypeOK'
  BY <1>1, <1>2, MoveOK DEF TypeOK, fileVars, histVars
<1>5. SettlersKnow'
  BY <1>1, <1>2, <1>3, MoveKnows DEF Answered
<1> QED
  BY <1>1, <1>3, <1>4, <1>5, OutsideOK DEF Answered, fileVars, histVars

LEMMA ClearReportOutboxOK == ASSUME IInv, ClearReportOutbox PROVE IInv'
<1>1. /\ TypeOK /\ "identity" \in Actors /\ "clearRetries" \in Places
      /\ outbox' = {} /\ owed' = owed \ outbox /\ owed' \subseteq Pushes
      /\ UNCHANGED <<fileVars, coming, uploads, faults, slipped, repeatable, server>>
  BY DEF IInv, TypeOK, ClearReportOutbox, Actors, Places, Transacts, Writing
<1>2. /\ Move("identity", "clearRetries", push["identity"], entries["identity"],
              keys["identity"])
      /\ push["identity"] \in Pushes \cup {NoPush}
      /\ entries["identity"] \in SUBSET Pushes /\ keys["identity"] \in SUBSET Pushes
  BY <1>1, GoOK DEF ClearReportOutbox
<1>3. TypeOK'
  BY <1>1, <1>2, MoveOK DEF TypeOK, fileVars
<1>4. SettlersKnow'
  BY <1>1, <1>2, MoveKnows DEF Answered
<1> QED
  BY <1>1, <1>3, <1>4, OutsideOK DEF Answered, fileVars

LEMMA ClearRetriesOK == ASSUME IInv, ClearRetries PROVE IInv'
<1>1. /\ TypeOK /\ "identity" \in Actors /\ "idle" \in Places
  BY DEF IInv, Actors, Places
<1>2. /\ Transaction("identity", "clearRetries", {}) /\ End("identity")
      /\ owed' = owed \ {p \in Pushes : Prune(Read("identity"))[p] = "retry"}
      /\ UNCHANGED <<outbox, coming, uploads, repeatable, server>>
  BY DEF ClearRetries
<1>3. Move("identity", "idle", NoPush, {}, {})
  BY <1>1, <1>2, EndOK
<1>4. TypeOK'
  <2>1. /\ at' \in [Actors -> Places] /\ push' \in [Actors -> Pushes \cup {NoPush}]
        /\ entries' \in [Actors -> SUBSET Pushes] /\ keys' \in [Actors -> SUBSET Pushes]
    BY <1>1, <1>2, EndOK
  <2>2. owed' \subseteq Pushes
    BY <1>1, <1>2 DEF TypeOK
  <2> QED
    BY <1>1, <1>2, <2>1, <2>2, TransactionTypes DEF TypeOK
<1>5. SettlersKnow'
  BY <1>1, <1>2, <1>3, MoveKnows DEF Answered
<1>6. MarksMeanAnswers'
  BY <1>1, <1>2, TransactionKeeps
<1>7. NothingForgotten'
  <2> SUFFICES ASSUME NEW q \in owed' \ slipped'
               PROVE  \/ Answered(q)'
                      \/ q \in outbox'
                      \/ markers'[q] \in {"inFlight", "overdue", "retry"}
    BY DEF NothingForgotten, Answered
  <2>1. q \in owed \ slipped' /\ Prune(Read("identity"))[q] # "retry"
    BY <1>1, <1>2 DEF TypeOK
  <2> QED
    BY <1>1, <1>2, <2>1, TransactionKeeps DEF Answered
<1> QED
  BY <1>4, <1>5, <1>6, <1>7 DEF IInv

LEMMA OverdueOK == ASSUME IInv, NEW p \in Pushes, Overdue(p) PROVE IInv'
<1>1. /\ TypeOK
      /\ repeatable' \in {repeatable, repeatable \cup {p}}
      /\ UNCHANGED <<lock, outbox, coming, actorVars, uploads, faults, owed, slipped, server>>
  BY DEF IInv, Overdue
<1>2. /\ \A m \in Markers : Aged(m, p) \in Markers
      /\ \A m \in Markers, q \in Pushes :
           Aged(m, p)[q] = IF q = p /\ m[p] = "inFlight" THEN "overdue" ELSE m[q]
  BY DEF Aged, Markers, States
<1>3. /\ markers' = Aged(markers, p) /\ markers \in Markers
      /\ open' = [a \in Actors |-> {Aged(m, p) : m \in open[a]}]
  BY <1>1 DEF Overdue, TypeOK
<1>4. markers' \in Markers /\ open' \in [Actors -> SUBSET Markers]
  BY <1>1, <1>2, <1>3 DEF TypeOK
<1>5. \A q \in Pushes : markers'[q] \in {markers[q], "overdue"}
  BY <1>2, <1>3
<1>6. \A q \in Pushes : markers'[q] # markers[q] =>
        markers[q] = "inFlight" /\ markers'[q] = "overdue"
  BY <1>2, <1>3
<1>7. TypeOK'
  BY <1>1, <1>4 DEF TypeOK, actorVars
<1>8. SettlersKnow'
  BY <1>1 DEF IInv, SettlersKnow, Answered, actorVars
<1>9. MarksMeanAnswers'
  BY <1>1, <1>5, <1>6 DEF IInv, MarksMeanAnswers, Answered
<1>10. NothingForgotten'
  BY <1>1, <1>6 DEF IInv, NothingForgotten, TypeOK
<1> QED
  BY <1>7, <1>8, <1>9, <1>10 DEF IInv

LEMMA UploadLostOK == ASSUME IInv, NEW s \in Starts, UploadLost(s) PROVE IInv'
<1>1. /\ TypeOK /\ NoUpload \in Uploads /\ NoUpload.answer = "none"
      /\ uploads[s].keys \subseteq Pushes
  BY DEF IInv, NoUpload, Uploads, TypeOK
<1>2. /\ uploads' = [uploads EXCEPT ![s] = NoUpload] /\ Fault
      /\ repeatable' = repeatable \cup uploads[s].keys
      /\ UNCHANGED <<fileVars, outbox, coming, actorVars, owed, slipped, server>>
  BY DEF UploadLost
<1>3. /\ uploads' \in [Starts -> Uploads] /\ faults' \in Nat
      /\ \A t \in Starts : uploads'[t] = uploads[t] \/ uploads'[t].answer = "none"
  BY <1>1, <1>2 DEF TypeOK, Fault
<1>4. TypeOK'
  BY <1>1, <1>2, <1>3 DEF TypeOK, fileVars, actorVars
<1>5. SettlersKnow'
  BY <1>2, <1>3 DEF IInv, SettlersKnow, Answered, actorVars
<1> QED
  BY <1>2, <1>4, <1>5, OutsideOK DEF Answered, fileVars

LEMMA DiesOK == ASSUME IInv, NEW actors \in SUBSET Actors, Dies(actors) PROVE IInv'
<1>1. /\ TypeOK /\ Fault /\ "idle" \in Places
      /\ at' = [a \in Actors |-> IF a \in actors THEN "idle" ELSE at[a]]
      /\ push' = [a \in Actors |-> IF a \in actors THEN NoPush ELSE push[a]]
      /\ keys' = [a \in Actors |-> IF a \in actors THEN {} ELSE keys[a]]
      /\ entries' = [a \in Actors |-> IF a \in actors THEN {} ELSE entries[a]]
      /\ open' = [a \in Actors |-> IF a \in actors THEN {} ELSE open[a]]
      /\ lock' = IF lock \in actors THEN "free" ELSE lock
      /\ repeatable' = repeatable \cup UNION {keys[a] : a \in actors}
      /\ UNCHANGED <<markers, outbox, coming, uploads, owed, slipped, server>>
  BY DEF IInv, Dies, Places
<1>2. /\ at' \in [Actors -> Places] /\ push' \in [Actors -> Pushes \cup {NoPush}]
      /\ lock' \in Actors \cup {"free"} /\ faults' \in Nat
  BY <1>1 DEF TypeOK, Fault
<1>3. keys' \in [Actors -> SUBSET Pushes]
  BY <1>1 DEF TypeOK
<1>4. entries' \in [Actors -> SUBSET Pushes]
  BY <1>1 DEF TypeOK
<1>5. open' \in [Actors -> SUBSET Markers]
  BY <1>1 DEF TypeOK
<1>6. repeatable' \subseteq Pushes
  BY <1>1 DEF TypeOK
<1>7. TypeOK'
  BY <1>1, <1>2, <1>3, <1>4, <1>5, <1>6 DEF TypeOK
<1>8. SettlersKnow'
  <2>1. {"js", "delegate"} \subseteq Actors
    BY DEF Actors
  <2> QED
    BY <1>1, <2>1 DEF IInv, SettlersKnow, Answered
<1> QED
  BY <1>1, <1>7, <1>8, OutsideOK DEF Answered

LEMMA InitOK == Init => IInv
<1> SUFFICES ASSUME Init PROVE IInv
  OBVIOUS
<1>1. /\ coming \subseteq {"nse", "app", "left"} \X Pushes /\ faults \in Nat
      /\ owed \subseteq Pushes /\ slipped = {} /\ repeatable = {} /\ outbox = {}
  BY ConstantsAssumption DEF Init
<1>2. /\ markers \in Markers
      /\ \A p \in Pushes : markers[p] = IF p \in owed THEN "retry" ELSE "none"
  BY DEF Init, Markers, States
<1>3. /\ lock = "free"
      /\ at = [a \in Actors |-> "idle"] /\ push = [a \in Actors |-> NoPush]
      /\ entries = [a \in Actors |-> {}] /\ keys = [a \in Actors |-> {}]
      /\ open = [a \in Actors |-> {}]
  BY DEF Init
<1>4. uploads \in [Starts -> Uploads] /\ \A s \in Starts : uploads[s].answer = "none"
  BY DEF Init, NoUpload, Uploads
<1>5. server \in [Pushes -> {"none", "taken", "refused", "repeated"}]
  BY DEF Init
<1>6. /\ at \in [Actors -> Places] /\ push \in [Actors -> Pushes \cup {NoPush}]
      /\ open \in [Actors -> SUBSET Markers]
  BY <1>3 DEF Places
<1>7. entries \in [Actors -> SUBSET Pushes] /\ keys \in [Actors -> SUBSET Pushes]
  BY <1>3
<1>8. TypeOK
  BY <1>1, <1>2, <1>3, <1>4, <1>5, <1>6, <1>7 DEF TypeOK
<1>9. MarksMeanAnswers /\ NothingForgotten
  BY <1>1, <1>2 DEF MarksMeanAnswers, NothingForgotten
<1>10. SettlersKnow
  BY <1>3, <1>4 DEF SettlersKnow, Actors
<1> QED
  BY <1>8, <1>9, <1>10 DEF IInv

LEMMA StutterOK == ASSUME IInv, UNCHANGED vars PROVE IInv'
BY DEF IInv, TypeOK, MarksMeanAnswers, SettlersKnow, NothingForgotten, Answered, vars,
       fileVars, actorVars, histVars

LEMMA NextOK == IInv /\ [Next]_vars => IInv'
<1> SUFFICES ASSUME IInv, [Next]_vars PROVE IInv'
  OBVIOUS
<1>1. CASE Extension
  BY <1>1, LookUpOK, ClaimReportsOK, UploadOK, UploadFailsOK, LeaveForAppOK
  DEF Extension, Workers
<1>2. CASE AppWake
  BY <1>2, UploadInBackgroundOK, PendingExcludedOK, PendingRetriesOK, WakeUnusableOK,
     ClaimReportsOK, UploadOK, UploadFailsOK, LeaveForAppOK
  DEF AppWake, Workers
<1>3. CASE Flusher
  BY <1>3, GetReportOutboxOK, SentReportsOK, PendingExcludedOK, PendingRetriesOK,
     NoCurrentTokenOK, ReportEventsOK, RemoveEntriesOK, MarkReportedOK
  DEF Flusher
<1>4. CASE Delegate
  BY <1>4, SettleOK, CompleteOK DEF Delegate
<1>5. CASE ClearReportOutbox \/ ClearRetries
  BY <1>5, ClearReportOutboxOK, ClearRetriesOK
<1>6. CASE \E p \in Pushes : Foreground(p) \/ Wake(p) \/ Overdue(p)
  BY <1>6, ForegroundOK, WakeOK, OverdueOK
<1>7. CASE \E p \in Pushes, usable \in BOOLEAN : Handle(p, usable)
  BY <1>7, HandleOK
<1>8. CASE \E s \in Starts, o \in Outcomes : UploadAnswered(s, o)
  BY <1>8, UploadAnsweredOK
<1>9. CASE \E s \in Starts : UploadLost(s)
  BY <1>9, UploadLostOK
<1>10. CASE \E a \in Actors : Enter(a)
  BY <1>10, EnterOK
<1>11. CASE Dies({"nse"}) \/ Dies(Actors \ {"nse"})
  <2> DEFINE extension == {"nse"}
             app       == Actors \ {"nse"}
  <2>1. extension \in SUBSET Actors /\ app \in SUBSET Actors
    BY DEF Actors
  <2>2. Dies(extension) \/ Dies(app)
    BY <1>11
  <2> HIDE DEF extension, app
  <2> QED
    BY <2>1, <2>2, DiesOK
<1>12. CASE UNCHANGED vars
  BY <1>12, StutterOK
<1> QED
  BY <1>1, <1>2, <1>3, <1>4, <1>5, <1>6, <1>7, <1>8, <1>9, <1>10, <1>11, <1>12 DEF Next

LEMMA Invariance == Spec => []IInv
BY InitOK, NextOK, PTL DEF Spec

-----------------------------------------------------------------------------
(* The states of the report path are well formed, whatever is pushed, dies *)
(* or is lost.                                                             *)
THEOREM TypeCorrect == Spec => []TypeOK
<1>1. IInv => TypeOK
  BY DEF IInv
<1> QED
  BY <1>1, Invariance, PTL

(* No report that the extension or the app has taken on is forgotten: it   *)
(* is queued, uploading or marked for a retry until the server has dealt   *)
(* with it, however the transactions on reports.json interleave, uploads   *)
(* get lost and processes die; but for a write that went without the lock. *)
THEOREM ForgottenCorrect == Spec => []NothingForgotten
<1>1. IInv => NothingForgotten
  BY DEF IInv
<1> QED
  BY <1>1, Invariance, PTL

-----------------------------------------------------------------------------
(* A sent mark is for good.                                                *)
Finality ==
  \A p \in Pushes : markers[p] = "sent" => markers'[p] = "sent" \/ p \in slipped'

(* A step writes the file in a transaction, or lets a claim get old, or    *)
(* leaves it alone.                                                        *)
LEMMA WritersKnown ==
  ASSUME [Next]_vars
  PROVE  \/ UNCHANGED markers
         \/ \E p \in Pushes : Overdue(p)
         \/ \E a \in Actors, place \in Transacts, found \in SUBSET Pushes :
              Transaction(a, place, found)
<1> USE DEF fileVars
<1>1. CASE Extension
  <2> "nse" \in Actors /\ {"excluded", "retries", "claim", "markBatch", "markRetry"}
      \subseteq Transacts /\ {} \in SUBSET Pushes
    BY DEF Actors, Transacts, Writing
  <2> QED
    BY <1>1 DEF Extension, LookUp, ClaimReports, Upload, UploadFails, LeaveForApp
<1>2. CASE AppWake
  <2> "wake" \in Actors /\ {"excluded", "retries", "claim", "markBatch", "markRetry"}
      \subseteq Transacts /\ {} \in SUBSET Pushes
    BY DEF Actors, Transacts, Writing
  <2> QED
    BY <1>2 DEF AppWake, UploadInBackground, PendingExcluded, PendingRetries,
                WakeUnusable, ClaimReports, Upload, UploadFails, LeaveForApp
<1>3. CASE Flusher
  <2> "js" \in Actors /\ {"sent", "excluded", "retries", "markSent"} \subseteq Transacts
      /\ {} \in SUBSET Pushes
    BY DEF Actors, Transacts, Writing
  <2> QED
    BY <1>3 DEF Flusher, GetReportOutbox, SentReports, PendingExcluded, PendingRetries,
                NoCurrentToken, ReportEvents, RemoveEntries, MarkReported
<1>4. CASE Delegate
  <2> "delegate" \in Actors /\ {"markSent", "markRetry"} \subseteq Transacts
      /\ {} \in SUBSET Pushes
    BY DEF Actors, Transacts, Writing
  <2> QED
    BY <1>4 DEF Delegate, Settle, Complete
<1>5. CASE ClearReportOutbox \/ ClearRetries
  <2> "identity" \in Actors /\ "clearRetries" \in Transacts /\ {} \in SUBSET Pushes
    BY DEF Actors, Transacts, Writing
  <2> QED
    BY <1>5 DEF ClearReportOutbox, ClearRetries
<1>6. CASE \E p \in Pushes : Foreground(p) \/ Wake(p) \/ Overdue(p)
  BY <1>6 DEF Foreground, Wake
<1>7. CASE \E p \in Pushes, usable \in BOOLEAN : Handle(p, usable)
  BY <1>7 DEF Handle
<1>8. CASE \E s \in Starts, o \in Outcomes : UploadAnswered(s, o)
  BY <1>8 DEF UploadAnswered
<1>9. CASE \E s \in Starts : UploadLost(s)
  BY <1>9 DEF UploadLost
<1>10. CASE \E a \in Actors : Enter(a)
  BY <1>10 DEF Enter
<1>11. CASE Dies({"nse"}) \/ Dies(Actors \ {"nse"})
  BY <1>11 DEF Dies
<1>12. CASE UNCHANGED vars
  BY <1>12 DEF vars
<1> QED
  BY <1>1, <1>2, <1>3, <1>4, <1>5, <1>6, <1>7, <1>8, <1>9, <1>10, <1>11, <1>12 DEF Next

LEMMA FinalityOK == TypeOK /\ [Next]_vars => Finality
<1> SUFFICES ASSUME TypeOK, [Next]_vars, NEW p \in Pushes, markers[p] = "sent",
                    p \notin slipped'
             PROVE  markers'[p] = "sent"
  BY DEF Finality
<1>1. CASE UNCHANGED markers
  BY <1>1
<1>2. CASE \E q \in Pushes : Overdue(q)
  BY <1>2 DEF Overdue, Aged, TypeOK, Markers
<1>3. CASE \E a \in Actors, place \in Transacts, found \in SUBSET Pushes :
             Transaction(a, place, found)
  <2>1. PICK a \in Actors, place \in Transacts, found \in SUBSET Pushes :
          Transaction(a, place, found)
    BY <1>3
  <2> QED
    BY <2>1, TransactionOK
<1> QED
  BY <1>1, <1>2, <1>3, WritersKnown

(* A report that is marked sent stays marked: no claim, no retry mark, no  *)
(* identity call and no stale answer takes the mark back; but for a write  *)
(* that went without the lock.                                             *)
THEOREM FinalityCorrect == Spec => SentIsFinal
<1>1. TypeOK /\ [Next]_vars => [Finality]_vars
  BY FinalityOK
<1> QED
  BY <1>1, TypeCorrect, PTL DEF Spec, SentIsFinal, Finality

-----------------------------------------------------------------------------
(* A second report is always explained.  Up and In say that a worker is    *)
(* about to upload the report of p, or that an upload carries it.          *)
Up(a, p) == at[a] = "upload" /\ p \in keys[a]
In(s, p) == p \in uploads[s].keys

(* The reports nothing has happened to that explains a second sending.     *)
Plain == Pushes \ (repeatable \cup slipped)

OneCarrier(p) ==
  /\ ~(Up("nse", p) /\ Up("wake", p))
  /\ \A s, t \in Starts : In(s, p) /\ In(t, p) => s = t
  /\ \A s \in Starts : In(s, p) =>
       ~Up("nse", p) /\ ~Up("wake", p) /\ p \notin keys["delegate"]
  /\ p \in keys["delegate"] => ~Up("nse", p) /\ ~Up("wake", p)

(* What is carried is marked so, and JS does not send it.                  *)
CarriedOK(p) == Carried(p) => markers[p] = "inFlight" /\ ~JsSends(p)

(* What the server took is on its way to a sent mark, and not to the       *)
(* server.                                                                 *)
TakenOK(p) ==
  server[p] = "taken" =>
    /\ ~Up("nse", p) /\ ~Up("wake", p)
    /\ \A s \in Starts : In(s, p) => uploads[s].answer = "final"
    /\ p \in keys["delegate"] => at["delegate"] = "markSent"
    /\ JsSends(p) => at["js"] \in {"remove", "markSent"}
    /\ Carried(p) \/ JsSends(p) \/ markers[p] = "sent"

PlainOK(p) == OneCarrier(p) /\ CarriedOK(p) /\ TakenOK(p)

(* A push starts one upload in a process.                                  *)
FreshStarts ==
  \A p \in Pushes :
    /\ <<"nse", p>> \in coming => uploads[<<"nse", p>>] = NoUpload /\ push["nse"] # p
    /\ <<"app", p>> \in coming => uploads[<<"wake", p>>] = NoUpload /\ push["wake"] # p
    /\ \A a \in Workers : push[a] = p => uploads[<<a, p>>] = NoUpload

SendersOK ==
  /\ \A p \in Plain : PlainOK(p)
  /\ FreshStarts
  /\ DuplicatesExplained

(* What a transaction knows of a report it does not write over.            *)
LEMMA TransactionTells ==
  ASSUME TypeOK, NEW a \in Actors, NEW place, NEW found, Transaction(a, place, found),
         NEW p \in Pushes \ slipped'
  PROVE  /\ place = "claim" /\ p \in found => markers[p] \notin {"sent", "inFlight"}
         /\ place = "markSent" /\ p \in keys[a] => markers'[p] = "sent"
         /\ markers[p] = "inFlight" =>
              \/ markers'[p] = "inFlight"
              \/ place \in {"markSent", "markBatch", "markRetry"} /\ p \in keys[a]
         /\ place = "excluded" /\ p \in keys[a] \cup entries[a] /\ p \notin found =>
              markers[p] \notin {"sent", "inFlight"}
         /\ place = "retries" /\ p \in found => markers[p] \notin {"sent", "inFlight"}
<1>1. CASE Locked(a, found)
  <2> DEFINE read   == Read(a)
             pruned == Prune(read)
             after  == After(place, pruned, keys[a])
  <2>1. at[a] = place /\ p \in Pushes
    BY DEF Transaction
  <2>2. read \in Markers /\ keys[a] \in SUBSET Pushes
    BY ReadOK DEF TypeOK
  <2>3. read[p] = markers[p]
    BY <1>1 DEF Locked
  <2>4. pruned \in Markers /\ pruned[p] = IF markers[p] = "overdue" THEN "retry" ELSE markers[p]
    BY <2>2, <2>3, PruneOK
  <2>5. /\ found = Found(place, pruned, keys[a])
        /\ markers' = IF place \in Writing \/ after # read THEN after ELSE markers
    BY <1>1, <2>1 DEF Locked
  <2> HIDE DEF read, pruned
  <2>6. LET was == pruned[p]  is == after[p]
        IN  /\ place = "claim" =>
                 is = IF p \in keys[a] /\ was \notin {"sent", "inFlight"} THEN "inFlight" ELSE was
            /\ place = "markSent" => is = IF p \in keys[a] THEN "sent" ELSE was
            /\ place \in {"markBatch", "markRetry"} =>
                 is = IF p \in keys[a] /\ was # "sent" THEN "retry" ELSE was
            /\ place = "clearRetries" => is = IF was = "retry" THEN "none" ELSE was
            /\ place \notin Writing => is = was
    BY <2>1, <2>2, <2>4, AfterOK
  <2>7. /\ markers'[p] \in {after[p], markers[p]}
        /\ place \in Writing => markers'[p] = after[p]
    BY <2>5
  <2> HIDE DEF after
  <2>8. /\ place = "claim" => found = Claimed(pruned, keys[a])
        /\ place = "excluded" => found = Excluded(pruned)
        /\ place = "retries" => found = {q \in Pushes : pruned[q] = "retry"}
    BY <2>5 DEF Found
  <2>9. /\ Claimed(pruned, keys[a]) = {q \in keys[a] : pruned[q] \notin {"sent", "inFlight"}}
        /\ Excluded(pruned) = {q \in Pushes : pruned[q] \in {"sent", "inFlight"}}
    BY <2>2 DEF Claimed, Excluded
  <2>10. /\ place = "claim" /\ p \in found => markers[p] \notin {"sent", "inFlight"}
         /\ place = "excluded" /\ p \notin found => markers[p] \notin {"sent", "inFlight"}
         /\ place = "retries" /\ p \in found => markers[p] \notin {"sent", "inFlight"}
    BY <2>1, <2>4, <2>8, <2>9
  <2>11. place = "markSent" /\ p \in keys[a] => markers'[p] = "sent"
    BY <2>6, <2>7 DEF Writing
  <2>12. markers[p] = "inFlight" =>
           \/ markers'[p] = "inFlight"
           \/ place \in {"markSent", "markBatch", "markRetry"} /\ p \in keys[a]
    <3> SUFFICES ASSUME markers[p] = "inFlight",
                        ~(place \in {"markSent", "markBatch", "markRetry"} /\ p \in keys[a])
                 PROVE  after[p] = "inFlight"
      BY <2>7
    <3>1. pruned[p] = "inFlight"
      BY <2>4
    <3>2. CASE place \notin Writing
      BY <2>6, <3>1, <3>2
    <3>3. CASE place \in Writing
      BY <2>6, <3>1, <3>3 DEF Writing
    <3> QED
      BY <3>2, <3>3
  <2> QED
    BY <2>10, <2>11, <2>12
<1>2. CASE NoFile(a, found)
  BY <1>2 DEF NoFile, fileVars, Transaction
<1> QED
  BY <1>1, <1>2 DEF Transaction

(* Nothing begins to send p, and what is known of it is kept.              *)
Quiet(p) ==
  /\ \A a \in Workers : Up(a, p)' => Up(a, p)
  /\ \A s \in Starts : In(s, p)' => In(s, p) /\ uploads'[s].answer = uploads[s].answer
  /\ p \in keys'["delegate"] => p \in keys["delegate"] /\ at'["delegate"] = at["delegate"]
  /\ JsSends(p)' => /\ JsSends(p)
                    /\ at["js"] \in {"remove", "markSent"} =>
                         at'["js"] \in {"remove", "markSent"}
  /\ Carried(p)' /\ markers[p] = "inFlight" => markers'[p] = "inFlight"
  /\ server'[p] = "taken" =>
       server[p] = "taken" /\ (Carried(p)' \/ JsSends(p)' \/ markers'[p] = "sent")

LEMMA CarriedIs ==
  ASSUME NEW p
  PROVE  /\ Carried(p) <=> (\/ \E s \in Starts : In(s, p)
                            \/ p \in keys["delegate"]
                            \/ Up("nse", p) \/ Up("wake", p))
         /\ Carried(p)' <=> (\/ \E s \in Starts : In(s, p)'
                             \/ p \in keys'["delegate"]
                             \/ Up("nse", p)' \/ Up("wake", p)')
BY DEF Carried, In, Up

LEMMA QuietKeeps ==
  ASSUME NEW p, PlainOK(p), Quiet(p)
  PROVE  PlainOK(p)'
<1>1. {"nse", "wake"} = Workers
  BY DEF Workers
<1>2. Carried(p)' => Carried(p)
  BY <1>1, CarriedIs DEF Quiet
<1>3. OneCarrier(p)'
  BY <1>1 DEF PlainOK, OneCarrier, Quiet
<1>4. CarriedOK(p)'
  BY <1>2 DEF PlainOK, CarriedOK, Quiet
<1>5. TakenOK(p)'
  <2> SUFFICES ASSUME server'[p] = "taken" PROVE TakenOK(p)'
    BY DEF TakenOK
  <2>1. /\ ~Up("nse", p) /\ ~Up("wake", p)
        /\ \A s \in Starts : In(s, p) => uploads[s].answer = "final"
        /\ p \in keys["delegate"] => at["delegate"] = "markSent"
        /\ JsSends(p) => at["js"] \in {"remove", "markSent"}
        /\ Carried(p)' \/ JsSends(p)' \/ markers'[p] = "sent"
    BY DEF PlainOK, TakenOK, Quiet
  <2>2. /\ \A s \in Starts : In(s, p)' => uploads'[s].answer = "final"
        /\ p \in keys'["delegate"] => at'["delegate"] = "markSent"
        /\ JsSends(p)' => at'["js"] \in {"remove", "markSent"}
        /\ ~Up("nse", p)' /\ ~Up("wake", p)'
    BY <1>1, <2>1 DEF Quiet
  <2> QED
    BY <2>1, <2>2 DEF TakenOK
<1> QED
  BY <1>3, <1>4, <1>5 DEF PlainOK

(* The senders of p are where they were.                                   *)
SameSenders(p) ==
  /\ \A a \in Workers : Up(a, p)' <=> Up(a, p)
  /\ uploads' = uploads
  /\ keys'["delegate"] = keys["delegate"] /\ at'["delegate"] = at["delegate"]
  /\ JsSends(p)' <=> JsSends(p)
  /\ at'["js"] = at["js"]

MarksKept(p) ==
  /\ Carried(p) /\ markers[p] = "inFlight" => markers'[p] = "inFlight"
  /\ markers[p] = "sent" => markers'[p] = "sent"

LEMMA SameKeeps ==
  ASSUME NEW p, PlainOK(p), SameSenders(p), MarksKept(p), server' = server
  PROVE  PlainOK(p)'
<1>1. \A s \in Starts : In(s, p)' <=> In(s, p)
  BY DEF SameSenders, In
<1>2. Carried(p)' <=> Carried(p)
  <2>1. {"nse", "wake"} = Workers
    BY DEF Workers
  <2> QED
    BY <1>1, <2>1, CarriedIs DEF SameSenders
<1>3. server'[p] = "taken" =>
        server[p] = "taken" /\ (Carried(p)' \/ JsSends(p)' \/ markers'[p] = "sent")
  BY <1>2 DEF PlainOK, TakenOK, SameSenders, MarksKept
<1>4. Carried(p)' /\ markers[p] = "inFlight" => markers'[p] = "inFlight"
  BY <1>2 DEF MarksKept
<1> HIDE DEF SameSenders
<1>5. Quiet(p)
  BY <1>1, <1>3, <1>4 DEF Quiet, SameSenders
<1> QED
  BY <1>5, QuietKeeps

(* A worker, or an identity call, that moves and neither takes up nor      *)
(* drops an upload of p.                                                   *)
LEMMA MoveSame ==
  ASSUME TypeOK, NEW a \in Actors \ {"js", "delegate"}, NEW place, NEW q, NEW es, NEW ks,
         Move(a, place, q, es, ks), uploads' = uploads,
         NEW p, a \in Workers => (Up(a, p) <=> place = "upload" /\ p \in ks)
  PROVE  SameSenders(p)
<1>1. /\ at'[a] = place /\ keys'[a] = ks
      /\ \A b \in Actors \ {a} : at'[b] = at[b] /\ keys'[b] = keys[b]
  BY DEF Move, TypeOK
<1>2. {"js", "delegate"} \subseteq Actors /\ Workers \subseteq Actors
  BY DEF Actors, Workers
<1>3. \A b \in Workers : Up(b, p)' <=> Up(b, p)
  BY <1>1, <1>2 DEF Up
<1>4. JsSends(p)' <=> JsSends(p)
  BY <1>1, <1>2 DEF JsSends
<1> QED
  BY <1>1, <1>2, <1>3, <1>4 DEF SameSenders

LEMMA StillSame ==
  ASSUME UNCHANGED <<at, keys, uploads>>, NEW p PROVE SameSenders(p)
BY DEF SameSenders, Up, JsSends

(* A transaction that marks nothing keeps the marks that count.            *)
LEMMA LooksKeep ==
  ASSUME TypeOK, NEW a \in Actors, NEW place, NEW found, Transaction(a, place, found),
         NEW p \in Pushes \ slipped',
         place \notin {"markSent", "markBatch", "markRetry"} \/ p \notin keys[a] \/ ~Carried(p)
  PROVE  MarksKept(p)
<1>1. markers[p] = "sent" => markers'[p] = "sent"
  BY TransactionOK
<1>2. markers[p] = "inFlight" =>
        \/ markers'[p] = "inFlight"
        \/ place \in {"markSent", "markBatch", "markRetry"} /\ p \in keys[a]
  BY TransactionTells
<1> QED
  BY <1>1, <1>2 DEF MarksKept

(* A flusher that moves.                                                   *)
LEMMA FlusherPlain ==
  ASSUME TypeOK, NEW place, NEW q, NEW es, NEW ks, Move("js", place, q, es, ks),
         uploads' = uploads, server' = server, NEW p, PlainOK(p), MarksKept(p),
         JsSends(p)' => JsSends(p) \/ (~Carried(p) /\ server[p] # "taken"),
         JsSends(p) /\ server[p] = "taken" =>
           /\ JsSends(p)' => place \in {"remove", "markSent"}
           /\ JsSends(p)' \/ markers'[p] = "sent"
  PROVE  PlainOK(p)'
<1>1. {"nse", "wake", "delegate"} \subseteq Actors \ {"js"} /\ "js" \in Actors
  BY DEF Actors
<1>2. /\ at'["js"] = place /\ keys'["js"] = ks
      /\ \A b \in Actors \ {"js"} : at'[b] = at[b] /\ keys'[b] = keys[b]
  BY <1>1 DEF Move, TypeOK
<1>3. /\ Up("nse", p)' <=> Up("nse", p)
      /\ Up("wake", p)' <=> Up("wake", p)
      /\ \A s \in Starts : In(s, p)' <=> In(s, p)
      /\ at'["delegate"] = at["delegate"] /\ keys'["delegate"] = keys["delegate"]
  BY <1>1, <1>2 DEF Up, In
<1>4. Carried(p)' <=> Carried(p)
  BY <1>3, CarriedIs
<1>5. OneCarrier(p)'
  BY <1>3 DEF PlainOK, OneCarrier
<1>6. CarriedOK(p)'
  BY <1>4 DEF PlainOK, CarriedOK, MarksKept
<1>7. TakenOK(p)'
  <2> SUFFICES ASSUME server'[p] = "taken" PROVE TakenOK(p)'
    BY DEF TakenOK
  <2>1. TakenOK(p) /\ server[p] = "taken"
    BY DEF PlainOK
  <2>2. /\ ~Up("nse", p) /\ ~Up("wake", p)
        /\ \A s \in Starts : In(s, p) => uploads[s].answer = "final"
        /\ p \in keys["delegate"] => at["delegate"] = "markSent"
        /\ Carried(p) \/ JsSends(p) \/ markers[p] = "sent"
    BY <2>1 DEF TakenOK
  <2>3. JsSends(p)' => at'["js"] \in {"remove", "markSent"}
    BY <1>2, <2>1
  <2>4. Carried(p)' \/ JsSends(p)' \/ markers'[p] = "sent"
    BY <1>4, <2>1, <2>2 DEF MarksKept
  <2> QED
    BY <1>3, <2>2, <2>3, <2>4 DEF TakenOK
<1> QED
  BY <1>5, <1>6, <1>7 DEF PlainOK

(* What the other parts of SendersOK take.                                 *)
LEMMA FreshKept ==
  ASSUME TypeOK, FreshStarts, coming' \subseteq coming,
         \A s \in Starts : uploads'[s] \in {uploads[s], NoUpload},
         \A a \in Workers : push'[a] \in {push[a], NoPush}
  PROVE  FreshStarts'
<1>1. \A p \in Pushes : p # NoPush /\ <<"nse", p>> \in Starts /\ <<"wake", p>> \in Starts
  BY ConstantsAssumption DEF Starts
<1>2. "nse" \in Workers /\ "wake" \in Workers /\ \A a \in Workers : a \in {"nse", "wake"}
  BY DEF Workers
<1> QED
  BY <1>1, <1>2 DEF FreshStarts

LEMMA SendersKept ==
  ASSUME SendersOK, repeatable \subseteq repeatable', slipped \subseteq slipped',
         \A p \in Plain : p \notin repeatable' \cup slipped' => PlainOK(p)',
         FreshStarts', server' = server
  PROVE  SendersOK'
<1>1. \A p \in Plain' : p \in Plain /\ p \notin repeatable' \cup slipped'
  BY DEF Plain
<1>2. \A p \in Plain' : PlainOK(p)'
  BY <1>1
<1>3. DuplicatesExplained'
  BY DEF SendersOK, DuplicatesExplained
<1> QED
  BY <1>2, <1>3 DEF SendersOK

(* Of a move, what FreshStarts takes.                                      *)
LEMMA MovePush ==
  ASSUME TypeOK, NEW a \in Actors, NEW place, NEW q, NEW es, NEW ks,
         Move(a, place, q, es, ks), q \in {push[a], NoPush} \/ a \notin Workers
  PROVE  \A b \in Workers : push'[b] \in {push[b], NoPush}
<1>1. Workers \subseteq Actors
  BY DEF Workers, Actors
<1> QED
  BY <1>1 DEF Move, TypeOK

(* What a transaction writes over is not plain any more.                   *)
LEMMA SlippedGrows ==
  ASSUME TypeOK, NEW a \in Actors, NEW place, NEW found, Transaction(a, place, found)
  PROVE  slipped \subseteq slipped' /\ found \subseteq Pushes
BY TransactionTypes

(* A transaction of a worker or an identity call that marks nothing.       *)
LEMMA LookPlain ==
  ASSUME IInv, SendersOK, NEW a \in Actors \ {"js", "delegate"}, NEW place, NEW found,
         Transaction(a, place, found), place \notin {"markSent", "markBatch", "markRetry", "upload"},
         NEW next, NEW q, NEW es, NEW ks, Move(a, next, q, es, ks),
         next # "upload", q \in {push[a], NoPush},
         UNCHANGED <<coming, uploads, repeatable, server>>
  PROVE  SendersOK'
<1>1. TypeOK /\ FreshStarts /\ a \in Actors
  BY DEF IInv, SendersOK
<1>2. slipped \subseteq slipped'
  BY <1>1, SlippedGrows
<1>3. ASSUME NEW p \in Plain, p \notin repeatable' \cup slipped'
      PROVE  PlainOK(p)'
  <2>1. PlainOK(p) /\ p \in Pushes \ slipped'
    BY <1>3 DEF SendersOK, Plain
  <2>2. at[a] # "upload"
    BY DEF Transaction
  <2>3. SameSenders(p)
    BY <1>1, <2>2, MoveSame DEF Up
  <2>4. MarksKept(p)
    BY <1>1, <2>1, LooksKeep
  <2> QED
    BY <2>1, <2>3, <2>4, SameKeeps
<1>4. \A b \in Workers : push'[b] \in {push[b], NoPush}
  BY <1>1, MovePush
<1>5. FreshStarts'
  BY <1>1, <1>4, FreshKept
<1> QED
  BY <1>2, <1>3, <1>5, SendersKept

(* A step of theirs outside of the file.                                   *)
LEMMA StepPlain ==
  ASSUME IInv, SendersOK, NEW a \in Actors \ {"js", "delegate"}, at[a] # "upload",
         NEW next, NEW q, NEW es, NEW ks, Move(a, next, q, es, ks), next # "upload",
         FreshStarts', UNCHANGED <<fileVars, uploads, slipped, repeatable, server>>
  PROVE  SendersOK'
<1>1. TypeOK
  BY DEF IInv
<1>2. ASSUME NEW p \in Plain
      PROVE  PlainOK(p)'
  <2>1. PlainOK(p)
    BY DEF SendersOK
  <2>2. SameSenders(p)
    BY <1>1, MoveSame DEF Up
  <2>3. MarksKept(p)
    BY DEF MarksKept, fileVars
  <2> QED
    BY <2>1, <2>2, <2>3, SameKeeps
<1> QED
  BY <1>2, SendersKept

(* A step of the flusher.                                                  *)
LEMMA FlusherStep ==
  ASSUME IInv, SendersOK, NEW place, NEW q, NEW es, NEW ks, Move("js", place, q, es, ks),
         UNCHANGED <<coming, uploads, repeatable, server>>, slipped \subseteq slipped',
         \A p \in Plain : p \notin slipped' =>
           /\ MarksKept(p)
           /\ JsSends(p)' => JsSends(p) \/ (~Carried(p) /\ server[p] # "taken")
           /\ JsSends(p) /\ server[p] = "taken" =>
                /\ JsSends(p)' => place \in {"remove", "markSent"}
                /\ JsSends(p)' \/ markers'[p] = "sent"
  PROVE  SendersOK'
<1>1. TypeOK /\ FreshStarts /\ "js" \in Actors /\ "js" \notin Workers
  BY DEF IInv, SendersOK, Actors, Workers
<1>2. ASSUME NEW p \in Plain, p \notin repeatable' \cup slipped'
      PROVE  PlainOK(p)'
  <2>1. PlainOK(p)
    BY DEF SendersOK
  <2> QED
    BY <1>1, <1>2, <2>1, FlusherPlain
<1>3. \A b \in Workers : push'[b] \in {push[b], NoPush}
  BY <1>1, MovePush
<1>4. FreshStarts'
  BY <1>1, <1>3, FreshKept
<1> QED
  BY <1>2, <1>4, SendersKept

(* Nobody else moves.                                                      *)
LEMMA NobodyPlain ==
  ASSUME IInv, SendersOK, UNCHANGED <<actorVars, uploads, server>>,
         slipped' = slipped, repeatable \subseteq repeatable', coming' \subseteq coming,
         \A p \in Plain : p \notin repeatable' => MarksKept(p)
  PROVE  SendersOK'
<1>1. TypeOK /\ FreshStarts
  BY DEF IInv, SendersOK
<1>2. ASSUME NEW p \in Plain, p \notin repeatable' \cup slipped'
      PROVE  PlainOK(p)'
  <2>1. PlainOK(p) /\ MarksKept(p)
    BY <1>2 DEF SendersOK
  <2>2. SameSenders(p)
    BY StillSame DEF actorVars
  <2> QED
    BY <2>1, <2>2, SameKeeps
<1>3. FreshStarts'
  BY <1>1, FreshKept DEF actorVars
<1> QED
  BY <1>2, <1>3, SendersKept

LEMMA EnterPlain == ASSUME IInv, SendersOK, NEW a \in Actors, Enter(a) PROVE SendersOK'
<1>1. UNCHANGED <<markers, actorVars, coming, uploads, histVars, server>>
  BY DEF Enter
<1>2. \A p : MarksKept(p)
  BY <1>1 DEF MarksKept
<1> QED
  BY <1>1, <1>2, NobodyPlain DEF histVars

LEMMA ForegroundPlain ==
  ASSUME IInv, SendersOK, NEW q \in Pushes, Foreground(q) PROVE SendersOK'
<1>1. UNCHANGED <<markers, actorVars, uploads, slipped, repeatable, server>>
      /\ coming' \subseteq coming
  BY DEF Foreground, Receive, fileVars
<1>2. \A p : MarksKept(p)
  BY <1>1 DEF MarksKept
<1> QED
  BY <1>1, <1>2, NobodyPlain

LEMMA OverduePlain ==
  ASSUME IInv, SendersOK, NEW q \in Pushes, Overdue(q) PROVE SendersOK'
<1>1. /\ UNCHANGED <<actorVars, uploads, slipped, coming, server>>
      /\ repeatable \subseteq repeatable'
  BY DEF Overdue
<1>2. ASSUME NEW p \in Plain, p \notin repeatable' PROVE MarksKept(p)
  <2>1. markers \in [Pushes -> States] /\ p \in Pushes
    BY DEF IInv, TypeOK, Markers, Plain
  <2>2. markers' = [markers EXCEPT ![q] = "overdue"] /\ markers[q] = "inFlight"
    BY DEF Overdue, Aged
  <2>3. CASE p = q
    <3>1. ~Carried(p) /\ markers[p] = "inFlight"
      BY <1>2, <2>2, <2>3 DEF Overdue
    <3> QED
      BY <3>1 DEF MarksKept
  <2>4. CASE p # q
    BY <2>1, <2>2, <2>4 DEF MarksKept
  <2> QED
    BY <2>3, <2>4
<1> QED
  BY <1>1, <1>2, NobodyPlain

LEMMA StutterPlain == ASSUME IInv, SendersOK, UNCHANGED vars PROVE SendersOK'
<1>1. UNCHANGED <<markers, actorVars, coming, uploads, histVars, server>>
  BY DEF vars, fileVars
<1>2. \A p : MarksKept(p)
  BY <1>1 DEF MarksKept
<1> QED
  BY <1>1, <1>2, NobodyPlain DEF histVars


LEMMA HandlePlain ==
  ASSUME IInv, SendersOK, NEW q \in Pushes, NEW usable \in BOOLEAN, Handle(q, usable)
  PROVE  SendersOK'
<1>1. /\ at["nse"] = "idle" /\ <<"nse", q>> \in coming
      /\ coming' = coming \ {<<"nse", q>>}
      /\ Move("nse", IF usable THEN "claim" ELSE "excluded", q, {}, {q})
      /\ UNCHANGED <<fileVars, uploads, slipped, repeatable, server>>
  BY DEF Handle, histVars
<1>2. "nse" \in Actors \ {"js", "delegate"} /\ "wake" \in Actors
  BY DEF Actors
<1>3. push'["nse"] = q /\ push'["wake"] = push["wake"]
  BY <1>1, <1>2 DEF Move, IInv, TypeOK
<1>4. FreshStarts'
  BY <1>1, <1>3 DEF SendersOK, FreshStarts, Workers
<1> QED
  BY <1>1, <1>2, <1>4, StepPlain

LEMMA WakePlain == ASSUME IInv, SendersOK, NEW q \in Pushes, Wake(q) PROVE SendersOK'
<1>1. /\ at["wake"] = "idle" /\ <<"app", q>> \in coming
      /\ coming' = coming \ {<<"app", q>>}
      /\ Move("wake", "waiting", q, outbox', {})
      /\ UNCHANGED <<fileVars, uploads, slipped, repeatable, server>>
  BY DEF Wake, Receive
<1>2. "wake" \in Actors \ {"js", "delegate"} /\ "nse" \in Actors
  BY DEF Actors
<1>3. push'["wake"] = q /\ push'["nse"] = push["nse"]
  BY <1>1, <1>2 DEF Move, IInv, TypeOK
<1>4. FreshStarts'
  BY <1>1, <1>3 DEF SendersOK, FreshStarts, Workers
<1> QED
  BY <1>1, <1>2, <1>4, StepPlain

LEMMA UploadInBackgroundPlain ==
  ASSUME IInv, SendersOK, UploadInBackground PROVE SendersOK'
<1>1. /\ at["wake"] = "waiting" /\ Go("wake", "excluded")
      /\ UNCHANGED <<coming, fileVars, uploads, slipped, repeatable, server>>
  BY DEF UploadInBackground, histVars
<1>2. TypeOK /\ FreshStarts /\ "wake" \in Actors \ {"js", "delegate"}
  BY DEF IInv, SendersOK, Actors
<1>3. Move("wake", "excluded", push["wake"], entries["wake"], keys["wake"])
  BY <1>1, <1>2, GoOK
<1>4. \A b \in Workers : push'[b] \in {push[b], NoPush}
  BY <1>2, <1>3, MovePush
<1>5. FreshStarts'
  BY <1>1, <1>2, <1>4, FreshKept
<1> QED
  BY <1>1, <1>2, <1>3, <1>5, StepPlain

LEMMA WakeUnusablePlain == ASSUME IInv, SendersOK, WakeUnusable PROVE SendersOK'
<1>1. /\ at["wake"] = "claim" /\ End("wake")
      /\ UNCHANGED <<coming, fileVars, uploads, slipped, repeatable, server>>
  BY DEF WakeUnusable, histVars
<1>2. TypeOK /\ FreshStarts /\ "wake" \in Actors \ {"js", "delegate"}
  BY DEF IInv, SendersOK, Actors
<1>3. Move("wake", "idle", NoPush, {}, {})
  BY <1>1, <1>2, EndOK
<1>4. \A b \in Workers : push'[b] \in {push[b], NoPush}
  BY <1>2, <1>3, MovePush
<1>5. FreshStarts'
  BY <1>1, <1>2, <1>4, FreshKept
<1> QED
  BY <1>1, <1>2, <1>3, <1>5, StepPlain

LEMMA ClearReportOutboxPlain ==
  ASSUME IInv, SendersOK, ClearReportOutbox PROVE SendersOK'
<1>1. /\ at["identity"] = "idle" /\ Go("identity", "clearRetries")
      /\ UNCHANGED <<coming, fileVars, uploads, slipped, repeatable, server>>
  BY DEF ClearReportOutbox
<1>2. TypeOK /\ FreshStarts /\ "identity" \in Actors \ {"js", "delegate"}
  BY DEF IInv, SendersOK, Actors
<1>3. Move("identity", "clearRetries", push["identity"], entries["identity"], keys["identity"])
  BY <1>1, <1>2, GoOK
<1>4. \A b \in Workers : push'[b] \in {push[b], NoPush}
  BY <1>2, <1>3, MovePush
<1>5. FreshStarts'
  BY <1>1, <1>2, <1>4, FreshKept
<1> QED
  BY <1>1, <1>2, <1>3, <1>5, StepPlain

LEMMA ClearRetriesPlain == ASSUME IInv, SendersOK, ClearRetries PROVE SendersOK'
<1>1. /\ Transaction("identity", "clearRetries", {}) /\ End("identity")
      /\ UNCHANGED <<coming, uploads, repeatable, server>>
  BY DEF ClearRetries
<1>2. TypeOK /\ "identity" \in Actors \ {"js", "delegate"}
  BY DEF IInv, Actors
<1>3. Move("identity", "idle", NoPush, {}, {})
  BY <1>1, <1>2, EndOK
<1> QED
  BY <1>1, <1>2, <1>3, LookPlain

LEMMA LookUpPlain ==
  ASSUME IInv, SendersOK, NEW place \in {"excluded", "retries"},
         NEW next \in {"retries", "markRetry"}, LookUp(place, next)
  PROVE  SendersOK'
<1>1. PICK found \in SUBSET Pushes :
        /\ Transaction("nse", place, found)
        /\ IF push["nse"] \in found THEN End("nse") ELSE Go("nse", next)
        /\ UNCHANGED <<coming, uploads, repeatable, server>>
  BY DEF LookUp
<1>2. TypeOK /\ "nse" \in Actors \ {"js", "delegate"}
  BY DEF IInv, Actors
<1>3. CASE End("nse")
  <2>1. Move("nse", "idle", NoPush, {}, {})
    BY <1>2, <1>3, EndOK
  <2> QED
    BY <1>1, <1>2, <2>1, LookPlain
<1>4. CASE Go("nse", next)
  <2>1. Move("nse", next, push["nse"], entries["nse"], keys["nse"])
    BY <1>2, <1>4, GoOK
  <2> QED
    BY <1>1, <1>2, <2>1, LookPlain
<1> QED
  BY <1>1, <1>3, <1>4

LEMMA WakePendingExcludedPlain ==
  ASSUME IInv, SendersOK, PendingExcluded("wake") PROVE SendersOK'
<1>1. PICK found \in SUBSET Pushes :
        /\ Transaction("wake", "excluded", found)
        /\ Move("wake", "retries", push["wake"], entries["wake"], entries["wake"] \ found)
        /\ UNCHANGED <<coming, uploads, repeatable, server>>
  BY DEF PendingExcluded
<1>2. "wake" \in Actors \ {"js", "delegate"}
  BY DEF Actors
<1> QED
  BY <1>1, <1>2, LookPlain

LEMMA WakePendingRetriesPlain ==
  ASSUME IInv, SendersOK, PendingRetries("wake", "claim") PROVE SendersOK'
<1>1. PICK found \in SUBSET Pushes :
        /\ Transaction("wake", "retries", found)
        /\ \/ End("wake")
           \/ Carry("wake", "claim", keys["wake"] \cup (found \ entries["wake"]))
        /\ UNCHANGED <<coming, uploads, repeatable, server>>
  BY DEF PendingRetries
<1>2. TypeOK /\ "wake" \in Actors \ {"js", "delegate"}
  BY DEF IInv, Actors
<1>3. CASE End("wake")
  <2>1. Move("wake", "idle", NoPush, {}, {})
    BY <1>2, <1>3, EndOK
  <2> QED
    BY <1>1, <1>2, <2>1, LookPlain
<1>4. CASE Carry("wake", "claim", keys["wake"] \cup (found \ entries["wake"]))
  <2>1. Move("wake", "claim", push["wake"], {}, keys["wake"] \cup (found \ entries["wake"]))
    BY <1>2, <1>4, CarryOK
  <2> QED
    BY <1>1, <1>2, <2>1, LookPlain
<1> QED
  BY <1>1, <1>3, <1>4

-----------------------------------------------------------------------------
(* The flusher sends what nobody carries and the server has not taken.     *)

LEMMA GetReportOutboxPlain == ASSUME IInv, SendersOK, GetReportOutbox PROVE SendersOK'
<1>1. /\ at["js"] = "idle" /\ Move("js", "sent", NoPush, outbox, {})
      /\ UNCHANGED <<fileVars, coming, uploads, slipped, repeatable, server>>
  BY DEF GetReportOutbox, histVars
<1>2. \A p : MarksKept(p) /\ ~JsSends(p) /\ ~JsSends(p)'
  <2>1. keys'["js"] = {}
    BY <1>1 DEF Move, IInv, TypeOK, Actors
  <2> QED
    BY <1>1, <2>1 DEF MarksKept, fileVars, JsSends
<1> QED
  BY <1>1, <1>2, FlusherStep

LEMMA NoCurrentTokenPlain == ASSUME IInv, SendersOK, NoCurrentToken PROVE SendersOK'
<1>1. /\ at["js"] = "post" /\ Move("js", "idle", NoPush, {}, {})
      /\ UNCHANGED <<fileVars, coming, uploads, slipped, repeatable, server>>
  BY DEF NoCurrentToken, End, histVars
<1>2. \A p : MarksKept(p) /\ ~JsSends(p)'
  <2>1. keys'["js"] = {}
    BY <1>1 DEF Move, IInv, TypeOK, Actors
  <2> QED
    BY <1>1, <2>1 DEF MarksKept, fileVars, JsSends
<1>3. \A p \in Plain : ~(JsSends(p) /\ server[p] = "taken")
  BY <1>1 DEF SendersOK, PlainOK, TakenOK
<1> QED
  BY <1>1, <1>2, <1>3, FlusherStep

LEMMA RemoveEntriesPlain == ASSUME IInv, SendersOK, RemoveEntries PROVE SendersOK'
<1>1. /\ at["js"] = "remove" /\ Move("js", "markSent", push["js"], entries["js"], keys["js"])
      /\ UNCHANGED <<fileVars, coming, uploads, slipped, repeatable, server>>
  BY DEF RemoveEntries, Go, histVars
<1>2. \A p : MarksKept(p) /\ (JsSends(p)' <=> JsSends(p))
  <2>1. keys'["js"] = keys["js"] /\ at'["js"] = "markSent"
    BY <1>1 DEF Move, IInv, TypeOK, Actors
  <2> QED
    BY <1>1, <2>1 DEF MarksKept, fileVars, JsSends
<1> QED
  BY <1>1, <1>2, FlusherStep

LEMMA MarkReportedPlain == ASSUME IInv, SendersOK, MarkReported PROVE SendersOK'
<1>1. /\ Transaction("js", "markSent", {}) /\ Move("js", "idle", NoPush, {}, {})
      /\ UNCHANGED <<coming, uploads, repeatable, server>>
  BY DEF MarkReported, End
<1>2. TypeOK /\ "js" \in Actors /\ at["js"] = "markSent"
  BY <1>1 DEF IInv, Actors, Transaction
<1>3. slipped \subseteq slipped'
  BY <1>1, <1>2, SlippedGrows
<1>4. \A p : ~JsSends(p)'
  <2>1. keys'["js"] = {}
    BY <1>1, <1>2 DEF Move, TypeOK
  <2> QED
    BY <2>1 DEF JsSends
<1>5. ASSUME NEW p \in Plain, p \notin slipped'
      PROVE  MarksKept(p) /\ (JsSends(p) => markers'[p] = "sent")
  <2>1. p \in Pushes \ slipped' /\ PlainOK(p)
    BY <1>5 DEF Plain, SendersOK
  <2>2. p \in keys["js"] => JsSends(p)
    BY <1>2 DEF JsSends
  <2>3. p \in keys["js"] => ~Carried(p)
    BY <2>1, <2>2 DEF PlainOK, CarriedOK
  <2>4. MarksKept(p)
    BY <1>1, <1>2, <2>1, <2>3, LooksKeep
  <2>5. p \in keys["js"] => markers'[p] = "sent"
    BY <1>1, <1>2, <2>1, TransactionTells
  <2> QED
    BY <2>4, <2>5 DEF JsSends
<1> QED
  BY <1>1, <1>3, <1>4, <1>5, FlusherStep

LEMMA SentReportsPlain == ASSUME IInv, SendersOK, SentReports PROVE SendersOK'
<1>1. PICK found \in SUBSET Pushes :
        /\ Transaction("js", "sent", found)
        /\ Move("js", "excluded", push["js"], entries["js"], keys["js"])
        /\ UNCHANGED <<coming, uploads, repeatable, server>>
  BY DEF SentReports, Go
<1>2. TypeOK /\ "js" \in Actors /\ at["js"] = "sent" /\ at'["js"] = "excluded"
  BY <1>1 DEF IInv, Actors, Transaction, Move, TypeOK
<1>3. slipped \subseteq slipped'
  BY <1>1, <1>2, SlippedGrows
<1>4. \A p : ~JsSends(p) /\ ~JsSends(p)'
  BY <1>2 DEF JsSends
<1>5. \A p \in Plain : p \notin slipped' => MarksKept(p)
  BY <1>1, <1>2, LooksKeep DEF Plain
<1> QED
  BY <1>1, <1>3, <1>4, <1>5, FlusherStep

LEMMA PendingExcludedPlain ==
  ASSUME IInv, SendersOK, PendingExcluded("js") PROVE SendersOK'
<1>1. PICK found \in SUBSET Pushes :
        /\ Transaction("js", "excluded", found)
        /\ Move("js", "retries", push["js"], entries["js"], entries["js"] \ found)
        /\ UNCHANGED <<coming, uploads, repeatable, server>>
  BY DEF PendingExcluded
<1>2. /\ TypeOK /\ "js" \in Actors /\ at["js"] = "excluded"
      /\ keys'["js"] = entries["js"] \ found
  BY <1>1 DEF IInv, Actors, Transaction, Move, TypeOK
<1>3. slipped \subseteq slipped'
  BY <1>1, <1>2, SlippedGrows
<1>4. \A p : ~JsSends(p)
  BY <1>2 DEF JsSends
<1>5. ASSUME NEW p \in Plain, p \notin slipped'
      PROVE  MarksKept(p) /\ (JsSends(p)' => ~Carried(p) /\ server[p] # "taken")
  <2>1. p \in Pushes \ slipped' /\ PlainOK(p)
    BY <1>5 DEF Plain, SendersOK
  <2>2. MarksKept(p)
    BY <1>1, <1>2, <2>1, LooksKeep
  <2>3. p \in entries["js"] \ found => markers[p] \notin {"sent", "inFlight"}
    BY <1>1, <1>2, <2>1, TransactionTells
  <2>4. p \in entries["js"] \ found => ~Carried(p)
    BY <2>1, <2>3 DEF PlainOK, CarriedOK
  <2>5. p \in entries["js"] \ found => server[p] # "taken"
    BY <1>4, <2>1, <2>3, <2>4 DEF PlainOK, TakenOK
  <2> QED
    BY <1>2, <2>2, <2>4, <2>5 DEF JsSends
<1> QED
  BY <1>1, <1>3, <1>4, <1>5, FlusherStep

LEMMA PendingRetriesPlain ==
  ASSUME IInv, SendersOK, PendingRetries("js", "post") PROVE SendersOK'
<1>1. PICK found \in SUBSET Pushes :
        /\ Transaction("js", "retries", found)
        /\ \/ Move("js", "idle", NoPush, {}, {})
           \/ Move("js", "post", push["js"], {}, keys["js"] \cup (found \ entries["js"]))
        /\ UNCHANGED <<coming, uploads, repeatable, server>>
  BY DEF PendingRetries, End, Carry
<1>2. /\ TypeOK /\ "js" \in Actors /\ at["js"] = "retries"
      /\ keys'["js"] \subseteq keys["js"] \cup found
  BY <1>1 DEF IInv, Actors, Transaction, Move, TypeOK
<1>3. slipped \subseteq slipped'
  BY <1>1, <1>2, SlippedGrows
<1>4. \A p \in Plain : JsSends(p) => server[p] # "taken"
  BY <1>2 DEF SendersOK, PlainOK, TakenOK
<1>5. ASSUME NEW p \in Plain, p \notin slipped'
      PROVE  /\ MarksKept(p)
             /\ JsSends(p)' => JsSends(p) \/ (~Carried(p) /\ server[p] # "taken")
  <2>1. p \in Pushes \ slipped' /\ PlainOK(p)
    BY <1>5 DEF Plain, SendersOK
  <2>2. MarksKept(p)
    BY <1>1, <1>2, <2>1, LooksKeep
  <2>3. p \in found => markers[p] \notin {"sent", "inFlight"}
    BY <1>1, <1>2, <2>1, TransactionTells
  <2>4. p \in found => ~Carried(p)
    BY <2>1, <2>3 DEF PlainOK, CarriedOK
  <2>5. p \in found => server[p] # "taken" \/ JsSends(p)
    BY <2>1, <2>3, <2>4 DEF PlainOK, TakenOK
  <2>6. p \in keys["js"] => JsSends(p)
    BY <1>2 DEF JsSends
  <2>7. JsSends(p)' => p \in keys["js"] \cup found
    BY <1>2 DEF JsSends
  <2> QED
    BY <2>2, <2>4, <2>5, <2>6, <2>7
<1>6. ASSUME NEW place, NEW q, NEW es, NEW ks, Move("js", place, q, es, ks)
      PROVE  SendersOK'
  BY <1>1, <1>3, <1>4, <1>5, <1>6, FlusherStep
<1> QED
  BY <1>1, <1>6


-----------------------------------------------------------------------------
(* The workers: what one of them claims, nobody else carries.              *)

LEMMA LeaveForAppPlain ==
  ASSUME IInv, SendersOK, NEW a \in Workers, LeaveForApp(a) PROVE SendersOK'
<1>1. PICK place \in {"markBatch", "markRetry"} :
        /\ Transaction(a, place, {})
        /\ Go(a, "markRetry") \/ End(a)
        /\ repeatable' = repeatable \cup {p \in keys[a] : Carried(p)}
        /\ UNCHANGED <<coming, uploads, server>>
  BY DEF LeaveForApp
<1>2. TypeOK /\ FreshStarts /\ a \in Actors \ {"js", "delegate"} /\ a \in Actors
  BY DEF IInv, SendersOK, Actors, Workers
<1>3. slipped \subseteq slipped'
  BY <1>1, <1>2, SlippedGrows
<1>4. PICK next \in {"idle", "markRetry"}, q \in {push[a], NoPush},
           es \in SUBSET Pushes, ks \in SUBSET Pushes :
        Move(a, next, q, es, ks)
  BY <1>1, <1>2, EndOK, GoOK
<1>5. ASSUME NEW p \in Plain, p \notin repeatable' \cup slipped'
      PROVE  PlainOK(p)'
  <2>1. PlainOK(p) /\ p \in Pushes \ slipped'
    BY <1>5 DEF SendersOK, Plain
  <2>2. p \notin keys[a] \/ ~Carried(p)
    BY <1>1, <1>5
  <2>3. ~Up(a, p)
    BY <1>1 DEF Transaction, Up
  <2>4. SameSenders(p)
    BY <1>1, <1>2, <1>4, <2>3, MoveSame
  <2>5. MarksKept(p)
    BY <1>1, <1>2, <2>1, <2>2, LooksKeep
  <2> QED
    BY <1>1, <2>1, <2>4, <2>5, SameKeeps
<1>6. \A b \in Workers : push'[b] \in {push[b], NoPush}
  BY <1>2, <1>4, MovePush
<1>7. FreshStarts'
  BY <1>1, <1>2, <1>6, FreshKept
<1> QED
  BY <1>1, <1>3, <1>5, <1>7, SendersKept

LEMMA ClaimReportsPlain ==
  ASSUME IInv, SendersOK, NEW a \in Workers, ClaimReports(a) PROVE SendersOK'
<1>1. PICK found \in SUBSET Pushes :
        /\ Transaction(a, "claim", found)
        /\ IF found = {} THEN End(a) ELSE Carry(a, "upload", found)
        /\ repeatable' = repeatable \cup {p \in found : JsSends(p)}
        /\ UNCHANGED <<coming, uploads, server>>
  BY DEF ClaimReports
<1>2. /\ TypeOK /\ FreshStarts /\ a \in Actors \ {"js", "delegate"} /\ a \in Actors
      /\ at[a] = "claim"
  BY <1>1 DEF IInv, SendersOK, Actors, Workers, Transaction
<1>3. slipped \subseteq slipped'
  BY <1>1, <1>2, SlippedGrows
<1>4. PICK next \in {"idle", "upload"}, q \in {push[a], NoPush} :
        Move(a, next, q, {}, found) /\ (found # {} => next = "upload")
  BY <1>1, <1>2, EndOK, CarryOK
<1>5. ASSUME NEW p \in Plain, p \notin repeatable' \cup slipped', p \notin found
      PROVE  PlainOK(p)'
  <2>1. PlainOK(p) /\ p \in Pushes \ slipped'
    BY <1>5 DEF SendersOK, Plain
  <2>2. ~Up(a, p)
    BY <1>2 DEF Up
  <2>3. SameSenders(p)
    BY <1>1, <1>2, <1>4, <1>5, <2>2, MoveSame
  <2>4. MarksKept(p)
    BY <1>1, <1>2, <2>1, LooksKeep
  <2> QED
    BY <1>1, <2>1, <2>3, <2>4, SameKeeps
<1>6. ASSUME NEW p \in Plain, p \notin repeatable' \cup slipped', p \in found
      PROVE  PlainOK(p)'
  <2>1. PlainOK(p) /\ p \in Pushes \ slipped' /\ ~JsSends(p)
    BY <1>1, <1>6 DEF SendersOK, Plain
  <2>2. markers[p] \notin {"sent", "inFlight"} /\ markers'[p] = "inFlight"
    BY <1>1, <1>2, <1>6, <2>1, TransactionTells, TransactionOK
  <2>3. ~Carried(p) /\ server[p] # "taken"
    BY <2>1, <2>2 DEF PlainOK, CarriedOK, TakenOK
  <2>4. /\ "js" \in Actors /\ "delegate" \in Actors /\ "nse" \in Actors /\ "wake" \in Actors
        /\ \A b \in Actors \ {a} : at'[b] = at[b] /\ keys'[b] = keys[b]
    BY <1>2, <1>4 DEF Move, TypeOK, Actors
  <2>5. ~JsSends(p)' /\ p \notin keys'["delegate"]
    BY <1>2, <2>1, <2>3, <2>4, CarriedIs DEF JsSends
  <2>6. /\ \A s \in Starts : ~In(s, p)'
        /\ \A b \in Workers : b # a => ~Up(b, p)'
    <3>1. \A b \in Workers : b \in Actors /\ ~Up(b, p)
      BY <2>3, CarriedIs DEF Workers, Actors
    <3> QED
      BY <1>1, <2>3, <2>4, <3>1, CarriedIs DEF In, Up
  <2>7. OneCarrier(p)'
    BY <2>5, <2>6 DEF OneCarrier, Workers
  <2>8. CarriedOK(p)' /\ TakenOK(p)'
    BY <1>1, <2>2, <2>3, <2>5 DEF CarriedOK, TakenOK
  <2> QED
    BY <2>7, <2>8 DEF PlainOK
<1>7. \A b \in Workers : push'[b] \in {push[b], NoPush}
  BY <1>2, <1>4, MovePush
<1>8. FreshStarts'
  BY <1>1, <1>2, <1>7, FreshKept
<1> QED
  BY <1>1, <1>3, <1>5, <1>6, <1>8, SendersKept

(* What a step of one worker leaves of the others.                         *)
LEMMA WorkerMoves ==
  ASSUME TypeOK, NEW a \in Workers, NEW place, NEW q, NEW es, NEW ks,
         Move(a, place, q, es, ks), NEW p
  PROVE  /\ at'[a] = place /\ keys'[a] = ks /\ push'[a] = q
         /\ \A b \in Workers \ {a} : (Up(b, p)' <=> Up(b, p)) /\ push'[b] = push[b]
         /\ keys'["delegate"] = keys["delegate"] /\ at'["delegate"] = at["delegate"]
         /\ at'["js"] = at["js"] /\ (JsSends(p)' <=> JsSends(p))
<1>1. a \in Actors /\ Workers \subseteq Actors /\ {"js", "delegate"} \subseteq Actors \ {a}
  BY DEF Workers, Actors
<1>2. /\ at'[a] = place /\ keys'[a] = ks /\ push'[a] = q
      /\ \A b \in Actors \ {a} : at'[b] = at[b] /\ keys'[b] = keys[b] /\ push'[b] = push[b]
  BY <1>1 DEF Move, TypeOK
<1> QED
  BY <1>1, <1>2 DEF Up, JsSends

LEMMA UploadFailsPlain ==
  ASSUME IInv, SendersOK, NEW a \in Workers, UploadFails(a) PROVE SendersOK'
<1>1. PICK place \in {"markBatch", "markRetry"} :
        /\ at[a] = "upload" /\ Move(a, place, push[a], entries[a], keys[a])
        /\ UNCHANGED <<fileVars, coming, uploads, slipped, repeatable, server>>
  BY DEF UploadFails, Go, histVars
<1>2. TypeOK /\ FreshStarts /\ a \in Actors
  BY DEF IInv, SendersOK, Actors, Workers
<1>3. ASSUME NEW p \in Plain PROVE PlainOK(p)'
  <2>1. PlainOK(p)
    BY DEF SendersOK
  <2>2. /\ at'[a] = place
        /\ \A b \in Workers \ {a} : Up(b, p)' <=> Up(b, p)
        /\ keys'["delegate"] = keys["delegate"] /\ at'["delegate"] = at["delegate"]
        /\ at'["js"] = at["js"] /\ (JsSends(p)' <=> JsSends(p))
    BY <1>1, <1>2, WorkerMoves
  <2>3. ~Up(a, p)'
    BY <2>2 DEF Up
  <2>4. \A s \in Starts : In(s, p)' <=> In(s, p)
    BY <1>1 DEF In
  <2>5. server[p] = "taken" => Carried(p)' \/ JsSends(p)' \/ markers'[p] = "sent"
    <3> SUFFICES ASSUME server[p] = "taken", Carried(p) PROVE Carried(p)'
      BY <1>1, <2>1, <2>2 DEF PlainOK, TakenOK, fileVars
    <3>1. ~Up("nse", p) /\ ~Up("wake", p)
      BY <2>1 DEF PlainOK, TakenOK
    <3> QED
      BY <2>2, <2>4, <3>1, CarriedIs
  <2>6. Quiet(p)
    <3>1. \A b \in Workers : Up(b, p)' => Up(b, p)
      BY <2>2, <2>3
    <3> QED
      BY <1>1, <2>2, <2>4, <2>5, <3>1 DEF Quiet, fileVars
  <2> QED
    BY <2>1, <2>6, QuietKeeps
<1>4. FreshStarts'
  <2>1. \A b \in Workers : push'[b] \in {push[b], NoPush}
    BY <1>1, <1>2, MovePush
  <2> QED
    BY <1>1, <1>2, <2>1, FreshKept
<1> QED
  BY <1>1, <1>3, <1>4, SendersKept

LEMMA UploadPlain == ASSUME IInv, SendersOK, NEW a \in Workers, Upload(a) PROVE SendersOK'
<1> DEFINE started == [keys |-> keys[a], answer |-> "running"]
<1>0. PICK s : s = <<a, push[a]>>
  OBVIOUS
<1>1. /\ at[a] = "upload" /\ Move(a, "idle", NoPush, {}, {})
      /\ uploads' = [uploads EXCEPT ![s] = started]
      /\ UNCHANGED <<fileVars, coming, slipped, repeatable, server>>
  BY <1>0 DEF Upload, End, histVars
<1>2. TypeOK /\ FreshStarts /\ a \in Actors
  BY DEF IInv, SendersOK, Actors, Workers
<1>3. /\ \A t \in Starts : t # s => uploads'[t] = uploads[t]
      /\ s \in Starts => uploads'[s] = started
  BY <1>1, <1>2 DEF TypeOK
<1>4. s \in Starts => uploads[s] = NoUpload /\ push[a] \in Pushes
  BY <1>0, <1>2 DEF FreshStarts, Starts
<1>5. ASSUME NEW p \in Plain PROVE PlainOK(p)'
  <2>1. PlainOK(p)
    BY DEF SendersOK
  <2>2. /\ at'[a] = "idle"
        /\ \A b \in Workers \ {a} : Up(b, p)' <=> Up(b, p)
        /\ keys'["delegate"] = keys["delegate"] /\ at'["delegate"] = at["delegate"]
        /\ at'["js"] = at["js"] /\ (JsSends(p)' <=> JsSends(p))
    BY <1>1, <1>2, WorkerMoves
  <2>3. ~Up(a, p)' /\ (Up(a, p) <=> p \in keys[a])
    BY <1>1, <2>2 DEF Up
  <2>4. CASE p \in keys[a]
    <3>1. Up(a, p)
      BY <2>3, <2>4
    <3>2. /\ \A t \in Starts : ~In(t, p)
          /\ \A b \in Workers \ {a} : ~Up(b, p)
          /\ p \notin keys["delegate"]
      BY <2>1, <3>1 DEF PlainOK, OneCarrier, Workers
    <3>3. \A t \in Starts : In(t, p)' => t = s
      BY <1>3, <3>2 DEF In
    <3>4. ~Up("nse", p)' /\ ~Up("wake", p)' /\ p \notin keys'["delegate"]
      BY <2>2, <2>3, <3>2 DEF Workers
    <3>5. OneCarrier(p)'
      BY <3>3, <3>4 DEF OneCarrier
    <3>6. Carried(p) /\ server[p] # "taken"
      BY <2>1, <3>1, CarriedIs DEF PlainOK, TakenOK, Workers
    <3>7. CarriedOK(p)' /\ TakenOK(p)'
      BY <1>1, <2>1, <2>2, <3>6 DEF PlainOK, CarriedOK, TakenOK, fileVars
    <3> QED
      BY <3>5, <3>7 DEF PlainOK
  <2>5. CASE p \notin keys[a]
    <3>1. \A t \in Starts : In(t, p)' <=> In(t, p)
      <4>1. s \in Starts => ~In(s, p)' /\ ~In(s, p)
        BY <1>3, <1>4, <2>5 DEF In, NoUpload
      <4> QED
        BY <1>3, <4>1 DEF In
    <3>2. \A t \in Starts : In(t, p) => uploads'[t] = uploads[t]
      <4>1. s \in Starts => ~In(s, p)
        BY <1>4 DEF In, NoUpload
      <4> QED
        BY <1>3, <4>1
    <3>3. \A b \in Workers : Up(b, p)' <=> Up(b, p)
      BY <2>2, <2>3, <2>5
    <3>4. Carried(p)' <=> Carried(p)
      BY <2>2, <3>1, <3>3, CarriedIs DEF Workers
    <3>5. server[p] = "taken" => Carried(p)' \/ JsSends(p)' \/ markers'[p] = "sent"
      BY <1>1, <2>1, <2>2, <3>4 DEF PlainOK, TakenOK, fileVars
    <3>6. Quiet(p)
      BY <1>1, <2>2, <3>1, <3>2, <3>3, <3>5 DEF Quiet, fileVars
    <3> QED
      BY <2>1, <3>6, QuietKeeps
  <2> QED
    BY <2>4, <2>5
<1>6. FreshStarts'
  <2>1. push'[a] = NoPush /\ \A b \in Workers \ {a} : push'[b] = push[b]
    BY <1>1, <1>2, WorkerMoves
  <2>2. \A p \in Pushes : p # NoPush
    BY ConstantsAssumption
  <2>3. ASSUME NEW b \in Workers, NEW p \in Pushes, uploads[<<b, p>>] = NoUpload,
               push[b] # p \/ b # a
        PROVE  uploads'[<<b, p>>] = NoUpload
    <3>1. <<b, p>> \in Starts /\ <<b, p>> # s
      BY <1>0, <2>3 DEF Starts, Workers
    <3> QED
      BY <1>3, <2>3, <3>1
  <2>4. ASSUME NEW p \in Pushes
        PROVE  /\ <<"nse", p>> \in coming' => uploads'[<<"nse", p>>] = NoUpload /\ push'["nse"] # p
               /\ <<"app", p>> \in coming' => uploads'[<<"wake", p>>] = NoUpload /\ push'["wake"] # p
    BY <1>1, <1>2, <2>1, <2>2, <2>3 DEF FreshStarts, Workers
  <2>5. ASSUME NEW p \in Pushes, NEW b \in Workers, push'[b] = p
        PROVE  uploads'[<<b, p>>] = NoUpload
    BY <1>2, <2>1, <2>2, <2>3, <2>5 DEF FreshStarts
  <2> QED
    BY <2>4, <2>5 DEF FreshStarts
<1> QED
  BY <1>1, <1>5, <1>6, SendersKept


-----------------------------------------------------------------------------
(* What the server is sent, and what the delegate makes of its answers.    *)

(* The server has a report twice only if it is sent one it has.            *)
LEMMA AnswerOK ==
  ASSUME NEW ps, NEW outcome \in Outcomes, Answer(ps, outcome), NEW p \in Pushes,
         p \notin ps \/ server[p] # "taken", server[p] # "repeated"
  PROVE  /\ server'[p] # "repeated"
         /\ p \notin ps \/ outcome = "failed" => server'[p] = server[p]
         /\ p \in ps /\ server'[p] = "taken" => outcome \in {"accepted", "lost"}
BY DEF Answer, Outcomes

LEMMA AnswerSenders ==
  ASSUME IInv, SendersOK, NEW ps, NEW outcome \in Outcomes, Answer(ps, outcome),
         repeatable' = IF outcome = "lost" THEN repeatable \cup ps ELSE repeatable,
         slipped' = slipped, FreshStarts',
         \A p \in ps \cap Plain : server[p] # "taken",
         \A p \in Plain : p \notin repeatable' => PlainOK(p)'
  PROVE  SendersOK'
<1>1. ASSUME NEW p \in Pushes PROVE server'[p] # "repeated"
  <2>1. server[p] # "repeated"
    BY DEF SendersOK, DuplicatesExplained
  <2>2. CASE p \in Plain
    BY <2>1, <2>2, AnswerOK
  <2>3. CASE p \notin Plain
    <3>1. p \in repeatable \cup slipped
      BY <2>3 DEF Plain
    <3> QED
      BY <2>1, <3>1 DEF Answer
  <2> QED
    BY <2>2, <2>3
<1>2. DuplicatesExplained'
  BY <1>1 DEF DuplicatesExplained
<1>3. \A p \in Plain' : p \in Plain /\ p \notin repeatable'
  BY DEF Plain
<1>4. \A p \in Plain' : PlainOK(p)'
  BY <1>3
<1> QED
  BY <1>2, <1>4 DEF SendersOK

LEMMA UploadAnsweredPlain ==
  ASSUME IInv, SendersOK, NEW s \in Starts, NEW o \in Outcomes, UploadAnswered(s, o)
  PROVE  SendersOK'
<1> DEFINE ps == uploads[s].keys
<1>1. /\ uploads[s].answer = "running" /\ Answer(ps, o)
      /\ repeatable' = IF o = "lost" THEN repeatable \cup ps ELSE repeatable
      /\ UNCHANGED <<fileVars, coming, actorVars, slipped>>
  BY DEF UploadAnswered
<1>2. /\ TypeOK /\ FreshStarts /\ \A p \in Pushes : server[p] # "repeated"
      /\ \A p \in Plain : PlainOK(p) /\ p \in Pushes
  BY DEF IInv, SendersOK, DuplicatesExplained, Plain
<1>3. /\ uploads'[s].answer = IF o \in Final THEN "final" ELSE "retry"
      /\ uploads'[s].keys = ps
      /\ \A t \in Starts : t # s => uploads'[t] = uploads[t]
  BY <1>2 DEF UploadAnswered, TypeOK, Uploads
<1>4. /\ \A b, p : Up(b, p)' <=> Up(b, p)
      /\ \A t \in Starts : \A p : In(t, p)' <=> In(t, p)
      /\ at' = at /\ keys' = keys /\ markers' = markers
      /\ \A p : JsSends(p)' <=> JsSends(p)
  BY <1>1, <1>3 DEF actorVars, fileVars, Up, In, JsSends
<1>5. \A p : Carried(p)' <=> Carried(p)
  BY <1>4, CarriedIs
<1>6. \A p \in ps \cap Plain : server[p] # "taken"
  BY <1>1, <1>2 DEF PlainOK, TakenOK, In
<1>7. ASSUME NEW p \in Plain, p \notin repeatable' PROVE PlainOK(p)'
  <2>1. PlainOK(p) /\ p \in Pushes
    BY <1>2
  <2>2. CASE p \in ps
    <3>1. In(s, p) /\ Carried(p)
      BY <2>2, CarriedIs DEF In
    <3>2. /\ ~Up("nse", p) /\ ~Up("wake", p) /\ p \notin keys["delegate"] /\ ~JsSends(p)
          /\ \A t \in Starts : In(t, p) => t = s
      BY <2>1, <3>1 DEF PlainOK, OneCarrier, CarriedOK
    <3>3. server'[p] = "taken" => o = "accepted"
      BY <1>1, <1>2, <1>6, <1>7, <2>1, <2>2, AnswerOK
    <3>4. server'[p] = "taken" => uploads'[s].answer = "final"
      BY <1>3, <3>3 DEF Final
    <3>5. OneCarrier(p)' /\ CarriedOK(p)'
      BY <1>4, <1>5, <2>1 DEF PlainOK, OneCarrier, CarriedOK
    <3>6. TakenOK(p)'
      BY <1>4, <1>5, <3>1, <3>2, <3>4 DEF TakenOK
    <3> QED
      BY <3>5, <3>6 DEF PlainOK
  <2>3. CASE p \notin ps
    <3>1. server'[p] = server[p]
      BY <1>1, <1>2, <2>1, <2>3, AnswerOK
    <3>2. \A t \in Starts : In(t, p) => uploads'[t] = uploads[t]
      BY <1>3, <2>3 DEF In
    <3>3. server[p] = "taken" => Carried(p)' \/ JsSends(p)' \/ markers'[p] = "sent"
      BY <1>4, <1>5, <2>1 DEF PlainOK, TakenOK
    <3>4. Quiet(p)
      BY <1>4, <3>1, <3>2, <3>3 DEF Quiet
    <3> QED
      BY <2>1, <3>4, QuietKeeps
  <2> QED
    BY <2>2, <2>3
<1>8. FreshStarts'
  <2>1. coming' = coming /\ push' = push
    BY <1>1 DEF actorVars
  <2>2. uploads[s] # NoUpload
    BY <1>1 DEF NoUpload
  <2>3. \A t \in Starts : uploads[t] = NoUpload => uploads'[t] = NoUpload
    BY <1>3, <2>2
  <2>4. \A a \in Workers, p \in Pushes : <<a, p>> \in Starts
    BY DEF Workers, Starts
  <2> QED
    BY <1>2, <2>1, <2>3, <2>4 DEF FreshStarts, Workers
<1> HIDE DEF ps
<1>9. slipped' = slipped
  BY <1>1
<1> QED
  BY <1>1, <1>6, <1>7, <1>8, <1>9, AnswerSenders

LEMMA ReportEventsPlain ==
  ASSUME IInv, SendersOK, NEW o \in Outcomes, ReportEvents(o) PROVE SendersOK'
<1> DEFINE ps == keys["js"]
<1>1. /\ at["js"] = "post" /\ Answer(ps, o)
      /\ repeatable' = IF o = "lost" THEN repeatable \cup ps ELSE repeatable
      /\ IF o \in Final THEN Move("js", "remove", push["js"], entries["js"], ps)
                        ELSE Move("js", "idle", NoPush, {}, {})
      /\ UNCHANGED <<fileVars, coming, uploads, slipped>>
  BY DEF ReportEvents, Go, End
<1>2. /\ TypeOK /\ FreshStarts /\ \A p \in Pushes : server[p] # "repeated"
      /\ \A p \in Plain : PlainOK(p) /\ p \in Pushes
      /\ "js" \in Actors /\ "js" \notin Workers
  BY DEF IInv, SendersOK, DuplicatesExplained, Plain, Actors, Workers
<1>3. /\ at'["js"] \in {"remove", "idle"} /\ keys'["js"] \subseteq ps
      /\ o \in Final => at'["js"] = "remove" /\ keys'["js"] = ps
      /\ \A b \in Actors \ {"js"} : at'[b] = at[b] /\ keys'[b] = keys[b]
      /\ \A b \in Workers : push'[b] = push[b]
  BY <1>1, <1>2 DEF Move, TypeOK, Workers, Actors
<1>4. /\ \A p : /\ \A b \in Workers : Up(b, p)' <=> Up(b, p)
                /\ \A t \in Starts : In(t, p)' <=> In(t, p)
                /\ JsSends(p) <=> p \in ps
                /\ JsSends(p)' => p \in ps
      /\ keys'["delegate"] = keys["delegate"] /\ at'["delegate"] = at["delegate"]
      /\ markers' = markers /\ uploads' = uploads
  BY <1>1, <1>3 DEF fileVars, Up, In, JsSends, Workers, Actors
<1>5. \A p : Carried(p)' <=> Carried(p)
  BY <1>4, CarriedIs DEF Workers
<1>6. \A p \in ps \cap Plain : server[p] # "taken"
  BY <1>1, <1>2, <1>4 DEF PlainOK, TakenOK
<1>7. ASSUME NEW p \in Plain, p \notin repeatable' PROVE PlainOK(p)'
  <2>1. PlainOK(p) /\ p \in Pushes
    BY <1>2
  <2>2. CASE p \in ps
    <3>1. ~Carried(p) /\ ~Carried(p)'
      BY <1>4, <1>5, <2>1, <2>2 DEF PlainOK, CarriedOK
    <3>2. server'[p] = "taken" => o = "accepted"
      BY <1>1, <1>2, <1>6, <1>7, <2>1, <2>2, AnswerOK
    <3>3. server'[p] = "taken" => at'["js"] = "remove" /\ JsSends(p)'
      BY <1>3, <2>2, <3>2 DEF Final, JsSends
    <3>4. OneCarrier(p)'
      BY <1>4, <2>1 DEF PlainOK, OneCarrier, Workers
    <3>5. /\ ~Up("nse", p)' /\ ~Up("wake", p)' /\ p \notin keys'["delegate"]
          /\ \A t \in Starts : ~In(t, p)'
      BY <3>1, CarriedIs
    <3>6. CarriedOK(p)'
      BY <3>1 DEF CarriedOK
    <3>7. TakenOK(p)'
      BY <3>3, <3>5 DEF TakenOK
    <3> QED
      BY <3>4, <3>6, <3>7 DEF PlainOK
  <2>3. CASE p \notin ps
    <3>1. server'[p] = server[p] /\ ~JsSends(p) /\ ~JsSends(p)'
      BY <1>1, <1>2, <1>4, <2>1, <2>3, AnswerOK
    <3>2. server[p] = "taken" => Carried(p)' \/ markers'[p] = "sent"
      BY <1>4, <1>5, <2>1, <3>1 DEF PlainOK, TakenOK
    <3>3. Quiet(p)
      BY <1>4, <3>1, <3>2 DEF Quiet
    <3> QED
      BY <2>1, <3>3, QuietKeeps
  <2> QED
    BY <2>2, <2>3
<1>8. FreshStarts'
  BY <1>1, <1>2, <1>3, FreshKept
<1> HIDE DEF ps
<1>9. slipped' = slipped
  BY <1>1
<1> QED
  BY <1>1, <1>6, <1>7, <1>8, <1>9, AnswerSenders

LEMMA UploadLostPlain ==
  ASSUME IInv, SendersOK, NEW s \in Starts, UploadLost(s) PROVE SendersOK'
<1>1. /\ uploads' = [uploads EXCEPT ![s] = NoUpload]
      /\ repeatable' = repeatable \cup uploads[s].keys
      /\ UNCHANGED <<fileVars, coming, actorVars, slipped, server>>
  BY DEF UploadLost
<1>2. TypeOK /\ FreshStarts
  BY DEF IInv, SendersOK
<1>3. \A t \in Starts : uploads'[t] = IF t = s THEN NoUpload ELSE uploads[t]
  BY <1>1, <1>2 DEF TypeOK
<1>4. ASSUME NEW p \in Plain, p \notin repeatable' \cup slipped' PROVE PlainOK(p)'
  <2>1. PlainOK(p) /\ ~In(s, p) /\ ~In(s, p)'
    BY <1>1, <1>3, <1>4 DEF SendersOK, In, NoUpload
  <2>2. /\ \A b : Up(b, p)' <=> Up(b, p)
        /\ \A t \in Starts : In(t, p)' <=> In(t, p)
        /\ at' = at /\ keys' = keys /\ markers' = markers
        /\ JsSends(p)' <=> JsSends(p)
    BY <1>1, <1>3, <2>1 DEF actorVars, fileVars, Up, In, JsSends
  <2>3. Carried(p)' <=> Carried(p)
    BY <2>2, CarriedIs
  <2>4. \A t \in Starts : In(t, p)' => uploads'[t] = uploads[t]
    BY <1>3, <2>1
  <2>5. server[p] = "taken" => Carried(p)' \/ JsSends(p)' \/ markers'[p] = "sent"
    BY <2>1, <2>2, <2>3 DEF PlainOK, TakenOK
  <2>6. Quiet(p)
    BY <1>1, <2>2, <2>4, <2>5 DEF Quiet
  <2> QED
    BY <2>1, <2>6, QuietKeeps
<1>5. FreshStarts'
  <2>1. coming' = coming /\ push' = push
    BY <1>1 DEF actorVars
  <2> QED
    BY <1>2, <1>3, <2>1, FreshKept
<1> QED
  BY <1>1, <1>4, <1>5, SendersKept


LEMMA CompletePlain == ASSUME IInv, SendersOK, NEW s \in Starts, Complete(s) PROVE SendersOK'
<1>1. PICK place \in {"markSent", "markRetry"} :
        /\ place = IF uploads[s].answer = "final" THEN "markSent" ELSE "markRetry"
        /\ Move("delegate", place, push["delegate"], {}, uploads[s].keys)
  BY DEF Complete, Carry
<1>2. /\ at["delegate"] = "idle"
      /\ uploads' = [uploads EXCEPT ![s] = NoUpload]
      /\ UNCHANGED <<fileVars, coming, slipped, repeatable, server>>
  BY DEF Complete, histVars
<1>3. TypeOK /\ FreshStarts /\ "delegate" \in Actors
  BY DEF IInv, SendersOK, Actors
<1>4. \A t \in Starts : uploads'[t] = IF t = s THEN NoUpload ELSE uploads[t]
  BY <1>2, <1>3 DEF TypeOK
<1>5. /\ at'["delegate"] = place /\ keys'["delegate"] = uploads[s].keys
      /\ \A b \in Actors \ {"delegate"} : at'[b] = at[b] /\ keys'[b] = keys[b]
      /\ \A b \in Workers : push'[b] = push[b]
  BY <1>1, <1>3 DEF Move, TypeOK, Workers, Actors
<1>6. ASSUME NEW p \in Plain PROVE PlainOK(p)'
  <2>1. PlainOK(p)
    BY DEF SendersOK
  <2>2. /\ \A b \in Workers : Up(b, p)' <=> Up(b, p)
        /\ \A t \in Starts : In(t, p)' <=> t # s /\ In(t, p)
        /\ p \in keys'["delegate"] <=> In(s, p)
        /\ at'["js"] = at["js"] /\ (JsSends(p)' <=> JsSends(p))
        /\ markers' = markers /\ server' = server
    BY <1>2, <1>4, <1>5 DEF fileVars, Up, In, NoUpload, JsSends, Workers, Actors
  <2>3. CASE In(s, p)
    <3>1. /\ Carried(p) /\ ~Up("nse", p) /\ ~Up("wake", p)
          /\ \A t \in Starts : In(t, p) => t = s
      BY <2>1, <2>3, CarriedIs DEF PlainOK, OneCarrier
    <3>2. /\ ~Up("nse", p)' /\ ~Up("wake", p)' /\ \A t \in Starts : ~In(t, p)'
          /\ Carried(p)'
      BY <2>2, <2>3, <3>1, CarriedIs DEF Workers
    <3>3. server[p] = "taken" => at'["delegate"] = "markSent"
      BY <1>1, <1>5, <2>1, <2>3 DEF PlainOK, TakenOK
    <3>4. OneCarrier(p)'
      BY <3>2 DEF OneCarrier
    <3>5. CarriedOK(p)'
      BY <2>1, <2>2, <3>1 DEF PlainOK, CarriedOK
    <3>6. TakenOK(p)'
      BY <2>1, <2>2, <3>1, <3>2, <3>3 DEF PlainOK, CarriedOK, TakenOK
    <3> QED
      BY <3>4, <3>5, <3>6 DEF PlainOK
  <2>4. CASE ~In(s, p)
    <3>1. \A t \in Starts : In(t, p) => In(t, p)' /\ uploads'[t] = uploads[t]
      BY <1>4, <2>2, <2>4
    <3>2. server[p] = "taken" => p \notin keys["delegate"]
      BY <1>2, <2>1 DEF PlainOK, TakenOK
    <3>3. server[p] = "taken" => Carried(p)' \/ JsSends(p)' \/ markers'[p] = "sent"
      BY <2>1, <2>2, <3>1, <3>2, CarriedIs DEF PlainOK, TakenOK, Workers
    <3>4. Quiet(p)
      BY <2>2, <2>4, <3>1, <3>3 DEF Quiet
    <3> QED
      BY <2>1, <3>4, QuietKeeps
  <2> QED
    BY <2>3, <2>4
<1>7. FreshStarts'
  BY <1>2, <1>3, <1>4, <1>5, FreshKept
<1> QED
  BY <1>2, <1>6, <1>7, SendersKept

LEMMA SettlePlain == ASSUME IInv, SendersOK, Settle PROVE SendersOK'
<1>1. PICK place \in {"markSent", "markRetry"} :
        /\ Transaction("delegate", place, {})
        /\ Move("delegate", "idle", NoPush, {}, {})
        /\ UNCHANGED <<coming, uploads, repeatable, server>>
  BY DEF Settle, End
<1>2. TypeOK /\ FreshStarts /\ "delegate" \in Actors /\ at["delegate"] = place
  BY <1>1 DEF IInv, SendersOK, Actors, Transaction
<1>3. /\ keys'["delegate"] = {}
      /\ \A b \in Actors \ {"delegate"} : at'[b] = at[b] /\ keys'[b] = keys[b]
      /\ \A b \in Workers : push'[b] = push[b]
  BY <1>1, <1>2 DEF Move, TypeOK, Workers, Actors
<1>4. slipped \subseteq slipped'
  BY <1>1, <1>2, SlippedGrows
<1>5. ASSUME NEW p \in Plain, p \notin repeatable' \cup slipped' PROVE PlainOK(p)'
  <2>1. PlainOK(p) /\ p \in Pushes \ slipped'
    BY <1>5 DEF SendersOK, Plain
  <2>2. /\ \A b \in Workers : Up(b, p)' <=> Up(b, p)
        /\ \A t \in Starts : In(t, p)' <=> In(t, p)
        /\ at'["js"] = at["js"] /\ (JsSends(p)' <=> JsSends(p))
        /\ p \notin keys'["delegate"]
    BY <1>1, <1>3 DEF Up, In, JsSends, Workers, Actors
  <2>3. CASE p \in keys["delegate"]
    <3>1. ~Carried(p)'
      BY <2>1, <2>2, <2>3, CarriedIs DEF PlainOK, OneCarrier, Workers
    <3>2. server[p] = "taken" => place = "markSent"
      BY <1>2, <2>1, <2>3 DEF PlainOK, TakenOK
    <3>3. server[p] = "taken" => markers'[p] = "sent"
      BY <1>1, <1>2, <2>1, <2>3, <3>2, TransactionTells
    <3>4. Quiet(p)
      BY <1>1, <2>2, <3>1, <3>3 DEF Quiet
    <3> QED
      BY <2>1, <3>4, QuietKeeps
  <2>4. CASE p \notin keys["delegate"]
    <3>1. MarksKept(p)
      BY <1>1, <1>2, <2>1, <2>4, LooksKeep
    <3>2. Carried(p)' <=> Carried(p)
      BY <2>2, <2>4, CarriedIs DEF Workers
    <3>3. server[p] = "taken" => Carried(p)' \/ JsSends(p)' \/ markers'[p] = "sent"
      BY <2>1, <2>2, <3>1, <3>2 DEF PlainOK, TakenOK, MarksKept
    <3>4. Quiet(p)
      BY <1>1, <2>2, <3>1, <3>2, <3>3 DEF Quiet, MarksKept
    <3> QED
      BY <2>1, <3>4, QuietKeeps
  <2> QED
    BY <2>3, <2>4
<1>6. FreshStarts'
  BY <1>1, <1>2, <1>3, FreshKept
<1> QED
  BY <1>1, <1>4, <1>5, <1>6, SendersKept

-----------------------------------------------------------------------------
LEMMA DiesPlain ==
  ASSUME IInv, SendersOK, NEW actors \in SUBSET Actors, Dies(actors) PROVE SendersOK'
<1>1. /\ \A a \in Actors :
           /\ at'[a] = IF a \in actors THEN "idle" ELSE at[a]
           /\ push'[a] = IF a \in actors THEN NoPush ELSE push[a]
           /\ keys'[a] = IF a \in actors THEN {} ELSE keys[a]
      /\ repeatable' = repeatable \cup UNION {keys[a] : a \in actors}
      /\ UNCHANGED <<markers, coming, uploads, slipped, server>>
  BY DEF Dies
<1>2. TypeOK /\ FreshStarts /\ {"nse", "wake", "js", "delegate"} \subseteq Actors
  BY DEF IInv, SendersOK, Actors
<1>3. ASSUME NEW p \in Plain, p \notin repeatable' \cup slipped' PROVE PlainOK(p)'
  <2>1. PlainOK(p) /\ \A a \in actors : p \notin keys[a]
    BY <1>1, <1>3 DEF SendersOK
  <2>2. /\ \A b \in Workers : Up(b, p)' <=> Up(b, p)
        /\ JsSends(p)' <=> JsSends(p)
        /\ JsSends(p)' => at'["js"] = at["js"]
        /\ p \in keys'["delegate"] <=> p \in keys["delegate"]
        /\ p \in keys'["delegate"] => at'["delegate"] = at["delegate"]
        /\ \A t \in Starts : In(t, p)' <=> In(t, p)
    BY <1>1, <1>2, <2>1 DEF Up, JsSends, In, Workers
  <2>3. Carried(p)' <=> Carried(p)
    BY <2>2, CarriedIs DEF Workers
  <2>4. server[p] = "taken" => Carried(p)' \/ JsSends(p)' \/ markers'[p] = "sent"
    BY <1>1, <2>1, <2>2, <2>3 DEF PlainOK, TakenOK
  <2>5. Quiet(p)
    BY <1>1, <2>2, <2>4 DEF Quiet
  <2> QED
    BY <2>1, <2>5, QuietKeeps
<1>4. \A b \in Workers : push'[b] \in {push[b], NoPush}
  BY <1>1 DEF Workers, Actors
<1>5. FreshStarts'
  BY <1>1, <1>2, <1>4, FreshKept
<1> QED
  BY <1>1, <1>3, <1>5, SendersKept

LEMMA InitSenders == Init => SendersOK
<1> SUFFICES ASSUME Init PROVE SendersOK
  OBVIOUS
<1>1. /\ \A a \in Actors : at[a] = "idle" /\ push[a] = NoPush /\ keys[a] = {}
      /\ \A s \in Starts : uploads[s] = NoUpload
      /\ \A p \in Pushes : server[p] = "none"
  BY DEF Init
<1>2. ASSUME NEW p \in Plain PROVE PlainOK(p)
  <2>1. /\ \A b \in Workers : ~Up(b, p)
        /\ \A s \in Starts : ~In(s, p)
        /\ p \notin keys["delegate"]
        /\ server[p] # "taken"
    BY <1>1 DEF Up, In, NoUpload, Workers, Actors, Plain
  <2>2. ~Carried(p)
    BY <2>1, CarriedIs DEF Workers
  <2> QED
    BY <2>1, <2>2 DEF PlainOK, OneCarrier, CarriedOK, TakenOK, Workers
<1>3. FreshStarts
  <2>1. \A a \in Workers, p \in Pushes : <<a, p>> \in Starts /\ p # NoPush
    BY ConstantsAssumption DEF Workers, Starts
  <2>2. "nse" \in Workers /\ "wake" \in Workers /\ Workers \subseteq Actors
    BY DEF Workers, Actors
  <2> QED
    BY <1>1, <2>1, <2>2 DEF FreshStarts
<1> QED
  BY <1>1, <1>2, <1>3 DEF SendersOK, DuplicatesExplained

LEMMA NextSenders == IInv /\ SendersOK /\ [Next]_vars => SendersOK'
<1> SUFFICES ASSUME IInv, SendersOK, [Next]_vars PROVE SendersOK'
  OBVIOUS
<1>1. CASE Extension
  BY <1>1, LookUpPlain, ClaimReportsPlain, UploadPlain, UploadFailsPlain, LeaveForAppPlain
  DEF Extension, Workers
<1>2. CASE AppWake
  BY <1>2, UploadInBackgroundPlain, WakePendingExcludedPlain, WakePendingRetriesPlain,
     WakeUnusablePlain, ClaimReportsPlain, UploadPlain, UploadFailsPlain, LeaveForAppPlain
  DEF AppWake, Workers
<1>3. CASE Flusher
  BY <1>3, GetReportOutboxPlain, SentReportsPlain, PendingExcludedPlain, PendingRetriesPlain,
     NoCurrentTokenPlain, ReportEventsPlain, RemoveEntriesPlain, MarkReportedPlain
  DEF Flusher
<1>4. CASE Delegate
  BY <1>4, SettlePlain, CompletePlain DEF Delegate
<1>5. CASE ClearReportOutbox \/ ClearRetries
  BY <1>5, ClearReportOutboxPlain, ClearRetriesPlain
<1>6. CASE \E p \in Pushes : Foreground(p) \/ Wake(p) \/ Overdue(p)
  BY <1>6, ForegroundPlain, WakePlain, OverduePlain
<1>7. CASE \E p \in Pushes, usable \in BOOLEAN : Handle(p, usable)
  BY <1>7, HandlePlain
<1>8. CASE \E s \in Starts, o \in Outcomes : UploadAnswered(s, o)
  BY <1>8, UploadAnsweredPlain
<1>9. CASE \E s \in Starts : UploadLost(s)
  BY <1>9, UploadLostPlain
<1>10. CASE \E a \in Actors : Enter(a)
  BY <1>10, EnterPlain
<1>11. CASE Dies({"nse"}) \/ Dies(Actors \ {"nse"})
  <2> DEFINE extension == {"nse"}
             app       == Actors \ {"nse"}
  <2>1. extension \in SUBSET Actors /\ app \in SUBSET Actors
    BY DEF Actors
  <2>2. Dies(extension) \/ Dies(app)
    BY <1>11
  <2> HIDE DEF extension, app
  <2> QED
    BY <2>1, <2>2, DiesPlain
<1>12. CASE UNCHANGED vars
  BY <1>12, StutterPlain
<1> QED
  BY <1>1, <1>2, <1>3, <1>4, <1>5, <1>6, <1>7, <1>8, <1>9, <1>10, <1>11, <1>12 DEF Next

(* The server takes no report twice that nothing explains a second sending *)
(* of: between the extension, the background wake, the delegate and the JS *)
(* flusher, the markers in reports.json and the claims on them see to it   *)
(* that at most one of them has the report.                                *)
THEOREM DuplicatesCorrect == Spec => []DuplicatesExplained
<1>1. SendersOK => DuplicatesExplained
  BY DEF SendersOK
<1> QED
  BY <1>1, InitSenders, NextSenders, Invariance, PTL DEF Spec

=============================================================================
