----------------------- MODULE DeliveryReportsProofs -----------------------
(***************************************************************************)
(* The delivery reports of the Android client, for any messages, statuses, *)
(* setups and number of process deaths: the five invariants that the runs  *)
(* check.  They need a seen set that holds every message (SeenFits), and   *)
(* so a sent-set that holds every token: a key that is evicted is          *)
(* forgotten.                                                              *)
(*                                                                         *)
(* The parts of the invariant are operators on the values they relate, so  *)
(* that a step that leaves those alone leaves the part alone.              *)
(***************************************************************************)
EXTENDS DeliveryReports, FiniteSetTheorems, SequenceTheorems, TLAPS

SeenFits == Cardinality(Messages) <= SeenCapacity

Jobs == [at : Stages, msg : Messages \cup {NoMessage}, status : Statuses,
         fresh : BOOLEAN, flush : BOOLEAN]
Busy == {"cursor", "issue", "hand", "present"}

Toks(s) == {s[i].tok : i \in DOMAIN s}
Unique(s) == \A i, j \in DOMAIN s : s[i] = s[j] => i = j

(* The task at each place; only resend() has a snapshot to walk, and an    *)
(* outbox that is not the one it last saved.                               *)
JobOK(tk, sn, q, sv, ob) ==
  /\ tk \in Jobs
  /\ tk.at \in Busy => tk.msg \in Messages
  /\ tk.at = "cursor" => tk.msg \in ToSet(sn)
  /\ tk.at = "present" => tk.fresh
  /\ tk.fresh => tk.at \in Busy
  /\ tk.at # "resend" => q = <<>> /\ sv = ob

(* The seen set and the cursor, the sent-set, and a list of reports.       *)
SeenOK(sn, cu) ==
  sn \in Seq(Messages) /\ Unique(sn) /\ cu.msg \in ToSet(sn) \cup {NoMessage}
KeysOK(keys) == keys \in Seq(Tokens) /\ Unique(keys)
Trying(s) == s \in Seq(Entry) /\ \A i \in DOMAIN s : s[i].attempts < MaxAttempts
BoxOK(s, keys) == Trying(s) /\ Keyed(s) /\ Toks(s) \subseteq ToSet(keys)

(* What is written covers what waits, in the outbox or in the snapshot.    *)
WaitOK(ob, q, sv, keys) ==
  /\ BoxOK(ob, keys) /\ BoxOK(q, keys) /\ BoxOK(sv, keys)
  /\ Toks(ob) \cap Toks(q) = {}
  /\ Toks(ob) \cup Toks(q) \subseteq Toks(sv)

DiskOK(d) ==
  SeenOK(d.seen, d.cursor) /\ KeysOK(d.sentKeys) /\ BoxOK(d.outbox, d.sentKeys)

(* The token that a task has issued and not handed over.                   *)
InHand(tk) == IF tk.at = "hand" THEN {Token(tk)} ELSE {}
HandOK(tk, keys, ob) == InHand(tk) \subseteq ToSet(keys) /\ InHand(tk) \cap Toks(ob) = {}

(* The last frames of the reports, as long as no write was lost.           *)
Fated(ft, keys) == \A t \in Tokens : ft[t] # "unsent" => t \in ToSet(keys)
HandUnsent(ft, tk) == \A t \in InHand(tk) : ft[t] = "unsent"
SavedUnsent(ft, sv, tk, wait, cr) ==
  \A t \in Toks(sv) :
    \/ ft[t] \in {"unsent", "rejected"}
    \/ ft[t] = "lost" /\ cr > 0
    \/ ft[t] = "unanswered" /\ tk.at = "resend" /\ t \notin wait
Kept(ft, keys, safe) ==
  \A t \in ToSet(keys) : ft[t] \in {"unsent", "rejected"} => t \in safe
RepeatsOK(rp, cr) == \A r \in rp : r.after = "lost" /\ cr > 0
PresentedOK(pr, sn, tk) ==
  \A m \in Messages :
    /\ pr[m] <= 1
    /\ pr[m] >= 1 => m \in ToSet(sn)
    /\ tk.fresh /\ tk.msg = m => pr[m] = 0 /\ m \in ToSet(sn)

Counts == setup \in Setup /\ clock \in Nat /\ crashes \in Nat
            /\ lostWrite \in BOOLEAN /\ (lostWrite => crashes > 0)
Histories == fate \in [Tokens -> Fates] /\ presented \in [Messages -> 0 .. 2]

WaitingToks == Toks(outbox) \cup Toks(queued)
Safe == WaitingToks \cup discarded \cup interrupted \cup InHand(task)

FatesOK ==
  /\ Fated(fate, sentKeys)
  /\ HandUnsent(fate, task)
  /\ SavedUnsent(fate, saved, task, WaitingToks, crashes)
  /\ Kept(fate, sentKeys, Safe)
  /\ RepeatsOK(repeats, crashes)
  /\ PresentedOK(presented, seen, task)

IInv ==
  /\ Counts /\ Histories
  /\ JobOK(task, seen, queued, saved, outbox)
  /\ SeenOK(seen, cursor) /\ KeysOK(sentKeys) /\ Trying(pending)
  /\ WaitOK(outbox, queued, saved, sentKeys)
  /\ DiskOK(disk)
  /\ HandOK(task, sentKeys, outbox)
  /\ ~lostWrite => FatesOK

-----------------------------------------------------------------------------
(* Queues and lists, position by position.                                 *)

(* The oldest element goes: every other one moves down by one place.       *)
LEMMA TailAt ==
  ASSUME NEW S, NEW ts \in Seq(S), ts # <<>>
  PROVE  /\ Tail(ts) \in Seq(S) /\ Head(ts) \in S /\ Head(ts) = ts[1]
         /\ 1 \in DOMAIN ts
         /\ DOMAIN Tail(ts) = 1 .. Len(ts) - 1 /\ Len(ts) \in Nat /\ Len(ts) >= 1
         /\ DOMAIN ts = 1 .. Len(ts)
         /\ \A i \in DOMAIN Tail(ts) : i + 1 \in DOMAIN ts /\ Tail(ts)[i] = ts[i + 1]
         /\ \A i \in DOMAIN ts : i # 1 => i - 1 \in DOMAIN Tail(ts) /\ Tail(ts)[i - 1] = ts[i]
  OBVIOUS

(* A new element is the last one, and the others keep their places.        *)
LEMMA AppendAt ==
  ASSUME NEW S, NEW ts \in Seq(S), NEW t \in S
  PROVE  /\ Append(ts, t) \in Seq(S)
         /\ DOMAIN Append(ts, t) = DOMAIN ts \cup {Len(ts) + 1}
         /\ DOMAIN ts = 1 .. Len(ts) /\ Len(ts) \in Nat
         /\ Append(ts, t)[Len(ts) + 1] = t
         /\ \A i \in DOMAIN ts : Append(ts, t)[i] = ts[i]
         /\ \A i \in DOMAIN Append(ts, t) :
              Append(ts, t)[i] = IF i = Len(ts) + 1 THEN t ELSE ts[i]
  OBVIOUS

(* What is behind the element that goes moves down by one place.           *)
LEMMA RemoveAtIs ==
  ASSUME NEW S, NEW s \in Seq(S), NEW k \in DOMAIN s
  PROVE  /\ RemoveAt(s, k) \in Seq(S)
         /\ DOMAIN RemoveAt(s, k) = 1 .. Len(s) - 1 /\ Len(s) \in Nat /\ k \in 1 .. Len(s)
         /\ \A i \in DOMAIN RemoveAt(s, k) :
              RemoveAt(s, k)[i] = IF i < k THEN s[i] ELSE s[i + 1]
<1>1. k \in 1 .. Len(s) /\ Len(s) \in Nat
  OBVIOUS
<1> DEFINE front == SubSeq(s, 1, k - 1)
           back  == SubSeq(s, k + 1, Len(s))
<1>2. /\ front \in Seq(S) /\ Len(front) = k - 1
      /\ \A i \in 1 .. k - 1 : front[i] = s[i]
  BY <1>1
<1>3. /\ back \in Seq(S) /\ Len(back) = Len(s) - k
      /\ \A i \in 1 .. Len(s) - k : back[i] = s[k + i]
  BY <1>1
<1>4. RemoveAt(s, k) = front \o back
  BY DEF RemoveAt
<1> HIDE DEF front, back
<1>5. /\ front \o back \in Seq(S)
      /\ Len(front \o back) = Len(front) + Len(back)
      /\ \A i \in 1 .. Len(front) + Len(back) :
           (front \o back)[i] = IF i <= Len(front) THEN front[i] ELSE back[i - Len(front)]
  BY <1>2, <1>3, ConcatProperties
<1>6. DOMAIN RemoveAt(s, k) = 1 .. Len(s) - 1
  BY <1>1, <1>2, <1>3, <1>4, <1>5
<1>7. ASSUME NEW i \in 1 .. Len(s) - 1
      PROVE  RemoveAt(s, k)[i] = IF i < k THEN s[i] ELSE s[i + 1]
  <2>1. CASE i < k
    <3>1. i \in 1 .. Len(front) + Len(back) /\ i <= Len(front) /\ i \in 1 .. k - 1
      BY <2>1, <1>1, <1>2, <1>3, <1>7
    <3>2. (front \o back)[i] = front[i]
      BY <3>1, <1>5
    <3>3. RemoveAt(s, k)[i] = s[i]
      BY <3>1, <3>2, <1>2, <1>4
    <3> QED BY <3>3, <2>1
  <2>2. CASE i >= k
    <3>1. i - (k - 1) \in 1 .. Len(s) - k /\ k + (i - (k - 1)) = i + 1
      BY <2>2, <1>1, <1>7
    <3>a. i \in 1 .. Len(front) + Len(back) /\ ~(i <= Len(front))
      BY <2>2, <1>1, <1>2, <1>3, <1>7
    <3>b. (front \o back)[i] = back[i - Len(front)]
      BY <3>a, <1>5
    <3>2. RemoveAt(s, k)[i] = back[i - (k - 1)]
      BY <3>b, <1>2, <1>4
    <3>3. back[i - (k - 1)] = s[k + (i - (k - 1))]
      BY <3>1, <1>3
    <3>4. RemoveAt(s, k)[i] = s[i + 1]
      BY <3>1, <3>2, <3>3
    <3> QED BY <3>4, <2>2, <1>1, <1>7
  <2> QED BY <2>1, <2>2, <1>1, <1>7
<1> QED BY <1>1, <1>4, <1>5, <1>6, <1>7

-----------------------------------------------------------------------------
(* The lists of reports, as sets of tokens.                                *)

Report(e) == e \in Entry /\ e.attempts < MaxAttempts

LEMMA TryingAt ==
  \A s : Trying(s) <=> s \in Seq(Entry) /\ \A i \in DOMAIN s : Report(s[i])
<1>1. ASSUME NEW s, s \in Seq(Entry), NEW i \in DOMAIN s PROVE s[i] \in Entry
  BY <1>1
<1> QED BY <1>1 DEF Trying, Report

LEMMA ToksType == \A s : Trying(s) => Toks(s) \subseteq Tokens
<1>1. ASSUME NEW s, s \in Seq(Entry), NEW i \in DOMAIN s PROVE s[i].tok \in Tokens
  <2>1. s[i] \in Entry
    BY <1>1
  <2> QED BY <2>1 DEF Entry
<1> QED BY <1>1 DEF Trying, Toks

LEMMA AppendIs ==
  ASSUME NEW s, NEW e, Trying(s), Report(e)
  PROVE  /\ Trying(Append(s, e))
         /\ Toks(Append(s, e)) = Toks(s) \cup {e.tok}
         /\ Keyed(s) /\ e.tok \notin Toks(s) => Keyed(Append(s, e))
<1> DEFINE us == Append(s, e)
<1>1. s \in Seq(Entry) /\ e \in Entry /\ e.attempts < MaxAttempts
      /\ \A i \in DOMAIN s : s[i].attempts < MaxAttempts
  BY DEF Trying, Report
<1>2. /\ us \in Seq(Entry)
      /\ DOMAIN us = DOMAIN s \cup {Len(s) + 1}
      /\ DOMAIN s = 1 .. Len(s) /\ Len(s) \in Nat
      /\ us[Len(s) + 1] = e
      /\ \A i \in DOMAIN s : us[i] = s[i]
  BY <1>1, AppendAt
<1> HIDE DEF us
<1>3. Trying(us)
  BY <1>1, <1>2 DEF Trying
<1>4. Toks(us) = Toks(s) \cup {e.tok}
  <2>1. ASSUME NEW t \in Toks(us) PROVE t \in Toks(s) \cup {e.tok}
    BY <1>2, <2>1 DEF Toks
  <2>2. ASSUME NEW t \in Toks(s) PROVE t \in Toks(us)
    BY <1>2, <2>2 DEF Toks
  <2>3. e.tok \in Toks(us)
    BY <1>2 DEF Toks
  <2> QED BY <2>1, <2>2, <2>3
<1>5. ASSUME Keyed(s), e.tok \notin Toks(s) PROVE Keyed(us)
  <2>1. \A i \in DOMAIN s : s[i].tok # e.tok
    BY <1>5 DEF Toks
  <2> QED BY <1>2, <1>5, <2>1 DEF Keyed
<1> QED BY <1>3, <1>4, <1>5 DEF us

LEMMA TailIs ==
  ASSUME NEW s, Trying(s), s # <<>>
  PROVE  /\ Trying(Tail(s)) /\ Report(Head(s))
         /\ Toks(s) = Toks(Tail(s)) \cup {Head(s).tok}
         /\ Keyed(s) => Keyed(Tail(s)) /\ Head(s).tok \notin Toks(Tail(s))
<1> DEFINE us == Tail(s)
<1>1. s \in Seq(Entry) /\ \A i \in DOMAIN s : Report(s[i])
  BY TryingAt
<1>2. /\ us \in Seq(Entry) /\ Head(s) = s[1] /\ 1 \in DOMAIN s /\ DOMAIN s = 1 .. Len(s)
      /\ \A i \in DOMAIN us : i \in Nat /\ i >= 1 /\ i + 1 \in DOMAIN s /\ us[i] = s[i + 1]
      /\ \A i \in DOMAIN s : i \in Nat /\ (i # 1 => i - 1 \in DOMAIN us /\ us[i - 1] = s[i])
  BY <1>1, TailAt
<1> HIDE DEF us
<1>3. Trying(us) /\ Report(Head(s))
  BY <1>1, <1>2, TryingAt
<1>4. Toks(s) = Toks(us) \cup {Head(s).tok}
  <2>1. ASSUME NEW t \in Toks(s) PROVE t \in Toks(us) \cup {Head(s).tok}
    BY <1>2, <2>1 DEF Toks
  <2>2. ASSUME NEW t \in Toks(us) PROVE t \in Toks(s)
    BY <1>2, <2>2 DEF Toks
  <2>3. Head(s).tok \in Toks(s)
    BY <1>2 DEF Toks
  <2> QED BY <2>1, <2>2, <2>3
<1>5. ASSUME Keyed(s) PROVE Keyed(us) /\ Head(s).tok \notin Toks(us)
  <2>1. ASSUME NEW i \in DOMAIN us, NEW j \in DOMAIN us, us[i].tok = us[j].tok PROVE i = j
    <3>1. i + 1 = j + 1
      BY <1>2, <1>5, <2>1 DEF Keyed
    <3> QED BY <3>1, <1>2
  <2>2. ASSUME NEW i \in DOMAIN us PROVE us[i].tok # Head(s).tok
    BY <1>2, <1>5, <2>2 DEF Keyed
  <2> QED BY <2>1, <2>2 DEF Keyed, Toks
<1> QED BY <1>3, <1>4, <1>5 DEF us

LEMMA InsertIs ==
  ASSUME NEW s, NEW e, NEW n \in Nat \ {0}, Trying(s), Report(e)
  PROVE  /\ Trying(Insert(s, e, n))
         /\ Toks(Insert(s, e, n)) \subseteq Toks(s) \cup {e.tok}
         /\ e.tok \in Toks(Insert(s, e, n))
         /\ Toks(s) \subseteq Toks(Insert(s, e, n)) \cup (IF Len(s) >= n THEN {Head(s).tok} ELSE {})
         /\ Keyed(s) /\ e.tok \notin Toks(s) => Keyed(Insert(s, e, n))
<1>1. CASE Len(s) >= n
  <2>1. s # <<>>
    BY <1>1
  <2>2. /\ Trying(Tail(s)) /\ Toks(s) = Toks(Tail(s)) \cup {Head(s).tok}
        /\ Keyed(s) => Keyed(Tail(s))
    BY <2>1, TailIs
  <2>3. /\ Trying(Append(Tail(s), e)) /\ Toks(Append(Tail(s), e)) = Toks(Tail(s)) \cup {e.tok}
        /\ Keyed(Tail(s)) /\ e.tok \notin Toks(Tail(s)) => Keyed(Append(Tail(s), e))
    BY <2>2, AppendIs
  <2> QED BY <1>1, <2>2, <2>3 DEF Insert
<1>2. CASE ~(Len(s) >= n)
  <2>1. /\ Trying(Append(s, e)) /\ Toks(Append(s, e)) = Toks(s) \cup {e.tok}
        /\ Keyed(s) /\ e.tok \notin Toks(s) => Keyed(Append(s, e))
    BY AppendIs
  <2> QED BY <1>2, <2>1 DEF Insert
<1> QED BY <1>1, <1>2

LEMMA IndexOfIs ==
  ASSUME NEW s, NEW t, Holds(s, t)
  PROVE  IndexOf(s, t) \in DOMAIN s /\ s[IndexOf(s, t)].tok = t
  BY DEF Holds, IndexOf

LEMMA HoldsIs == \A s, t : Holds(s, t) <=> t \in Toks(s)
  BY DEF Holds, Toks

LEMMA PutEntryIs ==
  ASSUME NEW s, NEW e, NEW n \in Nat \ {0}, Trying(s), Report(e)
  PROVE  Trying(PutEntry(s, e, n))
<1>1. CASE Holds(s, e.tok)
  <2> DEFINE k == IndexOf(s, e.tok)
             us == [s EXCEPT ![k] = e]
  <2>1. k \in DOMAIN s /\ s \in Seq(Entry) /\ e \in Entry
    BY <1>1, IndexOfIs DEF Trying, Report
  <2> HIDE DEF k
  <2>2. us \in Seq(Entry) /\ DOMAIN us = DOMAIN s
        /\ \A i \in DOMAIN s : us[i] = IF i = k THEN e ELSE s[i]
    BY <2>1
  <2> HIDE DEF us
  <2>3. Trying(us)
    BY <2>2, TryingAt
  <2> QED BY <1>1, <2>3 DEF PutEntry, us, k
<1>2. CASE ~Holds(s, e.tok)
  BY <1>2, InsertIs DEF PutEntry
<1> QED BY <1>1, <1>2

LEMMA RemoveTokenIs ==
  ASSUME NEW s, NEW t, Trying(s), Keyed(s)
  PROVE  /\ Trying(RemoveToken(s, t)) /\ Keyed(RemoveToken(s, t))
         /\ Toks(RemoveToken(s, t)) = Toks(s) \ {t}
<1>1. CASE Holds(s, t)
  <2> DEFINE k == IndexOf(s, t)
             us == RemoveAt(s, k)
  <2>1. k \in DOMAIN s /\ s[k].tok = t
    BY <1>1, IndexOfIs
  <2>2. s \in Seq(Entry) /\ \A i \in DOMAIN s : Report(s[i])
    BY TryingAt
  <2> HIDE DEF k
  <2>3. /\ us \in Seq(Entry) /\ Len(s) \in Nat /\ k \in 1 .. Len(s)
        /\ DOMAIN us = 1 .. Len(s) - 1 /\ DOMAIN s = 1 .. Len(s)
        /\ \A i \in DOMAIN us : us[i] = IF i < k THEN s[i] ELSE s[i + 1]
    BY <2>1, <2>2, RemoveAtIs
  <2> HIDE DEF us
  <2> DEFINE at(i) == IF i < k THEN i ELSE i + 1
  <2>4. \A i \in DOMAIN us : at(i) \in DOMAIN s /\ us[i] = s[at(i)] /\ at(i) # k
    BY <2>3
  <2>5. \A i, j \in DOMAIN us : at(i) = at(j) => i = j
    BY <2>3
  <2>6. \A i \in DOMAIN s : i # k => \E j \in DOMAIN us : us[j] = s[i]
    <3>1. SUFFICES ASSUME NEW i \in DOMAIN s, i # k PROVE \E j \in DOMAIN us : us[j] = s[i]
      OBVIOUS
    <3>2. CASE i < k
      BY <2>3, <3>2
    <3>3. CASE i > k
      <4>1. i - 1 \in DOMAIN us /\ us[i - 1] = s[i]
        BY <2>3, <3>3
      <4> QED BY <4>1
    <3> QED BY <3>1, <3>2, <3>3, <2>3
  <2> HIDE DEF at
  <2>7. Trying(us)
    BY <2>2, <2>3, <2>4, TryingAt
  <2>8. Keyed(us)
    <3>1. SUFFICES ASSUME NEW i \in DOMAIN us, NEW j \in DOMAIN us, us[i].tok = us[j].tok
                   PROVE  i = j
      BY DEF Keyed
    <3>2. at(i) = at(j)
      BY <2>4, <3>1 DEF Keyed
    <3> QED BY <2>5, <3>2
  <2>9. Toks(us) = Toks(s) \ {t}
    <3>1. ASSUME NEW x \in Toks(us) PROVE x \in Toks(s) \ {t}
      <4>1. PICK i \in DOMAIN us : x = us[i].tok
        BY <3>1 DEF Toks
      <4>2. x = s[at(i)].tok /\ at(i) \in DOMAIN s /\ at(i) # k
        BY <2>4, <4>1
      <4> QED BY <2>1, <4>2 DEF Keyed, Toks
    <3>2. ASSUME NEW x \in Toks(s), x # t PROVE x \in Toks(us)
      <4>1. PICK i \in DOMAIN s : x = s[i].tok
        BY <3>2 DEF Toks
      <4>2. PICK j \in DOMAIN us : us[j] = s[i]
        BY <2>1, <2>6, <3>2, <4>1
      <4> QED BY <4>1, <4>2 DEF Toks
    <3> QED BY <3>1, <3>2
  <2> QED BY <1>1, <2>7, <2>8, <2>9 DEF RemoveToken, us, k
<1>2. CASE ~Holds(s, t)
  BY <1>2, HoldsIs DEF RemoveToken
<1> QED BY <1>1, <1>2

(* A set of keys that is large enough grows and forgets nothing.           *)
LEMMA AddKeyIs ==
  ASSUME NEW S, IsFiniteSet(S), NEW n \in Nat, Cardinality(S) <= n,
         NEW s \in Seq(S), Unique(s), NEW x \in S
  PROVE  /\ AddKey(s, x, n) \in Seq(S) /\ Unique(AddKey(s, x, n))
         /\ ToSet(AddKey(s, x, n)) = ToSet(s) \cup {x}
<1>1. CASE x \in ToSet(s)
  BY <1>1 DEF AddKey
<1>2. CASE x \notin ToSet(s)
  <2> DEFINE us == Append(s, x)
  <2>1. /\ us \in Seq(S) /\ DOMAIN us = DOMAIN s \cup {Len(s) + 1}
        /\ DOMAIN s = 1 .. Len(s) /\ Len(s) \in Nat /\ us[Len(s) + 1] = x
        /\ \A i \in DOMAIN s : us[i] = s[i]
    BY AppendAt
  <2>2. \A i \in DOMAIN s : s[i] # x /\ s[i] \in S
    BY <1>2 DEF ToSet
  <2>3. s \in Injection(1 .. Len(s), S \ {x})
    <3>1. s \in [1 .. Len(s) -> S \ {x}]
      BY <2>1, <2>2
    <3>2. \A i, j \in 1 .. Len(s) : s[i] = s[j] => i = j
      BY <2>1 DEF Unique
    <3> QED BY <3>1, <3>2 DEF Injection, IsInjective
  <2>4. /\ IsFiniteSet(S \ {x}) /\ Cardinality(S \ {x}) = Cardinality(S) - 1
        /\ Cardinality(S) \in Nat
    BY FS_RemoveElement, FS_CardinalityType
  <2>5. Cardinality(1 .. Len(s)) <= Cardinality(S) - 1
    BY <2>3, <2>4, FS_Injection
  <2>6. Cardinality(1 .. Len(s)) = Len(s)
    <3>1. Len(s) \in Int /\ 1 \in Int
      BY <2>1
    <3>2. Cardinality(1 .. Len(s)) = IF 1 > Len(s) THEN 0 ELSE Len(s) - 1 + 1
      BY <3>1, FS_Interval, Zenon
    <3> QED BY <3>2, <2>1
  <2>7. ~(Len(s) >= n)
    BY <2>1, <2>4, <2>5, <2>6
  <2>8. AddKey(s, x, n) = us
    BY <1>2, <2>7 DEF AddKey, Insert
  <2> HIDE DEF us
  <2>9. Unique(us)
    BY <2>1, <2>2 DEF Unique
  <2>10. ToSet(us) = ToSet(s) \cup {x}
    BY <2>1 DEF ToSet
  <2> QED BY <2>1, <2>8, <2>9, <2>10
<1> QED BY <1>1, <1>2

-----------------------------------------------------------------------------
(* The constants.                                                          *)

LEMMA TokensFit ==
  ASSUME SeenFits
  PROVE  IsFiniteSet(Tokens) /\ Cardinality(Tokens) <= SentCapacity
<1> DEFINE pair == [t \in Tokens |-> <<t.msg, t.status>>]
           pairs == Messages \X Statuses
<1>1. pair \in Injection(Tokens, pairs)
  <2>1. pair \in [Tokens -> pairs]
    BY DEF Tokens
  <2>2. \A a, b \in Tokens : pair[a] = pair[b] => a = b
    BY DEF Tokens
  <2> QED BY <2>1, <2>2 DEF Injection, IsInjective
<1>2. IsFiniteSet(Statuses) /\ Cardinality(Statuses) = 4
  <2>1. Statuses = 1 .. 4
    BY DEF Statuses, DELIVERED, DISPLAYED, FAILED, DISMISSED
  <2>2. 1 \in Int /\ 4 \in Int
    OBVIOUS
  <2>3. IsFiniteSet(1 .. 4) /\ Cardinality(1 .. 4) = IF 1 > 4 THEN 0 ELSE 4 - 1 + 1
    BY <2>2, FS_Interval, Zenon
  <2> QED BY <2>1, <2>3
<1>3. IsFiniteSet(Messages) /\ Cardinality(Messages) \in Nat
  BY FS_CardinalityType, ConstantsAssumption
<1>4. IsFiniteSet(pairs) /\ Cardinality(pairs) = Cardinality(Messages) * 4
  BY <1>2, <1>3, FS_Product
<1> HIDE DEF pair, pairs
<1>5. IsFiniteSet(Tokens) /\ Cardinality(Tokens) <= Cardinality(Messages) * 4
  BY <1>1, <1>4, FS_Injection
<1>6. Cardinality(Tokens) \in Nat
  BY <1>5, FS_CardinalityType
<1> QED BY <1>3, <1>5, <1>6, ConstantsAssumption DEF SeenFits, SentCapacity

LEMMA Capacities ==
  /\ MaxAttempts \in Nat \ {0} /\ SeenCapacity \in Nat \ {0} /\ SentCapacity \in Nat \ {0}
  /\ Counts => setup.capacity \in Nat \ {0}
  BY ConstantsAssumption DEF SentCapacity, Counts, Setup

LEMMA SeenGrows ==
  ASSUME SeenFits, SeenOK(seen, cursor), NEW m \in Messages
  PROVE  /\ SeenOK(AddKey(seen, m, SeenCapacity), cursor)
         /\ ToSet(AddKey(seen, m, SeenCapacity)) = ToSet(seen) \cup {m}
<1>1. IsFiniteSet(Messages) /\ Cardinality(Messages) <= SeenCapacity /\ SeenCapacity \in Nat
  BY ConstantsAssumption DEF SeenFits
<1>2. /\ AddKey(seen, m, SeenCapacity) \in Seq(Messages)
      /\ Unique(AddKey(seen, m, SeenCapacity))
      /\ ToSet(AddKey(seen, m, SeenCapacity)) = ToSet(seen) \cup {m}
  BY <1>1, AddKeyIs DEF SeenOK
<1> QED BY <1>2 DEF SeenOK

LEMMA KeysGrow ==
  ASSUME SeenFits, KeysOK(sentKeys), NEW t \in Tokens
  PROVE  /\ KeysOK(AddKey(sentKeys, t, SentCapacity))
         /\ ToSet(AddKey(sentKeys, t, SentCapacity)) = ToSet(sentKeys) \cup {t}
<1>1. SentCapacity \in Nat
  BY Capacities
<1> QED BY <1>1, TokensFit, AddKeyIs DEF KeysOK

LEMMA WaitGrows ==
  ASSUME NEW ob, NEW q, NEW sv, NEW keys, NEW more, WaitOK(ob, q, sv, keys),
         ToSet(keys) \subseteq ToSet(more)
  PROVE  WaitOK(ob, q, sv, more)
  BY DEF WaitOK, BoxOK

LEMMA EmptyBox ==
  /\ Toks(<<>>) = {} /\ Keyed(<<>>) /\ Trying(<<>>)
  /\ \A keys : BoxOK(<<>>, keys)
<1>1. Toks(<<>>) = {} /\ Keyed(<<>>) /\ Trying(<<>>)
  BY DEF Toks, Keyed, Trying
<1> QED BY <1>1 DEF BoxOK

LEMMA TokenIs ==
  ASSUME NEW tk \in Jobs, tk.msg \in Messages
  PROVE  Token(tk) \in Tokens /\ Report(Fresh(Token(tk))) /\ Fresh(Token(tk)).tok = Token(tk)
<1>1. Token(tk) \in Tokens
  BY DEF Token, Tokens, Jobs
<1> HIDE DEF Token
<1>2. /\ Fresh(Token(tk)).tok = Token(tk) /\ Fresh(Token(tk)).attempts = 0
      /\ Fresh(Token(tk)) \in Entry
  BY <1>1 DEF Fresh, Entry
<1> QED BY <1>1, <1>2, Capacities DEF Report

LEMMA IdleIs ==
  /\ Idle \in Jobs /\ Idle.at = "idle" /\ ~Idle.fresh
  /\ \A a \in Stages : [Idle EXCEPT !.at = a] \in Jobs
                         /\ [Idle EXCEPT !.at = a].at = a /\ ~[Idle EXCEPT !.at = a].fresh
  BY DEF Idle, Jobs, Stages, Statuses

-----------------------------------------------------------------------------
(* A step that has to do with the task and the seen set alone.             *)

reportsVars == <<queued, sentKeys, saved, pending, outbox, fate, repeats, discarded,
                 interrupted>>

LEMMA TurnStep ==
  ASSUME IInv, UNCHANGED <<reportsVars, disk, crashes, lostWrite, setup>>,
         clock' \in Nat, SeenOK(seen', cursor'),
         task' = task \/ {task.at, task'.at} \cap {"hand", "resend"} = {},
         JobOK(task', seen', queued, saved, outbox),
         presented' \in [Messages -> 0 .. 2],
         ~lostWrite => PresentedOK(presented', seen', task')
  PROVE  IInv'
<1>1. UNCHANGED <<queued, sentKeys, saved, pending, outbox, fate, repeats, discarded,
                  interrupted, disk, crashes, lostWrite, setup>>
  BY DEF reportsVars
<1>2. Counts' /\ Histories'
  BY <1>1 DEF IInv, Counts, Histories
<1>3. InHand(task') = InHand(task) /\ (task'.at = "resend" <=> task.at = "resend")
  BY DEF InHand
<1>4. WaitingToks' = WaitingToks /\ Safe' = Safe
  BY <1>1, <1>3 DEF WaitingToks, Safe
<1>5. HandOK(task', sentKeys, outbox)
  BY <1>3 DEF IInv, HandOK
<1>6. ASSUME ~lostWrite PROVE FatesOK'
  <2>1. HandUnsent(fate, task') /\ SavedUnsent(fate, saved, task', WaitingToks, crashes)
    BY <1>3, <1>6 DEF IInv, FatesOK, HandUnsent, SavedUnsent
  <2> QED BY <1>1, <1>4, <1>6, <2>1 DEF IInv, FatesOK
<1> QED BY <1>1, <1>2, <1>4, <1>5, <1>6 DEF IInv

(* deliverMessage: an id that is new was not presented.                    *)
LEMMA DeliverOK ==
  ASSUME IInv, SeenFits, NEW m \in Messages, NEW flush \in BOOLEAN, task.at = "idle",
         Deliver(m, flush)
  PROVE  /\ SeenOK(seen', cursor') /\ JobOK(task', seen', queued, saved, outbox)
         /\ task'.at = "cursor"
         /\ ~lostWrite => PresentedOK(presented, seen', task')
<1>1. /\ seen' = AddKey(seen, m, SeenCapacity) /\ cursor' = cursor
      /\ task' = [at |-> "cursor", msg |-> m, status |-> DELIVERED,
                  fresh |-> m \notin ToSet(seen), flush |-> flush]
  BY DEF Deliver
<1>2. /\ task' \in Jobs /\ task'.at = "cursor" /\ task'.msg = m
      /\ task'.fresh = (m \notin ToSet(seen))
  BY <1>1 DEF Jobs, Stages, Statuses
<1>3. SeenOK(seen', cursor') /\ ToSet(seen') = ToSet(seen) \cup {m}
  BY <1>1, SeenGrows DEF IInv
<1>4. JobOK(task', seen', queued, saved, outbox)
  BY <1>2, <1>3 DEF IInv, JobOK, Busy
<1>5. ASSUME ~lostWrite PROVE PresentedOK(presented, seen', task')
  <2>1. \A x \in Messages : presented[x] \in 0 .. 2 /\ presented[x] <= 1
                             /\ (presented[x] >= 1 => x \in ToSet(seen))
    BY <1>5 DEF IInv, FatesOK, Histories, PresentedOK
  <2>2. m \notin ToSet(seen) => presented[m] = 0
    BY <2>1
  <2> QED BY <1>2, <1>3, <2>1, <2>2 DEF PresentedOK
<1> QED BY <1>2, <1>3, <1>4, <1>5

LEMMA MessageStep == ASSUME IInv, SeenFits, NEW m \in Messages, OnMessage(m) PROVE IInv'
<1>1. /\ UNCHANGED <<reportsVars, disk, crashes, lostWrite, setup, clock, presented>>
      /\ task.at = "idle" /\ Deliver(m, FALSE)
  BY DEF OnMessage, Deliver, reportsVars, processVars, histVars
<1>2. /\ SeenOK(seen', cursor') /\ JobOK(task', seen', queued, saved, outbox)
      /\ task'.at = "cursor" /\ (~lostWrite => PresentedOK(presented, seen', task'))
  BY <1>1, DeliverOK
<1>3. clock' \in Nat /\ presented' \in [Messages -> 0 .. 2]
  BY <1>1 DEF IInv, Counts, Histories
<1> QED BY <1>1, <1>2, <1>3, TurnStep

(* A task that takes up nothing new.                                       *)
LEMMA PlainStep ==
  ASSUME IInv, UNCHANGED <<reportsVars, disk, crashes, lostWrite, setup, seen, cursor, presented>>,
         clock' \in Nat, {task.at, task'.at} \cap {"hand", "resend"} = {},
         task' \in Jobs, task'.at \in Busy => task'.msg \in Messages,
         task'.at \notin {"cursor", "present"}, ~task'.fresh
  PROVE  IInv'
<1>1. JobOK(task', seen', queued, saved, outbox)
  BY DEF IInv, JobOK
<1>2. SeenOK(seen', cursor') /\ presented' \in [Messages -> 0 .. 2]
  BY DEF IInv, Histories
<1>3. ASSUME ~lostWrite PROVE PresentedOK(presented', seen', task')
  BY <1>3 DEF IInv, FatesOK, PresentedOK
<1> QED BY <1>1, <1>2, <1>3, TurnStep

LEMMA HelloAckStep == ASSUME IInv, SeenFits, OnHelloAck PROVE IInv'
<1>1. /\ UNCHANGED <<disk, crashes, lostWrite, setup, clock, presented, fate, repeats,
                     discarded, interrupted>>
      /\ task.at = "idle" /\ clock \in Nat
  BY DEF OnHelloAck, processVars, histVars, IInv, Counts
<1>2. CASE task' = [Idle EXCEPT !.at = "flush"] /\ UNCHANGED <<queued, storeVars, pending, outbox>>
  <2>1. UNCHANGED <<reportsVars, seen, cursor>>
    BY <1>1, <1>2 DEF reportsVars, storeVars
  <2>2. task' \in Jobs /\ task'.at = "flush" /\ ~task'.fresh
    BY <1>2, IdleIs DEF Stages
  <2>3. {task.at, task'.at} \cap {"hand", "resend"} = {} /\ task'.at \notin Busy
        /\ task'.at \notin {"cursor", "present"}
    BY <1>1, <2>2 DEF Busy
  <2> QED BY <1>1, <2>1, <2>2, <2>3, PlainStep
<1>3. ASSUME NEW m \in Messages, Deliver(m, TRUE) PROVE IInv'
  <2>1. UNCHANGED reportsVars
    BY <1>1, <1>3 DEF reportsVars, Deliver
  <2>2. /\ SeenOK(seen', cursor') /\ JobOK(task', seen', queued, saved, outbox)
        /\ task'.at = "cursor" /\ (~lostWrite => PresentedOK(presented, seen', task'))
    BY <1>1, <1>3, DeliverOK
  <2>3. presented' \in [Messages -> 0 .. 2]
    BY <1>1 DEF IInv, Histories
  <2> QED BY <1>1, <2>1, <2>2, <2>3, TurnStep
<1> QED BY <1>2, <1>3 DEF OnHelloAck

(* The cursor moves to a message that the seen set holds.                  *)
LEMMA CursorStep == ASSUME IInv, AdvanceLastSeen PROVE IInv'
<1>1. /\ UNCHANGED <<reportsVars, disk, crashes, lostWrite, setup, clock, presented, seen>>
      /\ task.at = "cursor" /\ task' = [task EXCEPT !.at = "issue"]
      /\ cursor' = cursor \/ cursor'.msg = task.msg
  BY DEF AdvanceLastSeen, reportsVars, processVars, histVars
<1>2. task \in Jobs /\ task.msg \in Messages /\ task.msg \in ToSet(seen)
  BY <1>1 DEF IInv, JobOK, Busy
<1>3. /\ task' \in Jobs /\ task'.at = "issue" /\ task'.msg = task.msg /\ task'.fresh = task.fresh
  BY <1>1, <1>2 DEF Jobs, Stages
<1>4. SeenOK(seen', cursor')
  BY <1>1, <1>2 DEF IInv, SeenOK
<1>5. JobOK(task', seen', queued, saved, outbox)
  BY <1>1, <1>2, <1>3 DEF IInv, JobOK, Busy
<1>6. ASSUME ~lostWrite PROVE PresentedOK(presented', seen', task')
  BY <1>1, <1>3, <1>6 DEF IInv, FatesOK, PresentedOK
<1>7. clock' \in Nat /\ presented' \in [Messages -> 0 .. 2]
  BY <1>1 DEF IInv, Counts, Histories
<1>8. {task.at, task'.at} \cap {"hand", "resend"} = {}
  BY <1>1, <1>3
<1> QED BY <1>1, <1>4, <1>5, <1>6, <1>7, <1>8, TurnStep

(* A task for a status: one that the host reports, or a FAILED one.        *)
LEMMA StatusStep ==
  ASSUME IInv, NEW m \in Messages, NEW s \in Statuses,
         ReportStatus(m, s) \/ (s = FAILED /\ OnPayloadDecodeFailure(m))
  PROVE  IInv'
<1>1. /\ task.at = "idle" /\ task' = [Idle EXCEPT !.at = "issue", !.msg = m, !.status = s]
      /\ UNCHANGED <<reportsVars, disk, crashes, lostWrite, setup, clock, seen, cursor, presented>>
  BY DEF ReportStatus, OnPayloadDecodeFailure, reportsVars, storeVars, processVars, histVars
<1>2. /\ task' \in Jobs /\ task'.at = "issue" /\ task'.msg = m /\ ~task'.fresh
  BY <1>1 DEF Idle, Jobs, Stages
<1>3. {task.at, task'.at} \cap {"hand", "resend"} = {} /\ task'.at \notin {"cursor", "present"}
  BY <1>1, <1>2
<1>4. clock' \in Nat
  BY <1>1 DEF IInv, Counts
<1> QED BY <1>1, <1>2, <1>3, <1>4, PlainStep

LEMMA PollStep == ASSUME IInv, PollRetry \/ PollRefused PROVE IInv'
<1>1. /\ task.at = "idle" /\ (task' = [Idle EXCEPT !.at = "flush"] \/ task' = task)
      /\ UNCHANGED <<reportsVars, disk, crashes, lostWrite, setup, clock, seen, cursor, presented>>
  BY DEF PollRetry, PollRefused, reportsVars, storeVars, processVars, histVars
<1>2. task \in Jobs /\ ~task.fresh
  BY <1>1 DEF IInv, JobOK, Busy
<1>3. task' \in Jobs /\ task'.at \in {"flush", "idle"} /\ ~task'.fresh
  BY <1>1, <1>2, IdleIs DEF Stages
<1>4. {task.at, task'.at} \cap {"hand", "resend"} = {} /\ task'.at \notin Busy
      /\ task'.at \notin {"cursor", "present"}
  BY <1>1, <1>3 DEF Busy
<1>5. clock' \in Nat
  BY <1>1 DEF IInv, Counts
<1> QED BY <1>1, <1>3, <1>4, <1>5, PlainStep

-----------------------------------------------------------------------------
(* report()                                                                *)

LEMMA AfterReportIs ==
  ASSUME task \in Jobs, AfterReport
  PROVE  /\ task' \in Jobs /\ task'.at \in {"present", "flush", "idle"}
         /\ task'.fresh <=> task'.at = "present"
         /\ task'.fresh => task.fresh /\ task'.msg = task.msg
<1>1. CASE task.fresh
  <2>1. task' = [task EXCEPT !.at = "present"]
    BY <1>1 DEF AfterReport
  <2> QED BY <1>1, <2>1 DEF Jobs, Stages
<1>2. CASE ~task.fresh
  <2>1. task' \in {[Idle EXCEPT !.at = "flush"], Idle}
    BY <1>2 DEF AfterReport
  <2>2. task' \in Jobs /\ ~task'.fresh /\ task'.at \in {"flush", "idle"}
    BY <2>1, IdleIs DEF Stages
  <2> QED BY <2>2
<1> QED BY <1>1, <1>2

(* Where the task goes then, whatever became of the report.                *)
LEMMA AfterReportOK ==
  ASSUME IInv, task.at \in {"issue", "hand"}, AfterReport, NEW sv
  PROVE  /\ JobOK(task', seen, <<>>, sv, sv) /\ InHand(task') = {}
         /\ task'.at \notin {"hand", "resend"}
         /\ PresentedOK(presented, seen, task) => PresentedOK(presented, seen, task')
<1>1. task \in Jobs /\ task.msg \in Messages
  BY DEF IInv, JobOK, Busy
<1>2. /\ task' \in Jobs /\ task'.at \in {"present", "flush", "idle"}
      /\ task'.fresh <=> task'.at = "present"
      /\ task'.fresh => task.fresh /\ task'.msg = task.msg
  BY <1>1, AfterReportIs
<1>3. JobOK(task', seen, <<>>, sv, sv)
  BY <1>1, <1>2 DEF JobOK, Busy
<1>4. PresentedOK(presented, seen, task) => PresentedOK(presented, seen, task')
  BY <1>2 DEF PresentedOK
<1> QED BY <1>2, <1>3, <1>4 DEF InHand

(* A key that is new has never been sent: the report is in hand.           *)
LEMMA IssueStep == ASSUME IInv, SeenFits, Issue PROVE IInv'
<1> DEFINE t == Token(task)
<1>1. /\ task.at = "issue"
      /\ UNCHANGED <<seen, cursor, saved, setup, clock, queued, outbox, disk, crashes, lostWrite,
                     fate, repeats, discarded, interrupted, presented>>
  BY DEF Issue, processVars, histVars
<1>2. /\ task \in Jobs /\ task.msg \in Messages /\ t \in Tokens
      /\ Report(Fresh(t)) /\ queued = <<>> /\ saved = outbox
  BY <1>1, TokenIs DEF IInv, JobOK, Busy
<1>3. CASE t \in ToSet(sentKeys)
  <2>1. AfterReport /\ UNCHANGED <<sentKeys, pending>>
    BY <1>3 DEF Issue
  <2>2. /\ JobOK(task', seen, <<>>, saved, saved) /\ task'.at \notin {"hand", "resend"}
        /\ (PresentedOK(presented, seen, task) => PresentedOK(presented, seen, task'))
    BY <1>1, <2>1, AfterReportOK
  <2>3. UNCHANGED reportsVars
    BY <1>1, <2>1 DEF reportsVars
  <2>4. JobOK(task', seen', queued, saved, outbox)
    BY <1>1, <1>2, <2>2
  <2>5. clock' \in Nat /\ presented' \in [Messages -> 0 .. 2] /\ SeenOK(seen', cursor')
    BY <1>1 DEF IInv, Counts, Histories
  <2>6. ~lostWrite => PresentedOK(presented', seen', task')
    BY <1>1, <2>2 DEF IInv, FatesOK
  <2>7. {task.at, task'.at} \cap {"hand", "resend"} = {}
    BY <1>1, <2>2
  <2> QED BY <1>1, <2>3, <2>4, <2>5, <2>6, <2>7, TurnStep
<1>4. CASE t \notin ToSet(sentKeys)
  <2>1. /\ sentKeys' = AddKey(sentKeys, t, SentCapacity)
        /\ pending' = PutEntry(pending, Fresh(t), SentCapacity)
        /\ task' = [task EXCEPT !.at = "hand"]
    BY <1>4 DEF Issue
  <2>2. /\ task' \in Jobs /\ task'.at = "hand" /\ task'.msg = task.msg
        /\ task'.status = task.status /\ task'.fresh = task.fresh
    BY <1>2, <2>1 DEF Jobs, Stages
  <2>3. InHand(task') = {t} /\ InHand(task) = {}
    BY <1>1, <2>2 DEF InHand, Token
  <2> HIDE DEF t
  <2>4. KeysOK(sentKeys') /\ ToSet(sentKeys') = ToSet(sentKeys) \cup {t}
    BY <1>2, <2>1, KeysGrow DEF IInv
  <2>5. Trying(pending')
    BY <1>2, <2>1, PutEntryIs, Capacities DEF IInv
  <2>6. JobOK(task', seen', queued', saved', outbox')
    BY <1>1, <1>2, <2>2 DEF JobOK, Busy, IInv
  <2>7. WaitOK(outbox', queued', saved', sentKeys')
    BY <1>1, <2>4, WaitGrows DEF IInv
  <2>8. HandOK(task', sentKeys', outbox')
    BY <1>1, <1>4, <2>3, <2>4 DEF HandOK, IInv, WaitOK, BoxOK
  <2>9. WaitingToks' = WaitingToks /\ Safe' = Safe \cup {t}
    BY <1>1, <2>3 DEF WaitingToks, Safe
  <2>10. ASSUME ~lostWrite PROVE FatesOK'
    <3>1. fate[t] = "unsent"
      BY <1>2, <1>4, <2>10 DEF IInv, FatesOK, Fated
    <3>2. Fated(fate, sentKeys') /\ HandUnsent(fate, task') /\ Kept(fate, sentKeys', Safe')
      BY <2>3, <2>4, <2>9, <2>10, <3>1 DEF IInv, FatesOK, Fated, HandUnsent, Kept
    <3>3. SavedUnsent(fate, saved, task', WaitingToks, crashes)
      BY <1>1, <2>10 DEF IInv, FatesOK, SavedUnsent
    <3>4. PresentedOK(presented, seen, task')
      BY <2>2, <2>10 DEF IInv, FatesOK, PresentedOK
    <3> QED BY <1>1, <2>9, <2>10, <3>2, <3>3, <3>4 DEF IInv, FatesOK
  <2>11. Counts' /\ Histories' /\ SeenOK(seen', cursor') /\ DiskOK(disk')
    BY <1>1 DEF IInv, Counts, Histories
  <2> QED BY <1>1, <2>4, <2>5, <2>6, <2>7, <2>8, <2>10, <2>11 DEF IInv
<1> QED BY <1>3, <1>4

LEMMA SentIs ==
  ASSUME NEW t \in Tokens, fate \in [Tokens -> Fates], Sent(t)
  PROVE  /\ fate' \in [Tokens -> Fates] /\ fate'[t] = "unanswered"
         /\ \A x \in Tokens : x # t => fate'[x] = fate[x]
         /\ fate[t] \in {"unsent", "rejected"} => repeats' = repeats
         /\ fate[t] = "lost" => \A r \in repeats' : r \in repeats \/ r.after = "lost"
  BY DEF Sent, Fates

(* A report in hand, sent for the first time.                              *)
LEMMA ToSocketStep == ASSUME IInv, HandToSocket PROVE IInv'
<1> DEFINE t == Token(task)
<1>1. /\ task.at = "hand" /\ Sent(t) /\ AfterReport
      /\ UNCHANGED <<setup, clock, queued, seen, cursor, sentKeys, saved, pending, outbox, disk,
                     crashes, lostWrite, discarded, interrupted, presented>>
  BY DEF HandToSocket, storeVars, processVars
<1>2. /\ task \in Jobs /\ task.msg \in Messages /\ t \in Tokens
      /\ queued = <<>> /\ saved = outbox /\ InHand(task) = {t}
      /\ t \in ToSet(sentKeys) /\ t \notin Toks(outbox) /\ fate \in [Tokens -> Fates]
  BY <1>1, TokenIs DEF IInv, JobOK, Busy, InHand, HandOK, Histories
<1>3. /\ fate' \in [Tokens -> Fates] /\ fate'[t] = "unanswered"
      /\ \A x \in Tokens : x # t => fate'[x] = fate[x]
      /\ fate[t] \in {"unsent", "rejected"} => repeats' = repeats
  BY <1>1, <1>2, SentIs
<1>4. /\ JobOK(task', seen, <<>>, saved, saved) /\ InHand(task') = {}
      /\ task'.at \notin {"hand", "resend"}
      /\ (PresentedOK(presented, seen, task) => PresentedOK(presented, seen, task'))
  BY <1>1, AfterReportOK
<1> HIDE DEF t
<1>5. WaitingToks' = WaitingToks /\ Safe \subseteq Safe' \cup {t}
  BY <1>1, <1>2, <1>4 DEF WaitingToks, Safe
<1>6. ASSUME ~lostWrite PROVE FatesOK'
  <2>1. fate[t] = "unsent"
    BY <1>2, <1>6 DEF IInv, FatesOK, HandUnsent
  <2>2. RepeatsOK(repeats', crashes')
    BY <1>1, <1>3, <1>6, <2>1 DEF IInv, FatesOK
  <2>3. Fated(fate', sentKeys')
    BY <1>1, <1>2, <1>3, <1>6 DEF IInv, FatesOK, Fated
  <2>4. HandUnsent(fate', task')
    BY <1>4 DEF HandUnsent
  <2>5. SavedUnsent(fate', saved', task', WaitingToks', crashes')
    <3>1. \A x \in Toks(saved) : x # t /\ x \in Tokens
      BY <1>2, ToksType DEF IInv, WaitOK, BoxOK
    <3> QED BY <1>1, <1>3, <1>6, <3>1 DEF IInv, FatesOK, SavedUnsent
  <2>6. Kept(fate', sentKeys', Safe')
    <3>1. \A x \in ToSet(sentKeys) : x \in Tokens
      BY DEF IInv, KeysOK, ToSet
    <3> QED BY <1>1, <1>3, <1>5, <1>6, <3>1 DEF IInv, FatesOK, Kept
  <2> QED BY <1>1, <1>4, <1>6, <2>2, <2>3, <2>4, <2>5, <2>6 DEF IInv, FatesOK
<1>7. JobOK(task', seen', queued', saved', outbox') /\ HandOK(task', sentKeys', outbox')
  BY <1>1, <1>2, <1>4 DEF HandOK
<1>8. Counts' /\ Histories'
  BY <1>1, <1>3 DEF IInv, Counts, Histories
<1> QED BY <1>1, <1>6, <1>7, <1>8 DEF IInv

(* An enqueued report is in the outbox, and what is dropped is on record.  *)
LEMMA EnqueueIs ==
  ASSUME Counts, NEW s, NEW e, Trying(s), Keyed(s), Report(e), e.tok \notin Toks(s), Enqueue(s, e)
  PROVE  /\ saved' = outbox' /\ Trying(outbox') /\ Keyed(outbox')
         /\ Toks(outbox') \subseteq Toks(s) \cup {e.tok} /\ e.tok \in Toks(outbox')
         /\ Toks(s) \subseteq Toks(outbox') \cup discarded'
         /\ discarded \subseteq discarded'
<1>1. /\ outbox' = Insert(s, e, setup.capacity) /\ saved' = outbox'
      /\ discarded' = IF Len(s) >= setup.capacity
                      THEN discarded \cup {Head(s).tok} ELSE discarded
  BY DEF Enqueue
<1>2. setup.capacity \in Nat \ {0}
  BY Capacities
<1>3. /\ Trying(outbox') /\ Toks(outbox') \subseteq Toks(s) \cup {e.tok}
      /\ e.tok \in Toks(outbox') /\ Keyed(outbox')
      /\ Toks(s) \subseteq Toks(outbox')
                     \cup (IF Len(s) >= setup.capacity THEN {Head(s).tok} ELSE {})
  BY <1>1, <1>2, InsertIs
<1> QED BY <1>1, <1>3

(* A report in hand that waits.                                            *)
LEMMA ToOutboxStep == ASSUME IInv, HandToOutbox PROVE IInv'
<1> DEFINE t == Token(task)
<1>1. /\ task.at = "hand" /\ Enqueue(outbox, Fresh(t)) /\ AfterReport
      /\ UNCHANGED <<setup, clock, queued, seen, cursor, sentKeys, pending, disk,
                     crashes, lostWrite, fate, repeats, interrupted, presented>>
  BY DEF HandToOutbox, processVars
<1>2. /\ task \in Jobs /\ task.msg \in Messages /\ t \in Tokens
      /\ Report(Fresh(t)) /\ Fresh(t).tok = t
      /\ queued = <<>> /\ saved = outbox /\ InHand(task) = {t}
      /\ t \in ToSet(sentKeys) /\ t \notin Toks(outbox)
  BY <1>1, TokenIs DEF IInv, JobOK, Busy, InHand, HandOK
<1>3. BoxOK(outbox, sentKeys)
  BY DEF IInv, WaitOK
<1>4. /\ saved' = outbox' /\ Trying(outbox') /\ Keyed(outbox')
      /\ Toks(outbox') \subseteq Toks(outbox) \cup {t} /\ t \in Toks(outbox')
      /\ Toks(outbox) \subseteq Toks(outbox') \cup discarded'
      /\ discarded \subseteq discarded'
  BY <1>1, <1>2, <1>3, EnqueueIs DEF IInv, BoxOK
<1>5. /\ JobOK(task', seen, <<>>, saved', saved') /\ InHand(task') = {}
      /\ task'.at \notin {"hand", "resend"}
      /\ (PresentedOK(presented, seen, task) => PresentedOK(presented, seen, task'))
  BY <1>1, AfterReportOK
<1> HIDE DEF t
<1>6. WaitOK(outbox', queued', saved', sentKeys')
  BY <1>1, <1>2, <1>3, <1>4, EmptyBox DEF WaitOK, BoxOK
<1>7. Safe \subseteq Safe' /\ WaitingToks' = Toks(outbox') /\ WaitingToks = Toks(outbox)
  BY <1>1, <1>2, <1>4, EmptyBox DEF WaitingToks, Safe
<1>8. ASSUME ~lostWrite PROVE FatesOK'
  <2>1. fate[t] = "unsent"
    BY <1>2, <1>8 DEF IInv, FatesOK, HandUnsent
  <2>2. SavedUnsent(fate, saved', task', WaitingToks', crashes)
    BY <1>1, <1>2, <1>4, <1>8, <2>1 DEF IInv, FatesOK, SavedUnsent
  <2>3. HandUnsent(fate, task') /\ Kept(fate, sentKeys, Safe')
    BY <1>5, <1>7, <1>8 DEF HandUnsent, IInv, FatesOK, Kept
  <2> QED BY <1>1, <1>5, <1>8, <2>2, <2>3 DEF IInv, FatesOK
<1>9. JobOK(task', seen', queued', saved', outbox') /\ HandOK(task', sentKeys', outbox')
  BY <1>1, <1>2, <1>4, <1>5 DEF HandOK
<1>10. Counts' /\ Histories'
  BY <1>1 DEF IInv, Counts, Histories
<1> QED BY <1>1, <1>6, <1>8, <1>9, <1>10 DEF IInv

(* A presentation, of a message that was not presented.                    *)
LEMMA PresentStep == ASSUME IInv, PresentMessage PROVE IInv'
<1>1. /\ task.at = "present" /\ Present(task.msg)
      /\ UNCHANGED <<reportsVars, disk, crashes, lostWrite, setup, clock, seen, cursor>>
  BY DEF PresentMessage, reportsVars, storeVars, processVars
<1>2. task \in Jobs /\ task.msg \in Messages /\ task.fresh
  BY <1>1 DEF IInv, JobOK, Busy
<1>3. /\ task' \in Jobs /\ task'.at \in {"issue", "flush", "idle"} /\ ~task'.fresh
      /\ task'.at = "issue" => task'.msg = task.msg
  <2>1. CASE task' = [task EXCEPT !.at = "issue", !.status = DISPLAYED, !.fresh = FALSE]
    BY <1>2, <2>1 DEF Jobs, Stages, Statuses
  <2>2. CASE task' \in {[Idle EXCEPT !.at = "flush"], Idle}
    <3>1. task' \in Jobs /\ task'.at \in {"flush", "idle"} /\ ~task'.fresh
      BY <2>2, IdleIs DEF Stages
    <3> QED BY <3>1
  <2> QED BY <2>1, <2>2 DEF PresentMessage
<1>4. /\ presented' \in [Messages -> 0 .. 2]
      /\ \A m \in Messages : m # task.msg => presented'[m] = presented[m]
      /\ presented[task.msg] = 0 => presented'[task.msg] = 1
  BY <1>1, <1>2 DEF Present, IInv, Histories
<1>5. JobOK(task', seen', queued, saved, outbox)
  BY <1>1, <1>2, <1>3 DEF IInv, JobOK, Busy
<1>6. ASSUME ~lostWrite PROVE PresentedOK(presented', seen', task')
  <2>1. PresentedOK(presented, seen, task)
    BY <1>6 DEF IInv, FatesOK
  <2>2. presented[task.msg] = 0 /\ task.msg \in ToSet(seen)
    BY <1>2, <2>1 DEF PresentedOK
  <2> QED BY <1>1, <1>3, <1>4, <2>1, <2>2 DEF PresentedOK
<1>7. clock' \in Nat /\ SeenOK(seen', cursor')
  BY <1>1 DEF IInv, Counts
<1>8. {task.at, task'.at} \cap {"hand", "resend"} = {}
  BY <1>1, <1>3
<1> QED BY <1>1, <1>4, <1>5, <1>6, <1>7, <1>8, TurnStep

-----------------------------------------------------------------------------
(* resend()                                                                *)

(* A step of resend().                                                     *)
LEMMA ResendingStep ==
  ASSUME IInv, UNCHANGED <<setup, clock, seen, cursor, sentKeys, disk, crashes, lostWrite,
                           interrupted, presented>>,
         task.at \in {"flush", "resend"}, task'.at \in {"resend", "idle"},
         task' \in Jobs, ~task'.fresh, Trying(pending'), fate' \in [Tokens -> Fates],
         WaitOK(outbox', queued', saved', sentKeys),
         task'.at = "idle" => queued' = <<>> /\ saved' = outbox',
         ~lostWrite => /\ Fated(fate', sentKeys)
                       /\ SavedUnsent(fate', saved', task', WaitingToks', crashes)
                       /\ Kept(fate', sentKeys, WaitingToks' \cup discarded' \cup interrupted)
                       /\ RepeatsOK(repeats', crashes)
  PROVE  IInv'
<1>1. InHand(task') = {}
  BY DEF InHand
<1>2. JobOK(task', seen, queued', saved', outbox')
  BY DEF JobOK, Busy
<1>3. HandOK(task', sentKeys, outbox')
  BY <1>1 DEF HandOK
<1>4. ASSUME ~lostWrite PROVE FatesOK'
  <2>1. HandUnsent(fate', task')
    BY <1>1 DEF HandUnsent
  <2>2. PresentedOK(presented, seen, task')
    BY <1>4 DEF IInv, FatesOK, PresentedOK
  <2>3. Kept(fate', sentKeys, Safe')
    BY <1>4 DEF Kept, Safe
  <2> QED BY <1>4, <2>1, <2>2, <2>3 DEF FatesOK
<1>5. Counts' /\ Histories'
  BY DEF IInv, Counts, Histories
<1> QED BY <1>2, <1>3, <1>4, <1>5 DEF IInv

(* Outside of a report nothing is in hand.                                 *)
LEMMA NothingInHand ==
  ASSUME IInv, task.at # "hand"
  PROVE  Safe = WaitingToks \cup discarded \cup interrupted
  BY DEF Safe, InHand

LEMMA StartResendStep == ASSUME IInv, StartResend PROVE IInv'
<1>1. /\ task.at = "flush" /\ queued' = outbox /\ outbox' = <<>>
      /\ task' = [Idle EXCEPT !.at = "resend"]
      /\ UNCHANGED <<setup, clock, seen, cursor, sentKeys, saved, pending, disk, crashes, lostWrite,
                     fate, repeats, discarded, interrupted, presented>>
  BY DEF StartResend, storeVars, processVars, histVars
<1>2. task' \in Jobs /\ task'.at = "resend" /\ ~task'.fresh
  BY <1>1, IdleIs DEF Stages
<1>3. queued = <<>> /\ saved = outbox
  BY <1>1 DEF IInv, JobOK
<1>4. WaitOK(outbox', queued', saved', sentKeys) /\ WaitingToks' = WaitingToks
  BY <1>1, <1>3, EmptyBox DEF IInv, WaitOK, WaitingToks
<1>5. ASSUME ~lostWrite
      PROVE  /\ SavedUnsent(fate, saved, task', WaitingToks, crashes)
             /\ Kept(fate, sentKeys, WaitingToks \cup discarded \cup interrupted)
  BY <1>1, <1>2, <1>5, NothingInHand DEF IInv, FatesOK, SavedUnsent
<1>6. Trying(pending') /\ fate' \in [Tokens -> Fates]
  BY <1>1 DEF IInv, Histories
<1>7. ~lostWrite => Fated(fate, sentKeys) /\ RepeatsOK(repeats, crashes)
  BY DEF IInv, FatesOK
<1> QED BY <1>1, <1>2, <1>4, <1>5, <1>6, <1>7, ResendingStep

LEMMA ResendDoneStep == ASSUME IInv, ResendDone PROVE IInv'
<1>1. /\ task.at = "resend" /\ queued = <<>> /\ saved' = outbox /\ task' = Idle
      /\ UNCHANGED <<setup, clock, seen, cursor, sentKeys, queued, outbox, pending, disk, crashes,
                     lostWrite, fate, repeats, discarded, interrupted, presented>>
  BY DEF ResendDone, processVars, histVars
<1>2. task' \in Jobs /\ task'.at = "idle" /\ ~task'.fresh
  BY <1>1, IdleIs
<1>3. Toks(outbox) \subseteq WaitingToks /\ WaitingToks' = WaitingToks
      /\ WaitingToks \subseteq Toks(saved) /\ Toks(outbox) = WaitingToks
  BY <1>1, EmptyBox DEF WaitingToks, IInv, WaitOK
<1>4. WaitOK(outbox', queued', saved', sentKeys)
  BY <1>1, EmptyBox DEF IInv, WaitOK
<1>5. ASSUME ~lostWrite
      PROVE  /\ SavedUnsent(fate, outbox, task', WaitingToks, crashes)
             /\ Kept(fate, sentKeys, WaitingToks \cup discarded \cup interrupted)
  BY <1>1, <1>3, <1>5, NothingInHand DEF IInv, FatesOK, SavedUnsent
<1>6. Trying(pending') /\ fate' \in [Tokens -> Fates]
  BY <1>1 DEF IInv, Histories
<1>7. ~lostWrite => Fated(fate, sentKeys) /\ RepeatsOK(repeats, crashes)
  BY DEF IInv, FatesOK
<1> QED BY <1>1, <1>2, <1>3, <1>4, <1>5, <1>6, <1>7, ResendingStep

(* One report of the snapshot is sent, kept or dropped; one that a process *)
(* death left unanswered is the only one that can be sent again.           *)
LEMMA ResendNextStep == ASSUME IInv, ResendNext PROVE IInv'
<1> DEFINE e == Head(queued)
           due == e.notBefore <= clock
           spent == e.attempts >= MaxAttempts
<1>1. /\ task.at = "resend" /\ queued # <<>> /\ queued' = Tail(queued) /\ task' = task
      /\ UNCHANGED <<setup, clock, seen, cursor, sentKeys, saved, disk, crashes, lostWrite,
                     interrupted, presented>>
  BY DEF ResendNext, storeVars, processVars
<1>2. \/ /\ Sent(e.tok) /\ outbox' = outbox /\ discarded' = discarded
         /\ pending' = PutEntry(pending, [e EXCEPT !.deferred = FALSE], SentCapacity)
      \/ /\ UNCHANGED <<pending, fate, repeats>>
         /\ \/ outbox' = outbox /\ discarded' = discarded \cup {e.tok}
            \/ outbox' = Append(outbox, e) /\ discarded' = discarded
  <2>1. PICK taken \in BOOLEAN :
          LET goes == due /\ ~spent /\ connected /\ taken
          IN  /\ outbox' = IF goes \/ (due /\ spent) THEN outbox ELSE Append(outbox, e)
              /\ discarded' = IF due /\ spent THEN discarded \cup {e.tok} ELSE discarded
              /\ IF goes
                 THEN /\ Sent(e.tok)
                      /\ pending' = PutEntry(pending, [e EXCEPT !.deferred = FALSE],
                                             SentCapacity)
                 ELSE UNCHANGED <<pending, fate, repeats>>
    BY DEF ResendNext
  <2> HIDE DEF due, spent, e
  <2> QED BY <2>1
<1> HIDE DEF due, spent
<1>3. /\ BoxOK(outbox, sentKeys) /\ BoxOK(queued, sentKeys) /\ BoxOK(saved, sentKeys)
      /\ Toks(outbox) \cap Toks(queued) = {} /\ WaitingToks \subseteq Toks(saved)
  BY DEF IInv, WaitOK, WaitingToks
<1>4. /\ Trying(queued') /\ Report(e) /\ Toks(queued) = Toks(queued') \cup {e.tok}
      /\ Keyed(queued') /\ e.tok \notin Toks(queued')
  BY <1>1, <1>3, TailIs DEF BoxOK
<1> HIDE DEF e
<1>5. /\ e.tok \in Tokens /\ e.tok \in ToSet(sentKeys) /\ e.tok \notin Toks(outbox)
      /\ e.tok \in WaitingToks /\ e.tok \in Toks(saved)
  BY <1>3, <1>4, ToksType DEF BoxOK, WaitingToks
<1>6. BoxOK(queued', sentKeys)
  BY <1>3, <1>4 DEF BoxOK
<1>7. task' \in Jobs /\ ~task'.fresh /\ task'.at = "resend"
  BY <1>1 DEF IInv, JobOK, Busy
<1>8. ASSUME ~lostWrite
      PROVE  /\ Fated(fate, sentKeys) /\ SavedUnsent(fate, saved, task, WaitingToks, crashes)
             /\ Kept(fate, sentKeys, WaitingToks \cup discarded \cup interrupted)
             /\ RepeatsOK(repeats, crashes)
  BY <1>1, <1>8, NothingInHand DEF IInv, FatesOK
<1>a. Trying(pending) /\ fate \in [Tokens -> Fates]
  BY DEF IInv, Histories
<1>9. CASE Sent(e.tok) /\ outbox' = outbox /\ discarded' = discarded
           /\ pending' = PutEntry(pending, [e EXCEPT !.deferred = FALSE], SentCapacity)
  <2>1. Report([e EXCEPT !.deferred = FALSE])
    BY <1>4 DEF Report, Entry
  <2>2. Trying(pending')
    BY <1>9, <1>a, <2>1, PutEntryIs, Capacities
  <2>3. /\ fate' \in [Tokens -> Fates] /\ fate'[e.tok] = "unanswered"
        /\ \A x \in Tokens : x # e.tok => fate'[x] = fate[x]
        /\ fate[e.tok] \in {"unsent", "rejected"} => repeats' = repeats
        /\ fate[e.tok] = "lost" => \A r \in repeats' : r \in repeats \/ r.after = "lost"
    BY <1>5, <1>9, <1>a, SentIs
  <2>4. WaitOK(outbox', queued', saved', sentKeys) /\ WaitingToks' = WaitingToks \ {e.tok}
    BY <1>1, <1>3, <1>4, <1>5, <1>6, <1>9 DEF WaitOK, WaitingToks
  <2>5. ASSUME ~lostWrite
        PROVE  /\ Fated(fate', sentKeys)
               /\ SavedUnsent(fate', saved', task', WaitingToks', crashes)
               /\ Kept(fate', sentKeys, WaitingToks' \cup discarded' \cup interrupted)
               /\ RepeatsOK(repeats', crashes)
    <3>1. fate[e.tok] \in {"unsent", "rejected"} \/ (fate[e.tok] = "lost" /\ crashes > 0)
      BY <1>5, <1>8, <2>5 DEF SavedUnsent
    <3>2. RepeatsOK(repeats', crashes)
      BY <1>8, <2>3, <2>5, <3>1 DEF RepeatsOK
    <3>3. Fated(fate', sentKeys)
      BY <1>5, <1>8, <2>3, <2>5 DEF Fated
    <3>4. Toks(saved) \subseteq Tokens /\ ToSet(sentKeys) \subseteq Tokens
      BY <1>3, ToksType DEF BoxOK, IInv, KeysOK, ToSet
    <3>5. SavedUnsent(fate', saved', task', WaitingToks', crashes)
      BY <1>1, <1>8, <2>3, <2>4, <2>5, <3>4 DEF SavedUnsent
    <3>6. Kept(fate', sentKeys, WaitingToks' \cup discarded' \cup interrupted)
      BY <1>8, <1>9, <2>3, <2>4, <2>5, <3>4 DEF Kept
    <3> QED BY <3>2, <3>3, <3>5, <3>6
  <2> QED BY <1>1, <1>7, <2>2, <2>3, <2>4, <2>5, ResendingStep
<1>10. CASE UNCHANGED <<pending, fate, repeats>> /\ outbox' = outbox
            /\ discarded' = discarded \cup {e.tok}
  <2>1. WaitOK(outbox', queued', saved', sentKeys) /\ WaitingToks' = WaitingToks \ {e.tok}
    BY <1>1, <1>3, <1>4, <1>5, <1>6, <1>10 DEF WaitOK, WaitingToks
  <2>2. ASSUME ~lostWrite
        PROVE  /\ SavedUnsent(fate, saved, task, WaitingToks', crashes)
               /\ Kept(fate, sentKeys, WaitingToks' \cup discarded' \cup interrupted)
    BY <1>8, <1>10, <2>1, <2>2 DEF SavedUnsent, Kept
  <2> QED BY <1>1, <1>7, <1>8, <1>10, <1>a, <2>1, <2>2, ResendingStep
<1>11. CASE UNCHANGED <<pending, fate, repeats>> /\ outbox' = Append(outbox, e)
            /\ discarded' = discarded
  <2>1. /\ Trying(outbox') /\ Toks(outbox') = Toks(outbox) \cup {e.tok} /\ Keyed(outbox')
    BY <1>3, <1>4, <1>5, <1>11, AppendIs DEF BoxOK
  <2>2. BoxOK(outbox', sentKeys)
    BY <1>3, <1>5, <2>1 DEF BoxOK
  <2>3. WaitOK(outbox', queued', saved', sentKeys) /\ WaitingToks' = WaitingToks
    BY <1>1, <1>3, <1>4, <1>5, <1>6, <2>1, <2>2 DEF WaitOK, WaitingToks
  <2> QED BY <1>1, <1>7, <1>8, <1>11, <1>a, <2>3, ResendingStep
<1> QED BY <1>2, <1>9, <1>10, <1>11

-----------------------------------------------------------------------------
(* onAck                                                                   *)

(* What an answer does to the outbox and the record of answers.            *)
LEMMA AnsweredStep ==
  ASSUME IInv, NEW t \in Tokens, NEW verdict \in {"accepted", "rejected", "refused"},
         AckStep(t, verdict), saved' = outbox', Trying(pending'),
         Trying(outbox'), Keyed(outbox'),
         Toks(outbox') \subseteq Toks(outbox) \cup (IF verdict = "rejected" THEN {t} ELSE {}),
         Toks(outbox) \ {t} \subseteq Toks(outbox') \cup discarded', discarded \subseteq discarded',
         verdict = "rejected" => t \in Toks(outbox') /\ t \in ToSet(sentKeys)
  PROVE  IInv'
<1>1. /\ task.at = "idle" /\ fate[t] = "unanswered" /\ fate' = [fate EXCEPT ![t] = verdict]
      /\ UNCHANGED <<setup, clock, task, queued, seen, cursor, sentKeys, disk, crashes, lostWrite,
                     repeats, interrupted, presented>>
  BY DEF AckStep, processVars
<1>2. queued = <<>> /\ saved = outbox /\ BoxOK(outbox, sentKeys) /\ InHand(task) = {}
  BY <1>1 DEF IInv, JobOK, WaitOK, InHand
<1>3. /\ fate' \in [Tokens -> Fates] /\ fate'[t] = verdict
      /\ \A x \in Tokens : x # t => fate'[x] = fate[x]
  BY <1>1 DEF IInv, Histories, Fates
<1>4. WaitOK(outbox', queued', saved', sentKeys')
  BY <1>1, <1>2, EmptyBox DEF WaitOK, BoxOK
<1>5. WaitingToks' = Toks(outbox') /\ WaitingToks = Toks(outbox)
  BY <1>1, <1>2, EmptyBox DEF WaitingToks
<1>6. ASSUME ~lostWrite PROVE FatesOK'
  <2>1. /\ Fated(fate, sentKeys) /\ SavedUnsent(fate, saved, task, WaitingToks, crashes)
        /\ Kept(fate, sentKeys, Safe)
    BY <1>6 DEF IInv, FatesOK
  <2>2. t \notin Toks(outbox)
    BY <1>1, <1>2, <2>1 DEF SavedUnsent
  <2>3. Toks(outbox') \subseteq Tokens /\ ToSet(sentKeys) \subseteq Tokens
    BY ToksType DEF IInv, KeysOK, ToSet
  <2>4. Fated(fate', sentKeys)
    BY <1>1, <1>3, <2>1 DEF Fated
  <2>5. SavedUnsent(fate', saved', task', WaitingToks', crashes)
    <3>1. ASSUME NEW x \in Toks(outbox'), x # t
          PROVE  fate'[x] \in {"unsent", "rejected"} \/ (fate'[x] = "lost" /\ crashes > 0)
      <4>1. x \in Toks(outbox) /\ x \in Tokens /\ fate'[x] = fate[x]
        BY <1>3, <2>3, <3>1
      <4> QED BY <1>1, <1>2, <2>1, <4>1 DEF SavedUnsent
    <3>2. t \in Toks(outbox') => fate'[t] = "rejected"
      BY <1>3, <2>2
    <3> QED BY <3>1, <3>2 DEF SavedUnsent
  <2>6. Kept(fate', sentKeys, Safe')
    <3>1. ASSUME NEW x \in ToSet(sentKeys), x # t, fate'[x] \in {"unsent", "rejected"}
          PROVE  x \in Safe'
      <4>1. x \in Safe
        BY <1>3, <2>1, <2>3, <3>1 DEF Kept
      <4> QED BY <1>1, <1>2, <1>5, <3>1, <4>1 DEF Safe
    <3>2. fate'[t] = "rejected" => t \in Safe'
      BY <1>3, <1>5 DEF Safe
    <3>3. fate'[t] # "unsent"
      BY <1>3
    <3> QED BY <3>1, <3>2, <3>3 DEF Kept
  <2>7. HandUnsent(fate', task')
    BY <1>1, <1>2 DEF HandUnsent
  <2> QED BY <1>1, <1>6, <2>4, <2>5, <2>6, <2>7 DEF IInv, FatesOK
<1>7. JobOK(task', seen', queued', saved', outbox') /\ HandOK(task', sentKeys', outbox')
  BY <1>1, <1>2 DEF IInv, JobOK, HandOK
<1>8. Counts' /\ Histories'
  BY <1>1, <1>3 DEF IInv, Counts, Histories
<1> QED BY <1>1, <1>4, <1>6, <1>7, <1>8 DEF IInv

(* The outbox while no task is at work.                                    *)
LEMMA IdleOutbox ==
  ASSUME IInv, task.at = "idle"
  PROVE  saved = outbox /\ Trying(outbox) /\ Keyed(outbox) /\ Trying(pending) /\ Counts
  BY DEF IInv, JobOK, WaitOK, BoxOK

LEMMA UpsertOK ==
  ASSUME IInv, task.at = "idle", NEW e, Report(e), Upsert(e)
  PROVE  /\ saved' = outbox' /\ Trying(pending') /\ Trying(outbox') /\ Keyed(outbox')
         /\ Toks(outbox') \subseteq Toks(outbox) \cup {e.tok} /\ e.tok \in Toks(outbox')
         /\ Toks(outbox) \ {e.tok} \subseteq Toks(outbox') \cup discarded'
         /\ discarded \subseteq discarded'
<1> DEFINE s == RemoveToken(outbox, e.tok)
<1>1. Trying(s) /\ Keyed(s) /\ Toks(s) = Toks(outbox) \ {e.tok}
  BY IdleOutbox, RemoveTokenIs
<1>2. Enqueue(s, e) /\ pending' = PutEntry(pending, e, SentCapacity)
  BY DEF Upsert
<1> HIDE DEF s
<1>3. /\ saved' = outbox' /\ Trying(outbox') /\ Keyed(outbox')
      /\ Toks(outbox') \subseteq Toks(s) \cup {e.tok} /\ e.tok \in Toks(outbox')
      /\ Toks(s) \subseteq Toks(outbox') \cup discarded' /\ discarded \subseteq discarded'
  BY <1>1, <1>2, IdleOutbox, EnqueueIs
<1>4. Trying(pending')
  BY <1>2, IdleOutbox, PutEntryIs, Capacities
<1> QED BY <1>1, <1>3, <1>4

LEMMA ResolveIs ==
  ASSUME IInv, task.at = "idle", NEW t, Live(t)
  PROVE  Report(Resolve(t)) /\ Resolve(t).tok = t
<1>1. CASE Holds(outbox, t)
  BY <1>1, IdleOutbox, IndexOfIs, TryingAt DEF Resolve
<1>2. CASE ~Holds(outbox, t)
  BY <1>2, IdleOutbox, IndexOfIs, TryingAt DEF Resolve, Live
<1> QED BY <1>1, <1>2

LEMMA ForgetOK ==
  ASSUME IInv, task.at = "idle", NEW t, Forget(t)
  PROVE  /\ saved' = outbox' /\ Trying(pending') /\ Trying(outbox') /\ Keyed(outbox')
         /\ Toks(outbox') = Toks(outbox) \ {t} /\ discarded' = discarded
<1>1. /\ Trying(outbox') /\ Keyed(outbox') /\ Toks(outbox') = Toks(outbox) \ {t}
      /\ pending' = pending /\ discarded' = discarded
  BY IdleOutbox, RemoveTokenIs DEF Forget
<1>2. saved' = outbox'
  BY IdleOutbox DEF Forget, RemoveToken
<1> QED BY <1>1, <1>2, IdleOutbox

LEMMA AckedStep == ASSUME IInv, NEW t \in Tokens, OnAck(t) PROVE IInv'
<1>1. task.at = "idle"
  BY DEF OnAck, AckAccepted, AckRateLimited, AckUpstreamFailed, AckUnsupported, AckOtherError,
         AckStep
(* The report leaves, or nothing changes.                                  *)
<1>2. ASSUME NEW verdict \in {"accepted", "refused"}, AckStep(t, verdict),
             Forget(t) \/ UNCHANGED <<outbox, saved, pending, discarded>>
      PROVE  IInv'
  <2>1. /\ saved' = outbox' /\ Trying(pending') /\ Trying(outbox') /\ Keyed(outbox')
        /\ Toks(outbox') \subseteq Toks(outbox) /\ Toks(outbox) \ {t} \subseteq Toks(outbox')
        /\ discarded' = discarded
    BY <1>1, <1>2, ForgetOK, IdleOutbox
  <2>2. verdict \in {"accepted", "rejected", "refused"} /\ verdict # "rejected"
    BY <1>2
  <2> QED BY <1>2, <2>1, <2>2, AnsweredStep
(* The report waits for another turn.                                      *)
<1>3. ASSUME NEW e, Report(e), e.tok = t, Known(t), AckStep(t, "rejected"), Upsert(e)
      PROVE  IInv'
  <2>1. /\ saved' = outbox' /\ Trying(pending') /\ Trying(outbox') /\ Keyed(outbox')
        /\ Toks(outbox') \subseteq Toks(outbox) \cup {t} /\ t \in Toks(outbox')
        /\ Toks(outbox) \ {t} \subseteq Toks(outbox') \cup discarded'
        /\ discarded \subseteq discarded'
    BY <1>1, <1>3, UpsertOK
  <2>2. t \in ToSet(sentKeys)
    BY <1>3 DEF Known
  <2> QED BY <1>3, <2>1, <2>2, AnsweredStep
<1>4. CASE AckAccepted(t) BY <1>2, <1>4 DEF AckAccepted
<1>5. CASE AckUnsupported(t) BY <1>2, <1>5 DEF AckUnsupported
<1>6. CASE AckOtherError(t) BY <1>2, <1>6 DEF AckOtherError
<1>7. CASE AckRateLimited(t)
  <2>1. PICK delay \in Deferrals :
          /\ Known(t) /\ Live(t) /\ AckStep(t, "rejected")
          /\ Upsert([Resolve(t) EXCEPT !.notBefore = clock + delay, !.deferred = TRUE])
    BY <1>7 DEF AckRateLimited
  <2> DEFINE n == clock + delay
             e == [Resolve(t) EXCEPT !.notBefore = n, !.deferred = TRUE]
  <2>2. n \in Nat
    BY ConstantsAssumption DEF IInv, Counts
  <2>3. Resolve(t) \in Entry /\ Resolve(t).tok = t /\ Resolve(t).attempts < MaxAttempts
    BY <1>1, <2>1, ResolveIs DEF Report
  <2> HIDE DEF n
  <2>4. Report(e) /\ e.tok = t
    BY <2>2, <2>3 DEF Report, Entry
  <2>5. Upsert(e)
    BY <2>1 DEF n
  <2> HIDE DEF e
  <2> QED BY <1>3, <2>1, <2>4, <2>5
<1>8. CASE AckUpstreamFailed(t)
  <2> DEFINE n == Resolve(t).attempts + 1
             e == [Resolve(t) EXCEPT !.attempts = n]
  <2>1. Known(t) /\ Live(t)
    BY <1>8 DEF AckUpstreamFailed
  <2>2. Resolve(t) \in Entry /\ Resolve(t).tok = t
    BY <1>1, <2>1, ResolveIs DEF Report
  <2>3. n \in Nat
    BY <2>2 DEF Entry
  <2>4. CASE n < MaxAttempts /\ AckStep(t, "rejected") /\ Upsert(e)
    <3> HIDE DEF n
    <3>1. Report(e) /\ e.tok = t
      BY <2>2, <2>3, <2>4 DEF Report, Entry
    <3> HIDE DEF e
    <3> QED BY <1>3, <2>1, <2>4, <3>1
  <2>5. CASE AckStep(t, "refused") /\ Forget(t)
    BY <1>2, <2>5
  <2> QED BY <1>8, <2>4, <2>5 DEF AckUpstreamFailed
<1> QED BY <1>4, <1>5, <1>6, <1>7, <1>8 DEF OnAck

-----------------------------------------------------------------------------
(* The connection, the FCM thread, the file, the process and the clock.    *)

LEMMA LostIs ==
  ASSUME fate \in [Tokens -> Fates], LoseUnanswered
  PROVE  /\ fate' \in [Tokens -> Fates]
         /\ \A t \in Tokens : fate'[t] = IF fate[t] = "unanswered" THEN "lost" ELSE fate[t]
  BY DEF LoseUnanswered, Fates

LEMMA DisconnectStep == ASSUME IInv, Disconnect PROVE IInv'
<1>1. /\ task.at = "idle" /\ LoseUnanswered
      /\ UNCHANGED <<setup, clock, task, queued, seen, cursor, sentKeys, saved, pending, outbox,
                     disk, crashes, lostWrite, repeats, discarded, interrupted, presented>>
  BY DEF Disconnect, storeVars, processVars
<1>2. /\ fate' \in [Tokens -> Fates]
      /\ \A t \in Tokens : fate'[t] = IF fate[t] = "unanswered" THEN "lost" ELSE fate[t]
  BY <1>1, LostIs DEF IInv, Histories
<1>3. WaitingToks' = WaitingToks /\ Safe' = Safe
  BY <1>1 DEF WaitingToks, Safe
<1>4. ASSUME ~lostWrite PROVE FatesOK'
  <2>1. Toks(saved) \subseteq Tokens /\ ToSet(sentKeys) \subseteq Tokens
    BY ToksType DEF IInv, WaitOK, BoxOK, KeysOK, ToSet
  <2>2. Fated(fate', sentKeys)
    BY <1>2, <1>4 DEF IInv, FatesOK, Fated
  <2>3. HandUnsent(fate', task)
    BY <1>1 DEF HandUnsent, InHand
  <2>4. SavedUnsent(fate', saved, task, WaitingToks, crashes)
    BY <1>1, <1>2, <1>4, <2>1 DEF IInv, FatesOK, SavedUnsent
  <2>5. Kept(fate', sentKeys, Safe)
    BY <1>2, <1>4, <2>1 DEF IInv, FatesOK, Kept
  <2> QED BY <1>1, <1>3, <1>4, <2>2, <2>3, <2>4, <2>5 DEF IInv, FatesOK
<1>5. Counts' /\ Histories'
  BY <1>1, <1>2 DEF IInv, Counts, Histories
<1> QED BY <1>1, <1>4, <1>5 DEF IInv

(* The FCM thread presents what neither channel has seen, whatever the     *)
(* scheduler's task has got to.                                            *)
LEMMA FcmStep == ASSUME IInv, SeenFits, NEW m \in Messages, FcmMessage(m) PROVE IInv'
<1>1. /\ seen' = AddKey(seen, m, SeenCapacity)
      /\ IF m \in ToSet(seen) THEN UNCHANGED presented ELSE Present(m)
      /\ UNCHANGED <<reportsVars, disk, crashes, lostWrite, setup, clock, cursor, task>>
  BY DEF FcmMessage, reportsVars, processVars
<1>2. SeenOK(seen', cursor') /\ ToSet(seen') = ToSet(seen) \cup {m}
  BY <1>1, SeenGrows DEF IInv
<1>3. JobOK(task', seen', queued, saved, outbox)
  BY <1>1, <1>2 DEF IInv, JobOK
<1>4. /\ presented' \in [Messages -> 0 .. 2]
      /\ \A x \in Messages : x # m \/ m \in ToSet(seen) => presented'[x] = presented[x]
      /\ m \notin ToSet(seen) /\ presented[m] = 0 => presented'[m] = 1
  BY <1>1 DEF Present, IInv, Histories
<1>5. ASSUME ~lostWrite PROVE PresentedOK(presented', seen', task')
  <2>1. PresentedOK(presented, seen, task) /\ presented[m] \in 0 .. 2
    BY <1>5 DEF IInv, FatesOK, Histories
  <2>2. m \notin ToSet(seen) => presented[m] = 0
    BY <2>1 DEF PresentedOK
  <2> QED BY <1>1, <1>2, <1>4, <2>1, <2>2 DEF PresentedOK
<1>6. clock' \in Nat
  BY <1>1 DEF IInv, Counts
<1> QED BY <1>1, <1>2, <1>3, <1>4, <1>5, <1>6, TurnStep

LEMMA TickStep == ASSUME IInv, Tick PROVE IInv'
<1>1. /\ UNCHANGED <<reportsVars, disk, crashes, lostWrite, setup, seen, cursor, task, presented>>
      /\ clock' \in Nat
  BY DEF Tick, reportsVars, storeVars, processVars, histVars, IInv, Counts
<1>2. SeenOK(seen', cursor') /\ JobOK(task', seen', queued, saved, outbox)
      /\ presented' \in [Messages -> 0 .. 2]
      /\ (~lostWrite => PresentedOK(presented', seen', task'))
  BY <1>1 DEF IInv, Histories, FatesOK
<1> QED BY <1>1, <1>2, TurnStep

LEMMA PrefsIs ==
  /\ Prefs.seen = seen /\ Prefs.cursor = cursor
  /\ Prefs.sentKeys = sentKeys /\ Prefs.outbox = saved
  BY DEF Prefs

LEMMA WriteBackStep == ASSUME IInv, WriteBack PROVE IInv'
<1>1. /\ disk' = Prefs
      /\ UNCHANGED <<setup, clock, task, queued, seen, cursor, sentKeys, saved, pending, outbox,
                     crashes, lostWrite, fate, repeats, discarded, interrupted, presented>>
  BY DEF WriteBack, storeVars, histVars
<1>2. DiskOK(Prefs)
  BY PrefsIs DEF DiskOK, IInv, WaitOK
<1>3. Counts' /\ Histories' /\ WaitingToks' = WaitingToks /\ Safe' = Safe
  BY <1>1 DEF IInv, Counts, Histories, WaitingToks, Safe
<1>4. ~lostWrite => FatesOK'
  BY <1>1, <1>3 DEF IInv, FatesOK
<1> QED BY <1>1, <1>2, <1>3, <1>4 DEF IInv

(* A process that dies with every write on file has lost nothing but what  *)
(* was in hand; what resend() had sent by then waits again.                *)
LEMMA CrashStep == ASSUME IInv, Crash PROVE IInv'
<1>1. /\ crashes' = crashes + 1 /\ lostWrite' = (lostWrite \/ disk # Prefs)
      /\ task' = Idle /\ queued' = <<>> /\ seen' = disk.seen /\ cursor' = disk.cursor
      /\ sentKeys' = disk.sentKeys /\ pending' = <<>>
      /\ outbox' = disk.outbox /\ saved' = disk.outbox /\ LoseUnanswered
      /\ interrupted' = IF task.at = "hand" THEN interrupted \cup {Token(task)} ELSE interrupted
      /\ UNCHANGED <<setup, clock, disk, repeats, discarded, presented>>
  BY DEF Crash, LoadedSeen, LoadedSentKeys, LoadedOutbox
<1>2. /\ fate' \in [Tokens -> Fates]
      /\ \A t \in Tokens : fate'[t] = IF fate[t] = "unanswered" THEN "lost" ELSE fate[t]
  BY <1>1, LostIs DEF IInv, Histories
<1>3. /\ SeenOK(seen', cursor') /\ KeysOK(sentKeys') /\ BoxOK(outbox', sentKeys')
      /\ DiskOK(disk')
  BY <1>1 DEF IInv, DiskOK
<1>4. Trying(pending') /\ WaitOK(outbox', queued', saved', sentKeys')
  BY <1>1, <1>3, EmptyBox DEF WaitOK
<1>5. InHand(task') = {} /\ task' \in Jobs /\ task'.at = "idle" /\ ~task'.fresh
  BY <1>1, IdleIs DEF InHand
<1>6. JobOK(task', seen', queued', saved', outbox') /\ HandOK(task', sentKeys', outbox')
  BY <1>1, <1>5 DEF JobOK, HandOK, Busy
<1>7. crashes' \in Nat /\ crashes' > 0
  BY <1>1 DEF IInv, Counts
<1>8. Counts' /\ Histories'
  BY <1>1, <1>2, <1>7 DEF IInv, Counts, Histories
<1>9. ASSUME ~lostWrite' PROVE FatesOK'
  <2>1. /\ ~lostWrite /\ seen' = seen /\ sentKeys' = sentKeys /\ outbox' = saved /\ saved' = saved
    BY <1>1, <1>9, PrefsIs
  <2>2. /\ Fated(fate, sentKeys) /\ SavedUnsent(fate, saved, task, WaitingToks, crashes)
        /\ Kept(fate, sentKeys, Safe) /\ RepeatsOK(repeats, crashes)
        /\ PresentedOK(presented, seen, task)
    BY <2>1 DEF IInv, FatesOK
  <2>3. Toks(saved) \subseteq Tokens /\ ToSet(sentKeys) \subseteq Tokens
    BY ToksType DEF IInv, WaitOK, BoxOK, KeysOK, ToSet
  <2>4. Fated(fate', sentKeys')
    BY <1>2, <2>1, <2>2 DEF Fated
  <2>5. HandUnsent(fate', task')
    BY <1>5 DEF HandUnsent
  <2>6. SavedUnsent(fate', saved', task', WaitingToks', crashes')
    BY <1>2, <1>7, <2>1, <2>2, <2>3 DEF SavedUnsent
  <2>7. Safe \subseteq Safe'
    <3>1. InHand(task) \subseteq interrupted'
      BY <1>1 DEF InHand
    <3>2. WaitingToks \subseteq Toks(outbox')
      BY <2>1 DEF IInv, WaitOK, WaitingToks
    <3> QED BY <1>1, <3>1, <3>2 DEF Safe, WaitingToks
  <2>8. Kept(fate', sentKeys', Safe')
    BY <1>2, <2>1, <2>2, <2>3, <2>7 DEF Kept
  <2>9. RepeatsOK(repeats', crashes')
    BY <1>1, <1>7, <2>2 DEF RepeatsOK
  <2>10. PresentedOK(presented', seen', task')
    BY <1>1, <1>5, <2>1, <2>2 DEF PresentedOK
  <2> QED BY <2>4, <2>5, <2>6, <2>8, <2>9, <2>10 DEF FatesOK
<1> QED BY <1>3, <1>4, <1>6, <1>8, <1>9 DEF IInv

-----------------------------------------------------------------------------
LEMMA Initially == Init => IInv
<1> SUFFICES ASSUME Init PROVE IInv
  OBVIOUS
<1>1. /\ setup \in Setup /\ clock = 0 /\ task = Idle /\ queued = <<>> /\ seen = <<>>
      /\ cursor.msg = NoMessage /\ sentKeys = <<>> /\ pending = <<>> /\ outbox = <<>>
      /\ saved = <<>> /\ disk = Prefs /\ crashes = 0 /\ lostWrite = FALSE
      /\ fate = [t \in Tokens |-> "unsent"] /\ repeats = {}
      /\ presented = [m \in Messages |-> 0]
  BY ConstantsAssumption DEF Init
<1>2. Counts /\ Histories
  <2>1. Counts
    BY <1>1 DEF Counts
  <2>2. fate \in [Tokens -> Fates]
    BY <1>1, Zenon DEF Fates
  <2>3. 0 \in 0 .. 2
    OBVIOUS
  <2>4. presented \in [Messages -> 0 .. 2]
    BY <1>1, <2>3, Zenon
  <2> QED BY <2>1, <2>2, <2>4 DEF Histories
<1>3. SeenOK(seen, cursor) /\ KeysOK(sentKeys)
  BY <1>1 DEF SeenOK, KeysOK, Unique
<1>4. Trying(pending) /\ WaitOK(outbox, queued, saved, sentKeys)
  BY <1>1, EmptyBox DEF WaitOK
<1>5. DiskOK(disk)
  BY <1>1, <1>3, <1>4, PrefsIs DEF DiskOK, WaitOK
<1>6. task \in Jobs /\ task.at = "idle" /\ ~task.fresh /\ InHand(task) = {}
  BY <1>1, IdleIs DEF InHand
<1>7. JobOK(task, seen, queued, saved, outbox) /\ HandOK(task, sentKeys, outbox)
  BY <1>1, <1>6 DEF JobOK, HandOK, Busy
<1>8. FatesOK
  <2>1. ToSet(sentKeys) = {} /\ Toks(saved) = {}
    BY <1>1, EmptyBox DEF ToSet
  <2> QED BY <1>1, <1>6, <2>1
       DEF FatesOK, Fated, HandUnsent, SavedUnsent, Kept, RepeatsOK, PresentedOK
<1> QED BY <1>2, <1>3, <1>4, <1>5, <1>7, <1>8 DEF IInv

LEMMA Stuttering == IInv /\ UNCHANGED vars => IInv'
<1> SUFFICES ASSUME IInv, UNCHANGED vars PROVE IInv'
  OBVIOUS
<1>1. UNCHANGED <<setup, clock, task, queued, seen, cursor, sentKeys, saved, pending, outbox,
                  disk, crashes, lostWrite, fate, repeats, discarded, interrupted, presented>>
  BY DEF vars, storeVars, processVars, histVars
<1>2. Counts' /\ Histories' /\ WaitingToks' = WaitingToks /\ Safe' = Safe
  BY <1>1 DEF IInv, Counts, Histories, WaitingToks, Safe
<1>3. ~lostWrite => FatesOK'
  BY <1>1, <1>2 DEF IInv, FatesOK
<1> QED BY <1>1, <1>2, <1>3 DEF IInv

LEMMA NextStep == ASSUME SeenFits, IInv, Next PROVE IInv'
<1>1. CASE TaskStep
  BY <1>1, CursorStep, IssueStep, ToSocketStep, ToOutboxStep, PresentStep, StartResendStep,
     ResendNextStep, ResendDoneStep DEF TaskStep
<1>2. CASE OnHelloAck BY <1>2, HelloAckStep
<1>3. CASE PollRefused \/ PollRetry BY <1>3, PollStep
<1>4. CASE Disconnect BY <1>4, DisconnectStep
<1>5. CASE WriteBack BY <1>5, WriteBackStep
<1>6. CASE Crash BY <1>6, CrashStep
<1>7. CASE Tick BY <1>7, TickStep
<1>8. CASE \E m \in Messages : OnMessage(m) BY <1>8, MessageStep
<1>9. CASE \E m \in setup.undecodable : OnPayloadDecodeFailure(m)
  <2>1. PICK m \in Messages : OnPayloadDecodeFailure(m)
    BY <1>9 DEF IInv, Counts, Setup
  <2>2. FAILED \in Statuses
    BY DEF Statuses
  <2> QED BY <2>1, <2>2, StatusStep
<1>10. CASE \E m \in FcmMessages : FcmMessage(m)
  BY <1>10, FcmStep, ConstantsAssumption
<1>11. CASE \E m \in Messages, s \in setup.hostStatuses : ReportStatus(m, s)
  <2>1. PICK m \in Messages, s \in Statuses : ReportStatus(m, s)
    BY <1>11 DEF IInv, Counts, Setup, Statuses
  <2> QED BY <2>1, StatusStep
<1>12. CASE \E t \in Tokens : OnAck(t) BY <1>12, AckedStep
<1> QED BY <1>1, <1>2, <1>3, <1>4, <1>5, <1>6, <1>7, <1>8, <1>9, <1>10, <1>11, <1>12 DEF Next

(* IInv holds in every state, for a seen set that holds every message.     *)
THEOREM Inductive == ASSUME SeenFits PROVE Spec => []IInv
<1>1. Init => IInv
  BY Initially
<1>2. IInv /\ [Next]_vars => IInv'
  BY NextStep, Stuttering
<1> QED BY <1>1, <1>2, PTL DEF Spec

-----------------------------------------------------------------------------
LEMMA WaitingIs ==
  ASSUME NEW e \in Waiting
  PROVE  \/ \E i \in DOMAIN outbox : e = outbox[i]
         \/ \E i \in DOMAIN queued : e = queued[i]
  BY DEF Waiting, ToSet

LEMMA ToksWait == ASSUME NEW t \in WaitingToks PROVE \E e \in Waiting : e.tok = t
  BY DEF WaitingToks, Toks, Waiting, ToSet

(* Two lists that share no token are one list without a token twice.       *)
LEMMA KeyedTogether ==
  ASSUME NEW a, NEW b, Trying(a), Trying(b), Keyed(a), Keyed(b), Toks(a) \cap Toks(b) = {}
  PROVE  Keyed(a \o b)
<1> DEFINE s == a \o b
<1>1. a \in Seq(Entry) /\ b \in Seq(Entry)
  BY DEF Trying
<1>2. /\ Len(a) \in Nat /\ Len(b) \in Nat /\ Len(s) = Len(a) + Len(b) /\ DOMAIN s = 1 .. Len(s)
      /\ DOMAIN a = 1 .. Len(a) /\ DOMAIN b = 1 .. Len(b)
      /\ \A i \in 1 .. Len(a) + Len(b) :
           s[i] = IF i <= Len(a) THEN a[i] ELSE b[i - Len(a)]
  BY <1>1, ConcatProperties
<1> HIDE DEF s
<1>3. ASSUME NEW i \in DOMAIN s
      PROVE  \/ i \in DOMAIN a /\ s[i] = a[i]
             \/ i - Len(a) \in DOMAIN b /\ s[i] = b[i - Len(a)]
  BY <1>2, <1>3
<1>4. ASSUME NEW i \in DOMAIN s, NEW j \in DOMAIN s, s[i].tok = s[j].tok
      PROVE  i = j
  <2>1. i \in Nat /\ j \in Nat
    BY <1>2
  <2>2. CASE i \in DOMAIN a /\ s[i] = a[i] /\ j \in DOMAIN a /\ s[j] = a[j]
    BY <1>4, <2>2 DEF Keyed
  <2>3. CASE i - Len(a) \in DOMAIN b /\ s[i] = b[i - Len(a)]
             /\ j - Len(a) \in DOMAIN b /\ s[j] = b[j - Len(a)]
    <3>1. i - Len(a) = j - Len(a)
      BY <1>4, <2>3 DEF Keyed
    <3> QED BY <1>2, <2>1, <3>1
  <2>4. \A x \in DOMAIN a, y \in DOMAIN b : a[x].tok # b[y].tok
    BY DEF Toks
  <2> QED BY <1>3, <1>4, <2>2, <2>3, <2>4
<1> QED BY <1>4 DEF Keyed, s

(* What waits in the outbox, or in the walk of resend(), waits once, under *)
(* a key of the sent-set and within its attempts, and has not been sent or *)
(* was rejected: over any number of connections, deferrals and evictions.  *)
THEOREM ApartCorrect == ASSUME SeenFits PROVE Spec => []QueueAndWireApart
<1>1. IInv => QueueAndWireApart
  <2> SUFFICES ASSUME IInv PROVE QueueAndWireApart
    OBVIOUS
  <2>1. /\ BoxOK(outbox, sentKeys) /\ BoxOK(queued, sentKeys)
        /\ Toks(outbox) \cap Toks(queued) = {} /\ WaitingToks \subseteq Toks(saved)
    BY DEF IInv, WaitOK, WaitingToks
  <2>2. Keyed(outbox \o queued)
    BY <2>1, KeyedTogether DEF BoxOK
  <2>3. ASSUME NEW e \in Waiting
        PROVE  /\ e.tok \in ToSet(sentKeys) /\ e.attempts < MaxAttempts
               /\ e.tok \in WaitingToks
    BY <2>1, <2>3, WaitingIs DEF BoxOK, Trying, Toks, WaitingToks
  <2>4. ASSUME NEW e \in Waiting, ~(crashes > 0)
        PROVE  fate[e.tok] \in {"unsent", "rejected"}
    <3>1. ~lostWrite
      BY <2>4 DEF IInv, Counts
    <3>2. SavedUnsent(fate, saved, task, WaitingToks, crashes)
      BY <3>1 DEF IInv, FatesOK
    <3> QED BY <2>1, <2>3, <2>4, <3>2 DEF SavedUnsent
  <2> QED BY <2>2, <2>3, <2>4 DEF QueueAndWireApart
<1>2. Spec => []IInv
  BY Inductive
<1> QED BY <1>1, <1>2, PTL

(* A report that was issued and not sent, or was rejected, still waits,    *)
(* was dropped on record, or was in hand when the process died; as long as *)
(* no process died before a write reached the file.                        *)
THEOREM VanishCorrect == ASSUME SeenFits PROVE Spec => []NothingVanishes
<1>1. IInv => NothingVanishes
  <2> SUFFICES ASSUME IInv, ~lostWrite, NEW t \in ToSet(sentKeys),
                      fate[t] \in {"unsent", "rejected"}
               PROVE  \/ \E e \in Waiting : e.tok = t
                      \/ t \in discarded \cup interrupted
                      \/ task.at = "hand" /\ Token(task) = t
    BY DEF NothingVanishes
  <2>1. t \in Safe
    BY DEF IInv, FatesOK, Kept
  <2> QED BY <2>1, ToksWait DEF Safe, InHand
<1>2. Spec => []IInv
  BY Inductive
<1> QED BY <1>1, <1>2, PTL

(* A frame that nothing asked for goes out only for a report that a dead   *)
(* process had left unanswered.                                            *)
THEOREM RepeatCorrect == ASSUME SeenFits PROVE Spec => []OnlyCrashesRepeat
<1>1. IInv => OnlyCrashesRepeat
  BY DEF IInv, FatesOK, RepeatsOK, OnlyCrashesRepeat
<1>2. Spec => []IInv
  BY Inductive
<1> QED BY <1>1, <1>2, PTL

(* A message is presented once over the socket and FCM together, however   *)
(* the two threads interleave.                                             *)
THEOREM PresentedCorrect == ASSUME SeenFits PROVE Spec => []PresentedOnce
<1>1. IInv => PresentedOnce
  BY DEF IInv, FatesOK, PresentedOK, PresentedOnce
<1>2. Spec => []IInv
  BY Inductive
<1> QED BY <1>1, <1>2, PTL

(* The replay cursor, in memory and on file, names a message that the seen *)
(* set next to it holds.                                                   *)
THEOREM CursorCorrect == ASSUME SeenFits PROVE Spec => []CursorBehindSeen
<1>1. IInv => CursorBehindSeen
  BY DEF IInv, SeenOK, DiskOK, CursorBehindSeen
<1>2. Spec => []IInv
  BY Inductive
<1> QED BY <1>1, <1>2, PTL
=============================================================================
