------------------------- MODULE ReportUploadProofs -------------------------
(***************************************************************************)
(* The two flushers of the report outbox, for any pushes, users, bounds    *)
(* and number of process deaths: nothing leaves the outbox that was not    *)
(* answered, too old, pushed out or its user's (NothingLost), a second     *)
(* report is always explained (DuplicatesExplained), and the mirrored      *)
(* credential follows the stored one (MirrorFollows).                      *)
(*                                                                         *)
(* The parts of the invariant are operators on the values they relate, so  *)
(* that a step that leaves those alone leaves the part alone.              *)
(***************************************************************************)
EXTENDS ReportUpload, FiniteSetTheorems, SequenceTheorems, TLAPS

Sessions == [user : Users \cup {"none"}, serial : Nat]
Entry    == [key : Pushes, at : Nat]
Leases   == [owner : Flushers \cup {"none"}, until : Nat]
Made     == {"none", "refused", "taken", "repeated"}
Fcms ==
  [pc : {"idle", "super", "load", "claim", "post", "release"},
   push : Pushes \cup {NoPush}, queued : BOOLEAN, pending : Seq(Pushes),
   session : Sessions, deadline : Nat]
Sending  == {"token", "post", "retoken", "sleep", "remove"}
Jss ==
  [pc : {"off", "idle", "outbox", "settled"} \cup Sending, pending : Seq(Pushes),
   token : Sessions, failures : Nat, refreshed : BOOLEAN, rerun : BOOLEAN]
Ops ==
  [user : Users \cup {"none"},
   pc : {"idle", "drop", "mint", "mirror", "subscribe", "clear", "unmirror", "delete"}]

TypesOK ==
  /\ clock \in Nat /\ events \in Nat
  /\ entries \in Seq(Entry) /\ lease \in [Pushes -> Leases]
  /\ handled \subseteq Pushes /\ seen \subseteq Pushes
  /\ fcm \in Fcms /\ js \in Jss
  /\ token \in Sessions /\ mirror \in Sessions /\ op \in Ops
  /\ server \in [Pushes -> Made] /\ repeatable \subseteq Pushes

(* Who is about to send the report of p, and who has just sent it.         *)
AtNative(p, f) == f.pc = "post" /\ p \in ToSet(f.pending)
AtJs(p, k)     == k.pc \in Sending /\ p \in ToSet(k.pending)
Sent(p, k)     == k.pc = "remove" /\ p \in ToSet(Batch(k.pending))

Once(s) == \A i, j \in DOMAIN s : s[i] = s[j] => i = j

(* The outbox holds a key once, and remembers each one it holds.           *)
BoxOK(es, h) ==
  /\ Len(es) <= Capacity
  /\ \A i, j \in DOMAIN es : es[i].key = es[j].key => i = j
  /\ Keys(es) \subseteq h

(* What a flusher was handed was queued once, and is not queued again; a   *)
(* native request ends by the deadline.                                    *)
HandedOK(f, k, h, c) ==
  /\ Once(f.pending) /\ Once(k.pending)
  /\ \A p \in Pushes : AtNative(p, f) \/ AtJs(p, k) => p \in h
  /\ f.pc = "post" => c <= f.deadline

(* A report about to be sent that is still queued is leased, the native    *)
(* one for longer than the request; both flushers have it only once JS has *)
(* outlived its lease.                                                     *)
NativeLeased(es, l, f) ==
  \A p \in Pushes : AtNative(p, f) =>
    \/ p \notin Keys(es)
    \/ l[p].owner = "native" /\ f.deadline < l[p].until

JsLeased(es, l, k, again) ==
  \A p \in Pushes : AtJs(p, k) /\ p \notin again =>
    p \notin Keys(es) \/ l[p].owner = "js"

HeldApart(f, k, again) ==
  \A p \in Pushes : AtNative(p, f) /\ AtJs(p, k) => p \in again

(* What the server took is not sent again, except where that is explained: *)
(* no flusher has it to send, and the outbox knows it or the device has    *)
(* seen it, so that it is not queued again.                                *)
TakenOK(es, f, k, h, s, srv, again) ==
  \A p \in Pushes : p \notin again /\ srv[p] = "taken" =>
    /\ p \notin Keys(es) \/ Sent(p, k)
    /\ ~AtNative(p, f)
    /\ AtJs(p, k) => Sent(p, k)
    /\ p \in h \cup s

(* What was queued is seen, now or once super.handleIntent returns.        *)
SeenOK(f, h, s, again) ==
  /\ \A p \in h : p \in again \cup s \/ (f.pc = "super" /\ f.push = p)
  /\ f.pc = "super" => f.push \in Pushes /\ f.push \in h \cup s

(* The entries that are about to be removed were answered.                 *)
SentOK(k, srv) == \A p \in Pushes : Sent(p, k) => srv[p] # "none"

Follows(t, m, e) == m = t \/ e = "mirror" \/ (e = "delete" /\ m = NoToken)

(* The launch has nothing more to write.                                   *)
LaunchOver(t, w) ==
  \/ w = "done"
  \/ w = "stored" /\ t = NoToken
  \/ w = "blank" /\ t # NoToken

(* The mirror between the steps of the identity calls.                     *)
MirrorOK(pc, on, t, m, w, e) ==
  /\ on /\ pc \in {"idle", "drop", "mint", "clear"} /\ LaunchOver(t, w) => Follows(t, m, e)
  /\ pc = "subscribe" => Follows(t, m, e)
  /\ pc = "delete" => m = NoToken \/ e = "mirror"

OutboxOK ==
  /\ BoxOK(entries, handled)
  /\ HandedOK(fcm, js, handled, clock)
  /\ NativeLeased(entries, lease, fcm)
  /\ JsLeased(entries, lease, js, repeatable)
  /\ HeldApart(fcm, js, repeatable)
  /\ TakenOK(entries, fcm, js, handled, seen, server, repeatable)
  /\ SeenOK(fcm, handled, seen, repeatable)
  /\ SentOK(js, server)

IdentityOK == MirrorOK(op.pc, js.pc # "off", token, mirror, launch, failed)

IInv == TypesOK /\ OutboxOK /\ IdentityOK

-----------------------------------------------------------------------------
(* Lists.                                                                  *)

(* Pick places the elements at the positions in K one to one.              *)
LEMMA PickPlaces ==
  ASSUME NEW n \in Nat, NEW K \in SUBSET (1 .. n)
  PROVE  LET at == [m \in 1 .. Cardinality(K) |->
                      CHOOSE i \in K : Cardinality({j \in K : j <= i}) = m]
         IN  /\ Cardinality(K) \in Nat /\ Cardinality(K) <= n
             /\ \A m \in 1 .. Cardinality(K) : at[m] \in K
             /\ \A m, l \in 1 .. Cardinality(K) : at[m] = at[l] => m = l
             /\ \A i \in K : \E m \in 1 .. Cardinality(K) : at[m] = i
<1> DEFINE N == Cardinality(K)
           rank == [i \in K |-> Cardinality({j \in K : j <= i})]
<1>1. IsFiniteSet(1 .. n) /\ Cardinality(1 .. n) = n
  <2>1. 1 \in Int /\ n \in Int
    OBVIOUS
  <2> QED BY <2>1, FS_Interval
<1>2. IsFiniteSet(K) /\ N <= n /\ N \in Nat
  BY <1>1, FS_Subset, FS_CardinalityType
<1>a. K \subseteq Nat
  OBVIOUS
<1>3. ASSUME NEW i \in K
      PROVE  /\ IsFiniteSet({j \in K : j <= i}) /\ rank[i] \in Nat /\ rank[i] <= N
             /\ rank[i] # 0
  <2>1. {j \in K : j <= i} \in SUBSET K
    OBVIOUS
  <2>2. IsFiniteSet({j \in K : j <= i}) /\ Cardinality({j \in K : j <= i}) <= N
        /\ Cardinality({j \in K : j <= i}) \in Nat
    BY <2>1, <1>2, FS_Subset, FS_CardinalityType
  <2>3. i \in {j \in K : j <= i}
    BY <1>a
  <2>4. Cardinality({j \in K : j <= i}) # 0
    BY <2>2, <2>3, FS_EmptySet
  <2>5. rank[i] = Cardinality({j \in K : j <= i})
    OBVIOUS
  <2> HIDE DEF rank
  <2> QED BY <2>2, <2>4, <2>5
<1>4. ASSUME NEW i \in K, NEW k \in K, i < k
      PROVE  rank[i] # rank[k]
  <2> DEFINE lo == {j \in K : j <= i}
             hi == {j \in K : j <= k}
  <2>a. \A j \in K : j <= i => j <= k
    BY <1>4, <1>a
  <2>1. lo \in SUBSET hi
    BY <2>a
  <2>2. k \in hi /\ k \notin lo
    BY <1>4, <1>a
  <2>3. IsFiniteSet(hi)
    BY <1>3
  <2>4. Cardinality(hi) = Cardinality(lo) => hi = lo
    BY <2>1, <2>3, FS_Subset
  <2>5. Cardinality(hi) # Cardinality(lo)
    BY <2>2, <2>4
  <2> QED BY <2>5
<1>b. rank \in [K -> 1 .. N]
  <2>1. \A i \in K : rank[i] \in 1 .. N
    BY <1>2, <1>3
  <2> QED BY <2>1
<1>c. \A i, k \in K : rank[i] = rank[k] => i = k
  <2>1. ASSUME NEW i \in K, NEW k \in K, i # k PROVE rank[i] # rank[k]
    <3>1. i < k \/ k < i
      BY <2>1, <1>a
    <3> QED BY <3>1, <1>4
  <2> QED BY <2>1
<1>5. rank \in Injection(K, 1 .. N)
  BY <1>b, <1>c DEF Injection, IsInjective
<1>6. IsFiniteSet(1 .. N) /\ Cardinality(1 .. N) = N
  <2>1. 1 \in Int /\ N \in Int
    BY <1>2
  <2>2. IsFiniteSet(1 .. N) /\ Cardinality(1 .. N) = IF 1 > N THEN 0 ELSE N - 1 + 1
    BY <2>1, FS_Interval
  <2> HIDE DEF N
  <2> QED BY <2>2, <1>2
<1>7. rank \in Surjection(K, 1 .. N)
  BY <1>5, <1>6, FS_Injection
<1>8. \A m \in 1 .. N : \E i \in K : rank[i] = m
  BY <1>7 DEF Surjection
<1> DEFINE at == [m \in 1 .. N |-> CHOOSE i \in K : Cardinality({j \in K : j <= i}) = m]
<1>9. ASSUME NEW m \in 1 .. N PROVE at[m] \in K /\ rank[at[m]] = m
  <2>1. \E i \in K : Cardinality({j \in K : j <= i}) = m
    BY <1>8
  <2> QED BY <2>1
<1>10. \A i \in K : \E m \in 1 .. N : at[m] = i
  <2> TAKE i \in K
  <2>1. rank[i] \in 1 .. N
    BY <1>b
  <2>2. at[rank[i]] = i
    BY <2>1, <1>9, <1>c
  <2> QED BY <2>1, <2>2
<1> HIDE DEF rank
<1>11. \A m, l \in 1 .. N : at[m] = at[l] => m = l
  BY <1>9
<1> QED BY <1>2, <1>9, <1>10, <1>11

LEMMA PickIs ==
  ASSUME NEW S, NEW s \in Seq(S), NEW K \in SUBSET (DOMAIN s)
  PROVE  /\ Pick(s, K) \in Seq(S)
         /\ Len(Pick(s, K)) <= Len(s)
         /\ \A m \in DOMAIN Pick(s, K) : \E i \in K : Pick(s, K)[m] = s[i]
         /\ \A i \in K : \E m \in DOMAIN Pick(s, K) : Pick(s, K)[m] = s[i]
         /\ \A m, l \in DOMAIN Pick(s, K) : m # l =>
              \E i, j \in K : i # j /\ Pick(s, K)[m] = s[i] /\ Pick(s, K)[l] = s[j]
<1> DEFINE N  == Cardinality(K)
           at == [m \in 1 .. N |-> CHOOSE i \in K : Cardinality({j \in K : j <= i}) = m]
           ps == Pick(s, K)
<1>1. Len(s) \in Nat /\ DOMAIN s = 1 .. Len(s)
  OBVIOUS
<1>a. K \in SUBSET (1 .. Len(s))
  BY <1>1
<1>2. /\ N \in Nat /\ N <= Len(s)
      /\ \A m \in 1 .. N : at[m] \in K
      /\ \A m, l \in 1 .. N : at[m] = at[l] => m = l
      /\ \A i \in K : \E m \in 1 .. N : at[m] = i
  BY <1>1, <1>a, PickPlaces
<1>3. ps = [m \in 1 .. N |-> s[at[m]]]
  BY DEF Pick
<1> HIDE DEF N, at, ps
<1>4. \A m \in 1 .. N : s[at[m]] \in S
  BY <1>2
<1>5. ps \in [1 .. N -> S]
  BY <1>3, <1>4
<1>6. ps \in Seq(S) /\ Len(ps) = N /\ DOMAIN ps = 1 .. N
  BY <1>5, <1>2
<1>7. \A m \in 1 .. N : ps[m] = s[at[m]]
  BY <1>3
<1>8. ASSUME NEW m \in 1 .. N, NEW l \in 1 .. N, m # l
      PROVE  \E i, j \in K : i # j /\ ps[m] = s[i] /\ ps[l] = s[j]
  <2>1. at[m] \in K /\ at[l] \in K /\ at[m] # at[l]
    BY <1>2, <1>8
  <2>2. ps[m] = s[at[m]] /\ ps[l] = s[at[l]]
    BY <1>7
  <2> QED BY <2>1, <2>2
<1>9. \A m \in 1 .. N : \E i \in K : ps[m] = s[i]
  BY <1>2, <1>7
<1>10. \A i \in K : \E m \in 1 .. N : ps[m] = s[i]
  <2> TAKE i \in K
  <2>1. PICK m \in 1 .. N : at[m] = i
    BY <1>2
  <2> QED BY <2>1, <1>7
<1>11. Len(ps) <= Len(s) /\ DOMAIN ps = 1 .. N /\ ps \in Seq(S)
  BY <1>2, <1>6
<1>12. \A m, l \in DOMAIN ps : m # l =>
         \E i, j \in K : i # j /\ ps[m] = s[i] /\ ps[l] = s[j]
  BY <1>8, <1>11
<1>13. \A m \in DOMAIN ps : \E i \in K : ps[m] = s[i]
  BY <1>9, <1>11
<1>14. \A i \in K : \E m \in DOMAIN ps : ps[m] = s[i]
  BY <1>10, <1>11
<1> QED BY <1>11, <1>12, <1>13, <1>14 DEF ps

(* What goes into a full outbox pushes the oldest out.                     *)
LEMMA TailIs ==
  ASSUME NEW S, NEW ts \in Seq(S), ts # <<>>
  PROVE  /\ Tail(ts) \in Seq(S) /\ Len(Tail(ts)) = Len(ts) - 1
         /\ Len(ts) \in Nat /\ Len(ts) >= 1
         /\ DOMAIN Tail(ts) = 1 .. Len(ts) - 1 /\ DOMAIN ts = 1 .. Len(ts)
         /\ \A i \in DOMAIN Tail(ts) : i + 1 \in DOMAIN ts /\ Tail(ts)[i] = ts[i + 1]
         /\ \A i \in DOMAIN ts : i # 1 => i - 1 \in DOMAIN Tail(ts) /\ Tail(ts)[i - 1] = ts[i]
  OBVIOUS

LEMMA AppendIs ==
  ASSUME NEW S, NEW ts \in Seq(S), NEW t \in S
  PROVE  /\ Append(ts, t) \in Seq(S) /\ Len(Append(ts, t)) = Len(ts) + 1
         /\ DOMAIN Append(ts, t) = DOMAIN ts \cup {Len(ts) + 1}
         /\ DOMAIN ts = 1 .. Len(ts) /\ Len(ts) \in Nat
         /\ Append(ts, t)[Len(ts) + 1] = t
         /\ \A i \in DOMAIN ts : Append(ts, t)[i] = ts[i]
  OBVIOUS

(* A batch and what is left of the list after it.                          *)
LEMMA BatchIs ==
  ASSUME NEW s \in Seq(Pushes)
  PROVE  /\ Batch(s) \in Seq(Pushes) /\ Rest(s) \in Seq(Pushes)
         /\ ToSet(Batch(s)) \subseteq ToSet(s) /\ ToSet(Rest(s)) \subseteq ToSet(s)
         /\ ToSet(s) \subseteq Pushes
         /\ Once(s) => Once(Rest(s)) /\ ToSet(Batch(s)) \cap ToSet(Rest(s)) = {}
<1> DEFINE n == IF Len(s) < BatchSize THEN Len(s) ELSE BatchSize
<1>1. Len(s) \in Nat /\ DOMAIN s = 1 .. Len(s) /\ BatchSize \in Nat /\ n \in 0 .. Len(s)
  BY ConstantsAssumption
<1>2. Batch(s) = SubSeq(s, 1, n)
  BY DEF Batch
<1> HIDE DEF n
<1>3. /\ Batch(s) \in Seq(Pushes) /\ Len(Batch(s)) = n /\ DOMAIN Batch(s) = 1 .. n
      /\ \A i \in 1 .. n : Batch(s)[i] = s[i]
  BY <1>1, <1>2
<1>4. Rest(s) = SubSeq(s, n + 1, Len(s))
  BY <1>3 DEF Rest
<1>5. /\ Rest(s) \in Seq(Pushes) /\ DOMAIN Rest(s) = 1 .. Len(s) - n
      /\ \A i \in 1 .. Len(s) - n : Rest(s)[i] = s[n + i]
  BY <1>1, <1>4
<1>6. \A i \in 1 .. n : i \in DOMAIN s
  BY <1>1
<1>7. \A i \in 1 .. Len(s) - n : n + i \in DOMAIN s /\ n + i \notin 1 .. n
  BY <1>1
<1>8. \A i, j \in 1 .. Len(s) - n : n + i = n + j => i = j
  BY <1>1
<1>9. ToSet(Batch(s)) \subseteq ToSet(s) /\ ToSet(Rest(s)) \subseteq ToSet(s)
  BY <1>3, <1>5, <1>6, <1>7 DEF ToSet
<1>10. ToSet(s) \subseteq Pushes
  BY DEF ToSet
<1>11. ASSUME Once(s) PROVE Once(Rest(s)) /\ ToSet(Batch(s)) \cap ToSet(Rest(s)) = {}
  <2>1. Once(Rest(s))
    <3> SUFFICES ASSUME NEW i \in 1 .. Len(s) - n, NEW j \in 1 .. Len(s) - n,
                        Rest(s)[i] = Rest(s)[j]
                 PROVE  i = j
      BY <1>5 DEF Once
    <3>1. s[n + i] = s[n + j]
      BY <1>5
    <3>2. n + i = n + j
      BY <3>1, <1>7, <1>11 DEF Once
    <3> QED BY <3>2, <1>8
  <2>2. ToSet(Batch(s)) \cap ToSet(Rest(s)) = {}
    <3> SUFFICES ASSUME NEW i \in 1 .. n, NEW j \in 1 .. Len(s) - n,
                        Batch(s)[i] = Rest(s)[j]
                 PROVE  FALSE
      BY <1>3, <1>5 DEF ToSet
    <3>1. s[i] = s[n + j]
      BY <1>3, <1>5
    <3>2. i = n + j
      BY <3>1, <1>6, <1>7, <1>11 DEF Once
    <3> QED BY <3>2, <1>7
  <2> QED BY <2>1, <2>2
<1> QED BY <1>3, <1>5, <1>9, <1>10, <1>11

-----------------------------------------------------------------------------
(* The outbox, method by method.                                           *)

LEMMA EntryKey == \A e \in Entry : e.key \in Pushes /\ e.at \in Nat
  BY DEF Entry

(* Removing keys removes them, and nothing else.                           *)
LEMMA WithoutIs ==
  ASSUME NEW h, entries \in Seq(Entry), BoxOK(entries, h), NEW keys
  PROVE  /\ Without(keys) \in Seq(Entry)
         /\ BoxOK(Without(keys), h)
         /\ Keys(Without(keys)) = Keys(entries) \ keys
<1> DEFINE K == {i \in DOMAIN entries : entries[i].key \notin keys}
           w == Pick(entries, K)
<1>1. K \in SUBSET (DOMAIN entries)
  OBVIOUS
<1>a. Without(keys) = w
  BY DEF Without
<1>b. \A i \in DOMAIN entries : i \in K <=> entries[i].key \notin keys
  OBVIOUS
<1> HIDE DEF K
<1>2. /\ w \in Seq(Entry)
      /\ Len(w) <= Len(entries)
      /\ \A m \in DOMAIN w : \E i \in K : w[m] = entries[i]
      /\ \A i \in K : \E m \in DOMAIN w : w[m] = entries[i]
      /\ \A m, l \in DOMAIN w : m # l =>
           \E i, j \in K : i # j /\ w[m] = entries[i] /\ w[l] = entries[j]
  BY <1>1, PickIs
<1> HIDE DEF w
<1>3. Keys(w) = Keys(entries) \ keys
  <2>1. ASSUME NEW m \in DOMAIN w PROVE w[m].key \in Keys(entries) \ keys
    BY <1>1, <1>2, <1>b DEF Keys
  <2>2. ASSUME NEW i \in K PROVE entries[i].key \in Keys(w)
    BY <1>2 DEF Keys
  <2>3. Keys(w) \subseteq Keys(entries) \ keys
    BY <2>1 DEF Keys
  <2>4. Keys(entries) \ keys \subseteq Keys(w)
    BY <2>2, <1>b DEF Keys
  <2> QED BY <2>3, <2>4
<1>4. \A i, j \in DOMAIN w : w[i].key = w[j].key => i = j
  <2> SUFFICES ASSUME NEW m \in DOMAIN w, NEW l \in DOMAIN w, m # l
               PROVE  w[m].key # w[l].key
    OBVIOUS
  <2>1. PICK i \in K, j \in K : i # j /\ w[m] = entries[i] /\ w[l] = entries[j]
    BY <1>2
  <2>2. entries[i].key # entries[j].key
    BY <2>1, <1>1 DEF BoxOK
  <2> QED BY <2>1, <2>2
<1>5. Len(w) <= Capacity
  <2>1. Len(w) \in Nat /\ Len(entries) \in Nat /\ Capacity \in Nat
    BY <1>2, ConstantsAssumption
  <2> QED BY <2>1, <1>2 DEF BoxOK
<1>6. Keys(w) \subseteq h
  BY <1>3 DEF BoxOK
<1> QED BY <1>2, <1>3, <1>4, <1>5, <1>6, <1>a DEF BoxOK

(* A flusher is handed keys that nobody else holds, each of them once.     *)
LEMMA FreshIs ==
  ASSUME NEW h, entries \in Seq(Entry), BoxOK(entries, h), NEW who
  PROVE  /\ Fresh(who) \in Seq(Pushes)
         /\ Once(Fresh(who))
         /\ ToSet(Fresh(who)) =
              {entries[i].key : i \in {i \in Claimed(who) : ~Expired(entries[i])}}
         /\ ToSet(Fresh(who)) \subseteq Keys(entries)
         /\ \A p \in ToSet(Fresh(who)) : lease[p].owner \in {"none", who}
<1> DEFINE K == {i \in Claimed(who) : ~Expired(entries[i])}
           w == Pick(entries, K)
           f == Fresh(who)
<1>1. K \in SUBSET (DOMAIN entries)
  BY DEF Claimed
<1> HIDE DEF K
<1>2. /\ w \in Seq(Entry)
      /\ \A m \in DOMAIN w : \E i \in K : w[m] = entries[i]
      /\ \A i \in K : \E m \in DOMAIN w : w[m] = entries[i]
      /\ \A m, l \in DOMAIN w : m # l =>
           \E i, j \in K : i # j /\ w[m] = entries[i] /\ w[l] = entries[j]
  BY <1>1, PickIs
<1>3. f = [i \in DOMAIN w |-> w[i].key]
  BY DEF Fresh, K
<1> HIDE DEF w, f
<1>4. DOMAIN w = 1 .. Len(w) /\ Len(w) \in Nat /\ \A i \in DOMAIN w : w[i] \in Entry
  BY <1>2
<1>5. \A i \in DOMAIN w : w[i].key \in Pushes
  BY <1>4, EntryKey
<1>6. f \in [1 .. Len(w) -> Pushes] /\ DOMAIN f = DOMAIN w /\ \A i \in DOMAIN w : f[i] = w[i].key
  BY <1>3, <1>4, <1>5
<1>7. f \in Seq(Pushes)
  BY <1>4, <1>6
<1>8. Once(f)
  <2> SUFFICES ASSUME NEW m \in DOMAIN w, NEW l \in DOMAIN w, m # l
               PROVE  f[m] # f[l]
    BY <1>6 DEF Once
  <2>1. PICK i \in K, j \in K : i # j /\ w[m] = entries[i] /\ w[l] = entries[j]
    BY <1>2
  <2>2. entries[i].key # entries[j].key
    BY <2>1, <1>1 DEF BoxOK
  <2> QED BY <2>1, <2>2, <1>6
<1>9. ToSet(f) = {entries[i].key : i \in K}
  <2>1. ASSUME NEW m \in DOMAIN f PROVE \E i \in K : f[m] = entries[i].key
    <3>1. PICK i \in K : w[m] = entries[i]
      BY <1>2, <1>6
    <3> QED BY <3>1, <1>6
  <2>2. ASSUME NEW i \in K PROVE \E m \in DOMAIN f : f[m] = entries[i].key
    <3>1. PICK m \in DOMAIN w : w[m] = entries[i]
      BY <1>2
    <3> QED BY <3>1, <1>6
  <2>3. ToSet(f) = {f[m] : m \in DOMAIN f}
    BY DEF ToSet
  <2> QED BY <2>1, <2>2, <2>3
<1>10. ToSet(f) \subseteq Keys(entries)
  BY <1>1, <1>9 DEF Keys
<1>11. \A p \in ToSet(f) : lease[p].owner \in {"none", who}
  BY <1>9 DEF Claimed, K
<1> QED BY <1>7, <1>8, <1>9, <1>10, <1>11 DEF f, K

LEMMA SeqEntry ==
  ASSUME NEW es \in Seq(Entry)
  PROVE  /\ Len(es) \in Nat /\ DOMAIN es = 1 .. Len(es)
         /\ \A i \in DOMAIN es : es[i] \in Entry /\ es[i].key \in Pushes
         /\ Keys(es) \subseteq Pushes
<1>1. Len(es) \in Nat /\ DOMAIN es = 1 .. Len(es) /\ \A i \in DOMAIN es : es[i] \in Entry
  OBVIOUS
<1>2. \A i \in DOMAIN es : es[i].key \in Pushes
  BY <1>1, EntryKey
<1> QED BY <1>1, <1>2 DEF Keys

(* A report is queued unless it was before; only the oldest one of a full  *)
(* outbox makes way.                                                       *)
LEMMA EnqueueIs ==
  ASSUME TypesOK, BoxOK(entries, handled), NEW p \in Pushes, Enqueue(p)
  PROVE  /\ entries' \in Seq(Entry) /\ handled' = handled \cup {p} /\ lease' = lease
         /\ BoxOK(entries', handled')
         /\ Keys(entries') \subseteq Keys(entries) \cup {p}
         /\ p \in handled => entries' = entries
         /\ \A i \in DOMAIN entries : entries[i].key \notin Keys(entries') =>
              i = 1 /\ Len(entries) = Capacity
<1> DEFINE es == IF Len(entries) >= Capacity THEN Tail(entries) ELSE entries
           e  == [key |-> p, at |-> clock]
<1>1. entries \in Seq(Entry) /\ clock \in Nat /\ Capacity \in Nat /\ Capacity # 0
  BY ConstantsAssumption DEF TypesOK
<1>a. handled' = handled \cup {p} /\ lease' = lease
  BY DEF Enqueue
<1>2. CASE ~CanEnqueue(p)
  <2>1. entries' = entries
    BY <1>2 DEF Enqueue
  <2>2. BoxOK(entries, handled')
    BY <1>a DEF BoxOK
  <2>3. \A i \in DOMAIN entries : entries[i].key \in Keys(entries)
    BY DEF Keys
  <2> QED BY <1>1, <1>a, <2>1, <2>2, <2>3
<1>3. CASE CanEnqueue(p)
  <2>1. entries' = Append(es, e)
    BY <1>3 DEF Enqueue
  <2>2. p \notin handled /\ p \notin Keys(entries)
    BY <1>3 DEF CanEnqueue
  <2>3. e \in Entry
    BY <1>1 DEF Entry
  <2>b. e.key = p
    OBVIOUS
  <2>4. /\ es \in Seq(Entry) /\ Len(es) \in Nat /\ Len(es) + 1 <= Capacity
        /\ \A i \in DOMAIN es : \E j \in DOMAIN entries : es[i] = entries[j]
        /\ \A i, j \in DOMAIN es : es[i].key = es[j].key => i = j
        /\ \A i \in DOMAIN entries :
             (\A j \in DOMAIN es : es[j] # entries[i]) => i = 1 /\ Len(entries) = Capacity
    <3>1. CASE Len(entries) >= Capacity
      <4>1. entries # <<>>
        BY <1>1, <3>1
      <4>2. /\ Tail(entries) \in Seq(Entry) /\ Len(Tail(entries)) = Len(entries) - 1
            /\ Len(entries) \in Nat /\ Len(entries) >= 1
            /\ DOMAIN Tail(entries) = 1 .. Len(entries) - 1 /\ DOMAIN entries = 1 .. Len(entries)
            /\ \A i \in DOMAIN Tail(entries) :
                 i + 1 \in DOMAIN entries /\ Tail(entries)[i] = entries[i + 1]
            /\ \A i \in DOMAIN entries :
                 i # 1 => i - 1 \in DOMAIN Tail(entries) /\ Tail(entries)[i - 1] = entries[i]
        BY <1>1, <4>1, TailIs
      <4>3. es = Tail(entries)
        BY <3>1
      <4>4. Len(entries) = Capacity
        BY <1>1, <3>1, <4>2 DEF BoxOK
      <4> HIDE DEF es
      <4>5. ASSUME NEW i \in DOMAIN es, NEW j \in DOMAIN es, es[i].key = es[j].key
            PROVE  i = j
        <5>1. i \in 1 .. Len(entries) - 1 /\ j \in 1 .. Len(entries) - 1
          BY <4>2, <4>3, <4>5
        <5>2. es[i] = entries[i + 1] /\ es[j] = entries[j + 1]
              /\ i + 1 \in DOMAIN entries /\ j + 1 \in DOMAIN entries
          BY <4>2, <4>3, <4>5
        <5>3. i + 1 = j + 1
          BY <5>2, <4>5 DEF BoxOK
        <5> QED BY <5>1, <5>3
      <4>6. Len(es) \in Nat /\ Len(es) + 1 <= Capacity
        BY <4>2, <4>3, <4>4, <1>1
      <4>7. \A i \in DOMAIN es : \E j \in DOMAIN entries : es[i] = entries[j]
        BY <4>2, <4>3
      <4>8. \A i \in DOMAIN entries :
              (\A j \in DOMAIN es : es[j] # entries[i]) => i = 1 /\ Len(entries) = Capacity
        BY <4>2, <4>3, <4>4
      <4> QED BY <4>2, <4>3, <4>5, <4>6, <4>7, <4>8
    <3>2. CASE ~(Len(entries) >= Capacity)
      <4>1. es = entries
        BY <3>2
      <4>2. Len(entries) \in Nat
        BY <1>1
      <4> HIDE DEF es
      <4>3. Len(es) + 1 <= Capacity
        BY <4>1, <4>2, <3>2, <1>1
      <4> QED BY <4>1, <4>2, <4>3, <1>1 DEF BoxOK
    <3> QED BY <3>1, <3>2
  <2> HIDE DEF es, e
  <2>5. /\ Append(es, e) \in Seq(Entry) /\ Len(Append(es, e)) = Len(es) + 1
        /\ DOMAIN Append(es, e) = DOMAIN es \cup {Len(es) + 1}
        /\ DOMAIN es = 1 .. Len(es) /\ Len(es) \in Nat
        /\ Append(es, e)[Len(es) + 1] = e
        /\ \A i \in DOMAIN es : Append(es, e)[i] = es[i]
    BY <2>3, <2>4, AppendIs
  <2>6. \A i \in DOMAIN es : es[i].key # p
    BY <2>2, <2>4 DEF Keys
  <2>7. \A i, j \in DOMAIN entries' : entries'[i].key = entries'[j].key => i = j
    <3> SUFFICES ASSUME NEW i \in DOMAIN entries', NEW j \in DOMAIN entries',
                        entries'[i].key = entries'[j].key
                 PROVE  i = j
      OBVIOUS
    <3>1. i \in DOMAIN es \/ i = Len(es) + 1
      BY <2>1, <2>5
    <3>2. j \in DOMAIN es \/ j = Len(es) + 1
      BY <2>1, <2>5
    <3> QED BY <3>1, <3>2, <2>1, <2>4, <2>5, <2>6, <2>b
  <2>8. Keys(entries') \subseteq Keys(entries) \cup {p}
    BY <2>1, <2>4, <2>5, <2>b DEF Keys
  <2>9. BoxOK(entries', handled')
    <3>1. Keys(entries') \subseteq handled'
      BY <1>a, <2>8 DEF BoxOK
    <3>2. Len(entries') <= Capacity
      BY <2>1, <2>4, <2>5
    <3> QED BY <3>1, <3>2, <2>7 DEF BoxOK
  <2>10. ASSUME NEW i \in DOMAIN entries, entries[i].key \notin Keys(entries')
         PROVE  i = 1 /\ Len(entries) = Capacity
    <3>1. \A j \in DOMAIN es : j \in DOMAIN entries' /\ entries'[j] = es[j]
      BY <2>1, <2>5
    <3>2. \A j \in DOMAIN es : es[j] # entries[i]
      BY <3>1, <2>10 DEF Keys
    <3> QED BY <3>2, <2>4
  <2> QED BY <1>a, <2>1, <2>2, <2>5, <2>8, <2>9, <2>10
<1> QED BY <1>2, <1>3

(* A claim leases what it hands out, and takes out what is too old.        *)
LEMMA ClaimIs ==
  ASSUME TypesOK, BoxOK(entries, handled), NEW who \in Flushers, NEW until \in Nat,
         Claim(who, until)
  PROVE  /\ entries' \in Seq(Entry) /\ lease' \in [Pushes -> Leases] /\ handled' = handled
         /\ BoxOK(entries', handled')
         /\ Keys(entries') \subseteq Keys(entries)
         /\ \A p \in ToSet(Fresh(who)) : lease'[p] = [owner |-> who, until |-> until]
         /\ \A p \in Keys(entries') : p \in ToSet(Fresh(who)) \/ lease'[p] = lease[p]
         /\ \A i \in DOMAIN entries : entries[i].key \notin Keys(entries') =>
              Expired(entries[i])
<1> DEFINE claimed == {entries[i].key : i \in Claimed(who)}
           kept == ToSet(Fresh(who))
<1>1. /\ entries \in Seq(Entry) /\ Keys(entries) \subseteq Pushes
      /\ lease \in [Pushes -> Leases]
  BY SeqEntry DEF TypesOK
<1>2. /\ kept = {entries[i].key : i \in {i \in Claimed(who) : ~Expired(entries[i])}}
      /\ kept \subseteq Keys(entries)
  BY <1>1, FreshIs
<1>3. /\ entries' = Without(claimed \ kept)
      /\ handled' = handled
      /\ lease' = [p \in Pushes |->
                     IF p \in kept THEN [owner |-> who, until |-> until]
                     ELSE IF p \in claimed THEN NoLease ELSE lease[p]]
  BY DEF Claim
<1>a. \A i \in DOMAIN entries : entries[i].key \in claimed => i \in Claimed(who)
  BY DEF Claimed
<1>b. \A i \in DOMAIN entries : entries[i].key \in claimed /\ ~Expired(entries[i]) =>
        entries[i].key \in kept
  BY <1>2, <1>a
<1> HIDE DEF claimed, kept
<1>4. /\ Without(claimed \ kept) \in Seq(Entry)
      /\ BoxOK(Without(claimed \ kept), handled)
      /\ Keys(Without(claimed \ kept)) = Keys(entries) \ (claimed \ kept)
  BY <1>1, WithoutIs
<1>5. /\ entries' \in Seq(Entry) /\ BoxOK(entries', handled')
      /\ Keys(entries') = Keys(entries) \ (claimed \ kept)
  BY <1>3, <1>4
<1>6. [owner |-> who, until |-> until] \in Leases /\ NoLease \in Leases
  BY DEF Leases, NoLease
<1>7. lease' \in [Pushes -> Leases]
  BY <1>1, <1>3, <1>6
<1>8. \A p \in kept : lease'[p] = [owner |-> who, until |-> until]
  BY <1>1, <1>2, <1>3
<1>9. \A p \in Keys(entries') : p \in kept \/ lease'[p] = lease[p]
  BY <1>1, <1>3, <1>5
<1>10. \A i \in DOMAIN entries : entries[i].key \notin Keys(entries') => Expired(entries[i])
  BY <1>5, <1>b DEF Keys
<1> QED BY <1>3, <1>5, <1>7, <1>8, <1>9, <1>10 DEF kept

LEMMA RemoveIs ==
  ASSUME TypesOK, BoxOK(entries, handled), NEW keys, RemoveKeys(keys)
  PROVE  /\ entries' \in Seq(Entry) /\ lease' \in [Pushes -> Leases] /\ handled' = handled
         /\ BoxOK(entries', handled')
         /\ Keys(entries') = Keys(entries) \ keys
         /\ \A p \in Pushes \ keys : lease'[p] = lease[p]
<1>1. entries \in Seq(Entry) /\ lease \in [Pushes -> Leases]
  BY DEF TypesOK
<1>2. /\ entries' = Without(keys) /\ handled' = handled
      /\ lease' = [p \in Pushes |-> IF p \in keys THEN NoLease ELSE lease[p]]
  BY DEF RemoveKeys
<1>3. /\ Without(keys) \in Seq(Entry)
      /\ BoxOK(Without(keys), handled)
      /\ Keys(Without(keys)) = Keys(entries) \ keys
  BY <1>1, WithoutIs
<1>4. NoLease \in Leases
  BY DEF Leases, NoLease
<1>5. lease' \in [Pushes -> Leases]
  BY <1>1, <1>2, <1>4
<1>6. \A p \in Pushes \ keys : lease'[p] = lease[p]
  BY <1>2
<1> QED BY <1>2, <1>3, <1>5, <1>6

LEMMA ReleaseIs ==
  ASSUME TypesOK, NEW who \in Flushers, NEW keys, Release(who, keys)
  PROVE  /\ entries' = entries /\ lease' \in [Pushes -> Leases] /\ handled' = handled
         /\ \A p \in Pushes : lease[p].owner # who => lease'[p] = lease[p]
<1>1. lease \in [Pushes -> Leases]
  BY DEF TypesOK
<1>2. NoLease \in Leases
  BY DEF Leases, NoLease
<1> QED BY <1>1, <1>2 DEF Release

LEMMA ClearIs ==
  ASSUME TypesOK, Clear
  PROVE  /\ entries' = <<>> /\ lease' \in [Pushes -> Leases] /\ handled' = handled
         /\ Keys(entries') = {}
         /\ \A h : BoxOK(entries', h)
<1>1. NoLease \in Leases
  BY DEF Leases, NoLease
<1>2. entries' = <<>> /\ handled' = handled /\ lease' = [p \in Pushes |-> NoLease]
  BY DEF Clear
<1>3. DOMAIN entries' = {} /\ Len(entries') = 0
  BY <1>2
<1>4. Capacity \in Nat
  BY ConstantsAssumption
<1>5. \A h : BoxOK(entries', h)
  BY <1>3, <1>4 DEF BoxOK, Keys
<1> QED BY <1>1, <1>2, <1>3, <1>5 DEF Keys

(* What the server makes of a request.                                     *)
LEMMA AnswerIs ==
  ASSUME TypesOK, NEW keys \in SUBSET Pushes, NEW outcome \in Outcomes,
         Answer(keys, outcome)
  PROVE  /\ server' \in [Pushes -> Made]
         /\ repeatable \subseteq repeatable' /\ repeatable' \subseteq Pushes
         /\ outcome = "lost" => keys \subseteq repeatable'
         /\ \A p \in Pushes \ keys : server'[p] = server[p]
         /\ \A p \in Pushes : server[p] # "none" => server'[p] # "none"
         /\ outcome \in Final => \A p \in keys : server'[p] # "none"
         /\ outcome \notin {"accepted", "lost"} => \A p \in Pushes :
              \/ server'[p] = server[p]
              \/ server'[p] = "refused"
         /\ \A p \in Pushes : server'[p] = "repeated" =>
              server[p] = "repeated" \/ (p \in keys /\ server[p] = "taken" /\ p \notin repeatable)
<1>1. server \in [Pushes -> Made] /\ repeatable \subseteq Pushes
  BY DEF TypesOK
<1>2. /\ server' = [p \in Pushes |->
           IF p \notin keys \/ outcome \in {"failed", "denied"} THEN server[p]
           ELSE IF outcome = "refused"
                  THEN IF server[p] = "none" THEN "refused" ELSE server[p]
           ELSE IF server[p] = "taken" /\ p \notin repeatable THEN "repeated"
           ELSE "taken"]
      /\ repeatable' = IF outcome = "lost" THEN repeatable \cup keys ELSE repeatable
  BY DEF Answer
<1>3. server' \in [Pushes -> Made]
  BY <1>1, <1>2 DEF Made
<1>4. \A p \in Pushes : server[p] # "none" => server'[p] # "none"
  BY <1>2
<1>5. outcome \in Final => \A p \in keys : server'[p] # "none"
  BY <1>2 DEF Final
<1>6. outcome \notin {"accepted", "lost"} => \A p \in Pushes :
        server'[p] = server[p] \/ server'[p] = "refused"
  BY <1>2 DEF Outcomes
<1>7. \A p \in Pushes : server'[p] = "repeated" =>
        server[p] = "repeated" \/ (p \in keys /\ server[p] = "taken" /\ p \notin repeatable)
  BY <1>2
<1>8. \A p \in Pushes \ keys : server'[p] = server[p]
  BY <1>2
<1> QED BY <1>1, <1>2, <1>3, <1>4, <1>5, <1>6, <1>7, <1>8

-----------------------------------------------------------------------------
(* What the two threads make of themselves.                                *)

LEMMA FcmIs ==
  ASSUME NEW f \in Fcms
  PROVE  /\ f.pc \in {"idle", "super", "load", "claim", "post", "release"}
         /\ f.push \in Pushes \cup {NoPush} /\ f.queued \in BOOLEAN
         /\ f.pending \in Seq(Pushes) /\ f.session \in Sessions /\ f.deadline \in Nat
  BY DEF Fcms

LEMMA JsIs ==
  ASSUME NEW k \in Jss
  PROVE  /\ k.pc \in {"off", "idle", "outbox", "settled"} \cup Sending
         /\ k.pending \in Seq(Pushes) /\ k.token \in Sessions
         /\ k.failures \in Nat /\ k.refreshed \in BOOLEAN /\ k.rerun \in BOOLEAN
  BY DEF Jss

LEMMA NothingPending == <<>> \in Seq(Pushes) /\ Once(<<>>) /\ ToSet(<<>>) = {}
  BY DEF Once, ToSet

LEMMA NoTokenIs == NoToken \in Sessions
  BY DEF NoToken, Sessions

LEMMA FcmIdleIs ==
  /\ FcmIdle \in Fcms /\ FcmIdle.pc = "idle" /\ FcmIdle.pending = <<>>
  /\ FcmIdle.queued = FALSE /\ FcmIdle.push = NoPush
<1>1. FcmIdle \in Fcms
  BY NothingPending, NoTokenIs DEF FcmIdle, Fcms
<1> QED BY <1>1 DEF FcmIdle

LEMMA OverIs ==
  ASSUME NEW s \in Seq(Pushes)
  PROVE  Over(s) \in Fcms /\ Over(s).pc = "release" /\ Over(s).pending = s
<1>1. FcmIdle \in Fcms
  BY FcmIdleIs
<1> QED BY <1>1 DEF Over, Fcms

LEMMA NextBatchIs ==
  ASSUME TypesOK, NEW s \in Seq(Pushes)
  PROVE  /\ NextBatch(s) \in Fcms /\ NextBatch(s).pending = s
         /\ NextBatch(s).pc \in {"post", "release"}
         /\ NextBatch(s).pc = "post" =>
              NextBatch(s).deadline = fcm.deadline /\ clock <= fcm.deadline
<1>1. fcm \in Fcms /\ clock \in Nat /\ fcm.deadline \in Nat
  BY FcmIs DEF TypesOK
<1>2. CASE s # <<>> /\ clock < fcm.deadline
  <2>1. NextBatch(s) = [fcm EXCEPT !.pc = "post", !.pending = s]
    BY <1>2 DEF NextBatch
  <2>2. [fcm EXCEPT !.pc = "post", !.pending = s] \in Fcms
    BY <1>1 DEF Fcms
  <2>3. /\ NextBatch(s).pending = s /\ NextBatch(s).pc = "post"
        /\ NextBatch(s).deadline = fcm.deadline
    BY <2>1, <1>1 DEF Fcms
  <2> QED BY <2>1, <2>2, <2>3, <1>1, <1>2
<1>3. CASE ~(s # <<>> /\ clock < fcm.deadline)
  <2>1. NextBatch(s) = Over(s)
    BY <1>3 DEF NextBatch
  <2> QED BY <2>1, OverIs
<1> QED BY <1>2, <1>3

LEMMA JsOffIs == JsOff \in Jss /\ JsOff.pending = <<>> /\ JsOff.pc = "off"
<1>1. JsOff \in Jss
  BY NothingPending, NoTokenIs DEF JsOff, Jss
<1> QED BY <1>1 DEF JsOff

LEMMA EndedIs ==
  Ended \in Jss /\ Ended.pending = <<>> /\ Ended.pc \in {"outbox", "settled"}
<1>1. JsOff \in Jss
  BY JsOffIs
<1>2. Ended \in Jss
  BY <1>1 DEF Ended, Jss
<1>3. Ended.pending = <<>> /\ Ended.pc \in {"outbox", "settled"}
  BY <1>1, JsOffIs DEF Ended, Jss
<1> QED BY <1>2, <1>3

LEMMA FlushedIs ==
  ASSUME js \in Jss
  PROVE  /\ Flushed \in Jss /\ Flushed.pending = js.pending
         /\ Flushed.pc = js.pc \/ (js.pc \in {"off", "idle"} /\ Flushed.pc = "outbox")
<1>1. CASE Running
  <2>1. Flushed = [js EXCEPT !.rerun = TRUE]
    BY <1>1 DEF Flushed
  <2> QED BY <2>1 DEF Jss
<1>2. CASE ~Running
  <2>1. Flushed = [js EXCEPT !.pc = "outbox", !.rerun = FALSE]
    BY <1>2 DEF Flushed
  <2>2. js.pc \in {"off", "idle"}
    BY <1>2 DEF Running
  <2> QED BY <2>1, <2>2 DEF Jss
<1> QED BY <1>1, <1>2

-----------------------------------------------------------------------------
(* The steps that leave the outbox alone.                                  *)

(* A JS step that takes nothing up to send leaves the outbox in order.     *)
LEMMA JsMoves ==
  ASSUME OutboxOK, UNCHANGED <<outside, boxVars>>, Once(js'.pending),
         \A p \in Pushes : (AtJs(p, js') => AtJs(p, js)) /\ (Sent(p, js') <=> Sent(p, js))
  PROVE  OutboxOK'
<1>0. /\ clock' = clock /\ entries' = entries /\ lease' = lease /\ handled' = handled
      /\ seen' = seen /\ fcm' = fcm /\ server' = server /\ repeatable' = repeatable
  BY DEF outside, boxVars, serverVars
<1>1. BoxOK(entries', handled') /\ NativeLeased(entries', lease', fcm')
      /\ SeenOK(fcm', handled', seen', repeatable')
  BY <1>0 DEF OutboxOK
<1>2. HandedOK(fcm', js', handled', clock')
  <2>1. HandedOK(fcm, js', handled, clock)
    BY DEF OutboxOK, HandedOK
  <2> QED BY <2>1, <1>0
<1>3. JsLeased(entries', lease', js', repeatable')
  <2>1. JsLeased(entries, lease, js', repeatable)
    BY DEF OutboxOK, JsLeased
  <2> QED BY <2>1, <1>0
<1>4. HeldApart(fcm', js', repeatable')
  <2>1. HeldApart(fcm, js', repeatable)
    BY DEF OutboxOK, HeldApart
  <2> QED BY <2>1, <1>0
<1>5. TakenOK(entries', fcm', js', handled', seen', server', repeatable')
  <2>1. TakenOK(entries, fcm, js', handled, seen, server, repeatable)
    BY DEF OutboxOK, TakenOK
  <2> QED BY <2>1, <1>0
<1>6. SentOK(js', server')
  <2>1. SentOK(js', server)
    BY DEF OutboxOK, SentOK
  <2> QED BY <2>1, <1>0
<1> QED BY <1>1, <1>2, <1>3, <1>4, <1>5, <1>6 DEF OutboxOK

(* It keeps what it had, or has nothing.                                   *)
LEMMA JsKeeps ==
  ASSUME TypesOK, OutboxOK, UNCHANGED <<outside, boxVars>>,
         \/ js' = js
         \/ js' = Flushed
         \/ js' = Ended /\ js.pc # "remove"
         \/ js'.pending = js.pending /\ js'.pc # "remove" /\ js.pc \in Sending \ {"remove"}
         \/ js'.pending = js.pending /\ js'.pc = "idle" /\ js.pc = "settled"
         \/ js'.pending = <<>> /\ js'.pc = "idle" /\ js.pc = "off"
  PROVE  OutboxOK'
<1>1. js \in Jss /\ Once(js.pending)
  BY DEF TypesOK, OutboxOK, HandedOK
<1>2. \/ js'.pending = js.pending /\ js'.pc = js.pc
      \/ /\ js.pc # "remove" /\ js'.pc \notin Sending
         /\ js'.pending = js.pending \/ js'.pending = <<>>
      \/ /\ js'.pending = js.pending /\ js'.pc # "remove"
         /\ js.pc \in Sending \ {"remove"}
  BY <1>1, FlushedIs, EndedIs DEF Sending
<1>3. Once(js'.pending)
  BY <1>1, <1>2, NothingPending
<1>4. \A p \in Pushes : (AtJs(p, js') => AtJs(p, js)) /\ (Sent(p, js') <=> Sent(p, js))
  BY <1>2 DEF AtJs, Sent, Sending
<1> QED BY <1>3, <1>4, JsMoves

-----------------------------------------------------------------------------
(* The FCM thread.                                                         *)

(* A step in which native sends nothing.                                   *)
LEMMA FcmQuiet ==
  ASSUME NEW f, f.pc # "post"
  PROVE  \A p \in Pushes : ~AtNative(p, f)
  BY DEF AtNative

LEMMA SentAtJs ==
  ASSUME NEW k \in Jss, NEW p, Sent(p, k)
  PROVE  AtJs(p, k)
<1>1. k.pending \in Seq(Pushes)
  BY JsIs
<1>2. ToSet(Batch(k.pending)) \subseteq ToSet(k.pending)
  BY <1>1, BatchIs
<1> QED BY <1>2 DEF Sent, AtJs, Sending

(* Queueing, once the push is noted as what super.handleIntent works on.   *)
LEMMA HandleIntentStep ==
  ASSUME TypesOK, OutboxOK, NEW p \in Pushes, HandleIntent(p)
  PROVE  TypesOK' /\ OutboxOK'
<1>0. /\ clock' = clock /\ seen' = seen /\ js' = js /\ token' = token /\ mirror' = mirror
      /\ op' = op /\ server' = server /\ repeatable' = repeatable /\ events' = events + 1
      /\ fcm.pc = "idle"
  BY DEF HandleIntent, Event, identityVars, serverVars
<1>t. events' \in Nat
  BY <1>0 DEF TypesOK
<1>1. fcm' \in Fcms /\ fcm'.pc = "super" /\ fcm'.push = p /\ fcm'.pending = <<>>
  <2>1. FcmIdle \in Fcms /\ FcmIdle.pending = <<>> /\ CanEnqueue(p) \in BOOLEAN
    BY FcmIdleIs DEF CanEnqueue
  <2>2. CASE p \in seen
    <3>1. fcm' = [FcmIdle EXCEPT !.pc = "super", !.push = p]
      BY <2>2 DEF HandleIntent
    <3> QED BY <3>1, <2>1 DEF Fcms
  <2>3. CASE p \notin seen
    <3>1. fcm' = [FcmIdle EXCEPT !.pc = "super", !.push = p, !.queued = CanEnqueue(p)]
      BY <2>3 DEF HandleIntent
    <3> QED BY <3>1, <2>1 DEF Fcms
  <2> QED BY <2>2, <2>3
<1>2. Once(fcm'.pending)
  BY <1>1, NothingPending
<1>3. \A q \in Pushes : ~AtNative(q, fcm') /\ ~AtNative(q, fcm)
  BY <1>0, <1>1, FcmQuiet
<1>4. /\ entries' \in Seq(Entry) /\ lease' = lease
      /\ BoxOK(entries', handled') /\ handled \subseteq handled' /\ handled' \subseteq Pushes
      /\ handled' \subseteq handled \cup {p} /\ p \in handled' \cup seen
      /\ \A q \in Keys(entries') : q \in Keys(entries) \/ (q = p /\ p \notin handled \cup seen)
  <2>1. CASE p \in seen
    <3>1. entries' = entries /\ handled' = handled /\ lease' = lease
      BY <2>1 DEF HandleIntent, boxVars
    <3>2. BoxOK(entries', handled')
      BY <3>1 DEF OutboxOK
    <3> QED BY <2>1, <3>1, <3>2 DEF TypesOK
  <2>2. CASE p \notin seen
    <3>1. Enqueue(p)
      BY <2>2 DEF HandleIntent
    <3>2. BoxOK(entries, handled)
      BY DEF OutboxOK
    <3>3. /\ entries' \in Seq(Entry) /\ handled' = handled \cup {p} /\ lease' = lease
          /\ BoxOK(entries', handled')
          /\ Keys(entries') \subseteq Keys(entries) \cup {p}
          /\ p \in handled => entries' = entries
      BY <3>1, <3>2, EnqueueIs
    <3>4. \A q \in Keys(entries') : q \in Keys(entries) \/ (q = p /\ p \notin handled \cup seen)
      BY <3>3, <2>2
    <3> QED BY <3>3, <3>4 DEF TypesOK
  <2> QED BY <2>1, <2>2
<1>5. TypesOK'
  BY <1>0, <1>t, <1>1, <1>4 DEF TypesOK
<1>6. HandedOK(fcm', js', handled', clock')
  <2>1. Once(js.pending) /\ \A q \in Pushes : AtJs(q, js) => q \in handled
    BY DEF OutboxOK, HandedOK
  <2> QED BY <2>1, <1>0, <1>1, <1>2, <1>3, <1>4 DEF HandedOK
<1>7. NativeLeased(entries', lease', fcm') /\ HeldApart(fcm', js', repeatable')
  BY <1>3 DEF NativeLeased, HeldApart
<1>8. JsLeased(entries', lease', js', repeatable')
  <2>1. ASSUME NEW q \in Pushes, AtJs(q, js), q \notin repeatable
        PROVE  q \notin Keys(entries') \/ lease[q].owner = "js"
    <3>1. q \in handled /\ (q \notin Keys(entries) \/ lease[q].owner = "js")
      BY <2>1 DEF OutboxOK, HandedOK, JsLeased
    <3> QED BY <3>1, <1>4
  <2> QED BY <2>1, <1>0, <1>4 DEF JsLeased
<1>9. TakenOK(entries', fcm', js', handled', seen', server', repeatable')
  <2>1. ASSUME NEW q \in Pushes, q \notin repeatable
        PROVE  server[q] = "taken" =>
                    /\ q \notin Keys(entries') \/ Sent(q, js)
                    /\ AtJs(q, js) => Sent(q, js)
                    /\ q \in handled \cup seen
    <3>1. server[q] = "taken" =>
               /\ q \notin Keys(entries) \/ Sent(q, js)
               /\ AtJs(q, js) => Sent(q, js)
               /\ q \in handled \cup seen
      BY <2>1 DEF OutboxOK, TakenOK
    <3> QED BY <3>1, <1>4
  <2> QED BY <2>1, <1>0, <1>3, <1>4 DEF TakenOK
<1>10. SeenOK(fcm', handled', seen', repeatable')
  <2>1. \A q \in handled : q \in repeatable \cup seen
    BY <1>0 DEF OutboxOK, SeenOK
  <2> QED BY <2>1, <1>0, <1>1, <1>4 DEF SeenOK
<1>11. SentOK(js', server')
  BY <1>0 DEF OutboxOK
<1> QED BY <1>4, <1>5, <1>6, <1>7, <1>8, <1>9, <1>10, <1>11 DEF OutboxOK

(* By now the push is known: nothing is queued a second time.              *)
LEMMA SuperKeeps ==
  ASSUME TypesOK, OutboxOK, NEW b \in BOOLEAN, SuperHandleIntent(b)
  PROVE  entries' = entries /\ handled' = handled /\ lease' = lease
<1>1. fcm.pc = "super" /\ fcm.push \in Pushes /\ fcm.push \in handled \cup seen
  BY DEF SuperHandleIntent, OutboxOK, SeenOK
<1>2. CASE b /\ fcm.push \notin seen
  <2>1. Enqueue(fcm.push) /\ fcm.push \in handled
    BY <1>1, <1>2 DEF SuperHandleIntent
  <2>2. BoxOK(entries, handled)
    BY DEF OutboxOK
  <2>3. /\ handled' = handled \cup {fcm.push} /\ lease' = lease
        /\ fcm.push \in handled => entries' = entries
    BY <1>1, <2>1, <2>2, EnqueueIs
  <2> QED BY <2>1, <2>3
<1>3. CASE ~(b /\ fcm.push \notin seen)
  BY <1>3 DEF SuperHandleIntent, boxVars
<1> QED BY <1>2, <1>3

LEMMA SuperHandleIntentStep ==
  ASSUME TypesOK, OutboxOK, NEW b \in BOOLEAN, SuperHandleIntent(b)
  PROVE  TypesOK' /\ OutboxOK'
<1>0. /\ clock' = clock /\ js' = js /\ token' = token /\ mirror' = mirror
      /\ op' = op /\ server' = server /\ repeatable' = repeatable /\ events' = events
      /\ fcm.pc = "super" /\ seen' = seen \cup {fcm.push}
      /\ entries' = entries /\ handled' = handled /\ lease' = lease
  BY SuperKeeps DEF SuperHandleIntent, identityVars, serverVars
<1>1. fcm' \in Fcms /\ fcm'.pc \in {"load", "idle"} /\ fcm'.pending = <<>>
  <2>1. FcmIdle \in Fcms /\ FcmIdle.pending = <<>> /\ FcmIdle.pc = "idle"
    BY FcmIdleIs
  <2>2. fcm' = [FcmIdle EXCEPT !.pc = "load"] \/ fcm' = FcmIdle
    BY DEF SuperHandleIntent
  <2> QED BY <2>1, <2>2 DEF Fcms
<1>2. Once(fcm'.pending)
  BY <1>1, NothingPending
<1>3. \A q \in Pushes : ~AtNative(q, fcm') /\ ~AtNative(q, fcm)
  BY <1>0, <1>1, FcmQuiet
<1>4. fcm.push \in Pushes
  BY <1>0 DEF OutboxOK, SeenOK
<1>5. TypesOK'
  BY <1>0, <1>1, <1>4 DEF TypesOK
<1>6. HandedOK(fcm', js', handled', clock')
  <2>1. Once(js.pending) /\ \A q \in Pushes : AtJs(q, js) => q \in handled
    BY DEF OutboxOK, HandedOK
  <2> QED BY <2>1, <1>0, <1>1, <1>2, <1>3 DEF HandedOK
<1>7. NativeLeased(entries', lease', fcm') /\ HeldApart(fcm', js', repeatable')
  BY <1>3 DEF NativeLeased, HeldApart
<1>8. BoxOK(entries', handled') /\ JsLeased(entries', lease', js', repeatable')
      /\ SentOK(js', server')
  BY <1>0 DEF OutboxOK
<1>9. TakenOK(entries', fcm', js', handled', seen', server', repeatable')
  BY <1>0, <1>3 DEF OutboxOK, TakenOK
<1>10. SeenOK(fcm', handled', seen', repeatable')
  BY <1>0, <1>1 DEF OutboxOK, SeenOK
<1> QED BY <1>5, <1>6, <1>7, <1>8, <1>9, <1>10 DEF OutboxOK

LEMMA LoadSessionStep ==
  ASSUME TypesOK, OutboxOK, NEW b \in BOOLEAN, LoadSession(b)
  PROVE  TypesOK' /\ OutboxOK'
<1>0. /\ clock' = clock /\ js' = js /\ token' = token /\ mirror' = mirror
      /\ op' = op /\ server' = server /\ repeatable' = repeatable /\ events' = events
      /\ fcm.pc = "load" /\ seen' = seen
      /\ entries' = entries /\ handled' = handled /\ lease' = lease
  BY DEF LoadSession, identityVars, serverVars, boxVars
<1>1. /\ fcm' \in Fcms /\ fcm'.pc \in {"claim", "idle"}
      /\ fcm'.pending = fcm.pending \/ fcm'.pending = <<>>
  <2>1. /\ FcmIdle \in Fcms /\ FcmIdle.pending = <<>> /\ FcmIdle.pc = "idle"
        /\ fcm \in Fcms /\ mirror \in Sessions /\ clock + Budget \in Nat
    BY FcmIdleIs, ConstantsAssumption DEF TypesOK
  <2>2. \/ fcm' = FcmIdle
        \/ fcm' = [fcm EXCEPT !.pc = "claim", !.session = mirror,
                              !.deadline = clock + Budget]
    BY DEF LoadSession
  <2> QED BY <2>1, <2>2 DEF Fcms
<1>2. Once(fcm'.pending)
  BY <1>1, NothingPending DEF OutboxOK, HandedOK
<1>3. \A q \in Pushes : ~AtNative(q, fcm') /\ ~AtNative(q, fcm)
  BY <1>0, <1>1, FcmQuiet
<1>5. TypesOK'
  BY <1>0, <1>1 DEF TypesOK
<1>6. HandedOK(fcm', js', handled', clock')
  <2>1. Once(js.pending) /\ \A q \in Pushes : AtJs(q, js) => q \in handled
    BY DEF OutboxOK, HandedOK
  <2> QED BY <2>1, <1>0, <1>1, <1>2, <1>3 DEF HandedOK
<1>7. NativeLeased(entries', lease', fcm') /\ HeldApart(fcm', js', repeatable')
  BY <1>3 DEF NativeLeased, HeldApart
<1>8. BoxOK(entries', handled') /\ JsLeased(entries', lease', js', repeatable')
      /\ SentOK(js', server')
  BY <1>0 DEF OutboxOK
<1>9. TakenOK(entries', fcm', js', handled', seen', server', repeatable')
  BY <1>0, <1>3 DEF OutboxOK, TakenOK
<1>10. SeenOK(fcm', handled', seen', repeatable')
  BY <1>0, <1>1 DEF OutboxOK, SeenOK
<1> QED BY <1>5, <1>6, <1>7, <1>8, <1>9, <1>10 DEF OutboxOK

(* Native takes up what nobody holds, for longer than it may send it.      *)
LEMMA NativeClaimStep ==
  ASSUME TypesOK, OutboxOK, NativeClaim
  PROVE  TypesOK' /\ OutboxOK'
<1> DEFINE until == LeaseSlack + IF fcm.deadline > clock THEN fcm.deadline ELSE clock
           new == ToSet(Fresh("native"))
<1>0. /\ clock' = clock /\ js' = js /\ token' = token /\ mirror' = mirror
      /\ op' = op /\ server' = server /\ repeatable' = repeatable /\ events' = events
      /\ fcm.pc = "claim" /\ seen' = seen
      /\ Claim("native", until)
      /\ fcm' = IF Claimed("native") = {} THEN FcmIdle ELSE NextBatch(Fresh("native"))
  BY DEF NativeClaim, identityVars, serverVars
<1>1. BoxOK(entries, handled) /\ entries \in Seq(Entry) /\ fcm.deadline \in Nat
      /\ clock \in Nat
  BY FcmIs DEF OutboxOK, TypesOK
<1>2. until \in Nat /\ fcm.deadline < until
  BY <1>1, ConstantsAssumption
<1>3. "native" \in Flushers
  BY DEF Flushers
<1> HIDE DEF until
<1>4. /\ entries' \in Seq(Entry) /\ lease' \in [Pushes -> Leases] /\ handled' = handled
      /\ BoxOK(entries', handled')
      /\ Keys(entries') \subseteq Keys(entries)
      /\ \A p \in ToSet(Fresh("native")) : lease'[p] = [owner |-> "native", until |-> until]
      /\ \A p \in Keys(entries') : p \in ToSet(Fresh("native")) \/ lease'[p] = lease[p]
  BY <1>0, <1>1, <1>2, <1>3, ClaimIs
<1>5. /\ Fresh("native") \in Seq(Pushes) /\ Once(Fresh("native"))
      /\ new \subseteq Keys(entries)
      /\ \A p \in new : lease[p].owner \in {"none", "native"}
  BY <1>1, FreshIs
<1>6. /\ fcm' \in Fcms /\ fcm'.pc \in {"idle", "post", "release"}
      /\ Once(fcm'.pending)
      /\ fcm'.pc = "post" =>
           /\ fcm'.pending = Fresh("native")
           /\ fcm'.deadline = fcm.deadline /\ clock <= fcm.deadline
  <2>1. /\ NextBatch(Fresh("native")) \in Fcms
        /\ NextBatch(Fresh("native")).pending = Fresh("native")
        /\ NextBatch(Fresh("native")).pc \in {"post", "release"}
        /\ NextBatch(Fresh("native")).pc = "post" =>
             NextBatch(Fresh("native")).deadline = fcm.deadline /\ clock <= fcm.deadline
    BY <1>5, NextBatchIs
  <2>2. FcmIdle \in Fcms /\ FcmIdle.pc = "idle" /\ FcmIdle.pending = <<>>
    BY FcmIdleIs
  <2>3. fcm' = FcmIdle \/ fcm' = NextBatch(Fresh("native"))
    BY <1>0
  <2> QED BY <2>1, <2>2, <2>3, <1>5, NothingPending
<1>7. \A p \in Pushes : AtNative(p, fcm') => p \in new
  BY <1>6 DEF AtNative
<1>8. \A p \in Pushes : ~AtNative(p, fcm)
  BY <1>0, FcmQuiet
<1> HIDE DEF new
<1>9. \A p \in new : p \in Keys(entries) /\ p \in handled
  BY <1>1, <1>5 DEF BoxOK
<1>10. TypesOK'
  BY <1>0, <1>4, <1>6 DEF TypesOK
<1>11. HandedOK(fcm', js', handled', clock')
  <2>1. Once(js.pending) /\ \A p \in Pushes : AtJs(p, js) => p \in handled
    BY DEF OutboxOK, HandedOK
  <2> QED BY <2>1, <1>0, <1>4, <1>6, <1>7, <1>9 DEF HandedOK
<1>12. NativeLeased(entries', lease', fcm')
  <2> SUFFICES ASSUME NEW p \in Pushes, AtNative(p, fcm')
               PROVE  lease'[p].owner = "native" /\ fcm'.deadline < lease'[p].until
    BY DEF NativeLeased
  <2>1. p \in new /\ fcm'.deadline = fcm.deadline
    BY <1>6, <1>7 DEF AtNative
  <2>2. lease'[p] = [owner |-> "native", until |-> until]
    BY <2>1, <1>4 DEF new
  <2> QED BY <2>1, <2>2, <1>2
<1>13. \A p \in Pushes : p \in new /\ AtJs(p, js) => p \in repeatable
  BY <1>5, <1>9 DEF OutboxOK, JsLeased
<1>14. JsLeased(entries', lease', js', repeatable')
  <2> SUFFICES ASSUME NEW p \in Pushes, AtJs(p, js), p \notin repeatable
               PROVE  p \notin Keys(entries') \/ lease'[p].owner = "js"
    BY <1>0 DEF JsLeased
  <2>1. p \notin Keys(entries) \/ lease[p].owner = "js"
    BY DEF OutboxOK, JsLeased
  <2>2. p \notin new
    BY <1>13
  <2> QED BY <2>1, <2>2, <1>4 DEF new
<1>15. HeldApart(fcm', js', repeatable')
  BY <1>0, <1>7, <1>13 DEF HeldApart
<1>16. TakenOK(entries', fcm', js', handled', seen', server', repeatable')
  <2> SUFFICES ASSUME NEW p \in Pushes, p \notin repeatable
               PROVE  server[p] = "taken" =>
                           /\ p \notin Keys(entries') \/ Sent(p, js)
                           /\ ~AtNative(p, fcm')
                           /\ AtJs(p, js) => Sent(p, js)
                           /\ p \in handled \cup seen
    BY <1>0, <1>4 DEF TakenOK
  <2>1. server[p] = "taken" =>
             /\ p \notin Keys(entries) \/ Sent(p, js)
             /\ AtJs(p, js) => Sent(p, js)
             /\ p \in handled \cup seen
    BY DEF OutboxOK, TakenOK
  <2>2. js \in Jss
    BY DEF TypesOK
  <2>3. Sent(p, js) => AtJs(p, js)
    BY <2>2, SentAtJs
  <2>4. p \in new => p \in Keys(entries) /\ ~AtJs(p, js)
    BY <1>9, <1>13
  <2> QED BY <2>1, <2>3, <2>4, <1>4, <1>7
<1>17. SeenOK(fcm', handled', seen', repeatable')
  BY <1>0, <1>4, <1>6 DEF OutboxOK, SeenOK
<1>18. SentOK(js', server')
  BY <1>0 DEF OutboxOK
<1> QED BY <1>4, <1>10, <1>11, <1>12, <1>14, <1>15, <1>16, <1>17, <1>18 DEF OutboxOK

LEMMA NativeReleaseStep ==
  ASSUME TypesOK, OutboxOK, NativeRelease
  PROVE  TypesOK' /\ OutboxOK'
<1>0. /\ clock' = clock /\ js' = js /\ token' = token /\ mirror' = mirror
      /\ op' = op /\ server' = server /\ repeatable' = repeatable /\ events' = events
      /\ fcm.pc = "release" /\ seen' = seen /\ fcm' = FcmIdle
      /\ Release("native", ToSet(fcm.pending))
  BY DEF NativeRelease, identityVars, serverVars
<1>1. "native" \in Flushers /\ "js" # "native"
  BY DEF Flushers
<1>2. /\ entries' = entries /\ lease' \in [Pushes -> Leases] /\ handled' = handled
      /\ \A p \in Pushes : lease[p].owner # "native" => lease'[p] = lease[p]
  BY <1>0, <1>1, ReleaseIs
<1>3. fcm' \in Fcms /\ fcm'.pc = "idle" /\ fcm'.pending = <<>>
  BY <1>0, FcmIdleIs
<1>4. \A p \in Pushes : ~AtNative(p, fcm') /\ ~AtNative(p, fcm)
  BY <1>0, <1>3, FcmQuiet
<1>5. TypesOK'
  BY <1>0, <1>2, <1>3 DEF TypesOK
<1>6. HandedOK(fcm', js', handled', clock')
  <2>1. Once(js.pending) /\ \A q \in Pushes : AtJs(q, js) => q \in handled
    BY DEF OutboxOK, HandedOK
  <2> QED BY <2>1, <1>0, <1>2, <1>3, <1>4, NothingPending DEF HandedOK
<1>7. NativeLeased(entries', lease', fcm') /\ HeldApart(fcm', js', repeatable')
  BY <1>4 DEF NativeLeased, HeldApart
<1>8. JsLeased(entries', lease', js', repeatable')
  BY <1>0, <1>2 DEF OutboxOK, JsLeased
<1>9. BoxOK(entries', handled') /\ SentOK(js', server')
  BY <1>0, <1>2 DEF OutboxOK
<1>10. TakenOK(entries', fcm', js', handled', seen', server', repeatable')
  BY <1>0, <1>2, <1>4 DEF OutboxOK, TakenOK
<1>11. SeenOK(fcm', handled', seen', repeatable')
  BY <1>0, <1>2, <1>3 DEF OutboxOK, SeenOK
<1> QED BY <1>5, <1>6, <1>7, <1>8, <1>9, <1>10, <1>11 DEF OutboxOK

(* What the server took or refused is removed, and was with native alone.  *)
LEMMA NativeAnswerStep ==
  ASSUME TypesOK, OutboxOK, NEW outcome \in Outcomes, NativeAnswer(outcome)
  PROVE  TypesOK' /\ OutboxOK'
<1> DEFINE keys == ToSet(Batch(fcm.pending))
           rest == Rest(fcm.pending)
           final == outcome \in Final
<1>0. /\ clock' = clock /\ js' = js /\ token' = token /\ mirror' = mirror
      /\ op' = op /\ events' = events /\ fcm.pc = "post" /\ seen' = seen
      /\ Answer(keys, outcome)
      /\ final => RemoveKeys(keys) /\ fcm' = NextBatch(rest)
      /\ ~final => fcm' = Over(fcm.pending) /\ entries' = entries /\ lease' = lease
                   /\ handled' = handled
  BY DEF NativeAnswer, identityVars, boxVars
<1>1. /\ BoxOK(entries, handled) /\ entries \in Seq(Entry) /\ js \in Jss
      /\ fcm.pending \in Seq(Pushes) /\ Once(fcm.pending) /\ clock \in Nat
      /\ lease \in [Pushes -> Leases]
  BY FcmIs DEF OutboxOK, TypesOK, HandedOK
<1>2. /\ rest \in Seq(Pushes) /\ Once(rest)
      /\ keys \subseteq ToSet(fcm.pending) /\ ToSet(rest) \subseteq ToSet(fcm.pending)
      /\ ToSet(fcm.pending) \subseteq Pushes
      /\ keys \cap ToSet(rest) = {}
  BY <1>1, BatchIs
<1>3. keys \in SUBSET Pushes
  BY <1>2
<1>4. \A p \in keys : AtNative(p, fcm)
  BY <1>0, <1>2 DEF AtNative
<1>5. /\ server' \in [Pushes -> Made]
      /\ repeatable \subseteq repeatable' /\ repeatable' \subseteq Pushes
      /\ outcome = "lost" => keys \subseteq repeatable'
      /\ \A p \in Pushes \ keys : server'[p] = server[p]
      /\ \A p \in Pushes : server[p] # "none" => server'[p] # "none"
      /\ outcome \in Final => \A p \in keys : server'[p] # "none"
      /\ outcome \notin {"accepted", "lost"} => \A p \in Pushes :
           \/ server'[p] = server[p]
           \/ server'[p] = "refused"
      /\ \A p \in Pushes : server'[p] = "repeated" =>
           server[p] = "repeated" \/ (p \in keys /\ server[p] = "taken" /\ p \notin repeatable)
  BY <1>0, <1>3, AnswerIs
<1> HIDE DEF keys, rest
<1>6. /\ fcm' \in Fcms /\ fcm'.pc \in {"post", "release"} /\ Once(fcm'.pending)
      /\ fcm'.pc = "post" =>
           /\ final /\ fcm'.pending = rest
           /\ fcm'.deadline = fcm.deadline /\ clock <= fcm.deadline
  <2>1. CASE final
    <3>1. /\ NextBatch(rest) \in Fcms /\ NextBatch(rest).pending = rest
          /\ NextBatch(rest).pc \in {"post", "release"}
          /\ NextBatch(rest).pc = "post" =>
               NextBatch(rest).deadline = fcm.deadline /\ clock <= fcm.deadline
      BY <1>2, NextBatchIs
    <3> QED BY <3>1, <2>1, <1>0, <1>2
  <2>2. CASE ~final
    <3>1. fcm' \in Fcms /\ fcm'.pc = "release" /\ fcm'.pending = fcm.pending
      BY <1>0, <1>1, <2>2, OverIs
    <3> QED BY <3>1, <1>1
  <2> QED BY <2>1, <2>2
<1>7. /\ entries' \in Seq(Entry) /\ lease' \in [Pushes -> Leases] /\ handled' = handled
      /\ BoxOK(entries', handled')
      /\ Keys(entries') \subseteq Keys(entries)
      /\ final => Keys(entries') \cap keys = {}
      /\ \A p \in Pushes \ keys : lease'[p] = lease[p]
      /\ ~final => lease' = lease
  <2>1. CASE final
    <3>1. /\ entries' \in Seq(Entry) /\ lease' \in [Pushes -> Leases] /\ handled' = handled
          /\ BoxOK(entries', handled')
          /\ Keys(entries') = Keys(entries) \ keys
          /\ \A p \in Pushes \ keys : lease'[p] = lease[p]
      BY <1>0, <1>1, <2>1, RemoveIs
    <3> QED BY <3>1, <2>1
  <2>2. CASE ~final
    BY <1>0, <1>1, <2>2
  <2> QED BY <2>1, <2>2
<1>8. ASSUME NEW p \in Pushes, AtNative(p, fcm')
      PROVE  AtNative(p, fcm) /\ p \notin keys /\ final
  BY <1>0, <1>2, <1>6, <1>8 DEF AtNative
<1> HIDE DEF final
<1>9. TypesOK'
  BY <1>0, <1>5, <1>6, <1>7 DEF TypesOK
<1>10. HandedOK(fcm', js', handled', clock')
  <2>1. Once(js.pending) /\ \A p \in Pushes : AtNative(p, fcm) \/ AtJs(p, js) => p \in handled
    BY DEF OutboxOK, HandedOK
  <2> QED BY <2>1, <1>0, <1>6, <1>7, <1>8 DEF HandedOK
<1>11. NativeLeased(entries', lease', fcm')
  <2> SUFFICES ASSUME NEW p \in Pushes, AtNative(p, fcm')
               PROVE  \/ p \notin Keys(entries')
                      \/ lease'[p].owner = "native" /\ fcm'.deadline < lease'[p].until
    BY DEF NativeLeased
  <2>1. AtNative(p, fcm) /\ p \notin keys /\ fcm'.deadline = fcm.deadline
    BY <1>6, <1>8 DEF AtNative
  <2>2. p \notin Keys(entries) \/ (lease[p].owner = "native" /\ fcm.deadline < lease[p].until)
    BY <2>1 DEF OutboxOK, NativeLeased
  <2> QED BY <2>1, <2>2, <1>7
<1>12. \A p \in keys : AtJs(p, js) => p \in repeatable
  BY <1>3, <1>4 DEF OutboxOK, HeldApart
<1>13. JsLeased(entries', lease', js', repeatable')
  BY <1>0, <1>5, <1>7, <1>12 DEF OutboxOK, JsLeased
<1>14. HeldApart(fcm', js', repeatable')
  BY <1>0, <1>5, <1>8 DEF OutboxOK, HeldApart
<1>15. TakenOK(entries', fcm', js', handled', seen', server', repeatable')
  <2> SUFFICES ASSUME NEW p \in Pushes, p \notin repeatable'
               PROVE  server'[p] = "taken" =>
                           /\ p \notin Keys(entries') \/ Sent(p, js)
                           /\ ~AtNative(p, fcm')
                           /\ AtJs(p, js) => Sent(p, js)
                           /\ p \in handled \cup seen
    BY <1>0, <1>7 DEF TakenOK
  <2>1. /\ server[p] = "taken" =>
             /\ p \notin Keys(entries) \/ Sent(p, js)
             /\ ~AtNative(p, fcm)
             /\ AtJs(p, js) => Sent(p, js)
             /\ p \in handled \cup seen
        /\ p \notin repeatable
    BY <1>5 DEF OutboxOK, TakenOK
  <2>2. CASE p \in keys
    <3>1. server[p] # "taken" /\ ~AtJs(p, js) /\ p \in handled
      BY <2>1, <2>2, <1>4, <1>12 DEF OutboxOK, HandedOK
    <3>2. ~AtNative(p, fcm')
      BY <1>8, <2>2
    <3>4. CASE final
      BY <3>1, <3>2, <3>4, <2>2, <1>7
    <3>5. CASE ~final
      <4>1. outcome \notin {"accepted", "lost"}
        BY <3>5, <2>2, <1>5 DEF final, Final
      <4> QED BY <4>1, <3>1, <1>5
    <3> QED BY <3>4, <3>5
  <2>3. CASE p \notin keys
    <3>1. server'[p] = server[p]
      BY <2>3, <1>5
    <3> QED BY <3>1, <2>1, <1>7, <1>8
  <2> QED BY <2>2, <2>3
<1>16. SeenOK(fcm', handled', seen', repeatable')
  BY <1>0, <1>5, <1>6, <1>7 DEF OutboxOK, SeenOK
<1>17. SentOK(js', server')
  BY <1>0, <1>5 DEF OutboxOK, SentOK
<1> QED BY <1>7, <1>9, <1>10, <1>11, <1>13, <1>14, <1>15, <1>16, <1>17 DEF OutboxOK

-----------------------------------------------------------------------------
(* The JS flusher.                                                         *)

LEMMA GetOutboxStep ==
  ASSUME TypesOK, OutboxOK, GetOutbox
  PROVE  TypesOK' /\ OutboxOK'
<1> DEFINE new == ToSet(Fresh("js"))
<1>0. /\ clock' = clock /\ fcm' = fcm /\ token' = token /\ mirror' = mirror
      /\ op' = op /\ server' = server /\ repeatable' = repeatable /\ events' = events
      /\ js.pc = "outbox" /\ seen' = seen
      /\ Claim("js", clock + JsLease)
      /\ js' = Ended \/ js' = [js EXCEPT !.pc = "token", !.pending = Fresh("js")]
  BY DEF GetOutbox, identityVars, serverVars
<1>1. BoxOK(entries, handled) /\ entries \in Seq(Entry) /\ clock + JsLease \in Nat
      /\ js \in Jss
  BY ConstantsAssumption DEF OutboxOK, TypesOK
<1>2. "js" \in Flushers
  BY DEF Flushers
<1>3. /\ entries' \in Seq(Entry) /\ lease' \in [Pushes -> Leases] /\ handled' = handled
      /\ BoxOK(entries', handled')
      /\ Keys(entries') \subseteq Keys(entries)
      /\ \A p \in ToSet(Fresh("js")) : lease'[p] = [owner |-> "js", until |-> clock + JsLease]
      /\ \A p \in Keys(entries') : p \in ToSet(Fresh("js")) \/ lease'[p] = lease[p]
  BY <1>0, <1>1, <1>2, ClaimIs
<1>4. /\ Fresh("js") \in Seq(Pushes) /\ Once(Fresh("js"))
      /\ new \subseteq Keys(entries)
      /\ \A p \in new : lease[p].owner \in {"none", "js"}
  BY <1>1, FreshIs
<1>5. /\ js' \in Jss /\ Once(js'.pending)
      /\ js'.pc \in {"outbox", "settled", "token"}
      /\ js'.pc = "token" => js'.pending = Fresh("js")
  <2>1. CASE js' = Ended
    BY <2>1, EndedIs, NothingPending
  <2>2. CASE js' = [js EXCEPT !.pc = "token", !.pending = Fresh("js")]
    <3>1. js' \in Jss
      BY <2>2, <1>1, <1>4 DEF Jss, Sending
    <3>2. js'.pc = "token" /\ js'.pending = Fresh("js")
      BY <2>2, <1>1 DEF Jss
    <3> QED BY <3>1, <3>2, <1>4
  <2> QED BY <2>1, <2>2, <1>0
<1>6. \A p \in Pushes : AtJs(p, js') => p \in new
  BY <1>5 DEF AtJs, Sending
<1>7. \A p \in Pushes : ~AtJs(p, js) /\ ~Sent(p, js) /\ ~Sent(p, js')
  BY <1>0, <1>5 DEF AtJs, Sent, Sending
<1> HIDE DEF new
<1>8. \A p \in new : p \in Keys(entries) /\ p \in handled
  BY <1>1, <1>4 DEF BoxOK
<1>9. \A p \in Pushes : AtNative(p, fcm) => p \notin new
  BY <1>4, <1>8 DEF OutboxOK, NativeLeased
<1>10. TypesOK'
  BY <1>0, <1>3, <1>5 DEF TypesOK
<1>11. HandedOK(fcm', js', handled', clock')
  <2>1. /\ Once(fcm.pending) /\ \A p \in Pushes : AtNative(p, fcm) => p \in handled
        /\ fcm.pc = "post" => clock <= fcm.deadline
    BY DEF OutboxOK, HandedOK
  <2> QED BY <2>1, <1>0, <1>3, <1>5, <1>6, <1>8 DEF HandedOK
<1>12. NativeLeased(entries', lease', fcm')
  <2> SUFFICES ASSUME NEW p \in Pushes, AtNative(p, fcm)
               PROVE  \/ p \notin Keys(entries')
                      \/ lease'[p].owner = "native" /\ fcm.deadline < lease'[p].until
    BY <1>0 DEF NativeLeased
  <2>1. \/ p \notin Keys(entries)
        \/ lease[p].owner = "native" /\ fcm.deadline < lease[p].until
    BY DEF OutboxOK, NativeLeased
  <2>2. p \notin new
    BY <1>9
  <2> QED BY <2>1, <2>2, <1>3 DEF new
<1>13. JsLeased(entries', lease', js', repeatable')
  <2> SUFFICES ASSUME NEW p \in Pushes, AtJs(p, js')
               PROVE  lease'[p].owner = "js"
    BY DEF JsLeased
  <2>1. lease'[p] = [owner |-> "js", until |-> clock + JsLease]
    BY <1>3, <1>6 DEF new
  <2> QED BY <2>1
<1>14. HeldApart(fcm', js', repeatable')
  BY <1>0, <1>6, <1>9 DEF HeldApart
<1>15. TakenOK(entries', fcm', js', handled', seen', server', repeatable')
  <2> SUFFICES ASSUME NEW p \in Pushes, p \notin repeatable
               PROVE  server[p] = "taken" =>
                           /\ p \notin Keys(entries')
                           /\ ~AtNative(p, fcm)
                           /\ ~AtJs(p, js')
                           /\ p \in handled \cup seen
    BY <1>0, <1>3 DEF TakenOK
  <2>1. server[p] = "taken" =>
             /\ p \notin Keys(entries)
             /\ ~AtNative(p, fcm)
             /\ p \in handled \cup seen
    BY <1>7 DEF OutboxOK, TakenOK
  <2> QED BY <2>1, <1>3, <1>6, <1>8
<1>16. SeenOK(fcm', handled', seen', repeatable')
  BY <1>0, <1>3 DEF OutboxOK, SeenOK
<1>17. SentOK(js', server')
  BY <1>7 DEF SentOK
<1> QED BY <1>3, <1>10, <1>11, <1>12, <1>13, <1>14, <1>15, <1>16, <1>17 DEF OutboxOK

LEMMA JsAnswerIs ==
  ASSUME js \in Jss, NEW outcome \in Outcomes, JsAnswer(outcome)
  PROVE  /\ js' \in Jss
         /\ \/ js'.pending = js.pending /\ js'.pc \in {"remove", "retoken", "sleep"}
            \/ js'.pending = <<>> /\ js'.pc \in {"outbox", "settled"}
         /\ js'.pc = "remove" <=> outcome \in Final
<1>1. outcome \in {"accepted", "refused", "lost", "failed", "denied"}
  BY DEF Outcomes
<1>2. js' = CASE outcome \in Final -> [js EXCEPT !.pc = "remove"]
              [] outcome = "denied" /\ ~js.refreshed ->
                   [js EXCEPT !.pc = "retoken"]
              [] outcome \in {"lost", "failed"} /\ js.failures + 1 < MaxFailures ->
                   [js EXCEPT !.pc = "sleep", !.failures = @ + 1]
              [] OTHER -> Ended
  BY DEF JsAnswer
<1>3. CASE outcome \in Final
  <2>1. js' = [js EXCEPT !.pc = "remove"]
    BY <1>2, <1>3 DEF Final
  <2> QED BY <2>1, <1>3 DEF Jss, Sending
<1>4. CASE outcome \notin Final
  <2>1. \/ js' = [js EXCEPT !.pc = "retoken"]
        \/ js' = [js EXCEPT !.pc = "sleep", !.failures = @ + 1]
        \/ js' = Ended
    BY <1>1, <1>2, <1>4 DEF Final
  <2>2. ASSUME js' = [js EXCEPT !.pc = "retoken"]
        PROVE  js' \in Jss /\ js'.pending = js.pending /\ js'.pc = "retoken"
    BY <2>2 DEF Jss, Sending
  <2>3. ASSUME js' = [js EXCEPT !.pc = "sleep", !.failures = @ + 1]
        PROVE  js' \in Jss /\ js'.pending = js.pending /\ js'.pc = "sleep"
    <3>1. js.failures + 1 \in Nat
      BY JsIs
    <3>2. js' = [js EXCEPT !.pc = "sleep", !.failures = js.failures + 1]
      BY <2>3
    <3> QED BY <3>1, <3>2 DEF Jss, Sending
  <2> QED BY <2>1, <2>2, <2>3, <1>4, EndedIs
<1> QED BY <1>3, <1>4

(* What the server took or refused waits to be removed.                    *)
LEMMA JsAnswerStep ==
  ASSUME TypesOK, OutboxOK, NEW outcome \in Outcomes, JsAnswer(outcome)
  PROVE  TypesOK' /\ OutboxOK'
<1> DEFINE keys == ToSet(Batch(js.pending))
<1>0. /\ clock' = clock /\ fcm' = fcm /\ token' = token /\ mirror' = mirror
      /\ op' = op /\ events' = events /\ js.pc = "post" /\ seen' = seen
      /\ entries' = entries /\ lease' = lease /\ handled' = handled
      /\ Answer(keys, outcome)
  BY DEF JsAnswer, identityVars, boxVars
<1>1. js \in Jss /\ js.pending \in Seq(Pushes) /\ Once(js.pending)
  BY JsIs DEF TypesOK, OutboxOK, HandedOK
<1>2. keys \subseteq ToSet(js.pending) /\ ToSet(js.pending) \subseteq Pushes
  BY <1>1, BatchIs
<1>3. keys \in SUBSET Pushes
  BY <1>2
<1>4. \A p \in keys : AtJs(p, js)
  BY <1>0, <1>2 DEF AtJs, Sending
<1>5. /\ server' \in [Pushes -> Made]
      /\ repeatable \subseteq repeatable' /\ repeatable' \subseteq Pushes
      /\ outcome = "lost" => keys \subseteq repeatable'
      /\ \A p \in Pushes \ keys : server'[p] = server[p]
      /\ \A p \in Pushes : server[p] # "none" => server'[p] # "none"
      /\ outcome \in Final => \A p \in keys : server'[p] # "none"
      /\ outcome \notin {"accepted", "lost"} => \A p \in Pushes :
           \/ server'[p] = server[p]
           \/ server'[p] = "refused"
      /\ \A p \in Pushes : server'[p] = "repeated" =>
           server[p] = "repeated" \/ (p \in keys /\ server[p] = "taken" /\ p \notin repeatable)
  BY <1>0, <1>3, AnswerIs
<1>6. /\ js' \in Jss
      /\ \/ js'.pending = js.pending /\ js'.pc \in {"remove", "retoken", "sleep"}
         \/ js'.pending = <<>> /\ js'.pc \in {"outbox", "settled"}
      /\ js'.pc = "remove" <=> outcome \in Final
  BY <1>1, JsAnswerIs
<1>7. Once(js'.pending)
  BY <1>1, <1>6, NothingPending
<1>8. \A p \in Pushes : (AtJs(p, js') => AtJs(p, js)) /\ ~Sent(p, js)
  BY <1>0, <1>6 DEF AtJs, Sent, Sending
<1>9. \A p \in Pushes : Sent(p, js') <=> outcome \in Final /\ p \in keys
  BY <1>6 DEF Sent
<1> HIDE DEF keys
<1>10. TypesOK'
  BY <1>0, <1>5, <1>6 DEF TypesOK
<1>11. HandedOK(fcm', js', handled', clock')
  <2>1. /\ Once(fcm.pending)
        /\ \A p \in Pushes : AtNative(p, fcm) \/ AtJs(p, js) => p \in handled
        /\ fcm.pc = "post" => clock <= fcm.deadline
    BY DEF OutboxOK, HandedOK
  <2> QED BY <2>1, <1>0, <1>7, <1>8 DEF HandedOK
<1>12. JsLeased(entries', lease', js', repeatable')
  BY <1>0, <1>5, <1>8 DEF OutboxOK, JsLeased
<1>13. HeldApart(fcm', js', repeatable')
  BY <1>0, <1>5, <1>8 DEF OutboxOK, HeldApart
<1>14. TakenOK(entries', fcm', js', handled', seen', server', repeatable')
  <2> SUFFICES ASSUME NEW p \in Pushes, p \notin repeatable'
               PROVE  server'[p] = "taken" =>
                           /\ p \notin Keys(entries) \/ Sent(p, js')
                           /\ ~AtNative(p, fcm)
                           /\ AtJs(p, js') => Sent(p, js')
                           /\ p \in handled \cup seen
    BY <1>0 DEF TakenOK
  <2>1. /\ server[p] = "taken" =>
             /\ p \notin Keys(entries)
             /\ ~AtNative(p, fcm)
             /\ ~AtJs(p, js)
             /\ p \in handled \cup seen
        /\ p \notin repeatable
    BY <1>5, <1>8 DEF OutboxOK, TakenOK
  <2>2. CASE p \in keys
    <3>1. server[p] # "taken" /\ ~AtNative(p, fcm) /\ p \in handled
      BY <2>1, <2>2, <1>4 DEF OutboxOK, HandedOK, HeldApart
    <3>3. outcome # "lost"
      BY <2>2, <1>5
    <3>4. CASE outcome = "accepted"
      <4>1. Sent(p, js')
        BY <3>4, <2>2, <1>9 DEF Final
      <4> QED BY <4>1, <3>1
    <3>5. CASE outcome # "accepted"
      <4>1. server'[p] # "taken"
        BY <3>1, <3>3, <3>5, <1>5
      <4> QED BY <4>1
    <3> QED BY <3>4, <3>5
  <2>3. CASE p \notin keys
    <3>1. server'[p] = server[p]
      BY <2>3, <1>5
    <3> QED BY <3>1, <2>1, <1>8
  <2> QED BY <2>2, <2>3
<1>15. SeenOK(fcm', handled', seen', repeatable')
  BY <1>0, <1>5 DEF OutboxOK, SeenOK
<1>16. SentOK(js', server')
  BY <1>5, <1>9 DEF SentOK
<1>17. BoxOK(entries', handled') /\ NativeLeased(entries', lease', fcm')
  BY <1>0 DEF OutboxOK
<1> QED BY <1>10, <1>11, <1>12, <1>13, <1>14, <1>15, <1>16, <1>17 DEF OutboxOK

LEMMA RemoveEntriesStep ==
  ASSUME TypesOK, OutboxOK, RemoveEntries
  PROVE  TypesOK' /\ OutboxOK'
<1> DEFINE keys == ToSet(Batch(js.pending))
           rest == Rest(js.pending)
<1>0. /\ clock' = clock /\ fcm' = fcm /\ token' = token /\ mirror' = mirror
      /\ op' = op /\ server' = server /\ repeatable' = repeatable /\ events' = events
      /\ js.pc = "remove" /\ seen' = seen
      /\ RemoveKeys(keys)
      /\ js' = Ended \/ js' = [js EXCEPT !.pc = "post", !.pending = rest, !.refreshed = FALSE]
  BY DEF RemoveEntries, identityVars, serverVars
<1>1. /\ BoxOK(entries, handled) /\ js \in Jss
      /\ js.pending \in Seq(Pushes) /\ Once(js.pending)
  BY JsIs DEF OutboxOK, TypesOK, HandedOK
<1>2. /\ rest \in Seq(Pushes) /\ Once(rest)
      /\ keys \subseteq ToSet(js.pending) /\ ToSet(rest) \subseteq ToSet(js.pending)
      /\ ToSet(js.pending) \subseteq Pushes
      /\ keys \cap ToSet(rest) = {}
  BY <1>1, BatchIs
<1>3. \A p \in Pushes : Sent(p, js) <=> p \in keys
  BY <1>0 DEF Sent
<1> HIDE DEF keys, rest
<1>4. /\ entries' \in Seq(Entry) /\ lease' \in [Pushes -> Leases] /\ handled' = handled
      /\ BoxOK(entries', handled')
      /\ Keys(entries') = Keys(entries) \ keys
      /\ \A p \in Pushes \ keys : lease'[p] = lease[p]
  BY <1>0, <1>1, RemoveIs
<1>5. /\ js' \in Jss /\ Once(js'.pending) /\ js'.pc \in {"outbox", "settled", "post"}
      /\ js'.pc = "post" => js'.pending = rest
  <2>1. CASE js' = Ended
    BY <2>1, EndedIs, NothingPending
  <2>2. CASE js' = [js EXCEPT !.pc = "post", !.pending = rest, !.refreshed = FALSE]
    <3>1. js' \in Jss
      BY <2>2, <1>1, <1>2 DEF Jss, Sending
    <3>2. js'.pc = "post" /\ js'.pending = rest
      BY <2>2, <1>1 DEF Jss
    <3> QED BY <3>1, <3>2, <1>2
  <2> QED BY <2>1, <2>2, <1>0
<1>6. ASSUME NEW p \in Pushes, AtJs(p, js')
      PROVE  AtJs(p, js) /\ p \notin keys
  <2>1. p \in ToSet(rest)
    BY <1>5, <1>6 DEF AtJs, Sending
  <2> QED BY <2>1, <1>0, <1>2 DEF AtJs, Sending
<1>7. \A p \in Pushes : ~Sent(p, js')
  BY <1>5 DEF Sent
<1>8. TypesOK'
  BY <1>0, <1>4, <1>5 DEF TypesOK
<1>9. HandedOK(fcm', js', handled', clock')
  <2>1. /\ Once(fcm.pending)
        /\ \A p \in Pushes : AtNative(p, fcm) \/ AtJs(p, js) => p \in handled
        /\ fcm.pc = "post" => clock <= fcm.deadline
    BY DEF OutboxOK, HandedOK
  <2> QED BY <2>1, <1>0, <1>4, <1>5, <1>6 DEF HandedOK
<1>10. NativeLeased(entries', lease', fcm')
  BY <1>0, <1>4 DEF OutboxOK, NativeLeased
<1>11. JsLeased(entries', lease', js', repeatable')
  BY <1>0, <1>4, <1>6 DEF OutboxOK, JsLeased
<1>12. HeldApart(fcm', js', repeatable')
  BY <1>0, <1>6 DEF OutboxOK, HeldApart
<1>13. TakenOK(entries', fcm', js', handled', seen', server', repeatable')
  <2> SUFFICES ASSUME NEW p \in Pushes, p \notin repeatable
               PROVE  server[p] = "taken" =>
                           /\ p \notin Keys(entries')
                           /\ ~AtNative(p, fcm)
                           /\ ~AtJs(p, js')
                           /\ p \in handled \cup seen
    BY <1>0, <1>4 DEF TakenOK
  <2>1. server[p] = "taken" =>
             /\ p \notin Keys(entries) \/ p \in keys
             /\ ~AtNative(p, fcm)
             /\ AtJs(p, js) => p \in keys
             /\ p \in handled \cup seen
    BY <1>3 DEF OutboxOK, TakenOK
  <2> QED BY <2>1, <1>4, <1>6
<1>14. SeenOK(fcm', handled', seen', repeatable')
  BY <1>0, <1>4 DEF OutboxOK, SeenOK
<1>15. SentOK(js', server')
  BY <1>7 DEF SentOK
<1> QED BY <1>4, <1>8, <1>9, <1>10, <1>11, <1>12, <1>13, <1>14, <1>15 DEF OutboxOK

-----------------------------------------------------------------------------
(* The identity calls and the environment.                                 *)

(* An emptied outbox: what was handed out is sent all the same, and not    *)
(* queued again.                                                           *)
LEMMA ClearKeeps ==
  ASSUME TypesOK, OutboxOK, Clear, UNCHANGED <<outside, js>>
  PROVE  /\ OutboxOK'
         /\ entries' \in Seq(Entry) /\ lease' \in [Pushes -> Leases] /\ handled' = handled
<1>0. /\ clock' = clock /\ fcm' = fcm /\ js' = js /\ seen' = seen
      /\ server' = server /\ repeatable' = repeatable
  BY DEF outside, serverVars
<1>1. /\ entries' = <<>> /\ lease' \in [Pushes -> Leases] /\ handled' = handled
      /\ Keys(entries') = {}
      /\ \A h : BoxOK(entries', h)
  BY ClearIs
<1>2. NativeLeased(entries', lease', fcm') /\ JsLeased(entries', lease', js', repeatable')
  BY <1>1 DEF NativeLeased, JsLeased
<1>3. TakenOK(entries', fcm', js', handled', seen', server', repeatable')
  BY <1>0, <1>1 DEF OutboxOK, TakenOK
<1>4. HandedOK(fcm', js', handled', clock') /\ HeldApart(fcm', js', repeatable')
      /\ SeenOK(fcm', handled', seen', repeatable') /\ SentOK(js', server')
  BY <1>0, <1>1 DEF OutboxOK
<1>5. entries' \in Seq(Entry)
  BY <1>1
<1> QED BY <1>1, <1>2, <1>3, <1>4, <1>5 DEF OutboxOK

LEMMA SocketSeesStep ==
  ASSUME TypesOK, OutboxOK, NEW p \in Pushes, SocketSees(p)
  PROVE  TypesOK' /\ OutboxOK'
<1>0. /\ clock' = clock /\ fcm' = fcm /\ js' = js /\ token' = token /\ mirror' = mirror
      /\ op' = op /\ server' = server /\ repeatable' = repeatable /\ events' = events + 1
      /\ entries' = entries /\ lease' = lease /\ handled' = handled
      /\ seen' = seen \cup {p}
  BY DEF SocketSees, Event, identityVars, boxVars, serverVars
<1>1. events' \in Nat
  BY <1>0 DEF TypesOK
<1>2. TypesOK'
  BY <1>0, <1>1 DEF TypesOK
<1>3. TakenOK(entries', fcm', js', handled', seen', server', repeatable')
  BY <1>0 DEF OutboxOK, TakenOK
<1>4. SeenOK(fcm', handled', seen', repeatable')
  BY <1>0 DEF OutboxOK, SeenOK
<1>5. /\ BoxOK(entries', handled') /\ HandedOK(fcm', js', handled', clock')
      /\ NativeLeased(entries', lease', fcm') /\ JsLeased(entries', lease', js', repeatable')
      /\ HeldApart(fcm', js', repeatable') /\ SentOK(js', server')
  BY <1>0 DEF OutboxOK
<1> QED BY <1>2, <1>3, <1>4, <1>5 DEF OutboxOK

(* A lease of native outlasts the request; one of JS need not, and a       *)
(* second report of what it holds is then explained.                       *)
LEMMA TickStep ==
  ASSUME TypesOK, OutboxOK, Tick
  PROVE  TypesOK' /\ OutboxOK'
<1> DEFINE lapsed == {p \in Pushes : lease[p].until = clock'}
<1>0. /\ clock' = clock + 1 /\ ~(fcm.pc = "post" /\ clock >= fcm.deadline)
      /\ fcm' = fcm /\ js' = js /\ token' = token /\ mirror' = mirror
      /\ op' = op /\ server' = server /\ events' = events
      /\ entries' = entries /\ handled' = handled /\ seen' = seen
      /\ lease' = [p \in Pushes |-> IF p \in lapsed THEN NoLease ELSE lease[p]]
      /\ repeatable' = repeatable \cup (lapsed \cap ToSet(js.pending))
  BY DEF Tick, identityVars
<1>1. /\ clock \in Nat /\ lease \in [Pushes -> Leases] /\ repeatable \subseteq Pushes
      /\ fcm.deadline \in Nat
  BY FcmIs DEF TypesOK
<1>2. NoLease \in Leases
  BY DEF Leases, NoLease
<1>3. lease' \in [Pushes -> Leases]
  BY <1>0, <1>1, <1>2
<1>4. repeatable' \subseteq Pushes /\ clock' \in Nat
  BY <1>0, <1>1
<1>5. TypesOK'
  BY <1>0, <1>3, <1>4 DEF TypesOK
<1>6. fcm.pc = "post" => clock' <= fcm.deadline
  BY <1>0, <1>1
<1>7. HandedOK(fcm', js', handled', clock')
  BY <1>0, <1>6 DEF OutboxOK, HandedOK
<1>8. NativeLeased(entries', lease', fcm')
  <2> SUFFICES ASSUME NEW p \in Pushes, AtNative(p, fcm)
               PROVE  \/ p \notin Keys(entries)
                      \/ lease'[p].owner = "native" /\ fcm.deadline < lease'[p].until
    BY <1>0 DEF NativeLeased
  <2>1. \/ p \notin Keys(entries)
        \/ lease[p].owner = "native" /\ fcm.deadline < lease[p].until
    BY DEF OutboxOK, NativeLeased
  <2>2. clock' <= fcm.deadline
    BY <1>6 DEF AtNative
  <2>3. lease[p].until \in Nat
    BY <1>1 DEF Leases
  <2>4. fcm.deadline < lease[p].until => p \notin lapsed
    BY <2>2, <2>3, <1>1, <1>4
  <2>5. p \notin lapsed => lease'[p] = lease[p]
    BY <1>0
  <2> QED BY <2>1, <2>4, <2>5
<1>9. JsLeased(entries', lease', js', repeatable')
  <2> SUFFICES ASSUME NEW p \in Pushes, AtJs(p, js), p \notin repeatable'
               PROVE  p \notin Keys(entries) \/ lease'[p].owner = "js"
    BY <1>0 DEF JsLeased
  <2>1. p \notin lapsed /\ p \notin repeatable
    BY <1>0 DEF AtJs
  <2>2. lease'[p] = lease[p]
    BY <1>0, <2>1
  <2> QED BY <2>1, <2>2 DEF OutboxOK, JsLeased
<1> HIDE DEF lapsed
<1>10. HeldApart(fcm', js', repeatable')
  BY <1>0 DEF OutboxOK, HeldApart
<1>11. TakenOK(entries', fcm', js', handled', seen', server', repeatable')
  BY <1>0 DEF OutboxOK, TakenOK
<1>12. SeenOK(fcm', handled', seen', repeatable')
  BY <1>0 DEF OutboxOK, SeenOK
<1>13. BoxOK(entries', handled') /\ SentOK(js', server')
  BY <1>0 DEF OutboxOK
<1> QED BY <1>5, <1>7, <1>8, <1>9, <1>10, <1>11, <1>12, <1>13 DEF OutboxOK

(* What the next process may report again is what it no longer knows: the  *)
(* queued, the push that super.handleIntent worked on, and the seen ids    *)
(* that were not written.                                                  *)
LEMMA CrashStep ==
  ASSUME TypesOK, OutboxOK, Crash
  PROVE  TypesOK' /\ OutboxOK' /\ js'.pc = "off" /\ op'.pc = "idle"
<1>0. /\ clock' = clock /\ token' = token /\ mirror' = mirror
      /\ entries' = entries /\ server' = server /\ events' = events + 1
      /\ lease' = [p \in Pushes |-> NoLease]
      /\ handled' = Keys(entries)
      /\ fcm' = FcmIdle /\ js' = JsOff /\ op' = OpIdle
  BY DEF Crash, Event
<1>1. /\ seen' \in SUBSET seen
      /\ repeatable' = repeatable \cup Keys(entries) \cup (seen \ seen')
                         \cup ({fcm.push} \ {NoPush})
  BY DEF Crash
<1>2. entries \in Seq(Entry) /\ Keys(entries) \subseteq Pushes /\ fcm.push \in Pushes \cup {NoPush}
      /\ seen \subseteq Pushes /\ repeatable \subseteq Pushes /\ events' \in Nat
  BY <1>0, SeqEntry, FcmIs DEF TypesOK
<1>3. lease' \in [Pushes -> Leases]
  <2>1. NoLease \in Leases
    BY DEF Leases, NoLease
  <2> QED BY <2>1, <1>0
<1>4. /\ fcm' \in Fcms /\ fcm'.pc = "idle" /\ fcm'.pending = <<>>
      /\ js' \in Jss /\ js'.pc = "off" /\ js'.pending = <<>>
  BY <1>0, FcmIdleIs, JsOffIs
<1>5. op' \in Ops /\ op'.pc = "idle"
  BY <1>0 DEF OpIdle, Ops
<1>6. seen' \subseteq Pushes /\ repeatable' \subseteq Pushes
  BY <1>1, <1>2
<1>7. TypesOK'
  BY <1>0, <1>2, <1>3, <1>4, <1>5, <1>6 DEF TypesOK
<1>8. \A p \in Pushes : ~AtNative(p, fcm') /\ ~AtJs(p, js') /\ ~Sent(p, js')
  BY <1>4 DEF AtNative, AtJs, Sent, Sending
<1>9. BoxOK(entries', handled')
  BY <1>0 DEF OutboxOK, BoxOK
<1>10. HandedOK(fcm', js', handled', clock')
  BY <1>4, <1>8, NothingPending DEF HandedOK
<1>11. /\ NativeLeased(entries', lease', fcm') /\ JsLeased(entries', lease', js', repeatable')
       /\ HeldApart(fcm', js', repeatable') /\ SentOK(js', server')
  BY <1>8 DEF NativeLeased, JsLeased, HeldApart, SentOK
<1>12. TakenOK(entries', fcm', js', handled', seen', server', repeatable')
  <2> SUFFICES ASSUME NEW p \in Pushes, p \notin repeatable'
               PROVE  server[p] = "taken" => p \notin Keys(entries) /\ p \in seen'
    BY <1>0, <1>8 DEF TakenOK
  <2>1. server[p] = "taken" => p \in handled \cup seen
    BY <1>1 DEF OutboxOK, TakenOK
  <2>2. p \notin Keys(entries) /\ (p \in seen => p \in seen') /\ p \notin repeatable
    BY <1>1
  <2>3. p # fcm.push \/ p = NoPush
    BY <1>1
  <2>4. p # NoPush
    BY ConstantsAssumption
  <2>5. p \in handled => p \in seen
    BY <2>2, <2>3, <2>4 DEF OutboxOK, SeenOK
  <2> QED BY <2>1, <2>2, <2>5
<1>13. SeenOK(fcm', handled', seen', repeatable')
  BY <1>0, <1>1, <1>4 DEF SeenOK
<1> QED BY <1>4, <1>5, <1>7, <1>9, <1>10, <1>11, <1>12, <1>13 DEF OutboxOK

LEMMA OpIs ==
  ASSUME NEW o \in Ops
  PROVE  /\ o.user \in Users \cup {"none"}
         /\ \A pc \in {"idle", "drop", "mint", "mirror", "subscribe", "clear", "unmirror",
                       "delete"} :
              [o EXCEPT !.pc = pc] \in Ops /\ [o EXCEPT !.pc = pc].pc = pc
  BY DEF Ops

LEMMA OpIdleIs == OpIdle \in Ops /\ OpIdle.pc = "idle"
  BY DEF OpIdle, Ops

(* The credentials are as good as they were for a step that neither writes *)
(* one nor starts the app.                                                 *)
LEMMA IdentityKeeps ==
  ASSUME IdentityOK, UNCHANGED identityVars, js'.pc # "off" => js.pc # "off"
  PROVE  IdentityOK'
<1>1. /\ token' = token /\ mirror' = mirror /\ op' = op /\ launch' = launch
      /\ failed' = failed
  BY DEF identityVars
<1>2. MirrorOK(op.pc, js'.pc # "off", token, mirror, launch, failed)
  BY DEF IdentityOK, MirrorOK
<1> QED BY <1>1, <1>2 DEF IdentityOK

LEMMA WriteMirrorIs ==
  ASSUME TypesOK, NEW t \in Sessions, NEW ok, WriteMirror(t, ok)
  PROVE  mirror' \in Sessions /\ (mirror' = t \/ failed' = "mirror")
  BY DEF WriteMirror, TypesOK

(* One step of setIdentity or removeIdentity.                              *)
LEMMA IdentityCallStep ==
  ASSUME IInv,
         \/ (\E u \in Users : SetIdentity(u)) \/ RemoveIdentity
         \/ DropReports \/ GenerateToken \/ GenerateTokenFails \/ ClearReports
         \/ \E ok \in BOOLEAN :
              MirrorSession(ok) \/ SubscribeUser(ok) \/ ClearSession(ok) \/ DeleteToken(ok)
  PROVE  IInv'
<1>0. /\ TypesOK /\ OutboxOK /\ op \in Ops /\ js \in Jss /\ token \in Sessions
      /\ MirrorOK(op.pc, js.pc # "off", token, mirror, launch, failed)
  BY DEF IInv, TypesOK, IdentityOK
<1>b. Event => events' \in Nat
  BY <1>0 DEF Event, TypesOK
<1>1. ASSUME NEW u \in Users, SetIdentity(u) PROVE IInv'
  <2>1. /\ UNCHANGED <<outside, boxVars, js, token, mirror, launch, failed>>
        /\ op.pc = "idle" /\ events' \in Nat
    BY <1>1, <1>b DEF SetIdentity
  <2>2. op' \in Ops /\ op'.pc \in {"drop", "mint"}
    BY <1>1 DEF SetIdentity, Ops
  <2>3. OutboxOK'
    BY <1>0, <2>1, JsKeeps
  <2>4. TypesOK'
    BY <1>0, <2>1, <2>2 DEF TypesOK, outside, boxVars, serverVars
  <2>5. MirrorOK(op'.pc, js.pc # "off", token, mirror, launch, failed)
    BY <1>0, <2>1, <2>2 DEF MirrorOK
  <2> QED BY <2>1, <2>3, <2>4, <2>5 DEF IInv, IdentityOK
<1>2. ASSUME RemoveIdentity PROVE IInv'
  <2>1. /\ UNCHANGED <<outside, boxVars, js, token, mirror, launch, failed>>
        /\ op.pc = "idle" /\ events' \in Nat
    BY <1>2, <1>b DEF RemoveIdentity
  <2>2. op' \in Ops /\ op'.pc = "clear"
    BY <1>2, OpIdleIs, OpIs DEF RemoveIdentity
  <2>3. OutboxOK'
    BY <1>0, <2>1, JsKeeps
  <2>4. TypesOK'
    BY <1>0, <2>1, <2>2 DEF TypesOK, outside, boxVars, serverVars
  <2>5. MirrorOK(op'.pc, js.pc # "off", token, mirror, launch, failed)
    BY <1>0, <2>1, <2>2 DEF MirrorOK
  <2> QED BY <2>1, <2>3, <2>4, <2>5 DEF IInv, IdentityOK
<1>3. ASSUME DropReports \/ ClearReports PROVE IInv'
  <2>1. /\ UNCHANGED <<outside, js, token, mirror, launch, failed, events>> /\ Clear
        /\ \/ op.pc = "drop" /\ op' = [op EXCEPT !.pc = "mint"]
           \/ op.pc = "clear" /\ op' = [op EXCEPT !.pc = "unmirror"]
    BY <1>3 DEF DropReports, ClearReports
  <2>2. /\ op' \in Ops
        /\ (op.pc = "drop" /\ op'.pc = "mint") \/ op'.pc = "unmirror"
    <3>1. /\ [op EXCEPT !.pc = "mint"] \in Ops /\ [op EXCEPT !.pc = "mint"].pc = "mint"
          /\ [op EXCEPT !.pc = "unmirror"] \in Ops
          /\ [op EXCEPT !.pc = "unmirror"].pc = "unmirror"
      BY <1>0, OpIs
    <3> QED BY <3>1, <2>1
  <2>3. /\ OutboxOK'
        /\ entries' \in Seq(Entry) /\ lease' \in [Pushes -> Leases] /\ handled' = handled
    BY <1>0, <2>1, ClearKeeps
  <2>4. TypesOK'
    BY <1>0, <2>1, <2>2, <2>3 DEF TypesOK, outside, serverVars
  <2>5. MirrorOK(op'.pc, js.pc # "off", token, mirror, launch, failed)
    BY <1>0, <2>2 DEF MirrorOK
  <2> QED BY <2>1, <2>3, <2>4, <2>5 DEF IInv, IdentityOK
<1>4. ASSUME GenerateToken PROVE IInv'
  <2>1. /\ UNCHANGED <<outside, boxVars, js, mirror, launch, failed, events>>
        /\ op' = [op EXCEPT !.pc = "mirror"] /\ token' = [user |-> op.user, serial |-> events]
    BY <1>4 DEF GenerateToken
  <2>2. op' \in Ops /\ op'.pc = "mirror"
    BY <1>0, <2>1, OpIs
  <2>3. OutboxOK'
    BY <1>0, <2>1, JsKeeps
  <2>a. token' \in Sessions
    BY <1>0, <2>1, OpIs DEF Sessions, TypesOK
  <2>4. TypesOK'
    BY <1>0, <2>1, <2>2, <2>a DEF TypesOK, outside, boxVars, serverVars
  <2>5. MirrorOK(op'.pc, js'.pc # "off", token', mirror', launch', failed')
    BY <2>2 DEF MirrorOK
  <2> QED BY <2>3, <2>4, <2>5 DEF IInv, IdentityOK
<1>5. ASSUME GenerateTokenFails PROVE IInv'
  <2>1. /\ UNCHANGED <<outside, boxVars, js, token, mirror, launch, failed, events>>
        /\ op.pc = "mint" /\ op' = OpIdle
    BY <1>5 DEF GenerateTokenFails, EndOp
  <2>2. op' \in Ops /\ op'.pc = "idle"
    BY <2>1, OpIdleIs
  <2>3. OutboxOK'
    BY <1>0, <2>1, JsKeeps
  <2>4. TypesOK'
    BY <1>0, <2>1, <2>2 DEF TypesOK, outside, boxVars, serverVars
  <2>5. MirrorOK(op'.pc, js.pc # "off", token, mirror, launch, failed)
    BY <1>0, <2>1, <2>2 DEF MirrorOK
  <2> QED BY <2>1, <2>3, <2>4, <2>5 DEF IInv, IdentityOK
<1>6. ASSUME NEW ok \in BOOLEAN, MirrorSession(ok) PROVE IInv'
  <2>1. /\ UNCHANGED <<outside, boxVars, js, token, launch, events>>
        /\ op' = [op EXCEPT !.pc = "subscribe"] /\ WriteMirror(token, ok)
    BY <1>6 DEF MirrorSession
  <2>2. op' \in Ops /\ op'.pc = "subscribe"
    BY <1>0, <2>1, OpIs
  <2>3. OutboxOK'
    BY <1>0, <2>1, JsKeeps
  <2>a. mirror' \in Sessions /\ (mirror' = token \/ failed' = "mirror")
    BY <1>0, <2>1, WriteMirrorIs
  <2>4. TypesOK'
    BY <1>0, <2>1, <2>2, <2>a DEF TypesOK, outside, boxVars, serverVars
  <2>5. MirrorOK(op'.pc, js'.pc # "off", token', mirror', launch', failed')
    BY <2>1, <2>2, <2>a DEF MirrorOK, Follows
  <2> QED BY <2>3, <2>4, <2>5 DEF IInv, IdentityOK
<1>7. ASSUME NEW ok \in BOOLEAN, SubscribeUser(ok) PROVE IInv'
  <2>1. /\ UNCHANGED <<outside, boxVars, token, mirror, launch, failed, events>>
        /\ op.pc = "subscribe" /\ op' = OpIdle /\ (js' = Flushed \/ js' = js)
    BY <1>7 DEF SubscribeUser, EndOp
  <2>2. op' \in Ops /\ op'.pc = "idle"
    BY <2>1, OpIdleIs
  <2>3. OutboxOK'
    BY <1>0, <2>1, JsKeeps
  <2>a. js' \in Jss
    BY <1>0, <2>1, FlushedIs
  <2>4. TypesOK'
    BY <1>0, <2>1, <2>2, <2>a DEF TypesOK, outside, boxVars, serverVars
  <2>5. MirrorOK(op'.pc, js'.pc # "off", token, mirror, launch, failed)
    BY <1>0, <2>1, <2>2 DEF MirrorOK
  <2> QED BY <2>1, <2>3, <2>4, <2>5 DEF IInv, IdentityOK
<1>8. ASSUME NEW ok \in BOOLEAN, ClearSession(ok) PROVE IInv'
  <2>1. /\ UNCHANGED <<outside, boxVars, js, token, launch, events>>
        /\ op' = [op EXCEPT !.pc = "delete"] /\ WriteMirror(NoToken, ok)
    BY <1>8 DEF ClearSession
  <2>2. op' \in Ops /\ op'.pc = "delete"
    BY <1>0, <2>1, OpIs
  <2>3. OutboxOK'
    BY <1>0, <2>1, JsKeeps
  <2>a. mirror' \in Sessions /\ (mirror' = NoToken \/ failed' = "mirror")
    BY <1>0, <2>1, NoTokenIs, WriteMirrorIs
  <2>4. TypesOK'
    BY <1>0, <2>1, <2>2, <2>a DEF TypesOK, outside, boxVars, serverVars
  <2>5. MirrorOK(op'.pc, js'.pc # "off", token', mirror', launch', failed')
    BY <2>2, <2>a DEF MirrorOK
  <2> QED BY <2>3, <2>4, <2>5 DEF IInv, IdentityOK
<1>9. ASSUME NEW ok \in BOOLEAN, DeleteToken(ok) PROVE IInv'
  <2>1. /\ UNCHANGED <<outside, boxVars, js, mirror, launch, events>>
        /\ op.pc = "delete" /\ op' = OpIdle
        /\ token' = IF ok THEN NoToken ELSE token
        /\ failed' = IF ok \/ failed = "mirror" THEN failed ELSE "delete"
    BY <1>9 DEF DeleteToken, EndOp
  <2>2. op' \in Ops /\ op'.pc = "idle"
    BY <2>1, OpIdleIs
  <2>3. OutboxOK'
    BY <1>0, <2>1, JsKeeps
  <2>a. token' \in Sessions
    BY <1>0, <2>1, NoTokenIs
  <2>4. TypesOK'
    BY <1>0, <2>1, <2>2, <2>a DEF TypesOK, outside, boxVars, serverVars
  <2>b. mirror = NoToken \/ failed = "mirror"
    BY <1>0, <2>1 DEF MirrorOK
  <2>c. Follows(token', mirror', failed')
    BY <2>1, <2>b DEF Follows
  <2>5. MirrorOK(op'.pc, js'.pc # "off", token', mirror', launch', failed')
    BY <2>2, <2>c DEF MirrorOK
  <2> QED BY <2>3, <2>4, <2>5 DEF IInv, IdentityOK
<1> QED BY <1>1, <1>2, <1>3, <1>4, <1>5, <1>6, <1>7, <1>8, <1>9

(* One step of initialize.                                                 *)
LEMMA LaunchStep ==
  ASSUME IInv,
         \/ Launch \/ LaunchReadFails
         \/ \E ok \in BOOLEAN : LaunchRead(ok) \/ LaunchTurn(ok)
  PROVE  IInv'
<1>0. /\ TypesOK /\ OutboxOK /\ op \in Ops /\ js \in Jss /\ token \in Sessions
      /\ MirrorOK(op.pc, js.pc # "off", token, mirror, launch, failed)
  BY DEF IInv, TypesOK, IdentityOK
<1>1. ASSUME Launch PROVE IInv'
  <2>1. /\ UNCHANGED <<outside, boxVars, token, mirror, op, failed, events>>
        /\ js.pc = "off" /\ js' = [JsOff EXCEPT !.pc = "idle"] /\ launch' = "read"
    BY <1>1 DEF Launch
  <2>2. js' \in Jss /\ js'.pc = "idle" /\ js'.pending = <<>>
    BY <2>1, JsOffIs DEF Jss
  <2>3. OutboxOK'
    BY <1>0, <2>1, <2>2, JsKeeps
  <2>4. TypesOK'
    BY <1>0, <2>1, <2>2 DEF TypesOK, outside, boxVars, serverVars
  <2>5. MirrorOK(op.pc, js'.pc # "off", token, mirror, launch', failed)
    BY <1>0, <2>1 DEF MirrorOK, LaunchOver
  <2> QED BY <2>1, <2>3, <2>4, <2>5 DEF IInv, IdentityOK
<1>2. ASSUME LaunchReadFails PROVE IInv'
  <2>1. /\ UNCHANGED <<outside, boxVars, js, token, mirror, op, events>>
        /\ failed' = "mirror"
    BY <1>2 DEF LaunchReadFails
  <2>3. OutboxOK'
    BY <1>0, <2>1, JsKeeps
  <2>4. TypesOK'
    BY <1>0, <2>1 DEF TypesOK, outside, boxVars, serverVars
  <2>5. MirrorOK(op'.pc, js'.pc # "off", token', mirror', launch', failed')
    BY <2>1 DEF MirrorOK, Follows
  <2> QED BY <2>3, <2>4, <2>5 DEF IInv, IdentityOK
<1>3. ASSUME NEW ok \in BOOLEAN, LaunchRead(ok) PROVE IInv'
  <2>1. /\ UNCHANGED <<outside, boxVars, token, mirror, op, failed, events>>
        /\ js' = Flushed \/ js' = js
        /\ launch' = IF token = NoToken THEN "blank" ELSE "stored"
    BY <1>3 DEF LaunchRead
  <2>2. js' \in Jss
    BY <1>0, <2>1, FlushedIs
  <2>3. OutboxOK'
    BY <1>0, <2>1, JsKeeps
  <2>4. TypesOK'
    BY <1>0, <2>1, <2>2 DEF TypesOK, outside, boxVars, serverVars
  <2>a. ~LaunchOver(token, launch')
    BY <2>1 DEF LaunchOver
  <2>5. MirrorOK(op.pc, js'.pc # "off", token, mirror, launch', failed)
    BY <1>0, <2>a DEF MirrorOK
  <2> QED BY <2>1, <2>3, <2>4, <2>5 DEF IInv, IdentityOK
<1>4. ASSUME NEW ok \in BOOLEAN, LaunchTurn(ok) PROVE IInv'
  <2>1. /\ UNCHANGED <<outside, boxVars, js, token, op, events>>
        /\ launch \in {"stored", "blank"} /\ op.pc = "idle"
        /\ IF (launch = "stored") = (token # NoToken)
             THEN WriteMirror(token, ok)
             ELSE UNCHANGED <<mirror, failed>>
    BY <1>4 DEF LaunchTurn
  <2>3. OutboxOK'
    BY <1>0, <2>1, JsKeeps
  <2>2. mirror' \in Sessions /\ (js.pc # "off" => Follows(token, mirror', failed'))
    <3>1. CASE (launch = "stored") = (token # NoToken)
      <4>1. WriteMirror(token, ok)
        BY <2>1, <3>1
      <4>2. mirror' \in Sessions /\ (mirror' = token \/ failed' = "mirror")
        BY <1>0, <4>1, WriteMirrorIs
      <4> QED BY <4>2 DEF Follows
    <3>2. CASE ~((launch = "stored") = (token # NoToken))
      <4>1. mirror' = mirror /\ failed' = failed
        BY <2>1, <3>2
      <4>2. LaunchOver(token, launch)
        BY <2>1, <3>2 DEF LaunchOver
      <4>3. js.pc # "off" => Follows(token, mirror, failed)
        BY <1>0, <2>1, <4>2 DEF MirrorOK
      <4> QED BY <1>0, <4>1, <4>3 DEF TypesOK
    <3> QED BY <3>1, <3>2
  <2>4. TypesOK'
    BY <1>0, <2>1, <2>2 DEF TypesOK, outside, boxVars, serverVars
  <2>5. MirrorOK(op.pc, js.pc # "off", token, mirror', launch', failed')
    BY <2>1, <2>2 DEF MirrorOK
  <2> QED BY <2>1, <2>3, <2>4, <2>5 DEF IInv, IdentityOK
<1> QED BY <1>1, <1>2, <1>3, <1>4

-----------------------------------------------------------------------------
(* The invariant.                                                          *)

LEMMA InitOK == Init => IInv
<1> SUFFICES ASSUME Init PROVE IInv
  OBVIOUS
<1>1. /\ clock = 0 /\ events = 0 /\ fcm = FcmIdle /\ js = JsOff /\ op = OpIdle
      /\ mirror = token /\ handled = Keys(entries) /\ seen = handled /\ repeatable = {}
      /\ server = [p \in Pushes |-> "none"] /\ lease = [p \in Pushes |-> NoLease]
  BY DEF Init
<1>2. token \in Sessions
  BY NoTokenIs DEF Init, Sessions
<1>3. entries \in Seq(Entry) /\ Len(entries) <= Capacity /\ IsInjective(entries)
      /\ \A i \in DOMAIN entries : entries[i].at = 0
  <2> DEFINE Old == [key : {p \in Pushes : Owner[p] = token.user}, at : {0}]
  <2>1. entries \in SeqOf(Old, Capacity) /\ IsInjective(entries)
    BY DEF Init
  <2>2. Old \subseteq Entry /\ \A e \in Old : e.at = 0
    BY DEF Entry
  <2>3. PICK n \in 0 .. Capacity : entries \in [1 .. n -> Old]
    BY <2>1 DEF SeqOf
  <2> HIDE DEF Old
  <2>4. n \in Nat /\ n <= Capacity
    BY <2>3, ConstantsAssumption
  <2>5. entries \in Seq(Old) /\ Len(entries) = n
    BY <2>3, <2>4
  <2>6. entries \in Seq(Entry)
    BY <2>2, <2>5
  <2> QED BY <2>1, <2>2, <2>3, <2>4, <2>5, <2>6
<1>4. Keys(entries) \subseteq Pushes
  BY <1>3, SeqEntry
<1>5. \A i, j \in DOMAIN entries : entries[i].key = entries[j].key => i = j
  <2> SUFFICES ASSUME NEW i \in DOMAIN entries, NEW j \in DOMAIN entries,
                      entries[i].key = entries[j].key
               PROVE  i = j
    OBVIOUS
  <2>1. entries[i] \in Entry /\ entries[j] \in Entry
    BY <1>3, SeqEntry
  <2>2. entries[i] = entries[j]
    BY <1>3, <2>1 DEF Entry
  <2> QED BY <2>2, <1>3 DEF IsInjective
<1>6. NoLease \in Leases /\ 0 \in Nat
  BY DEF Leases, NoLease
<1>7. fcm \in Fcms /\ js \in Jss /\ op \in Ops
  BY <1>1, FcmIdleIs, JsOffIs, OpIdleIs
<1>8. lease \in [Pushes -> Leases] /\ server \in [Pushes -> Made]
  BY <1>1, <1>6 DEF Made
<1>9. TypesOK
  BY <1>1, <1>2, <1>3, <1>4, <1>6, <1>7, <1>8 DEF TypesOK
<1>10. fcm.pc = "idle" /\ fcm.pending = <<>> /\ js.pc = "off" /\ js.pending = <<>>
  BY <1>1, FcmIdleIs, JsOffIs
<1>11. \A p \in Pushes : ~AtNative(p, fcm) /\ ~AtJs(p, js) /\ ~Sent(p, js)
  BY <1>10 DEF AtNative, AtJs, Sent, Sending
<1>12. BoxOK(entries, handled)
  BY <1>1, <1>3, <1>5 DEF BoxOK
<1>13. HandedOK(fcm, js, handled, clock)
  BY <1>10, <1>11, NothingPending DEF HandedOK
<1>14. /\ NativeLeased(entries, lease, fcm) /\ JsLeased(entries, lease, js, repeatable)
       /\ HeldApart(fcm, js, repeatable) /\ SentOK(js, server)
  BY <1>11 DEF NativeLeased, JsLeased, HeldApart, SentOK
<1>15. TakenOK(entries, fcm, js, handled, seen, server, repeatable)
  BY <1>1, <1>11 DEF TakenOK
<1>16. SeenOK(fcm, handled, seen, repeatable)
  BY <1>1, <1>10 DEF SeenOK
<1>17. IdentityOK
  BY <1>1, <1>10, OpIdleIs DEF IdentityOK, MirrorOK
<1> QED BY <1>9, <1>12, <1>13, <1>14, <1>15, <1>16, <1>17 DEF IInv, OutboxOK

(* A flusher's step that only takes note of something.                     *)
LEMMA JsNotes ==
  ASSUME TypesOK, OutboxOK,
         CurrentToken \/ NewerToken \/ KeychainThrows \/ BackoffEnds \/ Settle \/ Foreground
  PROVE  TypesOK' /\ OutboxOK' /\ UNCHANGED identityVars
         /\ (js'.pc # "off" => js.pc # "off")
<1>0. js \in Jss /\ token \in Sessions /\ js.pending \in Seq(Pushes)
  BY JsIs DEF TypesOK
<1>1. UNCHANGED <<outside, boxVars, identityVars, events>>
  BY DEF CurrentToken, NewerToken, KeychainThrows, BackoffEnds, Settle, Foreground, outside
<1>2. /\ js' \in Jss
      /\ \/ js' = Flushed /\ js.pc # "off"
         \/ js' = Ended /\ js.pc \in {"token", "retoken"}
         \/ js'.pending = js.pending /\ js'.pc = "post" /\ js.pc \in Sending \ {"remove"}
         \/ js'.pending = js.pending /\ js'.pc = "idle" /\ js.pc = "settled"
  <2>1. ASSUME Foreground
        PROVE  js' \in Jss /\ js' = Flushed /\ js.pc # "off"
    BY <2>1, <1>0, FlushedIs DEF Foreground
  <2>2. ASSUME js' = Ended, js.pc \in {"token", "retoken"}
        PROVE  js' \in Jss
    BY <2>2, EndedIs
  <2>3. ASSUME js' = [js EXCEPT !.pc = "post", !.token = token, !.refreshed = FALSE]
               \/ js' = [js EXCEPT !.pc = "post", !.token = token, !.refreshed = TRUE]
               \/ js' = [js EXCEPT !.pc = "post"]
        PROVE  js' \in Jss /\ js'.pending = js.pending /\ js'.pc = "post"
    <3>1. "post" \in Sending
      BY DEF Sending
    <3> QED BY <2>3, <3>1, <1>0 DEF Jss
  <2>4. ASSUME js' = [js EXCEPT !.pc = "idle"]
        PROVE  js' \in Jss /\ js'.pending = js.pending /\ js'.pc = "idle"
    BY <2>4, <1>0 DEF Jss
  <2>5. CASE CurrentToken
    BY <2>5, <2>2, <2>3 DEF CurrentToken, Sending
  <2>6. CASE NewerToken
    BY <2>6, <2>2, <2>3 DEF NewerToken, Sending
  <2>7. CASE KeychainThrows
    BY <2>7, <2>2 DEF KeychainThrows
  <2>8. CASE BackoffEnds
    BY <2>8, <2>3 DEF BackoffEnds, Sending
  <2>9. CASE Settle
    BY <2>9, <2>4 DEF Settle
  <2> QED BY <2>1, <2>5, <2>6, <2>7, <2>8, <2>9
<1>3. OutboxOK'
  BY <1>1, <1>2, JsKeeps
<1>4. TypesOK'
  BY <1>1, <1>2 DEF TypesOK, outside, boxVars, identityVars, serverVars
<1>5. js'.pc # "off" => js.pc # "off"
  BY <1>2 DEF Sending
<1> QED BY <1>1, <1>3, <1>4, <1>5

LEMMA NextOK == IInv /\ [Next]_vars => IInv'
<1> SUFFICES ASSUME IInv, [Next]_vars PROVE IInv'
  OBVIOUS
<1>0. TypesOK /\ OutboxOK /\ IdentityOK
  BY DEF IInv
<1>a. ASSUME TypesOK', OutboxOK', UNCHANGED identityVars, js'.pc # "off" => js.pc # "off"
      PROVE  IInv'
  BY <1>0, <1>a, IdentityKeeps DEF IInv
<1>1. ASSUME NEW b \in BOOLEAN, SuperHandleIntent(b) PROVE IInv'
  <2>1. UNCHANGED <<js, identityVars>>
    BY <1>1 DEF SuperHandleIntent
  <2> QED BY <1>1, <1>0, <1>a, <2>1, SuperHandleIntentStep
<1>2. ASSUME NEW b \in BOOLEAN, LoadSession(b) PROVE IInv'
  <2>1. UNCHANGED <<js, identityVars>>
    BY <1>2 DEF LoadSession
  <2> QED BY <1>2, <1>0, <1>a, <2>1, LoadSessionStep
<1>3. ASSUME NativeClaim PROVE IInv'
  <2>1. UNCHANGED <<js, identityVars>>
    BY <1>3 DEF NativeClaim
  <2> QED BY <1>3, <1>0, <1>a, <2>1, NativeClaimStep
<1>4. ASSUME NativeRelease PROVE IInv'
  <2>1. UNCHANGED <<js, identityVars>>
    BY <1>4 DEF NativeRelease
  <2> QED BY <1>4, <1>0, <1>a, <2>1, NativeReleaseStep
<1>5. ASSUME NEW o \in Outcomes, NativeAnswer(o) PROVE IInv'
  <2>1. UNCHANGED <<js, identityVars>>
    BY <1>5 DEF NativeAnswer
  <2> QED BY <1>5, <1>0, <1>a, <2>1, NativeAnswerStep
<1>6. ASSUME GetOutbox PROVE IInv'
  <2>1. UNCHANGED identityVars /\ js.pc # "off"
    BY <1>6 DEF GetOutbox
  <2> QED BY <1>6, <1>0, <1>a, <2>1, GetOutboxStep
<1>7. ASSUME CurrentToken \/ NewerToken \/ KeychainThrows \/ BackoffEnds \/ Settle \/ Foreground
      PROVE  IInv'
  BY <1>7, <1>0, <1>a, JsNotes
<1>8. ASSUME RemoveEntries PROVE IInv'
  <2>1. UNCHANGED identityVars /\ js.pc # "off"
    BY <1>8 DEF RemoveEntries
  <2> QED BY <1>8, <1>0, <1>a, <2>1, RemoveEntriesStep
<1>9. ASSUME NEW o \in Outcomes, JsAnswer(o) PROVE IInv'
  <2>1. UNCHANGED identityVars /\ js.pc # "off"
    BY <1>9 DEF JsAnswer
  <2> QED BY <1>9, <1>0, <1>a, <2>1, JsAnswerStep
<1>10. ASSUME Tick PROVE IInv'
  <2>1. UNCHANGED <<js, identityVars>>
    BY <1>10 DEF Tick
  <2> QED BY <1>10, <1>0, <1>a, <2>1, TickStep
<1>11. ASSUME Crash PROVE IInv'
  <2>1. TypesOK' /\ OutboxOK' /\ js'.pc = "off" /\ op'.pc = "idle"
    BY <1>11, <1>0, CrashStep
  <2>2. IdentityOK'
    BY <2>1 DEF IdentityOK, MirrorOK
  <2> QED BY <2>1, <2>2 DEF IInv
<1>12. ASSUME NEW p \in Pushes, HandleIntent(p) PROVE IInv'
  <2>1. UNCHANGED <<js, identityVars>>
    BY <1>12 DEF HandleIntent
  <2> QED BY <1>12, <1>0, <1>a, <2>1, HandleIntentStep
<1>13. ASSUME NEW p \in Pushes, SocketSees(p) PROVE IInv'
  <2>1. UNCHANGED <<js, identityVars>>
    BY <1>13 DEF SocketSees
  <2> QED BY <1>13, <1>0, <1>a, <2>1, SocketSeesStep
<1>14. ASSUME IdentityStep PROVE IInv'
  BY <1>14, IdentityCallStep, LaunchStep DEF IdentityStep
<1>15. ASSUME Launch \/ RemoveIdentity \/ \E u \in Users : SetIdentity(u) PROVE IInv'
  BY <1>15, IdentityCallStep, LaunchStep
<1>16. CASE UNCHANGED vars
  <2>1. UNCHANGED <<outside, boxVars, js, fcm, identityVars, events>>
    BY <1>16 DEF vars, outside
  <2>2. OutboxOK'
    BY <1>0, <2>1, JsKeeps
  <2>3. TypesOK'
    BY <1>0, <2>1 DEF TypesOK, outside, boxVars, identityVars, serverVars
  <2> QED BY <1>a, <2>1, <2>2, <2>3
<1>17. CASE FcmThread
  BY <1>17, <1>1, <1>2, <1>3, <1>4, <1>5 DEF FcmThread
<1>18. CASE Flusher
  BY <1>18, <1>6, <1>7, <1>8, <1>9 DEF Flusher
<1>19. CASE Host
  BY <1>19, <1>7, <1>15 DEF Host
<1> QED BY <1>10, <1>11, <1>12, <1>13, <1>14, <1>16, <1>17, <1>18, <1>19 DEF Next

THEOREM Inductive == Spec => []IInv
<1> QED BY InitOK, NextOK, PTL DEF Spec

-----------------------------------------------------------------------------
(* The properties.                                                         *)

(* What a step that takes an entry out has to say for itself.              *)
Accounted(i) ==
  \/ server'[entries[i].key] # "none"
  \/ Expired(entries[i])
  \/ i = 1 /\ Len(entries) = Capacity /\ fcm'.pc = "super"
  \/ op.pc \in {"drop", "clear"} /\ op' # op

AllAccounted ==
  \A i \in DOMAIN entries : entries[i].key \notin Keys(entries') => Accounted(i)

LEMMA KeptKeys == entries' = entries => AllAccounted
  BY DEF AllAccounted, Keys

LEMMA LossIsAccounted == IInv /\ [Next]_vars => AllAccounted
<1> SUFFICES ASSUME IInv, [Next]_vars PROVE AllAccounted
  OBVIOUS
<1>0. TypesOK /\ OutboxOK /\ BoxOK(entries, handled) /\ entries \in Seq(Entry)
  BY DEF IInv, OutboxOK, TypesOK
<1>a. \A i \in DOMAIN entries : entries[i].key \in Pushes /\ entries[i].key \in Keys(entries)
  BY <1>0, SeqEntry DEF Keys
<1>1. ASSUME NEW p \in Pushes, HandleIntent(p) PROVE AllAccounted
  <2>1. CASE p \in seen
    <3>1. entries' = entries
      BY <2>1, <1>1 DEF HandleIntent, boxVars
    <3> QED BY <3>1, KeptKeys
  <2>2. CASE p \notin seen
    <3>1. Enqueue(p)
      BY <2>2, <1>1 DEF HandleIntent
    <3>2. \A i \in DOMAIN entries : entries[i].key \notin Keys(entries') =>
            i = 1 /\ Len(entries) = Capacity
      BY <3>1, <1>0, EnqueueIs
    <3>3. fcm'.pc = "super"
      <4>1. FcmIdle \in Fcms
        BY FcmIdleIs
      <4>2. fcm' = [FcmIdle EXCEPT !.pc = "super", !.push = p, !.queued = CanEnqueue(p)]
        BY <2>2, <1>1 DEF HandleIntent
      <4> QED BY <4>1, <4>2 DEF Fcms
    <3> QED BY <3>2, <3>3 DEF AllAccounted, Accounted
  <2> QED BY <2>1, <2>2
<1>2. ASSUME NEW b \in BOOLEAN, SuperHandleIntent(b) PROVE AllAccounted
  BY <1>2, <1>0, SuperKeeps, KeptKeys
<1>3. ASSUME NEW who \in Flushers, NEW until \in Nat, Claim(who, until) PROVE AllAccounted
  <2>1. \A i \in DOMAIN entries : entries[i].key \notin Keys(entries') => Expired(entries[i])
    BY <1>3, <1>0, ClaimIs
  <2> QED BY <2>1 DEF AllAccounted, Accounted
<1>4. ASSUME NativeClaim PROVE AllAccounted
  <2> DEFINE until == LeaseSlack + IF fcm.deadline > clock THEN fcm.deadline ELSE clock
  <2>1. Claim("native", until) /\ "native" \in Flushers
    BY <1>4 DEF NativeClaim, Flushers
  <2>2. fcm.deadline \in Nat /\ clock \in Nat
    BY <1>0, FcmIs DEF TypesOK
  <2>3. until \in Nat
    BY <2>2, ConstantsAssumption
  <2> HIDE DEF until
  <2> QED BY <2>1, <2>3, <1>3
<1>5. ASSUME GetOutbox PROVE AllAccounted
  <2>1. Claim("js", clock + JsLease) /\ "js" \in Flushers
    BY <1>5 DEF GetOutbox, Flushers
  <2>2. clock + JsLease \in Nat
    BY <1>0, ConstantsAssumption DEF TypesOK
  <2> QED BY <2>1, <2>2, <1>3
<1>6. ASSUME NEW keys, RemoveKeys(keys), \A p \in keys : server'[p] # "none"
      PROVE  AllAccounted
  <2>1. Keys(entries') = Keys(entries) \ keys
    BY <1>6, <1>0, RemoveIs
  <2> QED BY <2>1, <1>6, <1>a DEF AllAccounted, Accounted
<1>7. ASSUME NEW o \in Outcomes, NativeAnswer(o) PROVE AllAccounted
  <2> DEFINE keys == ToSet(Batch(fcm.pending))
  <2>1. /\ Answer(keys, o)
        /\ IF o \in Final THEN RemoveKeys(keys) ELSE entries' = entries
    BY <1>7 DEF NativeAnswer, boxVars
  <2>2. fcm.pending \in Seq(Pushes)
    BY <1>0, FcmIs DEF TypesOK
  <2>3. keys \in SUBSET Pushes
    BY <2>2, BatchIs
  <2> HIDE DEF keys
  <2>4. o \in Final => \A p \in keys : server'[p] # "none"
    BY <1>0, <2>1, <2>3, AnswerIs
  <2>5. CASE o \in Final
    BY <2>1, <2>4, <2>5, <1>6
  <2>6. CASE o \notin Final
    BY <2>1, <2>6, KeptKeys
  <2> QED BY <2>5, <2>6
<1>8. ASSUME RemoveEntries PROVE AllAccounted
  <2> DEFINE keys == ToSet(Batch(js.pending))
  <2>1. RemoveKeys(keys) /\ js.pc = "remove" /\ server' = server
    BY <1>8 DEF RemoveEntries, serverVars
  <2>2. js.pending \in Seq(Pushes)
    BY <1>0, JsIs DEF TypesOK
  <2>3. keys \in SUBSET Pushes
    BY <2>2, BatchIs
  <2>4. \A p \in Pushes : p \in keys => server[p] # "none"
    BY <1>0, <2>1 DEF OutboxOK, SentOK, Sent
  <2> HIDE DEF keys
  <2> QED BY <2>1, <2>3, <2>4, <1>6
<1>9. ASSUME DropReports \/ ClearReports PROVE AllAccounted
  <2>1. /\ op \in Ops
        /\ \/ op.pc = "drop" /\ op' = [op EXCEPT !.pc = "mint"]
           \/ op.pc = "clear" /\ op' = [op EXCEPT !.pc = "unmirror"]
    BY <1>9, <1>0 DEF DropReports, ClearReports, TypesOK
  <2>2. [op EXCEPT !.pc = "mint"].pc = "mint" /\ [op EXCEPT !.pc = "unmirror"].pc = "unmirror"
    BY <2>1, OpIs
  <2>3. op.pc \in {"drop", "clear"} /\ op' # op
    BY <2>1, <2>2
  <2> QED BY <2>3 DEF AllAccounted, Accounted
<1>10. CASE FcmThread
  <2>1. ASSUME (\E b \in BOOLEAN : LoadSession(b)) \/ NativeRelease PROVE AllAccounted
    BY <2>1, KeptKeys DEF LoadSession, NativeRelease, Release, boxVars
  <2> QED BY <1>10, <1>2, <1>4, <1>7, <2>1 DEF FcmThread
<1>11. CASE Flusher
  <2>1. ASSUME \/ CurrentToken \/ NewerToken \/ KeychainThrows \/ BackoffEnds \/ Settle
               \/ \E o \in Outcomes : JsAnswer(o)
        PROVE  AllAccounted
    <3>1. entries' = entries
      BY <2>1 DEF CurrentToken, NewerToken, KeychainThrows, BackoffEnds, Settle, JsAnswer,
                  boxVars
    <3> QED BY <3>1, KeptKeys
  <2> QED BY <1>11, <1>5, <1>8, <2>1 DEF Flusher
<1>12. CASE IdentityStep
  <2>1. ASSUME \/ GenerateToken \/ GenerateTokenFails \/ LaunchReadFails
               \/ \E ok \in BOOLEAN :
                    \/ MirrorSession(ok) \/ SubscribeUser(ok)
                    \/ ClearSession(ok) \/ DeleteToken(ok)
                    \/ LaunchRead(ok) \/ LaunchTurn(ok)
        PROVE  AllAccounted
    <3>1. entries' = entries
      BY <2>1 DEF GenerateToken, GenerateTokenFails, LaunchReadFails, MirrorSession,
                  SubscribeUser, ClearSession, DeleteToken, LaunchRead, LaunchTurn, boxVars
    <3> QED BY <3>1, KeptKeys
  <2> QED BY <1>12, <1>9, <2>1 DEF IdentityStep
<1>13. CASE Host
  <2>1. entries' = entries
    BY <1>13 DEF Host, Foreground, Launch, RemoveIdentity, SetIdentity, boxVars
  <2> QED BY <2>1, KeptKeys
<1>14. CASE Tick \/ Crash \/ UNCHANGED vars \/ \E p \in Pushes : SocketSees(p)
  <2>1. entries' = entries
    BY <1>14 DEF Tick, Crash, SocketSees, vars, boxVars
  <2> QED BY <2>1, KeptKeys
<1> QED BY <1>1, <1>10, <1>11, <1>12, <1>13, <1>14 DEF Next

(* NothingLost: an entry leaves the outbox only once the server has        *)
(* answered for it, past its age, pushed out as the oldest of a full       *)
(* outbox, or with the identity it belonged to.                            *)
THEOREM LossCorrect == Spec => NothingLost
<1> DEFINE A == \A i \in DOMAIN entries :
                  entries[i].key \notin Keys(entries') =>
                    \/ server'[entries[i].key] # "none"
                    \/ Expired(entries[i])
                    \/ i = 1 /\ Len(entries) = Capacity /\ fcm'.pc = "super"
                    \/ op.pc \in {"drop", "clear"} /\ op' # op
<1>1. IInv /\ [Next]_vars => [A]_vars
  BY LossIsAccounted DEF AllAccounted, Accounted
<1> HIDE DEF A
<1>2. Spec => [][A]_vars
  BY <1>1, Inductive, PTL DEF Spec
<1> QED BY <1>2 DEF NothingLost, A


(* What a flusher sends was never taken, unless a second report of it is   *)
(* explained.                                                              *)
LEMMA SendsUntaken ==
  ASSUME OutboxOK, NEW p \in Pushes, p \notin repeatable,
         AtNative(p, fcm) \/ (js.pc = "post" /\ AtJs(p, js))
  PROVE  server[p] # "taken"
  BY DEF OutboxOK, TakenOK, Sent

LEMMA OnceStep == IInv /\ DuplicatesExplained /\ [Next]_vars => DuplicatesExplained'
<1> SUFFICES ASSUME IInv, DuplicatesExplained, [Next]_vars PROVE DuplicatesExplained'
  OBVIOUS
<1>0. TypesOK /\ OutboxOK /\ fcm.pending \in Seq(Pushes) /\ js.pending \in Seq(Pushes)
  BY FcmIs, JsIs DEF IInv, TypesOK
<1>1. ASSUME NEW o \in Outcomes, NEW keys \in SUBSET Pushes, Answer(keys, o),
             \A p \in keys : p \notin repeatable => server[p] # "taken"
      PROVE  DuplicatesExplained'
  <2>1. \A p \in Pushes : server'[p] = "repeated" =>
          server[p] = "repeated" \/ (p \in keys /\ server[p] = "taken" /\ p \notin repeatable)
    BY <1>1, <1>0, AnswerIs
  <2> QED BY <2>1, <1>1 DEF DuplicatesExplained
<1>2. ASSUME NEW o \in Outcomes, NativeAnswer(o) PROVE DuplicatesExplained'
  <2>1. Answer(ToSet(Batch(fcm.pending)), o) /\ fcm.pc = "post"
    BY <1>2 DEF NativeAnswer
  <2>2. ToSet(Batch(fcm.pending)) \subseteq ToSet(fcm.pending) /\ ToSet(fcm.pending) \subseteq Pushes
    BY <1>0, BatchIs
  <2>3. \A p \in ToSet(Batch(fcm.pending)) : p \notin repeatable => server[p] # "taken"
    BY <1>0, <2>1, <2>2, SendsUntaken DEF AtNative
  <2> QED BY <2>1, <2>2, <2>3, <1>1
<1>3. ASSUME NEW o \in Outcomes, JsAnswer(o) PROVE DuplicatesExplained'
  <2>1. Answer(ToSet(Batch(js.pending)), o) /\ js.pc = "post"
    BY <1>3 DEF JsAnswer
  <2>2. ToSet(Batch(js.pending)) \subseteq ToSet(js.pending) /\ ToSet(js.pending) \subseteq Pushes
    BY <1>0, BatchIs
  <2>3. \A p \in ToSet(Batch(js.pending)) : p \notin repeatable => server[p] # "taken"
    BY <1>0, <2>1, <2>2, SendsUntaken DEF AtJs, Sending
  <2> QED BY <2>1, <2>2, <2>3, <1>1
<1>4. ASSUME server' = server PROVE DuplicatesExplained'
  BY <1>4 DEF DuplicatesExplained
<1>5. CASE FcmThread
  <2>1. ASSUME \/ \E b \in BOOLEAN : SuperHandleIntent(b) \/ LoadSession(b)
               \/ NativeClaim \/ NativeRelease
        PROVE  server' = server
    BY <2>1 DEF SuperHandleIntent, LoadSession, NativeClaim, NativeRelease, serverVars
  <2> QED BY <1>5, <1>2, <1>4, <2>1 DEF FcmThread
<1>6. CASE Flusher
  <2>1. ASSUME \/ GetOutbox \/ CurrentToken \/ NewerToken
               \/ KeychainThrows \/ BackoffEnds \/ RemoveEntries \/ Settle
        PROVE  server' = server
    BY <2>1 DEF GetOutbox, CurrentToken, NewerToken, KeychainThrows, BackoffEnds,
                RemoveEntries, Settle, serverVars
  <2> QED BY <1>6, <1>3, <1>4, <2>1 DEF Flusher
<1>7. CASE IdentityStep
  <2>1. server' = server
    BY <1>7 DEF IdentityStep, DropReports, GenerateToken, GenerateTokenFails, ClearReports,
                LaunchReadFails, MirrorSession, SubscribeUser, ClearSession, DeleteToken,
                LaunchRead, LaunchTurn, outside, serverVars
  <2> QED BY <2>1, <1>4
<1>8. CASE Host
  <2>1. server' = server
    BY <1>8 DEF Host, Foreground, Launch, RemoveIdentity, SetIdentity, outside, serverVars
  <2> QED BY <2>1, <1>4
<1>9. CASE \/ Tick \/ Crash \/ UNCHANGED vars
           \/ \E p \in Pushes : HandleIntent(p) \/ SocketSees(p)
  <2>1. server' = server
    BY <1>9 DEF Tick, Crash, vars, HandleIntent, SocketSees, serverVars
  <2> QED BY <2>1, <1>4
<1> QED BY <1>5, <1>6, <1>7, <1>8, <1>9 DEF Next

(* DuplicatesExplained: the server takes a second report of a push only    *)
(* if an answer was lost, JS outlived its lease or the process died; the   *)
(* leases and the remembered keys exclude everything else.                 *)
THEOREM DuplicatesCorrect == Spec => []DuplicatesExplained
<1>1. Init => DuplicatesExplained
  BY DEF Init, DuplicatesExplained
<1> QED BY <1>1, OnceStep, Inductive, PTL DEF Spec

(* MirrorFollows: once no identity call is under way, native holds the     *)
(* stored JWT, or nothing where the stored one could not be deleted, or    *)
(* its own store threw.                                                    *)
THEOREM MirrorCorrect == Spec => []MirrorFollows
<1>1. IInv => MirrorFollows
  BY DEF IInv, IdentityOK, MirrorOK, LaunchOver, Follows, MirrorFollows
<1> QED BY <1>1, Inductive, PTL
=============================================================================
