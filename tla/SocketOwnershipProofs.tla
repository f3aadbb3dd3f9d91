----------------------- MODULE SocketOwnershipProofs -----------------------
(***************************************************************************)
(* Who owns the Android socket, for any budget of requests, refusals,      *)
(* timeouts and process deaths: a client that runs is the controller's or  *)
(* a known orphan, with the relay off only an orphan runs, and a published *)
(* error stays.                                                            *)
(*                                                                         *)
(* The parts of the invariant are operators on the values they relate, so  *)
(* that a step that leaves those alone leaves the part alone.              *)
(***************************************************************************)
EXTENDS SocketOwnership, FiniteSetTheorems, FunctionTheorems, SequenceTheorems, TLAPS

-----------------------------------------------------------------------------
(* The inductive invariant.                                                *)

Commands == {"start", "stop"}
Kinds    == {"start", "restart", "stop"}
Words    == {"idle", "connecting", "connected", "stopped"}
Starters == {"startInProcess", "start", "restart"}
StartOps == {"startService", "startInProcess"}
Holders  == {"stopClient", "dropClient", "install", "startClient"}

MainOps == {"start", "restart", "stopRequest", "refused", "timeout", "destroy"}

Places == {"idle", "entry", "mark", "claim", "startService", "publishError", "begin",
           "stopClient", "dropClient", "install", "startClient", "unlock", "sendStop",
           "offRunning", "lock", "offStop", "offClear", "offDisable", "promote",
           "staleCheck", "forget", "clear", "stopSelf"}

Frames  == [op : HostOps \cup MainOps \cup {"none"}, at : Places, gen : Nat,
            ref : Clients \cup {None}]
Intents == [kind : Kinds, gen : Nat]

(* Where a request can be, by its kind.                                    *)
NmPlaces(op) ==
  CASE op = "none"           -> {"idle"}
    [] op = "startService"   -> {"entry", "mark", "claim", "startService", "publishError"}
    [] op = "startInProcess" -> {"entry", "mark", "claim", "begin"} \cup Holders
    [] op = "stop"           -> {"entry", "sendStop", "stopClient", "dropClient"}
    [] op = "relayOff"       -> {"entry", "offRunning", "lock", "stopClient", "dropClient",
                                 "unlock", "offStop", "offClear", "offDisable"}
    [] op = "relayOn"        -> {"entry"}
    [] OTHER                 -> {}

MainPlaces(op) ==
  CASE op = "none"                  -> {"idle"}
    [] op \in {"start", "restart"}  -> {"promote", "begin", "stopSelf"} \cup Holders
    [] op = "stopRequest"           -> {"stopClient", "dropClient", "staleCheck", "forget",
                                        "clear", "stopSelf"}
    [] op \in {"refused", "timeout"} -> {"stopClient", "dropClient", "publishError", "stopSelf"}
    [] op = "destroy"               -> {"stopClient", "dropClient"}
    [] OTHER                        -> {}

FramesOK(fs) ==
  /\ fs \in [Threads -> Frames]
  /\ fs["nm"].at \in NmPlaces(fs["nm"].op) /\ fs["main"].at \in MainPlaces(fs["main"].op)
  /\ \A t \in Threads : fs[t].ref # None => fs[t].at \in {"dropClient", "startClient"}

TypesOK ==
  /\ relayOn \in BOOLEAN /\ component \in BOOLEAN /\ saved \in BOOLEAN
  /\ client \in Clients \cup {None}
  /\ activeConfig \in Nat /\ activeGen \in Nat /\ generation \in Nat /\ errorGen \in Nat
  /\ listener \in [Clients -> Nat] /\ queue \in [Clients -> Seq(Commands)]
  /\ live \subseteq Clients
  /\ publishing \in [who : Clients \cup {None}, what : Words]
  /\ status \in Words \cup {"error"}
  /\ service \in [up : BOOLEAN, running : BOOLEAN, sticky : BOOLEAN]
  /\ intents \in Seq(Intents)
  /\ left \in [HostOps -> Nat] /\ crashes \in 0 .. MaxCrashes
  /\ born \in [Clients -> Nat] /\ orphans \subseteq Clients

(* The ownerLock is held over begin() and over the stop of the switch.     *)
Installing(f) == f.op \in Starters /\ f.at \in Holders
Holding(f)    == Installing(f) \/ (f.op = "relayOff" /\ f.at \in {"stopClient", "dropClient", "unlock"})
LockOK(fs, lock) ==
  /\ lock \in Threads \cup {Free}
  /\ \A t \in Threads : Holding(fs[t]) <=> lock = t

(* Every start that is under way finds a client that was not used before.  *)
Used(ls)   == Cardinality({c \in Clients : ls[c] # 0})
Due(is)    == Cardinality({i \in DOMAIN is : is[i].kind # "stop"})
Coming(f)  ==
  IF /\ f.op \in Starters \cup {"startService"}
     /\ f.at \notin {"startClient", "publishError", "stopSelf"}
    THEN 1 ELSE 0
BudgetOK(ls, is, fs, lf, cr) ==
  Used(ls) + Due(is) + Coming(fs["nm"]) + Coming(fs["main"])
    + lf["startService"] + lf["startInProcess"] + (MaxCrashes - cr) <= MaxClients

(* A client in use has a listener no newer than the last generation, and   *)
(* none that an error was published under.                                 *)
Active(c) ==
  c = client \/ c \in live \/ queue[c] # <<>> \/ \E t \in Threads : frames[t].ref = c
ListensOK ==
  /\ errorGen <= generation
  /\ \A c \in Clients : Active(c) => listener[c] \in 1 .. generation /\ listener[c] # errorGen
  /\ publishing # Silent => publishing.who \in Clients /\ listener[publishing.who] > errorGen

(* begin() has no client from its stop to its install, and has then one    *)
(* that only it can start.                                                 *)
BeginOK ==
  \A t \in Threads :
    /\ At(t, "install") => client = None
    /\ At(t, "startClient") =>
         /\ frames[t].ref \in Clients
         /\ frames[t].ref = client \/ frames[t].ref \in orphans
         /\ frames[t].ref \notin live
         /\ \A i \in DOMAIN queue[frames[t].ref] : queue[frames[t].ref][i] = "stop"
         /\ frames[t].ref = client /\ (\A u \in Threads : ~At(u, "dropClient"))
              => queue[frames[t].ref] = <<>>

(* The client that a stop reached does not run when its reference goes.    *)
StopsOK ==
  \A t \in Threads : At(t, "dropClient") /\ frames[t].ref # None =>
    /\ ~Runs(frames[t].ref)
    /\ \A u \in Threads : At(u, "startClient") => frames[u].ref # frames[t].ref

(* With the relay off, and past the stop of the switch, there is no client *)
(* and no start that could make one.                                       *)
TurningOff == Op("nm", "relayOff") /\ frames["nm"].at \in {"offRunning", "lock", "stopClient", "dropClient"}
OffOK ==
  ~relayOn /\ ~TurningOff => client = None /\ \A t \in Threads : ~Installing(frames[t])

IInv ==
  /\ TypesOK /\ FramesOK(frames)
  /\ LockOK(frames, ownerLock)
  /\ BudgetOK(listener, intents, frames, left, crashes)
  /\ ListensOK
  /\ BeginOK
  /\ StopsOK
  /\ OffOK
  /\ OneOwner

-----------------------------------------------------------------------------
(* Counting: clients in use, starts on their way.                          *)

LEMMA UsedIs ==
  ASSUME NEW ls \in [Clients -> Nat]
  PROVE  /\ Used(ls) \in Nat
         /\ Used(ls) < MaxClients => \E c \in Clients : ls[c] = 0
         /\ \A c \in Clients, n \in Nat \ {0} :
              ls[c] = 0 => Used([ls EXCEPT ![c] = n]) = Used(ls) + 1
<1> DEFINE U == {c \in Clients : ls[c] # 0}
<1>1. MaxClients \in Nat /\ IsFiniteSet(Clients) /\ Cardinality(Clients) = MaxClients
  <2>1. MaxClients \in Nat /\ 1 \in Int /\ MaxClients \in Int
    BY OwnershipAssumption
  <2> QED BY <2>1, FS_Interval DEF Clients
<1>2. IsFiniteSet(U) /\ U \subseteq Clients /\ Cardinality(U) \in Nat
  BY <1>1, FS_Subset, FS_CardinalityType
<1>3. Used(ls) \in Nat /\ Used(ls) = Cardinality(U)
  BY <1>2 DEF Used
<1>4. ASSUME Used(ls) < MaxClients PROVE \E c \in Clients : ls[c] = 0
  <2>1. U # Clients
    BY <1>1, <1>3, <1>4
  <2> QED BY <2>1
<1>5. ASSUME NEW c \in Clients, NEW n \in Nat \ {0}, ls[c] = 0
      PROVE  Used([ls EXCEPT ![c] = n]) = Used(ls) + 1
  <2> DEFINE V == {d \in Clients : [ls EXCEPT ![c] = n][d] # 0}
  <2>1. V = U \cup {c}
    BY <1>5
  <2>2. c \notin U
    BY <1>5
  <2>3. Cardinality(U \cup {c}) = Cardinality(U) + 1
    BY <1>2, <2>2, FS_AddElement
  <2> QED BY <1>3, <2>1, <2>3 DEF Used
<1> QED BY <1>3, <1>4, <1>5

LEMMA DueIs ==
  ASSUME NEW is \in Seq(Intents)
  PROVE  Due(is) \in Nat /\ IsFiniteSet({i \in DOMAIN is : is[i].kind # "stop"})
<1>1. Len(is) \in Nat /\ DOMAIN is = 1 .. Len(is) /\ 1 \in Int /\ Len(is) \in Int
  OBVIOUS
<1>2. IsFiniteSet(DOMAIN is)
  BY <1>1, FS_Interval
<1>3. IsFiniteSet({i \in DOMAIN is : is[i].kind # "stop"})
  BY <1>2, FS_Subset
<1> QED BY <1>3, FS_CardinalityType DEF Due

(* One more start at the end, one less at the head.                        *)
LEMMA DueAppend ==
  ASSUME NEW is \in Seq(Intents), NEW m \in Intents
  PROVE  /\ Append(is, m) \in Seq(Intents)
         /\ Due(Append(is, m)) = Due(is) + (IF m.kind # "stop" THEN 1 ELSE 0)
<1> DEFINE ms == Append(is, m)
           D == {i \in DOMAIN is : is[i].kind # "stop"}
           E == {i \in DOMAIN ms : ms[i].kind # "stop"}
<1>1. /\ ms \in Seq(Intents) /\ Len(is) \in Nat
      /\ DOMAIN ms = DOMAIN is \cup {Len(is) + 1} /\ Len(is) + 1 \notin DOMAIN is
      /\ ms[Len(is) + 1] = m /\ \A i \in DOMAIN is : ms[i] = is[i]
  OBVIOUS
<1>2. IsFiniteSet(D) /\ Due(is) = Cardinality(D) /\ Cardinality(D) \in Nat
  BY DueIs DEF Due
<1> HIDE DEF ms
<1>3. CASE m.kind # "stop"
  <2>1. E = D \cup {Len(is) + 1} /\ Len(is) + 1 \notin D
    BY <1>1, <1>3
  <2>2. Cardinality(D \cup {Len(is) + 1}) = Cardinality(D) + 1
    BY <1>2, <2>1, FS_AddElement
  <2> QED BY <1>1, <1>2, <1>3, <2>1, <2>2 DEF Due, ms
<1>4. CASE m.kind = "stop"
  <2>1. E = D
    BY <1>1, <1>4
  <2>2. Due(ms) = Cardinality(D)
    BY <2>1 DEF Due
  <2> QED BY <1>1, <1>2, <1>4, <2>2 DEF ms
<1> QED BY <1>3, <1>4

(* A sequence that is another one with an element in front.                *)
LEMMA DueShift ==
  ASSUME NEW is \in Seq(Intents), NEW ms \in Seq(Intents), NEW m \in Intents,
         Len(ms) = Len(is) + 1, ms[1] = m, \A i \in 1 .. Len(is) : ms[i + 1] = is[i]
  PROVE  Due(ms) = Due(is) + (IF m.kind # "stop" THEN 1 ELSE 0)
<1> DEFINE D == {i \in DOMAIN is : is[i].kind # "stop"}
           E == {i \in DOMAIN ms : ms[i].kind # "stop"}
           S == {i \in DOMAIN ms : i # 1 /\ ms[i].kind # "stop"}
           f == [i \in D |-> i + 1]
<1>1. /\ Len(is) \in Nat /\ DOMAIN is = 1 .. Len(is) /\ DOMAIN ms = 1 .. Len(is) + 1
  OBVIOUS
<1>2. IsFiniteSet(D) /\ Due(is) = Cardinality(D) /\ Cardinality(D) \in Nat
  BY DueIs DEF Due
<1>3. ExistsBijection(D, S)
  <2>1. f \in [D -> S]
    BY <1>1
  <2>2. \A a, b \in D : f[a] = f[b] => a = b
    BY <1>1
  <2>3. \A b \in S : \E a \in D : f[a] = b
    <3> SUFFICES ASSUME NEW b \in S PROVE \E a \in D : f[a] = b
      OBVIOUS
    <3>1. b - 1 \in 1 .. Len(is) /\ (b - 1) + 1 = b /\ b \in DOMAIN ms /\ ms[b].kind # "stop"
      BY <1>1
    <3>2. is[b - 1] = ms[b]
      BY <3>1
    <3>3. b - 1 \in D
      BY <1>1, <3>1, <3>2
    <3> QED BY <3>1, <3>3
  <2>4. f \in Bijection(D, S)
    BY <2>1, <2>2, <2>3, Fun_IsBij
  <2> QED BY <2>4 DEF ExistsBijection
<1>4. IsFiniteSet(S) /\ Cardinality(S) = Cardinality(D)
  BY <1>2, <1>3, FS_Bijection
<1>5. CASE m.kind # "stop"
  <2>1. E = S \cup {1} /\ 1 \notin S
    BY <1>1, <1>5
  <2>2. Cardinality(S \cup {1}) = Cardinality(S) + 1
    BY <1>4, <2>1, FS_AddElement
  <2> QED BY <1>2, <1>4, <1>5, <2>1, <2>2 DEF Due
<1>6. CASE m.kind = "stop"
  <2>1. E = S
    BY <1>1, <1>6
  <2>2. Due(ms) = Cardinality(S)
    BY <2>1 DEF Due
  <2> QED BY <1>2, <1>4, <1>6, <2>2
<1> QED BY <1>5, <1>6

LEMMA DueTail ==
  ASSUME NEW is \in Seq(Intents), is # <<>>
  PROVE  /\ Tail(is) \in Seq(Intents) /\ Head(is) \in Intents
         /\ Due(is) = Due(Tail(is)) + (IF Head(is).kind # "stop" THEN 1 ELSE 0)
<1>1. /\ Tail(is) \in Seq(Intents) /\ Head(is) \in Intents /\ Head(is) = is[1]
      /\ Len(is) = Len(Tail(is)) + 1
      /\ \A i \in 1 .. Len(Tail(is)) : is[i + 1] = Tail(is)[i]
  OBVIOUS
<1> QED BY <1>1, DueShift

LEMMA DueFirst ==
  ASSUME NEW is \in Seq(Intents), NEW m \in Intents, m.kind # "stop"
  PROVE  /\ <<m>> \o is \in Seq(Intents)
         /\ Due(<<m>> \o is) = Due(is) + 1
<1>1. <<m>> \in Seq(Intents) /\ Len(<<m>>) = 1 /\ <<m>>[1] = m
  OBVIOUS
<1> DEFINE ms == <<m>> \o is
<1>2. /\ ms \in Seq(Intents) /\ Len(ms) = Len(<<m>>) + Len(is)
      /\ \A i \in 1 .. Len(<<m>>) + Len(is) :
           ms[i] = IF i <= Len(<<m>>) THEN <<m>>[i] ELSE is[i - Len(<<m>>)]
  BY <1>1, ConcatProperties
<1>3. Len(is) \in Nat
  OBVIOUS
<1> HIDE DEF ms
<1>4. Len(ms) = Len(is) + 1
  BY <1>1, <1>2, <1>3
<1>5. ms[1] = m
  <2>1. 1 \in 1 .. Len(<<m>>) + Len(is) /\ 1 <= Len(<<m>>)
    BY <1>1, <1>3
  <2> QED BY <1>1, <1>2, <2>1
<1>6. ASSUME NEW i \in 1 .. Len(is) PROVE ms[i + 1] = is[i]
  <2>1. i + 1 \in 1 .. Len(<<m>>) + Len(is) /\ ~(i + 1 <= Len(<<m>>)) /\ (i + 1) - Len(<<m>>) = i
    BY <1>1, <1>3
  <2> QED BY <1>2, <2>1
<1>7. Due(ms) = Due(is) + 1
  BY <1>2, <1>4, <1>5, <1>6, DueShift
<1> QED BY <1>2, <1>7 DEF ms

LEMMA DueEmpty == Due(<<>>) = 0 /\ <<>> \in Seq(Intents)
<1>1. {i \in DOMAIN <<>> : <<>>[i].kind # "stop"} = {}
  OBVIOUS
<1> QED BY <1>1, FS_EmptySet DEF Due

-----------------------------------------------------------------------------
(* One frame moves.                                                        *)

Fits(t, f) ==
  /\ f \in Frames
  /\ t = "nm" => f.at \in NmPlaces(f.op)
  /\ t = "main" => f.at \in MainPlaces(f.op)
  /\ f.ref # None => f.at \in {"dropClient", "startClient"}

LEMMA FrameFits ==
  ASSUME FramesOK(frames), NEW t \in Threads
  PROVE  Fits(t, frames[t])
BY DEF FramesOK, Fits

LEMMA FramesMove ==
  ASSUME FramesOK(frames), NEW t \in Threads, NEW f, Fits(t, f)
  PROVE  FramesOK([frames EXCEPT ![t] = f])
BY DEF FramesOK, Fits, Threads

LEMMA LockMove ==
  ASSUME FramesOK(frames), LockOK(frames, ownerLock), NEW t \in Threads, NEW f
  PROVE  /\ (Holding(f) <=> Holding(frames[t])) => LockOK([frames EXCEPT ![t] = f], ownerLock)
         /\ ownerLock = Free /\ Holding(f) => LockOK([frames EXCEPT ![t] = f], t)
         /\ Holding(frames[t]) /\ ~Holding(f) => LockOK([frames EXCEPT ![t] = f], Free)
<1> DEFINE fs == [frames EXCEPT ![t] = f]
<1>1. \A u \in Threads : fs[u] = IF u = t THEN f ELSE frames[u]
  BY DEF FramesOK
<1>2. Free \notin Threads
  BY DEF Free, Threads
<1> HIDE DEF fs
<1>3. ASSUME Holding(f) <=> Holding(frames[t]) PROVE LockOK(fs, ownerLock)
  BY <1>1, <1>3 DEF LockOK
<1>4. ASSUME ownerLock = Free, Holding(f) PROVE LockOK(fs, t)
  <2>1. \A u \in Threads : ~Holding(frames[u])
    BY <1>2, <1>4 DEF LockOK
  <2> QED BY <1>1, <1>4, <2>1 DEF LockOK
<1>5. ASSUME Holding(frames[t]), ~Holding(f) PROVE LockOK(fs, Free)
  <2>1. \A u \in Threads : Holding(frames[u]) => u = t
    BY <1>5 DEF LockOK
  <2> QED BY <1>1, <1>2, <1>5, <2>1 DEF LockOK
<1> QED BY <1>3, <1>4, <1>5 DEF fs

Starts(lf) == lf["startService"] + lf["startInProcess"]

LEMMA StartsType == ASSUME NEW lf \in [HostOps -> Nat] PROVE Starts(lf) \in Nat
<1>1. "startService" \in HostOps /\ "startInProcess" \in HostOps
  BY DEF HostOps
<1> QED BY <1>1 DEF Starts

LEMMA BudgetMove ==
  ASSUME NEW t \in Threads, NEW f, FramesOK(frames),
         NEW ls \in [Clients -> Nat], NEW is \in Seq(Intents), NEW lf \in [HostOps -> Nat],
         TypesOK, BudgetOK(listener, intents, frames, left, crashes),
         Used(ls) + Due(is) + Coming(f) + Starts(lf)
           <= Used(listener) + Due(intents) + Coming(frames[t]) + Starts(left)
  PROVE  BudgetOK(ls, is, [frames EXCEPT ![t] = f], lf, crashes)
<1> DEFINE fs == [frames EXCEPT ![t] = f]
           o == IF t = "nm" THEN "main" ELSE "nm"
<1>1. /\ o \in Threads /\ fs[t] = f /\ fs[o] = frames[o]
      /\ {"nm", "main"} = {t, o} /\ t # o
  BY DEF FramesOK, Threads
<1>2. /\ Used(ls) \in Nat /\ Used(listener) \in Nat
      /\ Due(is) \in Nat /\ Due(intents) \in Nat
  BY UsedIs, DueIs DEF TypesOK
<1>3. /\ lf["startService"] \in Nat /\ lf["startInProcess"] \in Nat
      /\ left["startService"] \in Nat /\ left["startInProcess"] \in Nat
      /\ MaxCrashes - crashes \in Int /\ MaxClients \in Nat
  BY OwnershipAssumption DEF TypesOK, HostOps
<1>4. \A g : Coming(g) \in {0, 1}
  BY DEF Coming
<1>5. \/ t = "nm" /\ o = "main"
      \/ t = "main" /\ o = "nm"
  BY DEF Threads
<1> HIDE DEF fs, o
<1>6. Coming(fs["nm"]) + Coming(fs["main"]) = Coming(f) + Coming(frames[o])
  BY <1>1, <1>4, <1>5
<1>7. Coming(frames["nm"]) + Coming(frames["main"]) = Coming(frames[t]) + Coming(frames[o])
  BY <1>4, <1>5
<1>8. /\ Coming(fs["nm"]) \in Nat /\ Coming(fs["main"]) \in Nat /\ Coming(f) \in Nat
      /\ Coming(frames["nm"]) \in Nat /\ Coming(frames["main"]) \in Nat
      /\ Coming(frames[t]) \in Nat /\ Coming(frames[o]) \in Nat
  BY <1>4
<1>9. /\ Used(ls) + Due(is) + Coming(f) + (lf["startService"] + lf["startInProcess"])
           <= Used(listener) + Due(intents) + Coming(frames[t])
                + (left["startService"] + left["startInProcess"])
      /\ Used(listener) + Due(intents) + Coming(frames["nm"]) + Coming(frames["main"])
           + left["startService"] + left["startInProcess"] + (MaxCrashes - crashes) <= MaxClients
  BY DEF BudgetOK, Starts
<1>10. Used(ls) + Due(is) + Coming(fs["nm"]) + Coming(fs["main"])
         + lf["startService"] + lf["startInProcess"] + (MaxCrashes - crashes) <= MaxClients
  <2> DEFINE u1 == Used(ls)  d1 == Due(is)  l1 == lf["startService"]  m1 == lf["startInProcess"]
             u2 == Used(listener)  d2 == Due(intents)  l2 == left["startService"]
             m2 == left["startInProcess"]  k == MaxClients  r == MaxCrashes - crashes
             a == Coming(fs["nm"])  b == Coming(fs["main"])
             c == Coming(frames["nm"])  d == Coming(frames["main"])
             e == Coming(f)  g == Coming(frames[t])  h == Coming(frames[o])
  <2>1. /\ u1 \in Nat /\ d1 \in Nat /\ l1 \in Nat /\ m1 \in Nat
        /\ u2 \in Nat /\ d2 \in Nat /\ l2 \in Nat /\ m2 \in Nat /\ k \in Nat /\ r \in Int
        /\ a \in Nat /\ b \in Nat /\ c \in Nat /\ d \in Nat /\ e \in Nat
        /\ g \in Nat /\ h \in Nat
    BY <1>2, <1>3, <1>8
  <2>2. a + b = e + h /\ c + d = g + h
    BY <1>6, <1>7
  <2>3. /\ u1 + d1 + e + (l1 + m1) <= u2 + d2 + g + (l2 + m2)
        /\ u2 + d2 + c + d + l2 + m2 + r <= k
    BY <1>9
  <2> HIDE DEF u1, d1, l1, m1, u2, d2, l2, m2, k, r, a, b, c, d, e, g, h
  <2>4. u1 + d1 + a + b + l1 + m1 + r <= k
    BY <2>1, <2>2, <2>3
  <2> QED BY <2>4 DEF u1, d1, l1, m1, k, r, a, b
<1>13. BudgetOK(ls, is, fs, lf, crashes)
  BY <1>10 DEF BudgetOK
<1> QED BY <1>13 DEF fs

(* A thread that holds no client and takes none; it may have the           *)
(* generation moved on, or publish an error under the new one.             *)
LEMMA QuietStep ==
  ASSUME IInv, NEW t \in Threads, NEW f, Fits(t, f), frames' = [frames EXCEPT ![t] = f],
         frames[t].at # "dropClient", frames[t].ref = None,
         f.at \notin {"dropClient", "install", "startClient"},
         UNCHANGED <<client, listener, queue, live, publishing, orphans>>,
         generation' \in Nat, generation' >= generation,
         \/ errorGen' = errorGen
         \/ errorGen' = generation' /\ generation' > generation /\ publishing = Silent
  PROVE  FramesOK(frames') /\ ListensOK' /\ BeginOK' /\ StopsOK' /\ OneOwner'
<1>1. FramesOK(frames) /\ ListensOK /\ BeginOK /\ StopsOK /\ OneOwner /\ TypesOK
  BY DEF IInv
<1>2. /\ FramesOK(frames')
      /\ \A u \in Threads : frames'[u] = IF u = t THEN f ELSE frames[u]
      /\ f.ref = None
  BY <1>1, FramesMove DEF FramesOK, Fits
<1>3. /\ \A c \in Clients : Active(c)' => Active(c)
      /\ \A c \in Clients : Runs(c)' = Runs(c)
  BY <1>2 DEF Active, Runs, Clients, None
<1>4. ListensOK'
  <2>1. \A c \in Clients : Active(c) => listener[c] \in 1 .. generation' /\ listener[c] # errorGen'
    BY <1>1 DEF ListensOK, TypesOK
  <2>2. errorGen' <= generation' /\ errorGen \in Nat /\ generation \in Nat
    BY <1>1 DEF ListensOK, TypesOK
  <2>3. publishing # Silent => publishing.who \in Clients /\ listener[publishing.who] > errorGen'
    BY <1>1 DEF ListensOK
  <2> QED BY <1>3, <2>1, <2>2, <2>3 DEF ListensOK, Silent
<1>5. BeginOK'
  <2> SUFFICES ASSUME NEW u \in Threads
               PROVE  (/\ At(u, "install") => client = None
                       /\ At(u, "startClient") =>
                            /\ frames[u].ref \in Clients
                            /\ frames[u].ref = client \/ frames[u].ref \in orphans
                            /\ frames[u].ref \notin live
                            /\ \A i \in DOMAIN queue[frames[u].ref] : queue[frames[u].ref][i] = "stop"
                            /\ frames[u].ref = client /\ (\A v \in Threads : ~At(v, "dropClient"))
                                 => queue[frames[u].ref] = <<>>)'
    BY DEF BeginOK
  <2>1. CASE u = t
    BY <1>2, <2>1 DEF At
  <2>2. CASE u # t
    <3>1. frames'[u] = frames[u]
      BY <1>2, <2>2
    <3>2. (\A v \in Threads : ~At(v, "dropClient"))' => \A v \in Threads : ~At(v, "dropClient")
      BY <1>2 DEF At
    <3> QED BY <1>1, <3>1, <3>2 DEF BeginOK, At
  <2> QED BY <2>1, <2>2
<1>6. StopsOK'
  BY <1>1, <1>2, <1>3 DEF StopsOK, At, FramesOK, Frames
<1>7. OneOwner'
  BY <1>1, <1>3 DEF OneOwner
<1> QED BY <1>2, <1>4, <1>5, <1>6, <1>7

(* The rest of the invariant after such a step.                            *)
LEMMA QuietKeeps ==
  ASSUME IInv, NEW t \in Threads, NEW f, Fits(t, f), frames' = [frames EXCEPT ![t] = f],
         frames[t].at # "dropClient", frames[t].ref = None,
         f.at \notin {"dropClient", "install", "startClient"},
         UNCHANGED <<client, listener, queue, live, publishing, orphans, crashes>>,
         generation' >= generation,
         \/ errorGen' = errorGen
         \/ errorGen' = generation' /\ generation' > generation /\ publishing = Silent,
         TypesOK', LockOK(frames', ownerLock'),
         Due(intents') + Coming(f) + Starts(left')
           <= Due(intents) + Coming(frames[t]) + Starts(left),
         ~relayOn' /\ ~TurningOff' => ~relayOn /\ ~TurningOff,
         Installing(f) => relayOn'
  PROVE  IInv'
<1>1. /\ FramesOK(frames) /\ TypesOK /\ BudgetOK(listener, intents, frames, left, crashes) /\ OffOK
  BY DEF IInv
<1>2. generation' \in Nat
  BY DEF TypesOK
<1>3. FramesOK(frames') /\ ListensOK' /\ BeginOK' /\ StopsOK' /\ OneOwner'
  BY <1>2, QuietStep
<1>4. BudgetOK(listener', intents', frames', left', crashes')
  <2>1. /\ listener \in [Clients -> Nat] /\ intents' \in Seq(Intents) /\ left' \in [HostOps -> Nat]
        /\ Starts(left) \in Nat /\ Starts(left') \in Nat /\ intents \in Seq(Intents)
    <3>1. left \in [HostOps -> Nat] /\ left' \in [HostOps -> Nat]
      BY <1>1 DEF TypesOK
    <3>2. Starts(left) \in Nat /\ Starts(left') \in Nat
      BY <3>1, StartsType
    <3> QED BY <1>1, <3>1, <3>2 DEF TypesOK
  <2>2. /\ Used(listener) \in Nat /\ Due(intents) \in Nat /\ Due(intents') \in Nat
        /\ Coming(f) \in Nat /\ Coming(frames[t]) \in Nat
    BY <2>1, UsedIs, DueIs DEF Coming
  <2>3. Used(listener) + Due(intents') + Coming(f) + Starts(left')
          <= Used(listener) + Due(intents) + Coming(frames[t]) + Starts(left)
    BY <2>1, <2>2
  <2>4. BudgetOK(listener, intents', [frames EXCEPT ![t] = f], left', crashes)
    BY <1>1, <2>1, <2>3, BudgetMove
  <2> QED BY <2>4
<1>5. OffOK'
  <2>1. \A u \in Threads : frames'[u] = IF u = t THEN f ELSE frames[u]
    BY <1>1 DEF FramesOK
  <2>2. ASSUME ~relayOn', ~TurningOff', NEW u \in Threads PROVE client' = None /\ ~Installing(frames'[u])
    BY <1>1, <2>1, <2>2 DEF OffOK
  <2> QED BY <2>2 DEF OffOK
<1> QED BY <1>3, <1>4, <1>5 DEF IInv

(* Where a frame goes on when nothing else of it changes.                  *)
LEMMA MoveIs ==
  ASSUME FramesOK(frames), NEW t \in Threads, NEW p \in Places
  PROVE  LET f == [frames[t] EXCEPT !.at = p]
         IN  /\ f \in Frames /\ f.op = frames[t].op /\ f.at = p /\ f.gen = frames[t].gen
             /\ f.ref = frames[t].ref
             /\ [frames EXCEPT ![t].at = p] = [frames EXCEPT ![t] = f]
<1>1. frames[t] \in Frames
  BY DEF FramesOK
<1>2. frames \in [Threads -> Frames]
  BY DEF FramesOK
<1>3. [frames EXCEPT ![t].at = p] = [frames EXCEPT ![t] = [frames[t] EXCEPT !.at = p]]
  BY <1>2
<1> QED BY <1>1, <1>3 DEF Frames

LEMMA IdleIs ==
  /\ Idle \in Frames /\ Idle.ref = None /\ Idle.at = "idle" /\ Idle.op = "none" /\ Idle.gen = 0
  /\ \A t \in Threads : Fits(t, Idle)
  /\ Coming(Idle) = 0 /\ ~Holding(Idle) /\ ~Installing(Idle)
<1>1. "idle" \in Places /\ "none" \in HostOps \cup MainOps \cup {"none"} /\ None \in Clients \cup {None}
  BY DEF Places
<1>2. Idle \in Frames
  BY <1>1 DEF Idle, Frames
<1> QED BY <1>2 DEF Idle, Fits, NmPlaces, MainPlaces, Coming, Holding, Installing, Starters

(* What a request is, from where it stands.                                *)
LEMMA NmAt ==
  ASSUME FramesOK(frames)
  PROVE  LET f == frames["nm"] IN
         /\ f.at \in {"mark", "claim"} => f.op \in StartOps
         /\ f.at \in {"startService", "publishError"} => f.op = "startService"
         /\ f.at \in {"begin", "install", "startClient"} => f.op = "startInProcess"
         /\ f.at \in {"offRunning", "lock", "unlock", "offStop", "offClear", "offDisable"}
              => f.op = "relayOff"
         /\ f.at = "sendStop" => f.op = "stop"
         /\ f.at = "entry" => f.op \in HostOps
         /\ f.at = "idle" => f.op = "none"
         /\ f.at \notin {"promote", "staleCheck", "forget", "clear", "stopSelf"}
         /\ f.at \in {"stopClient", "dropClient"} => f.op \in {"startInProcess", "stop", "relayOff"}
         /\ f.at \notin {"dropClient", "startClient"} => f.ref = None
         /\ f \in Frames
<1>1. frames["nm"].at \in NmPlaces(frames["nm"].op) /\ frames["nm"] \in Frames
  BY DEF FramesOK, Threads
<1>2. frames["nm"].at \notin {"dropClient", "startClient"} => frames["nm"].ref = None
  BY DEF FramesOK, Threads
<1> QED BY <1>1, <1>2 DEF NmPlaces, Holders, StartOps, HostOps

LEMMA MainAt ==
  ASSUME FramesOK(frames)
  PROVE  LET f == frames["main"] IN
         /\ f.at \in {"promote", "begin", "install", "startClient"} => f.op \in {"start", "restart"}
         /\ f.at \in {"staleCheck", "forget", "clear"} => f.op = "stopRequest"
         /\ f.at = "publishError" => f.op \in {"refused", "timeout"}
         /\ f.at = "stopSelf" => f.op \in {"start", "restart", "stopRequest", "refused", "timeout"}
         /\ f.at = "idle" => f.op = "none"
         /\ f.at \notin {"entry", "mark", "claim", "startService", "sendStop", "offRunning",
                         "lock", "unlock", "offStop", "offClear", "offDisable"}
         /\ f.at \in {"stopClient", "dropClient"} => f.op \in MainOps
         /\ f.at \notin {"dropClient", "startClient"} => f.ref = None
         /\ f \in Frames
<1>1. frames["main"].at \in MainPlaces(frames["main"].op) /\ frames["main"] \in Frames
  BY DEF FramesOK, Threads
<1>2. frames["main"].at \notin {"dropClient", "startClient"} => frames["main"].ref = None
  BY DEF FramesOK, Threads
<1> QED BY <1>1, <1>2 DEF MainPlaces, Holders, MainOps

(* A request goes on, or is over, and the ownerLock is not its business.   *)
Steady == UNCHANGED <<ownerLock, client, listener, queue, live, publishing, orphans,
                      left, crashes>>
ErrorKept ==
  /\ generation' >= generation
  /\ \/ errorGen' = errorGen
     \/ errorGen' = generation' /\ generation' > generation /\ publishing = Silent

LEMMA MoveKeeps ==
  ASSUME IInv, NEW t \in Threads, NEW p \in Places \ (Holders \cup {"unlock"}),
         frames' = [frames EXCEPT ![t].at = p],
         t = "nm" => p \in NmPlaces(frames[t].op),
         t = "main" => p \in MainPlaces(frames[t].op),
         frames[t].at \notin Holders \cup {"unlock"},
         Steady, ErrorKept, TypesOK',
         Due(intents') + Coming([frames[t] EXCEPT !.at = p]) <= Due(intents) + Coming(frames[t]),
         ~relayOn' /\ ~TurningOff' => ~relayOn /\ ~TurningOff
  PROVE  IInv'
<1> DEFINE f == [frames[t] EXCEPT !.at = p]
<1>1. FramesOK(frames) /\ LockOK(frames, ownerLock) /\ TypesOK
  BY DEF IInv
<1>2. /\ f \in Frames /\ f.op = frames[t].op /\ f.at = p /\ f.ref = frames[t].ref
      /\ frames' = [frames EXCEPT ![t] = f]
  BY <1>1, MoveIs
<1>3. frames[t].ref = None /\ frames[t].at # "dropClient"
  BY <1>1 DEF FramesOK, Holders
<1> HIDE DEF f
<1>4. Fits(t, f)
  BY <1>2, <1>3 DEF Fits
<1>5. ~Holding(f) /\ ~Holding(frames[t]) /\ ~Installing(f)
  BY <1>2 DEF Holding, Installing, Holders
<1>6. LockOK(frames', ownerLock')
  <2>1. LockOK([frames EXCEPT ![t] = f], ownerLock)
    BY <1>1, <1>5, LockMove
  <2> QED BY <1>2, <2>1 DEF Steady
<1>7. Due(intents') + Coming(f) + Starts(left') <= Due(intents) + Coming(frames[t]) + Starts(left)
  <2>1. Due(intents') + Coming(f) <= Due(intents) + Coming(frames[t])
    BY DEF f
  <2>2. Due(intents) \in Nat /\ Due(intents') \in Nat /\ Coming(f) \in Nat /\ Coming(frames[t]) \in Nat
    BY <1>1, DueIs DEF TypesOK, Coming
  <2>3. Starts(left) \in Nat /\ Starts(left') = Starts(left)
    BY <1>1, StartsType DEF TypesOK, Steady
  <2> QED BY <2>1, <2>2, <2>3
<1>8. f.at \notin {"dropClient", "install", "startClient"}
  BY <1>2 DEF Holders
<1> QED BY <1>2, <1>3, <1>4, <1>5, <1>6, <1>7, <1>8, QuietKeeps DEF Steady, ErrorKept

LEMMA DoneKeeps ==
  ASSUME IInv, NEW t \in Threads, frames' = [frames EXCEPT ![t] = Idle],
         frames[t].at \notin Holders \cup {"unlock"},
         Steady, ErrorKept, TypesOK',
         Due(intents') <= Due(intents) + Coming(frames[t]),
         ~relayOn' /\ ~TurningOff' => ~relayOn /\ ~TurningOff
  PROVE  IInv'
<1>1. FramesOK(frames) /\ LockOK(frames, ownerLock) /\ TypesOK
  BY DEF IInv
<1>2. frames[t].ref = None /\ frames[t].at # "dropClient"
  BY <1>1 DEF FramesOK, Holders
<1>3. ~Holding(frames[t])
  BY DEF Holding, Installing, Holders
<1>4. LockOK(frames', ownerLock')
  BY <1>1, <1>3, IdleIs, LockMove DEF Steady
<1>5. Due(intents') + Coming(Idle) + Starts(left') <= Due(intents) + Coming(frames[t]) + Starts(left)
  <2>1. Due(intents) \in Nat /\ Due(intents') \in Nat /\ Coming(Idle) = 0 /\ Coming(frames[t]) \in Nat
    BY <1>1, DueIs, IdleIs DEF TypesOK, Coming
  <2>2. Starts(left) \in Nat /\ Starts(left') = Starts(left)
    BY <1>1, StartsType DEF TypesOK, Steady
  <2> QED BY <2>1, <2>2
<1>6. Idle.at \notin {"dropClient", "install", "startClient"}
  BY IdleIs
<1> QED BY <1>2, <1>4, <1>5, <1>6, IdleIs, QuietKeeps DEF Steady, ErrorKept

-----------------------------------------------------------------------------
(* The requests of JS.                                                     *)

LEMMA Unchanged ==
  ASSUME IInv, generation' = generation, errorGen' = errorGen
  PROVE  ErrorKept
BY DEF IInv, TypesOK, ErrorKept

LEMMA Same == ASSUME IInv, intents' = intents PROVE Due(intents') = Due(intents) /\ Due(intents) \in Nat
BY DueIs DEF IInv, TypesOK

(* What the platform takes is a start at most once more.                   *)
LEMMA SendIs ==
  ASSUME IInv, NEW kind \in Kinds, NEW gen \in Nat, Send(kind, gen)
  PROVE  /\ intents' \in Seq(Intents) /\ Due(intents) \in Nat
         /\ Due(intents') <= Due(intents) + 1
         /\ kind = "stop" => Due(intents') <= Due(intents)
         /\ Due(intents') \in Nat
<1> DEFINE m == [kind |-> kind, gen |-> gen]
<1>1. m \in Intents /\ m.kind = kind /\ intents \in Seq(Intents)
  BY DEF IInv, TypesOK, Intents
<1>2. intents' = Append(intents, m) \/ intents' = intents
  BY DEF Send
<1>3. Due(intents) \in Nat
  BY <1>1, DueIs
<1> HIDE DEF m
<1>4. /\ Append(intents, m) \in Seq(Intents)
      /\ kind # "stop" => Due(Append(intents, m)) = Due(intents) + 1
      /\ kind = "stop" => Due(Append(intents, m)) = Due(intents) + 0
  BY <1>1, DueAppend
<1>5. CASE intents' = intents
  BY <1>1, <1>3, <1>5
<1>6. CASE intents' = Append(intents, m)
  <2>1. Due(intents') = Due(Append(intents, m))
    BY <1>6
  <2>3. intents' \in Seq(Intents)
    BY <1>4, <1>6
  <2>4. Due(intents') \in Nat
    BY <2>3, DueIs
  <2>5. CASE kind = "stop"
    BY <1>3, <1>4, <2>1, <2>3, <2>4, <2>5
  <2>6. CASE kind # "stop"
    BY <1>3, <1>4, <2>1, <2>3, <2>4, <2>6
  <2> QED BY <2>5, <2>6
<1> QED BY <1>2, <1>5, <1>6

LEMMA StartEntryStep == ASSUME IInv, StartEntry PROVE IInv'
<1>1. /\ FramesOK(frames) /\ TypesOK /\ "nm" \in Threads
      /\ frames["nm"].at = "entry" /\ frames["nm"].op \in StartOps
  BY DEF IInv, StartEntry, At, Threads, StartOps
<1>2. /\ TypesOK'
      /\ intents' = intents
      /\ Steady /\ relayOn' = relayOn /\ generation' = generation /\ errorGen' = errorGen
  BY <1>1 DEF StartEntry, TypesOK, Steady, control, world, platform, bounds, hist
<1>3. ~TurningOff
  BY <1>1 DEF TurningOff, At
<1>4. ErrorKept /\ Due(intents') = Due(intents) /\ Due(intents) \in Nat
  BY <1>2, Unchanged, Same
<1>5. frames["nm"].at \notin Holders \cup {"unlock"}
  BY <1>1 DEF Holders
<1>6. CASE relayOn
  <2>1. frames' = [frames EXCEPT !["nm"].at = "mark"]
    BY <1>6 DEF StartEntry, Go
  <2>2. "mark" \in Places \ (Holders \cup {"unlock"}) /\ "mark" \in NmPlaces(frames["nm"].op)
    BY <1>1 DEF Places, Holders, NmPlaces, StartOps
  <2>3. Coming([frames["nm"] EXCEPT !.at = "mark"]) = Coming(frames["nm"])
    BY <1>1, <2>2, MoveIs DEF Coming
  <2>4. Due(intents') + Coming([frames["nm"] EXCEPT !.at = "mark"])
          <= Due(intents) + Coming(frames["nm"])
    BY <1>4, <2>3 DEF Coming
  <2> QED BY <1>1, <1>2, <1>3, <1>4, <1>5, <2>1, <2>2, <2>4, MoveKeeps
<1>7. CASE ~relayOn
  <2>1. frames' = [frames EXCEPT !["nm"] = Idle]
    BY <1>7 DEF StartEntry, Done
  <2>2. Due(intents') <= Due(intents) + Coming(frames["nm"])
    BY <1>4 DEF Coming
  <2> QED BY <1>1, <1>2, <1>3, <1>4, <1>5, <2>1, <2>2, DoneKeeps
<1> QED BY <1>1, <1>6, <1>7 DEF TypesOK

LEMMA StartClaimStep == ASSUME IInv, StartClaim PROVE IInv'
<1>1. /\ FramesOK(frames) /\ TypesOK /\ "nm" \in Threads
      /\ frames["nm"].at = "claim" /\ frames["nm"].op \in StartOps
      /\ frames["nm"].gen \in Nat
  BY NmAt DEF IInv, StartClaim, At, Threads, Frames
<1>2. /\ TypesOK'
      /\ intents' = intents
      /\ Steady /\ relayOn' = relayOn /\ generation' = generation /\ errorGen' = errorGen
  BY <1>1 DEF StartClaim, TypesOK, Words, Steady, storage, world, platform, bounds, hist
<1>3. ~TurningOff
  BY <1>1 DEF TurningOff, At
<1>4. ErrorKept /\ Due(intents') = Due(intents) /\ Due(intents) \in Nat
  BY <1>2, Unchanged, Same
<1>5. frames["nm"].at \notin Holders \cup {"unlock"}
  BY <1>1 DEF Holders
<1> DEFINE p == IF Op("nm", "startService") THEN "startService" ELSE "begin"
<1>6. /\ frames' = [frames EXCEPT !["nm"].at = p]
      /\ p \in Places \ (Holders \cup {"unlock"}) /\ p \in NmPlaces(frames["nm"].op)
      /\ p \in {"startService", "begin"}
  BY <1>1 DEF StartClaim, Go, Op, Places, Holders, NmPlaces, StartOps
<1> HIDE DEF p
<1>7. Coming([frames["nm"] EXCEPT !.at = p]) = Coming(frames["nm"])
  BY <1>1, <1>6, MoveIs DEF Coming
<1>8. Due(intents') + Coming([frames["nm"] EXCEPT !.at = p]) <= Due(intents) + Coming(frames["nm"])
  BY <1>4, <1>7 DEF Coming
<1> QED BY <1>1, <1>2, <1>3, <1>4, <1>5, <1>6, <1>8, MoveKeeps

LEMMA StopEntryStep == ASSUME IInv, StopEntry PROVE IInv'
<1>1. /\ FramesOK(frames) /\ TypesOK /\ "nm" \in Threads
      /\ frames["nm"].at = "entry" /\ frames["nm"].op = "stop"
  BY NmAt DEF IInv, StopEntry, At, Op, Threads, StartOps, HostOps
<1>2. /\ TypesOK'
      /\ intents' = intents
      /\ Steady /\ generation' = generation /\ errorGen' = errorGen
  BY <1>1 DEF StopEntry, TypesOK, None, Steady, storage, control, world, platform, bounds, hist
<1>3. ErrorKept /\ Due(intents') = Due(intents) /\ Due(intents) \in Nat
  BY <1>2, Unchanged, Same
<1>4. /\ frames' = [frames EXCEPT !["nm"].at = "sendStop"]
      /\ "sendStop" \in Places \ (Holders \cup {"unlock"}) /\ "sendStop" \in NmPlaces(frames["nm"].op)
      /\ frames["nm"].at \notin Holders \cup {"unlock"}
  BY <1>1 DEF StopEntry, Go, Places, Holders, NmPlaces, StartOps
<1>5. Coming([frames["nm"] EXCEPT !.at = "sendStop"]) = Coming(frames["nm"])
  BY <1>1, <1>4, MoveIs DEF Coming
<1>6. Due(intents') + Coming([frames["nm"] EXCEPT !.at = "sendStop"]) <= Due(intents) + Coming(frames["nm"])
  BY <1>3, <1>5 DEF Coming
<1>7. ~relayOn' /\ ~TurningOff' => ~relayOn /\ ~TurningOff
  BY <1>1 DEF StopEntry, TurningOff, Op, At, storage
<1> QED BY <1>1, <1>2, <1>3, <1>4, <1>6, <1>7, MoveKeeps

LEMMA RelayOffStep == ASSUME IInv, RelayOff PROVE IInv'
<1>1. /\ FramesOK(frames) /\ TypesOK /\ "nm" \in Threads
      /\ frames["nm"].at = "entry" /\ frames["nm"].op = "relayOff"
  BY NmAt DEF IInv, RelayOff, At, Op, Threads, StartOps, HostOps
<1>2. /\ TypesOK'
      /\ intents' = intents
      /\ Steady /\ generation' = generation /\ errorGen' = errorGen
  BY <1>1 DEF RelayOff, TypesOK, Steady, storage, control, world, platform, bounds, hist
<1>3. ErrorKept /\ Due(intents') = Due(intents) /\ Due(intents) \in Nat
  BY <1>2, Unchanged, Same
<1>4. /\ frames' = [frames EXCEPT !["nm"].at = "offRunning"]
      /\ "offRunning" \in Places \ (Holders \cup {"unlock"}) /\ "offRunning" \in NmPlaces(frames["nm"].op)
      /\ frames["nm"].at \notin Holders \cup {"unlock"}
  BY <1>1 DEF RelayOff, Go, Places, Holders, NmPlaces, StartOps
<1>5. Coming([frames["nm"] EXCEPT !.at = "offRunning"]) = Coming(frames["nm"])
  BY <1>1, <1>4, MoveIs DEF Coming
<1>6. Due(intents') + Coming([frames["nm"] EXCEPT !.at = "offRunning"]) <= Due(intents) + Coming(frames["nm"])
  BY <1>3, <1>5 DEF Coming
<1>7. ~relayOn' /\ ~TurningOff' => ~relayOn /\ ~TurningOff
  <2>1. TurningOff'
    BY <1>1, <1>4, MoveIs DEF TurningOff, Op, At, FramesOK
  <2> QED BY <2>1
<1> QED BY <1>1, <1>2, <1>3, <1>4, <1>6, <1>7, MoveKeeps

LEMMA OffClearStep == ASSUME IInv, OffClear PROVE IInv'
<1>1. /\ FramesOK(frames) /\ TypesOK /\ "nm" \in Threads
      /\ frames["nm"].at = "offClear" /\ frames["nm"].op = "relayOff"
  BY NmAt DEF IInv, OffClear, At, Op, Threads, StartOps, HostOps
<1>2. /\ TypesOK'
      /\ intents' = intents
      /\ Steady /\ generation' = generation /\ errorGen' = errorGen
  BY <1>1 DEF OffClear, TypesOK, Steady, storage, control, world, platform, bounds, hist
<1>3. ErrorKept /\ Due(intents') = Due(intents) /\ Due(intents) \in Nat
  BY <1>2, Unchanged, Same
<1>4. /\ frames' = [frames EXCEPT !["nm"].at = "offDisable"]
      /\ "offDisable" \in Places \ (Holders \cup {"unlock"}) /\ "offDisable" \in NmPlaces(frames["nm"].op)
      /\ frames["nm"].at \notin Holders \cup {"unlock"}
  BY <1>1 DEF OffClear, Go, Places, Holders, NmPlaces, StartOps
<1>5. Coming([frames["nm"] EXCEPT !.at = "offDisable"]) = Coming(frames["nm"])
  BY <1>1, <1>4, MoveIs DEF Coming
<1>6. Due(intents') + Coming([frames["nm"] EXCEPT !.at = "offDisable"]) <= Due(intents) + Coming(frames["nm"])
  BY <1>3, <1>5 DEF Coming
<1>7. ~relayOn' /\ ~TurningOff' => ~relayOn /\ ~TurningOff
  BY <1>1 DEF OffClear, TurningOff, Op, At, storage
<1> QED BY <1>1, <1>2, <1>3, <1>4, <1>6, <1>7, MoveKeeps

LEMMA OffDisableStep == ASSUME IInv, OffDisable PROVE IInv'
<1>1. /\ FramesOK(frames) /\ TypesOK /\ "nm" \in Threads
      /\ frames["nm"].at = "offDisable" /\ frames["nm"].op = "relayOff"
  BY NmAt DEF IInv, OffDisable, At, Op, Threads
<1>2. /\ TypesOK'
      /\ intents' = intents
      /\ Steady /\ generation' = generation /\ errorGen' = errorGen
  BY <1>1 DEF OffDisable, TypesOK, Steady, storage, control, world, platform, bounds, hist
<1>3. ErrorKept /\ Due(intents') = Due(intents) /\ Due(intents) \in Nat
  BY <1>2, Unchanged, Same
<1>4. /\ frames' = [frames EXCEPT !["nm"] = Idle]
      /\ frames["nm"].at \notin Holders \cup {"unlock"}
  BY <1>1 DEF OffDisable, Done, Holders
<1>5. Due(intents') <= Due(intents) + Coming(frames["nm"])
  BY <1>3 DEF Coming
<1>6. ~relayOn' /\ ~TurningOff' => ~relayOn /\ ~TurningOff
  BY <1>1 DEF OffDisable, TurningOff, Op, At, storage
<1> QED BY <1>1, <1>2, <1>3, <1>4, <1>5, <1>6, DoneKeeps

LEMMA RelayOnStep == ASSUME IInv, RelayOn PROVE IInv'
<1>1. /\ FramesOK(frames) /\ TypesOK /\ "nm" \in Threads
      /\ frames["nm"].at = "entry" /\ frames["nm"].op = "relayOn"
  BY NmAt DEF IInv, RelayOn, At, Op, Threads
<1>2. /\ TypesOK'
      /\ intents' = intents
      /\ Steady /\ generation' = generation /\ errorGen' = errorGen
  BY <1>1 DEF RelayOn, TypesOK, Steady, storage, control, world, platform, bounds, hist
<1>3. ErrorKept /\ Due(intents') = Due(intents) /\ Due(intents) \in Nat
  BY <1>2, Unchanged, Same
<1>4. /\ frames' = [frames EXCEPT !["nm"] = Idle]
      /\ frames["nm"].at \notin Holders \cup {"unlock"}
  BY <1>1 DEF RelayOn, Done, Holders
<1>5. Due(intents') <= Due(intents) + Coming(frames["nm"])
  BY <1>3 DEF Coming
<1>6. ~relayOn' /\ ~TurningOff' => ~relayOn /\ ~TurningOff
  BY DEF RelayOn
<1> QED BY <1>1, <1>2, <1>3, <1>4, <1>5, <1>6, DoneKeeps

LEMMA AskStep == ASSUME IInv, NEW op \in HostOps, Ask(op) PROVE IInv'
<1> DEFINE f == [Idle EXCEPT !.op = op, !.at = "entry"]
<1>1. /\ FramesOK(frames) /\ TypesOK /\ LockOK(frames, ownerLock) /\ "nm" \in Threads
      /\ frames["nm"].at = "idle" /\ frames["nm"].op = "none" /\ frames["nm"].ref = None
  BY NmAt DEF IInv, Ask, At, Threads
<1>2. /\ f \in Frames /\ f.op = op /\ f.at = "entry" /\ f.ref = None
      /\ frames' = [frames EXCEPT !["nm"] = f]
  <2>1. "entry" \in Places /\ op \in HostOps \cup MainOps \cup {"none"} /\ Idle \in Frames
    BY IdleIs DEF Places
  <2> QED BY <2>1, IdleIs DEF Ask, Frames
<1> HIDE DEF f
<1>3. Fits("nm", f)
  BY <1>2 DEF Fits, NmPlaces, HostOps
<1>4. ~Holding(f) /\ ~Holding(frames["nm"]) /\ ~Installing(f)
  BY <1>1, <1>2 DEF Holding, Installing, Holders
<1>5. LockOK(frames', ownerLock')
  <2>1. LockOK([frames EXCEPT !["nm"] = f], ownerLock)
    BY <1>1, <1>4, LockMove
  <2> QED BY <1>2, <2>1 DEF Ask
<1>6. /\ UNCHANGED <<client, listener, queue, live, publishing, orphans, crashes, relayOn>>
      /\ intents' = intents /\ generation' = generation /\ errorGen' = errorGen
      /\ left[op] > 0 /\ left' = [left EXCEPT ![op] = left[op] - 1]
  BY DEF Ask, control, world, platform, hist, storage
<1>7. left \in [HostOps -> Nat] /\ left' \in [HostOps -> Nat]
      /\ \A k \in HostOps : left'[k] = IF k = op THEN left[op] - 1 ELSE left[k]
  BY <1>1, <1>6 DEF TypesOK
<1>8. TypesOK'
  BY <1>1, <1>6, <1>7 DEF Ask, TypesOK, storage, control, world, platform, hist
<1>9. ErrorKept /\ Due(intents') = Due(intents) /\ Due(intents) \in Nat
  BY <1>6, Unchanged, Same
<1>10. Coming(f) + Starts(left') <= Coming(frames["nm"]) + Starts(left)
  <2>1. Coming(frames["nm"]) = 0
    BY <1>1 DEF Coming, Starters
  <2>2. "startService" \in HostOps /\ "startInProcess" \in HostOps
    BY DEF HostOps
  <2>3. CASE op \in StartOps
    <3>1. Starts(left') = Starts(left) - 1
      BY <1>6, <1>7, <2>2, <2>3 DEF Starts, StartOps
    <3>2. Coming(f) = 1
      BY <1>2, <2>3 DEF Coming, Starters, StartOps
    <3> QED BY <1>7, <2>1, <3>1, <3>2, StartsType
  <2>4. CASE op \notin StartOps
    <3>1. Starts(left') = Starts(left)
      BY <1>7, <2>2, <2>4 DEF Starts, StartOps
    <3>2. Coming(f) = 0
      BY <1>2, <2>4 DEF Coming, Starters, StartOps, HostOps
    <3> QED BY <1>7, <2>1, <3>1, <3>2, StartsType
  <2> QED BY <2>3, <2>4
<1>11. Due(intents') + Coming(f) + Starts(left')
         <= Due(intents) + Coming(frames["nm"]) + Starts(left)
  <2>1. Coming(f) \in Nat /\ Coming(frames["nm"]) \in Nat /\ Starts(left) \in Nat /\ Starts(left') \in Nat
    BY <1>7, StartsType DEF Coming
  <2> QED BY <1>9, <1>10, <2>1
<1>12. ~TurningOff
  BY <1>1 DEF TurningOff, Op
<1>13. f.at \notin {"dropClient", "install", "startClient"} /\ frames["nm"].at # "dropClient"
  BY <1>1, <1>2
<1> QED BY <1>1, <1>2, <1>3, <1>4, <1>5, <1>6, <1>8, <1>9, <1>11, <1>12, <1>13, QuietKeeps DEF ErrorKept

LEMMA StartMarkStep == ASSUME IInv, StartMark PROVE IInv'
<1> DEFINE f == [frames["nm"] EXCEPT !.at = "claim", !.gen = generation']
<1>1. /\ FramesOK(frames) /\ TypesOK /\ LockOK(frames, ownerLock) /\ "nm" \in Threads
      /\ frames["nm"].at = "mark" /\ frames["nm"].op \in StartOps /\ frames["nm"].ref = None
      /\ frames["nm"] \in Frames /\ generation' = generation + 1 /\ generation' \in Nat
  BY NmAt DEF IInv, StartMark, At, Threads, TypesOK
<1>2. /\ f \in Frames /\ f.op = frames["nm"].op /\ f.at = "claim" /\ f.ref = None
      /\ frames' = [frames EXCEPT !["nm"] = f]
  <2>1. "claim" \in Places
    BY DEF Places
  <2>2. frames' = [frames EXCEPT !["nm"] = f]
    BY <1>1 DEF StartMark, FramesOK
  <2> QED BY <1>1, <2>1, <2>2 DEF Frames
<1> HIDE DEF f
<1>3. Fits("nm", f)
  BY <1>1, <1>2 DEF Fits, NmPlaces, StartOps
<1>4. ~Holding(f) /\ ~Holding(frames["nm"]) /\ ~Installing(f)
  BY <1>1, <1>2 DEF Holding, Installing, Holders
<1>5. LockOK(frames', ownerLock')
  <2>1. LockOK([frames EXCEPT !["nm"] = f], ownerLock)
    BY <1>1, <1>4, LockMove
  <2> QED BY <1>2, <2>1 DEF StartMark
<1>6. /\ UNCHANGED <<client, listener, queue, live, publishing, orphans, crashes, relayOn, left>>
      /\ intents' = intents /\ errorGen' = errorGen
      /\ TypesOK'
  BY <1>1 DEF StartMark, TypesOK, storage, world, platform, hist, bounds
<1>7. Due(intents') = Due(intents) /\ Due(intents) \in Nat
  BY <1>6, Same
<1>8. Coming(f) = Coming(frames["nm"])
  BY <1>1, <1>2 DEF Coming
<1>9. Due(intents') + Coming(f) + Starts(left')
         <= Due(intents) + Coming(frames["nm"]) + Starts(left)
  <2>1. Coming(frames["nm"]) \in Nat /\ Starts(left) \in Nat /\ Starts(left') = Starts(left)
    BY <1>1, <1>6, StartsType DEF Coming, TypesOK
  <2> QED BY <1>7, <1>8, <2>1
<1>10. ~TurningOff
  BY <1>1 DEF TurningOff, At
<1>11. f.at \notin {"dropClient", "install", "startClient"} /\ frames["nm"].at # "dropClient"
       /\ generation' >= generation
  BY <1>1, <1>2 DEF TypesOK
<1> QED BY <1>1, <1>2, <1>3, <1>4, <1>5, <1>6, <1>9, <1>10, <1>11, QuietKeeps

LEMMA StartServiceStep == ASSUME IInv, StartService PROVE IInv'
<1>1. /\ FramesOK(frames) /\ TypesOK /\ "nm" \in Threads
      /\ frames["nm"].at = "startService" /\ frames["nm"].op = "startService"
      /\ frames["nm"].gen \in Nat /\ Coming(frames["nm"]) = 1
  BY NmAt DEF IInv, StartService, At, Threads, Frames, Coming
<1>2. intents' \in Seq(Intents) => TypesOK'
  BY <1>1 DEF StartService, TypesOK, control, world, bounds, hist
<1>3. Steady /\ relayOn' = relayOn /\ generation' = generation /\ errorGen' = errorGen
  BY DEF StartService, Steady, control, world, bounds, hist
<1>4. ErrorKept
  BY <1>3, Unchanged
<1>5. ~TurningOff /\ frames["nm"].at \notin Holders \cup {"unlock"}
  BY <1>1 DEF TurningOff, At, Holders
<1>6. CASE component /\ Send("start", frames["nm"].gen) /\ Done("nm")
  <2>1. /\ intents' \in Seq(Intents) /\ Due(intents) \in Nat /\ Due(intents') <= Due(intents) + 1
    BY <1>1, <1>6, SendIs DEF Kinds
  <2>2. Due(intents') <= Due(intents) + Coming(frames["nm"])
    BY <1>1, <2>1
  <2>3. frames' = [frames EXCEPT !["nm"] = Idle]
    BY <1>6 DEF Done
  <2> QED BY <1>1, <1>2, <1>3, <1>4, <1>5, <2>1, <2>2, <2>3, DoneKeeps
<1>7. CASE Go("nm", "publishError") /\ UNCHANGED intents
  <2>1. TypesOK' /\ Due(intents') = Due(intents) /\ Due(intents) \in Nat
    BY <1>1, <1>2, <1>7, Same DEF TypesOK
  <2>2. /\ frames' = [frames EXCEPT !["nm"].at = "publishError"]
        /\ "publishError" \in Places \ (Holders \cup {"unlock"})
        /\ "publishError" \in NmPlaces(frames["nm"].op)
    BY <1>1, <1>7 DEF Go, Places, Holders, NmPlaces
  <2>3. Coming([frames["nm"] EXCEPT !.at = "publishError"]) = 0
    BY <1>1, <2>2, MoveIs DEF Coming
  <2>4. Due(intents') + Coming([frames["nm"] EXCEPT !.at = "publishError"])
          <= Due(intents) + Coming(frames["nm"])
    BY <1>1, <2>1, <2>3
  <2> QED BY <1>1, <1>3, <1>4, <1>5, <2>1, <2>2, <2>4, MoveKeeps
<1> QED BY <1>6, <1>7 DEF StartService

(* What the service does leaves the request that turns the relay off.      *)
LEMMA MainLeaves ==
  ASSUME FramesOK(frames), NEW f, frames' = [frames EXCEPT !["main"] = f]
  PROVE  TurningOff' = TurningOff
BY DEF FramesOK, TurningOff, Op, At, Threads

LEMMA PublishStep == ASSUME IInv, NEW t \in Threads, PublishServiceError(t) PROVE IInv'
<1>1. /\ FramesOK(frames) /\ TypesOK
      /\ frames[t].at = "publishError"
      /\ t = "nm" => frames[t].op = "startService"
      /\ t = "main" => frames[t].op \in {"refused", "timeout"}
  BY NmAt, MainAt DEF IInv, PublishServiceError, At, Threads
<1>2. /\ generation \in Nat /\ generation' = generation + 1 /\ errorGen' = generation'
      /\ publishing = Silent /\ intents' = intents /\ relayOn' = relayOn
      /\ Steady
  BY <1>1 DEF PublishServiceError, TypesOK, Steady, storage, control, world, platform, bounds
<1>3. TypesOK'
  BY <1>1, <1>2 DEF PublishServiceError, TypesOK, storage, control, world, platform, bounds
<1>4. ErrorKept
  BY <1>2 DEF ErrorKept
<1>5. Due(intents') = Due(intents) /\ Due(intents) \in Nat
  BY <1>2, Same
<1>6. frames[t].at \notin Holders \cup {"unlock"}
  BY <1>1 DEF Holders
<1>7. CASE t = "nm"
  <2>1. frames' = [frames EXCEPT ![t] = Idle]
    BY <1>7 DEF PublishServiceError, Done
  <2>2. Due(intents') <= Due(intents) + Coming(frames[t])
    BY <1>5 DEF Coming
  <2>3. ~TurningOff
    BY <1>1, <1>7 DEF TurningOff, Op
  <2> QED BY <1>2, <1>3, <1>4, <1>6, <2>1, <2>2, <2>3, DoneKeeps
<1>8. CASE t = "main"
  <2>1. /\ frames' = [frames EXCEPT ![t].at = "stopSelf"]
        /\ "stopSelf" \in Places \ (Holders \cup {"unlock"}) /\ "stopSelf" \in MainPlaces(frames[t].op)
    BY <1>1, <1>8 DEF PublishServiceError, Go, Places, Holders, MainPlaces
  <2>2. Coming([frames[t] EXCEPT !.at = "stopSelf"]) = Coming(frames[t])
    BY <1>1, <2>1, MoveIs DEF Coming
  <2>3. Due(intents') + Coming([frames[t] EXCEPT !.at = "stopSelf"]) <= Due(intents) + Coming(frames[t])
    BY <1>5, <2>2 DEF Coming
  <2>4. TurningOff' = TurningOff
    BY <1>1, <1>8, <2>1, MoveIs, MainLeaves
  <2> QED BY <1>2, <1>3, <1>4, <1>6, <1>8, <2>1, <2>3, <2>4, MoveKeeps
<1> QED BY <1>7, <1>8 DEF Threads

LEMMA OffStopStep == ASSUME IInv, OffStop PROVE IInv'
<1>1. /\ FramesOK(frames) /\ TypesOK /\ "nm" \in Threads
      /\ frames["nm"].at = "offStop" /\ frames["nm"].op = "relayOff"
  BY NmAt DEF IInv, OffStop, At, Threads
<1>2. intents' \in Seq(Intents) /\ Due(intents) \in Nat /\ Due(intents') <= Due(intents)
  <2>1. CASE intents' = intents
    BY <2>1, <1>1, Same DEF TypesOK
  <2>2. CASE Send("stop", generation)
    BY <2>2, <1>1, SendIs DEF Kinds, TypesOK
  <2> QED BY <2>1, <2>2 DEF OffStop
<1>3. Steady /\ relayOn' = relayOn /\ generation' = generation /\ errorGen' = errorGen
  BY DEF OffStop, Steady, storage, control, world, bounds, hist
<1>4. TypesOK'
  BY <1>1, <1>2 DEF OffStop, TypesOK, storage, control, world, bounds, hist
<1>5. ErrorKept
  BY <1>3, Unchanged
<1>6. ~TurningOff /\ frames["nm"].at \notin Holders \cup {"unlock"}
  BY <1>1 DEF TurningOff, Holders
<1>7. /\ frames' = [frames EXCEPT !["nm"].at = "offClear"]
      /\ "offClear" \in Places \ (Holders \cup {"unlock"}) /\ "offClear" \in NmPlaces(frames["nm"].op)
  BY <1>1 DEF OffStop, Go, Places, Holders, NmPlaces
<1>8. Coming([frames["nm"] EXCEPT !.at = "offClear"]) = Coming(frames["nm"])
  BY <1>1, <1>7, MoveIs DEF Coming
<1>9. Due(intents') + Coming([frames["nm"] EXCEPT !.at = "offClear"]) <= Due(intents) + Coming(frames["nm"])
  <2>1. Due(intents') \in Nat
    BY <1>2, DueIs
  <2> QED BY <1>2, <1>8, <2>1 DEF Coming
<1> QED BY <1>1, <1>3, <1>4, <1>5, <1>6, <1>7, <1>9, MoveKeeps

LEMMA SendStopStep == ASSUME IInv, SendStop PROVE IInv'
<1>1. /\ FramesOK(frames) /\ TypesOK /\ LockOK(frames, ownerLock) /\ "nm" \in Threads
      /\ frames["nm"].at = "sendStop" /\ frames["nm"].op = "stop" /\ frames["nm"].ref = None
  BY NmAt DEF IInv, SendStop, At, Threads
<1>2. Steady /\ relayOn' = relayOn /\ generation' = generation /\ errorGen' = errorGen
  BY DEF SendStop, Steady, storage, control, world, bounds, hist
<1>3. ErrorKept /\ ~TurningOff /\ frames["nm"].at \notin Holders \cup {"unlock"}
  BY <1>1, <1>2, Unchanged DEF TurningOff, Op, Holders
<1>4. intents' \in Seq(Intents) => TypesOK'
  BY <1>1 DEF SendStop, TypesOK, storage, control, world, bounds, hist
<1>5. CASE Done("nm") /\ UNCHANGED intents
  <2>1. TypesOK' /\ Due(intents') = Due(intents) /\ Due(intents) \in Nat
    BY <1>1, <1>4, <1>5, Same DEF TypesOK
  <2>2. Due(intents') <= Due(intents) + Coming(frames["nm"]) /\ frames' = [frames EXCEPT !["nm"] = Idle]
    BY <1>5, <2>1 DEF Coming, Done
  <2> QED BY <1>1, <1>2, <1>3, <2>1, <2>2, DoneKeeps
<1>6. CASE Send("stop", generation) /\ Go("nm", "stopClient")
  <2> DEFINE f == [frames["nm"] EXCEPT !.at = "stopClient"]
  <2>1. intents' \in Seq(Intents) /\ Due(intents) \in Nat /\ Due(intents') <= Due(intents)
        /\ Due(intents') \in Nat
    BY <1>1, <1>6, SendIs DEF Kinds, TypesOK
  <2>2. /\ f \in Frames /\ f.op = "stop" /\ f.at = "stopClient" /\ f.ref = None
        /\ frames' = [frames EXCEPT !["nm"] = f]
    <3>1. "stopClient" \in Places
      BY DEF Places
    <3> QED BY <1>1, <1>6, <3>1, MoveIs DEF Go
  <2> HIDE DEF f
  <2>3. Fits("nm", f)
    BY <2>2 DEF Fits, NmPlaces
  <2>4. ~Holding(f) /\ ~Holding(frames["nm"]) /\ ~Installing(f)
    BY <1>1, <2>2 DEF Holding, Installing, Starters
  <2>5. LockOK(frames', ownerLock')
    <3>1. LockOK([frames EXCEPT !["nm"] = f], ownerLock)
      BY <1>1, <2>4, LockMove
    <3> QED BY <1>2, <2>2, <3>1 DEF Steady
  <2>6. Coming(f) = 0
    BY <2>2 DEF Coming, Starters
  <2>7. Due(intents') + Coming(f) + Starts(left') <= Due(intents) + Coming(frames["nm"]) + Starts(left)
    <3>1. Coming(frames["nm"]) \in Nat /\ Starts(left) \in Nat /\ Starts(left') = Starts(left)
      BY <1>1, <1>2, StartsType DEF Coming, TypesOK, Steady
    <3> QED BY <2>1, <2>6, <3>1
  <2>8. f.at \notin {"dropClient", "install", "startClient"} /\ frames["nm"].at # "dropClient"
    BY <1>1, <2>2
  <2>9. TypesOK'
    BY <1>4, <2>1
  <2> QED BY <1>1, <1>2, <1>3, <2>2, <2>3, <2>4, <2>5, <2>7, <2>8, <2>9, QuietKeeps DEF Steady, ErrorKept
<1> QED BY <1>5, <1>6 DEF SendStop

(* A frame that takes no client and no lock takes another's place.         *)
LEMMA GoKeeps ==
  ASSUME IInv, NEW t \in Threads, NEW f, Fits(t, f), ~Holding(f),
         f.at \notin {"dropClient", "install", "startClient"},
         frames' = [frames EXCEPT ![t] = f], frames[t].at \notin Holders \cup {"unlock"},
         Steady, ErrorKept, TypesOK',
         Due(intents') + Coming(f) <= Due(intents) + Coming(frames[t]),
         ~relayOn' /\ ~TurningOff' => ~relayOn /\ ~TurningOff
  PROVE  IInv'
<1>1. FramesOK(frames) /\ LockOK(frames, ownerLock) /\ TypesOK
  BY DEF IInv
<1>2. frames[t].ref = None /\ frames[t].at # "dropClient"
  BY <1>1 DEF FramesOK, Holders
<1>3. ~Holding(frames[t]) /\ ~Installing(f)
  BY DEF Holding, Installing, Holders
<1>4. LockOK(frames', ownerLock')
  <2>1. LockOK([frames EXCEPT ![t] = f], ownerLock)
    BY <1>1, <1>3, LockMove
  <2> QED BY <2>1 DEF Steady
<1>5. Due(intents') + Coming(f) + Starts(left') <= Due(intents) + Coming(frames[t]) + Starts(left)
  <2>1. Due(intents) \in Nat /\ Due(intents') \in Nat /\ Coming(f) \in Nat /\ Coming(frames[t]) \in Nat
    BY <1>1, DueIs DEF TypesOK, Coming
  <2>2. Starts(left) \in Nat /\ Starts(left') = Starts(left)
    BY <1>1, StartsType DEF TypesOK, Steady
  <2> QED BY <2>1, <2>2
<1> QED BY <1>2, <1>3, <1>4, <1>5, QuietKeeps DEF Steady, ErrorKept

LEMMA OffRunningStep == ASSUME IInv, OffRunning PROVE IInv'
<1> DEFINE f == [frames["nm"] EXCEPT !.at = "lock", !.gen = IF service.running THEN 1 ELSE 0]
<1>1. /\ FramesOK(frames) /\ TypesOK /\ "nm" \in Threads
      /\ frames["nm"].at = "offRunning" /\ frames["nm"].op = "relayOff" /\ frames["nm"].ref = None
      /\ frames["nm"] \in Frames
  BY NmAt DEF IInv, OffRunning, At, Threads
<1>2. /\ f \in Frames /\ f.op = "relayOff" /\ f.at = "lock" /\ f.ref = None
      /\ frames' = [frames EXCEPT !["nm"] = f]
  <2>1. "lock" \in Places
    BY DEF Places
  <2>2. frames' = [frames EXCEPT !["nm"] = f]
    BY <1>1 DEF OffRunning, FramesOK
  <2> QED BY <1>1, <2>1, <2>2 DEF Frames
<1> HIDE DEF f
<1>3. Fits("nm", f) /\ ~Holding(f) /\ Coming(f) = 0
  BY <1>2 DEF Fits, NmPlaces, Holding, Installing, Holders, Coming, Starters
<1>4. Steady /\ intents' = intents /\ generation' = generation /\ errorGen' = errorGen /\ TypesOK'
  BY <1>1 DEF OffRunning, TypesOK, Steady, storage, control, world, platform, hist, bounds
<1>5. ErrorKept /\ Due(intents') = Due(intents) /\ Due(intents) \in Nat
  BY <1>4, Unchanged, Same
<1>6. Due(intents') + Coming(f) <= Due(intents) + Coming(frames["nm"])
  BY <1>3, <1>5 DEF Coming
<1>7. TurningOff'
  BY <1>1, <1>2 DEF TurningOff, Op, At, FramesOK
<1>8. f.at \notin {"dropClient", "install", "startClient"} /\ frames["nm"].at \notin Holders \cup {"unlock"}
  BY <1>1, <1>2 DEF Holders
<1> QED BY <1>1, <1>2, <1>3, <1>4, <1>5, <1>6, <1>7, <1>8, GoKeeps

(* The stop of the switch takes the ownerLock...                           *)
LEMMA OffLockStep == ASSUME IInv, OffLock PROVE IInv'
<1> DEFINE f == [frames["nm"] EXCEPT !.at = "stopClient"]
<1>1. /\ FramesOK(frames) /\ TypesOK /\ LockOK(frames, ownerLock) /\ "nm" \in Threads
      /\ frames["nm"].at = "lock" /\ frames["nm"].op = "relayOff" /\ frames["nm"].ref = None
      /\ ownerLock = Free /\ ownerLock' = "nm"
  BY NmAt DEF IInv, OffLock, At, Threads
<1>2. /\ f \in Frames /\ f.op = "relayOff" /\ f.at = "stopClient" /\ f.ref = None
      /\ frames' = [frames EXCEPT !["nm"] = f]
  <2>1. "stopClient" \in Places
    BY DEF Places
  <2> QED BY <1>1, <2>1, MoveIs DEF OffLock, Go
<1> HIDE DEF f
<1>3. Fits("nm", f) /\ Holding(f) /\ ~Installing(f) /\ Coming(f) = 0
  BY <1>2 DEF Fits, NmPlaces, Holding, Installing, Coming, Starters
<1>4. LockOK(frames', ownerLock')
  <2>1. LockOK([frames EXCEPT !["nm"] = f], "nm")
    BY <1>1, <1>3, LockMove
  <2> QED BY <1>1, <1>2, <2>1
<1>5. /\ UNCHANGED <<client, listener, queue, live, publishing, orphans, crashes, left>>
      /\ intents' = intents /\ generation' = generation /\ errorGen' = errorGen /\ TypesOK'
  BY <1>1 DEF OffLock, TypesOK, None, storage, control, world, platform, hist, bounds
<1>6. ErrorKept /\ Due(intents') = Due(intents) /\ Due(intents) \in Nat
  BY <1>5, Unchanged, Same
<1>7. Due(intents') + Coming(f) + Starts(left')
         <= Due(intents) + Coming(frames["nm"]) + Starts(left)
  <2>1. Coming(frames["nm"]) \in Nat /\ Starts(left) \in Nat /\ Starts(left') = Starts(left)
    BY <1>1, <1>5, StartsType DEF Coming, TypesOK
  <2> QED BY <1>3, <1>6, <2>1
<1>8. TurningOff'
  BY <1>1, <1>2 DEF TurningOff, Op, At, FramesOK
<1>9. f.at \notin {"dropClient", "install", "startClient"} /\ frames["nm"].at # "dropClient"
  BY <1>1, <1>2
<1> QED BY <1>1, <1>2, <1>3, <1>4, <1>5, <1>6, <1>7, <1>8, <1>9, QuietKeeps DEF ErrorKept

(* ... and gives it back.                                                  *)
LEMMA OffUnlockStep == ASSUME IInv, OffUnlock PROVE IInv'
<1> DEFINE f == [frames["nm"] EXCEPT !.at = "offStop"]
<1>1. /\ FramesOK(frames) /\ TypesOK /\ LockOK(frames, ownerLock) /\ "nm" \in Threads
      /\ frames["nm"].at = "unlock" /\ frames["nm"].op = "relayOff" /\ frames["nm"].ref = None
      /\ ownerLock' = Free
  BY NmAt DEF IInv, OffUnlock, At, Threads
<1>2. /\ f \in Frames /\ f.op = "relayOff" /\ f.at = "offStop" /\ f.ref = None
      /\ frames' = [frames EXCEPT !["nm"] = f]
  <2>1. "offStop" \in Places
    BY DEF Places
  <2> QED BY <1>1, <2>1, MoveIs DEF OffUnlock, Go
<1> HIDE DEF f
<1>3. Fits("nm", f) /\ ~Holding(f) /\ ~Installing(f) /\ Coming(f) = 0 /\ Holding(frames["nm"])
  BY <1>1, <1>2 DEF Fits, NmPlaces, Holding, Installing, Coming, Starters
<1>4. LockOK(frames', ownerLock')
  <2>1. LockOK([frames EXCEPT !["nm"] = f], Free)
    BY <1>1, <1>3, LockMove
  <2> QED BY <1>1, <1>2, <2>1
<1>5. /\ UNCHANGED <<client, listener, queue, live, publishing, orphans, crashes, left, relayOn>>
      /\ intents' = intents /\ generation' = generation /\ errorGen' = errorGen /\ TypesOK'
  BY <1>1 DEF OffUnlock, TypesOK, storage, control, world, platform, hist, bounds
<1>6. ErrorKept /\ Due(intents') = Due(intents) /\ Due(intents) \in Nat
  BY <1>5, Unchanged, Same
<1>7. Due(intents') + Coming(f) + Starts(left')
         <= Due(intents) + Coming(frames["nm"]) + Starts(left)
  <2>1. Coming(frames["nm"]) \in Nat /\ Starts(left) \in Nat /\ Starts(left') = Starts(left)
    BY <1>1, <1>5, StartsType DEF Coming, TypesOK
  <2> QED BY <1>3, <1>6, <2>1
<1>8. ~TurningOff
  BY <1>1 DEF TurningOff
<1>9. f.at \notin {"dropClient", "install", "startClient"} /\ frames["nm"].at # "dropClient"
  BY <1>1, <1>2
<1> QED BY <1>1, <1>2, <1>3, <1>4, <1>5, <1>6, <1>7, <1>8, <1>9, QuietKeeps DEF ErrorKept

(* begin() goes on under the ownerLock, with the relay on, or not at all.  *)
LEMMA BeginStep == ASSUME IInv, NEW t \in Threads, Begin(t) PROVE IInv'
<1>1. /\ FramesOK(frames) /\ TypesOK /\ LockOK(frames, ownerLock)
      /\ frames[t].at = "begin" /\ frames[t].ref = None
      /\ t = "nm" => frames[t].op = "startInProcess"
      /\ t = "main" => frames[t].op \in {"start", "restart"}
      /\ frames[t].op \in Starters /\ Coming(frames[t]) = 1
      /\ ownerLock = Free
  BY NmAt, MainAt DEF IInv, Begin, At, Threads, Starters, Coming
<1>2. /\ UNCHANGED <<client, listener, queue, live, publishing, orphans, crashes, left, relayOn>>
      /\ intents' = intents /\ generation' = generation /\ errorGen' = errorGen
  BY DEF Begin, storage, control, world, hist, bounds
<1>3. TypesOK'
  <2>1. service' \in [up : BOOLEAN, running : BOOLEAN, sticky : BOOLEAN]
    BY <1>1 DEF Begin, TypesOK
  <2> QED BY <1>1, <1>2, <2>1 DEF Begin, TypesOK, storage, control, world, hist, bounds
<1>4. ErrorKept /\ Due(intents') = Due(intents) /\ Due(intents) \in Nat
  BY <1>2, Unchanged, Same
<1>5. CASE relayOn
  <2> DEFINE f == [frames[t] EXCEPT !.at = "stopClient"]
  <2>1. /\ f \in Frames /\ f.op = frames[t].op /\ f.at = "stopClient" /\ f.ref = None
        /\ frames' = [frames EXCEPT ![t] = f] /\ ownerLock' = t
    <3>1. "stopClient" \in Places
      BY DEF Places
    <3> QED BY <1>1, <1>5, <3>1, MoveIs DEF Begin, Go
  <2> HIDE DEF f
  <2>2. Fits(t, f) /\ Holding(f) /\ Coming(f) = 1
    BY <1>1, <2>1 DEF Fits, NmPlaces, MainPlaces, Holders, Holding, Installing, Coming, Threads
  <2>3. LockOK(frames', ownerLock')
    <3>1. LockOK([frames EXCEPT ![t] = f], t)
      BY <1>1, <2>2, LockMove
    <3> QED BY <2>1, <3>1
  <2>4. Due(intents') + Coming(f) + Starts(left') <= Due(intents) + Coming(frames[t]) + Starts(left)
    <3>1. Starts(left) \in Nat /\ Starts(left') = Starts(left)
      BY <1>1, <1>2, StartsType DEF TypesOK
    <3> QED BY <1>1, <1>4, <2>2, <3>1
  <2>5. f.at \notin {"dropClient", "install", "startClient"} /\ frames[t].at # "dropClient"
        /\ relayOn'
    BY <1>1, <1>2, <1>5, <2>1
  <2> QED BY <1>1, <1>2, <1>3, <1>4, <2>1, <2>2, <2>3, <2>4, <2>5, QuietKeeps DEF ErrorKept
<1>6. CASE ~relayOn
  <2>1. frames' = [frames EXCEPT ![t] = Idle] /\ ownerLock' = ownerLock
    BY <1>6 DEF Begin, Done
  <2>2. Steady /\ Due(intents') <= Due(intents) + Coming(frames[t])
    BY <1>1, <1>2, <1>4, <2>1 DEF Steady
  <2>3. frames[t].at \notin Holders \cup {"unlock"}
    BY <1>1 DEF Holders
  <2>4. TurningOff => TurningOff'
    BY <1>1, <2>1 DEF TurningOff, Op, At, FramesOK, Threads
  <2> QED BY <1>2, <1>3, <1>4, <2>1, <2>2, <2>3, <2>4, DoneKeeps
<1> QED BY <1>5, <1>6

-----------------------------------------------------------------------------
(* The service.                                                            *)

LEMMA ForgetStep == ASSUME IInv, Forget PROVE IInv'
<1>1. /\ FramesOK(frames) /\ TypesOK /\ "main" \in Threads
      /\ frames["main"].at = "forget" /\ frames["main"].op = "stopRequest"
  BY MainAt DEF IInv, Forget, At, Op, Threads, StartOps, HostOps
<1>2. /\ TypesOK'
      /\ intents' = intents
      /\ Steady /\ generation' = generation /\ errorGen' = errorGen
  BY <1>1 DEF Forget, TypesOK, None, Steady, storage, control, world, platform, bounds, hist
<1>3. ErrorKept /\ Due(intents') = Due(intents) /\ Due(intents) \in Nat
  BY <1>2, Unchanged, Same
<1>4. /\ frames' = [frames EXCEPT !["main"].at = "clear"]
      /\ "clear" \in Places \ (Holders \cup {"unlock"}) /\ "clear" \in MainPlaces(frames["main"].op)
      /\ frames["main"].at \notin Holders \cup {"unlock"}
  BY <1>1 DEF Forget, Go, Places, Holders, MainPlaces, StartOps
<1>5. Coming([frames["main"] EXCEPT !.at = "clear"]) = Coming(frames["main"])
  BY <1>1, <1>4, MoveIs DEF Coming
<1>6. Due(intents') + Coming([frames["main"] EXCEPT !.at = "clear"]) <= Due(intents) + Coming(frames["main"])
  BY <1>3, <1>5 DEF Coming
<1>7. ~relayOn' /\ ~TurningOff' => ~relayOn /\ ~TurningOff
  BY <1>1, <1>2, <1>4, MainLeaves DEF Forget, storage
<1> QED BY <1>1, <1>2, <1>3, <1>4, <1>6, <1>7, MoveKeeps

LEMMA ClearConfigStep == ASSUME IInv, ClearConfig PROVE IInv'
<1>1. /\ FramesOK(frames) /\ TypesOK /\ "main" \in Threads
      /\ frames["main"].at = "clear" /\ frames["main"].op = "stopRequest"
  BY MainAt DEF IInv, ClearConfig, At, Op, Threads, StartOps, HostOps
<1>2. /\ TypesOK'
      /\ intents' = intents
      /\ Steady /\ generation' = generation /\ errorGen' = errorGen
  BY <1>1 DEF ClearConfig, TypesOK, None, Steady, storage, control, world, platform, bounds, hist
<1>3. ErrorKept /\ Due(intents') = Due(intents) /\ Due(intents) \in Nat
  BY <1>2, Unchanged, Same
<1>4. /\ frames' = [frames EXCEPT !["main"].at = "stopSelf"]
      /\ "stopSelf" \in Places \ (Holders \cup {"unlock"}) /\ "stopSelf" \in MainPlaces(frames["main"].op)
      /\ frames["main"].at \notin Holders \cup {"unlock"}
  BY <1>1 DEF ClearConfig, Go, Places, Holders, MainPlaces, StartOps
<1>5. Coming([frames["main"] EXCEPT !.at = "stopSelf"]) = Coming(frames["main"])
  BY <1>1, <1>4, MoveIs DEF Coming, Starters
<1>6. Due(intents') + Coming([frames["main"] EXCEPT !.at = "stopSelf"]) <= Due(intents) + Coming(frames["main"])
  BY <1>3, <1>5 DEF Coming
<1>7. ~relayOn' /\ ~TurningOff' => ~relayOn /\ ~TurningOff
  BY <1>1, <1>2, <1>4, MainLeaves DEF ClearConfig, storage
<1> QED BY <1>1, <1>2, <1>3, <1>4, <1>6, <1>7, MoveKeeps

(* The main thread begins a command of its own.                            *)
MainStart(op, at, gen) == [Idle EXCEPT !.op = op, !.at = at, !.gen = gen]

LEMMA MainStartIs ==
  ASSUME NEW op \in MainOps, NEW p \in {"promote", "stopClient"}, p \in MainPlaces(op), NEW gen \in Nat,
         op \in Starters => p = "promote"
  PROVE  /\ MainStart(op, p, gen).op = op /\ MainStart(op, p, gen).at = p
         /\ Fits("main", MainStart(op, p, gen)) /\ ~Holding(MainStart(op, p, gen))
         /\ Coming(MainStart(op, p, gen)) = IF op \in Starters THEN 1 ELSE 0
<1> DEFINE f == MainStart(op, p, gen)
<1>1. p \in Places /\ op \in HostOps \cup MainOps \cup {"none"} /\ Idle \in Frames /\ Idle.ref = None
  BY IdleIs DEF Places
<1>2. f \in Frames /\ f.op = op /\ f.at = p /\ f.ref = None
  BY <1>1 DEF MainStart, Frames
<1> HIDE DEF f
<1>3. op # "startService" /\ op # "relayOff"
  BY DEF MainOps
<1>4. Fits("main", f) /\ ~Holding(f)
  BY <1>2, <1>3 DEF Fits, Holding, Installing, Holders
<1>5. Coming(f) = IF op \in Starters THEN 1 ELSE 0
  BY <1>2, <1>3 DEF Coming
<1> QED BY <1>2, <1>4, <1>5 DEF f

LEMMA OnStartCommandStep == ASSUME IInv, OnStartCommand PROVE IInv'
<1>1. /\ FramesOK(frames) /\ TypesOK /\ "main" \in Threads
      /\ frames["main"].at = "idle" /\ intents \in Seq(Intents) /\ intents # <<>>
      /\ intents' = Tail(intents)
  BY DEF IInv, OnStartCommand, At, Threads, TypesOK
<1> DEFINE i == Head(intents)
           op == IF i.kind = "stop" THEN "stopRequest" ELSE i.kind
           p == IF i.kind = "stop" THEN "stopClient" ELSE "promote"
           f == MainStart(op, p, i.gen)
<1>2. /\ Tail(intents) \in Seq(Intents) /\ i \in Intents
      /\ Due(intents) = Due(Tail(intents)) + (IF i.kind # "stop" THEN 1 ELSE 0)
  BY <1>1, DueTail
<1>3. /\ i.kind \in Kinds /\ i.gen \in Nat
      /\ Due(intents') \in Nat
      /\ i.kind = "stop" => Due(intents) = Due(intents')
      /\ i.kind # "stop" => Due(intents) = Due(intents') + 1
  <2>1. i.kind \in Kinds /\ i.gen \in Nat
    BY <1>2 DEF Intents
  <2>2. Due(Tail(intents)) \in Nat
    BY <1>2, DueIs
  <2> QED BY <1>1, <1>2, <2>1, <2>2
<1>4. frames' = [frames EXCEPT !["main"] = f]
  <2>1. CASE i.kind = "stop"
    BY <2>1 DEF OnStartCommand, MainStart, Idle
  <2>2. CASE i.kind # "stop"
    BY <2>2 DEF OnStartCommand, MainStart, Idle
  <2> QED BY <2>1, <2>2
<1>5. op \in MainOps /\ p \in {"promote", "stopClient"} /\ p \in MainPlaces(op)
      /\ (op \in Starters => p = "promote") /\ (op \in Starters <=> i.kind # "stop")
  BY <1>3 DEF Kinds, MainOps, MainPlaces, Starters
<1>6. /\ f.at = p /\ Fits("main", f) /\ ~Holding(f)
      /\ Coming(f) = IF op \in Starters THEN 1 ELSE 0
  BY <1>3, <1>5, MainStartIs
<1>7. service' \in [up : BOOLEAN, running : BOOLEAN, sticky : BOOLEAN]
  BY <1>1 DEF OnStartCommand, TypesOK
<1>8. TypesOK'
  BY <1>1, <1>2, <1>7 DEF OnStartCommand, TypesOK, storage, control, world, hist, bounds
<1>9. Steady /\ relayOn' = relayOn /\ generation' = generation /\ errorGen' = errorGen
  BY DEF OnStartCommand, Steady, storage, control, world, hist, bounds
<1>10. ErrorKept
  BY <1>9, Unchanged
<1> HIDE DEF f
<1>11. TurningOff' = TurningOff
  BY <1>1, <1>4, MainLeaves
<1>12. Due(intents') + Coming(f) <= Due(intents) + Coming(frames["main"])
  <2>1. Coming(frames["main"]) \in Nat
    BY DEF Coming
  <2>2. Due(intents') + Coming(f) = Due(intents)
    BY <1>3, <1>5, <1>6
  <2>3. Due(intents) \in Nat
    BY <1>1, DueIs
  <2> QED BY <2>1, <2>2, <2>3
<1>13. f.at \notin {"dropClient", "install", "startClient"} /\ frames["main"].at \notin Holders \cup {"unlock"}
  BY <1>1, <1>5, <1>6 DEF Holders
<1> QED BY <1>1, <1>4, <1>6, <1>8, <1>9, <1>10, <1>11, <1>12, <1>13, GoKeeps

(* Muting the listeners moves the generation on.                           *)
LEMMA DemoteKeeps ==
  ASSUME IInv, NEW op \in {"refused", "timeout"}, Demote(op), TypesOK', Steady,
         frames["main"].at \in {"promote", "idle"},
         UNCHANGED <<intents, relayOn, errorGen>>
  PROVE  IInv'
<1> DEFINE f == [frames["main"] EXCEPT !.op = op, !.at = "stopClient"]
<1>1. /\ FramesOK(frames) /\ TypesOK /\ "main" \in Threads
      /\ frames["main"] \in Frames /\ frames["main"].ref = None
      /\ generation' = generation + 1 /\ generation \in Nat
  BY MainAt DEF IInv, Demote, Threads, TypesOK
<1>2. /\ f \in Frames /\ f.op = op /\ f.at = "stopClient" /\ f.ref = None
      /\ frames' = [frames EXCEPT !["main"] = f]
  <2>1. "stopClient" \in Places /\ op \in HostOps \cup MainOps \cup {"none"}
    BY DEF Places, MainOps
  <2>2. frames' = [frames EXCEPT !["main"] = f]
    BY <1>1 DEF Demote, FramesOK
  <2> QED BY <1>1, <2>1, <2>2 DEF Frames
<1> HIDE DEF f
<1>3. Fits("main", f) /\ ~Holding(f) /\ Coming(f) = 0
  BY <1>2 DEF Fits, MainPlaces, Holding, Installing, Starters, Coming
<1>4. ErrorKept
  BY <1>1 DEF ErrorKept
<1>5. Due(intents') + Coming(f) <= Due(intents) + Coming(frames["main"])
  <2>1. Due(intents') = Due(intents) /\ Due(intents) \in Nat /\ Coming(frames["main"]) \in Nat
    BY Same DEF Coming
  <2> QED BY <1>3, <2>1
<1>6. TurningOff' = TurningOff
  BY <1>1, <1>2, MainLeaves
<1>7. f.at \notin {"dropClient", "install", "startClient"} /\ frames["main"].at \notin Holders \cup {"unlock"}
  BY <1>2 DEF Holders
<1> QED BY <1>1, <1>2, <1>3, <1>4, <1>5, <1>6, <1>7, GoKeeps

LEMMA PromotionRefusedStep == ASSUME IInv, PromotionRefused PROVE IInv'
<1>1. TypesOK
  BY DEF IInv
<1>2. service' \in [up : BOOLEAN, running : BOOLEAN, sticky : BOOLEAN] /\ generation' \in Nat
  <2>1. service' = [service EXCEPT !.running = FALSE] /\ generation' = generation + 1
    BY DEF PromotionRefused, Demote
  <2>2. service \in [up : BOOLEAN, running : BOOLEAN, sticky : BOOLEAN] /\ generation \in Nat
    BY <1>1 DEF TypesOK
  <2>3. service' \in [up : BOOLEAN, running : BOOLEAN, sticky : BOOLEAN]
    BY <2>1, <2>2
  <2> QED BY <2>1, <2>2, <2>3
<1>3. TypesOK' /\ Steady /\ UNCHANGED <<intents, relayOn, errorGen>>
  BY <1>1, <1>2 DEF PromotionRefused, TypesOK, Steady, storage, control, world, hist, bounds
<1> QED BY <1>3, DemoteKeeps DEF PromotionRefused, At

LEMMA OnTimeoutStep == ASSUME IInv, OnTimeout PROVE IInv'
<1>1. TypesOK
  BY DEF IInv
<1>2. service' \in [up : BOOLEAN, running : BOOLEAN, sticky : BOOLEAN] /\ generation' \in Nat
  <2>1. service' = [service EXCEPT !.running = FALSE] /\ generation' = generation + 1
    BY DEF OnTimeout, Demote
  <2>2. service \in [up : BOOLEAN, running : BOOLEAN, sticky : BOOLEAN] /\ generation \in Nat
    BY <1>1 DEF TypesOK
  <2>3. service' \in [up : BOOLEAN, running : BOOLEAN, sticky : BOOLEAN]
    BY <2>1, <2>2
  <2> QED BY <2>1, <2>2, <2>3
<1>3. TypesOK' /\ Steady /\ UNCHANGED <<intents, relayOn, errorGen>>
  BY <1>1, <1>2 DEF OnTimeout, TypesOK, Steady, storage, control, world, hist
<1> QED BY <1>3, DemoteKeeps DEF OnTimeout, At

LEMMA DecideStep == ASSUME IInv, Decide PROVE IInv'
<1> DEFINE p == IF relayOn /\ (Op("main", "start") \/ saved) THEN "begin" ELSE "stopSelf"
<1>1. /\ FramesOK(frames) /\ TypesOK /\ "main" \in Threads
      /\ frames["main"].at = "promote" /\ frames["main"].op \in {"start", "restart"}
      /\ Coming(frames["main"]) = 1
  BY MainAt DEF IInv, Decide, At, Threads, Coming, Starters
<1>2. /\ TypesOK'
      /\ intents' = intents
      /\ Steady /\ relayOn' = relayOn /\ generation' = generation /\ errorGen' = errorGen
  BY <1>1 DEF Decide, TypesOK, Steady, storage, control, world, platform, bounds, hist
<1>3. ErrorKept /\ Due(intents') = Due(intents) /\ Due(intents) \in Nat
  BY <1>2, Unchanged, Same
<1>4. /\ frames' = [frames EXCEPT !["main"].at = p]
      /\ p \in Places \ (Holders \cup {"unlock"}) /\ p \in MainPlaces(frames["main"].op)
      /\ frames["main"].at \notin Holders \cup {"unlock"}
  BY <1>1 DEF Decide, Go, Places, Holders, MainPlaces
<1> HIDE DEF p
<1>5. Coming([frames["main"] EXCEPT !.at = p]) \in {0, 1}
  BY DEF Coming
<1>6. Due(intents') + Coming([frames["main"] EXCEPT !.at = p]) <= Due(intents) + Coming(frames["main"])
  BY <1>1, <1>3, <1>5
<1>7. TurningOff' = TurningOff
  BY <1>1, <1>4, MoveIs, MainLeaves
<1> QED BY <1>1, <1>2, <1>3, <1>4, <1>6, <1>7, MoveKeeps

LEMMA StaleCheckStep == ASSUME IInv, StaleCheck PROVE IInv'
<1> DEFINE p == IF activeGen <= frames["main"].gen THEN "forget" ELSE "clear"
<1>1. /\ FramesOK(frames) /\ TypesOK /\ "main" \in Threads
      /\ frames["main"].at = "staleCheck" /\ frames["main"].op = "stopRequest"
  BY MainAt DEF IInv, StaleCheck, At, Threads
<1>2. /\ TypesOK'
      /\ intents' = intents
      /\ Steady /\ relayOn' = relayOn /\ generation' = generation /\ errorGen' = errorGen
  BY <1>1 DEF StaleCheck, TypesOK, Steady, storage, control, world, platform, bounds, hist
<1>3. ErrorKept /\ Due(intents') = Due(intents) /\ Due(intents) \in Nat
  BY <1>2, Unchanged, Same
<1>4. /\ frames' = [frames EXCEPT !["main"].at = p]
      /\ p \in Places \ (Holders \cup {"unlock"}) /\ p \in MainPlaces(frames["main"].op)
      /\ frames["main"].at \notin Holders \cup {"unlock"}
  BY <1>1 DEF StaleCheck, Go, Places, Holders, MainPlaces
<1> HIDE DEF p
<1>5. Coming([frames["main"] EXCEPT !.at = p]) = Coming(frames["main"])
  BY <1>1, <1>4, MoveIs DEF Coming, Starters
<1>6. Due(intents') + Coming([frames["main"] EXCEPT !.at = p]) <= Due(intents) + Coming(frames["main"])
  BY <1>3, <1>5 DEF Coming
<1>7. TurningOff' = TurningOff
  BY <1>1, <1>4, MoveIs, MainLeaves
<1> QED BY <1>1, <1>2, <1>3, <1>4, <1>6, <1>7, MoveKeeps

(* The instance goes, and what was pending for it.                         *)
LEMMA DestroyKeeps ==
  ASSUME IInv, Steady, frames["main"].at \in {"stopSelf", "idle"},
         service' = Down, intents' = <<>>,
         frames' = [frames EXCEPT !["main"] = [Idle EXCEPT !.op = "destroy", !.at = "stopClient"]],
         UNCHANGED <<storage, control, generation, listener, world, status, left, crashes, hist>>
  PROVE  IInv'
<1> DEFINE f == [Idle EXCEPT !.op = "destroy", !.at = "stopClient"]
<1>1. FramesOK(frames) /\ TypesOK /\ "main" \in Threads
  BY DEF IInv, Threads
<1>2. f \in Frames /\ f.op = "destroy" /\ f.at = "stopClient" /\ f.ref = None
  <2>1. "stopClient" \in Places /\ "destroy" \in HostOps \cup MainOps \cup {"none"} /\ Idle \in Frames
    BY IdleIs DEF Places, MainOps
  <2> QED BY <2>1, IdleIs DEF Frames
<1>3. frames' = [frames EXCEPT !["main"] = f]
  OBVIOUS
<1> HIDE DEF f
<1>4. Fits("main", f) /\ ~Holding(f) /\ Coming(f) = 0
  BY <1>2 DEF Fits, MainPlaces, Holding, Installing, Starters, Coming
<1>5. TypesOK'
  <2>1. Down \in [up : BOOLEAN, running : BOOLEAN, sticky : BOOLEAN] /\ <<>> \in Seq(Intents)
    BY DueEmpty DEF Down
  <2> QED BY <1>1, <2>1 DEF TypesOK, storage, control, world, hist
<1>6. ErrorKept
  BY Unchanged DEF hist
<1>7. Due(intents') + Coming(f) <= Due(intents) + Coming(frames["main"])
  <2>1. Due(intents) \in Nat /\ Coming(frames["main"]) \in Nat
    BY <1>1, DueIs DEF TypesOK, Coming
  <2> QED BY <1>4, <2>1, DueEmpty
<1>8. TurningOff' = TurningOff /\ relayOn' = relayOn
  BY <1>1, <1>3, MainLeaves DEF storage
<1>9. f.at \notin {"dropClient", "install", "startClient"} /\ frames["main"].at \notin Holders \cup {"unlock"}
  BY <1>2 DEF Holders
<1> QED BY <1>1, <1>3, <1>4, <1>5, <1>6, <1>7, <1>8, <1>9, GoKeeps

LEMMA StopSelfStep == ASSUME IInv, StopSelf PROVE IInv'
<1>1. /\ FramesOK(frames) /\ TypesOK /\ "main" \in Threads
      /\ frames["main"].at = "stopSelf"
  BY DEF IInv, StopSelf, At, Threads
<1>2. /\ Steady /\ relayOn' = relayOn /\ generation' = generation /\ errorGen' = errorGen
      /\ UNCHANGED <<storage, control, generation, listener, world, status, left, crashes, hist>>
  BY DEF StopSelf, Steady, storage, control, world, bounds, hist
<1>3. CASE intents # <<>> /\ ~Op("main", "timeout")
  <2>1. /\ service' = [service EXCEPT !.sticky = FALSE] /\ intents' = intents
        /\ frames' = [frames EXCEPT !["main"] = Idle]
    BY <1>3 DEF StopSelf, Done
  <2>2. service \in [up : BOOLEAN, running : BOOLEAN, sticky : BOOLEAN]
    BY <1>1 DEF TypesOK
  <2>3. service' \in [up : BOOLEAN, running : BOOLEAN, sticky : BOOLEAN]
    BY <2>1, <2>2
  <2>4. TypesOK'
    BY <1>1, <1>2, <2>1, <2>3 DEF TypesOK, storage, control, world, hist
  <2>5. ErrorKept
    BY <1>2, Unchanged
  <2>6. Due(intents') <= Due(intents) + Coming(frames["main"])
    <3>1. Due(intents') = Due(intents) /\ Due(intents) \in Nat /\ Coming(frames["main"]) \in Nat
      BY <2>1, Same DEF Coming
    <3> QED BY <3>1
  <2>7. TurningOff' = TurningOff
    BY <1>1, <2>1, MainLeaves
  <2>8. frames["main"].at \notin Holders \cup {"unlock"}
    BY <1>1 DEF Holders
  <2> QED BY <1>1, <1>2, <2>1, <2>4, <2>5, <2>6, <2>7, <2>8, DoneKeeps
<1>4. CASE ~(intents # <<>> /\ ~Op("main", "timeout"))
  <2>1. /\ service' = Down /\ intents' = <<>>
        /\ frames' = [frames EXCEPT !["main"] = [Idle EXCEPT !.op = "destroy", !.at = "stopClient"]]
    BY <1>4 DEF StopSelf
  <2> QED BY <1>1, <1>2, <2>1, DestroyKeeps
<1> QED BY <1>3, <1>4

LEMMA PlatformStopsStep == ASSUME IInv, PlatformStops PROVE IInv'
<1>1. /\ frames["main"].at = "idle" /\ Steady
      /\ UNCHANGED <<storage, control, generation, listener, world, status, left, crashes, hist>>
  BY DEF PlatformStops, At, Steady, storage, control, world, bounds, hist
<1>2. /\ service' = Down /\ intents' = <<>>
      /\ frames' = [frames EXCEPT !["main"] = [Idle EXCEPT !.op = "destroy", !.at = "stopClient"]]
  BY DEF PlatformStops
<1> QED BY <1>1, <1>2, DestroyKeeps

-----------------------------------------------------------------------------
(* The clients.                                                            *)

LEMMA PushIs ==
  ASSUME TypesOK, NEW c \in Clients, NEW m \in Commands,
         queue' = [queue EXCEPT ![c] = Append(@, m)]
  PROVE  /\ queue' \in [Clients -> Seq(Commands)]
         /\ queue'[c] # <<>> /\ queue'[c][Len(queue'[c])] = m
         /\ \A i \in DOMAIN queue'[c] :
              queue'[c][i] = m \/ (i \in DOMAIN queue[c] /\ queue'[c][i] = queue[c][i])
         /\ \A d \in Clients \ {c} : queue'[d] = queue[d]
<1> DEFINE q == queue[c]
<1>1. queue \in [Clients -> Seq(Commands)] /\ q \in Seq(Commands)
  BY DEF TypesOK
<1>2. queue'[c] = Append(q, m) /\ \A d \in Clients \ {c} : queue'[d] = queue[d]
  BY <1>1
<1>3. Append(q, m) \in Seq(Commands)
  BY <1>1
<1>4. queue' \in [Clients -> Seq(Commands)]
  BY <1>1, <1>3
<1> HIDE DEF q
<1>5. /\ Append(q, m) # <<>> /\ Append(q, m)[Len(Append(q, m))] = m
      /\ \A i \in DOMAIN Append(q, m) : Append(q, m)[i] = m \/ (i \in DOMAIN q /\ Append(q, m)[i] = q[i])
  BY <1>1
<1> QED BY <1>2, <1>4, <1>5 DEF q

LEMMA OneHolds ==
  ASSUME LockOK(frames, ownerLock), NEW t \in Threads, NEW u \in Threads,
         Holding(frames[t]), Holding(frames[u])
  PROVE  t = u
BY DEF LockOK

LEMMA StopClientStep == ASSUME IInv, NEW t \in Threads, StopClient(t) PROVE IInv'
<1> DEFINE f == [frames[t] EXCEPT !.at = "dropClient", !.ref = Started]
<1>1. /\ FramesOK(frames) /\ TypesOK /\ LockOK(frames, ownerLock) /\ ListensOK /\ BeginOK
      /\ StopsOK /\ OffOK /\ OneOwner /\ BudgetOK(listener, intents, frames, left, crashes)
      /\ frames[t] \in Frames /\ frames[t].at = "stopClient"
  BY DEF IInv, StopClient, At, FramesOK
<1>2. /\ client \in Clients \cup {None} /\ None \notin Clients
      /\ Started \in {None, client}
      /\ Started # None => client # None /\ (client \in live \/ queue[client] # <<>>)
  BY <1>1 DEF TypesOK, Started, None, Clients
<1>3. /\ f \in Frames /\ f.op = frames[t].op /\ f.at = "dropClient" /\ f.ref = Started
      /\ frames' = [frames EXCEPT ![t] = f]
  <2>1. "dropClient" \in Places
    BY DEF Places
  <2>2. frames' = [frames EXCEPT ![t] = f]
    BY <1>1 DEF StopClient, FramesOK
  <2>3. Started \in Clients \cup {None}
    BY <1>2
  <2> HIDE DEF Started
  <2>4. f \in Frames /\ f.op = frames[t].op /\ f.at = "dropClient" /\ f.ref = Started
    BY <1>1, <2>1, <2>3 DEF Frames
  <2> QED BY <2>2, <2>4
<1> HIDE DEF f
<1>4. \A u \in Threads : frames'[u] = IF u = t THEN f ELSE frames[u]
  BY <1>1, <1>3 DEF FramesOK
<1>5. FramesOK(frames')
  <2>1. t = "nm" => "dropClient" \in NmPlaces(frames[t].op)
    BY <1>1 DEF FramesOK, NmPlaces, Holders
  <2>2. t = "main" => "dropClient" \in MainPlaces(frames[t].op)
    BY <1>1 DEF FramesOK, MainPlaces, Holders
  <2>3. Fits(t, f)
    BY <1>3, <2>1, <2>2 DEF Fits
  <2> QED BY <1>1, <1>3, <2>3, FramesMove
<1>6. LockOK(frames', ownerLock')
  <2>1. Holding(f) <=> Holding(frames[t])
    BY <1>1, <1>3 DEF Holding, Installing, Holders
  <2>2. LockOK([frames EXCEPT ![t] = f], ownerLock)
    BY <1>1, <2>1, LockMove
  <2> QED BY <1>3, <2>2 DEF StopClient
<1>7. UNCHANGED <<storage, client, activeConfig, activeGen, generation, listener, live, publishing,
                  status, service, intents, left, crashes, born, errorGen, orphans>>
  BY DEF StopClient, control, platform, bounds, hist
<1>8. /\ queue' \in [Clients -> Seq(Commands)]
      /\ client = None => queue' = queue
      /\ client # None => /\ queue'[client] # <<>> /\ queue'[client][Len(queue'[client])] = "stop"
                          /\ \A i \in DOMAIN queue'[client] : queue'[client][i] = "stop"
                               \/ (i \in DOMAIN queue[client] /\ queue'[client][i] = queue[client][i])
      /\ \A d \in Clients : d # client => queue'[d] = queue[d]
  <2>1. CASE client = None
    BY <1>1, <1>2, <2>1 DEF StopClient, TypesOK
  <2>2. CASE client # None
    <3>1. client \in Clients /\ "stop" \in Commands /\ queue' = [queue EXCEPT ![client] = Append(@, "stop")]
      BY <1>2, <2>2 DEF StopClient, Commands
    <3>2. /\ queue' \in [Clients -> Seq(Commands)]
          /\ queue'[client] # <<>> /\ queue'[client][Len(queue'[client])] = "stop"
          /\ \A i \in DOMAIN queue'[client] : queue'[client][i] = "stop"
               \/ (i \in DOMAIN queue[client] /\ queue'[client][i] = queue[client][i])
          /\ \A d \in Clients \ {client} : queue'[d] = queue[d]
      BY <1>1, <3>1, PushIs
    <3> QED BY <2>2, <3>2
  <2> QED BY <2>1, <2>2
<1>9. TypesOK'
  BY <1>1, <1>7, <1>8 DEF TypesOK, storage
<1>10. BudgetOK(listener', intents', frames', left', crashes')
  <2>1. Coming(f) = Coming(frames[t])
    BY <1>1, <1>3 DEF Coming
  <2>2. listener \in [Clients -> Nat] /\ intents \in Seq(Intents) /\ left \in [HostOps -> Nat]
    BY <1>1 DEF TypesOK
  <2>3. Used(listener) + Due(intents) + Coming(f) + Starts(left)
          <= Used(listener) + Due(intents) + Coming(frames[t]) + Starts(left)
    <3>1. Used(listener) \in Nat /\ Due(intents) \in Nat /\ Coming(frames[t]) \in Nat /\ Starts(left) \in Nat
      BY <2>2, UsedIs, DueIs, StartsType DEF Coming
    <3> QED BY <2>1, <3>1
  <2>4. BudgetOK(listener, intents, [frames EXCEPT ![t] = f], left, crashes)
    BY <1>1, <2>2, <2>3, BudgetMove
  <2> QED BY <1>3, <1>7, <2>4
<1>11. \A c \in Clients : Active(c)' => Active(c)
  BY <1>2, <1>3, <1>4, <1>7, <1>8 DEF Active
<1>12. ListensOK'
  BY <1>1, <1>7, <1>11 DEF ListensOK
<1>13. \A c \in Clients : Runs(c)' => Runs(c) /\ c # client
  BY <1>2, <1>7, <1>8 DEF Runs
<1>14. BeginOK'
  <2> SUFFICES ASSUME NEW u \in Threads
               PROVE  (/\ At(u, "install") => client = None
                       /\ At(u, "startClient") =>
                            /\ frames[u].ref \in Clients
                            /\ frames[u].ref = client \/ frames[u].ref \in orphans
                            /\ frames[u].ref \notin live
                            /\ \A i \in DOMAIN queue[frames[u].ref] : queue[frames[u].ref][i] = "stop"
                            /\ frames[u].ref = client /\ (\A v \in Threads : ~At(v, "dropClient"))
                                 => queue[frames[u].ref] = <<>>)'
    BY DEF BeginOK
  <2>1. CASE u = t
    BY <1>3, <1>4, <2>1 DEF At
  <2>2. CASE u # t
    <3>1. frames'[u] = frames[u]
      BY <1>4, <2>2
    <3>2. At(t, "dropClient")'
      BY <1>3, <1>4 DEF At
    <3>3. ASSUME frames[u].at = "startClient" PROVE \A i \in DOMAIN queue'[frames[u].ref] : queue'[frames[u].ref][i] = "stop"
      <4>1. frames[u].ref \in Clients /\ \A i \in DOMAIN queue[frames[u].ref] : queue[frames[u].ref][i] = "stop"
        BY <1>1, <3>3 DEF BeginOK, At
      <4>2. CASE frames[u].ref = client
        BY <1>2, <1>8, <4>1, <4>2
      <4>3. CASE frames[u].ref # client
        BY <1>8, <4>1, <4>3
      <4> QED BY <4>2, <4>3
    <3> QED BY <1>1, <1>7, <3>1, <3>2, <3>3 DEF BeginOK, At
  <2> QED BY <2>1, <2>2
<1>15. StopsOK'
  <2> SUFFICES ASSUME NEW u \in Threads, frames'[u].at = "dropClient", frames'[u].ref # None
               PROVE  /\ ~Runs(frames[u].ref)'
                      /\ \A v \in Threads : frames'[v].at = "startClient" => frames'[v].ref # frames'[u].ref
    BY DEF StopsOK, At
  <2>1. CASE u = t
    <3>1. frames'[u].ref = client /\ client \in Clients /\ Started = client
      BY <1>2, <1>3, <1>4, <2>1
    <3>2. ASSUME NEW v \in Threads, frames'[v].at = "startClient", frames'[v].ref = client PROVE FALSE
      <4>1. v # t /\ frames'[v] = frames[v]
        BY <1>3, <1>4, <3>2
      <4>2. \A w \in Threads : ~At(w, "dropClient")
        BY <1>1, <3>2, <4>1 DEF At, Threads
      <4>3. client \notin live /\ queue[client] = <<>>
        BY <1>1, <3>2, <4>1, <4>2 DEF BeginOK, At
      <4> QED BY <1>2, <3>1, <4>3
    <3> QED BY <1>13, <3>1, <3>2
  <2>2. CASE u # t
    <3>1. frames'[u] = frames[u] /\ \A v \in Threads : frames'[v].at # "startClient"
      BY <1>3, <1>4, <2>2 DEF Threads
    <3>2. ~Runs(frames[u].ref) /\ frames[u].ref \in Clients
      BY <1>1, <2>2, <3>1 DEF StopsOK, At, FramesOK, Frames
    <3>3. ~Runs(frames[u].ref)'
      BY <1>13, <3>1, <3>2
    <3> QED BY <3>1, <3>3
  <2> QED BY <2>1, <2>2
<1>16. OffOK'
  <2>1. TurningOff => TurningOff'
    BY <1>1, <1>3, <1>4 DEF TurningOff, Op, Threads
  <2>2. \A u \in Threads : Installing(frames'[u]) => Installing(frames[u])
    BY <1>1, <1>3, <1>4 DEF Installing, Holders
  <2> QED BY <1>1, <1>7, <2>1, <2>2 DEF OffOK, storage
<1>17. OneOwner'
  BY <1>1, <1>7, <1>13 DEF OneOwner
<1> QED BY <1>5, <1>6, <1>9, <1>10, <1>12, <1>14, <1>15, <1>16, <1>17 DEF IInv

(* The reference goes: a client that this stop did not reach is an orphan. *)
LEMMA DropClientStep == ASSUME IInv, NEW t \in Threads, DropClient(t) PROVE IInv'
<1> DEFINE p == Resume(frames[t].op)
           g == [frames[t] EXCEPT !.at = p, !.ref = None]
           f == IF p = "done" THEN Idle ELSE g
<1>1. /\ FramesOK(frames) /\ TypesOK /\ LockOK(frames, ownerLock) /\ ListensOK /\ BeginOK
      /\ StopsOK /\ OffOK /\ OneOwner /\ BudgetOK(listener, intents, frames, left, crashes)
      /\ frames[t] \in Frames /\ frames[t].at = "dropClient"
  BY DEF IInv, DropClient, At, FramesOK
<1>2. /\ t = "nm" => frames[t].op \in {"startInProcess", "stop", "relayOff"}
      /\ t = "main" => frames[t].op \in MainOps
  BY <1>1, NmAt, MainAt
<1>3. /\ frames[t].op \in Starters => p = "install"
      /\ frames[t].op = "relayOff" => p = "unlock"
      /\ frames[t].op = "stopRequest" => p = "staleCheck"
      /\ frames[t].op \in {"refused", "timeout"} => p = "publishError"
      /\ frames[t].op \in {"stop", "destroy"} => p = "done"
      /\ \/ frames[t].op \in Starters \cup {"relayOff", "stopRequest", "refused", "timeout"}
         \/ frames[t].op \in {"stop", "destroy"}
      /\ frames[t].op # "startService"
  BY <1>2 DEF Resume, Starters, MainOps, Threads
<1>4. p \in {"install", "unlock", "staleCheck", "publishError", "done"}
  BY <1>3
<1>5. frames' = [frames EXCEPT ![t] = f]
  BY <1>1 DEF DropClient, Done, FramesOK
<1> HIDE DEF p
<1>6. /\ f \in Frames /\ f.ref = None
      /\ p = "done" => f = Idle
      /\ p # "done" => f.op = frames[t].op /\ f.at = p
  <2>1. CASE p = "done"
    BY <2>1, IdleIs
  <2>2. CASE p # "done"
    <3>1. p \in Places /\ None \in Clients \cup {None}
      BY <1>4, <2>2 DEF Places
    <3>2. g \in Frames /\ g.op = frames[t].op /\ g.at = p /\ g.ref = None
      BY <1>1, <3>1 DEF Frames
    <3> QED BY <2>2, <3>2
  <2> QED BY <2>1, <2>2
<1> HIDE DEF f
<1>7. \A u \in Threads : frames'[u] = IF u = t THEN f ELSE frames[u]
  BY <1>1, <1>5 DEF FramesOK
<1>8. f.at \notin {"dropClient", "startClient"}
  BY <1>4, <1>6, IdleIs
<1>9. FramesOK(frames')
  <2>1. p # "done" /\ t = "nm" => p \in NmPlaces(frames[t].op)
    BY <1>2, <1>3 DEF NmPlaces, Holders, Starters
  <2>2. p # "done" /\ t = "main" => p \in MainPlaces(frames[t].op)
    BY <1>2, <1>3 DEF MainPlaces, MainOps, Holders, Starters
  <2>3. Fits(t, f)
    <3>1. CASE p = "done"
      BY <1>6, <3>1, IdleIs
    <3>2. CASE p # "done"
      BY <1>6, <2>1, <2>2, <3>2 DEF Fits
    <3> QED BY <3>1, <3>2
  <2> QED BY <1>1, <1>5, <2>3, FramesMove
<1>10. /\ Installing(f) <=> Installing(frames[t])
       /\ Holding(f) <=> Holding(frames[t])
       /\ Coming(f) = Coming(frames[t])
  <2>1. CASE frames[t].op \in Starters
    BY <1>1, <1>3, <1>6, <2>1 DEF Installing, Holding, Holders, Coming, Starters
  <2>2. CASE frames[t].op \in {"relayOff", "stopRequest", "refused", "timeout"}
    BY <1>1, <1>3, <1>6, <2>2 DEF Installing, Holding, Coming, Starters
  <2>3. CASE frames[t].op \in {"stop", "destroy"}
    BY <1>1, <1>3, <1>6, <2>3, IdleIs DEF Installing, Holding, Coming, Starters
  <2> QED BY <1>3, <2>1, <2>2, <2>3
<1>11. LockOK(frames', ownerLock')
  <2>1. LockOK([frames EXCEPT ![t] = f], ownerLock)
    BY <1>1, <1>10, LockMove
  <2> QED BY <1>5, <2>1 DEF DropClient
<1>12. /\ UNCHANGED <<storage, activeConfig, activeGen, generation, listener, queue, live, publishing,
                      status, service, intents, left, crashes, born, errorGen>>
       /\ client' = None /\ None \notin Clients
       /\ orphans' = IF client \in {None, frames[t].ref} THEN orphans ELSE orphans \cup {client}
  BY DEF DropClient, world, platform, bounds, None, Clients
<1>13. TypesOK'
  BY <1>1, <1>12 DEF TypesOK, storage
<1>14. BudgetOK(listener', intents', frames', left', crashes')
  <2>1. listener \in [Clients -> Nat] /\ intents \in Seq(Intents) /\ left \in [HostOps -> Nat]
    BY <1>1 DEF TypesOK
  <2>2. Used(listener) + Due(intents) + Coming(f) + Starts(left)
          <= Used(listener) + Due(intents) + Coming(frames[t]) + Starts(left)
    <3>1. Used(listener) \in Nat /\ Due(intents) \in Nat /\ Coming(frames[t]) \in Nat /\ Starts(left) \in Nat
      BY <2>1, UsedIs, DueIs, StartsType DEF Coming
    <3> QED BY <1>10, <3>1
  <2>3. BudgetOK(listener, intents, [frames EXCEPT ![t] = f], left, crashes)
    BY <1>1, <2>1, <2>2, BudgetMove
  <2> QED BY <1>5, <1>12, <2>3
<1>15. \A c \in Clients : /\ Active(c)' => Active(c)
                          /\ Runs(c)' = Runs(c)
  BY <1>6, <1>7, <1>12 DEF Active, Runs
<1>16. ListensOK'
  BY <1>1, <1>12, <1>15 DEF ListensOK
<1>17. BeginOK'
  <2> SUFFICES ASSUME NEW u \in Threads, frames'[u].at = "startClient"
               PROVE  /\ frames'[u].ref \in Clients
                      /\ frames'[u].ref \in orphans'
                      /\ frames'[u].ref \notin live'
                      /\ \A i \in DOMAIN queue'[frames'[u].ref] : queue'[frames'[u].ref][i] = "stop"
    BY <1>12 DEF BeginOK, At
  <2>1. u # t /\ frames'[u] = frames[u]
    BY <1>7, <1>8
  <2>2. /\ frames[u].ref \in Clients
        /\ frames[u].ref = client \/ frames[u].ref \in orphans
        /\ frames[u].ref \notin live
        /\ \A i \in DOMAIN queue[frames[u].ref] : queue[frames[u].ref][i] = "stop"
    BY <1>1, <2>1 DEF BeginOK, At
  <2>3. frames[t].ref # frames[u].ref
    BY <1>1, <1>12, <2>1, <2>2 DEF StopsOK, At
  <2>4. frames[u].ref \in orphans'
    BY <1>12, <2>2, <2>3
  <2> QED BY <1>12, <2>1, <2>2, <2>4
<1>18. StopsOK'
  <2> SUFFICES ASSUME NEW u \in Threads, frames'[u].at = "dropClient", frames'[u].ref # None
               PROVE  /\ ~Runs(frames[u].ref)'
                      /\ \A v \in Threads : frames'[v].at = "startClient" => frames'[v].ref # frames'[u].ref
    BY DEF StopsOK, At
  <2>1. frames'[u] = frames[u]
    BY <1>7, <1>8
  <2>2. frames[u].ref \in Clients /\ ~Runs(frames[u].ref)
    BY <1>1, <2>1 DEF StopsOK, At, FramesOK, Frames
  <2>3. \A v \in Threads : frames'[v].at = "startClient" => frames'[v] = frames[v]
    BY <1>7, <1>8
  <2> QED BY <1>1, <1>15, <2>1, <2>2, <2>3 DEF StopsOK, At
<1>19. OffOK'
  <2> SUFFICES ASSUME ~relayOn', ~TurningOff', NEW u \in Threads, Installing(frames'[u])
               PROVE  FALSE
    BY <1>12 DEF OffOK
  <2>1. Installing(frames[u]) /\ ~relayOn
    BY <1>7, <1>10, <1>12 DEF storage
  <2>2. TurningOff
    BY <1>1, <2>1 DEF OffOK
  <2>3. t = "nm" /\ frames["nm"].op = "relayOff"
    <3>1. CASE t = "main"
      BY <1>1, <1>5, <2>2, <3>1, MainLeaves
    <3> QED BY <2>2, <3>1 DEF TurningOff, Op, Threads
  <2>4. Holding(frames["nm"]) /\ Holding(frames[u])
    BY <1>1, <2>1, <2>3 DEF Holding
  <2>5. u = "nm"
    BY <1>1, <2>3, <2>4, OneHolds
  <2> QED BY <2>1, <2>3, <2>5 DEF Installing, Starters
<1>20. OneOwner'
  <2> SUFFICES ASSUME NEW c \in Clients, Runs(c) PROVE c \in orphans'
    BY <1>15 DEF OneOwner
  <2>1. c = client \/ c \in orphans
    BY <1>1 DEF OneOwner
  <2>2. c # frames[t].ref
    BY <1>1, <1>12 DEF StopsOK, At
  <2> QED BY <1>12, <2>1, <2>2
<1> QED BY <1>9, <1>11, <1>13, <1>14, <1>16, <1>17, <1>18, <1>19, <1>20 DEF IInv

(* begin() installs a client that was never used: there is one left.       *)
LEMMA InstallStep == ASSUME IInv, NEW t \in Threads, Install(t) PROVE IInv'
<1> DEFINE r == Fresh
           n == generation + 1
           f == [frames[t] EXCEPT !.at = "startClient", !.ref = r]
<1>1. /\ FramesOK(frames) /\ TypesOK /\ LockOK(frames, ownerLock) /\ ListensOK /\ BeginOK
      /\ StopsOK /\ OffOK /\ OneOwner /\ BudgetOK(listener, intents, frames, left, crashes)
      /\ frames[t] \in Frames /\ frames[t].at = "install" /\ client = None
  BY DEF IInv, Install, At, FramesOK, BeginOK
<1>2. /\ t = "nm" => frames[t].op = "startInProcess"
      /\ t = "main" => frames[t].op \in {"start", "restart"}
      /\ frames[t].op \in Starters /\ Installing(frames[t]) /\ Holding(frames[t])
      /\ Coming(frames[t]) = 1
  <2>1. /\ t = "nm" => frames[t].op = "startInProcess"
        /\ t = "main" => frames[t].op \in {"start", "restart"}
    BY <1>1, NmAt, MainAt
  <2>2. frames[t].op \in Starters
    BY <2>1 DEF Starters, Threads
  <2> QED BY <1>1, <2>1, <2>2 DEF Installing, Holding, Holders, Coming
<1>3. /\ listener \in [Clients -> Nat] /\ intents \in Seq(Intents) /\ left \in [HostOps -> Nat]
      /\ generation \in Nat /\ n \in Nat \ {0} /\ generation < n /\ errorGen \in Nat
      /\ Used(listener) \in Nat /\ Due(intents) \in Nat /\ Starts(left) \in Nat
  <2>1. listener \in [Clients -> Nat] /\ intents \in Seq(Intents) /\ left \in [HostOps -> Nat]
        /\ generation \in Nat /\ errorGen \in Nat
    BY <1>1 DEF TypesOK
  <2>2. n \in Nat \ {0} /\ generation < n
    BY <2>1
  <2>3. Used(listener) \in Nat
    BY <2>1, UsedIs
  <2>4. Due(intents) \in Nat
    BY <2>1, DueIs
  <2>5. Starts(left) \in Nat
    BY <2>1, StartsType
  <2> QED BY <2>1, <2>2, <2>3, <2>4, <2>5
<1>4. Used(listener) < MaxClients
  <2> DEFINE u == Used(listener)  d == Due(intents)  k == MaxClients  q == MaxCrashes - crashes
             a == Coming(frames["nm"])  b == Coming(frames["main"])
             l == left["startService"]  m == left["startInProcess"]
  <2>1. /\ u \in Nat /\ d \in Nat /\ k \in Nat /\ q \in Nat
        /\ a \in {0, 1} /\ b \in {0, 1} /\ l \in Nat /\ m \in Nat
    BY <1>1, <1>3, OwnershipAssumption DEF TypesOK, Coming, HostOps
  <2>2. a = 1 \/ b = 1
    BY <1>2 DEF Threads
  <2>3. u + d + a + b + l + m + q <= k
    BY <1>1 DEF BudgetOK
  <2> HIDE DEF u, d, k, q, a, b, l, m
  <2>4. u < k
    BY <2>1, <2>2, <2>3
  <2> QED BY <2>4 DEF u, k
<1>5. r \in Clients /\ listener[r] = 0
  <2>1. \E c \in Clients : listener[c] = 0
    BY <1>3, <1>4, UsedIs
  <2> QED BY <2>1 DEF Fresh
<1> HIDE DEF r
<1>6. ~Active(r) /\ None \notin Clients
  BY <1>1, <1>5 DEF ListensOK, None, Clients
<1>7. /\ r \notin live /\ queue[r] = <<>> /\ ~Runs(r)
      /\ \A u \in Threads : frames[u].ref # r
  BY <1>6 DEF Active, Runs
<1>8. /\ generation' = n /\ listener' = [listener EXCEPT ![r] = n] /\ client' = r
      /\ born' = [born EXCEPT ![r] = frames[t].gen] /\ activeConfig' = frames[t].gen
      /\ UNCHANGED <<storage, ownerLock, activeGen, queue, live, publishing, status, service, intents,
                     left, crashes, errorGen, orphans>>
  BY DEF Install, r, world, platform, bounds
<1>9. /\ f \in Frames /\ f.op = frames[t].op /\ f.at = "startClient" /\ f.ref = r
      /\ frames' = [frames EXCEPT ![t] = f]
  <2>1. "startClient" \in Places /\ r \in Clients \cup {None}
    BY <1>5 DEF Places
  <2>2. frames' = [frames EXCEPT ![t] = f]
    BY <1>1 DEF Install, FramesOK, r
  <2>3. f \in Frames /\ f.op = frames[t].op /\ f.at = "startClient" /\ f.ref = r
    BY <1>1, <2>1 DEF Frames
  <2> QED BY <2>2, <2>3
<1> HIDE DEF f, n
<1>10. \A u \in Threads : frames'[u] = IF u = t THEN f ELSE frames[u]
  BY <1>1, <1>9 DEF FramesOK
<1>11. \A u \in Threads : u # t => ~Holding(frames[u]) /\ ~Installing(frames[u])
                                    /\ frames[u].at \notin {"install", "startClient"}
  <2> SUFFICES ASSUME NEW u \in Threads, u # t
               PROVE  ~Holding(frames[u]) /\ ~Installing(frames[u])
                      /\ frames[u].at \notin {"install", "startClient"}
    OBVIOUS
  <2>1. ~Holding(frames[u])
    BY <1>1, <1>2, OneHolds
  <2>2. ~Installing(frames[u])
    BY <2>1 DEF Holding
  <2>3. frames[u].at \in {"install", "startClient"} => frames[u].op \in {"startInProcess", "start", "restart"}
    BY <1>1, NmAt, MainAt DEF Threads
  <2> QED BY <2>1, <2>2, <2>3 DEF Installing, Starters, Holders
<1>12. FramesOK(frames')
  <2>1. Fits(t, f)
    BY <1>2, <1>9 DEF Fits, NmPlaces, MainPlaces, Holders
  <2> QED BY <1>1, <1>9, <2>1, FramesMove
<1>13. Installing(f) /\ Holding(f) /\ Coming(f) = 0
  BY <1>2, <1>9 DEF Installing, Holding, Holders, Coming
<1>14. LockOK(frames', ownerLock')
  <2>1. LockOK([frames EXCEPT ![t] = f], ownerLock)
    BY <1>1, <1>2, <1>13, LockMove
  <2> QED BY <1>8, <1>9, <2>1
<1>15. listener' \in [Clients -> Nat] /\ \A c \in Clients : listener'[c] = IF c = r THEN n ELSE listener[c]
  BY <1>3, <1>5, <1>8
<1>16. TypesOK'
  <2>1. born' \in [Clients -> Nat] /\ frames[t].gen \in Nat
    BY <1>1, <1>5, <1>8 DEF TypesOK, Frames
  <2> QED BY <1>1, <1>3, <1>5, <1>8, <1>15, <2>1 DEF TypesOK, storage
<1>17. BudgetOK(listener', intents', frames', left', crashes')
  <2>1. Used(listener') = Used(listener) + 1
    BY <1>3, <1>5, <1>8, UsedIs
  <2>2. Used(listener') + Due(intents) + Coming(f) + Starts(left)
          <= Used(listener) + Due(intents) + Coming(frames[t]) + Starts(left)
    BY <1>2, <1>3, <1>13, <2>1
  <2>3. BudgetOK(listener', intents, [frames EXCEPT ![t] = f], left, crashes)
    BY <1>1, <1>3, <1>15, <2>2, BudgetMove
  <2> QED BY <1>8, <1>9, <2>3
<1>18. \A c \in Clients : c # r /\ Active(c)' => Active(c)
  BY <1>6, <1>8, <1>9, <1>10 DEF Active
<1>19. ListensOK'
  <2>1. errorGen' <= generation' /\ errorGen < n
    BY <1>1, <1>3, <1>8 DEF ListensOK
  <2>2. ASSUME NEW c \in Clients, Active(c)'
        PROVE  listener'[c] \in 1 .. generation' /\ listener'[c] # errorGen'
    <3>1. CASE c = r
      BY <1>3, <1>8, <1>15, <2>1, <3>1
    <3>2. CASE c # r
      <4>1. listener[c] \in 1 .. generation /\ listener[c] # errorGen /\ listener'[c] = listener[c]
        BY <1>1, <1>15, <1>18, <2>2, <3>2 DEF ListensOK
      <4> QED BY <1>3, <1>8, <4>1
    <3> QED BY <3>1, <3>2
  <2>3. publishing # Silent => publishing.who \in Clients /\ listener'[publishing.who] > errorGen
    <3>1. publishing # Silent => publishing.who \in Clients /\ listener[publishing.who] > errorGen
      BY <1>1 DEF ListensOK
    <3> QED BY <1>3, <1>15, <2>1, <3>1
  <2> QED BY <1>8, <2>1, <2>2, <2>3 DEF ListensOK, Silent
<1>20. \A c \in Clients : Runs(c)' = Runs(c)
  BY <1>8 DEF Runs
<1>21. BeginOK'
  <2> SUFFICES ASSUME NEW u \in Threads
               PROVE  (/\ At(u, "install") => client = None
                       /\ At(u, "startClient") =>
                            /\ frames[u].ref \in Clients
                            /\ frames[u].ref = client \/ frames[u].ref \in orphans
                            /\ frames[u].ref \notin live
                            /\ \A i \in DOMAIN queue[frames[u].ref] : queue[frames[u].ref][i] = "stop"
                            /\ frames[u].ref = client /\ (\A v \in Threads : ~At(v, "dropClient"))
                                 => queue[frames[u].ref] = <<>>)'
    BY DEF BeginOK
  <2>1. CASE u # t
    BY <1>10, <1>11, <2>1 DEF At
  <2>2. CASE u = t
    <3>1. frames'[u].at = "startClient" /\ frames'[u].ref = r
      BY <1>9, <1>10, <2>2
    <3>2. queue'[r] = <<>> /\ r \notin live' /\ client' = r /\ r \in Clients
      BY <1>5, <1>7, <1>8
    <3>3. \A i \in DOMAIN <<>> : <<>>[i] = "stop"
      OBVIOUS
    <3> QED BY <3>1, <3>2, <3>3 DEF At
  <2> QED BY <2>1, <2>2
<1>22. StopsOK'
  <2> SUFFICES ASSUME NEW u \in Threads, frames'[u].at = "dropClient", frames'[u].ref # None
               PROVE  /\ ~Runs(frames[u].ref)'
                      /\ \A v \in Threads : frames'[v].at = "startClient" => frames'[v].ref # frames'[u].ref
    BY DEF StopsOK, At
  <2>1. u # t /\ frames'[u] = frames[u]
    BY <1>9, <1>10
  <2>2. frames[u].ref \in Clients /\ ~Runs(frames[u].ref)
    BY <1>1, <2>1 DEF StopsOK, At, FramesOK, Frames
  <2>3. \A v \in Threads : frames'[v].at = "startClient" => frames'[v].ref = r
    BY <1>9, <1>10, <1>11
  <2> QED BY <1>7, <1>20, <2>1, <2>2, <2>3
<1>23. OffOK'
  <2>1. relayOn \/ TurningOff
    BY <1>1, <1>2 DEF OffOK
  <2>2. TurningOff => TurningOff'
    <3>1. CASE t = "main"
      BY <1>1, <1>9, <3>1, MainLeaves
    <3>2. CASE t = "nm"
      BY <1>2, <3>2 DEF TurningOff, Op
    <3> QED BY <3>1, <3>2 DEF Threads
  <2> QED BY <1>8, <2>1, <2>2 DEF OffOK, storage
<1>24. OneOwner'
  BY <1>1, <1>6, <1>8, <1>20 DEF OneOwner
<1> QED BY <1>12, <1>14, <1>16, <1>17, <1>19, <1>21, <1>22, <1>23, <1>24 DEF IInv

(* ... and starts it, and gives the ownerLock back.                        *)
LEMMA StartClientStep == ASSUME IInv, NEW t \in Threads, StartClient(t) PROVE IInv'
<1> DEFINE r == frames[t].ref
<1>1. /\ FramesOK(frames) /\ TypesOK /\ LockOK(frames, ownerLock) /\ ListensOK /\ BeginOK
      /\ StopsOK /\ OffOK /\ OneOwner /\ BudgetOK(listener, intents, frames, left, crashes)
      /\ frames[t] \in Frames /\ frames[t].at = "startClient"
      /\ r \in Clients /\ (r = client \/ r \in orphans)
  BY DEF IInv, StartClient, At, FramesOK, BeginOK
<1>2. /\ t = "nm" => frames[t].op = "startInProcess"
      /\ Installing(frames[t]) /\ Holding(frames[t])
  <2>1. /\ t = "nm" => frames[t].op = "startInProcess"
        /\ t = "main" => frames[t].op \in {"start", "restart"}
    BY <1>1, NmAt, MainAt
  <2> QED BY <1>1, <2>1 DEF Installing, Holding, Holders, Starters, Threads
<1>3. /\ frames' = [frames EXCEPT ![t] = Idle] /\ ownerLock' = Free
      /\ queue' = [queue EXCEPT ![r] = Append(queue[r], "start")]
      /\ UNCHANGED <<storage, client, activeConfig, activeGen, generation, listener, live, publishing,
                     status, service, intents, left, crashes, born, errorGen, orphans>>
  BY DEF StartClient, Done, control, platform, bounds, hist
<1>4. \A u \in Threads : frames'[u] = IF u = t THEN Idle ELSE frames[u]
  BY <1>1, <1>3 DEF FramesOK
<1>5. \A u \in Threads : u # t => frames[u].at \notin {"install", "startClient"}
  <2> SUFFICES ASSUME NEW u \in Threads, u # t
               PROVE  frames[u].at \notin {"install", "startClient"}
    OBVIOUS
  <2>1. ~Holding(frames[u])
    BY <1>1, <1>2, OneHolds
  <2>2. frames[u].at \in {"install", "startClient"} => frames[u].op \in {"startInProcess", "start", "restart"}
    BY <1>1, NmAt, MainAt DEF Threads
  <2> QED BY <2>1, <2>2 DEF Holding, Installing, Starters, Holders
<1>6. /\ queue' \in [Clients -> Seq(Commands)]
      /\ queue'[r] # <<>> /\ queue'[r][Len(queue'[r])] = "start"
      /\ \A d \in Clients \ {r} : queue'[d] = queue[d]
  <2>1. "start" \in Commands
    BY DEF Commands
  <2>2. TypesOK /\ r \in Clients /\ queue' = [queue EXCEPT ![r] = Append(@, "start")]
    BY <1>1, <1>3
  <2> HIDE DEF r
  <2> QED BY <2>1, <2>2, PushIs
<1> HIDE DEF r
<1>7. FramesOK(frames') /\ Idle.at = "idle" /\ Idle.ref = None /\ None \notin Clients
  <2>1. Fits(t, Idle) /\ Idle.at = "idle" /\ Idle.ref = None
    BY IdleIs
  <2>2. FramesOK([frames EXCEPT ![t] = Idle])
    BY <1>1, <2>1, FramesMove
  <2>3. None \notin Clients
    BY DEF None, Clients
  <2> QED BY <1>3, <2>1, <2>2, <2>3
<1>8. LockOK(frames', ownerLock')
  <2>1. LockOK([frames EXCEPT ![t] = Idle], Free)
    BY <1>1, <1>2, IdleIs, LockMove
  <2> QED BY <1>3, <2>1
<1>9. TypesOK'
  BY <1>1, <1>3, <1>6 DEF TypesOK, storage
<1>10. BudgetOK(listener', intents', frames', left', crashes')
  <2>1. listener \in [Clients -> Nat] /\ intents \in Seq(Intents) /\ left \in [HostOps -> Nat]
    BY <1>1 DEF TypesOK
  <2>2. Used(listener) + Due(intents) + Coming(Idle) + Starts(left)
          <= Used(listener) + Due(intents) + Coming(frames[t]) + Starts(left)
    <3>1. Used(listener) \in Nat /\ Due(intents) \in Nat /\ Coming(frames[t]) \in Nat /\ Starts(left) \in Nat
      BY <2>1, UsedIs, DueIs, StartsType DEF Coming
    <3>2. Coming(Idle) = 0
      BY IdleIs
    <3> QED BY <3>1, <3>2
  <2>3. BudgetOK(listener, intents, [frames EXCEPT ![t] = Idle], left, crashes)
    BY <1>1, <2>1, <2>2, IdleIs, BudgetMove
  <2> QED BY <1>3, <2>3
<1>11. \A c \in Clients : Active(c)' => Active(c)
  BY <1>1, <1>3, <1>4, <1>6, <1>7 DEF Active, r
<1>12. ListensOK'
  BY <1>1, <1>3, <1>11 DEF ListensOK
<1>13. \A c \in Clients : c # r => Runs(c)' = Runs(c)
  BY <1>3, <1>6 DEF Runs
<1>14. BeginOK'
  <2>1. \A u \in Threads : frames'[u].at \notin {"install", "startClient"}
    BY <1>4, <1>5, <1>7
  <2> QED BY <2>1 DEF BeginOK, At
<1>15. StopsOK'
  <2> SUFFICES ASSUME NEW u \in Threads, frames'[u].at = "dropClient", frames'[u].ref # None
               PROVE  /\ ~Runs(frames[u].ref)'
                      /\ \A v \in Threads : frames'[v].at = "startClient" => frames'[v].ref # frames'[u].ref
    BY DEF StopsOK, At
  <2>1. u # t /\ frames'[u] = frames[u]
    BY <1>4, <1>7
  <2>2. frames[u].ref \in Clients /\ ~Runs(frames[u].ref) /\ frames[u].ref # r
    BY <1>1, <2>1 DEF StopsOK, At, FramesOK, Frames, r
  <2>3. \A v \in Threads : frames'[v].at # "startClient"
    BY <1>4, <1>5, <1>7
  <2> QED BY <1>13, <2>1, <2>2, <2>3
<1>16. OffOK'
  <2>1. relayOn \/ TurningOff
    BY <1>1, <1>2 DEF OffOK
  <2>2. TurningOff => TurningOff'
    <3>1. CASE t = "main"
      BY <1>1, <1>3, <3>1, MainLeaves
    <3>2. CASE t = "nm"
      BY <1>2, <3>2 DEF TurningOff, Op
    <3> QED BY <3>1, <3>2 DEF Threads
  <2> QED BY <1>3, <2>1, <2>2 DEF OffOK, storage
<1>17. OneOwner'
  BY <1>1, <1>3, <1>13 DEF OneOwner
<1> QED BY <1>7, <1>8, <1>9, <1>10, <1>12, <1>14, <1>15, <1>16, <1>17 DEF IInv

(* What one client's own thread leaves: nothing but its queue, whether it  *)
(* lives, and what it is about to publish.                                 *)
LEMMA ClientKeeps ==
  ASSUME IInv, NEW c \in Clients, Active(c),
         UNCHANGED <<storage, frames, ownerLock, control, generation, listener, status, platform,
                     bounds, hist>>,
         queue' \in [Clients -> Seq(Commands)], live' \subseteq Clients,
         \E s \in Words : Publish(c, s),
         \A d \in Clients : Active(d)' => Active(d),
         \A d \in Clients : Runs(d)' => Runs(d),
         BeginOK'
  PROVE  IInv'
<1>1. /\ FramesOK(frames) /\ TypesOK /\ LockOK(frames, ownerLock) /\ ListensOK
      /\ StopsOK /\ OffOK /\ OneOwner /\ BudgetOK(listener, intents, frames, left, crashes)
  BY DEF IInv
<1>2. UNCHANGED <<relayOn, component, saved, frames, ownerLock, client, activeConfig, activeGen,
                  generation, listener, status, service, intents, left, crashes, born, errorGen,
                  orphans>>
  BY DEF storage, control, platform, bounds, hist
<1>3. /\ publishing' \in [who : Clients \cup {None}, what : Words]
      /\ publishing' # Silent => publishing'.who = c /\ listener[c] = generation
  <2>1. PICK s \in Words : Publish(c, s)
    OBVIOUS
  <2>2. CASE listener[c] = generation
    <3>1. publishing' = [who |-> c, what |-> s]
      BY <2>1, <2>2 DEF Publish
    <3> QED BY <2>2, <3>1
  <2>3. CASE listener[c] # generation
    <3>1. publishing' = Silent /\ "idle" \in Words
      BY <2>1, <2>3 DEF Publish, Words
    <3> QED BY <3>1 DEF Silent
  <2> QED BY <2>2, <2>3
<1>4. TypesOK'
  BY <1>1, <1>2, <1>3 DEF TypesOK
<1>5. ListensOK'
  <2>1. listener[c] # errorGen /\ errorGen <= generation /\ errorGen \in Nat /\ generation \in Nat
    BY <1>1 DEF ListensOK, TypesOK
  <2>2. publishing' # Silent => publishing'.who \in Clients /\ listener[publishing'.who] > errorGen
    BY <1>3, <2>1
  <2> QED BY <1>1, <1>2, <2>2 DEF ListensOK, Silent
<1>6. StopsOK'
  <2> SUFFICES ASSUME NEW u \in Threads, frames[u].at = "dropClient", frames[u].ref # None
               PROVE  /\ ~Runs(frames[u].ref)'
                      /\ \A v \in Threads : frames[v].at = "startClient" => frames[v].ref # frames[u].ref
    BY <1>2 DEF StopsOK, At
  <2>1. frames[u].ref \in Clients /\ ~Runs(frames[u].ref)
    BY <1>1 DEF StopsOK, At, FramesOK, Frames
  <2>2. ~Runs(frames[u].ref)'
    BY <1>2, <2>1
  <2> QED BY <1>1, <2>2 DEF StopsOK, At
<1>7. OffOK'
  BY <1>1, <1>2 DEF OffOK, TurningOff, Op
<1>8. OneOwner'
  BY <1>1, <1>2 DEF OneOwner
<1> QED BY <1>1, <1>2, <1>4, <1>5, <1>6, <1>7, <1>8 DEF IInv

LEMMA PopIs ==
  ASSUME NEW q \in Seq(Commands), q # <<>>
  PROVE  /\ Tail(q) \in Seq(Commands) /\ Head(q) = q[1] /\ 1 \in DOMAIN q
         /\ Tail(q) = <<>> => Head(q) = q[Len(q)]
         /\ Tail(q) # <<>> => Tail(q)[Len(Tail(q))] = q[Len(q)]
         /\ \A i \in DOMAIN Tail(q) : i + 1 \in DOMAIN q /\ Tail(q)[i] = q[i + 1]
<1>1. /\ Tail(q) \in Seq(Commands) /\ Head(q) = q[1] /\ Len(q) \in Nat \ {0}
      /\ Len(Tail(q)) = Len(q) - 1 /\ \A i \in 1 .. Len(q) - 1 : Tail(q)[i] = q[i + 1]
      /\ DOMAIN q = 1 .. Len(q) /\ DOMAIN Tail(q) = 1 .. Len(q) - 1
  OBVIOUS
<1>2. Tail(q) = <<>> => Len(q) = 1
  <2>1. Tail(q) = <<>> => Len(Tail(q)) = 0
    BY EmptySeq
  <2> QED BY <1>1, <2>1
<1>3. Tail(q) # <<>> => Len(q) - 1 \in 1 .. Len(q) - 1
  <2>1. Tail(q) # <<>> => Len(Tail(q)) # 0
    BY <1>1, EmptySeq
  <2> QED BY <1>1, <2>1
<1> QED BY <1>1, <1>2, <1>3

LEMMA RunClientStep == ASSUME IInv, NEW c \in Clients, RunClient(c) PROVE IInv'
<1> DEFINE q == queue[c]
<1>1. FramesOK(frames) /\ TypesOK /\ BeginOK /\ Active(c) /\ q \in Seq(Commands) /\ q # <<>>
  BY DEF IInv, RunClient, Active, TypesOK
<1>2. /\ UNCHANGED <<storage, frames, ownerLock, control, generation, listener, status, platform,
                     bounds, hist>>
      /\ UNCHANGED <<frames, client, orphans>>
      /\ queue' = [queue EXCEPT ![c] = Tail(q)]
      /\ \/ Head(q) = "start" /\ live' = live \cup {c} /\ Publish(c, "connecting")
         \/ Head(q) = "stop" /\ live' = live \ {c} /\ Publish(c, "stopped")
  BY DEF RunClient, control, hist
<1>3. /\ queue \in [Clients -> Seq(Commands)] /\ queue' \in [Clients -> Seq(Commands)]
      /\ queue'[c] = Tail(q) /\ \A d \in Clients : d # c => queue'[d] = queue[d]
  <2>1. queue \in [Clients -> Seq(Commands)] /\ Tail(q) \in Seq(Commands)
    BY <1>1, PopIs DEF TypesOK
  <2> HIDE DEF q
  <2> QED BY <1>2, <2>1
<1>4. live' \subseteq Clients
  BY <1>1, <1>2 DEF TypesOK
<1>5. \E s \in Words : Publish(c, s)
  <2>1. "connecting" \in Words /\ "stopped" \in Words
    BY DEF Words
  <2> QED BY <1>2, <2>1
<1>6. \A d \in Clients : Active(d)' => Active(d)
  BY <1>1, <1>2, <1>3 DEF Active
<1>7. \A d \in Clients : Runs(d)' => Runs(d)
  <2> SUFFICES ASSUME NEW d \in Clients, Runs(d)' PROVE Runs(d)
    OBVIOUS
  <2>1. CASE d # c
    BY <1>2, <1>3, <2>1 DEF Runs
  <2>2. CASE d = c /\ Tail(q) # <<>>
    <3>1. Tail(q)[Len(Tail(q))] = q[Len(q)]
      BY <1>1, <2>2, PopIs
    <3>2. Tail(q)[Len(Tail(q))] = "start"
      BY <1>3, <2>2 DEF Runs
    <3> QED BY <1>1, <2>2, <3>1, <3>2 DEF Runs
  <2>3. CASE d = c /\ Tail(q) = <<>>
    <3>1. Head(q) = q[Len(q)]
      BY <1>1, <2>3, PopIs
    <3>2. c \in live'
      BY <1>3, <2>3 DEF Runs
    <3>3. Head(q) = "start"
      BY <1>2, <3>2
    <3> QED BY <1>1, <2>3, <3>1, <3>3 DEF Runs
  <2> QED BY <2>1, <2>2, <2>3
<1>8. BeginOK'
  <2> SUFFICES ASSUME NEW u \in Threads, frames[u].at = "startClient"
               PROVE  LET r == frames[u].ref IN
                      /\ r \notin live'
                      /\ \A i \in DOMAIN queue'[r] : queue'[r][i] = "stop"
                      /\ r = client /\ (\A v \in Threads : ~At(v, "dropClient")) => queue'[r] = <<>>
    BY <1>1, <1>2 DEF BeginOK, At
  <2> DEFINE r == frames[u].ref
  <2>1. /\ r \in Clients /\ r \notin live
        /\ \A i \in DOMAIN queue[r] : queue[r][i] = "stop"
        /\ r = client /\ (\A v \in Threads : ~At(v, "dropClient")) => queue[r] = <<>>
    BY <1>1 DEF BeginOK, At
  <2> HIDE DEF r
  <2>2. CASE r # c
    <3>1. queue'[r] = queue[r] /\ r \notin live'
      BY <1>2, <1>3, <2>1, <2>2
    <3> QED BY <2>1, <3>1 DEF r
  <2>3. CASE r = c
    <3>1. Head(q) = "stop"
      <4>1. Head(q) = q[1] /\ 1 \in DOMAIN q
        BY <1>1, PopIs
      <4> QED BY <2>1, <2>3, <4>1
    <3>2. r \notin live'
      BY <1>2, <2>3, <3>1
    <3>3. \A i \in DOMAIN Tail(q) : i + 1 \in DOMAIN q /\ Tail(q)[i] = q[i + 1]
      BY <1>1, PopIs
    <3>4. \A i \in DOMAIN Tail(q) : Tail(q)[i] = "stop"
      BY <2>1, <2>3, <3>3
    <3>5. queue'[r] = Tail(q)
      BY <1>3, <2>3
    <3>6. ~(r = client /\ (\A v \in Threads : ~At(v, "dropClient")))
      BY <1>1, <2>1, <2>3
    <3> QED BY <3>2, <3>4, <3>5, <3>6 DEF r
  <2> QED BY <2>2, <2>3
<1> QED BY <1>1, <1>2, <1>3, <1>4, <1>5, <1>6, <1>7, <1>8, ClientKeeps

LEMMA ConnectedStep == ASSUME IInv, NEW c \in Clients, Connected(c) PROVE IInv'
<1>1. TypesOK /\ BeginOK /\ Active(c)
  BY DEF IInv, Connected, Active
<1>2. /\ UNCHANGED <<storage, frames, ownerLock, control, generation, listener, status, platform,
                     bounds, hist>>
      /\ UNCHANGED <<frames, client, orphans, queue, live>>
      /\ Publish(c, "connected") /\ "connected" \in Words
  BY DEF Connected, control, hist, Words
<1>3. queue' \in [Clients -> Seq(Commands)] /\ live' \subseteq Clients
  BY <1>1, <1>2 DEF TypesOK
<1>4. /\ \A d \in Clients : Active(d)' => Active(d)
      /\ \A d \in Clients : Runs(d)' => Runs(d)
  BY <1>2 DEF Active, Runs
<1>5. BeginOK'
  BY <1>1, <1>2 DEF BeginOK, At
<1> QED BY <1>1, <1>2, <1>3, <1>4, <1>5, ClientKeeps

LEMMA WriteStateStep == ASSUME IInv, WriteState PROVE IInv'
<1>1. /\ FramesOK(frames) /\ TypesOK /\ LockOK(frames, ownerLock) /\ ListensOK /\ BeginOK
      /\ StopsOK /\ OffOK /\ OneOwner /\ BudgetOK(listener, intents, frames, left, crashes)
  BY DEF IInv
<1>2. UNCHANGED <<relayOn, component, saved, frames, ownerLock, client, activeConfig, activeGen,
                  generation, listener, queue, live, service, intents, left, crashes, born, errorGen,
                  orphans>>
  BY DEF WriteState, storage, control, platform, bounds, hist
<1>3. status' \in Words /\ publishing' = Silent
      /\ Silent \in [who : Clients \cup {None}, what : Words]
  <2>1. "idle" \in Words
    BY DEF Words
  <2> QED BY <1>1, <2>1 DEF WriteState, TypesOK, Silent
<1>4. TypesOK'
  BY <1>1, <1>2, <1>3 DEF TypesOK
<1>5. \A c \in Clients : Active(c)' = Active(c) /\ Runs(c)' = Runs(c)
  BY <1>2 DEF Active, Runs
<1>6. ListensOK'
  <2>1. Silent' = Silent
    BY DEF Silent
  <2> QED BY <1>1, <1>2, <1>3, <1>5, <2>1 DEF ListensOK
<1>7. BeginOK'
  BY <1>1, <1>2 DEF BeginOK, At
<1>8. StopsOK'
  <2> SUFFICES ASSUME NEW u \in Threads, frames[u].at = "dropClient", frames[u].ref # None
               PROVE  /\ ~Runs(frames[u].ref)'
                      /\ \A v \in Threads : frames[v].at = "startClient" => frames[v].ref # frames[u].ref
    BY <1>2 DEF StopsOK, At
  <2>1. frames[u].ref \in Clients /\ ~Runs(frames[u].ref)
    BY <1>1 DEF StopsOK, At, FramesOK, Frames
  <2>2. ~Runs(frames[u].ref)'
    BY <1>2, <1>5, <2>1
  <2> QED BY <1>1, <2>2 DEF StopsOK, At
<1>9. OffOK' /\ OneOwner'
  BY <1>1, <1>2, <1>5 DEF OffOK, TurningOff, Op, OneOwner
<1> QED BY <1>1, <1>2, <1>4, <1>6, <1>7, <1>8, <1>9 DEF IInv

-----------------------------------------------------------------------------
(* A new process, and the start: nothing runs and nobody holds anything.   *)

NewProcess ==
  /\ frames = [t \in Threads |-> Idle] /\ ownerLock = Free /\ client = None
  /\ generation = 0 /\ errorGen = 0
  /\ queue = [c \in Clients |-> <<>>] /\ live = {} /\ publishing = Silent

NothingHeld ==
  /\ FramesOK(frames) /\ LockOK(frames, ownerLock)
  /\ ListensOK /\ BeginOK /\ StopsOK /\ OffOK /\ OneOwner

LEMMA FreshProcess == NewProcess => NothingHeld
<1> SUFFICES ASSUME NewProcess PROVE NothingHeld
  OBVIOUS
<1> USE DEF NewProcess
<1>1. /\ \A t \in Threads : frames[t] = Idle
      /\ Idle \in Frames /\ Idle.ref = None /\ Idle.at = "idle"
      /\ ~Holding(Idle) /\ ~Installing(Idle) /\ None \notin Clients
  BY IdleIs DEF None, Clients
<1>2. FramesOK(frames)
  <2>1. \A t \in Threads : Fits(t, Idle)
    BY IdleIs
  <2> QED BY <1>1, <2>1 DEF FramesOK, Fits, Threads
<1>3. LockOK(frames, ownerLock)
  <2>1. Free \notin Threads
    BY DEF Free, Threads
  <2> QED BY <1>1, <2>1 DEF LockOK
<1>4. \A c \in Clients : ~Active(c) /\ ~Runs(c)
  BY <1>1 DEF Active, Runs
<1>5. ListensOK
  BY <1>4 DEF ListensOK
<1>6. BeginOK /\ StopsOK
  BY <1>1 DEF BeginOK, StopsOK, At
<1>7. OffOK /\ OneOwner
  BY <1>1, <1>4 DEF OffOK, OneOwner
<1> QED BY <1>2, <1>3, <1>5, <1>6, <1>7 DEF NothingHeld

LEMMA FreshTypes ==
  /\ None \in Clients \cup {None} /\ None \in Nat
  /\ [c \in Clients |-> <<>>] \in [Clients -> Seq(Commands)]
  /\ Silent \in [who : Clients \cup {None}, what : Words]
  /\ Down \in [up : BOOLEAN, running : BOOLEAN, sticky : BOOLEAN]
  /\ "idle" \in Words
<1>1. "idle" \in Words
  BY DEF Words
<1>2. <<>> \in Seq(Commands)
  BY EmptySeq
<1> QED BY <1>1, <1>2 DEF None, Silent, Down

(* The start it did not deliver stays with the platform; the restart of a  *)
(* sticky service is one more, and one death less.                         *)
LEMMA CrashStep == ASSUME IInv, Crash PROVE IInv'
<1>1. FramesOK(frames) /\ TypesOK /\ BudgetOK(listener, intents, frames, left, crashes)
  BY DEF IInv
<1>2. /\ frames' = [t \in Threads |-> Idle] /\ ownerLock' = Free /\ client' = None
      /\ generation' = 0 /\ errorGen' = 0 /\ activeConfig' = None /\ activeGen' = 0
      /\ queue' = [c \in Clients |-> <<>>] /\ live' = {} /\ publishing' = Silent
      /\ status' = "idle" /\ service' = Down
      /\ crashes < MaxCrashes /\ crashes' = crashes + 1
      /\ UNCHANGED <<relayOn, component, saved, listener, left, born, orphans>>
  BY DEF Crash, storage
<1>3. /\ FramesOK(frames') /\ LockOK(frames', ownerLock')
      /\ ListensOK' /\ BeginOK' /\ StopsOK' /\ OffOK' /\ OneOwner'
  <2>1. NewProcess'
    BY <1>2 DEF NewProcess
  <2>2. (NewProcess => NothingHeld)'
    BY FreshProcess, PTL
  <2> QED BY <2>1, <2>2 DEF NothingHeld
<1>4. intents \in Seq(Intents) /\ Due(intents) \in Nat
  BY <1>1, DueIs DEF TypesOK
<1>5. intents' \in Seq(Intents) /\ Due(intents') \in Nat /\ Due(intents') <= Due(intents) + 1
  <2> DEFINE m == [kind |-> "restart", gen |-> 0]
  <2>1. m \in Intents /\ m.kind # "stop"
    BY DEF Intents, Kinds
  <2> HIDE DEF m
  <2>2. <<m>> \o intents \in Seq(Intents) /\ Due(<<m>> \o intents) = Due(intents) + 1
    BY <1>4, <2>1, DueFirst
  <2>3. intents' = <<>> \/ intents' = <<m>> \o intents \/ intents' = intents
    BY DEF Crash, m
  <2>4. CASE intents' = <<>>
    BY <1>4, <2>4, DueEmpty
  <2>5. CASE intents' = <<m>> \o intents
    BY <1>4, <2>2, <2>5
  <2>6. CASE intents' = intents
    BY <1>4, <2>6
  <2> QED BY <2>3, <2>4, <2>5, <2>6
<1>6. TypesOK'
  <2>1. crashes' \in 0 .. MaxCrashes
    BY <1>1, <1>2, OwnershipAssumption DEF TypesOK
  <2> QED BY <1>1, <1>2, <1>5, <2>1, FreshTypes DEF TypesOK
<1>7. BudgetOK(listener', intents', frames', left', crashes')
  <2> DEFINE u == Used(listener)  d == Due(intents)  e == Due(intents')  k == MaxClients
             a == Coming(frames["nm"])  b == Coming(frames["main"])
             l == left["startService"]  m == left["startInProcess"]
  <2>1. /\ u \in Nat /\ d \in Nat /\ e \in Nat /\ k \in Nat /\ e <= d + 1
        /\ a \in Nat /\ b \in Nat /\ l \in Nat /\ m \in Nat
    BY <1>1, <1>4, <1>5, OwnershipAssumption, UsedIs DEF TypesOK, Coming, HostOps
  <2>2. u + d + a + b + l + m + (MaxCrashes - crashes) <= k
    BY <1>1 DEF BudgetOK
  <2>3. Coming(frames'["nm"]) = 0 /\ Coming(frames'["main"]) = 0
    BY <1>2, IdleIs DEF Threads
  <2>4. MaxCrashes \in Nat /\ crashes \in Nat
    BY <1>1, OwnershipAssumption DEF TypesOK
  <2> HIDE DEF u, d, e, k, a, b, l, m
  <2>5. u + e + 0 + 0 + l + m + (MaxCrashes - (crashes + 1)) <= k
    BY <2>1, <2>2, <2>4
  <2> QED BY <1>2, <2>3, <2>5 DEF BudgetOK, u, e, k, l, m
<1> QED BY <1>3, <1>6, <1>7 DEF IInv

LEMMA Initially == ASSUME Init PROVE IInv
<1>1. /\ FramesOK(frames) /\ LockOK(frames, ownerLock)
      /\ ListensOK /\ BeginOK /\ StopsOK /\ OffOK /\ OneOwner
  BY FreshProcess DEF Init, NewProcess, NothingHeld
<1>2. TypesOK
  <2>1. left \in [HostOps -> Nat] /\ crashes \in 0 .. MaxCrashes
    BY OwnershipAssumption DEF Init
  <2> QED BY <2>1, FreshTypes, DueEmpty DEF Init, TypesOK
<1>3. Used(listener) = 0 /\ Due(intents) = 0
  <2>1. {c \in Clients : listener[c] # 0} = {}
    BY DEF Init
  <2>2. Used(listener) = 0
    BY <2>1, FS_EmptySet DEF Used
  <2> QED BY <2>2, DueEmpty DEF Init
<1>4. BudgetOK(listener, intents, frames, left, crashes)
  <2>1. Coming(frames["nm"]) = 0 /\ Coming(frames["main"]) = 0
    BY IdleIs DEF Init, Threads
  <2> DEFINE l == left["startService"]  m == left["startInProcess"]  k == MaxClients
  <2>2. l + m + MaxCrashes <= k /\ l \in Nat /\ m \in Nat /\ k \in Nat /\ MaxCrashes \in Nat
    BY <1>2, OwnershipAssumption DEF Init, TypesOK, HostOps
  <2> HIDE DEF l, m, k
  <2>3. 0 + 0 + 0 + 0 + l + m + (MaxCrashes - 0) <= k
    BY <2>2
  <2> QED BY <1>3, <2>1, <2>3 DEF BudgetOK, Init, l, m, k
<1> QED BY <1>1, <1>2, <1>4 DEF IInv

LEMMA Stuttering == ASSUME IInv, UNCHANGED vars PROVE IInv'
<1>1. UNCHANGED <<relayOn, component, saved, frames, ownerLock, client, activeConfig, activeGen,
                  generation, listener, queue, live, publishing, status, service, intents, left,
                  crashes, born, errorGen, orphans>>
  BY DEF vars, storage, control, world, platform, bounds, hist
<1>2. TypesOK' /\ FramesOK(frames') /\ LockOK(frames', ownerLock')
      /\ BudgetOK(listener', intents', frames', left', crashes')
  BY <1>1 DEF IInv, TypesOK
<1>3. ListensOK' /\ BeginOK' /\ StopsOK' /\ OffOK' /\ OneOwner'
  BY <1>1 DEF IInv, ListensOK, BeginOK, StopsOK, OffOK, OneOwner, Active, Runs, At, Op, TurningOff
<1> QED BY <1>2, <1>3 DEF IInv

LEMMA NextStep == ASSUME IInv, Next PROVE IInv'
<1>1. CASE \E op \in HostOps : Ask(op)
  BY <1>1, AskStep
<1>2. CASE Controller
  BY <1>2, StartEntryStep, StartMarkStep, StartClaimStep, StartServiceStep, StopEntryStep,
     SendStopStep, RelayOffStep, OffRunningStep, OffLockStep, OffUnlockStep, OffStopStep,
     OffClearStep, OffDisableStep, RelayOnStep DEF Controller
<1>3. CASE Service
  BY <1>3, OnStartCommandStep, PromotionRefusedStep, DecideStep, StaleCheckStep, ForgetStep,
     ClearConfigStep, StopSelfStep, OnTimeoutStep, PlatformStopsStep DEF Service
<1>4. CASE \E t \in Threads : \/ StopClient(t) \/ DropClient(t) \/ Begin(t)
                              \/ Install(t) \/ StartClient(t) \/ PublishServiceError(t)
  BY <1>4, StopClientStep, DropClientStep, BeginStep, InstallStep, StartClientStep, PublishStep
<1>5. CASE \E c \in Clients : RunClient(c) \/ Connected(c)
  BY <1>5, RunClientStep, ConnectedStep
<1>6. CASE WriteState
  BY <1>6, WriteStateStep
<1>7. CASE Crash
  BY <1>7, CrashStep
<1> QED BY <1>1, <1>2, <1>3, <1>4, <1>5, <1>6, <1>7 DEF Next

(* The invariant, in every reachable state.                                *)
THEOREM Inductive == Spec => []IInv
<1>1. Init => IInv
  BY Initially
<1>2. IInv /\ [Next]_vars => IInv'
  BY NextStep, Stuttering
<1> QED BY <1>1, <1>2, PTL DEF Spec

-----------------------------------------------------------------------------
(* A client that runs is the controller's, so that the next stop reaches   *)
(* it, or one of the orphans: SinchPushSocketController.begin and          *)
(* stopClient, from two threads, in any order.                             *)
THEOREM OwnerCorrect == Spec => []OneOwner
<1>1. IInv => OneOwner
  BY DEF IInv
<1> QED BY <1>1, Inductive, PTL

(* Once setRelayEnabled(false) has returned and while the relay is off,    *)
(* only an orphan can still run.                                           *)
OnlyOrphansRun == ~relayOn /\ At("nm", "idle") => \A c \in Clients : Runs(c) => c \in orphans

(* Off is off, but for the clients that a stop() without the ownerLock     *)
(* dropped: the switch, a refusal, a timeout and a sticky restart leave    *)
(* none behind (setRelayEnabled, begin, the second reading of the switch). *)
THEOREM OffCorrect == Spec => [](OnlyOrphansRun /\ (orphans = {} => RelayOffHolds))
<1>1. IInv => OnlyOrphansRun
  <2> SUFFICES ASSUME IInv, ~relayOn, At("nm", "idle"), NEW c \in Clients, Runs(c)
               PROVE  c \in orphans
    BY DEF OnlyOrphansRun
  <2>1. OffOK /\ OneOwner /\ None \notin Clients
    BY DEF IInv, None, Clients
  <2>2. client = None
    BY <2>1 DEF OffOK, TurningOff, At
  <2> QED BY <2>1, <2>2 DEF OneOwner
<1>2. OnlyOrphansRun => (orphans = {} => RelayOffHolds)
  BY DEF OnlyOrphansRun, RelayOffHolds
<1> QED BY <1>1, <1>2, Inductive, PTL

(* A published error stays until a start claims the socket or a client     *)
(* that is newer than the error publishes: publishServiceError mutes every *)
(* listener there is, also the one that had passed its check.              *)
THEOREM ErrorCorrect == Spec => ErrorSticks
<1> DEFINE Stays == status = "error" /\ status' # "error" /\ crashes' = crashes
                      => At("nm", "claim") \/ listener[publishing.who] > errorGen
<1>1. IInv /\ [Next]_vars => [Stays]_vars
  <2> SUFFICES ASSUME IInv, Next, status = "error", status' # "error", crashes' = crashes
               PROVE  At("nm", "claim") \/ listener[publishing.who] > errorGen
    BY DEF vars
  <2>1. CASE \E op \in HostOps : Ask(op)
    BY <2>1 DEF Ask
  <2>2. CASE Controller
    <3>1. StartClaim
      BY <2>2 DEF Controller, StartEntry, StartMark, StartService, StopEntry, SendStop, RelayOff,
           OffRunning, OffLock, OffUnlock, OffStop, OffClear, OffDisable, RelayOn
    <3> QED BY <3>1 DEF StartClaim
  <2>3. CASE Service
    BY <2>3 DEF Service, OnStartCommand, PromotionRefused, Decide, StaleCheck, Forget, ClearConfig,
         StopSelf, OnTimeout, PlatformStops
  <2>4. CASE \E t \in Threads : \/ StopClient(t) \/ DropClient(t) \/ Begin(t)
                                \/ Install(t) \/ StartClient(t) \/ PublishServiceError(t)
    BY <2>4 DEF StopClient, DropClient, Begin, Install, StartClient, PublishServiceError
  <2>5. CASE \E c \in Clients : RunClient(c) \/ Connected(c)
    BY <2>5 DEF RunClient, Connected
  <2>6. CASE WriteState
    BY <2>6 DEF WriteState, IInv, ListensOK
  <2>7. CASE Crash
    <3>1. crashes \in Nat /\ crashes' = crashes + 1
      BY <2>7, OwnershipAssumption DEF Crash, IInv, TypesOK
    <3> QED BY <3>1
  <2> QED BY <2>1, <2>2, <2>3, <2>4, <2>5, <2>6, <2>7 DEF Next
<1> QED BY <1>1, Inductive, PTL DEF Spec, ErrorSticks

=============================================================================
