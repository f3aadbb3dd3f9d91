------------------------ MODULE SubscriptionsProofs ------------------------
(***************************************************************************)
(* Proofs about the identity calls and the push-socket facade, for any      *)
(* users, tokens, scenarios and number of faults: off is off, what JS holds *)
(* is what native runs, a socket follows the stored JWT, a Subscribe        *)
(* carries it, and the push API has what the fingerprint says, what the     *)
(* device is, and nobody once the user has left.                           *)
(***************************************************************************)
EXTENDS Subscriptions, SequenceTheorems, TLAPS

-----------------------------------------------------------------------------
(* The inductive invariant.                                                *)
TurnPlaces == {"waiting", "credentials", "stopping", "starting", "restart", "halting"}

Turns == [at : TurnPlaces, cred : Int]

OpPlaces == {"idle", "token", "info", "subscribing", "unsubscribing", "deleting",
             "clearing", "switched", "stopping", "stopped", "rechecking"}

Places == [at : OpPlaces, token : Tokens \cup {NoToken}, info : Infos, cred : Int]

TypesOK ==
  /\ sockets \in Seq(SocketOps) /\ queue \in Seq(Ops)
  /\ turn \in Turns
  /\ op \in Places
  /\ jwt \in Nat /\ relay \in BOOLEAN /\ persisted \in BOOLEAN
  /\ minted \in Seq(Users)
  /\ provided \in BOOLEAN /\ captured \in BOOLEAN /\ fcm \in 1 .. MaxTokens

(* The place of a call is one that its kind has. *)
TurnOK ==
  /\ turn.at \in {"credentials", "stopping", "starting"} => Current(StartOps \cup {"refresh"})
  /\ turn.at \in {"restart", "halting"} => Current({"refresh"})

OpOK ==
  /\ queue = <<>> => op.at = "idle"
  /\ op.at = "token" => Calling({"setIdentity"})
  /\ op.at \in {"unsubscribing", "deleting", "clearing"} => Calling({"removeIdentity"})

(* The switch has turned the socket off and JS has not heard of it yet. *)
StopPending == op.at = "stopping" \/ "stopJs" \in Range(sockets)

SwitchOK ==
  /\ ~relay => native = NoJwt
  /\ StopPending => ~relay
  /\ "stopJs" \in Range(sockets) => op.at = "stopped"

Idle == requested = "none" /\ active = NoJwt /\ ~polling

(* What JS holds, by the place of the call on turn. *)
ConfigOK ==
  /\ turn.at \in {"stopping", "halting"} => Idle
  /\ turn.at = "starting" =>
       /\ requested = "none" /\ ~polling /\ active = turn.cred
       /\ native # NoJwt => "unstopped" \in astray
  /\ turn.at \in {"stopping", "starting"} => turn.cred # NoJwt
  /\ turn.at \in {"waiting", "credentials", "restart"} =>
       /\ polling <=> active # NoJwt
       /\ requested = (IF active = NoJwt THEN "none"
                       ELSE IF active = PinnedJwt THEN "pinned" ELSE "stored")
       /\ native = active \/ StopPending \/ astray \cap {"unstopped", "unsaved", "revived"} # {}
       /\ ~relay => StopPending \/ Idle \/ "unsaved" \in astray

(* An identity call has changed the JWT, and will ask for a refresh or say *)
(* that it has not.                                                        *)
Changing == \/ Calling({"setIdentity"}) /\ op.at \in {"token", "info", "subscribing"}
            \/ op.at = "clearing"

RefreshQueued == sockets # <<>> /\ "refresh" \in Range(Tail(sockets))

FollowOK ==
  /\ \/ native \in {NoJwt, PinnedJwt, jwt}
     \/ astray # {}
     \/ turn.at \in {"stopping", "halting"}
     \/ Changing \/ RefreshQueued
     \/ Current({"refresh"}) /\ turn.at \in {"waiting", "restart", "credentials"}
  /\ turn.at \in {"stopping", "starting"} =>
       \/ turn.cred \in {jwt, PinnedJwt}
       \/ "unrefreshed" \in astray
       \/ Changing \/ RefreshQueued \/ StopPending

CredOK == op.at \in {"info", "subscribing"} => op.cred = jwt

SInv == TypesOK /\ TurnOK /\ OpOK /\ SwitchOK /\ ConfigOK /\ FollowOK /\ CredOK

-----------------------------------------------------------------------------
(* A sequence that gains a last element, or loses its first.               *)

LEMMA AppendedOK ==
  ASSUME NEW S, NEW s \in Seq(S), NEW x \in S, NEW t, t = Append(s, x)
  PROVE  /\ t \in Seq(S) /\ t # <<>>
         /\ s = <<>> => Head(t) = x
         /\ s # <<>> => Head(t) = Head(s)
<1>1. /\ t \in Seq(S) /\ Len(t) = Len(s) + 1 /\ Len(s) \in Nat
      /\ \A i \in 1 .. Len(s) : t[i] = s[i]
      /\ t[Len(s) + 1] = x
  BY AppendProperties, LenProperties
<1>2. t # <<>>
  BY <1>1, EmptySeq
<1>3. s = <<>> => Head(t) = x
  BY <1>1, EmptySeq
<1>4. s # <<>> => Head(t) = Head(s)
  BY <1>1, EmptySeq
<1> QED
  BY <1>1, <1>2, <1>3, <1>4

LEMMA AppendedRange ==
  ASSUME NEW S, NEW s \in Seq(S), NEW x \in S
  PROVE  \A y : y \in Range(Append(s, x)) <=> (y \in Range(s) \/ y = x)
<1> DEFINE t == Append(s, x)
<1>1. /\ t \in Seq(S) /\ Len(t) = Len(s) + 1 /\ Len(s) \in Nat
      /\ \A i \in 1 .. Len(s) : t[i] = s[i]
      /\ t[Len(s) + 1] = x
  BY AppendProperties, LenProperties
<1> HIDE DEF t
<1>2. DOMAIN t = 1 .. Len(s) + 1 /\ DOMAIN s = 1 .. Len(s)
  BY <1>1, LenProperties
<1>3. \A y : y \in Range(t) <=> (y \in Range(s) \/ y = x)
  BY <1>1, <1>2 DEF Range
<1> QED
  BY <1>3 DEF t

LEMMA AppendedRest ==
  ASSUME NEW S, NEW s \in Seq(S), NEW x \in S, s # <<>>
  PROVE  \A y : y \in Range(Tail(Append(s, x))) <=> (y \in Range(Tail(s)) \/ y = x)
<1> DEFINE t == Append(s, x)
<1>1. /\ t \in Seq(S) /\ Len(t) = Len(s) + 1 /\ Len(s) \in Nat \ {0}
      /\ \A i \in 1 .. Len(s) : t[i] = s[i]
      /\ t[Len(s) + 1] = x
  BY AppendProperties, LenProperties, EmptySeq
<1> HIDE DEF t
<1>2. /\ Tail(t) \in Seq(S) /\ Len(Tail(t)) = Len(s)
      /\ \A i \in 1 .. Len(s) : Tail(t)[i] = t[i + 1]
      /\ Tail(s) \in Seq(S) /\ Len(Tail(s)) = Len(s) - 1
      /\ \A i \in 1 .. Len(s) - 1 : Tail(s)[i] = s[i + 1]
  BY <1>1, HeadTailProperties, EmptySeq
<1>3. DOMAIN Tail(t) = 1 .. Len(s) /\ DOMAIN Tail(s) = 1 .. Len(s) - 1
  BY <1>2, LenProperties
<1>4. /\ \A i \in 1 .. Len(s) - 1 : Tail(t)[i] = Tail(s)[i]
      /\ Tail(t)[Len(s)] = x
  BY <1>1, <1>2
<1>5. /\ \A i \in 1 .. Len(s) : i = Len(s) \/ i \in 1 .. Len(s) - 1
      /\ Len(s) \in 1 .. Len(s)
      /\ \A i \in 1 .. Len(s) - 1 : i \in 1 .. Len(s)
  BY <1>1
<1>6. \A y : y \in Range(Tail(t)) <=> (y \in Range(Tail(s)) \/ y = x)
  BY <1>3, <1>4, <1>5, Zenon DEF Range
<1> QED
  BY <1>6 DEF t

LEMMA TakenOK ==
  ASSUME NEW S, NEW s \in Seq(S), s # <<>>
  PROVE  /\ Head(s) \in S /\ Tail(s) \in Seq(S)
         /\ Range(s) = {Head(s)} \cup Range(Tail(s))
<1>1. /\ Head(s) \in S /\ Tail(s) \in Seq(S)
      /\ Len(Tail(s)) = Len(s) - 1
      /\ \A i \in 1 .. Len(Tail(s)) : Tail(s)[i] = s[i + 1]
      /\ Len(s) \in Nat \ {0}
  BY HeadTailProperties, EmptySeq
<1>2. DOMAIN s = 1 .. Len(s) /\ DOMAIN Tail(s) = 1 .. Len(s) - 1
  BY <1>1, LenProperties
<1>3. Head(s) = s[1]
  BY <1>1
<1>4. \A i \in 1 .. Len(s) - 1 : Tail(s)[i] = s[i + 1]
  BY <1>1
<1>5. \A i \in 1 .. Len(s) : i = 1 \/ (i - 1 \in 1 .. Len(s) - 1 /\ Tail(s)[i - 1] = s[i])
  BY <1>1, <1>4
<1>6. 1 \in 1 .. Len(s) /\ \A i \in 1 .. Len(s) - 1 : i + 1 \in 1 .. Len(s)
  BY <1>1
<1>7. Range(s) \subseteq {Head(s)} \cup Range(Tail(s))
  BY <1>2, <1>3, <1>5 DEF Range
<1>8. {Head(s)} \cup Range(Tail(s)) \subseteq Range(s)
  BY <1>2, <1>3, <1>4, <1>6 DEF Range
<1> QED
  BY <1>1, <1>7, <1>8

(* What two queues that grow have in common. *)
LEMMA JoinedOK ==
  ASSUME NEW S, NEW s \in Seq(S), NEW r \in Seq(S), NEW t, t = s \o r
  PROVE  t \in Seq(S) /\ (s # <<>> => t # <<>> /\ Head(t) = Head(s))
<1>1. /\ t \in Seq(S) /\ Len(t) = Len(s) + Len(r)
      /\ Len(s) \in Nat /\ Len(r) \in Nat
      /\ \A i \in 1 .. Len(s) + Len(r) : t[i] = IF i <= Len(s) THEN s[i] ELSE r[i - Len(s)]
  BY ConcatProperties, LenProperties
<1>2. ASSUME s # <<>> PROVE t # <<>> /\ Head(t) = Head(s)
  <2>1. Len(s) \in Nat \ {0}
    BY <1>2, EmptySeq
  <2>2. Len(t) # 0
    BY <1>1, <2>1
  <2>3. t[1] = s[1]
    BY <1>1, <2>1
  <2> QED
    BY <1>1, <2>1, <2>2, <2>3, EmptySeq
<1> QED
  BY <1>1, <1>2

-----------------------------------------------------------------------------
(* The facade.                                                             *)

Frame == UNCHANGED <<queue, op, minted, deviceVars, jwt, relay, persisted>>

LEMMA FrameOK ==
  ASSUME SInv, Frame, sockets' \in Seq(SocketOps), turn' \in Turns
  PROVE  TypesOK' /\ OpOK' /\ CredOK' /\ Changing' = Changing
BY DEF SInv, Frame, deviceVars, TypesOK, OpOK, CredOK, Changing, Calling

LEMMA GoOK ==
  ASSUME TypesOK, NEW place \in TurnPlaces, Go(place)
  PROVE  /\ turn' \in Turns /\ turn'.at = place /\ turn'.cred = turn.cred
         /\ sockets' = sockets
BY DEF TypesOK, Turns, Go

(* The call on turn has settled; the next one waits for its turn. *)
LEMMA SettleOK ==
  ASSUME TypesOK, sockets # <<>>, Settle
  PROVE  /\ sockets' \in Seq(SocketOps) /\ turn' \in Turns /\ turn'.at = "waiting"
         /\ "stopJs" \in Range(sockets') => "stopJs" \in Range(sockets)
         /\ "stopJs" \in Range(sockets) =>
              Head(sockets) = "stopJs" \/ "stopJs" \in Range(sockets')
         /\ RefreshQueued => RefreshQueued' \/ Current({"refresh"})'
<1> DEFINE behind == Tail(sockets)
<1>1. sockets' = behind /\ turn' = Waiting
  BY DEF Settle
<1>2. behind \in Seq(SocketOps) /\ Range(sockets) = {Head(sockets)} \cup Range(behind)
  BY TakenOK DEF TypesOK
<1>3. turn' \in Turns /\ turn'.at = "waiting"
  BY <1>1 DEF Waiting, Turns, TurnPlaces, NoJwt
<1>4. ASSUME RefreshQueued PROVE RefreshQueued' \/ Current({"refresh"})'
  <2>1. "refresh" \in Range(behind)
    BY <1>4 DEF RefreshQueued
  <2>2. behind # <<>>
    <3>1. DOMAIN <<>> = {}
      OBVIOUS
    <3> QED
      BY <2>1, <3>1 DEF Range
  <2> HIDE DEF behind
  <2>3. "refresh" = Head(behind) \/ "refresh" \in Range(Tail(behind))
    BY <1>2, <2>1, <2>2, TakenOK
  <2> QED
    BY <1>1, <2>2, <2>3 DEF RefreshQueued, Current
<1> QED
  BY <1>1, <1>2, <1>3, <1>4

(* Places and calls go together. *)
LEMMA PlaceOK ==
  ASSUME TypesOK, TurnOK
  PROVE  /\ sockets = <<>> => turn.at = "waiting"
         /\ Current({"stop", "stopJs"}) => turn.at = "waiting"
         /\ turn.at # "waiting" => sockets # <<>> /\ Head(sockets) \notin {"stop", "stopJs"}
BY DEF TypesOK, TurnOK, Turns, TurnPlaces, Current, StartOps

LEMMA RefusedOK ==
  ASSUME SInv, Frame, turn.at = "credentials", Refused, UNCHANGED native
  PROVE  SInv'
<1>1. sockets # <<>> /\ Head(sockets) # "stopJs"
  BY PlaceOK DEF SInv
<1>2. /\ sockets' \in Seq(SocketOps) /\ turn' \in Turns /\ turn'.at = "waiting"
      /\ "stopJs" \in Range(sockets') <=> "stopJs" \in Range(sockets)
      /\ RefreshQueued => RefreshQueued' \/ Current({"refresh"})'
  BY <1>1, SettleOK DEF SInv, Refused
<1>3. TypesOK' /\ OpOK' /\ CredOK' /\ Changing' = Changing
  BY <1>2, FrameOK
<1>4. StopPending' = StopPending /\ SwitchOK'
  BY <1>2 DEF SInv, SwitchOK, StopPending, Frame
<1>5. TurnOK'
  BY <1>2 DEF TurnOK
<1>6. ConfigOK'
  BY <1>2, <1>4 DEF SInv, ConfigOK, Refused, Frame, Idle
<1>7. FollowOK'
  BY <1>2, <1>3, <1>4 DEF SInv, FollowOK, Refused, Frame
<1> QED
  BY <1>3, <1>4, <1>5, <1>6, <1>7 DEF SInv

LEMMA SwitchReadOK == ASSUME SInv, Frame, SwitchRead PROVE SInv'
<1>1. turn.at \in {"waiting", "restart"} /\ UNCHANGED <<native, astray>>
      /\ Current(StartOps \cup {"refresh"})
  BY DEF SwitchRead, SInv, TurnOK, Current
<1>2. CASE Go("credentials") /\ UNCHANGED <<requested, active, polling>>
  <2>1. turn' \in Turns /\ turn'.at = "credentials" /\ sockets' = sockets
    BY <1>2, GoOK DEF SInv, TurnPlaces
  <2>2. TypesOK' /\ OpOK' /\ CredOK' /\ Changing' = Changing
    BY <2>1, FrameOK DEF SInv, TypesOK
  <2>3. StopPending' = StopPending /\ SwitchOK'
    BY <1>1, <2>1 DEF SInv, SwitchOK, StopPending, Frame
  <2>4. TurnOK'
    BY <1>1, <2>1 DEF TurnOK, Current
  <2>5. ConfigOK'
    BY <1>1, <1>2, <2>1, <2>3 DEF SInv, ConfigOK, Frame, Idle
  <2>6. RefreshQueued' = RefreshQueued /\ Current({"refresh"})' = Current({"refresh"})
    BY <2>1 DEF RefreshQueued, Current
  <2>7. FollowOK'
    BY <1>1, <2>1, <2>2, <2>3, <2>6 DEF SInv, FollowOK, Frame
  <2> QED
    BY <2>2, <2>3, <2>4, <2>5, <2>7 DEF SInv
<1>3. CASE ~relay /\ Settle /\ Forget
  <2>1. sockets # <<>> /\ Head(sockets) # "stopJs"
    BY <1>1 DEF Current, StartOps
  <2>2. /\ sockets' \in Seq(SocketOps) /\ turn' \in Turns /\ turn'.at = "waiting"
        /\ "stopJs" \in Range(sockets') <=> "stopJs" \in Range(sockets)
    BY <1>3, <2>1, SettleOK DEF SInv
  <2>3. TypesOK' /\ OpOK' /\ CredOK' /\ Changing' = Changing
    BY <2>2, FrameOK
  <2>4. StopPending' = StopPending /\ SwitchOK'
    BY <1>1, <2>2 DEF SInv, SwitchOK, StopPending, Frame
  <2>5. TurnOK'
    BY <2>2 DEF TurnOK
  <2>6. native = NoJwt /\ Idle'
    BY <1>3 DEF SInv, SwitchOK, Forget, Idle
  <2>7. ConfigOK'
    BY <1>1, <2>2, <2>6 DEF ConfigOK, Idle
  <2>8. FollowOK'
    BY <1>1, <2>2, <2>6 DEF FollowOK
  <2> QED
    BY <2>3, <2>4, <2>5, <2>7, <2>8 DEF SInv
<1> QED
  BY <1>2, <1>3 DEF SwitchRead

LEMMA ResolveCredentialsOK == ASSUME SInv, Frame, ResolveCredentials PROVE SInv'
<1>1. PICK token \in {jwt, PinnedJwt, NoJwt} :
        /\ IF Current({"startPinned"}) THEN token = PinnedJwt /\ NoFault
                                       ELSE Reads(token)
        /\ \/ token # NoJwt
              /\ turn' = [at |-> "stopping", cred |-> token]
              /\ Forget /\ UNCHANGED sockets
              /\ UNCHANGED astray
           \/ token = NoJwt /\ Refused
  BY DEF ResolveCredentials
<1>2. turn.at = "credentials" /\ UNCHANGED native
  BY DEF ResolveCredentials
<1>3. CASE token = NoJwt /\ Refused
  BY <1>2, <1>3, RefusedOK
<1>4. CASE token # NoJwt /\ turn' = [at |-> "stopping", cred |-> token]
           /\ Forget /\ UNCHANGED <<sockets, astray>>
  <2>1. token \in {jwt, PinnedJwt}
    BY <1>1, <1>4 DEF Reads, NoJwt
  <2>2. turn' \in Turns /\ turn'.at = "stopping" /\ turn'.cred = token
    BY <1>4, <2>1 DEF Turns, TurnPlaces, SInv, TypesOK, PinnedJwt
  <2>3. TypesOK' /\ OpOK' /\ CredOK' /\ Changing' = Changing
    BY <1>4, <2>2, FrameOK DEF SInv, TypesOK
  <2>4. StopPending' = StopPending /\ SwitchOK'
    BY <1>2, <1>4 DEF SInv, SwitchOK, StopPending, Frame
  <2>5. TurnOK'
    BY <1>2, <1>4, <2>2 DEF SInv, TurnOK, Current
  <2>6. ConfigOK'
    BY <1>4, <2>2 DEF ConfigOK, Forget, Idle
  <2>7. FollowOK'
    BY <2>1, <2>2 DEF FollowOK, Frame
  <2> QED
    BY <2>3, <2>4, <2>5, <2>6, <2>7 DEF SInv
<1> QED
  BY <1>1, <1>3, <1>4

LEMMA ExpiredTokenOK == ASSUME SInv, Frame, ExpiredToken PROVE SInv'
BY RefusedOK DEF ExpiredToken

LEMMA StopBeforeStartOK == ASSUME SInv, Frame, StopBeforeStart PROVE SInv'
<1>1. /\ turn.at = "stopping" /\ NativeStops /\ active' = turn.cred
      /\ Go("starting") /\ UNCHANGED <<requested, polling>>
  BY DEF StopBeforeStart
<1>2. /\ turn' \in Turns /\ turn'.at = "starting" /\ turn'.cred = turn.cred
      /\ sockets' = sockets
  BY <1>1, GoOK DEF SInv, TurnPlaces
<1>3. TypesOK' /\ OpOK' /\ CredOK' /\ Changing' = Changing
  BY <1>2, FrameOK DEF SInv, TypesOK
<1>4. /\ native' = NoJwt \/ (native' = native /\ "unstopped" \in astray')
      /\ "unrefreshed" \in astray => "unrefreshed" \in astray'
  BY <1>1 DEF NativeStops
<1>5. StopPending' = StopPending /\ SwitchOK'
  BY <1>2, <1>4 DEF SInv, SwitchOK, StopPending, Frame
<1>6. TurnOK'
  BY <1>1, <1>2 DEF SInv, TurnOK, Current
<1>7. ConfigOK'
  BY <1>1, <1>2, <1>4 DEF SInv, ConfigOK, Idle
<1>8. RefreshQueued' = RefreshQueued
  BY <1>2 DEF RefreshQueued
<1>9. FollowOK'
  BY <1>1, <1>2, <1>3, <1>4, <1>5, <1>8 DEF SInv, FollowOK, Frame
<1> QED
  BY <1>3, <1>5, <1>6, <1>7, <1>9 DEF SInv

LEMMA NativeStartOK == ASSUME SInv, Frame, NativeStart PROVE SInv'
<1>1. turn.at = "starting" /\ Settle /\ Current(StartOps \cup {"refresh"})
  BY DEF NativeStart, SInv, TurnOK
<1>2. sockets # <<>> /\ Head(sockets) # "stopJs"
  BY <1>1 DEF Current, StartOps
<1>3. /\ sockets' \in Seq(SocketOps) /\ turn' \in Turns /\ turn'.at = "waiting"
      /\ "stopJs" \in Range(sockets') <=> "stopJs" \in Range(sockets)
      /\ RefreshQueued => RefreshQueued' \/ Current({"refresh"})'
  BY <1>1, <1>2, SettleOK DEF SInv
<1>4. TypesOK' /\ OpOK' /\ CredOK' /\ Changing' = Changing
  BY <1>3, FrameOK
<1>5. StopPending' = StopPending
  BY <1>3 DEF StopPending, Frame
<1>6. TurnOK'
  BY <1>3 DEF TurnOK
<1>7. CASE /\ relay /\ native' = turn.cred /\ Known /\ polling' = TRUE
           /\ requested' = (IF turn.cred = PinnedJwt THEN "pinned" ELSE "stored")
           /\ UNCHANGED active
  <2>1. ~StopPending
    BY <1>7 DEF SInv, SwitchOK
  <2>2. SwitchOK'
    BY <1>5, <1>7, <2>1 DEF SwitchOK, Frame, StopPending
  <2>3. active' = turn.cred /\ turn.cred # NoJwt
    BY <1>1, <1>7 DEF SInv, ConfigOK
  <2>4. ConfigOK'
    BY <1>3, <1>7, <2>3 DEF ConfigOK, Frame
  <2>5. turn.cred \in {jwt, PinnedJwt} \/ astray' # {} \/ Changing \/ RefreshQueued
    BY <1>1, <1>7, <2>1 DEF SInv, FollowOK, Known
  <2>6. FollowOK'
    BY <1>3, <1>4, <1>7, <2>5 DEF FollowOK, Frame
  <2> QED
    BY <1>4, <1>6, <2>2, <2>4, <2>6 DEF SInv
<1>8. CASE active' = NoJwt /\ UNCHANGED <<native, requested, polling, astray>>
  <2>1. SwitchOK'
    BY <1>3, <1>5, <1>8 DEF SInv, SwitchOK, Frame
  <2>2. requested = "none" /\ ~polling /\ (native # NoJwt => "unstopped" \in astray)
    BY <1>1 DEF SInv, ConfigOK
  <2>3. ConfigOK'
    BY <1>3, <1>8, <2>2 DEF ConfigOK, Idle
  <2>4. FollowOK'
    BY <1>3, <1>8, <2>2 DEF FollowOK
  <2> QED
    BY <1>4, <1>6, <2>1, <2>3, <2>4 DEF SInv
<1> QED
  BY <1>7, <1>8 DEF NativeStart

(* The three stops. *)
LEMMA StoppedOK ==
  ASSUME SInv, Frame, sockets # <<>>, Settle, Idle',
         \/ NativeStops /\ Head(sockets) # "stopJs"
         \/ native = NoJwt /\ UNCHANGED <<native, astray>>
  PROVE  SInv'
<1>1. /\ sockets' \in Seq(SocketOps) /\ turn' \in Turns /\ turn'.at = "waiting"
      /\ "stopJs" \in Range(sockets') => "stopJs" \in Range(sockets)
  BY SettleOK DEF SInv
<1>2. TypesOK' /\ OpOK' /\ CredOK' /\ Changing' = Changing
  BY <1>1, FrameOK
<1>3. native' = NoJwt \/ (native' = native /\ "unstopped" \in astray')
  BY DEF NativeStops
<1>4. SwitchOK'
  BY <1>1, <1>3 DEF SInv, SwitchOK, StopPending, Frame
<1>5. TurnOK'
  BY <1>1 DEF TurnOK
<1>6. ConfigOK'
  BY <1>1, <1>3 DEF ConfigOK, Idle
<1>7. FollowOK'
  BY <1>1, <1>3 DEF FollowOK
<1> QED
  BY <1>2, <1>4, <1>5, <1>6, <1>7 DEF SInv

LEMMA StopTurnOK == ASSUME SInv, Frame, StopTurn PROVE SInv'
<1>1. sockets # <<>> /\ Head(sockets) # "stopJs" /\ Settle /\ NativeStops /\ Idle'
  BY DEF StopTurn, Current, Forget, Idle
<1> QED
  BY <1>1, StoppedOK

LEMMA StopJsTurnOK == ASSUME SInv, Frame, StopJsTurn PROVE SInv'
<1>1. sockets # <<>> /\ Head(sockets) = "stopJs" /\ Settle /\ Idle'
      /\ UNCHANGED <<native, astray>>
  BY DEF StopJsTurn, Current, Forget, Idle
<1>2. "stopJs" \in Range(sockets)
  BY <1>1, TakenOK DEF SInv, TypesOK
<1>3. native = NoJwt
  BY <1>2 DEF SInv, SwitchOK, StopPending
<1> QED
  BY <1>1, <1>3, StoppedOK

LEMMA RefreshStopsOK == ASSUME SInv, Frame, RefreshStops PROVE SInv'
<1>1. turn.at = "halting" /\ Settle /\ NativeStops /\ UNCHANGED <<requested, active, polling>>
  BY DEF RefreshStops
<1>2. sockets # <<>> /\ Head(sockets) # "stopJs"
  BY <1>1, PlaceOK DEF SInv
<1>3. Idle'
  BY <1>1 DEF SInv, ConfigOK, Idle
<1> QED
  BY <1>1, <1>2, <1>3, StoppedOK

(* A refresh that leaves everything as it is had no need to change it. *)
LEMMA RefreshedOK ==
  ASSUME SInv, Frame, Current({"refresh"}), turn.at = "waiting", Settle,
         UNCHANGED <<native, requested, active, polling, astray>>,
         active \in {NoJwt, PinnedJwt, jwt}
  PROVE  SInv'
<1>1. sockets # <<>> /\ Head(sockets) # "stopJs"
  BY DEF Current
<1>2. /\ sockets' \in Seq(SocketOps) /\ turn' \in Turns /\ turn'.at = "waiting"
      /\ "stopJs" \in Range(sockets') <=> "stopJs" \in Range(sockets)
  BY <1>1, SettleOK DEF SInv
<1>3. TypesOK' /\ OpOK' /\ CredOK' /\ Changing' = Changing
  BY <1>2, FrameOK
<1>4. StopPending' = StopPending /\ SwitchOK'
  BY <1>2 DEF SInv, SwitchOK, StopPending, Frame
<1>5. TurnOK'
  BY <1>2 DEF TurnOK
<1>6. ConfigOK'
  BY <1>2, <1>4 DEF SInv, ConfigOK, Frame, Idle
<1>7. native \in {NoJwt, PinnedJwt, jwt} \/ astray # {}
  BY DEF SInv, ConfigOK, SwitchOK
<1>8. FollowOK'
  BY <1>2, <1>7 DEF FollowOK, Frame
<1> QED
  BY <1>3, <1>4, <1>5, <1>6, <1>8 DEF SInv

LEMMA RefreshIdleOK == ASSUME SInv, Frame, RefreshIdle PROVE SInv'
<1>1. turn.at = "waiting" /\ requested # "stored"
  BY DEF RefreshIdle
<1>2. active \in {NoJwt, PinnedJwt}
  BY <1>1 DEF SInv, ConfigOK
<1> QED
  BY <1>2, RefreshedOK DEF RefreshIdle

LEMMA RefreshTurnOK == ASSUME SInv, Frame, RefreshTurn PROVE SInv'
<1>1. /\ Current({"refresh"}) /\ turn.at = "waiting" /\ requested = "stored"
      /\ UNCHANGED <<native, astray>>
  BY DEF RefreshTurn
<1>2. PICK token \in {jwt, NoJwt} :
        /\ Reads(token)
        /\ \/ /\ token = NoJwt
              /\ Forget /\ turn' = [Waiting EXCEPT !.at = "halting"]
              /\ UNCHANGED sockets
           \/ /\ token = active /\ token # NoJwt
              /\ Settle /\ UNCHANGED <<requested, active, polling>>
           \/ /\ token \notin {NoJwt, active}
              /\ Go("restart") /\ UNCHANGED <<requested, active, polling>>
  BY DEF RefreshTurn
<1>3. CASE Settle /\ token = active /\ UNCHANGED <<requested, active, polling>>
  BY <1>1, <1>3, RefreshedOK
<1>4. CASE Forget /\ turn' = [Waiting EXCEPT !.at = "halting"] /\ UNCHANGED sockets
  <2>1. turn' \in Turns /\ turn'.at = "halting"
    BY <1>4 DEF Waiting, Turns, TurnPlaces, NoJwt
  <2>2. TypesOK' /\ OpOK' /\ CredOK' /\ Changing' = Changing
    BY <1>4, <2>1, FrameOK DEF SInv, TypesOK
  <2>3. SwitchOK'
    BY <1>1, <1>4 DEF SInv, SwitchOK, StopPending, Frame
  <2>4. TurnOK'
    BY <1>1, <1>4, <2>1 DEF TurnOK, Current
  <2>5. ConfigOK' /\ FollowOK'
    BY <1>4, <2>1 DEF ConfigOK, FollowOK, Forget, Idle
  <2> QED
    BY <2>2, <2>3, <2>4, <2>5 DEF SInv
<1>5. CASE Go("restart") /\ UNCHANGED <<requested, active, polling>>
  <2>1. turn' \in Turns /\ turn'.at = "restart" /\ sockets' = sockets
    BY <1>5, GoOK DEF SInv, TurnPlaces
  <2>2. TypesOK' /\ OpOK' /\ CredOK' /\ Changing' = Changing
    BY <2>1, FrameOK DEF SInv, TypesOK
  <2>3. StopPending' = StopPending /\ SwitchOK'
    BY <1>1, <2>1 DEF SInv, SwitchOK, StopPending, Frame
  <2>4. TurnOK' /\ Current({"refresh"})'
    BY <1>1, <2>1 DEF TurnOK, Current
  <2>5. ConfigOK'
    BY <1>1, <1>5, <2>1, <2>3 DEF SInv, ConfigOK, Frame, Idle
  <2>6. FollowOK'
    BY <2>1, <2>4 DEF FollowOK
  <2> QED
    BY <2>2, <2>3, <2>4, <2>5, <2>6 DEF SInv
<1> QED
  BY <1>2, <1>3, <1>4, <1>5

LEMMA SocketStepOK == ASSUME SInv, SocketStep PROVE SInv'
<1>1. Frame /\ FacadeStep
  <2>1. jwt' = jwt /\ relay' = relay
    BY DEF SocketStep, FacadeStep, SwitchRead, ResolveCredentials, ExpiredToken,
           StopBeforeStart, NativeStart, StopTurn, StopJsTurn, RefreshTurn, RefreshIdle,
           RefreshStops
  <2> QED
    BY <2>1 DEF SocketStep, Frame
<1> QED
  BY <1>1, SwitchReadOK, ResolveCredentialsOK, ExpiredTokenOK, StopBeforeStartOK,
     NativeStartOK, StopTurnOK, StopJsTurnOK, RefreshTurnOK, RefreshIdleOK, RefreshStopsOK
     DEF FacadeStep

-----------------------------------------------------------------------------
(* The queue of identity calls, checks and the switch.                     *)

(* A call joins those that wait for the socket. *)
LEMMA QueueSocketOK ==
  ASSUME SInv, turn' = turn, NEW call \in SocketOps, Queue(call)
  PROVE  /\ sockets' \in Seq(SocketOps) /\ TurnOK'
         /\ "stopJs" \in Range(sockets') <=> "stopJs" \in Range(sockets) \/ call = "stopJs"
         /\ RefreshQueued => RefreshQueued'
         /\ Current({"refresh"}) => Current({"refresh"})'
         /\ call = "refresh" =>
              RefreshQueued' \/ (Current({"refresh"})' /\ turn.at = "waiting")
<1>1. sockets \in Seq(SocketOps) /\ sockets' = Append(sockets, call)
  BY DEF SInv, TypesOK, Queue
<1>2. /\ sockets' \in Seq(SocketOps) /\ sockets' # <<>>
      /\ sockets = <<>> => Head(sockets') = call
      /\ sockets # <<>> => Head(sockets') = Head(sockets)
  BY <1>1, AppendedOK
<1>3. \A y : y \in Range(sockets') <=> (y \in Range(sockets) \/ y = call)
  BY <1>1, AppendedRange
<1>4. sockets # <<>> =>
        \A y : y \in Range(Tail(sockets')) <=> (y \in Range(Tail(sockets)) \/ y = call)
  BY <1>1, AppendedRest
<1>5. TurnOK'
  BY <1>2 DEF SInv, TurnOK, Current
<1>6. RefreshQueued => RefreshQueued'
  BY <1>2, <1>4 DEF RefreshQueued
<1>7. Current({"refresh"}) => Current({"refresh"})'
  BY <1>2 DEF Current
<1>8. sockets = <<>> => turn.at = "waiting"
  BY PlaceOK DEF SInv
<1>9. call = "refresh" => RefreshQueued' \/ (Current({"refresh"})' /\ turn.at = "waiting")
  BY <1>2, <1>4, <1>8 DEF RefreshQueued, Current
<1> QED
  BY <1>2, <1>3, <1>5, <1>6, <1>7, <1>9

(* What a call of the first queue leaves of the facade. *)
Beside == UNCHANGED <<requested, active, polling, turn, persisted, deviceVars>>

Settled == UNCHANGED <<minted, jwt, relay, native>>

LEMMA BesideOK ==
  ASSUME SInv, Beside, Settled, sockets' \in Seq(SocketOps), queue' \in Seq(Ops), op' \in Places
  PROVE  TypesOK'
BY DEF SInv, TypesOK, Beside, Settled, deviceVars

(* The call on turn has settled. *)
LEMMA EndOpOK ==
  ASSUME SInv, queue # <<>>, EndOp
  PROVE  /\ queue' \in Seq(Ops) /\ op' \in Places
         /\ op'.at = "idle" /\ OpOK' /\ CredOK' /\ ~Changing'
<1>1. op' = NoOp /\ queue' = Tail(queue)
  BY DEF EndOp
<1>2. queue' \in Seq(Ops)
  BY <1>1, TakenOK DEF SInv, TypesOK
<1>3. op' \in Places /\ op'.at = "idle"
  BY <1>1 DEF NoOp, Places, OpPlaces, Infos, NoJwt
<1> QED
  BY <1>2, <1>3 DEF OpOK, CredOK, Changing

LEMMA ResolvedOK ==
  ASSUME SInv, Beside, Settled, queue # <<>>, ~StopPending, Resolved
  PROVE  SInv'
<1>1. /\ queue' \in Seq(Ops) /\ op' \in Places
      /\ op'.at = "idle" /\ OpOK' /\ CredOK' /\ ~Changing'
  BY EndOpOK DEF Resolved
<1>2. /\ sockets' \in Seq(SocketOps) /\ TurnOK'
      /\ "stopJs" \notin Range(sockets')
      /\ RefreshQueued => RefreshQueued'
      /\ Current({"refresh"}) => Current({"refresh"})'
      /\ Changing => RefreshQueued' \/ (Current({"refresh"})' /\ turn.at = "waiting")
  <2>1. Changing => Calling(IdentityCalls)
    BY DEF SInv, OpOK, Changing, Calling, IdentityCalls
  <2>2. CASE Calling(IdentityCalls)
    <3>1. Queue("refresh") /\ "refresh" \in SocketOps /\ turn' = turn
      BY <2>2 DEF Resolved, SocketOps, Beside
    <3> QED
      BY <3>1, QueueSocketOK DEF StopPending
  <2>3. CASE ~Calling(IdentityCalls)
    <3>1. sockets' = sockets /\ turn' = turn
      BY <2>3 DEF Resolved, Beside
    <3> QED
      BY <2>1, <2>3, <3>1 DEF SInv, TypesOK, TurnOK, Current, RefreshQueued, StopPending
  <2> QED
    BY <2>2, <2>3
<1>3. TypesOK'
  BY <1>1, <1>2, BesideOK
<1>4. ~StopPending' /\ SwitchOK'
  BY <1>1, <1>2 DEF SInv, SwitchOK, StopPending, Settled
<1>5. astray' = astray
  BY DEF Resolved
<1>6. ConfigOK'
  BY <1>4, <1>5 DEF SInv, ConfigOK, Beside, Settled, Idle
<1>7. FollowOK'
  BY <1>2, <1>5 DEF SInv, FollowOK, Beside, Settled
<1> QED
  BY <1>1, <1>2, <1>3, <1>4, <1>6, <1>7 DEF SInv

LEMMA RejectedOK ==
  ASSUME SInv, Beside, Settled, queue # <<>>, ~StopPending,
         NEW changed \in BOOLEAN, Changing => changed, Rejected(changed)
  PROVE  SInv'
<1>1. /\ queue' \in Seq(Ops) /\ op' \in Places
      /\ op'.at = "idle" /\ OpOK' /\ CredOK' /\ ~Changing'
  BY EndOpOK DEF Rejected, EndFailed
<1>2. /\ sockets' = sockets /\ turn' = turn /\ astray \subseteq astray'
      /\ Changing => "unrefreshed" \in astray'
  BY DEF Rejected, Beside
<1>3. TypesOK'
  BY <1>1, <1>2, BesideOK DEF SInv, TypesOK
<1>4. ~StopPending' /\ SwitchOK'
  BY <1>1, <1>2 DEF SInv, SwitchOK, StopPending, Settled
<1>5. TurnOK' /\ RefreshQueued' = RefreshQueued /\ Current({"refresh"})' = Current({"refresh"})
  BY <1>2 DEF SInv, TurnOK, Current, RefreshQueued
<1>6. ConfigOK'
  BY <1>2, <1>4 DEF SInv, ConfigOK, Beside, Settled, Idle
<1>7. FollowOK'
  BY <1>2, <1>5 DEF SInv, FollowOK, Beside, Settled
<1> QED
  BY <1>1, <1>3, <1>4, <1>5, <1>6, <1>7 DEF SInv

(* It goes on to its next await. *)
LEMMA GoesOnOK ==
  ASSUME SInv, Beside, Settled, ~StopPending,
         UNCHANGED <<queue, sockets, astray>>, op' \in Places,
         op'.at # "stopping", Changing => Changing', OpOK', CredOK'
  PROVE  SInv'
<1>1. TypesOK'
  BY BesideOK DEF SInv, TypesOK
<1>2. ~StopPending' /\ SwitchOK'
  BY DEF SInv, SwitchOK, StopPending, Settled
<1>3. TurnOK' /\ RefreshQueued' = RefreshQueued /\ Current({"refresh"})' = Current({"refresh"})
  BY DEF SInv, TurnOK, Current, RefreshQueued, Beside
<1>4. ConfigOK'
  BY <1>2 DEF SInv, ConfigOK, Beside, Settled, Idle
<1>5. FollowOK'
  BY <1>3 DEF SInv, FollowOK, Beside, Settled
<1> QED
  BY <1>1, <1>2, <1>3, <1>4, <1>5 DEF SInv

LEMMA ReachOK ==
  ASSUME SInv, NEW place \in OpPlaces, Reach(place)
  PROVE  /\ op' \in Places /\ op'.at = place /\ queue' = queue
         /\ op'.token = op.token /\ op'.cred = op.cred
BY DEF SInv, TypesOK, Places, Reach

LEMMA ReadsOK ==
  ASSUME SInv, NEW place \in OpPlaces, NEW token \in Tokens \cup {NoToken},
         op' = [op EXCEPT !.at = place, !.token = token, !.cred = jwt]
  PROVE  op' \in Places /\ op'.at = place /\ op'.cred = jwt /\ op'.token = token
<1> DEFINE T == Tokens \cup {NoToken}
<1>1. op \in [at : OpPlaces, token : T, info : Infos, cred : Int] /\ jwt \in Int /\ token \in T
  BY DEF SInv, TypesOK, Places
<1> HIDE DEF T
<1>2. op' \in [at : OpPlaces, token : T, info : Infos, cred : Int]
      /\ op'.at = place /\ op'.cred = jwt /\ op'.token = token
  BY <1>1
<1> QED
  BY <1>2 DEF T, Places

(* Only the switch waits for a stop. *)
LEMMA NotStoppingOK ==
  ASSUME SInv, op.at \notin {"stopping", "stopped"}
  PROVE  ~StopPending
BY DEF SInv, SwitchOK, StopPending

LEMMA BusyOK == ASSUME SInv, op.at # "idle" PROVE queue # <<>>
BY DEF SInv, OpOK

LEMMA DeviceTokenOK == ASSUME SInv PROVE DeviceToken \in Tokens \cup {NoToken}
BY DEF SInv, TypesOK, DeviceToken, Tokens

LEMMA CheckOK == ASSUME SInv, Check PROVE SInv'
<1>1. Beside /\ Settled
  BY DEF Check, rest, identity, socket, Beside, Settled
<1>2. op.at \in {"idle", "rechecking"} /\ queue # <<>> /\ ~StopPending
  BY BusyOK, NotStoppingOK DEF Check, OnTurn, Calling
<1>3. ~Changing
  BY <1>2 DEF Changing
<1>4. CASE Resolved
  BY <1>1, <1>2, <1>4, ResolvedOK
<1>5. CASE Rejected(FALSE)
  BY <1>1, <1>2, <1>3, <1>5, RejectedOK
<1>6. ASSUME NEW token \in Tokens \cup {NoToken},
             op' = [op EXCEPT !.at = "info", !.token = token, !.cred = jwt],
             UNCHANGED <<queue, sockets, astray>>
      PROVE  SInv'
  <2>1. op' \in Places /\ op'.at = "info" /\ op'.cred = jwt /\ jwt' = jwt
    BY <1>1, <1>6, ReadsOK DEF Settled, OpPlaces
  <2>2. OpOK' /\ CredOK'
    BY <1>2, <1>6, <2>1 DEF OpOK, CredOK
  <2> QED
    BY <1>1, <1>2, <1>3, <1>6, <2>1, <2>2, GoesOnOK
<1>7. (IF Calling({"check"}) THEN Head(queue).token ELSE NoToken) \in Tokens \cup {NoToken}
  <2>1. Head(queue) \in Ops
    BY <1>2, TakenOK DEF SInv, TypesOK
  <2>2. \A e \in Ops : e.kind = "check" => e.token \in Tokens \cup {NoToken}
    BY DEF Ops
  <2> QED
    BY <2>1, <2>2 DEF Calling
<1>8. DeviceToken \in Tokens \cup {NoToken}
  BY DeviceTokenOK
<1> QED
  BY <1>4, <1>5, <1>6, <1>7, <1>8 DEF Check

LEMMA FetchInfoOK == ASSUME SInv, FetchInfo PROVE SInv'
<1>1. Beside /\ Settled /\ op.at = "info"
  BY DEF FetchInfo, rest, identity, socket, Beside, Settled
<1>2. queue # <<>> /\ ~StopPending
  BY <1>1, BusyOK, NotStoppingOK
<1>3. CASE Resolved
  BY <1>1, <1>2, <1>3, ResolvedOK
<1>4. ASSUME NEW info \in Infos,
             op' = [op EXCEPT !.at = "subscribing", !.info = info],
             UNCHANGED <<queue, sockets, astray>>
      PROVE  SInv'
  <2>1. op' \in Places /\ op'.at = "subscribing" /\ op'.cred = op.cred
    BY <1>4 DEF SInv, TypesOK, Places, OpPlaces
  <2>2. OpOK' /\ CredOK'
    BY <1>1, <1>2, <1>4, <2>1 DEF SInv, OpOK, CredOK, Settled
  <2>3. Changing => Changing'
    BY <1>1, <1>4, <2>1 DEF Changing, Calling
  <2> QED
    BY <1>1, <1>2, <1>4, <2>1, <2>2, <2>3, GoesOnOK
<1>5. Info \in Infos /\ "failed" \in Infos
  BY DEF Info, Infos
<1> QED
  BY <1>3, <1>4, <1>5 DEF FetchInfo

LEMMA SubscribeAnsweredOK == ASSUME SInv, SubscribeAnswered PROVE SInv'
<1>1. Beside /\ Settled /\ op.at = "subscribing"
  BY DEF SubscribeAnswered, rest, identity, socket, Beside, Settled
<1>2. queue # <<>> /\ ~StopPending
  BY <1>1, BusyOK, NotStoppingOK
<1>3. CASE Resolved
  BY <1>1, <1>2, <1>3, ResolvedOK
<1>4. CASE Rejected(Calling({"setIdentity"}))
  BY <1>1, <1>2, <1>4, RejectedOK DEF Changing, Calling
<1> QED
  BY <1>3, <1>4 DEF SubscribeAnswered

LEMMA SubscribeFailsOK == ASSUME SInv, SubscribeFails PROVE SInv'
<1>1. Beside /\ Settled /\ op.at = "subscribing" /\ Rejected(Calling({"setIdentity"}))
  BY DEF SubscribeFails, rest, identity, socket, Beside, Settled
<1>2. queue # <<>> /\ ~StopPending
  BY <1>1, BusyOK, NotStoppingOK
<1> QED
  BY <1>1, <1>2, RejectedOK DEF Changing, Calling

(* A step that changes the JWT and makes the call one that will say so. *)
LEMMA ChangesOK ==
  ASSUME SInv, Beside, UNCHANGED <<relay, native, queue, sockets, astray>>, ~StopPending,
         minted' \in Seq(Users), jwt' \in Nat, op' \in Places,
         op'.at \notin {"stopping", "info", "subscribing"}, OpOK', Changing'
  PROVE  SInv'
<1>1. TypesOK'
  BY DEF SInv, TypesOK, Beside, deviceVars
<1>2. ~StopPending' /\ SwitchOK'
  BY DEF SInv, SwitchOK, StopPending
<1>3. TurnOK' /\ CredOK'
  BY DEF SInv, TurnOK, CredOK, Current, Beside
<1>4. ConfigOK'
  BY <1>2 DEF SInv, ConfigOK, Beside, Idle
<1>5. FollowOK'
  BY DEF FollowOK
<1> QED
  BY <1>1, <1>2, <1>3, <1>4, <1>5 DEF SInv

LEMMA MintOK == ASSUME SInv, Mint PROVE SInv'
<1>1. /\ Beside /\ Calling({"setIdentity"}) /\ op.at = "idle"
      /\ UNCHANGED <<relay, native>>
  BY DEF Mint, OnTurn, rest, socket, Beside
<1>2. queue # <<>> /\ ~StopPending /\ ~Changing
  BY <1>1, NotStoppingOK DEF Calling, Changing
<1>3. CASE Rejected(FALSE) /\ UNCHANGED identity
  BY <1>1, <1>2, <1>3, RejectedOK DEF Settled, identity
<1>4. CASE minted' = Append(minted, Head(queue).user) /\ jwt' = Len(minted') /\ Continues("token")
  <2>1. Head(queue) \in Ops /\ Head(queue).kind = "setIdentity"
    BY <1>1, <1>2, TakenOK DEF SInv, TypesOK, Calling
  <2>2. Head(queue).user \in Users
    BY <2>1 DEF Ops
  <2>3. minted' \in Seq(Users)
    BY <1>4, <2>2, AppendedOK DEF SInv, TypesOK
  <2>4. jwt' \in Nat
    BY <1>4, <2>3, LenProperties
  <2>5. /\ op' \in Places /\ op'.at = "token" /\ UNCHANGED <<queue, sockets, astray>>
    BY <1>4, ReachOK DEF Continues, OpPlaces
  <2>6. OpOK' /\ Changing'
    BY <1>1, <1>2, <2>5 DEF OpOK, Changing, Calling
  <2> QED
    BY <1>1, <1>2, <2>3, <2>4, <2>5, <2>6, ChangesOK
<1> QED
  BY <1>3, <1>4 DEF Mint

LEMMA PickTokenOK == ASSUME SInv, PickToken PROVE SInv'
<1>1. Beside /\ Settled /\ op.at = "token"
  BY DEF PickToken, rest, identity, socket, Beside, Settled
<1>2. queue # <<>> /\ ~StopPending
  BY <1>1, BusyOK, NotStoppingOK
<1>3. CASE Resolved
  BY <1>1, <1>2, <1>3, ResolvedOK
<1>4. CASE Rejected(TRUE)
  BY <1>1, <1>2, <1>4, RejectedOK
<1>5. CASE /\ op' = [op EXCEPT !.at = "info", !.token = DeviceToken, !.cred = jwt]
           /\ UNCHANGED <<queue, sockets, astray>>
  <2>1. op' \in Places /\ op'.at = "info" /\ op'.cred = jwt /\ jwt' = jwt
    BY <1>1, <1>5, DeviceTokenOK, ReadsOK DEF Settled, OpPlaces
  <2>2. OpOK' /\ CredOK'
    BY <1>2, <1>5, <2>1 DEF OpOK, CredOK
  <2>3. Changing'
    BY <1>1, <1>5, <2>1 DEF SInv, OpOK, Changing, Calling
  <2> QED
    BY <1>1, <1>2, <1>5, <2>1, <2>2, <2>3, GoesOnOK
<1> QED
  BY <1>3, <1>4, <1>5 DEF PickToken

(* The call goes on to a place where it has changed nothing yet. *)
LEMMA UnchangedOK ==
  ASSUME SInv, Beside, Settled, Calling({"removeIdentity"}), ~StopPending, ~Changing,
         UNCHANGED <<queue, sockets, astray>>, op' \in Places,
         op'.at \in {"unsubscribing", "deleting"}
  PROVE  SInv'
<1>1. OpOK' /\ CredOK'
  BY DEF OpOK, CredOK, Calling
<1> QED
  BY <1>1, GoesOnOK

LEMMA UnsubscribeOK == ASSUME SInv, Unsubscribe PROVE SInv'
<1>1. Beside /\ Settled /\ Calling({"removeIdentity"}) /\ op.at = "idle"
  BY DEF Unsubscribe, OnTurn, rest, identity, socket, Beside, Settled
<1>2. queue # <<>> /\ ~StopPending /\ ~Changing
  BY <1>1, NotStoppingOK DEF Calling, Changing
<1>3. CASE Rejected(FALSE)
  BY <1>1, <1>2, <1>3, RejectedOK
<1>4. CASE Continues("deleting")
  <2>1. op' \in Places /\ op'.at = "deleting" /\ UNCHANGED <<queue, sockets, astray>>
    BY <1>4, ReachOK DEF Continues, OpPlaces
  <2> QED
    BY <1>1, <1>2, <2>1, UnchangedOK
<1>5. CASE /\ op' = [op EXCEPT !.at = "unsubscribing", !.token = DeviceToken, !.cred = jwt]
           /\ UNCHANGED <<queue, sockets, astray>>
  <2>1. op' \in Places /\ op'.at = "unsubscribing"
    BY <1>5, DeviceTokenOK, ReadsOK DEF OpPlaces
  <2> QED
    BY <1>1, <1>2, <1>5, <2>1, UnchangedOK
<1> QED
  BY <1>3, <1>4, <1>5 DEF Unsubscribe

LEMMA UnsubscribeAnsweredOK == ASSUME SInv, UnsubscribeAnswered PROVE SInv'
<1>1. Beside /\ Settled /\ op.at = "unsubscribing" /\ Continues("deleting")
  BY DEF UnsubscribeAnswered, rest, identity, socket, Beside, Settled
<1>2. Calling({"removeIdentity"}) /\ ~StopPending /\ ~Changing
  BY <1>1, NotStoppingOK DEF SInv, OpOK, Changing
<1>3. op' \in Places /\ op'.at = "deleting" /\ UNCHANGED <<queue, sockets, astray>>
  BY <1>1, ReachOK DEF Continues, OpPlaces
<1> QED
  BY <1>1, <1>2, <1>3, UnchangedOK

LEMMA DeleteTokenOK == ASSUME SInv, DeleteToken PROVE SInv'
<1>1. Beside /\ op.at = "deleting" /\ UNCHANGED <<relay, native, minted>>
  BY DEF DeleteToken, rest, socket, Beside
<1>2. /\ queue # <<>> /\ Calling({"removeIdentity"})
      /\ ~StopPending /\ ~Changing
  BY <1>1, NotStoppingOK DEF SInv, OpOK, Calling, Changing
<1>3. CASE Rejected(FALSE) /\ UNCHANGED jwt
  BY <1>1, <1>2, <1>3, RejectedOK DEF Settled
<1>4. CASE jwt' = NoJwt /\ Continues("clearing")
  <2>1. op' \in Places /\ op'.at = "clearing" /\ UNCHANGED <<queue, sockets, astray>>
    BY <1>4, ReachOK DEF Continues, OpPlaces
  <2>2. OpOK' /\ Changing'
    BY <1>2, <2>1 DEF OpOK, Changing, Calling
  <2>3. minted' \in Seq(Users) /\ jwt' \in Nat
    BY <1>1, <1>4 DEF SInv, TypesOK, NoJwt
  <2> QED
    BY <1>1, <1>2, <2>1, <2>2, <2>3, ChangesOK
<1> QED
  BY <1>3, <1>4 DEF DeleteToken

LEMMA ClearRecordsOK == ASSUME SInv, ClearRecords PROVE SInv'
<1>1. Beside /\ Settled /\ op.at = "clearing"
  BY DEF ClearRecords, rest, identity, socket, Beside, Settled
<1>2. queue # <<>> /\ ~StopPending
  BY <1>1, BusyOK, NotStoppingOK
<1>3. CASE Resolved
  BY <1>1, <1>2, <1>3, ResolvedOK
<1>4. CASE Rejected(TRUE)
  BY <1>1, <1>2, <1>4, RejectedOK
<1> QED
  BY <1>3, <1>4 DEF ClearRecords

(* A switch that is on file: off, native has stopped and JS is about to be *)
(* told.                                                                   *)
LEMMA SwitchMovesOK ==
  ASSUME SInv, UNCHANGED <<requested, active, polling, turn, sockets, deviceVars, jwt, minted>>,
         queue # <<>>, ~StopPending, ~Changing,
         NEW place \in {"switched", "stopping"}, Reach(place),
         relay' \in BOOLEAN, persisted' \in BOOLEAN,
         IF relay' THEN UNCHANGED <<native, astray>> /\ place = "switched"
                   ELSE native' = NoJwt /\ astray' = {} /\ place = "stopping"
  PROVE  SInv'
<1>1. op' \in Places /\ op'.at = place /\ queue' = queue
  BY ReachOK DEF OpPlaces
<1>2. OpOK' /\ CredOK'
  BY <1>1 DEF OpOK, CredOK
<1>3. TypesOK'
  BY <1>1 DEF SInv, TypesOK, deviceVars
<1>4. TurnOK' /\ RefreshQueued' = RefreshQueued
      /\ Current({"refresh"})' = Current({"refresh"})
  BY DEF SInv, TurnOK, Current, RefreshQueued
<1>5. "stopJs" \notin Range(sockets')
  BY DEF StopPending
<1>6. StopPending' <=> ~relay'
  BY <1>1, <1>5 DEF StopPending
<1>7. SwitchOK'
  BY <1>5, <1>6 DEF SwitchOK
<1>8. ConfigOK'
  <2>1. CASE relay'
    BY <1>6, <2>1 DEF SInv, ConfigOK, Idle
  <2>2. CASE ~relay'
    BY <1>6, <2>2 DEF SInv, ConfigOK, Idle
  <2> QED
    BY <2>1, <2>2
<1>9. FollowOK'
  <2>1. CASE relay'
    BY <1>4, <2>1 DEF SInv, FollowOK
  <2>2. CASE ~relay'
    BY <1>6, <2>2 DEF FollowOK
  <2> QED
    BY <2>1, <2>2
<1> QED
  BY <1>2, <1>3, <1>4, <1>7, <1>8, <1>9 DEF SInv

(* One that is not: native has stopped as well, and JS is not told.        *)
LEMMA SwitchUnsavedOK ==
  ASSUME SInv, UNCHANGED <<requested, active, polling, turn, sockets, deviceVars, jwt, minted>>,
         queue # <<>>, ~StopPending, ~Changing,
         EndFailed, UNCHANGED persisted, relay' \in BOOLEAN,
         IF relay' THEN UNCHANGED <<native, astray>>
                   ELSE native' = NoJwt /\ astray' = (astray \cap {"unrefreshed"}) \cup {"unsaved"}
  PROVE  SInv'
<1>1. /\ queue' \in Seq(Ops) /\ op' \in Places
      /\ op'.at = "idle" /\ OpOK' /\ CredOK' /\ ~Changing'
  BY EndOpOK DEF EndFailed
<1>2. TypesOK'
  BY <1>1 DEF SInv, TypesOK, deviceVars
<1>3. TurnOK' /\ RefreshQueued' = RefreshQueued
      /\ Current({"refresh"})' = Current({"refresh"})
  BY DEF SInv, TurnOK, Current, RefreshQueued
<1>4. "stopJs" \notin Range(sockets') /\ ~StopPending'
  BY <1>1 DEF StopPending
<1>5. SwitchOK'
  BY <1>4 DEF SwitchOK
<1>6. ConfigOK'
  <2>1. CASE relay'
    BY <1>4, <2>1 DEF SInv, ConfigOK, Idle
  <2>2. CASE ~relay'
    BY <1>4, <2>2 DEF SInv, ConfigOK, Idle
  <2> QED
    BY <2>1, <2>2
<1>7. FollowOK'
  <2>1. CASE relay'
    BY <1>1, <1>3, <1>4, <2>1 DEF SInv, FollowOK
  <2>2. CASE ~relay'
    BY <1>1, <1>3, <1>4, <2>2 DEF SInv, FollowOK
  <2> QED
    BY <2>1, <2>2
<1> QED
  BY <1>1, <1>2, <1>3, <1>5, <1>6, <1>7 DEF SInv

LEMMA ApplySwitchOK == ASSUME SInv, ApplySwitch PROVE SInv'
<1>1. /\ UNCHANGED <<requested, active, polling, turn, deviceVars, jwt, minted>>
      /\ op.at = "idle" /\ Calling({"applySwitch", "setRelayEnabled"})
  BY DEF ApplySwitch, OnTurn, rest, identity
<1>2. queue # <<>> /\ ~StopPending /\ ~Changing
  BY <1>1, NotStoppingOK DEF Calling, Changing
<1>3. CASE Rejected(FALSE) /\ UNCHANGED socket
  <2>1. Beside /\ Settled
    BY <1>1, <1>3 DEF Beside, Settled, socket
  <2> QED
    BY <1>2, <1>3, <2>1, RejectedOK
<1>4. Head(queue) \in Ops /\ Head(queue).kind \in {"applySwitch", "setRelayEnabled"}
  BY <1>1, <1>2, TakenOK DEF SInv, TypesOK, Calling
<1>5. Head(queue).enabled \in BOOLEAN
  BY <1>4 DEF Ops
<1>6. CASE /\ relay' = Head(queue).enabled
           /\ native' = IF relay' THEN native ELSE NoJwt
           /\ persisted' = relay'
           /\ IF relay' THEN UNCHANGED astray /\ Reach("switched")
                        ELSE astray' = {} /\ Reach("stopping")
           /\ UNCHANGED sockets
  <2>1. relay' \in BOOLEAN /\ persisted' \in BOOLEAN
    BY <1>5, <1>6
  <2>2. CASE relay'
    BY <1>1, <1>2, <1>6, <2>1, <2>2, SwitchMovesOK
  <2>3. CASE ~relay'
    BY <1>1, <1>2, <1>6, <2>1, <2>3, SwitchMovesOK
  <2> QED
    BY <2>2, <2>3
<1>7. CASE /\ relay' = Head(queue).enabled
           /\ native' = IF relay' THEN native ELSE NoJwt
           /\ UNCHANGED persisted
           /\ astray' = IF relay' THEN astray
                        ELSE (astray \cap {"unrefreshed"}) \cup {"unsaved"}
           /\ EndFailed
           /\ UNCHANGED sockets
  <2>1. relay' \in BOOLEAN
    BY <1>5, <1>7
  <2> QED
    BY <1>1, <1>2, <1>7, <2>1, SwitchUnsavedOK
<1> QED
  BY <1>3, <1>6, <1>7 DEF ApplySwitch

LEMMA StopJsOK == ASSUME SInv, StopJs PROVE SInv'
<1>1. /\ Beside /\ Settled /\ op.at = "stopping" /\ UNCHANGED astray
      /\ Queue("stopJs") /\ Reach("stopped")
  BY DEF StopJs, rest, identity, socket, Beside, Settled
<1>2. op' \in Places /\ op'.at = "stopped" /\ queue' = queue /\ queue # <<>>
  BY <1>1, ReachOK, BusyOK DEF OpPlaces
<1>3. OpOK' /\ CredOK' /\ ~Changing
  BY <1>1, <1>2 DEF OpOK, CredOK, Changing
<1>4. /\ sockets' \in Seq(SocketOps) /\ TurnOK'
      /\ "stopJs" \in Range(sockets')
      /\ RefreshQueued => RefreshQueued'
      /\ Current({"refresh"}) => Current({"refresh"})'
  BY <1>1, QueueSocketOK DEF Beside, SocketOps
<1>5. TypesOK'
  BY <1>1, <1>2, <1>4, BesideOK DEF SInv, TypesOK
<1>6. StopPending /\ StopPending' /\ SwitchOK'
  BY <1>1, <1>2, <1>4 DEF SInv, SwitchOK, StopPending, Settled
<1>7. ConfigOK'
  BY <1>1, <1>6 DEF SInv, ConfigOK, Beside, Settled, Idle
<1>8. FollowOK'
  BY <1>1, <1>3, <1>4, <1>6 DEF SInv, FollowOK, Beside, Settled
<1> QED
  BY <1>3, <1>4, <1>5, <1>6, <1>7, <1>8 DEF SInv

LEMMA SwitchedOK == ASSUME SInv, Switched PROVE SInv'
<1>1. Beside /\ Settled /\ op.at \in {"switched", "stopped"}
  BY DEF Switched, rest, identity, socket, Beside, Settled
<1>2. queue # <<>> /\ ~Changing /\ ~StopPending
  BY <1>1, BusyOK DEF Switched, SInv, SwitchOK, StopPending, Changing
<1>3. CASE Resolved
  BY <1>1, <1>2, <1>3, ResolvedOK
<1>4. CASE Continues("rechecking")
  <2>1. op' \in Places /\ op'.at = "rechecking" /\ UNCHANGED <<queue, sockets, astray>>
    BY <1>4, ReachOK DEF Continues, OpPlaces
  <2>2. OpOK' /\ CredOK'
    BY <1>2, <2>1 DEF OpOK, CredOK
  <2> QED
    BY <1>1, <1>2, <2>1, <2>2, GoesOnOK
<1> QED
  BY <1>3, <1>4 DEF Switched

LEMMA OpStepOK == ASSUME SInv, OpStep PROVE SInv'
BY CheckOK, FetchInfoOK, SubscribeAnsweredOK, SubscribeFailsOK, MintOK, PickTokenOK,
   UnsubscribeOK, UnsubscribeAnsweredOK, DeleteTokenOK, ClearRecordsOK, ApplySwitchOK,
   StopJsOK, SwitchedOK
   DEF OpStep

-----------------------------------------------------------------------------
(* Host and platform.                                                      *)

(* A call joins the queue; the one on turn stays where it is. *)
LEMMA JoinsOK ==
  ASSUME SInv, UNCHANGED <<facadeVars, op, minted, persisted>>,
         queue' \in Seq(Ops), queue # <<>> => queue' # <<>> /\ Head(queue') = Head(queue),
         provided' \in BOOLEAN, captured' \in BOOLEAN, fcm' \in 1 .. MaxTokens
  PROVE  SInv'
<1>1. TypesOK' /\ TurnOK' /\ SwitchOK' /\ ConfigOK' /\ CredOK'
  BY DEF SInv, TypesOK, TurnOK, SwitchOK, StopPending, ConfigOK, Idle, CredOK,
         Current, facadeVars, socketVars
<1>2. OpOK' /\ (Changing => Changing')
  BY DEF SInv, OpOK, Changing, Calling
<1>3. FollowOK'
  BY <1>2 DEF SInv, FollowOK, RefreshQueued, Current, StopPending, facadeVars, socketVars
<1> QED
  BY <1>1, <1>2, <1>3 DEF SInv

LEMMA EnqueueOK ==
  ASSUME SInv, NEW call \in Ops, Enqueue(call)
  PROVE  /\ queue' \in Seq(Ops)
         /\ queue # <<>> => queue' # <<>> /\ Head(queue') = Head(queue)
<1>1. queue \in Seq(Ops) /\ queue' = Append(queue, call)
  BY DEF SInv, TypesOK, Enqueue
<1> QED
  BY <1>1, AppendedOK

LEMMA CallOK ==
  ASSUME SInv, NEW call \in Ops, Enqueue(call), UNCHANGED <<facadeVars, op, minted, persisted, deviceVars>>
  PROVE  SInv'
BY EnqueueOK, JoinsOK DEF SInv, TypesOK, deviceVars

LEMMA InitializeOK == ASSUME SInv, Initialize PROVE SInv'
<1> DEFINE check == [kind |-> "check", token |-> NoToken]
<1>1. UNCHANGED <<facadeVars, op, minted, persisted, deviceVars>>
  BY DEF Initialize, facade
<1>2. check \in Ops
  BY DEF Ops
<1>3. CASE queue' = queue \o <<check>>
  <2> HIDE DEF check
  <2>1. <<check>> \in Seq(Ops) /\ queue \in Seq(Ops)
    BY <1>2 DEF SInv, TypesOK
  <2>2. queue' \in Seq(Ops) /\ (queue # <<>> => queue' # <<>> /\ Head(queue') = Head(queue))
    BY <1>3, <2>1, JoinedOK
  <2> QED
    BY <1>1, <2>2, JoinsOK DEF SInv, TypesOK, deviceVars
<1>4. ASSUME NEW enabled \in BOOLEAN,
             queue' = queue \o <<[kind |-> "applySwitch", enabled |-> enabled]>> \o <<check>>
      PROVE  SInv'
  <2> DEFINE switch == [kind |-> "applySwitch", enabled |-> enabled]
             first  == queue \o <<switch>>
  <2>1. switch \in Ops
    BY DEF Ops
  <2>2. queue' = first \o <<check>>
    BY <1>4
  <2> HIDE DEF check, switch
  <2>3. <<check>> \in Seq(Ops) /\ <<switch>> \in Seq(Ops) /\ queue \in Seq(Ops)
    BY <1>2, <2>1 DEF SInv, TypesOK
  <2>4. first \in Seq(Ops) /\ (queue # <<>> => first # <<>> /\ Head(first) = Head(queue))
    BY <2>3, JoinedOK
  <2> HIDE DEF first
  <2>5. queue' \in Seq(Ops) /\ (first # <<>> => queue' # <<>> /\ Head(queue') = Head(first))
    BY <2>2, <2>3, <2>4, JoinedOK
  <2> QED
    BY <1>1, <2>4, <2>5, JoinsOK DEF SInv, TypesOK, deviceVars
<1> QED
  BY <1>3, <1>4 DEF Initialize

LEMMA SocketCallOK == ASSUME SInv, SocketCall PROVE SInv'
<1>1. /\ Beside /\ Settled /\ UNCHANGED <<queue, op, astray>>
      /\ \E call \in StartOps \cup {"stop"} : Queue(call)
  BY DEF SocketCall, Beside, Settled
<1>2. PICK call \in StartOps \cup {"stop"} : Queue(call)
  BY <1>1
<1>3. call \in SocketOps /\ call # "stopJs"
  BY DEF SocketOps, StartOps
<1>4. /\ sockets' \in Seq(SocketOps) /\ TurnOK'
      /\ "stopJs" \in Range(sockets') <=> "stopJs" \in Range(sockets)
      /\ RefreshQueued => RefreshQueued'
      /\ Current({"refresh"}) => Current({"refresh"})'
  BY <1>1, <1>2, <1>3, QueueSocketOK DEF Beside
<1>5. TypesOK'
  BY <1>1, <1>4, BesideOK DEF SInv, TypesOK
<1>6. OpOK' /\ CredOK' /\ Changing' = Changing
  BY <1>1 DEF SInv, OpOK, CredOK, Changing, Calling, Settled
<1>7. StopPending' = StopPending /\ SwitchOK'
  BY <1>1, <1>4 DEF SInv, SwitchOK, StopPending, Settled
<1>8. ConfigOK'
  BY <1>1, <1>7 DEF SInv, ConfigOK, Beside, Settled, Idle
<1>9. FollowOK'
  BY <1>1, <1>4, <1>6, <1>7 DEF SInv, FollowOK, Beside, Settled
<1> QED
  BY <1>4, <1>5, <1>6, <1>7, <1>8, <1>9 DEF SInv

LEMMA HostStepOK == ASSUME SInv, HostStep PROVE SInv'
<1>1. CASE Initialize
  BY <1>1, InitializeOK
<1>2. ASSUME NEW user \in Users, SetIdentity(user) PROVE SInv'
  <2>1. [kind |-> "setIdentity", user |-> user] \in Ops
    BY DEF Ops
  <2> QED
    BY <1>2, <2>1, CallOK DEF SetIdentity, facade
<1>3. CASE RemoveIdentity
  <2>1. [kind |-> "removeIdentity"] \in Ops
    BY DEF Ops
  <2> QED
    BY <1>3, <2>1, CallOK DEF RemoveIdentity, facade
<1>4. ASSUME NEW enabled \in BOOLEAN, SetRelayEnabled(enabled) PROVE SInv'
  <2>1. [kind |-> "setRelayEnabled", enabled |-> enabled] \in Ops
    BY DEF Ops
  <2> QED
    BY <1>4, <2>1, CallOK DEF SetRelayEnabled, facade
<1>5. CASE SetDeviceToken
  BY <1>5, JoinsOK DEF SetDeviceToken, SInv, TypesOK
<1>6. CASE SocketCall
  BY <1>6, SocketCallOK
<1> QED
  BY <1>1, <1>2, <1>3, <1>4, <1>5, <1>6 DEF HostStep

LEMMA TokenReceivedOK == ASSUME SInv, TokenReceived PROVE SInv'
<1>1. UNCHANGED <<facadeVars, op, minted, persisted, provided>> /\ captured' = TRUE
  BY DEF TokenReceived
<1>2. fcm' \in 1 .. MaxTokens
  BY SubscriptionsAssumption DEF TokenReceived, SInv, TypesOK
<1>3. [kind |-> "check", token |-> fcm'] \in Ops
  BY <1>2 DEF Ops, Tokens
<1>4. queue' \in Seq(Ops) /\ (queue # <<>> => queue' # <<>> /\ Head(queue') = Head(queue))
  <2>1. CASE up
    BY <1>3, <2>1, EnqueueOK DEF TokenReceived
  <2>2. CASE ~up
    BY <2>2 DEF TokenReceived, SInv, TypesOK
  <2> QED
    BY <2>1, <2>2
<1> QED
  BY <1>1, <1>2, <1>4, JoinsOK DEF SInv, TypesOK

LEMMA InfoChangedOK == ASSUME SInv, InfoChanged PROVE SInv'
BY JoinsOK DEF InfoChanged, deviceVars, SInv, TypesOK

LEMMA TimerFiresOK == ASSUME SInv, TimerFires PROVE SInv'
<1>1. [kind |-> "check", token |-> NoToken] \in Ops
  BY DEF Ops
<1> QED
  BY <1>1, CallOK DEF TimerFires

LEMMA StutterOK == ASSUME SInv, UNCHANGED vars PROVE SInv'
BY JoinsOK DEF vars, subVars, deviceVars, SInv, TypesOK

(* A process that has just started. *)
Fresh ==
  /\ sockets = <<>> /\ queue = <<>> /\ turn = Waiting /\ op = NoOp /\ Idle
  /\ jwt \in Nat /\ relay \in BOOLEAN /\ persisted \in BOOLEAN /\ minted \in Seq(Users)
  /\ provided \in BOOLEAN /\ captured \in BOOLEAN /\ fcm \in 1 .. MaxTokens
  /\ ~relay => native = NoJwt
  /\ native # NoJwt => "revived" \in astray

LEMMA FreshOK == Fresh => SInv
<1> SUFFICES ASSUME Fresh PROVE SInv
  OBVIOUS
<1> USE DEF Fresh
<1>1. turn \in Turns /\ turn.at = "waiting"
  BY DEF Waiting, Turns, TurnPlaces, NoJwt
<1>2. op \in Places /\ op.at = "idle"
  BY DEF NoOp, Places, OpPlaces, Infos, NoJwt
<1>3. TypesOK
  BY <1>1, <1>2 DEF TypesOK
<1>4. "stopJs" \notin Range(sockets)
  BY DEF Range
<1>5. TurnOK /\ OpOK /\ CredOK /\ SwitchOK
  BY <1>1, <1>2, <1>4 DEF TurnOK, OpOK, CredOK, SwitchOK, StopPending
<1>6. ConfigOK /\ FollowOK
  BY <1>1 DEF ConfigOK, FollowOK, Idle
<1> QED
  BY <1>3, <1>5, <1>6 DEF SInv

LEMMA RestartedOK == Fresh' => SInv'
<1>1. (Fresh => SInv)'
  BY FreshOK, PTL
<1> QED
  BY <1>1

LEMMA RestartOK == ASSUME SInv, Restart PROVE SInv'
<1>1. /\ (sockets = <<>>)' /\ (queue = <<>>)' /\ (turn = Waiting)' /\ (op = NoOp)' /\ Idle'
      /\ UNCHANGED <<jwt, minted, fcm, persisted>> /\ relay' = persisted
      /\ captured' = FALSE /\ provided' = FALSE
      /\ native' # NoJwt => persisted /\ "revived" \in astray'
  BY DEF Restart, Idle
<1>2. (~relay => native = NoJwt)'
  BY <1>1
<1>3. Fresh'
  BY <1>1, <1>2 DEF Fresh, SInv, TypesOK
<1> QED
  BY <1>3, RestartedOK

LEMMA InitOK == ASSUME Init PROVE SInv
<1>1. relay \in BOOLEAN
  BY SubscriptionsAssumption DEF Init
<1>2. 1 \in 1 .. MaxTokens
  BY SubscriptionsAssumption
<1>3. minted \in Seq(Users) /\ persisted \in BOOLEAN
  BY <1>1, EmptySeq DEF Init
<1> QED
  BY <1>1, <1>2, <1>3, FreshOK DEF Fresh, Init, FacadeInit, Idle, NoJwt

LEMMA StepOK == ASSUME SInv, [Next]_vars PROVE SInv'
BY OpStepOK, SocketStepOK, HostStepOK, TokenReceivedOK, InfoChangedOK, TimerFiresOK,
   RestartOK, StutterOK
   DEF Next

LEMMA Invariance == Spec => []SInv
<1>1. Init => SInv
  BY InitOK
<1>2. SInv /\ [Next]_vars => SInv'
  BY StepOK
<1> QED
  BY <1>1, <1>2, PTL DEF Spec

-----------------------------------------------------------------------------
(* With nothing under way, no call is at a place on its way. *)
LEMMA QuietOK ==
  ASSUME SInv, Quiet
  PROVE  turn.at = "waiting" /\ ~StopPending /\ ~Changing /\ ~RefreshQueued
         /\ ~Current({"refresh"})
<1>1. sockets = <<>> /\ queue = <<>>
  BY DEF Quiet
<1>2. "stopJs" \notin Range(sockets)
  BY <1>1 DEF Range
<1> QED
  BY <1>1, <1>2, PlaceOK
     DEF SInv, OpOK, StopPending, Changing, Calling, RefreshQueued, Current

(* With the relay off and nothing under way, native does not run and JS    *)
(* keeps nothing that a later setIdentity could restart (applyRelaySwitch  *)
(* and stopPushSocket), whatever calls and failures came before.           *)
THEOREM OffCorrect == Spec => []OffIsOff
<1>1. SInv => OffIsOff
  BY QuietOK DEF SInv, SwitchOK, ConfigOK, Idle, OffIsOff
<1> QED
  BY <1>1, Invariance, PTL

(* The configuration JS holds is the one native runs with, its poll and    *)
(* its request exist exactly with it (startLocked, stopLocked).            *)
THEOREM ConfigCorrect == Spec => []ConfigMatchesSocket
<1>1. SInv => ConfigMatchesSocket
  BY QuietOK DEF SInv, ConfigOK, ConfigMatchesSocket, NoJwt, PinnedJwt
<1> QED
  BY <1>1, Invariance, PTL

(* A running socket has the stored JWT, or one that a host has passed, or  *)
(* there was a failure that explains why not (refreshPushSocketAuth).      *)
THEOREM FollowCorrect == Spec => []SocketFollowsJwt
<1>1. SInv => SocketFollowsJwt
  BY QuietOK DEF SInv, FollowOK, SocketFollowsJwt
<1> QED
  BY <1>1, Invariance, PTL

(* A Subscribe carries the JWT that is stored while it is on the wire      *)
(* (subscribeWith under runExclusive).                                     *)
THEOREM SubscribeCorrect == Spec => []SubscribesAsStored
<1>1. SInv => SubscribesAsStored
  BY DEF SInv, CredOK, SubscribesAsStored
<1> QED
  BY <1>1, Invariance, PTL

-----------------------------------------------------------------------------
(* What is on file, what the push API has, and what will bring the one up  *)
(* to date with the other.                                                 *)
Subs == [user : Users \cup {"nobody"}, info : Infos]

FileOK ==
  /\ record \in Records /\ (record # NoRecord => record.token \in Tokens)
  /\ backend \in [Tokens -> Subs]
  /\ jwt \in 0 .. Len(minted)
  /\ up \in BOOLEAN /\ event \in BOOLEAN /\ timer \in BOOLEAN

(* What the places of a call say of the JWT, its token and the overridden  *)
(* token.                                                                  *)
PlacesOK ==
  /\ op.at \in {"token", "info", "subscribing", "unsubscribing"} => jwt # NoJwt
  /\ op.at \in {"info", "subscribing", "unsubscribing"} =>
       op.cred = jwt /\ op.token \in Tokens
  /\ op.at = "clearing" => jwt = NoJwt
  /\ provided => "ghost" \in gaps

(* FCM's tokens to come are in nobody's hands.                             *)
TokensOK ==
  /\ op.token <= fcm
  /\ \A call \in Range(queue) : call.kind = "check" => call.token <= fcm
  /\ \A t \in Tokens : t > fcm => backend[t] = NoSubscription

(* The record is of a Subscribe of the stored JWT, which may have been     *)
(* taken back since.                                                       *)
RecordOK ==
  jwt # NoJwt /\ record # NoRecord /\ "user" \notin gaps =>
    /\ backend[record.token] = NoSubscription \/ backend[record.token].user = User(jwt)
    /\ "record" \notin gaps =>
         backend[record.token] = [user |-> User(jwt), info |-> record.info]

(* Whose FCM's token is.                                                   *)
OwnerOK ==
  "ghost" \notin gaps =>
    /\ jwt # NoJwt /\ "user" \notin gaps /\ "missed" \notin gaps =>
         backend[fcm] = NoSubscription \/ backend[fcm].user = User(jwt)
    /\ jwt = NoJwt \/ op.at = "deleting" => backend[fcm] = NoSubscription
    /\ op.at = "unsubscribing" => op.token = fcm \/ backend[fcm] = NoSubscription

(* A check is on its way; removeIdentity cancels one and makes up for it.  *)
Checks(calls) == \E call \in Range(calls) : call.kind \in {"check", "removeIdentity"}
Coming(calls) == event \/ timer \/ Checks(calls)

Due == /\ up /\ jwt # NoJwt /\ DeviceToken # NoToken
       /\ "user" \notin gaps /\ "record" \notin gaps /\ "missed" \notin gaps

(* The record is of the device as it is, or a check is on its way.         *)
DueOK == Due => record = [token |-> DeviceToken, info |-> Info] \/ Coming(queue)

SendingOK ==
  up /\ op.at = "subscribing" /\ op.info # "failed" => op.info = Info \/ Coming(Tail(queue))

RInv == FileOK /\ PlacesOK /\ TokensOK /\ RecordOK /\ OwnerOK /\ DueOK /\ SendingOK

-----------------------------------------------------------------------------
LEMMA FcmOK ==
  ASSUME SInv
  PROVE  /\ fcm \in Tokens /\ fcm \in Nat /\ NoToken \notin Tokens
         /\ \A t \in Tokens : t \in Int
         /\ NoSubscription \in Subs
BY SubscriptionsAssumption DEF SInv, TypesOK, Tokens, NoToken, OwnToken, NoSubscription, Subs, Infos

LEMMA TakenCalls ==
  ASSUME SInv, queue # <<>>
  PROVE  /\ Range(queue) = {Head(queue)} \cup Range(Tail(queue))
         /\ Head(queue) \in Ops
         /\ Checks(queue) <=> \/ Head(queue).kind \in {"check", "removeIdentity"}
                              \/ Checks(Tail(queue))
<1>1. Range(queue) = {Head(queue)} \cup Range(Tail(queue)) /\ Head(queue) \in Ops
  BY TakenOK DEF SInv, TypesOK
<1> QED
  BY <1>1 DEF Checks

(* What a call of the queue leaves alone until it settles, and after.      *)
Outside == UNCHANGED <<up, deviceVars, timer, relay, native, event>>

LEMMA OutsideOK ==
  ASSUME Outside
  PROVE  DeviceToken' = DeviceToken /\ Info' = Info /\ fcm' = fcm /\ provided' = provided
         /\ up' = up /\ event' = event /\ timer' = timer
BY DEF Outside, deviceVars, DeviceToken, Info

(* A call goes on to its next await.                                       *)
LEMMA GoesOnDue ==
  ASSUME RInv, Outside, queue' = queue, record' = record, Due' => Due,
         op'.at = "subscribing" /\ op'.info # "failed" =>
           op'.info = Info \/ (op' = op)
  PROVE  DueOK' /\ SendingOK'
<1>1. \A q : Coming(q)' <=> event \/ timer \/ Checks(q)'
  BY OutsideOK DEF Coming
<1>2. Checks(queue)' <=> Checks(queue)
  BY DEF Checks
<1>3. Checks(Tail(queue))' <=> Checks(Tail(queue))
  BY DEF Checks
<1>4. Coming(queue)' <=> Coming(queue)
  BY OutsideOK, <1>2 DEF Coming
<1>5. Coming(Tail(queue))' <=> Coming(Tail(queue))
  BY OutsideOK, <1>3 DEF Coming
<1>6. DueOK'
  BY OutsideOK, <1>4 DEF RInv, DueOK
<1>7. SendingOK'
  BY OutsideOK, <1>5 DEF RInv, SendingOK
<1> QED
  BY <1>6, <1>7

(* A call settles: it has brought the record up to date, or a gap says why *)
(* not, or it is none that a check relied on.                              *)
LEMMA EndsDue ==
  ASSUME SInv, RInv, Outside, queue # <<>>, EndOp,
         \/ ~Due'
         \/ record' = [token |-> DeviceToken, info |-> Info]
         \/ up /\ Coming(Tail(queue))
         \/ Due /\ record' = record /\ Head(queue).kind \notin {"check", "removeIdentity"}
  PROVE  DueOK' /\ SendingOK'
<1>1. queue' = Tail(queue) /\ op'.at = "idle"
  BY DEF EndOp, NoOp
<1>2. Coming(queue)' <=> Coming(Tail(queue))
  BY OutsideOK, <1>1 DEF Coming, Checks
<1>3. Due /\ record' = record /\ Head(queue).kind \notin {"check", "removeIdentity"} =>
        record' = [token |-> DeviceToken, info |-> Info] \/ Coming(Tail(queue))
  BY TakenCalls DEF RInv, DueOK, Coming
<1>4. DueOK'
  BY OutsideOK, <1>2, <1>3 DEF DueOK
<1>5. SendingOK'
  BY <1>1 DEF SendingOK
<1> QED
  BY <1>4, <1>5

(* What a call that settles leaves of the places and the tokens.           *)
LEMMA EndsOK ==
  ASSUME SInv, RInv, Outside, queue # <<>>, EndOp, "ghost" \in gaps => "ghost" \in gaps',
         \A t \in Tokens : t > fcm => backend'[t] = backend[t]
  PROVE  PlacesOK' /\ TokensOK'
<1>1. queue' = Tail(queue) /\ op' = NoOp
  BY DEF EndOp
<1>2. PlacesOK'
  BY OutsideOK, <1>1 DEF RInv, PlacesOK, NoOp
<1>3. op'.token <= fcm'
  BY OutsideOK, FcmOK, <1>1 DEF NoOp, NoToken
<1>4. \A call \in Range(queue') : call \in Range(queue)
  BY <1>1, TakenCalls
<1>5. \A call \in Range(queue') : call.kind = "check" => call.token <= fcm'
  BY OutsideOK, <1>4 DEF RInv, TokensOK
<1>6. \A t \in Tokens : t > fcm' => backend'[t] = NoSubscription
  BY OutsideOK DEF RInv, TokensOK
<1>7. TokensOK'
  BY <1>3, <1>5, <1>6 DEF TokensOK
<1> QED
  BY <1>2, <1>7

(* A step that leaves what is on file and what the push API has.           *)
LEMMA FiledOK ==
  ASSUME RInv, UNCHANGED <<jwt, minted, record, backend, up, event, timer>>
  PROVE  FileOK'
BY DEF RInv, FileOK

LEMMA RecordKept ==
  ASSUME RInv, UNCHANGED <<jwt, minted, record, backend>>,
         "user" \notin gaps' => "user" \notin gaps,
         "record" \notin gaps' /\ "user" \notin gaps' => "record" \notin gaps
  PROVE  RecordOK'
BY DEF RInv, RecordOK, User

(* A call that settles without having changed anything but the gaps.       *)
LEMMA SettlesOK ==
  ASSUME SInv, RInv, Outside, queue # <<>>, EndOp, UNCHANGED <<jwt, minted, record, backend>>,
         gaps \subseteq gaps',
         \/ ~Due'
         \/ Due /\ Head(queue).kind \notin {"check", "removeIdentity"}
  PROVE  RInv'
<1>1. FileOK'
  BY OutsideOK, FiledOK
<1>2. PlacesOK' /\ TokensOK'
  BY EndsOK
<1>3. RecordOK'
  BY RecordKept
<1>4. OwnerOK'
  BY OutsideOK DEF RInv, OwnerOK, EndOp, NoOp, User
<1>5. DueOK' /\ SendingOK'
  BY EndsDue
<1> QED
  BY <1>1, <1>2, <1>3, <1>4, <1>5 DEF RInv

(* A call that goes on, having read what it needs.                         *)
LEMMA ContinuesOK ==
  ASSUME SInv, RInv, Outside, queue' = queue, UNCHANGED <<jwt, minted, record, backend>>,
         gaps \subseteq gaps', PlacesOK', op'.token <= fcm, Due' => Due,
         op'.at = "subscribing" /\ op'.info # "failed" => op'.info = Info \/ op' = op,
         "ghost" \notin gaps' /\ op'.at = "deleting" => backend[fcm] = NoSubscription,
         "ghost" \notin gaps' /\ op'.at = "unsubscribing" => op'.token = fcm
  PROVE  RInv'
<1>1. FileOK'
  BY OutsideOK, FiledOK
<1>2. TokensOK'
  BY OutsideOK DEF RInv, TokensOK
<1>3. RecordOK'
  BY RecordKept
<1>4. OwnerOK'
  BY OutsideOK DEF RInv, OwnerOK, User
<1>5. DueOK' /\ SendingOK'
  BY GoesOnDue
<1> QED
  BY <1>1, <1>2, <1>3, <1>4, <1>5 DEF RInv

LEMMA DeviceTokenKnown ==
  ASSUME SInv, RInv
  PROVE  /\ DeviceToken <= fcm
         /\ DeviceToken # NoToken => DeviceToken \in Tokens
         /\ "ghost" \notin gaps /\ DeviceToken # NoToken => DeviceToken = fcm
<1>1. fcm \in Nat /\ (provided => "ghost" \in gaps)
  BY FcmOK DEF RInv, PlacesOK
<1> QED
  BY <1>1, DeviceTokenOK DEF DeviceToken, OwnToken, NoToken

LEMMA DueKept ==
  ASSUME Outside, jwt' = jwt, gaps \subseteq gaps'
  PROVE  Due' => Due
BY OutsideOK DEF Due

-----------------------------------------------------------------------------
(* The calls of the queue keep it.                                         *)

LEMMA CheckKept == ASSUME SInv, RInv, Check PROVE RInv'
<1>1. /\ Outside /\ UNCHANGED <<jwt, minted, record, backend>>
      /\ op.at \in {"idle", "rechecking"} /\ queue # <<>>
  BY BusyOK DEF Check, OnTurn, Calling, rest, identity, socket, Outside
<1>2. CASE /\ jwt = NoJwt \/ DeviceToken = NoToken
           /\ Resolved /\ UNCHANGED gaps
  <2>1. EndOp /\ ~Due'
    BY <1>1, <1>2, OutsideOK DEF Resolved, Due
  <2> QED
    BY <1>1, <1>2, <2>1, SettlesOK
<1>3. CASE Rejected(FALSE) /\ gaps' = gaps \cup {"missed"}
  <2>1. EndOp /\ ~Due'
    BY <1>3 DEF Rejected, EndFailed, Due
  <2> QED
    BY <1>1, <1>3, <2>1, SettlesOK
<1>4. ASSUME NEW token \in Tokens, token <= fcm, jwt # NoJwt,
             op' = [op EXCEPT !.at = "info", !.token = token, !.cred = jwt],
             UNCHANGED <<queue, gaps>>
      PROVE  RInv'
  <2>1. op' \in Places /\ op'.at = "info" /\ op'.cred = jwt /\ op'.token = token
    BY <1>4, ReadsOK DEF OpPlaces
  <2>2. PlacesOK'
    BY <1>1, <1>4, <2>1, OutsideOK DEF RInv, PlacesOK
  <2>3. Due' => Due
    BY <1>1, <1>4, DueKept
  <2> QED
    BY <1>1, <1>4, <2>1, <2>2, <2>3, ContinuesOK
<1> DEFINE override == IF Calling({"check"}) THEN Head(queue).token ELSE NoToken
           token    == IF override # NoToken THEN override ELSE DeviceToken
<1>5. override \in Tokens \cup {NoToken} /\ (override # NoToken => override <= fcm)
  <2>1. Head(queue) \in Ops /\ Head(queue) \in Range(queue)
    BY <1>1, TakenCalls
  <2>2. \A e \in Ops : e.kind = "check" => e.token \in Tokens \cup {NoToken}
    BY DEF Ops
  <2>3. Head(queue).kind = "check" => Head(queue).token <= fcm
    BY <2>1 DEF RInv, TokensOK
  <2> QED
    BY <2>1, <2>2, <2>3 DEF Calling
<1>6. /\ token # NoToken => token \in Tokens /\ token <= fcm
      /\ token = NoToken => DeviceToken = NoToken
  BY <1>5, DeviceTokenKnown
<1>7. \/ (jwt = NoJwt \/ token = NoToken) /\ Resolved /\ UNCHANGED gaps
      \/ /\ jwt # NoJwt /\ token # NoToken
         /\ op' = [op EXCEPT !.at = "info", !.token = token, !.cred = jwt]
         /\ UNCHANGED <<queue, gaps>>
      \/ Rejected(FALSE) /\ gaps' = gaps \cup {"missed"}
  BY DEF Check
<1> HIDE DEF token
<1> QED
  BY <1>2, <1>3, <1>4, <1>6, <1>7

LEMMA FetchInfoKept == ASSUME SInv, RInv, FetchInfo PROVE RInv'
<1>1. /\ Outside /\ UNCHANGED <<jwt, minted, record, backend>>
      /\ op.at = "info" /\ queue # <<>>
  BY BusyOK DEF FetchInfo, rest, identity, socket, Outside
<1>2. jwt # NoJwt /\ op.cred = jwt /\ op.token \in Tokens
  BY <1>1 DEF RInv, PlacesOK
<1>3. ASSUME NEW info \in {Info, "failed"}, Skips(info), Resolved,
             gaps' = (gaps \ {"missed"}) \cup Owed(info)
      PROVE  RInv'
  <2>1. EndOp /\ record.token = op.token /\ record.info = info
        /\ record = [token |-> op.token, info |-> info]
    BY <1>3 DEF Resolved, Skips
  <2>2. /\ gaps' \ {"missed"} = gaps \ {"missed"}
        /\ "missed" \notin gaps' => info = Info /\ info # "failed" /\ op.token = DeviceToken
    BY <1>3 DEF Owed
  <2>3. FileOK'
    BY <1>1, FiledOK, OutsideOK
  <2>4. PlacesOK' /\ TokensOK'
    BY <1>1, <2>1, <2>2, EndsOK
  <2>5. RecordOK'
    BY <1>1, <2>2, RecordKept
  <2>6. OwnerOK'
    <3>1. SUFFICES ASSUME "ghost" \notin gaps', "user" \notin gaps', "missed" \notin gaps'
                   PROVE  backend[fcm] = NoSubscription \/ backend[fcm].user = User(jwt)
      BY <1>1, <1>2, <2>1, OutsideOK DEF OwnerOK, EndOp, NoOp, User
    <3>2. op.token = fcm /\ record # NoRecord
      BY <1>2, <2>1, <2>2, <3>1, DeviceTokenKnown, FcmOK DEF NoRecord
    <3> QED
      BY <1>2, <2>1, <2>2, <3>1, <3>2 DEF RInv, RecordOK
  <2>7. ~Due' \/ record' = [token |-> DeviceToken, info |-> Info]
    BY <1>1, <2>1, <2>2 DEF Due
  <2>8. DueOK' /\ SendingOK'
    BY <1>1, <2>1, <2>7, EndsDue
  <2> QED
    BY <2>3, <2>4, <2>5, <2>6, <2>8 DEF RInv
<1>4. ASSUME NEW info \in {Info, "failed"},
             op' = [op EXCEPT !.at = "subscribing", !.info = info], UNCHANGED <<queue, gaps>>
      PROVE  RInv'
  <2>1. /\ op'.at = "subscribing" /\ op'.info = info
        /\ op'.token = op.token /\ op'.cred = op.cred
    BY <1>4 DEF SInv, TypesOK, Places
  <2>2. PlacesOK'
    BY <1>1, <1>2, <1>4, <2>1, OutsideOK DEF RInv, PlacesOK
  <2>3. op'.token <= fcm /\ (Due' => Due)
    BY <1>1, <1>4, <2>1, DueKept DEF RInv, TokensOK
  <2>4. op'.info # "failed" => op'.info = Info'
    BY <1>1, <2>1, OutsideOK
  <2> QED
    BY <1>1, <1>4, <2>1, <2>2, <2>3, <2>4, OutsideOK, ContinuesOK
<1> QED
  BY <1>3, <1>4 DEF FetchInfo

(* What a Subscribe leaves the push API with.                              *)
LEMMA SubscribedOK ==
  ASSUME SInv, RInv, op.at = "subscribing"
  PROVE  /\ jwt # NoJwt /\ op.token \in Tokens /\ op.token <= fcm
         /\ Subscribed \in [Tokens -> Subs]
         /\ Subscribed[op.token] = [user |-> User(jwt), info |-> op.info]
         /\ \A t \in Tokens : Subscribed[t] = backend[t] \/ Subscribed[t].user = User(jwt)
         /\ \A t \in Tokens : t > fcm => Subscribed[t] = backend[t]
<1>1. jwt # NoJwt /\ op.cred = jwt /\ op.token \in Tokens /\ op.token <= fcm
  BY DEF RInv, PlacesOK, TokensOK
<1>2. backend \in [Tokens -> Subs] /\ jwt \in 1 .. Len(minted) /\ minted \in Seq(Users)
  <2>1. minted \in Seq(Users) /\ jwt \in 0 .. Len(minted)
    BY DEF SInv, TypesOK, RInv, FileOK
  <2>2. Len(minted) \in Nat
    BY <2>1, LenProperties
  <2> QED
    BY <1>1, <2>1, <2>2 DEF RInv, FileOK, NoJwt
<1>3. User(jwt) \in Users
  BY <1>2, ElementOfSeq DEF User
<1> DEFINE sub == [user |-> User(jwt), info |-> op.info]
<1>4. sub \in Subs /\ sub.user = User(jwt)
  BY <1>3 DEF Subs, SInv, TypesOK, Places
<1>5. Subscribed = [backend EXCEPT ![op.token] = sub]
  BY <1>1 DEF Subscribed
<1> HIDE DEF sub
<1>6. /\ Subscribed \in [Tokens -> Subs]
      /\ Subscribed[op.token] = sub
      /\ \A t \in Tokens : t # op.token => Subscribed[t] = backend[t]
  BY <1>1, <1>2, <1>4, <1>5
<1>7. \A t \in Tokens : t > fcm => t # op.token
  BY <1>1, FcmOK
<1>8. Subscribed[op.token] = [user |-> User(jwt), info |-> op.info]
  BY <1>6 DEF sub
<1> QED
  BY <1>1, <1>4, <1>6, <1>7, <1>8

(* A Subscribe that arrives and whose record is lost.                      *)
LEMMA UnrecordedOK ==
  ASSUME SInv, RInv, Outside, op.at = "subscribing", queue # <<>>, EndOp,
         backend' = Subscribed, UNCHANGED <<jwt, minted, record>>,
         gaps \subseteq gaps', "record" \in gaps'
  PROVE  RInv'
<1>1. /\ jwt # NoJwt /\ Subscribed \in [Tokens -> Subs]
      /\ \A t \in Tokens : Subscribed[t] = backend[t] \/ Subscribed[t].user = User(jwt)
      /\ \A t \in Tokens : t > fcm => Subscribed[t] = backend[t]
  BY SubscribedOK
<1>2. FileOK'
  BY <1>1, OutsideOK DEF RInv, FileOK
<1>3. PlacesOK' /\ TokensOK'
  BY <1>1, EndsOK
<1>4. RecordOK'
  BY <1>1 DEF RInv, FileOK, RecordOK, User
<1>5. OwnerOK'
  BY <1>1, FcmOK, OutsideOK DEF RInv, OwnerOK, EndOp, NoOp, User
<1>6. DueOK' /\ SendingOK'
  BY EndsDue DEF Due
<1> QED
  BY <1>2, <1>3, <1>4, <1>5, <1>6 DEF RInv

LEMMA SubscribeAnsweredKept == ASSUME SInv, RInv, SubscribeAnswered PROVE RInv'
<1>1. /\ Outside /\ UNCHANGED <<jwt, minted>> /\ backend' = Subscribed
      /\ op.at = "subscribing" /\ queue # <<>>
  BY BusyOK DEF SubscribeAnswered, rest, identity, socket, Outside
<1>2. /\ jwt # NoJwt /\ Subscribed \in [Tokens -> Subs]
      /\ op.token \in Tokens /\ op.token <= fcm
      /\ Subscribed[op.token] = [user |-> User(jwt), info |-> op.info]
      /\ \A t \in Tokens : Subscribed[t] = backend[t] \/ Subscribed[t].user = User(jwt)
      /\ \A t \in Tokens : t > fcm => Subscribed[t] = backend[t]
  BY <1>1, SubscribedOK
<1>3. CASE /\ record' = Sent /\ Resolved
           /\ gaps' = (gaps \cap {"ghost"}) \cup Owed(op.info)
  <2>1. EndOp /\ record' = [token |-> op.token, info |-> op.info] /\ op.info \in Infos
    BY <1>3 DEF Resolved, Sent, SInv, TypesOK, Places
  <2>2. /\ "ghost" \in gaps <=> "ghost" \in gaps'
        /\ "missed" \notin gaps' => op.info # "failed" /\ op.token = DeviceToken
    BY <1>3 DEF Owed
  <2>3. FileOK'
    BY <1>1, <1>2, <2>1, OutsideOK DEF RInv, FileOK, Records
  <2>4. PlacesOK' /\ TokensOK'
    BY <1>1, <1>2, <2>1, <2>2, EndsOK
  <2>5. record'.token = op.token /\ record'.info = op.info
    BY <2>1
  <2>6. RecordOK'
    BY <1>1, <1>2, <2>5 DEF RecordOK, User
  <2>7. OwnerOK'
    <3>1. SUFFICES ASSUME "ghost" \notin gaps', "missed" \notin gaps'
                   PROVE  Subscribed[fcm].user = User(jwt)
      BY <1>1, <1>2, <2>1, OutsideOK DEF OwnerOK, EndOp, NoOp, User
    <3>2. op.token = fcm
      BY <1>2, <2>2, <3>1, DeviceTokenKnown, FcmOK
    <3> QED
      BY <1>2, <3>2
  <2>8. \/ ~Due'
        \/ record' = [token |-> DeviceToken, info |-> Info]
        \/ up /\ Coming(Tail(queue))
    <3>1. SUFFICES ASSUME Due' PROVE record' = [token |-> DeviceToken, info |-> Info]
                                     \/ (up /\ Coming(Tail(queue)))
      OBVIOUS
    <3>2. up /\ "missed" \notin gaps'
      BY <1>1, <3>1, OutsideOK DEF Due
    <3>3. op.info = Info \/ Coming(Tail(queue))
      BY <1>1, <2>2, <3>2 DEF RInv, SendingOK
    <3> QED
      BY <2>1, <2>2, <3>2, <3>3
  <2>9. DueOK' /\ SendingOK'
    BY <1>1, <2>1, <2>8, EndsDue
  <2> QED
    BY <2>3, <2>4, <2>6, <2>7, <2>9 DEF RInv
<1>4. CASE UNCHANGED record /\ gaps' = gaps \cup {"record"} /\ EndOp
  BY <1>1, <1>4, UnrecordedOK
<1> QED
  BY <1>3, <1>4 DEF SubscribeAnswered, Resolved, Rejected, EndFailed

LEMMA SubscribeFailsKept == ASSUME SInv, RInv, SubscribeFails PROVE RInv'
<1>1. /\ Outside /\ UNCHANGED <<jwt, minted, record>> /\ EndOp
      /\ op.at = "subscribing" /\ queue # <<>>
  BY BusyOK DEF SubscribeFails, Rejected, EndFailed, rest, identity, socket, Outside
<1>2. CASE UNCHANGED backend /\ gaps' = gaps \cup {"missed"}
  <2>1. ~Due'
    BY <1>2 DEF Due
  <2> QED
    BY <1>1, <1>2, <2>1, SettlesOK
<1>3. CASE backend' = Subscribed /\ gaps' = gaps \cup {"missed", "record"}
  BY <1>1, <1>3, UnrecordedOK
<1> QED
  BY <1>2, <1>3 DEF SubscribeFails

LEMMA MintKept == ASSUME SInv, RInv, Mint PROVE RInv'
<1>1. /\ Outside /\ UNCHANGED <<record, backend>> /\ Calling({"setIdentity"})
      /\ queue # <<>> /\ Head(queue).kind = "setIdentity"
  BY DEF Mint, OnTurn, Calling, rest, socket, Outside
<1>2. CASE /\ minted' = Append(minted, Head(queue).user) /\ jwt' = Len(minted')
           /\ gaps' = gaps \cup {"user"} /\ Continues("token")
  <2>1. op'.at = "token" /\ op'.token = op.token /\ queue' = queue
    BY <1>2, ReachOK DEF Continues, OpPlaces
  <2>2. jwt' \in 0 .. Len(minted') /\ jwt' # NoJwt
    <3>1. Head(queue).user \in Users
      BY <1>1, TakenCalls DEF Ops
    <3>2. minted \in Seq(Users)
      BY DEF SInv, TypesOK
    <3>3. Len(minted') = Len(minted) + 1 /\ Len(minted) \in Nat
      BY <1>2, <3>1, <3>2, AppendProperties, LenProperties
    <3> QED
      BY <1>2, <3>3 DEF NoJwt
  <2>3. FileOK'
    BY <1>1, <2>2, OutsideOK DEF RInv, FileOK
  <2>4. PlacesOK'
    BY <1>1, <1>2, <2>1, <2>2, OutsideOK DEF RInv, PlacesOK
  <2>5. TokensOK'
    BY <1>1, <2>1, OutsideOK DEF RInv, TokensOK
  <2>6. RecordOK'
    BY <1>2 DEF RecordOK
  <2>7. OwnerOK'
    BY <1>2, <2>1, <2>2 DEF OwnerOK
  <2>8. ~Due'
    BY <1>2 DEF Due
  <2>9. DueOK' /\ SendingOK'
    BY <1>1, <2>1, <2>8, GoesOnDue
  <2> QED
    BY <2>3, <2>4, <2>5, <2>6, <2>7, <2>9 DEF RInv
<1>3. CASE Rejected(FALSE) /\ UNCHANGED <<identity, gaps>>
  <2>1. EndOp /\ UNCHANGED <<jwt, minted, gaps>>
    BY <1>3 DEF Rejected, EndFailed, identity
  <2>2. Due' => Due
    BY <1>1, <2>1, DueKept
  <2> QED
    BY <1>1, <2>1, <2>2, SettlesOK
<1> QED
  BY <1>2, <1>3 DEF Mint

LEMMA PickTokenKept == ASSUME SInv, RInv, PickToken PROVE RInv'
<1>1. /\ Outside /\ UNCHANGED <<jwt, minted, record, backend, gaps>>
      /\ op.at = "token" /\ queue # <<>>
  BY BusyOK DEF PickToken, rest, identity, socket, Outside
<1>2. jwt # NoJwt /\ Head(queue).kind = "setIdentity" /\ (Due' => Due)
  BY <1>1, DueKept DEF RInv, PlacesOK, SInv, OpOK, Calling
<1>3. CASE /\ DeviceToken # NoToken
           /\ op' = [op EXCEPT !.at = "info", !.token = DeviceToken, !.cred = jwt]
           /\ UNCHANGED queue
  <2>1. /\ op'.at = "info" /\ op'.cred = jwt /\ op'.token = DeviceToken
        /\ DeviceToken \in Tokens /\ DeviceToken <= fcm
    BY <1>3, ReadsOK, DeviceTokenOK, DeviceTokenKnown DEF OpPlaces
  <2>2. PlacesOK'
    BY <1>1, <1>2, <2>1, OutsideOK DEF RInv, PlacesOK
  <2> QED
    BY <1>1, <1>2, <1>3, <2>1, <2>2, ContinuesOK
<1>4. CASE EndOp
  BY <1>1, <1>2, <1>4, SettlesOK
<1> QED
  BY <1>3, <1>4 DEF PickToken, Resolved, Rejected, EndFailed

LEMMA UnsubscribeKept == ASSUME SInv, RInv, Unsubscribe PROVE RInv'
<1>1. /\ Outside /\ UNCHANGED <<jwt, minted, record, backend>>
      /\ op.at = "idle" /\ queue # <<>>
  BY DEF Unsubscribe, OnTurn, Calling, rest, identity, socket, Outside
<1>2. CASE /\ jwt # NoJwt /\ DeviceToken # NoToken
           /\ op' = [op EXCEPT !.at = "unsubscribing", !.token = DeviceToken, !.cred = jwt]
           /\ UNCHANGED <<queue, gaps>>
  <2>1. /\ op'.at = "unsubscribing" /\ op'.cred = jwt /\ op'.token = DeviceToken
        /\ DeviceToken \in Tokens /\ DeviceToken <= fcm
        /\ "ghost" \notin gaps' => op'.token = fcm
    BY <1>2, ReadsOK, DeviceTokenOK, DeviceTokenKnown DEF OpPlaces
  <2>2. PlacesOK'
    BY <1>1, <1>2, <2>1, OutsideOK DEF RInv, PlacesOK
  <2>3. Due' => Due
    BY <1>1, <1>2, DueKept
  <2> QED
    BY <1>1, <1>2, <2>1, <2>2, <2>3, ContinuesOK
<1>3. CASE /\ Continues("deleting")
           /\ gaps' = IF jwt = NoJwt THEN gaps ELSE gaps \cup {"ghost"}
  <2>1. op'.at = "deleting" /\ op'.token = op.token /\ queue' = queue
    BY <1>3, ReachOK DEF Continues, OpPlaces
  <2>2. gaps \subseteq gaps' /\ ("ghost" \notin gaps' => "ghost" \notin gaps /\ jwt = NoJwt)
    BY <1>3
  <2>3. PlacesOK'
    BY <1>1, <2>1, <2>2, OutsideOK DEF RInv, PlacesOK
  <2>4. op'.token <= fcm /\ (Due' => Due)
    BY <1>1, <2>1, <2>2, DueKept DEF RInv, TokensOK
  <2>5. "ghost" \notin gaps' => backend[fcm] = NoSubscription
    BY <2>2 DEF RInv, OwnerOK
  <2> QED
    BY <1>1, <2>1, <2>2, <2>3, <2>4, <2>5, ContinuesOK
<1>4. CASE Rejected(FALSE) /\ gaps' = gaps \cup {"missed"}
  <2>1. EndOp /\ ~Due'
    BY <1>4 DEF Rejected, EndFailed, Due
  <2> QED
    BY <1>1, <1>4, <2>1, SettlesOK
<1> QED
  BY <1>2, <1>3, <1>4 DEF Unsubscribe

(* What an Unsubscribe leaves the push API with.                           *)
LEMMA UnsubscribedOK ==
  ASSUME SInv, RInv, op.at = "unsubscribing"
  PROVE  /\ jwt # NoJwt /\ op.token \in Tokens
         /\ Unsubscribed \in [Tokens -> Subs]
         /\ \A t \in Tokens : Unsubscribed[t] = backend[t] \/ Unsubscribed[t] = NoSubscription
         /\ backend[op.token].user = User(jwt) => Unsubscribed[op.token] = NoSubscription
<1>1. jwt # NoJwt /\ op.cred = jwt /\ op.token \in Tokens
  BY DEF RInv, PlacesOK
<1>2. backend \in [Tokens -> Subs] /\ NoSubscription \in Subs
  BY FcmOK DEF RInv, FileOK
<1> QED
  BY <1>1, <1>2 DEF Unsubscribed

LEMMA UnsubscribeAnsweredKept == ASSUME SInv, RInv, UnsubscribeAnswered PROVE RInv'
<1>1. /\ Outside /\ UNCHANGED <<jwt, minted, record>> /\ op.at = "unsubscribing"
      /\ Continues("deleting")
  BY DEF UnsubscribeAnswered, rest, identity, socket, Outside
<1>2. op'.at = "deleting" /\ op'.token = op.token /\ queue' = queue
  BY <1>1, ReachOK DEF Continues, OpPlaces
<1>3. CASE /\ backend' = Unsubscribed
           /\ gaps' = gaps \cup {"record"}
                \cup (IF gaps \cap {"user", "missed"} # {} THEN {"ghost"} ELSE {})
  <2>1. /\ jwt # NoJwt /\ op.token \in Tokens
        /\ Unsubscribed \in [Tokens -> Subs]
        /\ \A t \in Tokens : Unsubscribed[t] = backend[t] \/ Unsubscribed[t] = NoSubscription
        /\ backend[op.token].user = User(jwt) => Unsubscribed[op.token] = NoSubscription
    BY <1>1, UnsubscribedOK
  <2>2. gaps \subseteq gaps' /\ "record" \in gaps'
        /\ ("ghost" \notin gaps' => "user" \notin gaps /\ "missed" \notin gaps)
    BY <1>3
  <2>3. FileOK'
    BY <1>1, <1>3, <2>1, OutsideOK DEF RInv, FileOK
  <2>4. PlacesOK'
    BY <1>1, <1>2, <2>2, OutsideOK DEF RInv, PlacesOK
  <2>5. TokensOK'
    BY <1>1, <1>2, <1>3, <2>1, OutsideOK DEF RInv, TokensOK
  <2>6. RecordOK'
    BY <1>1, <1>3, <2>1, <2>2 DEF RInv, FileOK, RecordOK, User
  <2>7. OwnerOK'
    <3>1. SUFFICES ASSUME "ghost" \notin gaps' PROVE Unsubscribed[fcm] = NoSubscription
      BY <1>1, <1>2, <1>3, OutsideOK DEF OwnerOK
    <3>2. /\ backend[fcm] = NoSubscription \/ backend[fcm].user = User(jwt)
          /\ op.token = fcm \/ backend[fcm] = NoSubscription
      BY <1>1, <2>1, <2>2, <3>1 DEF RInv, OwnerOK
    <3> QED
      BY <2>1, <3>2, FcmOK
  <2>8. ~Due'
    BY <2>2 DEF Due
  <2>9. DueOK' /\ SendingOK'
    BY <1>1, <1>2, <2>8, GoesOnDue
  <2> QED
    BY <2>3, <2>4, <2>5, <2>6, <2>7, <2>9 DEF RInv
<1>4. CASE UNCHANGED backend /\ gaps' = gaps \cup {"ghost"}
  <2>1. PlacesOK'
    BY <1>1, <1>2, <1>4, OutsideOK DEF RInv, PlacesOK
  <2>2. op'.token <= fcm /\ (Due' => Due) /\ "ghost" \in gaps'
    BY <1>1, <1>2, <1>4, DueKept DEF RInv, TokensOK
  <2> QED
    BY <1>1, <1>2, <1>4, <2>1, <2>2, ContinuesOK
<1> QED
  BY <1>3, <1>4 DEF UnsubscribeAnswered

LEMMA DeleteTokenKept == ASSUME SInv, RInv, DeleteToken PROVE RInv'
<1>1. /\ Outside /\ UNCHANGED <<minted, record, backend>> /\ op.at = "deleting"
      /\ queue # <<>>
  BY BusyOK DEF DeleteToken, rest, socket, Outside
<1>2. CASE jwt' = NoJwt /\ Continues("clearing") /\ UNCHANGED gaps
  <2>1. op'.at = "clearing" /\ op'.token = op.token /\ queue' = queue
    BY <1>2, ReachOK DEF Continues, OpPlaces
  <2>2. FileOK'
    <3>1. Len(minted) \in Nat
      BY LenProperties DEF SInv, TypesOK
    <3> QED
      BY <1>1, <1>2, <3>1, OutsideOK DEF RInv, FileOK, NoJwt
  <2>3. PlacesOK'
    BY <1>1, <1>2, <2>1, OutsideOK DEF RInv, PlacesOK
  <2>4. TokensOK'
    BY <1>1, <2>1, OutsideOK DEF RInv, TokensOK
  <2>5. RecordOK'
    BY <1>2 DEF RecordOK
  <2>6. OwnerOK'
    BY <1>1, <1>2, <2>1, OutsideOK DEF RInv, OwnerOK
  <2>7. ~Due'
    BY <1>2 DEF Due
  <2>8. DueOK' /\ SendingOK'
    BY <1>1, <2>1, <2>7, GoesOnDue
  <2> QED
    BY <2>2, <2>3, <2>4, <2>5, <2>6, <2>8 DEF RInv
<1>3. CASE Rejected(FALSE) /\ UNCHANGED jwt /\ gaps' = gaps \cup {"missed"}
  <2>1. EndOp /\ ~Due'
    BY <1>3 DEF Rejected, EndFailed, Due
  <2> QED
    BY <1>1, <1>3, <2>1, SettlesOK
<1> QED
  BY <1>2, <1>3 DEF DeleteToken

LEMMA ClearRecordsKept == ASSUME SInv, RInv, ClearRecords PROVE RInv'
<1>1. /\ Outside /\ UNCHANGED <<jwt, minted, backend>> /\ op.at = "clearing"
      /\ queue # <<>> /\ EndOp
  BY BusyOK DEF ClearRecords, Resolved, Rejected, EndFailed, rest, identity, socket, Outside
<1>2. jwt = NoJwt /\ ~Due'
  BY <1>1 DEF RInv, PlacesOK, Due
<1>3. CASE record' = NoRecord /\ gaps' = gaps \cap {"ghost"}
  <2>1. FileOK'
    BY <1>1, <1>3, OutsideOK DEF RInv, FileOK, NoRecord, Records, Infos
  <2>2. PlacesOK' /\ TokensOK'
    BY <1>1, <1>3, EndsOK
  <2>3. RecordOK'
    BY <1>3 DEF RecordOK
  <2>4. OwnerOK'
    BY <1>1, <1>2, <1>3, OutsideOK DEF RInv, OwnerOK, EndOp, NoOp
  <2>5. DueOK' /\ SendingOK'
    BY <1>1, <1>2, EndsDue
  <2> QED
    BY <2>1, <2>2, <2>3, <2>4, <2>5 DEF RInv
<1>4. CASE UNCHANGED <<record, gaps>>
  BY <1>1, <1>2, <1>4, SettlesOK
<1> QED
  BY <1>3, <1>4 DEF ClearRecords

(* The device has changed and its watcher has said so, if there is one.    *)
LEMMA InfoMovesOK ==
  ASSUME RInv, TellInfo, UNCHANGED <<jwt, minted, record, backend, up, timer>>,
         UNCHANGED <<deviceVars, gaps, queue>>,
         op' = op \/ (op'.at \in {"switched", "stopping"} /\ op'.token = op.token)
  PROVE  RInv'
<1>1. DeviceToken' = DeviceToken /\ fcm' = fcm /\ provided' = provided
  BY DEF deviceVars, DeviceToken
<1>2. event' \in BOOLEAN /\ (event => event') /\ (up /\ Info' # Info => event')
  BY DEF TellInfo, RInv, FileOK
<1>3. FileOK'
  BY <1>2 DEF RInv, FileOK
<1>4. PlacesOK' /\ TokensOK'
  BY <1>1 DEF RInv, PlacesOK, TokensOK
<1>5. RecordOK'
  BY RecordKept
<1>6. OwnerOK'
  BY <1>1 DEF RInv, OwnerOK, User
<1>7. /\ Due' <=> Due
      /\ Coming(queue)' <=> event' \/ timer \/ Checks(queue)
      /\ Coming(Tail(queue))' <=> event' \/ timer \/ Checks(Tail(queue))
  BY <1>1 DEF Due, Coming, Checks
<1>8. DueOK'
  BY <1>1, <1>2, <1>7 DEF RInv, DueOK, Due, Coming
<1>9. SendingOK'
  BY <1>2, <1>7 DEF RInv, SendingOK, Coming
<1> QED
  BY <1>3, <1>4, <1>5, <1>6, <1>8, <1>9 DEF RInv

LEMMA ApplySwitchKept == ASSUME SInv, RInv, ApplySwitch PROVE RInv'
<1>1. /\ UNCHANGED <<jwt, minted, record, backend, up, timer, deviceVars, gaps>>
      /\ queue # <<>> /\ Head(queue).kind \in {"applySwitch", "setRelayEnabled"}
  BY DEF ApplySwitch, OnTurn, Calling, rest, identity
<1>2. ASSUME NEW place \in {"switched", "stopping"}, Reach(place), TellInfo PROVE RInv'
  <2>1. op'.at = place /\ op'.token = op.token /\ queue' = queue
    BY <1>2, ReachOK DEF OpPlaces
  <2> QED
    BY <1>1, <1>2, <2>1, InfoMovesOK
<1>3. CASE Rejected(FALSE) /\ UNCHANGED socket
  <2>1. EndOp /\ Outside
    BY <1>1, <1>3 DEF Rejected, EndFailed, socket, Outside
  <2>2. Due' => Due
    BY <1>1, <2>1, DueKept
  <2> QED
    BY <1>1, <2>1, <2>2, SettlesOK
<1>4. CASE EndFailed /\ TellInfo
  <2>1. op' = NoOp /\ queue' = Tail(queue)
    BY <1>4 DEF EndFailed, EndOp
  <2>2. DeviceToken' = DeviceToken /\ fcm' = fcm /\ provided' = provided
    BY <1>1 DEF deviceVars, DeviceToken
  <2>3. event' \in BOOLEAN /\ (event => event') /\ (up /\ Info' # Info => event')
    BY <1>4 DEF TellInfo, RInv, FileOK
  <2>4. FileOK'
    BY <1>1, <2>3 DEF RInv, FileOK
  <2>5. PlacesOK'
    BY <1>1, <2>1, <2>2 DEF RInv, PlacesOK, NoOp
  <2>6. TokensOK'
    <3>1. op'.token <= fcm
      BY <2>1, FcmOK DEF NoOp, NoToken
    <3>2. \A call \in Range(queue') : call \in Range(queue)
      BY <1>1, <2>1, TakenCalls
    <3> QED
      BY <1>1, <2>2, <3>1, <3>2 DEF RInv, TokensOK
  <2>7. RecordOK'
    BY <1>1, RecordKept
  <2>8. OwnerOK'
    BY <1>1, <2>1, <2>2 DEF RInv, OwnerOK, NoOp, User
  <2>9. /\ Due' <=> Due
        /\ Coming(queue)' <=> event' \/ timer \/ Checks(Tail(queue))
    BY <1>1, <2>1, <2>2 DEF Due, Coming, Checks
  <2>10. Checks(queue) <=> Checks(Tail(queue))
    BY <1>1, TakenCalls
  <2>11. DueOK' /\ SendingOK'
    BY <1>1, <2>1, <2>2, <2>3, <2>9, <2>10 DEF RInv, DueOK, SendingOK, Due, Coming, NoOp
  <2> QED
    BY <2>4, <2>5, <2>6, <2>7, <2>8, <2>11 DEF RInv
<1> QED
  BY <1>2, <1>3, <1>4 DEF ApplySwitch

LEMMA StopJsKept == ASSUME SInv, RInv, StopJs PROVE RInv'
<1>1. /\ Outside /\ UNCHANGED <<jwt, minted, record, backend, gaps>> /\ Reach("stopped")
  BY DEF StopJs, rest, identity, socket, Outside
<1>2. op'.at = "stopped" /\ op'.token = op.token /\ queue' = queue /\ (Due' => Due)
  BY <1>1, ReachOK, DueKept DEF OpPlaces
<1>3. PlacesOK' /\ op'.token <= fcm
  BY <1>1, <1>2, OutsideOK DEF RInv, PlacesOK, TokensOK
<1> QED
  BY <1>1, <1>2, <1>3, ContinuesOK

LEMMA SwitchedKept == ASSUME SInv, RInv, Switched PROVE RInv'
<1>1. /\ Outside /\ UNCHANGED <<jwt, minted, record, backend, gaps>> /\ queue # <<>>
      /\ Due' => Due
  BY BusyOK, DueKept DEF Switched, rest, identity, socket, Outside
<1>2. CASE Calling({"applySwitch"}) /\ Resolved
  <2>1. EndOp /\ Head(queue).kind = "applySwitch"
    BY <1>2 DEF Resolved, Calling
  <2> QED
    BY <1>1, <2>1, SettlesOK
<1>3. CASE Continues("rechecking")
  <2>1. op'.at = "rechecking" /\ op'.token = op.token /\ queue' = queue
    BY <1>3, ReachOK DEF Continues, OpPlaces
  <2>2. PlacesOK' /\ op'.token <= fcm
    BY <1>1, <2>1, OutsideOK DEF RInv, PlacesOK, TokensOK
  <2> QED
    BY <1>1, <2>1, <2>2, ContinuesOK
<1> QED
  BY <1>2, <1>3 DEF Switched

LEMMA OpStepKept == ASSUME SInv, RInv, OpStep PROVE RInv'
BY CheckKept, FetchInfoKept, SubscribeAnsweredKept, SubscribeFailsKept, MintKept, PickTokenKept,
   UnsubscribeKept, UnsubscribeAnsweredKept, DeleteTokenKept, ClearRecordsKept, ApplySwitchKept,
   StopJsKept, SwitchedKept
   DEF OpStep

-----------------------------------------------------------------------------
(* So do the socket, the host and the platform.                            *)

LEMMA SocketStepKept == ASSUME SInv, RInv, SocketStep PROVE RInv'
<1>1. /\ TellInfo /\ op' = op
      /\ UNCHANGED <<minted, record, backend, up, timer, deviceVars, gaps, queue>>
  BY DEF SocketStep
<1>2. jwt' = jwt
  BY DEF SocketStep, FacadeStep, SwitchRead, ResolveCredentials, ExpiredToken, StopBeforeStart,
         NativeStart, StopTurn, StopJsTurn, RefreshTurn, RefreshIdle, RefreshStops
<1> QED
  BY <1>1, <1>2, InfoMovesOK

(* What a new call is to the checks that are on their way.                 *)
LEMMA JoinedChecks ==
  ASSUME SInv, NEW q \in Seq(Ops), NEW call \in Ops, NEW r, r = Append(q, call),
         \A c \in Range(q) : c.kind = "check" => c.token <= fcm,
         call.kind = "check" => call.token <= fcm
  PROVE  /\ Checks(r) <=> Checks(q) \/ call.kind \in {"check", "removeIdentity"}
         /\ q # <<>> =>
              (Checks(Tail(r)) <=> Checks(Tail(q)) \/ call.kind \in {"check", "removeIdentity"})
         /\ \A c \in Range(r) : c.kind = "check" => c.token <= fcm
<1>1. \A c : c \in Range(r) <=> (c \in Range(q) \/ c = call)
  BY AppendedRange
<1>2. q # <<>> => \A c : c \in Range(Tail(r)) <=> (c \in Range(Tail(q)) \/ c = call)
  BY AppendedRest
<1> QED
  BY <1>1, <1>2 DEF Checks

LEMMA CallKept ==
  ASSUME SInv, RInv, NEW call \in Ops, Enqueue(call),
         call.kind = "check" => call.token <= fcm,
         UNCHANGED <<jwt, relay, native, op, up, minted, deviceVars, record, backend, event, gaps>>,
         \/ timer' = timer
         \/ timer' = FALSE /\ call.kind \in {"check", "removeIdentity"}
  PROVE  RInv'
<1>1. queue \in Seq(Ops) /\ \A c \in Range(queue) : c.kind = "check" => c.token <= fcm
  BY DEF SInv, TypesOK, RInv, TokensOK
<1>2. /\ Checks(queue') <=> Checks(queue) \/ call.kind \in {"check", "removeIdentity"}
      /\ queue # <<>> =>
           (Checks(Tail(queue')) <=>
              Checks(Tail(queue)) \/ call.kind \in {"check", "removeIdentity"})
      /\ \A c \in Range(queue') : c.kind = "check" => c.token <= fcm
  BY <1>1, JoinedChecks DEF Enqueue
<1>3. /\ DeviceToken' = DeviceToken /\ Info' = Info /\ fcm' = fcm /\ provided' = provided
      /\ Due' <=> Due
  BY DEF deviceVars, DeviceToken, Info, Due
<1>4. FileOK' /\ PlacesOK' /\ TokensOK'
  BY <1>2, <1>3 DEF RInv, FileOK, PlacesOK, TokensOK
<1>5. RecordOK' /\ OwnerOK'
  BY <1>3 DEF RInv, RecordOK, OwnerOK, User
<1>6. Coming(queue) => Coming(queue)'
  BY <1>2 DEF Coming, Checks
<1>7. queue # <<>> /\ Coming(Tail(queue)) => Coming(Tail(queue))'
  BY <1>2 DEF Coming, Checks
<1>8. DueOK'
  BY <1>3, <1>6 DEF RInv, DueOK
<1>9. SendingOK'
  BY <1>3, <1>7, BusyOK DEF RInv, SendingOK
<1> QED
  BY <1>4, <1>5, <1>8, <1>9 DEF RInv

(* A check at the end of the queue is enough for whatever is due.          *)
LEMMA CheckedKept ==
  ASSUME SInv, RInv, UNCHANGED <<jwt, minted, record, backend, op, deviceVars, gaps>>,
         up' \in BOOLEAN /\ event' \in BOOLEAN /\ timer' \in BOOLEAN,
         Checks(queue'), queue # <<>> => Checks(Tail(queue')),
         \A c \in Range(queue') : c.kind = "check" => c.token <= fcm
  PROVE  RInv'
<1>1. fcm' = fcm /\ provided' = provided
  BY DEF deviceVars
<1>2. FileOK' /\ PlacesOK' /\ TokensOK'
  BY <1>1 DEF RInv, FileOK, PlacesOK, TokensOK
<1>3. RecordOK' /\ OwnerOK'
  BY <1>1 DEF RInv, RecordOK, OwnerOK, User
<1>4. Coming(queue)' /\ (queue # <<>> => Coming(Tail(queue))')
  BY DEF Coming, Checks
<1>5. DueOK' /\ SendingOK'
  BY <1>4, BusyOK DEF DueOK, SendingOK
<1> QED
  BY <1>2, <1>3, <1>5 DEF RInv

LEMMA InitializeKept == ASSUME SInv, RInv, Initialize PROVE RInv'
<1> DEFINE check == [kind |-> "check", token |-> NoToken]
<1>1. /\ UNCHANGED <<jwt, minted, record, backend, op, deviceVars, gaps>>
      /\ up' \in BOOLEAN /\ event' \in BOOLEAN /\ timer' \in BOOLEAN
  BY DEF Initialize, facade, facadeVars, RInv, FileOK
<1>2. /\ check \in Ops /\ check.kind = "check" /\ check.token <= fcm
      /\ queue \in Seq(Ops)
      /\ \A c \in Range(queue) : c.kind = "check" => c.token <= fcm
  BY FcmOK DEF Ops, NoToken, SInv, TypesOK, RInv, TokensOK
<1>3. ASSUME NEW first \in Seq(Ops), queue # <<>> => first # <<>>,
             \A c \in Range(first) : c.kind = "check" => c.token <= fcm,
             queue' = first \o <<check>>
      PROVE  RInv'
  <2> HIDE DEF check
  <2>1. queue' = Append(first, check)
    BY <1>2, <1>3, AppendIsConcat
  <2>2. /\ Checks(queue') /\ (first # <<>> => Checks(Tail(queue')))
        /\ \A c \in Range(queue') : c.kind = "check" => c.token <= fcm
    BY <1>2, <1>3, <2>1, JoinedChecks
  <2> QED
    BY <1>1, <1>3, <2>2, CheckedKept
<1>4. ASSUME NEW enabled \in BOOLEAN,
             queue' = queue \o <<[kind |-> "applySwitch", enabled |-> enabled]>> \o <<check>>
      PROVE  RInv'
  <2> DEFINE switch == [kind |-> "applySwitch", enabled |-> enabled]
             first  == queue \o <<switch>>
  <2>1. switch \in Ops /\ switch.kind # "check"
    BY DEF Ops
  <2>2. queue' = first \o <<check>>
    BY <1>4
  <2> HIDE DEF check, switch
  <2>3. first = Append(queue, switch)
    BY <1>2, <2>1, AppendIsConcat
  <2> HIDE DEF first
  <2>4. first \in Seq(Ops) /\ first # <<>>
    BY <1>2, <2>1, <2>3, AppendedOK
  <2>5. \A c \in Range(first) : c.kind = "check" => c.token <= fcm
    BY <1>2, <2>1, <2>3, JoinedChecks
  <2> QED
    BY <1>3, <2>2, <2>4, <2>5
<1> QED
  BY <1>2, <1>3, <1>4 DEF Initialize

LEMMA SetDeviceTokenKept == ASSUME SInv, RInv, SetDeviceToken PROVE RInv'
<1>1. /\ UNCHANGED <<jwt, relay, native, queue, op, up, minted, fcm>>
      /\ UNCHANGED <<record, backend, event, timer>>
      /\ gaps' = gaps \cup {"missed", "ghost"}
  BY DEF SetDeviceToken, facadeVars
<1>2. FileOK' /\ PlacesOK' /\ TokensOK'
  BY <1>1 DEF RInv, FileOK, PlacesOK, TokensOK
<1>3. RecordOK' /\ OwnerOK' /\ DueOK'
  BY <1>1 DEF RInv, RecordOK, OwnerOK, DueOK, Due, User
<1>4. Info' = Info /\ Coming(Tail(queue))' = Coming(Tail(queue))
  BY <1>1 DEF Info, Coming, Checks
<1>5. SendingOK'
  BY <1>1, <1>4 DEF RInv, SendingOK
<1> QED
  BY <1>2, <1>3, <1>5 DEF RInv

(* A step that none of this is about.                                      *)
LEMMA UntouchedKept ==
  ASSUME RInv, UNCHANGED <<jwt, relay, native, queue, op, up, minted, deviceVars>>,
         UNCHANGED <<record, backend, gaps>>, event' \in BOOLEAN, timer' \in BOOLEAN,
         event \/ timer => event' \/ timer'
  PROVE  RInv'
<1>1. /\ DeviceToken' = DeviceToken /\ Info' = Info /\ fcm' = fcm /\ provided' = provided
      /\ Due' <=> Due
  BY DEF deviceVars, DeviceToken, Info, Due
<1>2. FileOK' /\ PlacesOK' /\ TokensOK'
  BY <1>1 DEF RInv, FileOK, PlacesOK, TokensOK
<1>3. RecordOK' /\ OwnerOK'
  BY <1>1 DEF RInv, RecordOK, OwnerOK, User
<1>4. /\ Coming(queue) => Coming(queue)'
      /\ Coming(Tail(queue)) => Coming(Tail(queue))'
  BY DEF Coming, Checks
<1>5. DueOK' /\ SendingOK'
  BY <1>1, <1>4 DEF RInv, DueOK, SendingOK
<1> QED
  BY <1>2, <1>3, <1>5 DEF RInv

LEMMA SocketCallKept == ASSUME SInv, RInv, SocketCall PROVE RInv'
BY UntouchedKept DEF SocketCall, RInv, FileOK

LEMMA HostStepKept == ASSUME SInv, RInv, HostStep PROVE RInv'
<1>1. CASE Initialize
  BY <1>1, InitializeKept
<1>2. ASSUME NEW user \in Users, SetIdentity(user) PROVE RInv'
  <2> DEFINE call == [kind |-> "setIdentity", user |-> user]
  <2>1. call \in Ops /\ call.kind = "setIdentity" /\ Enqueue(call)
    BY <1>2 DEF Ops, SetIdentity
  <2> HIDE DEF call
  <2> QED
    BY <1>2, <2>1, CallKept DEF SetIdentity, facade, facadeVars
<1>3. CASE RemoveIdentity
  <2> DEFINE call == [kind |-> "removeIdentity"]
  <2>1. call \in Ops /\ call.kind = "removeIdentity" /\ Enqueue(call)
    BY <1>3 DEF Ops, RemoveIdentity
  <2> HIDE DEF call
  <2> QED
    BY <1>3, <2>1, CallKept DEF RemoveIdentity, facade, facadeVars
<1>4. ASSUME NEW enabled \in BOOLEAN, SetRelayEnabled(enabled) PROVE RInv'
  <2> DEFINE call == [kind |-> "setRelayEnabled", enabled |-> enabled]
  <2>1. call \in Ops /\ call.kind = "setRelayEnabled" /\ Enqueue(call)
    BY <1>4 DEF Ops, SetRelayEnabled
  <2> HIDE DEF call
  <2> QED
    BY <1>4, <2>1, CallKept DEF SetRelayEnabled, facade, facadeVars
<1>5. CASE SetDeviceToken
  BY <1>5, SetDeviceTokenKept
<1>6. CASE SocketCall
  BY <1>6, SocketCallKept
<1> QED
  BY <1>1, <1>2, <1>3, <1>4, <1>5, <1>6 DEF HostStep

LEMMA TokenReceivedKept == ASSUME SInv, RInv, TokenReceived PROVE RInv'
<1>1. /\ UNCHANGED <<jwt, relay, native, op, up, minted, provided>>
      /\ UNCHANGED <<record, backend, event, timer, gaps>>
  BY DEF TokenReceived, facadeVars
<1>2. fcm' \in Tokens /\ fcm' \in Nat /\ (fcm' = fcm \/ fcm' > fcm)
  BY FcmOK, SubscriptionsAssumption DEF TokenReceived, SInv, TypesOK, Tokens
<1>3. fcm \in Nat /\ (\A t \in Tokens : t \in Int) /\ op.token \in Int
  BY FcmOK DEF SInv, TypesOK, Places, NoToken
<1>4. op'.token <= fcm' /\ \A t \in Tokens : t > fcm' => backend'[t] = NoSubscription
  <2>1. op.token <= fcm /\ \A t \in Tokens : t > fcm => backend[t] = NoSubscription
    BY DEF RInv, TokensOK
  <2>2. \A t \in Tokens : t > fcm' => t > fcm
    BY <1>2, <1>3
  <2> QED
    BY <1>1, <1>2, <1>3, <2>1, <2>2
<1>5. \A c \in Range(queue) : c.kind = "check" => c.token <= fcm'
  <2>1. ASSUME NEW c \in Range(queue), c.kind = "check" PROVE c.token <= fcm'
    <3>1. c.token <= fcm
      BY <2>1 DEF RInv, TokensOK
    <3>2. c \in Ops
      BY RangeEquality DEF SInv, TypesOK, Range
    <3>3. c.token \in Tokens \cup {NoToken}
      BY <2>1, <3>2 DEF Ops
    <3>4. c.token \in Int
      BY <1>3, <3>3 DEF NoToken
    <3> QED
      BY <1>2, <1>3, <3>1, <3>4
  <2> QED
    BY <2>1
<1>6. ASSUME up PROVE TokensOK' /\ DueOK' /\ SendingOK'
  <2>1. PICK token \in Tokens : token = fcm'
    BY <1>2
  <2> DEFINE check == [kind |-> "check", token |-> token]
  <2>2. check \in Ops /\ check.kind = "check" /\ check.token = token
    BY DEF Ops
  <2>3. queue' = Append(queue, check)
    BY <1>6, <2>1 DEF TokenReceived, Enqueue
  <2> HIDE DEF check
  <2>4. queue \in Seq(Ops)
    BY DEF SInv, TypesOK
  <2>5. /\ \A c : c \in Range(queue') <=> (c \in Range(queue) \/ c = check)
        /\ queue # <<>> =>
             \A c : c \in Range(Tail(queue')) <=> (c \in Range(Tail(queue)) \/ c = check)
    BY <2>2, <2>3, <2>4, AppendedRange, AppendedRest
  <2>6. /\ Checks(queue') /\ (queue # <<>> => Checks(Tail(queue')))
        /\ \A c \in Range(queue') : c.kind = "check" => c.token <= fcm'
    BY <1>2, <1>5, <2>1, <2>2, <2>5 DEF Checks
  <2>7. TokensOK'
    BY <1>4, <2>6 DEF TokensOK
  <2>8. Coming(queue)' /\ (queue # <<>> => Coming(Tail(queue))')
    BY <2>6 DEF Coming, Checks
  <2>9. DueOK' /\ SendingOK'
    BY <1>1, <2>8, BusyOK DEF DueOK, SendingOK
  <2> QED
    BY <2>7, <2>9
<1>7. ASSUME ~up PROVE TokensOK' /\ DueOK' /\ SendingOK'
  <2>1. queue' = queue
    BY <1>7 DEF TokenReceived
  <2>2. TokensOK'
    BY <1>4, <1>5, <2>1 DEF TokensOK
  <2>3. DueOK' /\ SendingOK'
    BY <1>1, <1>7 DEF DueOK, Due, SendingOK
  <2> QED
    BY <2>2, <2>3
<1>8. FileOK' /\ PlacesOK'
  BY <1>1 DEF RInv, FileOK, PlacesOK
<1>9. RecordOK'
  BY <1>1, RecordKept
<1>10. OwnerOK'
  <2>1. CASE fcm' = fcm
    BY <1>1, <2>1 DEF RInv, OwnerOK, User
  <2>2. CASE fcm' > fcm
    BY <1>1, <1>2, <2>2 DEF RInv, TokensOK, OwnerOK
  <2> QED
    BY <1>2, <2>1, <2>2
<1> QED
  BY <1>6, <1>7, <1>8, <1>9, <1>10 DEF RInv

LEMMA InfoChangedKept == ASSUME SInv, RInv, InfoChanged PROVE RInv'
BY UntouchedKept DEF InfoChanged, facadeVars

LEMMA TimerFiresKept == ASSUME SInv, RInv, TimerFires PROVE RInv'
<1> DEFINE call == [kind |-> "check", token |-> NoToken]
<1>1. call \in Ops /\ call.kind = "check" /\ call.token <= fcm /\ Enqueue(call)
  BY FcmOK DEF Ops, NoToken, TimerFires
<1> HIDE DEF call
<1> QED
  BY <1>1, CallKept DEF TimerFires, facadeVars

LEMMA StutterKept == ASSUME SInv, RInv, UNCHANGED vars PROVE RInv'
BY UntouchedKept DEF vars, facadeVars, subVars, RInv, FileOK

(* What was on the wire may have arrived.                                  *)
LEMMA RestartKept == ASSUME SInv, RInv, Restart PROVE RInv'
<1>1. /\ UNCHANGED <<jwt, minted, fcm, record>> /\ op' = NoOp /\ queue' = <<>>
      /\ up' = FALSE /\ event' = FALSE /\ timer' = FALSE /\ provided' = FALSE
  BY DEF Restart
<1>2. fcm \in Tokens /\ fcm \in Nat /\ NoSubscription \in Subs
  BY FcmOK
<1>3. /\ op'.at = "idle" /\ op'.token <= fcm /\ Range(queue') = {}
  <2>1. Range(<<>>) = {}
    BY DEF Range
  <2> QED
    BY <1>1, <1>2, <2>1 DEF NoOp, NoToken
<1>4. PlacesOK' /\ DueOK' /\ SendingOK'
  BY <1>1, <1>3 DEF PlacesOK, DueOK, Due, SendingOK
<1>5. ASSUME backend' \in [Tokens -> Subs],
             \A t \in Tokens : t > fcm => backend'[t] = backend[t] \/ backend'[t] = NoSubscription,
             gaps \subseteq gaps',
             \/ backend' = backend /\ gaps' = gaps
             \/ /\ jwt # NoJwt /\ "record" \in gaps'
                /\ \A t \in Tokens : \/ backend'[t] = backend[t] \/ backend'[t] = NoSubscription
                                     \/ backend'[t].user = User(jwt)
      PROVE  RInv'
  <2>1. FileOK'
    BY <1>1, <1>5 DEF RInv, FileOK
  <2>2. TokensOK'
    BY <1>1, <1>3, <1>5 DEF RInv, TokensOK
  <2>3. RecordOK'
    BY <1>1, <1>5 DEF RInv, FileOK, RecordOK, User
  <2>4. OwnerOK'
    BY <1>1, <1>2, <1>3, <1>5 DEF RInv, OwnerOK, User
  <2> QED
    BY <1>4, <2>1, <2>2, <2>3, <2>4 DEF RInv
<1>6. CASE UNCHANGED <<backend, gaps>>
  BY <1>5, <1>6 DEF RInv, FileOK
<1>7. CASE op.at = "subscribing" /\ backend' = Subscribed /\ gaps' = gaps \cup {"record"}
  BY <1>5, <1>7, SubscribedOK
<1>8. CASE op.at = "unsubscribing" /\ backend' = Unsubscribed /\ gaps' = gaps \cup {"record"}
  BY <1>5, <1>8, UnsubscribedOK
<1> QED
  BY <1>6, <1>7, <1>8 DEF Restart

LEMMA InitKept == ASSUME Init PROVE RInv
<1>1. fcm \in Tokens /\ fcm \in Nat /\ NoSubscription \in Subs
  BY InitOK, FcmOK
<1>2. /\ jwt = NoJwt /\ minted = <<>> /\ record = NoRecord /\ op = NoOp /\ queue = <<>>
      /\ up = FALSE /\ event = FALSE /\ timer = FALSE /\ provided = FALSE
      /\ backend = [t \in Tokens |-> NoSubscription]
  BY DEF Init, FacadeInit
<1>3. FileOK
  <2>1. NoRecord \in Records
    BY DEF NoRecord, Records, Infos
  <2>2. Len(minted) = 0
    BY <1>2
  <2>3. backend \in [Tokens -> Subs]
    BY <1>1, <1>2
  <2>4. jwt \in 0 .. Len(minted)
    BY <1>2, <2>2 DEF NoJwt
  <2> QED
    BY <1>2, <2>1, <2>3, <2>4 DEF FileOK
<1>4. PlacesOK /\ RecordOK /\ DueOK /\ SendingOK
  BY <1>2 DEF PlacesOK, RecordOK, DueOK, Due, SendingOK, NoOp
<1>5. TokensOK
  <2>1. Range(queue) = {}
    BY <1>2 DEF Range
  <2> QED
    BY <1>1, <1>2, <2>1 DEF TokensOK, NoOp, NoToken
<1>6. OwnerOK
  BY <1>1, <1>2 DEF OwnerOK, NoOp
<1> QED
  BY <1>3, <1>4, <1>5, <1>6 DEF RInv

LEMMA StepKept == ASSUME SInv, RInv, [Next]_vars PROVE RInv'
BY OpStepKept, SocketStepKept, HostStepKept, TokenReceivedKept, InfoChangedKept, TimerFiresKept,
   RestartKept, StutterKept
   DEF Next

LEMMA Recorded == Spec => []RInv
<1>1. Init => RInv
  BY InitKept
<1>2. SInv /\ RInv /\ [Next]_vars => RInv'
  BY StepKept
<1> QED
  BY <1>1, <1>2, Invariance, PTL DEF Spec

-----------------------------------------------------------------------------
(* A check may be skipped on the fingerprint (resubscribeIfChanged): it is  *)
(* what the push API has of the user of the stored JWT, whatever crash,     *)
(* failure or rotation of tokens came between.                             *)
THEOREM RecordCorrect == Spec => []RecordMatchesBackend
<1>1. RInv => RecordMatchesBackend
  BY DEF RInv, RecordOK, RecordMatchesBackend
<1> QED
  BY <1>1, Recorded, PTL

(* With nothing under way the push API has the device token and the facts   *)
(* of the device as they are, unless an attempt has failed: no change is    *)
(* lost between the watchers, the debounce, the queue and the skip.        *)
THEOREM UpToDateCorrect == Spec => []BackendUpToDate
<1>1. ASSUME RInv PROVE BackendUpToDate
  <2>1. SUFFICES ASSUME Quiet, up, ~event, ~timer, jwt # NoJwt, DeviceToken # NoToken,
                        gaps \cap {"user", "record", "missed"} = {}
                 PROVE  backend[DeviceToken] = [user |-> User(jwt), info |-> Info]
    BY DEF BackendUpToDate
  <2> USE <1>1
  <2>2. ~Coming(queue)
    BY <2>1 DEF Quiet, Coming, Checks, Range
  <2>3. record = [token |-> DeviceToken, info |-> Info]
    <3>1. "user" \notin gaps /\ "record" \notin gaps /\ "missed" \notin gaps
      BY <2>1
    <3>2. Due
      BY <2>1, <3>1 DEF Due
    <3> QED
      BY <2>2, <3>2 DEF RInv, DueOK
  <2>4. record # NoRecord /\ record.token = DeviceToken /\ record.info = Info
    BY <2>1, <2>3 DEF NoRecord
  <2> QED
    <3>1. "user" \notin gaps /\ "record" \notin gaps
      BY <2>1
    <3> QED
      BY <2>1, <2>4, <3>1 DEF RInv, RecordOK
<1> QED
  BY <1>1, Recorded, PTL

(* Once logged out nobody is subscribed with the token of this device       *)
(* (removeIdentity), unless an Unsubscribe has failed, none could be made,  *)
(* or the host has overridden the token.                                   *)
THEOREM GhostCorrect == Spec => []NoGhost
<1>1. ASSUME SInv, RInv PROVE NoGhost
  <2>1. "ghost" \notin gaps /\ DeviceToken # NoToken => DeviceToken = fcm
    BY <1>1, DeviceTokenKnown
  <2>2. OwnerOK
    BY <1>1 DEF RInv
  <2> QED
    BY <2>1, <2>2 DEF OwnerOK, NoGhost
<1> QED
  BY <1>1, Invariance, Recorded, PTL
=============================================================================
