------------------------- MODULE PushSocketFacade -------------------------
(***************************************************************************)
(* The JS side of the push socket (src/pushSocket/index.ts): the queue that *)
(* start, stop and refresh go through, the two configurations it keeps, and *)
(* the native socket behind it.                                            *)
(*                                                                         *)
(* JS runs to the next await, so a step is what happens between two awaits; *)
(* where nothing outside the queue can see or change what is touched, two  *)
(* of them are one step.  The stored JWT and the relay switch belong to    *)
(* index.tsx (module Subscriptions), which EXTENDS this one.               *)
(***************************************************************************)
EXTENDS Integers, Sequences, SequencesExt

CONSTANT MaxFaults   (* bound on what storage, native and the backend refuse *)

ASSUME FaultsAssumption == MaxFaults \in Nat

(* A JWT is the number of its minting.  No JWT, and the one a host passes  *)
(* to startPushSocket itself. *)
NoJwt     == 0
PinnedJwt == -1

(* A start that takes the stored JWT and one that brings its own; a stop,  *)
(* and the one that leaves native alone; refreshPushSocketAuth.            *)
StartOps == {"startStored", "startPinned"}
SocketOps == StartOps \cup {"stop", "stopJs", "refresh"}

VARIABLES
  jwt,        (* the stored JWT                                            *)
  relay,      (* the relay switch native persists                          *)
  native,     (* what the native socket runs with, NoJwt when it is down   *)
  requested,  (* requestedConfig: "none", or what the start took           *)
  active,     (* activeConfig: its authToken                               *)
  polling,    (* nativePollTimer is set                                    *)
  sockets,    (* socketLock: the calls that have not settled, oldest first *)
  turn,       (* where the oldest of them is, and the token it resolved    *)
  faults,     (* refusals so far                                           *)
  astray      (* history: why native may run with what JS does not know   *)

Waiting == [at |-> "waiting", cred |-> NoJwt]

socketVars == <<requested, active, polling, sockets, turn, astray>>
facadeVars == <<jwt, relay, native, socketVars, faults>>

FacadeInit ==
  /\ jwt = NoJwt
  /\ native = NoJwt
  /\ requested = "none"
  /\ active = NoJwt
  /\ polling = FALSE
  /\ sockets = <<>>
  /\ turn = Waiting
  /\ faults = 0
  /\ astray = {}

-----------------------------------------------------------------------------
Fault == faults < MaxFaults /\ faults' = faults + 1
NoFault == UNCHANGED faults

(* runSocketExclusive *)
Queue(op) == sockets' = Append(sockets, op)

Current(ops) == sockets # <<>> /\ Head(sockets) \in ops
Settle == sockets' = Tail(sockets) /\ turn' = Waiting
Go(place) == turn' = [turn EXCEPT !.at = place] /\ UNCHANGED sockets

(* stopLocked, up to its native call *)
Forget ==
  /\ requested' = "none"
  /\ active' = NoJwt
  /\ polling' = FALSE

(* startLocked asks for the switch; a native that cannot say leaves the    *)
(* decision to its own start.                                              *)
SwitchRead ==
  /\ \/ Current(StartOps) /\ turn.at = "waiting"
     \/ turn.at = "restart"
  /\ \/ relay /\ NoFault /\ Go("credentials") /\ UNCHANGED <<requested, active, polling>>
     \/ Fault /\ Go("credentials") /\ UNCHANGED <<requested, active, polling>>
     \/ ~relay /\ NoFault /\ Settle /\ Forget
  /\ UNCHANGED <<jwt, relay, native, astray>>

(* storedToken: a JWT that cannot be read is none. *)
Reads(token) == \/ token = jwt /\ NoFault
                \/ token = NoJwt /\ jwt # NoJwt /\ Fault

(* E_NOT_AUTHENTICATED: what ran before runs on; a refresh has missed its JWT. *)
Refused ==
  /\ Settle
  /\ astray' = IF Current({"refresh"}) THEN astray \cup {"unrefreshed"} ELSE astray
  /\ UNCHANGED <<requested, active, polling>>

(* resolveCredentials: no token, or one that has expired, refuses the start *)
(* and leaves an earlier socket as it is.  Otherwise stopLocked begins.    *)
ResolveCredentials ==
  /\ turn.at = "credentials"
  /\ \E token \in {jwt, PinnedJwt, NoJwt} :
       /\ IF Current({"startPinned"}) THEN token = PinnedJwt /\ NoFault
                                      ELSE Reads(token)
       /\ \/ token # NoJwt
             /\ turn' = [at |-> "stopping", cred |-> token]
             /\ Forget /\ UNCHANGED sockets
             /\ UNCHANGED astray
          \/ token = NoJwt /\ Refused
  /\ UNCHANGED <<jwt, relay, native>>

(* resolveCredentials refuses a token that has expired. *)
ExpiredToken ==
  /\ turn.at = "credentials" /\ Fault
  /\ Refused
  /\ UNCHANGED <<jwt, relay, native>>

(* native.stopPushSocket, best effort. *)
NativeStops ==
  \/ native' = NoJwt /\ NoFault /\ astray' = astray \cap {"unrefreshed"}
  \/ native # NoJwt /\ Fault /\ UNCHANGED native /\ astray' = astray \cup {"unstopped"}

(* The stop has resolved: the new config is active while native starts. *)
StopBeforeStart ==
  /\ turn.at = "stopping"
  /\ NativeStops
  /\ active' = turn.cred
  /\ Go("starting")
  /\ UNCHANGED <<jwt, relay, requested, polling>>

(* What runs is what JS started; with the stored JWT, or with one that was  *)
(* stored when the start took it. *)
Known == astray' = IF turn.cred \in {jwt, PinnedJwt} THEN {}
                   ELSE astray \cap {"unrefreshed"}

(* Mutant of NativeStart: the config of a refused start stays behind. *)
NativeStartKeeps ==
  /\ turn.at = "starting"
  /\ \/ /\ relay /\ NoFault
        /\ native' = turn.cred /\ Known
        /\ requested' = IF turn.cred = PinnedJwt THEN "pinned" ELSE "stored"
        /\ polling' = TRUE
        /\ UNCHANGED active
     \/ /\ \/ ~relay /\ NoFault
           \/ relay /\ Fault
        /\ UNCHANGED <<native, requested, active, polling, astray>>
  /\ Settle
  /\ UNCHANGED <<jwt, relay>>

(* native.startPushSocket, which refuses while the relay is off and may    *)
(* refuse for its own reasons; then the request is kept and the poll runs. *)
NativeStart ==
  /\ turn.at = "starting"
  /\ \/ /\ relay /\ NoFault
        /\ native' = turn.cred /\ Known
        /\ requested' = IF turn.cred = PinnedJwt THEN "pinned" ELSE "stored"
        /\ polling' = TRUE
        /\ UNCHANGED active
     \/ /\ \/ ~relay /\ NoFault
           \/ relay /\ Fault
        /\ active' = NoJwt
        /\ UNCHANGED <<native, requested, polling, astray>>
  /\ Settle
  /\ UNCHANGED <<jwt, relay>>

(* stopPushSocket() of the host. *)
StopTurn ==
  /\ Current({"stop"})
  /\ Forget /\ NativeStops /\ Settle
  /\ UNCHANGED <<jwt, relay>>

(* stopPushSocket(false) of the relay switch: native has stopped itself. *)
StopJsTurn ==
  /\ Current({"stopJs"})
  /\ Forget /\ NoFault /\ Settle
  /\ UNCHANGED <<jwt, relay, native, astray>>

(* refreshPushSocketAuth, on its turn: a pinned or stopped socket and an   *)
(* unchanged token are left alone, a missing token stops the socket.       *)
RefreshTurn ==
  /\ Current({"refresh"}) /\ turn.at = "waiting"
  /\ requested = "stored"
  /\ \E token \in {jwt, NoJwt} :
       /\ Reads(token)
       /\ \/ /\ token = NoJwt
             /\ Forget /\ turn' = [Waiting EXCEPT !.at = "halting"]
             /\ UNCHANGED sockets
          \/ /\ token = active /\ token # NoJwt
             /\ Settle /\ UNCHANGED <<requested, active, polling>>
          \/ /\ token \notin {NoJwt, active}
             /\ Go("restart") /\ UNCHANGED <<requested, active, polling>>
  /\ UNCHANGED <<jwt, relay, native, astray>>

RefreshIdle ==
  /\ Current({"refresh"}) /\ turn.at = "waiting"
  /\ requested # "stored"
  /\ Settle
  /\ UNCHANGED <<jwt, relay, native, requested, active, polling, faults, astray>>

(* The stop of a refresh that found no token. *)
RefreshStops ==
  /\ turn.at = "halting"
  /\ NativeStops /\ Settle
  /\ UNCHANGED <<jwt, relay, requested, active, polling>>

FacadeStep ==
  \/ SwitchRead
  \/ ResolveCredentials
  \/ ExpiredToken
  \/ StopBeforeStart
  \/ NativeStart
  \/ StopTurn
  \/ StopJsTurn
  \/ RefreshTurn
  \/ RefreshIdle
  \/ RefreshStops
=============================================================================
