------------------------- MODULE MCSocketOwnership -------------------------
(* Instances of SocketOwnership for TLC: what JS may ask. *)
EXTENDS SocketOwnership

Asks(stops, services, inProcess, offs, ons) ==
  [op \in HostOps |-> CASE op = "stop"           -> stops
                        [] op = "startService"   -> services
                        [] op = "startInProcess" -> inProcess
                        [] op = "relayOff"       -> offs
                        [] op = "relayOn"        -> ons]

(* A start of the service, then one in-process. *)
TakesTurns == Asks(2, 1, 1, 0, 0)

(* One start of the service, and the switch off, on and off again; or the  *)
(* two owners.                                                             *)
SwitchOrTurns == {Asks(1, 1, 0, 2, 1), TakesTurns}

(* Only the two owners. *)
Turns == {TakesTurns}

(* Two stops and a start, then the switch. *)
Stops == {Asks(2, 1, 0, 1, 0)}
=============================================================================
