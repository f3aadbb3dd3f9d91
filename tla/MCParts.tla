------------------------------ MODULE MCParts ------------------------------
(* Instances for TLC of three parts that share no state: the owners of the  *)
(* Android socket, the iOS socket, and the JS transport with its codec. One *)
(* of them runs in each behaviour, the others stay at an initial state.     *)
EXTENDS MCSocketOwnership, MCIosSocketClient, MCTransport

VARIABLE part

OwnersRest    == Init /\ relayOn /\ left = CHOOSE b \in Budgets : TRUE
IosRests      == IosInit /\ budget = CHOOSE b \in IosSetups : TRUE
TransportRest == NoCall /\ NoCodec

PartsInit ==
  \/ part = "owners"    /\ Init /\ IosRests /\ TransportRest
  \/ part = "ios"       /\ IosInit /\ OwnersRest /\ TransportRest
  \/ part = "transport" /\ TransportInit /\ OwnersRest /\ IosRests
PartsNext ==
  /\ part' = part
  /\ \/ part = "owners"    /\ Next /\ UNCHANGED <<iosVars, callVars, codecVars>>
     \/ part = "ios"       /\ IosNext /\ UNCHANGED <<vars, callVars, codecVars>>
     \/ part = "transport" /\ TransportNext /\ UNCHANGED <<vars, iosVars>>
PartsSpec ==
  /\ PartsInit /\ [][PartsNext]_<<part, vars, iosVars, callVars, codecVars>>
  /\ IosFairness /\ CallFairness
=============================================================================
