-------------------------- MODULE SocketLifecycle --------------------------
(***************************************************************************)
(* What a socket client promises its owner and the relay (SB-47 to SB-53), *)
(* whatever the callbacks of old sockets, timers and the owner's own stop  *)
(* do meanwhile: while it runs there is one open socket or one pending     *)
(* reconnect, and once it has ended there is neither, for good.            *)
(***************************************************************************)
EXTENDS Naturals

CONSTANT Sockets   (* everything a dial can open *)

VARIABLES life, open, pending

vars == <<life, open, pending>>

Init == life = "new" /\ open = {} /\ pending = 0

(* A dial gives a socket of its own, or fails and leaves a reconnect. *)
Attempt ==
  \/ \E s \in Sockets \ open : open' = {s} /\ pending' = 0
  \/ open' = {} /\ pending' = 1

Start  == life = "new" /\ life' = "running" /\ Attempt
Redial == life = "running" /\ pending = 1 /\ Attempt /\ UNCHANGED life
Renew  == life = "running" /\ open # {} /\ Attempt /\ UNCHANGED life
End    == life = "running" /\ life' = "ended" /\ open' = {} /\ pending' = 0

Next == Start \/ Redial \/ Renew \/ End

Spec == Init /\ [][Next]_vars
=============================================================================
