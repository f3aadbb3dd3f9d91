------------------------- MODULE MCDeliveryReports -------------------------
(* Instances of DeliveryReports for TLC. *)
EXTENDS DeliveryReports

CONSTANTS m1, m2

(* m1 is older than m2. *)
MCEnqueuedAt == [m \in Messages |-> IF m = m1 THEN 1 ELSE 2]

Case(capacity, display, hostStatuses, undecodable) ==
  [capacity |-> capacity, display |-> display,
   hostStatuses |-> hostStatuses, undecodable |-> undecodable]

(* Every second report evicts: from a displayed message, or from one with  *)
(* a frame that does not decode; and an outbox with room, for a message    *)
(* the host dismisses.                                                     *)
PolicySetups == {Case(1, TRUE, {}, {}), Case(1, FALSE, {}, {m1}),
                 Case(2, FALSE, {DISMISSED}, {})}

PlainSetups == {Case(2, FALSE, {}, {})}
=============================================================================
