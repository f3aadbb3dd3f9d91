------------------------- MODULE MCIosSocketClient -------------------------
(* Instances of IosSocketClient for TLC: what one behaviour is about. *)
EXTENDS IosSocketClient

CONSTANTS d1, h1

Spends(spent) == [k \in Kinds |-> IF k \in DOMAIN spent THEN spent[k] ELSE 0]
May(spent, outbox, refusals, closes) ==
  [spend |-> Spends(spent), outbox |-> outbox, refusals |-> refusals, closes |-> closes]

IosCases == {
  \* every policy of applyRejection, and a connection that is lost
  May([start |-> 1, report |-> 1, offer |-> 1, refuse |-> 2, end |-> 1], 2, AckErrors, {}),
  \* an outbox and a sent-set of one
  May([start |-> 1, report |-> 1, offer |-> 2, refuse |-> 1], 1, {"rate_limited"}, {}),
  \* each Close, and the connection, against a stop and a second start
  May([start |-> 2, stop |-> 1, offer |-> 1, end |-> 2], 2, {}, CloseReasons),
  \* the relay switched off, and on again, and a new token
  May([start |-> 1, token |-> 1, switch |-> 2, report |-> 1, end |-> 1], 2, {}, {"stale"}),
  \* the process dies
  May([start |-> 2, offer |-> 2, report |-> 1, death |-> 1], 2, {}, {})
}

(* The relay ends the session as too old. *)
StaleCases == {May([start |-> 1, report |-> 1, end |-> 1], 1, {}, {"stale"})}
=============================================================================
