-------------------------- MODULE MCSubscriptions --------------------------
EXTENDS Subscriptions

Calls(spent) == [k \in Kinds |-> IF k \in DOMAIN spent THEN spent[k] ELSE 0]
Case(on, spent) == [relay |-> on, calls |-> Calls(spent)]

AllScenarios == {
  \* one user after another on a device whose token changes
  Case(FALSE, [initialize |-> 1, setIdentity |-> 2, removeIdentity |-> 1, rotate |-> 1]),
  \* the JWT of a running socket is replaced
  Case(TRUE, [initialize |-> 1, setIdentity |-> 2, start |-> 1]),
  \* it is removed, or the host stops the socket
  Case(TRUE, [initialize |-> 1, setIdentity |-> 1, removeIdentity |-> 1, start |-> 1, stop |-> 1]),
  \* the relay is switched off, and on and off, by initialize or later
  Case(TRUE, [initialize |-> 1, setIdentity |-> 1, setRelayEnabled |-> 1, start |-> 1]),
  Case(FALSE, [initialize |-> 1, setRelayEnabled |-> 2, start |-> 1]),
  \* the process dies, with and without a socket
  Case(TRUE, [initialize |-> 2, setIdentity |-> 1, removeIdentity |-> 1, start |-> 1, restart |-> 1]),
  Case(FALSE, [initialize |-> 2, setIdentity |-> 2, removeIdentity |-> 1, restart |-> 1]),
  \* and with what the switch is on file
  Case(TRUE, [initialize |-> 2, setRelayEnabled |-> 1, start |-> 1, restart |-> 1]),
  \* the host brings its own token
  Case(FALSE, [initialize |-> 1, setIdentity |-> 1, removeIdentity |-> 1, setDeviceToken |-> 1,
               rotate |-> 1])
}
=============================================================================
