\* A full outbox, a third push; one more event: a push, an identity call, a crash.
CONSTANTS
  ada = ada
  bob = bob
  p1 = p1
  p2 = p2
  p3 = p3
  NoPush = NoPush
  Users <- OneUser
  Pushes <- ThreePushes
  Owner <- ForAda
  Capacity = 2
  BatchSize = 1
  MaxFailures = 1
  JsLease = 1
  Budget = 1
  LeaseSlack = 1
  Ttl = 0
  MaxEvents = 2
  MaxClock = 1
  Calls = {"removeIdentity"}
  Stored = {2}
SPECIFICATION Spec
INVARIANT DuplicatesExplained
PROPERTY NothingLost
SYMMETRY Alike
