\* One report, left by an earlier process or new; two users take turns.
CONSTANTS
  ada = ada
  bob = bob
  p1 = p1
  p2 = p2
  p3 = p3
  NoPush = NoPush
  Users <- TwoUsers
  Pushes <- OnePush
  Owner <- ForAda
  Capacity = 1
  BatchSize = 1
  MaxFailures = 2
  JsLease = 1
  Budget = 1
  LeaseSlack = 1
  Ttl = 1
  MaxEvents = 2
  MaxClock = 1
  Calls = {"setIdentity", "removeIdentity"}
  Stored = {0, 1}
SPECIFICATION Spec
INVARIANT MirrorFollows
PROPERTY Drains
