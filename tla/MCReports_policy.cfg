\* The Ack policy table and the bounded outbox, no process death; liveness of
\* the outbox.
CONSTANTS
  m1 = m1
  m2 = m2
  NoMessage = NoMessage
  EnqueuedAt <- MCEnqueuedAt
  Messages = {m1}
  Setups <- PolicySetups
  SeenCapacity = 2
  MaxAttempts = 2
  Deferrals = {1}
  FcmMessages = {}
  MaxClock = 1
  MaxCrashes = 0
SPECIFICATION FairSpec
INVARIANT QueueAndWireApart
PROPERTY OutboxDrains
