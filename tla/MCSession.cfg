\* Four dials, up to three tasks waiting: safety, refinement of the lifecycle,
\* and liveness of the reconnect.
CONSTANTS
  MaxEpoch = 7
  MaxInbox = 3
SPECIFICATION FairSpec
INVARIANT TypeOK
INVARIANT OneDriver
INVARIANT NoOrphanSocket
INVARIANT ConnectedMeansSession
INVARIANT DenialsClimb
PROPERTY EndIsFinal
PROPERTY ImplementsLifecycle
PROPERTY Redials
\* The owner has stopped the client and nothing is left to run.
CHECK_DEADLOCK FALSE
