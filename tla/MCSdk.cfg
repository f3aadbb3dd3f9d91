SPECIFICATION FairSpec
CONSTANTS
  MaxFaults = 1
  Users = {u1, u2}
  MaxTokens = 2
  Scenarios <- AllScenarios
CHECK_DEADLOCK FALSE
INVARIANT OffIsOff
INVARIANT ConfigMatchesSocket
INVARIANT SocketFollowsJwt
INVARIANT SubscribesAsStored
INVARIANT RecordMatchesBackend
INVARIANT BackendUpToDate
INVARIANT NoGhost
PROPERTY CallsSettle
