\* A report is in flight when the relay ends the session as too old.
CONSTANTS
  d1 = d1
  h1 = h1
  NoReport = NoReport
  Relayed = {d1}
  Hosted = {h1}
  IosSetups <- StaleCases
  SentLimit = 1
  MaxRetries = 1
  MaxTasks = 3
SPECIFICATION IosSpec
INVARIANT DeadSocketHoldsNothing
