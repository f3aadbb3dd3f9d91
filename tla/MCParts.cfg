CONSTANTS
  \* Android: the relay switch against the service, or a service owner and then
  \* an in-process one; refusals, a timeout and a process death.
  Budgets <- SwitchOrTurns
  MaxClients = 3
  Refusals = TRUE
  MaxTimeouts = 1
  MaxCrashes = 1
  \* iOS: the client against the host, the relay, the network and the app's
  \* lifecycle.
  d1 = d1
  h1 = h1
  NoReport = NoReport
  Relayed = {d1}
  Hosted = {h1}
  IosSetups <- IosCases
  SentLimit = 1
  MaxRetries = 1
  MaxTasks = 3
  \* JS: bytes, texts, and one call with every answer.
  Responses <- AllAnswers
  Deaf = {TRUE, FALSE}
  Inputs <- Sequences4
  Texts <- Texts3
SPECIFICATION PartsSpec
INVARIANT RelayOffHolds
INVARIANT OneOwner
INVARIANT DrivenByOne
INVARIANT ReportedOnce
INVARIANT CauseNamed
INVARIANT AgreeOnGrpc
INVARIANT CodecCorrect
PROPERTY ErrorSticks
PROPERTY ReportsLeave
PROPERTY CallEnds
\* JS has asked everything it will; a call or a decoding is over.
CHECK_DEADLOCK FALSE
