\* A STOP behind an in-process start.
CONSTANTS
  Budgets <- Turns
  MaxClients = 2
  Refusals = FALSE
  MaxTimeouts = 0
  MaxCrashes = 0
SPECIFICATION Spec
PROPERTY StopSparesNewer
\* JS has asked everything it will.
CHECK_DEADLOCK FALSE
