\* stopPushSocket against begin().
CONSTANTS
  Budgets <- Stops
  MaxClients = 1
  Refusals = FALSE
  MaxTimeouts = 0
  MaxCrashes = 0
SPECIFICATION Spec
INVARIANT RelayOffHolds
\* JS has asked everything it will.
CHECK_DEADLOCK FALSE
