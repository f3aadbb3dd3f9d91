\* A process death between any two statements, writes still waiting or not;
\* the same message over both channels.
CONSTANTS
  m1 = m1
  m2 = m2
  NoMessage = NoMessage
  EnqueuedAt <- MCEnqueuedAt
  Messages = {m1, m2}
  Setups <- PlainSetups
  SeenCapacity = 2
  MaxAttempts = 2
  Deferrals = {}
  FcmMessages = {m1}
  MaxClock = 0
  MaxCrashes = 1
SPECIFICATION Spec
INVARIANT OnlyCrashesRepeat
INVARIANT NothingVanishes
INVARIANT PresentedOnce
INVARIANT CursorBehindSeen
