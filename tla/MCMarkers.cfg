CONSTANTS
  p1 = p1
  p2 = p2
  NoPush = NoPush
  Pushes = {p1, p2}
  Setups <- TwoWorkersOrAFault
SPECIFICATION FairSpec
INVARIANT NothingForgotten
INVARIANT DuplicatesExplained
PROPERTY SentIsFinal
PROPERTY Reported
