CONSTANTS
  s0 = s0
  s1 = s1
  run1 = run1
  run2 = run2
  None = None
  Shas <- MCShas
  Runs <- MCRuns
  Initial = s0
  Target <- MCTarget
SPECIFICATION FairSpec
INVARIANTS
  OutageIsJournalled
  ReportsAreTrue
  IInv
PROPERTIES
  CheckoutMovesWhileStopped
  SlotSpec
  SlotFairSpec
  LockIsReleased
