CONSTANTS
  N = 4
  Direction <- MCDirection
SPECIFICATION RolloutSpec
INVARIANTS
  OpenAfterFailure
  RolloutInv
PROPERTIES
  RestoresOwnSide
