CONSTANTS
  run1 = run1
  run2 = run2
  p1 = p1
  p2 = p2
  a1 = a1
  a2 = a2
  a3 = a3
  None = None
  Runs <- MCRuns
  Order <- MCOrder
  Promoters <- MCPromoters
  Approvals <- MCApprovals
  MaxUid = 8
SPECIFICATION Spec
INVARIANTS RegistrySound RegistryInv SpentForGood
