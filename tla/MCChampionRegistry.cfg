SPECIFICATION Spec
CONSTANTS
  c1 = c1  c2 = c2  p1 = p1  p2 = p2  fp1 = fp1  fp2 = fp2
  None = None
  Promotions <- MCPromotions
  Fingerprints <- MCFingerprints
  Challenger <- MCChallenger
  Clients <- MCClients
  MaxRevision = 4
INVARIANTS RevisionChain ApprovedOnly ChampionInv
PROPERTY ImplementsSlot
CHECK_DEADLOCK FALSE
