CONSTANTS
  a = a
  b = b
  plan1 = plan1
  c1 = c1
  c2 = c2
  d1 = d1
  d2 = d2
  Nothing = Nothing
  Torn = Torn
  NoPlan = NoPlan
  Champions <- MCChampions
  Packages <- MCPackages
  Plans <- MCPlans
  Of <- MCOf
  Clerks <- MCClerks
  Deployers <- MCDeployers
SYMMETRY Alike
SPECIFICATION Spec
INVARIANTS
  ReleaseInv
  OnlyApprovedOnTarget
  TargetAsReported
PROPERTIES
  RejectionSticks
