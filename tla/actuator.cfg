SPECIFICATION FairSpec
CONSTANTS
  c1 = c1
  c2 = c2
  c3 = c3
  c4 = c4
  c5 = c5
  Conns = {c1, c2, c3, c4, c5}
  Shape <- MixedShapes
  Slots = 2
  MaxPolls = 2
  None = None
INVARIANTS
  ResultIsEarned
  NothingRunsUnchecked
  PermitsAreConserved
PROPERTY
  EveryoneIsServed
CHECK_DEADLOCK FALSE
