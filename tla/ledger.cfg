\* Every host: with whole or torn appends, with or without power losses.
SPECIFICATION Spec
CONSTANTS
  Commands = {c1, c2}
  MaxRestarts = 2
  NL = NL
  Junk = Junk
  None = None
SYMMETRY Symmetry
CHECK_DEADLOCK FALSE
INVARIANTS AtMostOnce LostOnlyBehindTear
PROPERTY DurableLineIsKept
