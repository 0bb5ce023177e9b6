\* A torn append, the next command behind it, and a restart.
SPECIFICATION Spec
CONSTANTS
  Commands = {c1, c2}
  MaxRestarts = 2
  NL = NL
  Junk = Junk
  None = None
SYMMETRY Symmetry
CHECK_DEADLOCK FALSE
INVARIANT CrashNeverReruns
