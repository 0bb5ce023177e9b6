\* Overlapping rules, three concurrent evaluations that may take as long as the window, a restart.
SPECIFICATION Spec
CONSTANTS
  db = db
  web = web
  restart = restart
  wipe = wipe
  Hosts = {db, web}
  Templates = {restart, wipe}
  Workers = {w1, w2, w3}
  TierOf <- MixedTier
  Rules <- MixedRules
  MaxAuto = 1
  Window = 2
  Lag = 2
  MaxTime = 5
  MaxRestarts = 1
SYMMETRY Symmetry
CHECK_DEADLOCK FALSE
INVARIANTS WindowCap AutoIsAllowed
PROPERTY TripIsJustified
