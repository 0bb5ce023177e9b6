\* Two units that fail twice together, a channel and an outbox of one.
SPECIFICATION FairSpec
CONSTANTS
  Units = {u1, u2}
  Grace = 1
  MaxEpisodes = 2
  None = None
  ChanCap = 1
  MaxRows = 2
  Batch = 2
  MaxBoots = 1
  MaxAmbiguous = 1
CHECK_DEADLOCK FALSE
INVARIANTS OncePerEpisode  PreparesExplained
PROPERTIES GraceIsHeld  FailureIsReported
