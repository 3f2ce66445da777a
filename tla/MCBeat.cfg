SPECIFICATION FairSpec
CONSTANTS
  Pulses = {p1, p2}
  Offs = {o1, o2, o3}
  None = None
  BeatBound = 4
INVARIANTS TypeOK SoleOffTask LitBeatHasAnEnd
PROPERTIES StaleOffNeverClears FlashEnds StopCompletes
CHECK_DEADLOCK FALSE
