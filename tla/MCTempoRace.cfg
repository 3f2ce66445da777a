SPECIFICATION FairSpec
CONSTANTS
  Callbacks = {cb}
  Commands = {cmd}
  LocalBpms = {44, 47}
  LinkTempos = {41, 46}
  BpmMin = 42
  BpmMax = 48
  QuantizeStep = 4
  MinDelta = 2
  FollowWhenRunning = FALSE
  None = None
  InputBound = 3
  CallBound = 2
INVARIANTS LocalChangeIsPushed
CHECK_DEADLOCK FALSE
