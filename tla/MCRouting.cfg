SPECIFICATION FairSpec
CONSTANTS
  Datagrams = {d1, d2}
  ControlValues <- MCControlValues
  DeskValues <- MCDeskValues
  ToDesk <- MCToDesk
  ToControl <- MCToControl
  Window = 1
  None = None
  InputBound = 3
  RevertBound = 2
  TimeBound = 2
CHECK_DEADLOCK FALSE
INVARIANTS TypeOK PairAgrees DeskIsShown
PROPERTIES ControlCatchesUp
