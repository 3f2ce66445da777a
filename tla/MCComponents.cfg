SPECIFICATION Spec
CONSTANTS
  Faders = {f1}
  Levels = {0, 1, 2}
  Deadband = 2
  NoLevel = NoLevel
  Resolvers = {r1, r2}
  Channels = {"a", "b"}
  PortAddresses = {a1, a2}
  NoAddress = NoAddress
  Pins = {p1, p2}
  Bounce = 2
  Callers = {c1, c2}
  Loops = {l1, l2}
  NoLoop = NoLoop
  Calls = {c1, c2}
  Sessions = {s1, s2}
  Off = Off
  Gone = Gone
  Dead = Dead
  Browsers = {b1, b2}
  Flushers = {t1, t2, t3}
  Points = 3
  Requests = {r1, r2}
  Options = {o1, o2}
  NoAdapter = NoAdapter
  Links = {k1}
  Outputs = {p1, p2}
  Settings = {s1, s2}
  NoSettings = NoSettings
  Aligned <- OneSetting
  Tempi = {tempo}
  Standstill = Standstill
  Blank = Blank
  Pushes = {j1, j2}
  Places = {x, y}
  Nowhere = Nowhere
  Lookups = {t1, t2}
  Desks = {d1, d2}
  Addresses = {x, y}
  Scans = {s1}
  Edits = {e1, e2}
  NoDesk = NoDesk
  Away = Away
  Dimmest = 0
  Brightest = 2
  Minute = 12
  ResetTimeout = 3
  MaxTaps = 4
  Slowest = 2
  Fastest = 9
  MinTaps = {3, 4}
  Digits = 2
  Gaps = {0, 1, 3, 5}
  Ring = 6
  Top = 4
  NoStep <- NoStepValue
  Senders = {t1, t2}
  Highest = 2
  Window = 1
  Tolerance = 1
  MaxInFlight = 2
  Editors = {b1, b2}
  Ends = {"clock", "out"}
  Unset = Unset
  ClockOutputs <- ClockPairs
  ModuleFeedback <- ModulePairs
  DisplayInputs <- DisplayPairs
  DisplayFeedback <- FeedbackPairs
  MaxReversals = 1
INVARIANTS
  ComponentsTypeOK
  FeedbackSettles
  PathsAreResolved
  AtRestAllAgrees
  EditsAreKept
  PointsAreServed
PROPERTIES
  LastFaderValueIsSent
  InputsAreFollowed
  BrowsersCatchUp
  DeskIsFollowed
  DisplaysCatchUp
  ControlsAreObeyed
CHECK_DEADLOCK FALSE
