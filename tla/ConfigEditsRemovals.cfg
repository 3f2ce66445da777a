SPECIFICATION EditsSpec
CONSTANTS
  Requests = {r1}
  Options = {o1}
  NoAdapter = NoAdapter
  Links = {k1}
INVARIANT RemovalsAreRemembered
