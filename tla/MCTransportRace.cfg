SPECIFICATION FairSpec
CONSTANTS
  Tasks = {c1, c2}
  Threads = {t1, t2, t3}
  None = None
  ClickInterval = 2
  SendTransport = TRUE
INVARIANTS OneTickerWhileRunning
