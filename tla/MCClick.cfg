SPECIFICATION FairSpec
CONSTANTS
  Callers = {c1, c2}
  Tickers = {t1}
  Files = {"good", "gone", "corrupt"}
  ClickBound = 1
  AskBound = 2
INVARIANTS TypeOK ClickWakesWorker ReleaseHeals EndedWorkerOwesNothing
PROPERTIES Answered CloseEndsWorker
CHECK_DEADLOCK FALSE
