SPECIFICATION FairSpec
CONSTANTS
  Callers = {c1}
  Tickers = {t1}
  Files = {"good"}
  ClickBound = 1
  AskBound = 1
PROPERTIES ClicksReturn
CHECK_DEADLOCK FALSE
