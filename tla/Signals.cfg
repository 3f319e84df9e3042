\* A stage1, a montrer server and a page with two requests open, with a fault.
SPECIFICATION MontrerFairSpec
CONSTANTS
  Stage1s = {"s1"}
  Signals = {"p1", "p2", "p3"}
  Body <- MCBodyOf
  NoLonlat = NoLonlat
  Nil = Nil
  MaxFaults = 1
  MaxTime = 2
  Fetches = {"f1", "f2"}
  TimeWindow = 1
INVARIANTS MontrerTypeOK AnswerIsTrue
PROPERTY PageCatchesUp
CHECK_DEADLOCK FALSE
