CONSTANTS
  Task = {t1, t2, t3}
  Worker = {w1, w2, w3}
  Main = main
  None = none
  THREAD_NUM = 2
  Headroom = 1
  MaxFailed = 1
  Spurious = FALSE
SPECIFICATION FairSpec
PROPERTIES WorkConserving EveryTaskFinishes
CHECK_DEADLOCK FALSE
