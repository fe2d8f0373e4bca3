CONSTANTS
  Task = {t1, t2, t3, t4}
  Worker = {w1, w2, w3, w4}
  Main = main
  None = none
  THREAD_NUM = 2
  Headroom = 1
  MaxFailed = 1
  Spurious = TRUE
SYMMETRY Symmetry
SPECIFICATION Spec
INVARIANTS TypeOK SizeIsLoad WakeupsCoverQueue TaskInOnePlace QueueIsServed
PROPERTIES ImplementsQueue GrowthIsSerial
