CONSTANTS
  Conn = {c1, c2, c3}
  Fd = {f1, f2}
  Zero = zero
  Minus = minus
  User = {u1}
  None = none
  Null = null
  Absent = absent
SPECIFICATION FairSpec
PROPERTIES GoesOffline
CHECK_DEADLOCK FALSE
