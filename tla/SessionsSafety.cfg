CONSTANTS
  Conn = {c1, c2, c3}
  Fd = {f1, f2}
  Zero = zero
  Minus = minus
  User = {u1, u2}
  None = none
  Null = null
  Absent = absent
  Idle = idle
SPECIFICATION ResponsesSpec
SYMMETRY Symmetry
CONSTRAINT Followed
INVARIANTS ServedIsRegistered DanglingNeedsReset LoginExclusive OnlineIsServed CrashHasCause
PROPERTIES AnswersReachTheirSession
CHECK_DEADLOCK FALSE
