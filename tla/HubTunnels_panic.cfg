SPECIFICATION Spec
CONSTANTS
  Tunnels = {"t1", "t2", "t3"}
  PingTimes = {3, 15}
  Timeout = 4
INVARIANT NobodySendsOnClosed
CHECK_DEADLOCK FALSE
