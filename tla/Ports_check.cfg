SPECIFICATION PortsFairSpec
CONSTANTS
  Tunnels = {"t1", "t2"}
  PingTimes = {3, 6}
  UpdatePingTime = 6
  Timeout = 4
  Renewals = {"r1", "r2"}
INVARIANTS
  TypeOK
  DownIsDown
  MonitoringResumes
  AlarmsAreReal
PROPERTIES
  FindsLiveTunnel
CHECK_DEADLOCK FALSE
