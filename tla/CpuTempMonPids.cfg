\* Overlapping starts and stops; the pin belongs to another driver, so that only
\* the pid file and the processes matter.
SPECIFICATION Spec
CONSTANTS
  Pids = {p1, p2, p3, p4}
  NoPid = nopid
  Limits = {1}
  Temps = {1}
  Owners = {"driver"}
  MaxCalls = 3
  MaxDeaths = 1
  MaxFaults = 1
SYMMETRY AnyPid
INVARIANTS TypeOK SettledListed OnlyMonitorsListed QuietStopStops
CHECK_DEADLOCK FALSE
