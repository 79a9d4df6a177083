\* The indicator under overlapping starts, a stop and a changing temperature.
SPECIFICATION FairSpec
CONSTANTS
  Pids = {p1, p2, p3}
  NoPid = nopid
  Limits = {1, 2}
  Temps = {1, 2, 3}
  Owners = {"none", "sysfs", "driver"}
  MaxCalls = 2
  MaxDeaths = 0
  MaxFaults = 0
INVARIANTS LedReady
PROPERTIES LedFollows
CHECK_DEADLOCK FALSE
