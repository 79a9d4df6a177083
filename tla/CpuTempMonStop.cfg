\* One start in the background, one stop after it has returned.
SPECIFICATION Spec
CONSTANTS
  Pids = {p1, p2, p3}
  NoPid = nopid
  Limits = {1}
  Temps = {1}
  Owners = {"none"}
  MaxCalls = 2
  MaxDeaths = 0
  MaxFaults = 0
INVARIANT StopStops
CHECK_DEADLOCK FALSE
