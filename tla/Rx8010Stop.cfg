\* One failed transfer leaves the clock stopped after set_time has returned.
SPECIFICATION Spec
CONSTANTS
  HasIrq = FALSE
  Alarms = {a1}
  Events = {}
  StopWhileUp = FALSE
  PowerOnCtrl <- ColdChip
  Callers = {"get_time", "set_time"}
  MaxFaults = 1
  MaxCrashes = 0
INVARIANT ClockRuns
