\* Alarms under bus faults; the clock stops only while the machine is off.
SPECIFICATION Spec
CONSTANTS
  HasIrq = TRUE
  Alarms = {a1, a2}
  Events = {"AF", "TF"}
  StopWhileUp = FALSE
  PowerOnCtrl <- UsedChip
  Callers <- AlarmCalls
  MaxFaults = 1
  MaxCrashes = 0
INVARIANTS CacheCoherent
PROPERTIES SetAlarmArmed CachedAnswersTrue
