\* A healthy bus, no power cut, a chip with no interrupt enabled at boot.
SPECIFICATION FairSpec
CONSTANTS
  HasIrq = TRUE
  Alarms = {a1}
  Events = {"AF", "UF"}
  StopWhileUp = FALSE
  PowerOnCtrl <- ColdChip
  Callers = {"get_time", "set_time", "set_alarm", "alarm_irq_enable", "vl_clr"}
  MaxFaults = 0
  MaxCrashes = 0
INVARIANTS ClockRuns NoOrphanEnable
PROPERTIES LockReleased AlarmDelivered LineReleased
