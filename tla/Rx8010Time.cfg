\* The date under bus faults, power cuts and oscillator stops.
SPECIFICATION Spec
CONSTANTS
  HasIrq = TRUE
  Alarms = {a1}
  Events = {"VLF", "UF"}
  StopWhileUp = TRUE
  PowerOnCtrl <- UsedChip
  Callers <- TimeCalls
  MaxFaults = 2
  MaxCrashes = 1
INVARIANTS TypeOK TornDateFrozen LostDateFlagged NoSilentLoss
PROPERTIES GetTimeHonest RefinesClock
