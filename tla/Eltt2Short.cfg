\* A device that takes less than a request.
SPECIFICATION Spec
CONSTANTS
  CommandLines <- HashOnly
  TpmErrors = {256, 2306}
  Slots = 1
  MaxRuns = 1
  MaxFaults = 1
INVARIANTS LossNoticed
CHECK_DEADLOCK FALSE
