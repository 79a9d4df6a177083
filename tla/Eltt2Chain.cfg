\* Two options in one call, as the README shows them.
SPECIFICATION Spec
CONSTANTS
  CommandLines <- Chains
  TpmErrors = {256}
  Slots = 1
  MaxRuns = 1
  MaxFaults = 0
INVARIANT OptionsIndependent
CHECK_DEADLOCK FALSE
