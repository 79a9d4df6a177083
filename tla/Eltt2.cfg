\* Calls of the tool with a failing device and interrupts.
SPECIFICATION FairSpec
CONSTANTS
  CommandLines <- MCCommandLines
  TpmErrors = {256, 2306}
  Slots = 2
  MaxRuns = 2
  MaxFaults = 1
INVARIANTS TypeOK NoStaleBytes HashedWhole UpdatesFit ExitHonest SequencesClosed
PROPERTIES Terminates ImplementsService
CHECK_DEADLOCK FALSE
