\* Every conversion at the ends of its ranges; memtool on a machine with 64 bytes in
\* pages of 8.
SPECIFICATION Spec
CONSTANTS
  Word = 64
  Page = 8
  NoNumber = none
  MemCommands <- MCCommands
  Inputs <- MCInputs
INVARIANTS TimesKept PrintedWhole ClockWhole TableWhole AccessMapped BlanksIgnored
CHECK_DEADLOCK FALSE
