\* Three calls of uno220gpio, or two of uno220uart and preinst with a command that
\* fails and a power cut, or up to five processes of the Python monitor.
SPECIFICATION Spec
CONSTANTS
  GpioCalls = {g1, g2, g3}
  NumPins = 2
  UartCalls = {u1, u2}
  MaxUartFaults = 1
  MaxPowerCuts = 1
  NumPids = 5
  MaxPyCalls = 3
  MaxPyDeaths = 1
INVARIANTS TypeOK MissedOnlyIfSpoilt ExportedInTheEnd AgreedSettings
           StartsLeaveOne PyQuietStopStops
CHECK_DEADLOCK FALSE
SYMMETRY AnyUartCall
