SPECIFICATION Spec
CONSTANTS
  x = x
  y = y
  e1 = e1
  Processes <- MCProcesses
  Events <- MCEvents
  OtelEnabled = TRUE
  MaxFaults = 1
INVARIANT
  EventsCarryTrace
