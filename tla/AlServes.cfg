SPECIFICATION Spec
CONSTANTS
  Callers = {a, b, c}
  MaxOpen = 2
  MaxFaults = 1
PROPERTIES
  OthersGoOn
  CallersGetIn
\* Every caller may have come and gone, or the daemon be down.
CHECK_DEADLOCK FALSE
