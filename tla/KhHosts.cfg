SPECIFICATION Spec
CONSTANTS
  Procs = {p1, p2, p3}
  a = a
  b = b
  Letters = {a, b}
  Hosts <- MCHosts
  Keys = {k1, k2}
  NoKey = NoKey
  CutKey = CutKey
  MaxRunning = 3
  MaxCrashes = 2
INVARIANTS
  TypeOK
  AcceptedOrMixed
  AloneRemembers
SYMMETRY Symmetry
\* Every process ends.
CHECK_DEADLOCK FALSE
