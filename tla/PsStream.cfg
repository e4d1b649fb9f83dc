SPECIFICATION FairSpec
CONSTANTS
  MaxBytes = 3
  MaxWrite = 2
  MaxRead = 2
  MaxPackets = 3
  MaxEscapes = 1
  MaxFaults = 1
  Overhead = 1
  Capacity = 2
  MaxFrame = 5
  MaxIdle = 1
INVARIANTS
  TypeOK
  InOrder
  CleanEofIsComplete
  ErrorsHaveCause
PROPERTIES
  IdleIsFinal
  IsByteStream
  WritesArrive
\* A session ends: the writer and the reader have nothing left to do.
CHECK_DEADLOCK FALSE
