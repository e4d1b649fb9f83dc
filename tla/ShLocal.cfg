SPECIFICATION MCSpec
CONSTANTS
  MaxLines = 2
  MaxAhead = 2
  MaxOutput = 2
  MaxFaults = 1
  MayIdle = {"up", "down"}
  UpCapacity = 1
  DownCapacity = 1
  PipeCapacity = 1
  MaxChunks = 3
INVARIANTS
  TypeOK
  LeavesWhenAllIsShown
PROPERTIES
  LooksLocal
  SessionEnds
\* A session ends.
CHECK_DEADLOCK FALSE
