SPECIFICATION FairSpec
CONSTANTS
  MaxLines = 3
  MaxAhead = 3
  MaxOutput = 1
  MaxFaults = 0
  MayIdle = {}
  UpCapacity = 1
  DownCapacity = 1
  PipeCapacity = 1
PROPERTIES
  OutputStreamed
\* A session ends.
CHECK_DEADLOCK FALSE
