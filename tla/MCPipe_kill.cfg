CONSTANTS
  w1 = w1
  w2 = w2
  r1 = r1
  r2 = r2
  None = None
  Writers <- MCWriter1
  Readers <- MCReaders
  PIPESIZE = 2
  Wrap = 4
  MaxN = 3
  MaxCalls = 2
  NOFILE = 2
INIT Init
NEXT Next
CHECK_DEADLOCK FALSE
INVARIANT KilledNotAsleep
