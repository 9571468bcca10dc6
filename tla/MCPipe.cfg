\* One writer and one reader, 3-byte calls through a 2-byte pipe whose
\* counters wrap at 4, with kills at any point.
CONSTANTS
  w1 = w1
  w2 = w2
  r1 = r1
  r2 = r2
  None = None
  Writers <- MCWriter1
  Readers <- MCReader1
  PIPESIZE = 2
  Wrap = 4
  MaxN = 3
  MaxCalls = 3
  NOFILE = 2
SPECIFICATION Spec
CHECK_DEADLOCK FALSE
INVARIANT TypeOK
PROPERTY CallsReturn
PROPERTY QueueSpec
