CONSTANTS
  p1 = p1
  p2 = p2
  p3 = p3
  None = None
  Procs <- MCProcs
  NINODE = 2
  NINODES = 3
  MaxLink = 2
INIT Init
NEXT Next
SYMMETRY ProcSymmetry
INVARIANT TypeOK
INVARIANT NoPanic
INVARIANT UniqueCache
INVARIANT CacheCoherent
INVARIANT FreedUnreferenced
