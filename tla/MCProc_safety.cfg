CONSTANTS
  c1 = c1
  c2 = c2
  NoCPU = NoCPU
  CPUS <- MCCPUS
  NPROC = 3
  MaxPid = 4
INIT Init
NEXT Next
SYMMETRY CpuSymmetry
INVARIANT TypeOK
INVARIANT NoPanic
INVARIANT StackExclusive
INVARIANT ParentAlive
INVARIANT NoLockCycle
INVARIANT NoLeakedSlot
