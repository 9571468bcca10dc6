CONSTANTS
  c1 = c1
  c2 = c2
  NoCPU = NoCPU
  CPUS <- MCCPUS
  NPROC = 3
  MaxPid = 3
INIT Init
NEXT Next
SYMMETRY CpuSymmetry
INVARIANT KilledNotAsleep
