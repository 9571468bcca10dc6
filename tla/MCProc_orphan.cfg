CONSTANTS
  c1 = c1
  c2 = c2
  NoCPU = NoCPU
  CPUS <- MCCPU1
  NPROC = 3
  MaxPid = 4
SPECIFICATION Spec
PROPERTY OrphanReaped
