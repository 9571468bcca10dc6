CONSTANTS
  c1 = c1
  c2 = c2
  NoCPU = NoCPU
  CPUS <- MCCPUS
  NPROC = 2
  MaxPid = 3
SPECIFICATION Spec
PROPERTY NoLostWakeup
