\* Three CPUs whose threads nest up to two of three locks (lock 2 is
\* kmem.lock, lock 3 the interrupt handler's) and call kalloc and kfree on
\* two pages.
CONSTANTS
  c1 = c1
  c2 = c2
  c3 = c3
  None = None
  CPUS <- MCCPUS
  NLOCK = 3
  MaxDepth = 2
  NPAGE = 2
INIT Kinit
NEXT KNext
SYMMETRY CpuSymmetry
INVARIANT TypeOK
INVARIANT NoPanic
INVARIANT IntrOffWhileHolding
INVARIANT IntrRestored
INVARIANT PagesConserved
