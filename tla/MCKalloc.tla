------------------------------ MODULE MCKalloc ------------------------------
(* Model-checking instance of Kalloc over Spinlock: three CPUs, three locks *)
(* (one held around kalloc, kmem.lock, TicksLock) and two pages.            *)
EXTENDS Kalloc, TLC
CONSTANTS c1, c2, c3
MCCPUS == {c1, c2, c3}
\* CPUs are interchangeable
CpuSymmetry == Permutations(MCCPUS)
=============================================================================
