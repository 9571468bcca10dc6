------------------------------- MODULE MCProc -------------------------------
(* Model-checking instance of Proc: a small process table on two CPUs.     *)
EXTENDS Proc, TLC

CONSTANTS c1, c2

MCCPUS == {c1, c2}
MCCPU1 == {c1}

\* the CPUs are interchangeable for safety properties
CpuSymmetry == Permutations(MCCPUS)

=============================================================================
