---------------------------- MODULE MCInodeTable ----------------------------
(* Model-checking instance of InodeTable: a few processes sharing a small  *)
(* inode table over a disk with a handful of dinodes.                      *)
EXTENDS InodeTable, TLC
CONSTANTS p1, p2, p3
MCProcs == {p1, p2, p3}
\* processes are interchangeable: none has an identity the code looks at
ProcSymmetry == Permutations(MCProcs)
=============================================================================
