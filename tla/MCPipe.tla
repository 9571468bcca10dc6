------------------------------- MODULE MCPipe -------------------------------
(* Model-checking instance of Pipe: one pipe, a few readers and writers.  *)
EXTENDS Pipe, TLC
CONSTANTS w1, w2, r1, r2
MCWriters == {w1, w2}
MCReaders == {r1, r2}
MCWriter1 == {w1}
MCReader1 == {r1}
\* writers are interchangeable, and so are readers
PipeSymmetry == Permutations(MCWriters) \cup Permutations(MCReaders)
=============================================================================
