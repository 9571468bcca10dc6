---------------------------- MODULE MCBlockMap ----------------------------
(* BlockMap for TLC: two inodes, four data blocks, one direct block and   *)
(* an indirect block of two entries (MAXFILE = 3 blocks of 2 words), and  *)
(* 4-bit uint offsets so that off + n wraps.                               *)
EXTENDS BlockMap, TLC

CONSTANTS i1, i2

MCInodes == {i1, i2}
MCOffs == 0..MAXB + 1 \cup {Cap - 1}
MCLens == {1, 2, 3, Cap - 1}
InodeSymmetry == Permutations(MCInodes)
=============================================================================
