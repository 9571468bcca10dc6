------------------------------ MODULE BlockMap ------------------------------
(***************************************************************************)
(* The block layer of an inode in fs.c: the free-block bitmap (balloc,     *)
(* bzero, bfree), the map from file block numbers to disk blocks (bmap,    *)
(* direct blocks and one indirect block, allocated on demand), itrunc, and *)
(* the data paths writei and readi with their offset checks in unsigned    *)
(* W-bit arithmetic.                                                       *)
(*                                                                         *)
(* Each operation is one step: its caller holds the inode's sleep-lock for *)
(* the whole call, and balloc and bfree each hold the bitmap buffer's      *)
(* sleep-lock over their read-modify-write, so operations on different     *)
(* inodes only meet in the bitmap and are serialised there.  A disk block  *)
(* holds BSIZE words; a data word stands for a byte, an indirect block     *)
(* holds NINDIRECT = BSIZE block numbers.  Blocks are 1..NBLOCKS; 0 is the *)
(* "no block" address of addrs[] and the indirect block.                   *)
(***************************************************************************)
EXTENDS Integers, FiniteSets, FiniteSetsExt

CONSTANTS
  Inodes,       \* the in-memory inodes whose data is written
  NBLOCKS,      \* data blocks 1..NBLOCKS
  NDIRECT,
  BSIZE,        \* words per block, also NINDIRECT
  W,            \* width of uint
  Vals,         \* the values user writes copy in
  Offs,         \* offsets passed to readi and writei
  Lens          \* lengths passed to readi and writei

Blocks == 1..NBLOCKS
NINDIRECT == BSIZE
MAXFILE == NDIRECT + NINDIRECT
MAXB == MAXFILE * BSIZE          \* MAXFILE*BSIZE, the largest file size
Cap == 2^W                       \* uint arithmetic is modulo Cap
Word == 0..NBLOCKS \cup Vals
Zero == [w \in 0..BSIZE - 1 |-> 0]

VARIABLES
  used,        \* the bitmap: the blocks marked in use
  blk,         \* the contents of every block
  addrs,       \* ip->addrs[0..NDIRECT]
  size,        \* ip->size
  file,        \* the bytes the callers of writei were told were written
  panicked

vars == <<used, blk, addrs, size, file, panicked>>

TypeOK ==
  /\ used \subseteq Blocks
  /\ blk \in [Blocks -> [0..BSIZE - 1 -> Word]]
  /\ addrs \in [Inodes -> [0..NDIRECT -> 0..NBLOCKS]]
  /\ size \in [Inodes -> 0..MAXB]
  /\ file \in [Inodes -> [len : 0..MAXB, w : [0..MAXB - 1 -> Word]]]
  /\ panicked \in {"none", "freeing free block", "bmap: out of range"}

(* The file system state an operation of one inode works on. *)
FS(ip) == [u |-> used, bk |-> blk, ad |-> addrs[ip]]

-----------------------------------------------------------------------------
(* balloc: the first block whose bit is clear is marked in use and zeroed *)
(* (bzero); 0 if out of blocks.                                            *)
\* bug variants: the scan counts block 0 (reserved by mkfs) as allocatable;
\* the new block is not zeroed
BallocFromZero(R) ==
  IF (0..NBLOCKS) \subseteq R.u THEN [b |-> 0, r |-> R]
  ELSE LET b == Min((0..NBLOCKS) \ R.u)
       IN [b |-> b, r |-> [R EXCEPT !.u = @ \cup {b}, !.bk[b] = Zero]]

BallocNoZero(R) ==
  IF Blocks \subseteq R.u THEN [b |-> 0, r |-> R]
  ELSE LET b == Min(Blocks \ R.u)
       IN [b |-> b, r |-> [R EXCEPT !.u = @ \cup {b}]]

Balloc(R) ==
  IF Blocks \subseteq R.u THEN [b |-> 0, r |-> R]
  ELSE LET b == Min(Blocks \ R.u)
       IN [b |-> b, r |-> [R EXCEPT !.u = @ \cup {b}, !.bk[b] = Zero]]

(* bmap(ip, bn): the block of file block bn, allocated if it has none; *)
(* addr 0 if balloc fails, -1 for the panic "bmap: out of range".      *)
(* For bn >= NDIRECT, y is the indirect block as loaded or allocated.  *)
BmapIndirect(R, k, y) ==
  CASE y.b = 0 -> [r |-> y.r, a |-> 0]
    [] y.r.bk[y.b][k] # 0 -> [r |-> y.r, a |-> y.r.bk[y.b][k]]
    [] OTHER -> LET z == Balloc(y.r)
                IN IF z.b = 0 THEN [r |-> y.r, a |-> 0]
                   ELSE [r |-> [z.r EXCEPT !.bk[y.b][k] = z.b], a |-> z.b]

IndirectBlock(R) ==
  IF R.ad[NDIRECT] # 0 THEN [b |-> R.ad[NDIRECT], r |-> R]
  ELSE LET x == Balloc(R)
       IN IF x.b = 0 THEN x
          ELSE [b |-> x.b, r |-> [x.r EXCEPT !.ad[NDIRECT] = x.b]]

Bmap(R, bn) ==
  CASE bn < NDIRECT ->
         IF R.ad[bn] # 0 THEN [r |-> R, a |-> R.ad[bn]]
         ELSE LET x == Balloc(R)
              IN IF x.b = 0 THEN [r |-> x.r, a |-> 0]
                 ELSE [r |-> [x.r EXCEPT !.ad[bn] = x.b], a |-> x.b]
    [] bn - NDIRECT < NINDIRECT -> BmapIndirect(R, bn - NDIRECT, IndirectBlock(R))
    [] OTHER -> [r |-> R, a |-> -1]

(* The block of file block bn without allocating (0 if none). *)
Lookup(R, bn) ==
  IF bn < NDIRECT THEN R.ad[bn]
  ELSE IF R.ad[NDIRECT] = 0 THEN 0
  ELSE R.bk[R.ad[NDIRECT]][bn - NDIRECT]

(* Copy cnt words of value v into block b from word start. *)
Put(R, b, start, cnt, v) ==
  [R EXCEPT !.bk[b] = [w \in 0..BSIZE - 1 |->
                          IF start <= w /\ w < start + cnt THEN v ELSE @[w]]]

(* The loop of writei from offset off to end.  The copyin of the chunk    *)
(* numbered fail (counting from 0) fails after copying its first pp words *)
(* (copyin copies page by page); fail = Chunks means no copyin fails.     *)
(* Result: the state, the offset reached, the words of the failed chunk,  *)
(* and whether bmap panicked.  x is bmap's answer for the chunk at off.   *)
RECURSIVE WriteLoop(_, _, _, _, _, _)
WriteChunk(x, off, end, fail, pp, v) ==
  LET m == Min({end - off, BSIZE - (off % BSIZE)})
  IN CASE x.a = -1 -> [r |-> x.r, off |-> off, part |-> 0, bad |-> TRUE]
       [] x.a = 0 -> [r |-> x.r, off |-> off, part |-> 0, bad |-> FALSE]
       [] fail = 0 -> [r |-> Put(x.r, x.a, off % BSIZE, Min({pp, m - 1}), v),
                       off |-> off, part |-> Min({pp, m - 1}), bad |-> FALSE]
       [] OTHER -> WriteLoop(Put(x.r, x.a, off % BSIZE, m, v), off + m, end,
                             fail - 1, pp, v)

WriteLoop(R, off, end, fail, pp, v) ==
  IF off >= end THEN [r |-> R, off |-> off, part |-> 0, bad |-> FALSE]
  ELSE WriteChunk(Bmap(R, off \div BSIZE), off, end, fail, pp, v)

(* The checks at the top of writei, in uint arithmetic. *)
\* bug variant: no check that off + n overflows
WriteiRejectsNoOverflow(ip, off, n) ==
  \/ off > size[ip]
  \/ (off + n) % Cap > MAXB

WriteiRejects(ip, off, n) ==
  \/ off > size[ip] \/ (off + n) % Cap < off
  \/ (off + n) % Cap > MAXB

(* The number of chunks of the loop of writei(off, n): fail ranges over *)
(* these, Chunks(off, n) itself meaning that no copyin fails.           *)
Chunks(off, n) == (off + n + BSIZE - 1) \div BSIZE - off \div BSIZE

(* The bytes readi(ip, off, n) copies out. *)
Readi(ip, off, n) ==
  IF off > size[ip] \/ (off + n) % Cap < off THEN <<>>
  ELSE LET n2 == IF (off + n) % Cap > size[ip] THEN size[ip] - off ELSE n
           R == FS(ip)
       IN [k \in 1..n2 |->
             blk[Lookup(R, (off + k - 1) \div BSIZE)][(off + k - 1) % BSIZE]]

-----------------------------------------------------------------------------
(* writei(ip, 1, src, off, n) copying value v.  The caller (filewrite)  *)
(* learns tot = reached - off, so those bytes, and the bytes of a failed *)
(* chunk that lie below the old size, are what the file now holds.       *)
\* bug variant: the new size is off + n, whatever the loop reached
WriteiSizeOffN(ip, off, n, res) ==
  IF off + n > size[ip] THEN off + n ELSE size[ip]

(* if(off > ip->size) ip->size = off, with off the offset the loop reached *)
NewSize(ip, off, n, res) ==
  IF res.off > size[ip] THEN res.off ELSE size[ip]

Writei(ip) ==
  /\ panicked = "none"
  /\ \E off \in Offs, n \in Lens, v \in Vals :
     /\ ~WriteiRejects(ip, off, n)
     /\ \E fail \in 0..Chunks(off, n) :
        \E pp \in IF fail = Chunks(off, n) THEN {0} ELSE 0..BSIZE - 1 :
       \E res \in {WriteLoop(FS(ip), off, off + n, fail, pp, v)} :
          LET f == file[ip]
              len == IF res.off > f.len THEN res.off ELSE f.len
          IN /\ used' = res.r.u
             /\ blk' = res.r.bk
             /\ addrs' = [addrs EXCEPT ![ip] = res.r.ad]
             /\ size' = [size EXCEPT ![ip] = NewSize(ip, off, n, res)]
             /\ file' = [file EXCEPT ![ip] =
                  [len |-> len,
                   w |-> [k \in 0..MAXB - 1 |->
                           IF \/ off <= k /\ k < res.off
                              \/ res.off <= k /\ k < res.off + res.part
                                 /\ k < f.len
                           THEN v ELSE f.w[k]]]]
             /\ panicked' = IF res.bad THEN "bmap: out of range" ELSE panicked

(* itrunc(ip): bfree every direct block, every block of the indirect      *)
(* block and the indirect block itself, clearing addrs[].  bfree panics on *)
(* a block whose bit is already clear, also one freed twice in this loop.  *)
Indirect(ip) ==
  LET ind == addrs[ip][NDIRECT]
  IN IF ind = 0 THEN {} ELSE {<<"ind", j>> : j \in {j \in 0..NINDIRECT - 1 : blk[ind][j] # 0}}

(* The block each bfree of itrunc frees, by position. *)
FreedBlock(ip, x) ==
  CASE x[1] = "dir" -> addrs[ip][x[2]]
    [] x[1] = "ind" -> blk[addrs[ip][NDIRECT]][x[2]]
    [] OTHER -> addrs[ip][NDIRECT]

Frees(ip) ==
  {<<"dir", i>> : i \in {i \in 0..NDIRECT - 1 : addrs[ip][i] # 0}}
    \cup Indirect(ip)
    \cup (IF addrs[ip][NDIRECT] = 0 THEN {} ELSE {<<"blk", NDIRECT>>})

\* bug variant: the indirect block itself is not freed
ItruncKeepsIndirect(ip) ==
  LET fs == {x \in Frees(ip) : x[1] # "blk"}
      all == {FreedBlock(ip, x) : x \in fs}
  IN /\ panicked' = IF all \subseteq used /\ Cardinality(all) = Cardinality(fs)
                     THEN panicked ELSE "freeing free block"
     /\ used' = used \ all
     /\ addrs' = [addrs EXCEPT ![ip] = [i \in 0..NDIRECT |-> 0]]

ItruncFree(ip) ==
  LET fs == Frees(ip)
      all == {FreedBlock(ip, x) : x \in fs}
  IN /\ panicked' = IF all \subseteq used /\ Cardinality(all) = Cardinality(fs)
                     THEN panicked ELSE "freeing free block"
     /\ used' = used \ all
     /\ addrs' = [addrs EXCEPT ![ip] = [i \in 0..NDIRECT |-> 0]]

(* itrunc: the frees, then size = 0 and iupdate. *)
Itrunc(ip) ==
  /\ panicked = "none"
  /\ ItruncFree(ip)
  /\ size' = [size EXCEPT ![ip] = 0]
  /\ file' = [file EXCEPT ![ip] = [len |-> 0, w |-> [k \in 0..MAXB - 1 |-> 0]]]
  /\ UNCHANGED blk

Init ==
  /\ used = {}
  /\ blk = [b \in Blocks |-> Zero]
  /\ addrs = [ip \in Inodes |-> [i \in 0..NDIRECT |-> 0]]
  /\ size = [ip \in Inodes |-> 0]
  /\ file = [ip \in Inodes |-> [len |-> 0, w |-> [k \in 0..MAXB - 1 |-> 0]]]
  /\ panicked = "none"

Next == \E ip \in Inodes : Writei(ip) \/ Itrunc(ip)

Spec == Init /\ [][Next]_vars

-----------------------------------------------------------------------------
(* Properties *)

(* The places that hold a block number: addrs[] and the indirect block. *)
Slots(ip) ==
  {<<ip, i>> : i \in 0..NDIRECT}
    \cup (IF addrs[ip][NDIRECT] = 0 THEN {}
          ELSE {<<ip, NDIRECT + 1 + j>> : j \in 0..NINDIRECT - 1})

Holds(s) ==
  IF s[2] <= NDIRECT THEN addrs[s[1]][s[2]]
  ELSE blk[addrs[s[1]][NDIRECT]][s[2] - NDIRECT - 1]

AllSlots == UNION {Slots(ip) : ip \in Inodes}

(* No panic of balloc, bfree or bmap: itrunc never frees a block twice or *)
(* one whose bit is clear, and writei never maps past MAXFILE.            *)
NoPanic == panicked = "none"

(* The bitmap is exact: a block is marked in use exactly when some inode   *)
(* refers to it, after any sequence of writei calls that run out of blocks *)
(* halfway and itrunc calls (no block leaks, none is free while in use).  *)
BitmapExact == used = {Holds(s) : s \in AllSlots} \ {0}

(* No block is referred to from two places, of one inode or of two. *)
NoSharedBlock ==
  \A s, t \in AllSlots : s # t /\ Holds(s) # 0 => Holds(s) # Holds(t)

(* What readi(off, n) returns, stated from the bytes written: the range   *)
(* [off, off+n) clipped to the file, nothing if off is past the end or    *)
(* off+n overflows.                                                        *)
ReadRef(f, off, n) ==
  IF off > f.len \/ off + n >= Cap THEN <<>>
  ELSE [k \in 1..(Min({off + n, f.len}) - off) |-> f.w[off + k - 1]]

(* writei then readi returns the bytes written: for every offset and      *)
(* length, readi (its uint checks, its clipping and bmap) returns what     *)
(* the callers of writei were told was written, whatever writes ran out   *)
(* of blocks or failed in copyin, and every block below size is mapped,    *)
(* so readi's bmap never allocates.                                        *)
RoundTrip ==
  \A ip \in Inodes :
    /\ \A bn \in 0..MAXFILE - 1 :
         bn * BSIZE < size[ip] => Lookup(FS(ip), bn) # 0
    /\ \A off \in Offs, n \in Lens : Readi(ip, off, n) = ReadRef(file[ip], off, n)
====
