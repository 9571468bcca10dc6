SPECIFICATION Spec
CONSTANTS
  i1 = i1
  i2 = i2
  Inodes <- MCInodes
  NBLOCKS = 4
  NDIRECT = 1
  BSIZE = 2
  W = 4
  Vals = {1, 2}
  Offs <- MCOffs
  Lens <- MCLens
SYMMETRY InodeSymmetry
INVARIANTS
  TypeOK
  NoPanic
  BitmapExact
  NoSharedBlock
  RoundTrip
