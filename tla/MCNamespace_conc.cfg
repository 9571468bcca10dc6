\* Two processes on two names in the root: link, unlink, create and mkdir
\* race for the names, the root's lock and the one free dinode.
CONSTANTS
  p1 = p1  p2 = p2  None = None
  Procs <- MCProcs2
  DIRSIZ = 2
  Paths <- MCPathsAB
  ChdirPaths <- MCNoChdir
  NINODES = 3
  MaxEnts = 3
SPECIFICATION Spec
VIEW View
INVARIANTS LinkCount RefExact NoDangling NoOrphan NoPanic
PROPERTY CallsReturn
