\* One process: mkdir /a, chdir /a, unlink /a, then a relative create
\* puts a name into the removed directory its cwd still holds.
CONSTANTS
  p1 = p1  p2 = p2  None = None
  Procs <- MCProcs1
  DIRSIZ = 2
  Paths <- MCPathsAB
  ChdirPaths <- MCChdirA
  NINODES = 4
  MaxEnts = 3
SPECIFICATION Spec
VIEW View
INVARIANT NoOrphan
