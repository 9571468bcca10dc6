\* One process, three names, paths into a subdirectory and its "." and
\* "..": every sequence of calls, every failure of dirlink and ialloc.
CONSTANTS
  p1 = p1  p2 = p2  None = None
  Procs <- MCProcs1
  DIRSIZ = 2
  Paths <- MCPaths3
  ChdirPaths <- MCChdir3
  NINODES = 5
  MaxEnts = 4
SPECIFICATION Spec
VIEW View
INVARIANTS TypeOK LinkCount RefExact NoDangling NoOrphan NoPanic
PROPERTY CallsReturn
