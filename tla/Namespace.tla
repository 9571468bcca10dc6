----------------------------- MODULE Namespace -----------------------------
(***************************************************************************)
(* Directories and the namespace system calls: dirlookup, dirlink, namex   *)
(* (namei, nameiparent), isdirempty and iput of fs.c, and create           *)
(* (sys_open with O_CREATE, sys_mkdir), sys_link, sys_unlink, sys_chdir   *)
(* and sys_close of sysfile.c, run by several processes at once.           *)
(*                                                                         *)
(* A step is the code between two acquisitions of an inode's sleep-lock:  *)
(* everything such a step touches is either under a sleep-lock the         *)
(* process holds (an inode's fields and its directory entries) or under    *)
(* itable.lock or a buffer lock for one short atomic update (ref, ialloc). *)
(* The only sleep-lock held from one step to the next is sys_unlink's lock *)
(* on the parent while it waits for the child's.  In-memory and on-disk    *)
(* inode agree (every change is followed by iupdate under the lock; the    *)
(* InodeTable module checks the cache).  A path is a sequence of one-     *)
(* character strings, split by skipelem into names of at most DIRSIZ       *)
(* characters.  Each process has a current directory (p->cwd, a counted  *)
(* reference) where its relative paths start, moved by sys_chdir.          *)
(***************************************************************************)
EXTENDS Naturals, Sequences, FiniteSets

CONSTANTS
  Procs,
  NINODES,     \* dinodes 1..NINODES-1, ROOTINO = 1
  DIRSIZ,      \* bytes of a directory entry's name
  Paths,       \* the paths the processes use
  ChdirPaths,  \* the paths they give sys_chdir
  MaxEnts,     \* slots of a directory before writei runs out of room
  None

ASSUME DIRSIZ \in Nat /\ DIRSIZ >= 2   \* "." and ".." stay apart

ROOTINO == 1
Inums == 1..NINODES - 1
DOT == <<".">>
DOTDOT == <<".", ".">>
SLASH == "/"
FREE == "free"            \* dinode type 0
Types == {FREE, "file", "dir"}

VARIABLES
  type, nlink, ents,  \* the inodes: type, link count, directory entries
  ref,                \* ip->ref
  lk,                 \* holder of ip->lock held across steps, or None
  pc, op, nxt,        \* a process's position, system call and namex exits
  rest, cur,          \* namex: the path left, the inode it holds
  dp, ip, name,       \* the locals of the system call
  off,                \* sys_unlink: the slot dirlookup found in dp
  arg,                \* the second path of sys_link
  fd,                 \* the inode of the file the process has open, or 0
  cwd,                \* p->cwd
  panicked

vars == <<type, nlink, ents, ref, lk, pc, op, nxt, rest, cur, dp, ip, name, off,
          arg, fd, cwd, panicked>>

-----------------------------------------------------------------------------
(* skipelem(path, name): skip the '/'s in front; if nothing is left there *)
(* is no element (0).  Else the element runs to the next '/' or the end;  *)
(* name gets its first DIRSIZ bytes (without a terminating 0 when it has  *)
(* DIRSIZ or more, which namecmp's and dirlink's strncpy's bound of       *)
(* DIRSIZ makes the same name); the path returned starts after the '/'s   *)
(* that follow the element.                                               *)
RECURSIVE SkipSlashes(_)
SkipSlashes(path) ==
  IF path # <<>> /\ Head(path) = SLASH THEN SkipSlashes(Tail(path)) ELSE path

HasElem(path) == SkipSlashes(path) # <<>>

\* the length of the element at the front of s
RECURSIVE ElemLen(_)
ElemLen(s) == IF s = <<>> \/ Head(s) = SLASH THEN 0 ELSE 1 + ElemLen(Tail(s))

SkipElem(path) ==
  LET s == SkipSlashes(path)
      len == ElemLen(s)
  IN [name |-> SubSeq(s, 1, IF len >= DIRSIZ THEN DIRSIZ ELSE len),
      rest |-> SkipSlashes(SubSeq(s, len + 1, Len(s)))]

(* The paths namex can hold: each of Paths and what skipelem leaves of  *)
(* it (and of ChdirPaths), one element at a time.                        *)
RECURSIVE Rests(_)
Rests(path) ==
  {path} \cup (IF HasElem(path) THEN Rests(SkipElem(path).rest) ELSE {})

PathRests == UNION {Rests(q) : q \in Paths \cup ChdirPaths} \cup {<<>>}

(* skipelem's result on each of them, computed once: has is FALSE when   *)
(* it returns 0.                                                          *)
Skip == [q \in PathRests |-> [has  |-> HasElem(q),
                               name |-> SkipElem(q).name,
                               rest |-> SkipElem(q).rest]]

(* The names the paths hold, other than "." and "..". *)
Names == {Skip[q].name : q \in {q \in PathRests : Skip[q].has}} \ {DOT, DOTDOT}

Ent == [name : Names \cup {DOT, DOTDOT}, inum : 0..NINODES - 1]
PCs == {"idle", "namex", "link_inc", "link_dirlink", "link_bad",
        "unlink_lookup", "unlink_child", "create", "create_found", "chdir"}

TypeOK ==
  /\ type \in [Inums -> Types]
  /\ nlink \in [Inums -> Nat]
  /\ \A i \in Inums : ents[i] \in Seq(Ent) /\ Len(ents[i]) <= MaxEnts
  /\ ref \in [Inums -> Nat]
  /\ lk \in [Inums -> Procs \cup {None}]
  /\ pc \in [Procs -> PCs]
  /\ cur \in [Procs -> 0..NINODES - 1] /\ dp \in [Procs -> 0..NINODES - 1]
  /\ ip \in [Procs -> 0..NINODES - 1] /\ fd \in [Procs -> 0..NINODES - 1]
  /\ cwd \in [Procs -> Inums] /\ off \in [Procs -> 0..MaxEnts]
  /\ panicked \in {"none", "ilock: no type", "unlink: nlink < 1",
                   "dirlookup not DIR"}

(* The inode state one step works on, updated by the helpers below. *)
S0 == [type |-> type, nlink |-> nlink, ents |-> ents, ref |-> ref]

Set(S) == /\ type' = S.type /\ nlink' = S.nlink
          /\ ents' = S.ents /\ ref' = S.ref

(* iget: a new reference (itable.lock). *)
Iget(S, i) == [S EXCEPT !.ref[i] = @ + 1]

(* iput: the last reference to an inode with no links frees it: itrunc  *)
(* drops its content, type = 0, iupdate; then ref--.                     *)
Iput(S, i) ==
  IF S.ref[i] = 1 /\ S.nlink[i] = 0
  THEN [S EXCEPT !.type[i] = FREE, !.ents[i] = <<>>, !.ref[i] = 0]
  ELSE [S EXCEPT !.ref[i] = @ - 1]

(* dirlookup(dp, name): the offset of the first used entry named name,  *)
(* 0 if none (offsets are slot numbers 1..).                             *)
Lookup(S, d, nm) ==
  LET hits == {k \in 1..Len(S.ents[d]) :
                 S.ents[d][k].inum # 0 /\ S.ents[d][k].name = nm}
  IN IF hits = {} THEN 0 ELSE CHOOSE k \in hits : \A j \in hits : k <= j

(* dirlink(dp, name, inum): fails if the name is present (its iget is   *)
(* undone by iput at once); else the first free slot, or a new slot at  *)
(* the end, where writei may run out of blocks (room = FALSE) or of the *)
(* file's MaxEnts slots.  Result: the new state, or the same with ok    *)
(* FALSE.                                                               *)
(* bug variant: writei past the last slot the file can hold. *)
DirlinkNoCap(S, d, nm, i, room) ==
  LET free == {k \in 1..Len(S.ents[d]) : S.ents[d][k].inum = 0}
      e == [name |-> nm, inum |-> i]
  IN CASE Lookup(S, d, nm) # 0 -> [s |-> S, ok |-> FALSE]
       [] free # {} ->
            LET k == CHOOSE k \in free : \A j \in free : k <= j
            IN [s |-> [S EXCEPT !.ents[d][k] = e], ok |-> TRUE]
       [] room -> [s |-> [S EXCEPT !.ents[d] = Append(@, e)], ok |-> TRUE]
       [] OTHER -> [s |-> S, ok |-> FALSE]

Dirlink(S, d, nm, i, room) ==
  LET free == {k \in 1..Len(S.ents[d]) : S.ents[d][k].inum = 0}
      e == [name |-> nm, inum |-> i]
  IN CASE Lookup(S, d, nm) # 0 -> [s |-> S, ok |-> FALSE]
       [] free # {} ->
            LET k == CHOOSE k \in free : \A j \in free : k <= j
            IN [s |-> [S EXCEPT !.ents[d][k] = e], ok |-> TRUE]
       [] room /\ Len(S.ents[d]) < MaxEnts ->
            [s |-> [S EXCEPT !.ents[d] = Append(@, e)], ok |-> TRUE]
       [] OTHER -> [s |-> S, ok |-> FALSE]

(* bug variant: the loop starts one entry late. *)
IsDirEmptyFromFour(S, d) == \A k \in 4..Len(S.ents[d]) : S.ents[d][k].inum = 0

(* isdirempty: no used entry after "." and "..". *)
IsDirEmpty(S, d) ==
  \A k \in 3..Len(S.ents[d]) : S.ents[d][k].inum = 0

-----------------------------------------------------------------------------
(* ilock of an inode whose dinode is free panics. *)
NoType(i) ==
  /\ type[i] = FREE /\ panicked' = "ilock: no type"
  /\ UNCHANGED <<type, nlink, ents, ref, lk, pc, dp, ip, rest, cur, nxt, fd, cwd,
                 op, name, off, arg>>

Goto(p, l) == pc' = [pc EXCEPT ![p] = l]

(* namex(path, parent) starts at iget(ROOTINO) for a path that begins   *)
(* with '/', else at idup(p->cwd); then one step per element.  ok and  *)
(* no are where the system call goes on.                               *)
Origin(p, path) == IF path # <<>> /\ Head(path) = SLASH THEN ROOTINO ELSE cwd[p]

StartNamex(p, path, parent, ok, no) ==
  /\ rest' = [rest EXCEPT ![p] = path]
  /\ cur' = [cur EXCEPT ![p] = Origin(p, path)]
  /\ nxt' = [nxt EXCEPT ![p] = [parent |-> parent, ok |-> ok, no |-> no]]
  /\ Goto(p, "namex")

(* One turn of namex's loop: ilock(ip), reject a non-directory, stop one *)
(* level early for nameiparent, else dirlookup and iunlockput.           *)
NamexStep(p) ==
  LET c == cur[p]
      se == Skip[rest[p]]
      nm == se.name
      k == Lookup(S0, c, nm)
      nx == nxt[p]
  IN
  /\ pc[p] = "namex" /\ se.has /\ lk[c] = None
  /\ \/ NoType(c)
     \/ /\ type[c] # FREE
        /\ LET last == se.rest = <<>>
               stop == type[c] = "dir" /\ nx.parent /\ last
               fail == type[c] # "dir" \/ (~stop /\ k = 0)
           IN CASE fail ->
                     /\ Set(Iput(S0, c)) /\ Goto(p, nx.no)
                     /\ cur' = [cur EXCEPT ![p] = 0]
                     /\ UNCHANGED <<rest, dp, ip, name, off>>
                [] stop ->
                     /\ dp' = [dp EXCEPT ![p] = c] /\ name' = [name EXCEPT ![p] = nm]
                     /\ cur' = [cur EXCEPT ![p] = 0] /\ Goto(p, nx.ok)
                     /\ UNCHANGED <<type, nlink, ents, ref, rest, ip>>
                [] OTHER ->
                     LET i == ents[c][k].inum
                     IN /\ Set(Iput(Iget(S0, i), c))
                        /\ IF last
                             THEN /\ ip' = [ip EXCEPT ![p] = i]
                                  /\ cur' = [cur EXCEPT ![p] = 0] /\ Goto(p, nx.ok)
                             ELSE /\ cur' = [cur EXCEPT ![p] = i]
                                  /\ UNCHANGED <<pc, ip>>
                        /\ rest' = [rest EXCEPT ![p] = se.rest]
                        /\ UNCHANGED <<dp, name, off>>
        /\ UNCHANGED panicked
  /\ UNCHANGED <<lk, op, nxt, arg, off, fd, cwd>>

(* skipelem finds no element before any lookup ("/" or ""): namei       *)
(* returns the inode it started from, nameiparent puts it and fails.    *)
NamexEnd(p) ==
  /\ pc[p] = "namex" /\ ~Skip[rest[p]].has
  /\ \/ /\ nxt[p].parent
        /\ Set(Iput(S0, cur[p])) /\ Goto(p, nxt[p].no)
        /\ UNCHANGED ip
     \/ /\ ~nxt[p].parent
        /\ ip' = [ip EXCEPT ![p] = cur[p]] /\ Goto(p, nxt[p].ok)
        /\ UNCHANGED <<type, nlink, ents, ref>>
  /\ cur' = [cur EXCEPT ![p] = 0]
  /\ UNCHANGED <<lk, op, nxt, rest, dp, name, off, arg, fd, cwd, panicked>>

-----------------------------------------------------------------------------
(* A process at rest enters system call o on path: namex's first iget  *)
(* or idup is part of this step.                                       *)
Enter(p, o, path, parent, ok) ==
  /\ pc[p] = "idle" /\ panicked = "none"
  /\ op' = [op EXCEPT ![p] = o]
  /\ StartNamex(p, path, parent, ok, "idle")
  /\ Set(Iget(S0, Origin(p, path)))
  /\ UNCHANGED <<lk, dp, ip, name, off, fd, cwd, panicked>>

(* create(path, type) for sys_open(path, O_CREATE) or sys_mkdir:       *)
(* nameiparent(path).  A process keeps at most one file open.          *)
StartCreate(p) ==
  /\ fd[p] = 0
  /\ \E path \in Paths, o \in {"create", "mkdir"} : Enter(p, o, path, TRUE, "create")
  /\ UNCHANGED arg

(* sys_unlink(path): nameiparent(path). *)
StartUnlink(p) ==
  /\ \E path \in Paths : Enter(p, "unlink", path, TRUE, "unlink_lookup")
  /\ UNCHANGED arg

(* sys_link(old, new): namei(old); new is kept for the later nameiparent. *)
StartLink(p) ==
  \E old, new \in Paths :
    /\ Enter(p, "link", old, FALSE, "link_inc")
    /\ arg' = [arg EXCEPT ![p] = new]

(* sys_close -> fileclose -> iput of the open file's inode. *)
Close(p) ==
  /\ pc[p] = "idle" /\ panicked = "none" /\ fd[p] # 0
  /\ Set(Iput(S0, fd[p]))
  /\ fd' = [fd EXCEPT ![p] = 0]
  /\ UNCHANGED <<lk, pc, op, nxt, rest, cur, dp, ip, name, off, arg, cwd, panicked>>

(* The step ends the system call: the locals that held references are   *)
(* cleared (their references were given back in the same step).        *)
Done(p) ==
  /\ Goto(p, "idle")
  /\ dp' = [dp EXCEPT ![p] = 0] /\ ip' = [ip EXCEPT ![p] = 0]

-----------------------------------------------------------------------------
(* bug variant: sys_link does not count the new link before dirlink. *)
LinkIncNoInc(p) ==
  LET i == ip[p] IN
  /\ pc[p] = "link_inc" /\ lk[i] = None
  /\ \/ NoType(i)
     \/ /\ type[i] = "dir"
        /\ Set(Iput(S0, i)) /\ Done(p)
        /\ UNCHANGED <<lk, rest, cur, nxt, fd, cwd, panicked>>
     \/ /\ type[i] = "file"
        /\ Set([S0 EXCEPT !.ref[Origin(p, arg[p])] = @ + 1])
        /\ StartNamex(p, arg[p], TRUE, "link_dirlink", "link_bad")
        /\ UNCHANGED <<lk, dp, ip, fd, cwd, panicked>>
  /\ UNCHANGED <<op, name, off, arg>>

(* sys_link: ilock(ip); a directory cannot be linked; ip->nlink++,     *)
(* iupdate, iunlock; then nameiparent(new).                            *)
LinkInc(p) ==
  LET i == ip[p] IN
  /\ pc[p] = "link_inc" /\ lk[i] = None
  /\ \/ NoType(i)
     \/ /\ type[i] = "dir"
        /\ Set(Iput(S0, i)) /\ Done(p)
        /\ UNCHANGED <<lk, rest, cur, nxt, fd, cwd, panicked>>
     \/ /\ type[i] = "file"
        /\ Set([S0 EXCEPT !.nlink[i] = @ + 1, !.ref[Origin(p, arg[p])] = @ + 1])
        /\ StartNamex(p, arg[p], TRUE, "link_dirlink", "link_bad")
        /\ UNCHANGED <<lk, dp, ip, fd, cwd, panicked>>
  /\ UNCHANGED <<op, name, off, arg>>

(* ilock(dp); dirlink(dp, name, ip->inum); iunlockput(dp); on success  *)
(* iput(ip), else goto bad.                                            *)
LinkDirlink(p) ==
  LET d == dp[p] IN
  /\ pc[p] = "link_dirlink" /\ lk[d] = None
  /\ \/ NoType(d)
     \/ /\ type[d] # FREE
        /\ \E room \in BOOLEAN :
             LET r == Dirlink(S0, d, name[p], ip[p], room) IN
             IF r.ok THEN /\ Set(Iput(Iput(r.s, d), ip[p])) /\ Done(p)
                     ELSE /\ Set(Iput(r.s, d)) /\ Goto(p, "link_bad")
                          /\ dp' = [dp EXCEPT ![p] = 0] /\ UNCHANGED ip
        /\ UNCHANGED <<lk, rest, cur, nxt, fd, cwd, panicked>>
  /\ UNCHANGED <<op, name, off, arg>>

(* bad: ilock(ip); ip->nlink--; iupdate; iunlockput(ip). *)
LinkBad(p) ==
  LET i == ip[p] IN
  /\ pc[p] = "link_bad" /\ lk[i] = None
  /\ \/ NoType(i)
     \/ /\ type[i] # FREE
        /\ Set(Iput([S0 EXCEPT !.nlink[i] = @ - 1], i)) /\ Done(p)
        /\ UNCHANGED <<lk, rest, cur, nxt, fd, cwd, panicked>>
  /\ UNCHANGED <<op, name, off, arg>>
-----------------------------------------------------------------------------
(* bug variant: no check for "." and "..". *)
UnlinkableAll(nm) == TRUE

(* sys_unlink refuses "." and "..". *)
Unlinkable(nm) ==
  nm \notin {DOT, DOTDOT}

(* bug variant: the parent keeps the ".." link of a removed directory. *)
UnlinkEntryNoParentDec(S, d, i, k) == [S EXCEPT !.ents[d][k].inum = 0]

(* bug variant: the entry is not cleared. *)
UnlinkEntryNoClear(S, d, i, k) ==
  [S EXCEPT !.nlink[d] = IF S.type[i] = "dir" THEN @ - 1 ELSE @]

(* writei of a zero dirent at off; a directory's ".." no longer links dp. *)
UnlinkEntry(S, d, i, k) ==
  [S EXCEPT !.ents[d][k].inum = 0,
            !.nlink[d] = IF S.type[i] = "dir" THEN @ - 1 ELSE @]

(* bug variant: the success path does not iunlock(dp). *)
UnlinkChildKeepsDp(p) ==
  LET d == dp[p]
      i == ip[p]
      k == off[p]
  IN
  /\ pc[p] = "unlink_child" /\ lk[i] = None
  /\ \/ NoType(i)
     \/ /\ type[i] # FREE /\ nlink[i] < 1 /\ panicked' = "unlink: nlink < 1"
        /\ UNCHANGED <<type, nlink, ents, ref, lk, pc, dp, ip, rest, cur, nxt, fd, cwd>>
     \/ /\ type[i] # FREE /\ nlink[i] >= 1 /\ Done(p)
        /\ IF type[i] = "dir" /\ ~IsDirEmpty(S0, i)
             THEN Set(Iput(Iput(S0, i), d)) /\ lk' = [lk EXCEPT ![d] = None]
             ELSE Set(Iput([Iput(UnlinkEntry(S0, d, i, k), d) EXCEPT !.nlink[i] = @ - 1], i))
                  /\ UNCHANGED lk
        /\ UNCHANGED <<rest, cur, nxt, fd, cwd, panicked>>
  /\ UNCHANGED <<op, name, off, arg>>

(* bug variant: dp is unlocked before the child is locked. *)
UnlinkLookupUnlocked(p) ==
  LET d == dp[p]
      k == Lookup(S0, d, name[p])
  IN
  /\ pc[p] = "unlink_lookup" /\ lk[d] = None
  /\ \/ NoType(d)
     \/ /\ type[d] # FREE
        /\ CASE ~Unlinkable(name[p]) \/ (type[d] = "dir" /\ k = 0) ->
                  /\ Set(Iput(S0, d)) /\ Done(p) /\ UNCHANGED <<lk, off, panicked>>
             [] Unlinkable(name[p]) /\ type[d] # "dir" ->
                  /\ panicked' = "dirlookup not DIR"
                  /\ UNCHANGED <<type, nlink, ents, ref, lk, pc, dp, ip, off>>
             [] OTHER ->
                  /\ Set(Iget(S0, ents[d][k].inum))
                  /\ ip' = [ip EXCEPT ![p] = ents[d][k].inum]
                  /\ off' = [off EXCEPT ![p] = k]
                  /\ UNCHANGED lk /\ Goto(p, "unlink_child")
                  /\ UNCHANGED <<dp, panicked>>
        /\ UNCHANGED <<rest, cur, nxt, fd, cwd>>
  /\ UNCHANGED <<op, name, arg>>

(* sys_unlink: ilock(dp) (held into the next step); "." and ".." cannot *)
(* be unlinked; dirlookup(dp, name, &off) takes a reference to the     *)
(* child and returns the slot that the next step clears.                *)
UnlinkLookup(p) ==
  LET d == dp[p]
      k == Lookup(S0, d, name[p])
  IN
  /\ pc[p] = "unlink_lookup" /\ lk[d] = None
  /\ \/ NoType(d)
     \/ /\ type[d] # FREE
        /\ CASE ~Unlinkable(name[p]) \/ (type[d] = "dir" /\ k = 0) ->
                  /\ Set(Iput(S0, d)) /\ Done(p) /\ UNCHANGED <<lk, off, panicked>>
             [] Unlinkable(name[p]) /\ type[d] # "dir" ->
                  /\ panicked' = "dirlookup not DIR"
                  /\ UNCHANGED <<type, nlink, ents, ref, lk, pc, dp, ip, off>>
             [] OTHER ->
                  /\ Set(Iget(S0, ents[d][k].inum))
                  /\ ip' = [ip EXCEPT ![p] = ents[d][k].inum]
                  /\ off' = [off EXCEPT ![p] = k]
                  /\ lk' = [lk EXCEPT ![d] = p] /\ Goto(p, "unlink_child")
                  /\ UNCHANGED <<dp, panicked>>
        /\ UNCHANGED <<rest, cur, nxt, fd, cwd>>
  /\ UNCHANGED <<op, name, arg>>

(* ilock(ip) while holding dp; panic if nlink < 1; a non-empty directory *)
(* is not removed; else the entry is zeroed (writei), a directory's ".." *)
(* link of dp is dropped, iunlockput(dp), ip->nlink--, iunlockput(ip).   *)
UnlinkChild(p) ==
  LET d == dp[p]
      i == ip[p]
      k == off[p]
  IN
  /\ pc[p] = "unlink_child" /\ lk[i] = None
  /\ \/ NoType(i)
     \/ /\ type[i] # FREE /\ nlink[i] < 1 /\ panicked' = "unlink: nlink < 1"
        /\ UNCHANGED <<type, nlink, ents, ref, lk, pc, dp, ip, rest, cur, nxt, fd, cwd>>
     \/ /\ type[i] # FREE /\ nlink[i] >= 1
        /\ lk' = [lk EXCEPT ![d] = None] /\ Done(p)
        /\ IF type[i] = "dir" /\ ~IsDirEmpty(S0, i)
             THEN Set(Iput(Iput(S0, i), d))
             ELSE Set(Iput([Iput(UnlinkEntry(S0, d, i, k), d) EXCEPT !.nlink[i] = @ - 1], i))
        /\ UNCHANGED <<rest, cur, nxt, fd, cwd, panicked>>
  /\ UNCHANGED <<op, name, off, arg>>

-----------------------------------------------------------------------------
(* create(path, type): ilock(dp); an existing name is handed to the next *)
(* step (iunlockput(dp), then ilock(ip)).  Else ialloc (the first free    *)
(* dinode; fails if none), ilock, nlink = 1, for a directory dirlink "."  *)
(* and "..", then dirlink(dp, name); if a dirlink fails the new inode     *)
(* gets nlink = 0 and is freed by iunlockput.  On success a directory     *)
(* adds the ".." link to dp.  sys_mkdir then does iunlockput(ip); sys_open *)
(* gets a file and a descriptor (either may fail: iunlockput) and keeps   *)
(* the reference in the open file.                                        *)
(* bug variant: the fail path does not set ip->nlink = 0. *)
CreateNewKeepsLink(S, d, nm, j, T, r1, r2, r3) ==
  LET s0 == Iget([S EXCEPT !.type[j] = T, !.nlink[j] = 1, !.ents[j] = <<>>], j)
      a == IF T = "dir" THEN Dirlink(s0, j, DOT, j, r1) ELSE [s |-> s0, ok |-> TRUE]
      b == IF T = "dir" /\ a.ok THEN Dirlink(a.s, j, DOTDOT, d, r2) ELSE a
      c == IF b.ok THEN Dirlink(b.s, d, nm, j, r3) ELSE b
  IN IF c.ok
       THEN [s |-> [c.s EXCEPT !.nlink[d] = IF T = "dir" THEN @ + 1 ELSE @],
             ok |-> TRUE]
       ELSE [s |-> c.s, ok |-> FALSE]

CreateNew(S, d, nm, j, T, r1, r2, r3) ==
  LET s0 == Iget([S EXCEPT !.type[j] = T, !.nlink[j] = 1, !.ents[j] = <<>>], j)
      a == IF T = "dir" THEN Dirlink(s0, j, DOT, j, r1) ELSE [s |-> s0, ok |-> TRUE]
      b == IF T = "dir" /\ a.ok THEN Dirlink(a.s, j, DOTDOT, d, r2) ELSE a
      c == IF b.ok THEN Dirlink(b.s, d, nm, j, r3) ELSE b
  IN IF c.ok
       THEN [s |-> [c.s EXCEPT !.nlink[d] = IF T = "dir" THEN @ + 1 ELSE @],
             ok |-> TRUE]
       ELSE [s |-> [c.s EXCEPT !.nlink[j] = 0], ok |-> FALSE]

Create(p) ==
  LET d == dp[p]
      k == Lookup(S0, d, name[p])
      T == IF op[p] = "mkdir" THEN "dir" ELSE "file"
      free == {j \in Inums : type[j] = FREE}
  IN
  /\ pc[p] = "create" /\ lk[d] = None
  /\ \/ NoType(d)
     \/ /\ type[d] = "dir" /\ k # 0
        /\ Set(Iput(Iget(S0, ents[d][k].inum), d))
        /\ ip' = [ip EXCEPT ![p] = ents[d][k].inum]
        /\ dp' = [dp EXCEPT ![p] = 0] /\ Goto(p, "create_found")
        /\ UNCHANGED <<fd, cwd, panicked>>
     \/ /\ type[d] = "dir" /\ k = 0 /\ free = {}
        /\ Set(Iput(S0, d)) /\ Done(p) /\ UNCHANGED <<fd, cwd, panicked>>
     \/ /\ type[d] = "dir" /\ k = 0 /\ free # {}
        /\ \E r1, r2, r3, f \in BOOLEAN :
             LET j == CHOOSE j \in free : \A x \in free : j <= x
                 c == CreateNew(S0, d, name[p], j, T, r1, r2, r3)
                 keep == c.ok /\ T = "file" /\ f
             IN /\ Set(IF keep THEN Iput(c.s, d) ELSE Iput(Iput(c.s, d), j))
                /\ fd' = [fd EXCEPT ![p] = IF keep THEN j ELSE 0]
        /\ Done(p) /\ UNCHANGED panicked
  /\ UNCHANGED <<lk, op, name, off, arg, rest, cur, nxt, cwd>>

(* bug variant: the failing branch returns without iunlockput(ip). *)
CreateFoundLeak(p) ==
  LET i == ip[p] IN
  /\ pc[p] = "create_found" /\ lk[i] = None
  /\ \/ NoType(i)
     \/ /\ type[i] # FREE
        /\ \E f \in BOOLEAN :
             LET keep == op[p] = "create" /\ type[i] = "file" /\ f
             IN /\ Set(S0)
                /\ fd' = [fd EXCEPT ![p] = IF keep THEN i ELSE 0]
        /\ Done(p) /\ UNCHANGED panicked
  /\ UNCHANGED <<lk, op, name, off, arg, rest, cur, nxt, cwd>>

(* create, existing name: ilock(ip); sys_open accepts an existing file,  *)
(* else iunlockput and the call fails.                                   *)
CreateFound(p) ==
  LET i == ip[p] IN
  /\ pc[p] = "create_found" /\ lk[i] = None
  /\ \/ NoType(i)
     \/ /\ type[i] # FREE
        /\ \E f \in BOOLEAN :
             LET keep == op[p] = "create" /\ type[i] = "file" /\ f
             IN /\ Set(IF keep THEN S0 ELSE Iput(S0, i))
                /\ fd' = [fd EXCEPT ![p] = IF keep THEN i ELSE 0]
        /\ Done(p) /\ UNCHANGED panicked
  /\ UNCHANGED <<lk, op, name, off, arg, rest, cur, nxt, cwd>>

-----------------------------------------------------------------------------
(* sys_chdir(path): namei(path). *)
StartChdir(p) ==
  /\ \E path \in ChdirPaths : Enter(p, "chdir", path, FALSE, "chdir")
  /\ UNCHANGED arg

(* bug variant: the old directory keeps the reference p->cwd held. *)
ChdirNoIput(p) ==
  LET i == ip[p] IN
  /\ pc[p] = "chdir" /\ lk[i] = None
  /\ \/ NoType(i)
     \/ /\ type[i] # FREE /\ type[i] # "dir"
        /\ Set(Iput(S0, i)) /\ Done(p) /\ UNCHANGED <<cwd, panicked>>
     \/ /\ type[i] = "dir"
        /\ Set(S0) /\ cwd' = [cwd EXCEPT ![p] = i]
        /\ Done(p) /\ UNCHANGED panicked
  /\ UNCHANGED <<lk, op, name, off, arg, rest, cur, nxt, fd>>

(* ilock(ip); a non-directory is iunlockput and the call fails; else    *)
(* iunlock(ip), iput(p->cwd), and p->cwd = ip keeps namei's reference.  *)
Chdir(p) ==
  LET i == ip[p] IN
  /\ pc[p] = "chdir" /\ lk[i] = None
  /\ \/ NoType(i)
     \/ /\ type[i] # FREE /\ type[i] # "dir"
        /\ Set(Iput(S0, i)) /\ Done(p) /\ UNCHANGED <<cwd, panicked>>
     \/ /\ type[i] = "dir"
        /\ Set(Iput(S0, cwd[p])) /\ cwd' = [cwd EXCEPT ![p] = i]
        /\ Done(p) /\ UNCHANGED panicked
  /\ UNCHANGED <<lk, op, name, off, arg, rest, cur, nxt, fd>>

-----------------------------------------------------------------------------
(* mkfs: the root directory with "." and "..", nlink 1; every process's *)
(* cwd is the root (userinit's namei("/"), fork's idup).                 *)
Init ==
  /\ type = [i \in Inums |-> IF i = ROOTINO THEN "dir" ELSE FREE]
  /\ nlink = [i \in Inums |-> IF i = ROOTINO THEN 1 ELSE 0]
  /\ ents = [i \in Inums |-> IF i = ROOTINO
                               THEN <<[name |-> DOT, inum |-> ROOTINO],
                                      [name |-> DOTDOT, inum |-> ROOTINO]>>
                               ELSE <<>>]
  /\ ref = [i \in Inums |-> IF i = ROOTINO THEN Cardinality(Procs) ELSE 0]
  /\ lk = [i \in Inums |-> None]
  /\ pc = [p \in Procs |-> "idle"]
  /\ op = [p \in Procs |-> "create"]
  /\ nxt = [p \in Procs |-> [parent |-> TRUE, ok |-> "idle", no |-> "idle"]]
  /\ rest = [p \in Procs |-> <<>>]
  /\ cur = [p \in Procs |-> 0] /\ dp = [p \in Procs |-> 0]
  /\ ip = [p \in Procs |-> 0] /\ name = [p \in Procs |-> DOT]
  /\ off = [p \in Procs |-> 0]
  /\ arg = [p \in Procs |-> <<>>] /\ fd = [p \in Procs |-> 0]
  /\ cwd = [p \in Procs |-> ROOTINO]
  /\ panicked = "none"

(* The steps that start by acquiring an inode's sleep-lock. *)
Locking(p) ==
  \/ NamexStep(p) \/ LinkInc(p) \/ LinkDirlink(p) \/ LinkBad(p)
  \/ UnlinkLookup(p) \/ UnlinkChild(p) \/ Create(p) \/ CreateFound(p)
  \/ Chdir(p)

Next ==
  \E p \in Procs :
    \/ StartCreate(p) \/ StartUnlink(p) \/ StartLink(p) \/ StartChdir(p)
    \/ Close(p) \/ NamexEnd(p) \/ Locking(p)

(* A sleep-lock that is free again and again is eventually acquired by a *)
(* waiter (acquiresleep sleeps on the lock and is woken by releasesleep); *)
(* user programs are not assumed to make calls.  namex's exit without an *)
(* element takes no lock: a running process gets to it (weak fairness).  *)
Spec == Init /\ [][Next]_vars
        /\ \A p \in Procs : SF_vars(Locking(p)) /\ WF_vars(NamexEnd(p))

(* Locals of a process at rest are dead: they are written before read;  *)
(* so is off outside the step that uses it.                             *)
View == <<type, nlink, ents, ref, lk, fd, cwd, panicked,
          [p \in Procs |-> IF pc[p] = "idle" THEN <<>>
                           ELSE <<pc[p], op[p], nxt[p], rest[p], cur[p], dp[p],
                                  ip[p], name[p], arg[p],
                                  IF pc[p] = "unlink_child" THEN off[p] ELSE 0>>]>>
-----------------------------------------------------------------------------
(* The used entries of directory d other than "." and "..": its names. *)
Children(d) ==
  {ents[d][k].inum : k \in {k \in 1..Len(ents[d]) :
                              ents[d][k].inum # 0 /\ ents[d][k].name \in Names}}

RECURSIVE Closure(_)
Closure(R) ==
  LET N == R \cup UNION {Children(d) : d \in {x \in R : type[x] = "dir"}}
  IN IF N = R THEN R ELSE Closure(N)

(* The slots that hold a link to i: its names in allocated directories, *)
(* and the ".." of each live subdirectory.                             *)
Links(i) ==
  {<<j, k>> \in Inums \X (1..MaxEnts) :
     /\ type[j] = "dir" /\ k <= Len(ents[j]) /\ ents[j][k].inum = i
     /\ \/ ents[j][k].name \in Names
        \/ ents[j][k].name = DOTDOT /\ j # i /\ nlink[j] > 0}

(* sys_link counts its new link from the nlink++ until dirlink or bad. *)
Pending(i) ==
  {p \in Procs : /\ ip[p] = i
                 /\ \/ pc[p] \in {"link_dirlink", "link_bad"}
                    \/ pc[p] = "namex" /\ nxt[p].ok = "link_dirlink"}

(* LinkCount: the link count of every allocated inode is the number of  *)
(* directory slots naming it (a directory's ".." in each live child     *)
(* included, "." not), plus the root's own link, plus a sys_link in      *)
(* progress; so unlink, the dirlink failure paths of create and link,   *)
(* and mkdir's dp->nlink++ all keep nlink exact.                        *)
LinkCount ==
  \A i \in Inums :
    type[i] # FREE =>
      nlink[i] = Cardinality(Links(i)) + Cardinality(Pending(i))
                   + (IF i = ROOTINO THEN 1 ELSE 0)

(* RefExact: ip->ref counts exactly the pointers processes hold: the    *)
(* inode namex is at, dp, ip, the open file's inode and the current     *)
(* directory (iget, idup and every iput of sysfile.c and namex balanced *)
(* on every path, sys_chdir's included).                                *)
RefExact ==
  \A i \in Inums :
    ref[i] = Cardinality({p \in Procs : cur[p] = i}) + Cardinality({p \in Procs : dp[p] = i})
             + Cardinality({p \in Procs : ip[p] = i}) + Cardinality({p \in Procs : fd[p] = i})
             + Cardinality({p \in Procs : cwd[p] = i})

(* NoDangling: no live directory names a freed dinode (a freed inode    *)
(* may be reallocated under the old name).                             *)
NoDangling ==
  \A d \in Inums : type[d] = "dir" /\ nlink[d] > 0 =>
    \A k \in 1..Len(ents[d]) : ents[d][k].inum # 0 => type[ents[d][k].inum] # FREE

(* NoOrphan: every allocated inode can be reached by name from the root *)
(* or is still referenced, so that its last iput frees it; an inode     *)
(* neither named nor referenced is lost for good.                       *)
NoOrphan ==
  \A i \in Inums : type[i] # FREE => i \in Closure({ROOTINO}) \/ ref[i] > 0

(* NoPanic: none of ilock's, dirlookup's or sys_unlink's panics fires.   *)
NoPanic == panicked = "none"

(* CallsReturn: every system call a process starts returns (no process  *)
(* waits for ever on a sleep-lock: sys_unlink takes dp then ip, parent  *)
(* before child, and namex holds one lock at a time).                   *)
CallsReturn == \A p \in Procs : pc[p] # "idle" ~> pc[p] = "idle"
=============================================================================
