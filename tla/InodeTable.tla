----------------------------- MODULE InodeTable -----------------------------
(***************************************************************************)
(* The in-memory inode table of fs.c (itable, iget, idup, ilock, iunlock,  *)
(* iput, ialloc, iupdate) used by several processes at once.               *)
(*                                                                         *)
(* Every critical section of itable.lock is a single step, so that         *)
(* spinlock needs no variable.  The sleep-lock ip->lock is the variable    *)
(* ilk.  The on-disk dinodes are the variable disk; a block read or write  *)
(* through the buffer cache (bread/log_write/brelse, not in src/) is       *)
(* atomic.  One device.  A process works on one inode at a time, and holds *)
(* one reference to it, or two after idup (a cwd and its dup in namex).    *)
(***************************************************************************)
EXTENDS Naturals, FiniteSets, FiniteSetsExt

CONSTANTS
  Procs,      \* processes using the file system
  NINODE,     \* slots of itable
  NINODES,    \* sb.ninodes: dinodes 1..NINODES-1 exist on disk
  MaxLink,    \* bound on nlink (a short in the code)
  None

Slots == 1..NINODE
Inums == 1..NINODES - 1
ROOTINO == 1
Types == {0, 1}             \* 0 is a free dinode; 1 stands for any file type

VARIABLES
  itable,     \* itable.inode[]: inum, ref, valid and the cached dinode
  ilk,        \* holder of each ip->lock (sleep-lock), or None
  disk,       \* the dinodes on disk: type, nlink
  ip,         \* the inode slot a process holds a reference to, 0 if none
  nref,       \* how many references it holds to that slot
  pc,         \* where a process is inside iput()
  panicked

vars == <<itable, ilk, disk, ip, nref, pc, panicked>>

Dinode == [type : Types, nlink : 0..MaxLink]
Entry  == [inum : 0..NINODES - 1, ref : 0..2 * Cardinality(Procs),
           valid : BOOLEAN, type : Types, nlink : 0..MaxLink]

TypeOK ==
  /\ itable \in [Slots -> Entry]
  /\ ilk \in [Slots -> Procs \cup {None}]
  /\ disk \in [Inums -> Dinode]
  /\ ip \in [Procs -> 0..NINODE]
  /\ nref \in [Procs -> 0..2]
  /\ pc \in [Procs -> {"idle", "iput_trunc", "iput_finish"}]
  /\ panicked \in {"none", "iget: no inodes", "ilock", "ilock: no type",
                   "iunlock", "sched locks"}

Panic(msg) == panicked' = msg /\ UNCHANGED <<itable, ilk, disk, ip, nref, pc>>

Idle(p) == panicked = "none" /\ pc[p] = "idle"

Cached(s) == [type |-> itable[s].type, nlink |-> itable[s].nlink]

-----------------------------------------------------------------------------
(* iget(dev, inum), one itable.lock critical section: the slot already     *)
(* caching inum with ref > 0 gets ref++; otherwise the first empty slot    *)
(* (ref = 0) is set to inum with ref = 1 and valid = 0; none: panic.       *)
\* bug variant: the scan stops at the first empty slot, before a later
\* slot that already caches inum
IgetFirstEmpty(p, i) ==
  LET match == {s \in Slots : itable[s].ref > 0 /\ itable[s].inum = i}
      empty == {s \in Slots : itable[s].ref = 0}
  IN  IF match \cup empty = {}
        THEN panicked' = "iget: no inodes" /\ UNCHANGED <<itable, ip, nref>>
      ELSE LET s == Min(match \cup empty) IN
           /\ itable' = [itable EXCEPT ![s] =
                           IF s \in match THEN [@ EXCEPT !.ref = @ + 1]
                           ELSE [@ EXCEPT !.inum = i, !.ref = 1, !.valid = FALSE]]
           /\ ip' = [ip EXCEPT ![p] = s]
           /\ nref' = [nref EXCEPT ![p] = 1]
           /\ UNCHANGED panicked

Iget(p, i) ==
  LET match == {s \in Slots : itable[s].ref > 0 /\ itable[s].inum = i}
      empty == {s \in Slots : itable[s].ref = 0}
  IN  IF match # {}
        THEN LET s == CHOOSE s \in match : TRUE IN
             /\ itable' = [itable EXCEPT ![s].ref = @ + 1]
             /\ ip' = [ip EXCEPT ![p] = s]
             /\ nref' = [nref EXCEPT ![p] = 1]
             /\ UNCHANGED panicked
      ELSE IF empty = {}
        THEN panicked' = "iget: no inodes" /\ UNCHANGED <<itable, ip, nref>>
      ELSE LET s == Min(empty) IN
           /\ itable' = [itable EXCEPT ![s] = [@ EXCEPT !.inum = i, !.ref = 1,
                                                      !.valid = FALSE]]
           /\ ip' = [ip EXCEPT ![p] = s]
           /\ nref' = [nref EXCEPT ![p] = 1]
           /\ UNCHANGED panicked

(* namei() ends in iget() of an inum it found in a directory entry, which  *)
(* exists while the dinode is allocated and linked.                        *)
Namei(p) ==
  /\ Idle(p) /\ ip[p] = 0
  /\ \E i \in Inums :
       /\ disk[i].type # 0 /\ disk[i].nlink > 0
       /\ Iget(p, i)
  /\ UNCHANGED <<ilk, disk, pc>>

(* ialloc(dev, type): the first dinode with type 0 is zeroed, given the   *)
(* type and written (log_write), then iget(); none free: return 0.         *)
Ialloc(p) ==
  /\ Idle(p) /\ ip[p] = 0
  /\ LET free == {i \in Inums : disk[i].type = 0} IN
       IF free = {}
         THEN UNCHANGED vars
         ELSE LET i == Min(free) IN
              /\ disk' = [disk EXCEPT ![i] = [type |-> 1, nlink |-> 0]]
              /\ Iget(p, i)
  /\ UNCHANGED <<ilk, pc>>

(* idup(ip): ref++ under itable.lock. *)
\* bug variant: idup hands out a reference without ref++
IdupNoInc(p) ==
  /\ Idle(p) /\ ip[p] # 0 /\ nref[p] = 1
  /\ nref' = [nref EXCEPT ![p] = 2]
  /\ UNCHANGED <<itable, ilk, disk, ip, pc, panicked>>

Idup(p) ==
  /\ Idle(p) /\ ip[p] # 0 /\ nref[p] = 1
  /\ itable' = [itable EXCEPT ![ip[p]].ref = @ + 1]
  /\ nref' = [nref EXCEPT ![p] = 2]
  /\ UNCHANGED <<ilk, disk, ip, pc, panicked>>

(* ilock(ip): panic if ref < 1; acquiresleep (blocks while another holds   *)
(* it); if !valid, read the dinode into the entry, valid = 1, and panic if *)
(* its type is 0.                                                          *)
Ilock(p) ==
  /\ Idle(p) /\ ip[p] # 0 /\ ilk[ip[p]] # p
  /\ LET s == ip[p] IN
       IF itable[s].ref < 1 THEN Panic("ilock")
       ELSE /\ ilk[s] = None
            /\ ilk' = [ilk EXCEPT ![s] = p]
            /\ IF itable[s].valid
                 THEN UNCHANGED <<itable, panicked>>
                 ELSE LET d == disk[itable[s].inum] IN
                      /\ itable' = [itable EXCEPT ![s] = [@ EXCEPT
                                      !.type = d.type, !.nlink = d.nlink,
                                      !.valid = TRUE]]
                      /\ panicked' = IF d.type = 0 THEN "ilock: no type"
                                                   ELSE "none"
            /\ UNCHANGED <<disk, ip, nref, pc>>

(* iunlock(ip): panic unless the caller holds the sleep-lock and ref >= 1; *)
(* releasesleep.                                                           *)
Iunlock(p) ==
  /\ Idle(p) /\ ip[p] # 0 /\ ilk[ip[p]] = p
  /\ IF itable[ip[p]].ref < 1 THEN Panic("iunlock")
     ELSE /\ ilk' = [ilk EXCEPT ![ip[p]] = None]
          /\ UNCHANGED <<itable, disk, ip, nref, pc, panicked>>

(* sys_link: ip->nlink++; iupdate(ip), and sys_unlink (or link's bad      *)
(* path): ip->nlink--; iupdate(ip), with ip locked.                        *)
LinkInc(p) ==
  /\ Idle(p) /\ ip[p] # 0 /\ ilk[ip[p]] = p
  /\ itable[ip[p]].nlink < MaxLink
  /\ itable' = [itable EXCEPT ![ip[p]].nlink = @ + 1]
  /\ disk' = [disk EXCEPT ![itable[ip[p]].inum].nlink = itable[ip[p]].nlink + 1]
  /\ UNCHANGED <<ilk, ip, nref, pc, panicked>>

LinkDec(p) ==
  /\ Idle(p) /\ ip[p] # 0 /\ ilk[ip[p]] = p
  /\ itable[ip[p]].nlink > 0
  /\ itable' = [itable EXCEPT ![ip[p]].nlink = @ - 1]
  /\ disk' = [disk EXCEPT ![itable[ip[p]].inum].nlink = itable[ip[p]].nlink - 1]
  /\ UNCHANGED <<ilk, ip, nref, pc, panicked>>

Release(p) == /\ nref' = [nref EXCEPT ![p] = @ - 1]
              /\ ip' = [ip EXCEPT ![p] = IF nref[p] = 1 THEN 0 ELSE @]

-----------------------------------------------------------------------------
(* iput(ip), called without ip->lock (iunlockput unlocks first).  Under    *)
(* itable.lock: if this is the last reference to a valid inode with no     *)
(* links, take its sleep-lock and release itable.lock; otherwise ref--    *)
(* and done.  The code expects the sleep-lock to be free ("ref == 1 means  *)
(* no other process can have ip locked"); were it held, acquiresleep would *)
(* sleep() holding itable.lock and sched() would panic.                    *)
\* bug variants: the last-reference test accepts any ref; the truncating
\* path drops its reference here and again after truncation
IputStartAnyRef(p) ==
  /\ Idle(p) /\ ip[p] # 0 /\ ilk[ip[p]] # p
  /\ LET s == ip[p] IN
       IF itable[s].ref >= 1 /\ itable[s].valid /\ itable[s].nlink = 0
         THEN /\ ilk[s] = None
              /\ ilk' = [ilk EXCEPT ![s] = p]
              /\ pc' = [pc EXCEPT ![p] = "iput_trunc"]
              /\ UNCHANGED <<itable, ip, nref>>
         ELSE /\ itable' = [itable EXCEPT ![s].ref = @ - 1]
              /\ Release(p)
              /\ UNCHANGED <<ilk, pc>>
  /\ UNCHANGED <<disk, panicked>>

IputStartDoubleDec(p) ==
  /\ Idle(p) /\ ip[p] # 0 /\ ilk[ip[p]] # p
  /\ LET s == ip[p] IN
       IF itable[s].ref = 1 /\ itable[s].valid /\ itable[s].nlink = 0
         THEN /\ ilk[s] = None
              /\ ilk' = [ilk EXCEPT ![s] = p]
              /\ pc' = [pc EXCEPT ![p] = "iput_trunc"]
              /\ itable' = [itable EXCEPT ![s].ref = @ - 1]
              /\ UNCHANGED <<ip, nref>>
         ELSE /\ itable' = [itable EXCEPT ![s].ref = @ - 1]
              /\ Release(p)
              /\ UNCHANGED <<ilk, pc>>
  /\ UNCHANGED <<disk, panicked>>

IputStart(p) ==
  /\ Idle(p) /\ ip[p] # 0 /\ ilk[ip[p]] # p
  /\ LET s == ip[p] IN
       CASE itable[s].ref = 1 /\ itable[s].valid /\ itable[s].nlink = 0
              /\ ilk[s] # None -> Panic("sched locks")
         [] itable[s].ref = 1 /\ itable[s].valid /\ itable[s].nlink = 0 ->
              /\ ilk' = [ilk EXCEPT ![s] = p]
              /\ pc' = [pc EXCEPT ![p] = "iput_trunc"]
              /\ UNCHANGED <<itable, ip, nref, disk, panicked>>
         [] OTHER ->
              /\ itable' = [itable EXCEPT ![s].ref = @ - 1]
              /\ Release(p)
              /\ UNCHANGED <<ilk, pc, disk, panicked>>

(* Still in iput, with only the sleep-lock: itrunc (size = 0, iupdate),    *)
(* ip->type = 0, iupdate: the dinode is free on disk; valid = 0;           *)
(* releasesleep.                                                           *)
\* bug variant: the entry stays valid after its dinode is freed
IputTruncKeepsValid(p) ==
  /\ panicked = "none" /\ pc[p] = "iput_trunc"
  /\ LET s == ip[p] IN
       /\ itable' = [itable EXCEPT ![s].type = 0]
       /\ disk' = [disk EXCEPT ![itable[s].inum] =
                     [type |-> 0, nlink |-> itable[s].nlink]]
       /\ ilk' = [ilk EXCEPT ![s] = None]
  /\ pc' = [pc EXCEPT ![p] = "iput_finish"]
  /\ UNCHANGED <<ip, nref, panicked>>

IputTrunc(p) ==
  /\ panicked = "none" /\ pc[p] = "iput_trunc"
  /\ LET s == ip[p] IN
       /\ itable' = [itable EXCEPT ![s] = [@ EXCEPT !.type = 0, !.valid = FALSE]]
       /\ disk' = [disk EXCEPT ![itable[s].inum] =
                     [type |-> 0, nlink |-> itable[s].nlink]]
       /\ ilk' = [ilk EXCEPT ![s] = None]
  /\ pc' = [pc EXCEPT ![p] = "iput_finish"]
  /\ UNCHANGED <<ip, nref, panicked>>

(* acquire(&itable.lock); ip->ref--; release. *)
IputFinish(p) ==
  /\ panicked = "none" /\ pc[p] = "iput_finish"
  /\ itable' = [itable EXCEPT ![ip[p]].ref = @ - 1]
  /\ Release(p)
  /\ pc' = [pc EXCEPT ![p] = "idle"]
  /\ UNCHANGED <<ilk, disk, panicked>>

-----------------------------------------------------------------------------
(* iinit(): every slot free; mkfs leaves the root directory, inode 1,     *)
(* allocated with one link and every other dinode free.                    *)
Init ==
  /\ itable = [s \in Slots |-> [inum |-> 0, ref |-> 0, valid |-> FALSE,
                                type |-> 0, nlink |-> 0]]
  /\ ilk = [s \in Slots |-> None]
  /\ disk = [i \in Inums |-> IF i = ROOTINO THEN [type |-> 1, nlink |-> 1]
                                            ELSE [type |-> 0, nlink |-> 0]]
  /\ ip = [p \in Procs |-> 0]
  /\ nref = [p \in Procs |-> 0]
  /\ pc = [p \in Procs |-> "idle"]
  /\ panicked = "none"

Next ==
  \E p \in Procs :
    \/ Namei(p) \/ Ialloc(p) \/ Idup(p) \/ Ilock(p) \/ Iunlock(p)
    \/ LinkInc(p) \/ LinkDec(p)
    \/ IputStart(p) \/ IputTrunc(p) \/ IputFinish(p)

Spec == Init /\ [][Next]_vars

-----------------------------------------------------------------------------
(* Properties *)

(* No panic of fs.c: iget finds a slot, ilock/iunlock see ref >= 1 and the *)
(* right holder, ilock never reads a free dinode for a referenced inode    *)
(* (ialloc writes the type before iget hands the inode out), and iput's    *)
(* acquiresleep under itable.lock never finds the sleep-lock held.         *)
NoPanic == panicked = "none"

(* iget's scan keeps one entry per inode: at most one slot with ref > 0   *)
(* caches a given inum, so all its users share one sleep-lock and copy.    *)
UniqueCache ==
  \A s, t \in Slots :
    s # t /\ itable[s].ref > 0 /\ itable[t].ref > 0 => itable[s].inum # itable[t].inum

(* A valid, unlocked entry in use agrees with its dinode on disk: iupdate  *)
(* follows every change made under ip->lock, and iput clears valid before  *)
(* the freed dinode can be reallocated by ialloc and found again by iget.  *)
CacheCoherent ==
  \A s \in Slots :
    itable[s].ref > 0 /\ itable[s].valid /\ ilk[s] = None =>
      Cached(s) = disk[itable[s].inum]

(* iput frees a dinode only when no other process holds a reference to    *)
(* it: while a dinode is free on disk, only the process finishing its      *)
(* iput may still point at an entry for it.                                *)
FreedUnreferenced ==
  \A p \in Procs :
    ip[p] # 0 /\ pc[p] = "idle" => disk[itable[ip[p]].inum].type # 0
=============================================================================
