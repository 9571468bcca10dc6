-------------------------------- MODULE Proc --------------------------------
(***************************************************************************)
(* The process layer of xv6 (kernel/proc.c): the process table, the        *)
(* per-CPU scheduler loop, sched/yield, sleep/wakeup, fork, exit/reparent, *)
(* wait and kill, on several CPUs.                                         *)
(*                                                                         *)
(* Granularity: one step per spinlock acquisition (a step whose guard is   *)
(* "the lock is free" is the moment the test-and-set succeeds), and one    *)
(* step for a stretch of code that only touches state protected by locks   *)
(* the CPU holds.  Spinlocks are p->lock (plock) and wait_lock (waitLock); *)
(* a holder is a CPU, as lk->cpu is in spinlock.c.  pid_lock is only held  *)
(* around nextpid++, so allocpid is one step.  Memory (trapframe, page     *)
(* table, uvmcopy) is abstracted to "this allocation may fail"; open files *)
(* and the cwd inode are left out (see README).                            *)
(***************************************************************************)
EXTENDS Naturals, FiniteSets, FiniteSetsExt

Gr == INSTANCE Graphs

CONSTANTS
  NPROC,    \* size of the process table proc[NPROC]
  CPUS,     \* the CPUs (model values)
  NoCPU,    \* lk->cpu == 0: the lock is free
  MaxPid    \* bound: fork is called only while nextpid <= MaxPid

ASSUME NPROC \in Nat \ {0} /\ NoCPU \notin CPUS /\ MaxPid \in Nat

Procs    == 1..NPROC
initproc == 1            \* userinit() takes the first UNUSED slot, proc[0]

VARIABLES
  state,     \* p->state
  pid,       \* p->pid
  parent,    \* p->parent (0 is the null pointer)
  chan,      \* p->chan  (wait() sleeps on the proc itself: a slot number)
  killed,    \* p->killed
  nextpid,   \* nextpid
  plock,     \* p->lock: holding CPU or NoCPU
  waitLock,  \* wait_lock: holding CPU or NoCPU
  cpu,       \* cpus[c].proc, and the slot the scheduler loop is at
  pc,        \* where each process's kernel thread is
  ret,       \* where the thread resumes when sched() returns
  wk,        \* frame of a wakeup(chan) call: channel, loop slot, return pc
  fk,        \* frame of fork(): allocproc loop slot and the new proc np
  panicked   \* the panic() message, or "none"

vars == <<state, pid, parent, chan, killed, nextpid, plock, waitLock, cpu,
          pc, ret, wk, fk, panicked>>

States == {"UNUSED", "USED", "SLEEPING", "RUNNABLE", "RUNNING", "ZOMBIE"}
PCs == {"unused", "forkret", "user", "yield", "yield_ret", "fork",
        "fork_parent", "fork_run", "exit", "exit_wkparent", "exit_lock",
        "zombie", "wait", "wait_scan", "sleep_acq", "sleep_rel", "sleep_set",
        "sleep_wake", "sleep_reacq", "sched", "wakeup"}

NoFrameWk == [chan |-> 0, idx |-> 1, ret |-> "user"]
NoFrameFk == [idx |-> 1, np |-> 0]

TypeOK ==
  /\ state \in [Procs -> States]
  /\ pid \in [Procs -> 0..MaxPid + NPROC]
  /\ parent \in [Procs -> 0..NPROC]
  /\ chan \in [Procs -> 0..NPROC]
  /\ killed \in [Procs -> BOOLEAN]
  /\ nextpid \in 1..MaxPid + NPROC
  /\ plock \in [Procs -> CPUS \cup {NoCPU}]
  /\ waitLock \in CPUS \cup {NoCPU}
  /\ cpu \in [CPUS -> [proc : 0..NPROC, idx : Procs]]
  /\ pc \in [Procs -> PCs]
  /\ ret \in [Procs -> PCs]
  /\ wk \in [Procs -> [chan : 0..NPROC, idx : Procs, ret : PCs]]
  /\ fk \in [Procs -> [idx : Procs, np : 0..NPROC]]

-----------------------------------------------------------------------------
(* Helpers *)

OnCpu(p)    == \E c \in CPUS : cpu[c].proc = p
CpuOf(p)    == CHOOSE c \in CPUS : cpu[c].proc = p      \* mycpu() as seen by p
NextSlot(i) == IF i = NPROC THEN 1 ELSE i + 1
Goto(p, l)  == pc' = [pc EXCEPT ![p] = l]
Panic(msg)  == /\ panicked' = msg
               /\ UNCHANGED <<state, pid, parent, chan, killed, nextpid, plock,
                              waitLock, cpu, pc, ret, wk, fk>>

\* mycpu()->noff: push_off depth, one per spinlock the CPU holds
Noff(c) == Cardinality({q \in Procs : plock[q] = c})
             + (IF waitLock = c THEN 1 ELSE 0)

\* the thread of p is at label l and runs on a CPU
At(p, l) == /\ panicked = "none"
            /\ pc[p] = l
            /\ OnCpu(p)

\* enter wakeup(ch), continuing at r when its loop is done
CallWakeup(p, ch, r) ==
  /\ wk' = [wk EXCEPT ![p] = [chan |-> ch, idx |-> 1, ret |-> r]]
  /\ Goto(p, "wakeup")

\* freeproc(): the fields the model keeps go back to their zero values
FreeProc(q) ==
  /\ state'  = [state  EXCEPT ![q] = "UNUSED"]
  /\ pid'    = [pid    EXCEPT ![q] = 0]
  /\ parent' = [parent EXCEPT ![q] = 0]
  /\ chan'   = [chan   EXCEPT ![q] = 0]
  /\ killed' = [killed EXCEPT ![q] = FALSE]

Children(p) == {q \in Procs : parent[q] = p}

-----------------------------------------------------------------------------
(* scheduler(): one iteration of the inner loop on CPU c.  acquire(&p->lock); *)
(* if RUNNABLE, mark it RUNNING and swtch to it with the lock held;         *)
(* otherwise release and go on to the next slot.                            *)
\* bug variant: the scheduler tests p->state without taking p->lock
SchedulerNoLock(c) ==
  /\ panicked = "none"
  /\ cpu[c].proc = 0
  /\ LET p == cpu[c].idx IN
       IF state[p] = "RUNNABLE"
         THEN /\ state' = [state EXCEPT ![p] = "RUNNING"]
              /\ cpu'   = [cpu EXCEPT ![c].proc = p]
              /\ plock' = [plock EXCEPT ![p] = c]
         ELSE /\ cpu'   = [cpu EXCEPT ![c].idx = NextSlot(p)]
              /\ UNCHANGED <<state, plock>>
  /\ UNCHANGED <<pid, parent, chan, killed, nextpid, waitLock, pc, ret, wk,
                 fk, panicked>>

Scheduler(c) ==
  /\ panicked = "none"
  /\ cpu[c].proc = 0
  /\ LET p == cpu[c].idx IN
       /\ plock[p] = NoCPU
       /\ IF state[p] = "RUNNABLE"
            THEN /\ state' = [state EXCEPT ![p] = "RUNNING"]
                 /\ cpu'   = [cpu EXCEPT ![c].proc = p]
                 /\ plock' = [plock EXCEPT ![p] = c]
            ELSE /\ cpu'   = [cpu EXCEPT ![c].idx = NextSlot(p)]
                 /\ UNCHANGED <<state, plock>>
  /\ UNCHANGED <<pid, parent, chan, killed, nextpid, waitLock, pc, ret, wk,
                 fk, panicked>>

(* sched(): the sanity checks, then swtch to the scheduler, which sets      *)
(* c->proc = 0, releases p->lock and moves on to the next slot.             *)
Sched(p) ==
  /\ At(p, "sched")
  /\ LET c == CpuOf(p) IN
       CASE plock[p] # c          -> Panic("sched p->lock")
         [] Noff(c) # 1           -> Panic("sched locks")
         [] state[p] = "RUNNING"  -> Panic("sched running")
         [] OTHER ->
              /\ cpu'   = [cpu EXCEPT ![c] = [proc |-> 0, idx |-> NextSlot(p)]]
              /\ plock' = [plock EXCEPT ![p] = NoCPU]
              /\ pc'    = [pc EXCEPT ![p] = ret[p]]
              /\ UNCHANGED <<state, pid, parent, chan, killed, nextpid,
                             waitLock, ret, wk, fk, panicked>>

(* forkret(): a new process's first run releases the lock the scheduler    *)
(* took and returns to user space.                                          *)
Forkret(p) ==
  /\ At(p, "forkret")
  /\ plock' = [plock EXCEPT ![p] = NoCPU]
  /\ Goto(p, "user")
  /\ UNCHANGED <<state, pid, parent, chan, killed, nextpid, waitLock, cpu,
                 ret, wk, fk, panicked>>

-----------------------------------------------------------------------------
(* User space and the trap into the kernel (usertrap() in trap.c, not in   *)
(* src/): if p->killed, exit(-1); otherwise a timer interrupt (yield) or a *)
(* system call.  init only forks and waits (user/init.c); kill() is never   *)
(* aimed at pid 1 (its exit panics "init exiting").                         *)

KillPid(k) ==                  \* kill(k): the whole syscall, see README
  LET S == {q \in Procs : pid[q] = k} IN
  IF S = {} THEN UNCHANGED <<state, killed>>
  ELSE LET q == CHOOSE q \in S : TRUE IN
       /\ plock[q] = NoCPU
       /\ killed' = [killed EXCEPT ![q] = TRUE]
       /\ state'  = [state EXCEPT ![q] = IF @ = "SLEEPING" THEN "RUNNABLE" ELSE @]

\* usertrap(): the trap finds p in user space; killed(p) reads p->killed
UserTrap(p) == At(p, "user") /\ plock[p] = NoCPU

UserUnchanged == UNCHANGED <<pid, parent, chan, nextpid, plock, waitLock, cpu,
                              ret, wk, panicked>>

UserKilled(p) ==                             \* if(killed(p)) exit(-1)
  /\ UserTrap(p) /\ killed[p]
  /\ Goto(p, "exit")
  /\ UNCHANGED <<state, killed, fk>> /\ UserUnchanged

UserYield(p) ==                              \* timer interrupt: yield()
  /\ UserTrap(p) /\ ~killed[p]
  /\ Goto(p, "yield")
  /\ UNCHANGED <<state, killed, fk>> /\ UserUnchanged

UserFork(p) ==                               \* fork()
  /\ UserTrap(p) /\ ~killed[p]
  /\ nextpid <= MaxPid
  /\ fk' = [fk EXCEPT ![p] = NoFrameFk]
  /\ Goto(p, "fork")
  /\ UNCHANGED <<state, killed>> /\ UserUnchanged

UserExit(p) ==                               \* exit(status)
  /\ UserTrap(p) /\ ~killed[p]
  /\ p # initproc
  /\ Goto(p, "exit")
  /\ UNCHANGED <<state, killed, fk>> /\ UserUnchanged

UserKill(p) ==                               \* kill(k)
  /\ UserTrap(p) /\ ~killed[p]
  /\ p # initproc
  /\ \E k \in 2..nextpid - 1 : KillPid(k)
  /\ UNCHANGED <<pc, fk>> /\ UserUnchanged

UserWait(p) ==                               \* wait(addr)
  /\ UserTrap(p) /\ ~killed[p]
  /\ Goto(p, "wait")
  /\ UNCHANGED <<state, killed, fk>> /\ UserUnchanged

User(p) ==
  \/ UserKilled(p) \/ UserYield(p) \/ UserFork(p) \/ UserExit(p)
  \/ UserKill(p) \/ UserWait(p)

-----------------------------------------------------------------------------
(* yield(): acquire(&p->lock); p->state = RUNNABLE; sched(); release.      *)
Yield(p) ==
  /\ At(p, "yield")
  /\ plock[p] = NoCPU
  /\ plock' = [plock EXCEPT ![p] = CpuOf(p)]
  /\ state' = [state EXCEPT ![p] = "RUNNABLE"]
  /\ ret'   = [ret EXCEPT ![p] = "yield_ret"]
  /\ Goto(p, "sched")
  /\ UNCHANGED <<pid, parent, chan, killed, nextpid, waitLock, cpu, wk, fk,
                 panicked>>

YieldRet(p) ==
  /\ At(p, "yield_ret")
  /\ plock' = [plock EXCEPT ![p] = NoCPU]
  /\ Goto(p, "user")
  /\ UNCHANGED <<state, pid, parent, chan, killed, nextpid, waitLock, cpu,
                 ret, wk, fk, panicked>>

-----------------------------------------------------------------------------
(* fork().  ForkScan is one iteration of allocproc()'s loop; on the UNUSED *)
(* slot it runs the rest of allocproc() and of fork() up to                *)
(* release(&np->lock), all under np->lock: allocpid(), state USED, and the *)
(* allocations (trapframe, page table, uvmcopy), any of which may fail and *)
(* then freeproc(np).  The child will start in forkret().                  *)
\* bug variant: a failed allocation returns without freeproc(np)
ForkScanNoFree(p) ==
  /\ At(p, "fork")
  /\ LET i == fk[p].idx IN
       /\ plock[i] = NoCPU
       /\ IF state[i] = "UNUSED"
            THEN /\ nextpid' = nextpid + 1
                 /\ \/ /\ state' = [state EXCEPT ![i] = "USED"]
                       /\ pid'   = [pid EXCEPT ![i] = nextpid]
                       /\ pc'    = [pc EXCEPT ![i] = "forkret", ![p] = "fork_parent"]
                       /\ fk'    = [fk EXCEPT ![p].np = i]
                    \/ /\ state' = [state EXCEPT ![i] = "USED"]
                       /\ pid'   = [pid EXCEPT ![i] = nextpid]
                       /\ UNCHANGED fk
                       /\ Goto(p, "user")
            ELSE /\ UNCHANGED <<state, pid, nextpid>>
                 /\ IF i = NPROC
                      THEN Goto(p, "user") /\ UNCHANGED fk   \* no UNUSED proc
                      ELSE fk' = [fk EXCEPT ![p].idx = i + 1] /\ UNCHANGED pc
  /\ UNCHANGED <<parent, chan, killed, plock, waitLock, cpu, ret, wk, panicked>>

ForkScan(p) ==
  /\ At(p, "fork")
  /\ LET i == fk[p].idx IN
       /\ plock[i] = NoCPU
       /\ IF state[i] = "UNUSED"
            THEN /\ nextpid' = nextpid + 1
                 /\ \/ /\ state' = [state EXCEPT ![i] = "USED"]
                       /\ pid'   = [pid EXCEPT ![i] = nextpid]
                       /\ pc'    = [pc EXCEPT ![i] = "forkret", ![p] = "fork_parent"]
                       /\ fk'    = [fk EXCEPT ![p].np = i]
                    \/ /\ UNCHANGED <<state, pid, fk>>   \* freeproc(np); return -1
                       /\ Goto(p, "user")
            ELSE /\ UNCHANGED <<state, pid, nextpid>>
                 /\ IF i = NPROC
                      THEN Goto(p, "user") /\ UNCHANGED fk   \* no UNUSED proc
                      ELSE fk' = [fk EXCEPT ![p].idx = i + 1] /\ UNCHANGED pc
  /\ UNCHANGED <<parent, chan, killed, plock, waitLock, cpu, ret, wk, panicked>>

(* acquire(&wait_lock); np->parent = p; release(&wait_lock); *)
ForkParent(p) ==
  /\ At(p, "fork_parent")
  /\ waitLock = NoCPU
  /\ parent' = [parent EXCEPT ![fk[p].np] = p]
  /\ Goto(p, "fork_run")
  /\ UNCHANGED <<state, pid, chan, killed, nextpid, plock, waitLock, cpu, ret,
                 wk, fk, panicked>>

(* acquire(&np->lock); np->state = RUNNABLE; release(&np->lock); return pid *)
ForkRun(p) ==
  /\ At(p, "fork_run")
  /\ plock[fk[p].np] = NoCPU
  /\ state' = [state EXCEPT ![fk[p].np] = "RUNNABLE"]
  /\ fk' = [fk EXCEPT ![p] = NoFrameFk]
  /\ Goto(p, "user")
  /\ UNCHANGED <<pid, parent, chan, killed, nextpid, plock, waitLock, cpu, ret,
                 wk, panicked>>

-----------------------------------------------------------------------------
(* wakeup(chan): one iteration of its loop.  For every other process,      *)
(* acquire its lock, make it RUNNABLE if it sleeps on chan, release.        *)
\* bug variants: wakeup() reads p->state without p->lock; its loop runs
\* one slot past the table (p <= &proc[NPROC])
WakeupNoLock(p) ==
  /\ At(p, "wakeup")
  /\ LET q == wk[p].idx IN
       /\ state' = [state EXCEPT ![q] =
                      IF q # p /\ @ = "SLEEPING" /\ chan[q] = wk[p].chan
                        THEN "RUNNABLE" ELSE @]
       /\ IF q = NPROC
            THEN /\ pc' = [pc EXCEPT ![p] = wk[p].ret]
                 /\ wk' = [wk EXCEPT ![p] = NoFrameWk]
            ELSE /\ wk' = [wk EXCEPT ![p].idx = q + 1]
                 /\ UNCHANGED pc
  /\ UNCHANGED <<pid, parent, chan, killed, nextpid, plock, waitLock, cpu, ret,
                 fk, panicked>>

WakeupPastEnd(p) ==
  /\ At(p, "wakeup")
  /\ LET q == wk[p].idx IN
       /\ q = p \/ q > NPROC \/ plock[q] = NoCPU
       /\ state' = [r \in Procs |->
                      IF r = q /\ q # p /\ state[r] = "SLEEPING"
                         /\ chan[r] = wk[p].chan
                        THEN "RUNNABLE" ELSE state[r]]
       /\ IF q > NPROC
            THEN /\ pc' = [pc EXCEPT ![p] = wk[p].ret]
                 /\ wk' = [wk EXCEPT ![p] = NoFrameWk]
            ELSE /\ wk' = [wk EXCEPT ![p].idx = q + 1]
                 /\ UNCHANGED pc
  /\ UNCHANGED <<pid, parent, chan, killed, nextpid, plock, waitLock, cpu, ret,
                 fk, panicked>>

Wakeup(p) ==
  /\ At(p, "wakeup")
  /\ LET q == wk[p].idx IN
       /\ q = p \/ plock[q] = NoCPU
       /\ state' = [state EXCEPT ![q] =
                      IF q # p /\ @ = "SLEEPING" /\ chan[q] = wk[p].chan
                        THEN "RUNNABLE" ELSE @]
       /\ IF q = NPROC
            THEN /\ pc' = [pc EXCEPT ![p] = wk[p].ret]
                 /\ wk' = [wk EXCEPT ![p] = NoFrameWk]
            ELSE /\ wk' = [wk EXCEPT ![p].idx = q + 1]
                 /\ UNCHANGED pc
  /\ UNCHANGED <<pid, parent, chan, killed, nextpid, plock, waitLock, cpu, ret,
                 fk, panicked>>

-----------------------------------------------------------------------------
(* exit(status): acquire(&wait_lock); reparent(p), which gives every child *)
(* to initproc and wakes initproc; then wakeup(p->parent); then            *)
(* acquire(&p->lock), ZOMBIE, release(&wait_lock), sched().  (Closing      *)
(* files and iput(cwd) come first in the code and are left out.)           *)
\* bug variant: exit() without reparent(p)
ExitStartNoReparent(p) ==
  /\ At(p, "exit")
  /\ IF p = initproc
       THEN Panic("init exiting")
       ELSE /\ waitLock = NoCPU
            /\ waitLock' = CpuOf(p)
            /\ Goto(p, "exit_wkparent")
            /\ UNCHANGED <<state, pid, parent, chan, killed, nextpid, plock,
                           cpu, ret, wk, fk, panicked>>

ExitStart(p) ==
  /\ At(p, "exit")
  /\ IF p = initproc
       THEN Panic("init exiting")
       ELSE /\ waitLock = NoCPU
            /\ waitLock' = CpuOf(p)
            /\ parent' = [q \in Procs |->
                            IF parent[q] = p THEN initproc ELSE parent[q]]
            /\ IF Children(p) # {}
                 THEN CallWakeup(p, initproc, "exit_wkparent")
                 ELSE Goto(p, "exit_wkparent") /\ UNCHANGED wk
            /\ UNCHANGED <<state, pid, chan, killed, nextpid, plock, cpu, ret,
                           fk, panicked>>

ExitWakeParent(p) ==
  /\ At(p, "exit_wkparent")
  /\ CallWakeup(p, parent[p], "exit_lock")
  /\ UNCHANGED <<state, pid, parent, chan, killed, nextpid, plock, waitLock,
                 cpu, ret, fk, panicked>>

\* bug variant: exit() goes to sched() still holding wait_lock
ExitZombieKeepsWaitLock(p) ==
  /\ At(p, "exit_lock")
  /\ plock[p] = NoCPU
  /\ plock'    = [plock EXCEPT ![p] = CpuOf(p)]
  /\ state'    = [state EXCEPT ![p] = "ZOMBIE"]
  /\ ret'      = [ret EXCEPT ![p] = "zombie"]
  /\ Goto(p, "sched")
  /\ UNCHANGED <<pid, parent, chan, killed, nextpid, waitLock, cpu, wk, fk,
                 panicked>>

ExitZombie(p) ==
  /\ At(p, "exit_lock")
  /\ plock[p] = NoCPU
  /\ plock'    = [plock EXCEPT ![p] = CpuOf(p)]
  /\ state'    = [state EXCEPT ![p] = "ZOMBIE"]
  /\ waitLock' = NoCPU
  /\ ret'      = [ret EXCEPT ![p] = "zombie"]
  /\ Goto(p, "sched")
  /\ UNCHANGED <<pid, parent, chan, killed, nextpid, cpu, wk, fk, panicked>>

-----------------------------------------------------------------------------
(* wait(addr) *)
WaitAcquire(p) ==
  /\ At(p, "wait")
  /\ waitLock = NoCPU
  /\ waitLock' = CpuOf(p)
  /\ Goto(p, "wait_scan")
  /\ UNCHANGED <<state, pid, parent, chan, killed, nextpid, plock, cpu, ret,
                 wk, fk, panicked>>

(* One pass of wait()'s scan, with wait_lock held: while it is held no     *)
(* child can become ZOMBIE and no parent pointer can change, so the pass   *)
(* is one step; it takes each child's lock in table order up to the first  *)
(* ZOMBIE.  Found: copyout the status (may fail when addr is a bad user    *)
(* pointer; init passes 0), freeproc, return.  Not found: no children or   *)
(* killed(p) returns -1, otherwise sleep(p, &wait_lock).                   *)
\* bug variant: wait() returns the zombie's pid but never freeproc()s it
WaitScanNoFree(p) ==
  /\ At(p, "wait_scan")
  /\ LET zombies == {q \in Children(p) : state[q] = "ZOMBIE"}
         scanned == IF zombies = {} THEN Children(p)
                    ELSE {q \in Children(p) : q <= Min(zombies)}
     IN
     /\ \A q \in scanned : plock[q] = NoCPU
     /\ IF zombies # {}
          THEN /\ Goto(p, "user")
               /\ waitLock' = NoCPU
          ELSE /\ plock[p] = NoCPU
               /\ IF Children(p) = {} \/ killed[p]
                    THEN Goto(p, "user") /\ waitLock' = NoCPU
                    ELSE Goto(p, "sleep_acq") /\ UNCHANGED waitLock
  /\ UNCHANGED <<state, pid, parent, chan, killed, nextpid, plock, cpu, ret,
                 wk, fk, panicked>>

WaitScan(p) ==
  /\ At(p, "wait_scan")
  /\ LET zombies == {q \in Children(p) : state[q] = "ZOMBIE"}
         scanned == IF zombies = {} THEN Children(p)
                    ELSE {q \in Children(p) : q <= Min(zombies)}
     IN
     /\ \A q \in scanned : plock[q] = NoCPU
     /\ IF zombies # {}
          THEN \/ /\ FreeProc(Min(zombies))
                  /\ pc' = [pc EXCEPT ![p] = "user", ![Min(zombies)] = "unused"]
                  /\ waitLock' = NoCPU
               \/ /\ p # initproc                    \* copyout failed
                  /\ Goto(p, "user")
                  /\ waitLock' = NoCPU
                  /\ UNCHANGED <<state, pid, parent, chan, killed>>
          ELSE /\ plock[p] = NoCPU                   \* killed(p)
               /\ IF Children(p) = {} \/ killed[p]
                    THEN Goto(p, "user") /\ waitLock' = NoCPU
                    ELSE Goto(p, "sleep_acq") /\ UNCHANGED waitLock
               /\ UNCHANGED <<state, pid, parent, chan, killed>>
  /\ UNCHANGED <<nextpid, plock, cpu, ret, wk, fk, panicked>>

-----------------------------------------------------------------------------
(* sleep(chan, lk) as called by wait(): chan = p, lk = &wait_lock.          *)
SleepAcquire(p) ==                      \* acquire(&p->lock)
  /\ At(p, "sleep_acq")
  /\ plock[p] = NoCPU
  /\ plock' = [plock EXCEPT ![p] = CpuOf(p)]
  /\ Goto(p, "sleep_rel")
  /\ UNCHANGED <<state, pid, parent, chan, killed, nextpid, waitLock, cpu, ret,
                 wk, fk, panicked>>

SleepRelease(p) ==                      \* release(lk)
  /\ At(p, "sleep_rel")
  /\ waitLock' = NoCPU
  /\ Goto(p, "sleep_set")
  /\ UNCHANGED <<state, pid, parent, chan, killed, nextpid, plock, cpu, ret,
                 wk, fk, panicked>>

SleepSet(p) ==                          \* p->chan = chan; SLEEPING; sched()
  /\ At(p, "sleep_set")
  /\ chan'  = [chan EXCEPT ![p] = p]
  /\ state' = [state EXCEPT ![p] = "SLEEPING"]
  /\ ret'   = [ret EXCEPT ![p] = "sleep_wake"]
  /\ Goto(p, "sched")
  /\ UNCHANGED <<pid, parent, killed, nextpid, plock, waitLock, cpu, wk, fk,
                 panicked>>

\* bug variant: sleep() takes lk back before it releases p->lock
SleepWakeKeepsLock(p) ==
  /\ At(p, "sleep_wake")
  /\ chan'  = [chan EXCEPT ![p] = 0]
  /\ Goto(p, "sleep_reacq")
  /\ UNCHANGED <<state, pid, parent, killed, nextpid, plock, waitLock, cpu, ret,
                 wk, fk, panicked>>

\* p->chan = 0; release(&p->lock)
SleepWake(p) ==
  /\ At(p, "sleep_wake")
  /\ chan'  = [chan EXCEPT ![p] = 0]
  /\ plock' = [plock EXCEPT ![p] = NoCPU]
  /\ Goto(p, "sleep_reacq")
  /\ UNCHANGED <<state, pid, parent, killed, nextpid, waitLock, cpu, ret, wk,
                 fk, panicked>>

SleepReacquire(p) ==                    \* acquire(lk); back in wait()'s loop
  /\ At(p, "sleep_reacq")
  /\ waitLock = NoCPU
  /\ waitLock' = CpuOf(p)
  /\ Goto(p, "wait_scan")
  /\ UNCHANGED <<state, pid, parent, chan, killed, nextpid, plock, cpu, ret,
                 wk, fk, panicked>>

-----------------------------------------------------------------------------
(* procinit() and userinit(): proc[0] is initproc, RUNNABLE, and will      *)
(* start in forkret(); nextpid is 2.                                       *)
Init ==
  /\ state  = [p \in Procs |-> IF p = initproc THEN "RUNNABLE" ELSE "UNUSED"]
  /\ pid    = [p \in Procs |-> IF p = initproc THEN 1 ELSE 0]
  /\ parent = [p \in Procs |-> 0]
  /\ chan   = [p \in Procs |-> 0]
  /\ killed = [p \in Procs |-> FALSE]
  /\ nextpid = 2
  /\ plock  = [p \in Procs |-> NoCPU]
  /\ waitLock = NoCPU
  /\ cpu = [c \in CPUS |-> [proc |-> 0, idx |-> 1]]
  /\ pc  = [p \in Procs |-> IF p = initproc THEN "forkret" ELSE "unused"]
  /\ ret = [p \in Procs |-> "user"]
  /\ wk  = [p \in Procs |-> NoFrameWk]
  /\ fk  = [p \in Procs |-> NoFrameFk]
  /\ panicked = "none"

Step(p) ==
  \/ Sched(p) \/ Forkret(p) \/ User(p) \/ Yield(p) \/ YieldRet(p)
  \/ ForkScan(p) \/ ForkParent(p) \/ ForkRun(p) \/ Wakeup(p)
  \/ ExitStart(p) \/ ExitWakeParent(p) \/ ExitZombie(p)
  \/ WaitAcquire(p) \/ WaitScan(p)
  \/ SleepAcquire(p) \/ SleepRelease(p) \/ SleepSet(p) \/ SleepWake(p)
  \/ SleepReacquire(p)

Next ==
  \/ \E c \in CPUS : Scheduler(c)
  \/ \E p \in Procs : Step(p)

(* Fairness.  Every CPU keeps running its scheduler loop, and a thread on a *)
(* CPU keeps executing; both only wait for spinlocks, which are free again  *)
(* and again, so strong fairness (an amoswap that keeps finding the lock   *)
(* free eventually wins).  A thread in user space is interrupted by the    *)
(* timer (timerinit in start.c), so it eventually yields.  init's user     *)
(* code is a loop around wait(), so init keeps calling wait().             *)
Fairness ==
  /\ \A c \in CPUS : SF_vars(Scheduler(c))
  /\ \A p \in Procs : SF_vars(Step(p)) /\ SF_vars(UserYield(p))
  /\ SF_vars(UserWait(initproc))

Spec == Init /\ [][Next]_vars /\ Fairness

-----------------------------------------------------------------------------
(* Properties *)

(* No CPU runs into a panic() of proc.c: sched() is entered holding exactly *)
(* p->lock with p no longer RUNNING, and init never exits.                 *)
NoPanic == panicked = "none"

(* A process's kernel thread runs on at most one CPU, and a slot is never  *)
(* freed (freeproc in wait) while a CPU still runs on it: the scheduler    *)
(* holds p->lock across swtch and wait() takes the child's lock.           *)
StackExclusive ==
  \A p \in Procs :
    /\ Cardinality({c \in CPUS : cpu[c].proc = p}) <= 1
    /\ OnCpu(p) => state[p] # "UNUSED"

(* Every live process other than init has a parent that is neither freed   *)
(* nor a zombie: exit() hands children to init (reparent) before it turns  *)
(* ZOMBIE, and fork() sets np->parent before np becomes RUNNABLE.          *)
ParentAlive ==
  \A p \in Procs \ {initproc} :
    state[p] \notin {"UNUSED", "USED"} =>
      /\ parent[p] \in Procs
      /\ state[parent[p]] \notin {"UNUSED", "ZOMBIE"}

WaitSleeping(p) == state[p] = "SLEEPING" /\ chan[p] = p
HasZombieChild(p) == \E q \in Children(p) : state[q] = "ZOMBIE"

(* No lost wakeup between wait() and exit(): a parent asleep in wait()    *)
(* while one of its children is a zombie is eventually woken.              *)
NoLostWakeup ==
  \A p \in Procs : (WaitSleeping(p) /\ HasZombieChild(p)) ~> ~WaitSleeping(p)

(* Orphans given to init by reparent() are eventually freed by init's wait *)
OrphanReaped ==
  \A p \in Procs \ {initproc} :
    (state[p] = "ZOMBIE" /\ parent[p] = initproc) ~> state[p] = "UNUSED"

(* Spinlock waits.  A lock is a slot number (p->lock) or WaitLk         *)
(* (wait_lock).  Holds(c) is what CPU c holds; Wants(c) the locks held by  *)
(* others that the code at the thread's pc must acquire before it can go   *)
(* on (the acquire() spins there).                                          *)
WaitLk == 0
Holds(c) == {q \in Procs : plock[q] = c} \cup (IF waitLock = c THEN {WaitLk} ELSE {})
WaitScanLocks(p) ==               \* the locks WaitScan(p) takes
  LET zombies == {q \in Children(p) : state[q] = "ZOMBIE"} IN
  IF zombies = {} THEN Children(p) \cup {p}
  ELSE {q \in Children(p) : q <= Min(zombies)}
NeedsAt(p) ==
  CASE pc[p] \in {"yield", "exit_lock", "sleep_acq"}  -> {p}
    [] pc[p] = "fork"                                -> {fk[p].idx}
    [] pc[p] = "fork_run"                            -> {fk[p].np}
    [] pc[p] = "wakeup"                              -> {wk[p].idx} \ {p}
    [] pc[p] \in {"fork_parent", "exit", "wait", "sleep_reacq"} -> {WaitLk}
    [] pc[p] = "wait_scan"                           -> WaitScanLocks(p)
    [] OTHER                                         -> {}
Wants(c) == IF cpu[c].proc = 0 THEN {cpu[c].idx}     \* scheduler() loop
                               ELSE NeedsAt(cpu[c].proc)
WaitsFor == [node |-> CPUS,
             edge |-> {e \in CPUS \X CPUS : Wants(e[1]) \cap Holds(e[2]) # {}}]

(* No deadlock among the spinlocks: the graph "CPU c spins on a lock CPU d *)
(* holds" has no cycle.  It rests on the lock order of proc.c: wait_lock   *)
(* before any p->lock (exit() takes p->lock with wait_lock held, wait()    *)
(* takes its children's locks with it held, sleep() drops p->lock before   *)
(* it takes wait_lock back), and no thread takes a lock it already holds   *)
(* (acquire() panics on that).                                              *)
NoLockCycle == ~Gr!HasCycle(WaitsFor)

(* No slot is lost to a failed fork: a USED slot always belongs to a fork  *)
(* in progress, between allocproc() and the parent making np RUNNABLE.     *)
(* allocproc() marks the slot USED and takes a pid before the allocations  *)
(* that may fail, so each failure path must freeproc(np) before it returns. *)
NoLeakedSlot ==
  \A q \in Procs :
    state[q] = "USED" =>
      \E p \in Procs : pc[p] \in {"fork_parent", "fork_run"} /\ fk[p].np = q

(* A killed process is never left asleep: kill() turns a SLEEPING victim  *)
(* RUNNABLE "so it can observe the flag and terminate" (spec 4.2), and a   *)
(* sleep loop re-checks killed before it sleeps again.                     *)
KilledNotAsleep ==
  \A p \in Procs : killed[p] => state[p] # "SLEEPING"
=============================================================================
