# TLA+ models of the xv6 kernel core (processes, locks, pipes, inodes, blocks, directories)

This directory holds TLA+ specifications of the parts of the xv6 (RISC-V) kernel
in `src/kernel/` whose behaviour depends on interleavings, on reference counts and
on the order of lock operations, together with TLC configurations that check them.
Every action names the C function and lines it models (see `PROJECT.json`, `map`).

## 1. Inventory

| Component | Source | State | Operations | Modelled |
|---|---|---|---|---|
| Spinlock + interrupt nesting | `spinlock.c` | `lk->locked`, `lk->cpu`, per-CPU `noff`, `intena`, interrupt-enable bit | `acquire`, `release`, `holding`, `push_off`, `pop_off` | `Spinlock` (composed with `Kalloc`) |
| Process table, scheduler, sleep/wakeup | `proc.c` | `proc[NPROC]` (`state`, `pid`, `parent`, `chan`, `killed`, `xstate`), `cpus[NCPU]` (`proc`, scheduler position), `nextpid`, `wait_lock`, every `p->lock` | `scheduler`, `sched`, `yield`, `forkret`, `sleep`, `wakeup`, `kill`, `killed`, `fork`/`allocproc`/`freeproc`/`allocpid`, `exit`/`reparent`, `wait`, `userinit`/`procinit` | `Proc` |
| Pipes | `pipe.c` | `nread`, `nwrite`, `readopen`, `writeopen`, `pi->lock` | `pipealloc`, `pipeclose`, `pipewrite`, `piperead` | `Pipe` (`pipealloc` is the initial state), refining the bounded FIFO `PipeQueue`, reached through the fd layer |
| Inode table | `fs.c` 119-401 | `itable.inode[NINODE]` (`dev`, `inum`, `ref`, `valid`, cached dinode, sleep-lock), `itable.lock`, on-disk dinodes | `iget`, `idup`, `ilock`, `iunlock`, `iput`, `iunlockput`, `ialloc`, `iupdate` | `InodeTable` |
| Block allocator | `fs.c` 53-117 | free bitmap | `balloc`, `bfree`, `bzero` | `BlockMap` |
| Inode content | `fs.c` 403-596 | `ip->addrs[NDIRECT+1]`, indirect block, `size` | `bmap`, `itrunc`, `readi`, `writei`, `stati` | `BlockMap` (`stati` only copies fields and is left out) |
| Directories and paths | `fs.c` 598-789, `sysfile.c` | directory entries `(inum, name)` | `dirlookup`, `dirlink`, `skipelem`, `namex`, `create`, `sys_link`, `sys_unlink`, `sys_mkdir`, `sys_open`, `sys_chdir`, `isdirempty` | `Namespace` (`skipelem` on paths of characters, names cut to `DIRSIZ`; `sys_mknod` and `sys_open` without `O_CREATE` left out) |
| Log / journal | not in `src/` (`log.c` absent) | outstanding count, committing, header, log blocks, home blocks | `begin_op`, `end_op`, `log_write`, commit, recovery | planned: `Log` + `AtomicDisk` (spec-modelled) |
| Buffer cache | not in `src/` (`bio.c` absent; `buf.h` only) | `struct buf` | `bread`, `brelse`, `bget` | not modelled: its content-locking is abstracted as atomic block access in the modules above |
| Page allocator | `kalloc.c` | `kmem.freelist`, `kmem.lock`, the first word (`r->next`) of every page | `kinit`, `freerange`, `kfree`, `kalloc` | `Kalloc`, over `Spinlock` |
| exec / ELF loader | `exec.c` | page tables | `exec`, `loadseg` | not modelled (virtual memory, out of TLC's reach and out of scope of the spec) |
| Boot | `start.c` | machine CSRs | `start`, `timerinit` | not modelled (register setup; only its effect, periodic timer interrupts that lead to `yield`, is used) |
| fd layer syscalls | `sysfile.c` 19-120, 451-533, `proc.c` 379-387 | `p->ofile[]`, `f->ref` | `argfd`, `fdalloc`, `sys_dup/read/write/close/fstat/exec/pipe`, `exit`'s close loop | `Pipe`, on the descriptors of a pipe's ends (`sys_dup`, `sys_read`, `sys_write`, `sys_close`, `exit`); `sys_pipe`'s failure paths, `sys_open`'s `fdalloc`, `sys_fstat` and `sys_exec` left out |

### How the parts interact

* Every CPU runs `scheduler()`; a process gives its CPU back through `sched()`
  (from `yield`, `sleep` or `exit`) while holding exactly its own `p->lock`; the
  scheduler releases that lock after `swtch` returns. The lock is therefore
  handed from a process to the scheduler of the same CPU across a context switch.
* `sleep(chan, lk)`/`wakeup(chan)` are the only blocking primitive. Clients in
  `src/`: `wait` (channel = the parent, condition lock `wait_lock`), `pipewrite`
  and `piperead` (channels `&pi->nread`, `&pi->nwrite`, condition lock `pi->lock`),
  and, outside `src/`, the sleep-locks of inodes and buffers and the log.
* `exit` hands its children to `initproc` and wakes its parent; `wait` frees a
  `ZOMBIE` child. `wait_lock` must be taken before any `p->lock`.
* The file system: path lookup (`namex`) takes inode references (`iget`,
  `idup`), locks inodes (`ilock`, a sleep-lock), reads directory content
  (`readi` -> `bmap` -> `bread`), and drops references (`iput`), which may free
  the inode on disk (`itrunc`, `iupdate`). All writes go through `log_write`
  inside `begin_op`/`end_op`.

### Hard behaviours

* Interleavings of CPUs around `p->lock`, `wait_lock`, `itable.lock`.
* A lock held across a context switch (scheduler <-> process).
* Lost wakeups between a condition check and `sleep`.
* Reference counts that gate freeing (`ip->ref`, `p->parent` for zombies).
* `iput` dropping `itable.lock` while it truncates an inode whose `ref` is still 1.
* Crash between log commit steps (spec-modelled: `log.c` is not in `src/`).

### Properties that make each component correct

* Proc: a process runs on at most one CPU and is never freed while a CPU is
  still on its kernel stack; a parent pointer never refers to a freed or zombie
  process; `sched` is never entered holding other locks; no lost wakeup in
  `wait`/`exit`; a killed process eventually exits; orphans are reaped by init;
  no lock-order deadlock.
* Spinlock: interrupts are off whenever a CPU holds a spinlock, and the
  interrupt-enable state before the outermost `push_off` is restored by the last
  `pop_off`.
* Pipe: bytes are neither lost nor duplicated nor read beyond `nwrite`;
  readers and writers do not sleep forever when the other side can make
  progress; seen from its two ends, a pipe is a bounded FIFO.
* Kalloc: the free list is a NULL-terminated chain, and every page is on it,
  owned by one caller, or inside one call; never in two places.
* InodeTable: at most one table entry per `(dev, inum)` with `ref > 0`; a
  locked valid entry agrees with the on-disk inode; an inode is freed on disk
  only when `nlink = 0` and the last reference is dropped.
* BlockMap: `bmap` is a function of `addrs` and the indirect block, never maps
  two logical blocks to one physical block; `itrunc` frees exactly the allocated
  blocks; no double free.
* Namespace: link counts equal the number of directory entries naming the
  inode (plus `..` entries for directories), also after the failure paths of
  `create` and `sys_link`; reference counts equal the pointers processes hold;
  no live directory names a freed inode; every allocated inode is reachable
  or referenced; every system call returns.
* Log: after a crash and recovery every transaction group is either fully
  installed or absent.

## 2. Plan

Done:

1. `Proc`: scheduler, `sched`, `yield`, `forkret`, `sleep`, `wakeup`, `kill`,
   `fork`, `exit`/`reparent`, `wait`.
2. `InodeTable`: `iget`/`idup`/`ilock`/`iunlock`/`iput`/`ialloc` with several
   processes, `itable.lock` and per-inode sleep-locks, and the on-disk dinodes.
3. `Spinlock`: `push_off`/`pop_off` nesting per CPU over nested acquires and
   interrupt handlers.
4. `Pipe`: `pipewrite`, `piperead` and `pipeclose` over the sleep/wakeup
   protocol of `Proc`, with readers, writers and kills.
5. `BlockMap`: `balloc`/`bzero`/`bfree`/`bmap`/`itrunc`, and `writei`/`readi`
   with their uint range checks, against a reference of the bytes written.
6. `Namespace`: `create` (from `sys_open` and `sys_mkdir`), `sys_link`,
   `sys_unlink`, `sys_close`, `dirlink`, `dirlookup`, `isdirempty` and `namex`,
   for one and for two processes, with link counts, reference counts,
   reachability and termination.

7. `Kalloc`: `kinit`, `kalloc` and `kfree` on several CPUs, composed with
   `Spinlock` so that `kmem.lock` is a real spinlock of that module.
8. `PipeQueue`: the abstract bounded FIFO, and `Pipe` checked to implement it.
9. `Proc`: the lock order of `wait_lock` and `p->lock` as a waits-for graph.
10. `Pipe` composed with the fd layer: descriptors, `sys_dup`, `sys_close`,
   `exit`'s close loop and reference-counted `fileclose`.

Left:

11. `Log` (spec-modelled, as `log.c` is not in `src/`), with an abstract
   `AtomicDisk` specification and a refinement check `Log => AtomicDisk` under
   crashes.
11. Compose `InodeTable` and `BlockMap`, so that `iput` calls `itrunc` on the
   blocks of the freed inode.

## 3. Modules and runs

### `Proc` (proc.c) and `MCProc`

**State.** The `VARIABLES` of `Proc` are:

* `state`, `pid`, `parent`, `chan`, `killed`: the fields of `proc[NPROC]`. Slots are `1..NPROC`, and slot 1 is `initproc`.
* `nextpid`.
* `plock[p]`: the CPU holding `p->lock`, or `NoCPU`.
* `waitLock`: the same for `wait_lock`.
* `cpu[c]`: `c->proc` and the scheduler's loop position.
* `pc[p]`: the point a process's kernel thread has reached.
* `ret[p]`: where `sched()` returns to.
* `wk[p]`: the frame of an ongoing `wakeup()` loop.
* `fk[p]`: the frame of an ongoing `allocproc()` loop.
* `panicked`: the message of a `panic()`, if one happened.

A lock is held by a CPU, not by a process. That is how xv6 itself records it (`lk->cpu`). It is also what lets a `p->lock` be taken by a process and released by its CPU's scheduler after `swtch`. `push_off` nesting (`noff`) is the number of spinlocks a CPU holds (`Noff`).

**Steps.** Each action is one critical section, or one iteration of a loop that takes a lock per iteration. The loops modelled this way are `scheduler`, `wakeup` and `allocproc`. In the code, every step between two acquires of the same lock is invisible to other CPUs, so nothing is lost by making it atomic.

* `wait()`'s scan of the table is one step, because it runs entirely under `wait_lock`. No child can change parent or become `ZOMBIE` without that lock. Its guard requires the children's locks it takes to be free.
* `reparent` calls `wakeup(initproc)` once per child. The model calls it once. The later calls cannot find init asleep, because init cannot go back to sleep without `wait_lock`, which the exiting process holds.
* User space (`usertrap`, `trap.c`, not in `src/`) is modelled from the spec:
  * A process in user space may be killed, take a timer interrupt, or call `fork`, `exit`, `kill` or `wait`.
  * init only forks and waits (user/init.c), and nobody kills pid 1.
* File closing and `iput(cwd)` in `exit` are left out; the file system is a separate module, and `Pipe` models the close loop on a pipe's descriptors.
* The copyout failure of `wait` is a nondeterministic choice for processes other than init. init passes `addr = 0`.

**Fairness.** `Spec` has:

* strong fairness on each CPU's scheduler step;
* strong fairness on each process's kernel step;
* strong fairness on the timer interrupt of a user-space process;
* strong fairness on init's call to `wait`.

Strong fairness is needed because every step waits only for spinlocks, which are free again and again; an `amoswap` that keeps finding the lock free eventually wins. The timer (`timerinit` in start.c) interrupts user code periodically. init's program is an endless loop around `wait`.

**Runs** (`MCProc`: CPUs are model values, and `CpuSymmetry` is used only in safety runs):

| run | bounds | checks | result |
|---|---|---|---|
| `proc_safety` | 3 slots, 2 CPUs, pids up to 4 (3 forks) | `TypeOK`, `NoPanic`, `StackExclusive`, `ParentAlive`, `NoLockCycle`, `NoLeakedSlot`, and deadlock | pass, 1.2M distinct states, about 45 s; every action fires |
| `proc_live` | 2 slots, 2 CPUs, pids up to 3 | `NoLostWakeup` | pass |
| `proc_orphan` | 3 slots, 1 CPU, pids up to 4 | `OrphanReaped` | pass |
| `proc_kill` | 3 slots, 2 CPUs, pids up to 3 | `KilledNotAsleep` | violation (the finding below) |

Why the bounds suffice:

* Three slots are the least that give a grandchild, so an exit with children to reparent happens while the grandparent waits.
* Two CPUs are the least for a process to be runnable on one CPU while still on the stack of another.
* `MaxPid` bounds `nextpid`. Failed forks also consume a pid, as `allocpid` runs before the allocations that may fail.
* The liveness runs use the smallest tables in which the property's antecedent occurs: a parent asleep with a zombie child, and an orphan given to init. This keeps the run under five minutes.

**What the runs show.**

* `NoPanic`: every path into `sched()` holds exactly `p->lock`, with `p` no longer `RUNNING`. This includes `exit`, which must release `wait_lock` after taking `p->lock`.
* `StackExclusive`: no process runs on two CPUs, and no slot is freed while a CPU runs on it.
* `ParentAlive`: a live process's parent is never freed or a zombie.
* `NoLeakedSlot`: a slot in state `USED` always belongs to a fork between `allocproc` and the parent's `np->state = RUNNABLE`. `allocproc` marks the slot `USED` and takes a pid before the allocations that may fail (proc.c:117-146), so every failure path has to `freeproc` it. The mutant that returns without `freeproc` leaks the slot for good.
* `NoLockCycle`: the graph "CPU c spins on a lock that CPU d holds" never has a cycle (a self-loop included, which `acquire` would turn into a panic). `Wants(c)` lists, for each point of the code, the lock its next `acquire` needs: `p->lock` in `yield`, `sleep` and `exit`, `wait_lock` in `fork`, `exit`, `wait` and when `sleep` returns, the children's locks in `wait`'s scan, the scanned slot in `scheduler`, `wakeup` and `allocproc`. The property is the spec's rule that `wait_lock` comes before any `p->lock`. Its mutant has `sleep()` take `wait_lock` back before it releases `p->lock`. TLC then finds the cycle: a process waking in `wait()` holds its own lock and wants `wait_lock`, while an exiting process holds `wait_lock` and wants that lock for `wakeup`. With two CPUs that state has no successor, so the deadlock check reports it too; the invariant names the cycle, and it still catches one when other CPUs can step on.
* `NoLostWakeup` and `OrphanReaped`: the `sleep`/`wakeup` handshake on `p->lock` loses no wakeup, and init reaps every orphan.

Each property is broken by a mutant that drops the lock, the release, the reparent or the free it depends on (`PROJECT.json`, `mutants`).

**Finding (`proc_kill`).** `wait()` tests `killed(p)` (proc.c:453) and then calls `sleep(p, &wait_lock)` (proc.c:459).

* `kill()` takes only the victim's `p->lock`. A kill in between therefore finds the victim `RUNNING` and does not wake it.
* The victim then sleeps with `killed` set until one of its children exits, and that may never happen.
* The spec (4.2) says kill wakes a sleeping process so that it observes the flag and terminates.
* TLC finds the trace in under a second. `piperead` (pipe.c:122-131) has the same check-then-sleep shape.

### `InodeTable` (fs.c 119-401) and `MCInodeTable`

**State.**

* `itable[s]`: slot `s` of `itable.inode[]`, holding `inum`, `ref`, `valid` and the cached `type` and `nlink`.
* `ilk[s]`: the holder of the slot's sleep-lock.
* `disk[i]`: the on-disk dinode `i`, holding `type` (0 = free) and `nlink`.
* `ip[p]`: the slot a process holds a reference to.
* `nref[p]`: how many references that process holds (two after `idup`).
* `pc[p]`: the phase of `iput`.
* `panicked`.

`itable.lock` has no variable: each of its critical sections is one step. A block read or write through the buffer cache is atomic (`bio.c` and `log.c` are not in `src/`).

**Steps.**

* `Namei`: `dirlookup` finds a linked inode and calls `iget`.
* `Ialloc`: the first free dinode gets a type, then `iget`.
* `Idup`, `Ilock` (it reads the dinode when `!valid` and panics on type 0), and `Iunlock`.
* `LinkInc` and `LinkDec`: `sys_link` and `sys_unlink`, which change `nlink` and write through with `iupdate`.
* `iput` in its three phases:
  * `IputStart`, under `itable.lock`: either a plain `ref--`, or, for the last reference to an unlinked valid inode, taking the sleep-lock;
  * `IputTrunc`, with `itable.lock` released: `itrunc`, `type = 0`, `iupdate`, `valid = 0`, and the sleep-lock released;
  * `IputFinish`: `ref--` under `itable.lock` again.

**Run `inode_safety`.**

* Bounds: 3 processes, `NINODE = 2` slots, 2 dinodes, `nlink` at most 2, and process symmetry.
* Result: 28k distinct states, about 2 s.
* With two slots and two dinodes, every slot gets reused and `iget`'s scan meets an empty slot before a matching one. A third process can `ialloc` the dinode that another is freeing in `iput`'s unlocked window.
* `UniqueCache`: at most one entry per inode with `ref > 0`. It needs `iget` to scan the whole table before it takes an empty slot.
* `CacheCoherent`: a valid, unlocked, referenced entry agrees with disk. It needs `iput` to clear `valid` before the dinode can be reallocated and the entry found again.
* `FreedUnreferenced`: no process holds a reference to an inode that is free on disk.
* `NoPanic`: none of `iget`'s, `ilock`'s or `sched`'s panics can happen.

### `Pipe` (pipe.c) and `MCPipe`

**State.**

* The fields of `struct pipe`: `data`, `nread`, `nwrite`, `readopen`, `writeopen`, and the holder of `pi->lock`.
* Per process: its position `pc`, the request `n` and the progress `i` of the current call, the system calls made so far, whether it has exited, `killed`, and the channel it sleeps on.
* The fd layer: `ofile[p][fd]` is the end (`"rf"` or `"wf"`) that descriptor `fd` of `p` names, or `None`; `fref[f]` is the `f->ref` of each end's `struct file`. `NOFILE` is 2 in the runs, so `sys_dup` can both succeed and find no free slot. `file.c` is not under `src/`: `filedup` and `fileclose` are written inline (`Dup`, `FileClose`).
* The initial state is a pipeline after `sys_pipe` and `fork`: each writer holds the write end in fd 0 and each reader the read end, and `f->ref` is the number of holders.
* Two ghost counters, `wtotal` and `rtotal`: the bytes written and consumed.
* Every byte written is its ordinal in the stream, so the buffer can be compared with the stream.
* `nread` and `nwrite` count modulo `Wrap`, which stands for 2^32. It is a multiple of `PIPESIZE`, as 2^32 is of 512.

**Steps.**

* `WLoop` is one iteration of `pipewrite`'s loop under `pi->lock`. It either returns (closed or killed), or on a full pipe wakes readers and sleeps, or copies one byte. `copyin` may fail and end the call.
* `RCheck` is `piperead`'s emptiness test. It then either returns (killed), or sleeps, or copies up to `n` bytes and wakes writers. `copyout` may fail after copying part of the bytes.
* `sleep(chan, &pi->lock)` is one step (`WSleep`, `RSleep`). The process must reacquire `pi->lock` when woken (`WReacquire`, `RReacquire`). `Proc` checks that this handshake loses no wakeup.
* `Call` is `sys_read` or `sys_write` on an open descriptor (`argfd`), of `1..MaxN` bytes; the end the descriptor names decides which. `Dup` is `sys_dup`: `fdalloc` takes the lowest free slot and `filedup` raises `f->ref`, or no slot is free and the call fails. `SysClose` is `sys_close`. Each counts as one of the process's `MaxCalls` system calls. None is made by a killed process: `usertrap` exits it at the user boundary.
* `Close` is one turn of `exit`'s loop: it closes the lowest open descriptor, and with none left the process is gone.
* `FileClose` clears the descriptor and drops `f->ref`. The last reference calls `pipeclose` (`PipeClose`), which clears `readopen` or `writeopen` under `pi->lock` and wakes the other side. `fileclose` releases `ftable.lock` before `pipeclose` takes `pi->lock`. No one else holds `f` at that point, so the model takes the whole close as one step once `pi->lock` is free.
* `Kill` sets `killed` and wakes a sleeper.

**Fairness.**

* Weak fairness on each process's kernel steps: a runnable process keeps being scheduled.
* Strong fairness on acquiring `pi->lock`, for the reason given for `Proc`.
* Weak fairness on a user program's next read/write or its exit: every program ends by exiting. `sys_dup` and `sys_close` are not assumed.
* Kills are not assumed to happen.
* `CHECK_DEADLOCK FALSE`: a state where every process has exited has no successor.

**Runs.** Both use `PIPESIZE = 2`, `Wrap = 4` and writes of up to 3 bytes.

| run | processes | checks | result |
|---|---|---|---|
| `pipe` | 1 writer, 1 reader, 3 system calls each, `NOFILE = 2` | `TypeOK`, `CallsReturn`, `QueueSpec` | pass, 286k distinct states, about 35 s |
| `pipe_kill` | 1 writer, 2 readers sharing the read end (`f->ref = 2`), 2 system calls each, `NOFILE = 2` | `KilledNotAsleep` | violation (finding below) |

A 2-byte pipe whose counters wrap at 4 is full after two bytes and wraps after four. Writes of up to 3 bytes therefore block halfway, and with 9 bytes written the test `nwrite == nread + PIPESIZE` is reached in wrapped arithmetic more than once. `piperead` runs its whole copy loop under `pi->lock`, so a second reader adds no interleaving inside a read; it is kept in `pipe_kill`, where two readers compete for the same bytes. A run with two readers and liveness takes more than 10 minutes.

* `CallsReturn`: every call returns. A writer blocked on a full pipe is woken by a reader or by the read end's close, and a blocked reader is woken likewise.
* `QueueSpec`: `Pipe` implements `PipeQueue`, a FIFO of at most `PIPESIZE` bytes with `Write` (both ends open, not full, append the next byte), `Read(k)` (take `k` bytes from the front), `CloseRead` and `CloseWrite`. `PipeQueue` counts the bytes written (`sent`) and read (`got`), so its contents are always the ordinals `got..sent-1`. The refinement mapping (`Queue == INSTANCE PipeQueue WITH buf <- Buffered, sent <- wtotal, got <- rtotal`) reads the FIFO off `data` from `nread` to `nwrite` in wrapped arithmetic; `readopen` and `writeopen` map to themselves. Every step of the pipe is a step of the FIFO or leaves it as it was. So the bytes between `nread` and `nwrite` are always exactly the unread bytes, in order, never more than `PIPESIZE`, also across the wrap of the counters. A full test that ignores the wrap (`nwrite == nread + PIPESIZE` in unbounded arithmetic) overwrites unread bytes and breaks the refinement. So does the mutant in which `pipewrite` stops testing `readopen`: it writes into a pipe whose read end is closed, which the FIFO does not allow. The refinement also judges the fd layer. If `sys_dup` skips `filedup`, closing one of two descriptors closes the write end while the writer still holds the other. The writer then writes into a pipe whose write end is closed, which the FIFO's `Write` does not allow. If an end were never closed, a blocked reader would never return, which breaks `CallsReturn`.
* Not checked: a failing `copyout` in `piperead` (pipe.c:140) has already advanced `nread` past the byte it failed on, so that byte is consumed and never delivered. The model does not record what reaches the reader, so the FIFO's `Read(k)` cannot tell.

**Finding (`pipe_kill`).** `piperead` tests `killed(pr)` (pipe.c:126) and then calls `sleep` (pipe.c:131). `kill()` does not take `pi->lock`. A kill in between therefore leaves the reader asleep with `killed` set until a writer writes or closes. This is the same shape as the `wait()` finding. `pipewrite` has the same window, between its check at pipe.c:89 and its sleep at pipe.c:98. `Kill` may fire between `WLoop` and `WSleep` in the model, so the run can reach either trace.

### `Spinlock` (spinlock.c), `Kalloc` (kalloc.c) and `MCKalloc`

**State.**

* `locked` and `lcpu`: `lk->locked` and `lk->cpu`.
* Per CPU: the interrupt-enable bit `intr`, and `noff` and `intena` of `struct cpu`.
* The locks the CPU's kernel thread holds (`theld`), and the one it spins on (`tspin`).
* The position `hpc` of an interrupt handler running on the CPU.
* `want`: the interrupt state the thread last chose.

**Steps.**

* `TAcquire` is `acquire` up to its spin loop: `push_off`, then the `holding` panic check. `TSpin` is the test-and-set that succeeds.
* `TRelease` is `release`: the `holding` check, clearing the lock, then `pop_off`.
* `TIntr` turns interrupts on or off where the thread holds no lock.
* A device interrupt (`Interrupt`) can only arrive with SIE set. Its handler runs `acquire`/`release` of `TicksLock` (`HAcquire`, `HSpin`, `HRelease`) and returns with SIE restored (`HReturn`).
* Threads take locks in increasing order, which is xv6's lock order, so a deadlock between CPUs cannot arise.

`Kalloc` extends `Spinlock` with the page allocator.

* State: `freelist` (`kmem.freelist`), `next[p]` (the first word of page `p`, which is `r->next` while the page is free and junk after a `memset`), and per CPU `kpc`, `kr` (the local `r`) and `owned` (the pages its thread got from `kalloc`).
* `Kinit` is the state after `kinit`: `freerange` frees the pages in increasing address order on the boot CPU, so the list runs from the last page down to the first.
* `kmem.lock` is lock `NLOCK - 1`, above the lock a caller may already hold (`allocproc` calls `kalloc` with `p->lock` held) and below `TicksLock`. It is taken by `Spinlock`'s `AcquireStart` and `TSpin` and released by `ReleaseLock`, with their `push_off`/`pop_off`.
* `kalloc` is `KallocAcquire`, then `KallocRead` (`r = kmem.freelist`), `KallocUnlink` (`kmem.freelist = r->next`, when `r` is not NULL), and `KallocRelease`. The last is the release, followed outside the lock by `memset(r, 5)` and the return of `r`.
* `kfree(pa)` is `KfreeAcquire` (the range check, which a page passes, `memset(pa, 1)` outside the lock, and `acquire`), then `KfreeNext` (`r->next = kmem.freelist`), `KfreePush` (`kmem.freelist = r`) and `KfreeRelease`. One statement is one step, so the pop and the push are atomic only because of the lock.
* Other kernel code (`TAcquire`, `TRelease`, `TIntr`) runs on a thread between its allocator calls and never takes `kmem.lock`. Interrupt handlers run whenever interrupts are on.

**Run `kalloc_spinlock`.**

* Bounds: 3 CPUs, 3 locks (a caller's lock, `kmem.lock`, `TicksLock`), at most 2 held at once, 2 pages, and CPU symmetry.
* Result: 99k distinct states, about 7 s.
* With 2 pages and 3 CPUs the list runs empty, so `kalloc` returns NULL. Two CPUs can be inside `kalloc` or `kfree` at once, one of them nested in a caller's lock, with an interrupt handler taking `TicksLock` on a third.


* `NoPanic`: the handler cannot re-acquire `TicksLock` on a CPU whose thread holds it, and no `pop_off` runs with interrupts on or unbalanced.
* `IntrOffWhileHolding`: interrupts are off whenever a lock is held or awaited.
* `IntrRestored`: after the outermost release, SIE is what it was before the outermost acquire.

* `PagesConserved`: the free list read from `kmem.freelist` ends in NULL within `NPAGE` steps and repeats no page, and every page is in exactly one place: on the list, owned by one CPU, or inside one `kalloc` or `kfree` call. Its mutant turns `acquire`'s `amoswap` into a load and a store. Two CPUs then both enter `kalloc`, both read the same head, and both get the page.
* Not checked: `kfree` tests only alignment and range (kalloc.c:56). A page freed twice is pushed twice, and the free list gets a repeat or a cycle. The model's callers free only pages they own, so this misuse by other code is outside it.

### `BlockMap` (fs.c 53-117, 403-596) and `MCBlockMap`

**State.**

* `used`: the free-block bitmap.
* `blk[b]`: the words of every block. A data word stands for a byte; an indirect block holds `NINDIRECT = BSIZE` block numbers.
* Per inode: `addrs[ip][0..NDIRECT]` and `size[ip]`.
* `file[ip]`: the ghost bytes that the callers of `writei` were told were written. That is `tot` bytes from `off`, plus any bytes of a failed chunk that lie below the old size. `copyin` copies page by page and may fail after part of a chunk.
* `panicked`.

**Steps.** Each `writei` and `itrunc` is one step. The caller holds the inode's sleep-lock for the whole call, and `balloc`/`bfree` hold the bitmap buffer's lock over their read-modify-write. Two inodes therefore meet only in the bitmap, and there atomically.

* `balloc` (with `bzero`), `bmap` and `bfree` are operators. `bmap` allocates the indirect block and then the entry. Each step may run out of blocks and return 0, keeping what it already allocated.
* `writei`'s loop is the RECURSIVE `WriteLoop`. The chunk in which `copyin` fails and the words it copied before failing are chosen nondeterministically.
* `readi` is the operator `Readi`. It has no effect on state, because every block below `size` is mapped, which `RoundTrip` checks.
* Offsets are W-bit unsigned: `off + n < off` is `(off + n) % 2^W < off`.

**Run `blockmap_safety`.**

* Bounds: 2 inodes, 4 blocks, `NDIRECT = 1`, `BSIZE = 2`, `W = 4`, values {1, 2}, offsets `0..MAXB+1` and 15, lengths {1, 2, 3, 15}.
* Result: 38k distinct states, about 30 s.
* One full file (1 direct, the indirect block and 2 entries) takes all 4 blocks. The other inode therefore runs out of blocks at every possible point of `bmap`.
* Data values 1 and 2 are also block numbers, so a stale data block reused as an indirect block points at real blocks.
* Length 15 is "-1": it wraps for every `off > 0`, and at `off = 0` it is clipped by `readi` and rejected by `writei`.
* `BitmapExact`: the bitmap marks exactly the referenced blocks.
* `NoSharedBlock`: no block is referenced twice.
* `NoPanic`: no "freeing free block", and no "bmap: out of range". The latter depends on the overflow check.
* `RoundTrip`: for every offset and length, `readi` returns the reference clip of the ghost file: empty if `off` is past the end or `off + n` overflows, otherwise `[off, min(off + n, len))`.

### `Namespace` (fs.c 598-789, sysfile.c 98-401) and `MCNamespace`

**State.**

* Per dinode: `type` (`FREE` for type 0, `"file"`, `"dir"`), `nlink`, the directory entries `ents` (a sequence of `(name, inum)` slots; `inum = 0` is a free slot), and `ref`.
* `lk[i]`: the process holding inode `i`'s sleep-lock across steps. Only `sys_unlink` does that: it holds `dp` while it waits for the child.
* Per process: `pc`, the system call `op`, the path still to walk (`rest`), the inode namex holds (`cur`), the locals `dp`, `ip`, `name`, `off`, the second path of `sys_link` (`arg`), the inode of its open file (`fd`), and its current directory `cwd` (`p->cwd`, a counted reference; all start at the root, as `userinit`'s `namei("/")` and `fork`'s `idup` leave them).
* `panicked`.
* In-memory and on-disk inode are one: every change in these system calls is followed by `iupdate` under the inode's lock. `InodeTable` checks the cache separately.
* A path is a sequence of one-character strings, such as `<<"a", "/", "b">>`. `SkipElem` translates `skipelem`: it skips the leading slashes, takes the element up to the next slash or the end, cuts its name to `DIRSIZ` characters, and skips the slashes after it. `HasElem` is FALSE where `skipelem` returns 0. `Skip` tabulates `SkipElem` once over `PathRests`, every path a process can hold. Evaluating the recursion in every state made the liveness check about five times slower. `Names` are the names the paths yield, other than `"."` and `".."`. They are compared as whole sequences. That equals `namecmp`'s `strncmp(s, t, DIRSIZ)`, because both sides are already cut to `DIRSIZ`.
* `DIRSIZ` is 2 in the runs, not 14. Then `"ccc"` and `"cc"` are one name, as a 15-letter and a 14-letter name are in xv6. `DIRSIZ` must be at least 2, or `".."` would be cut to `"."`. `MCNamespace` checks the four examples in `skipelem`'s comment as `ASSUME`s.
* `Origin` is where `namex` starts: `iget(ROOTINO)` for a path that begins with `/`, else `idup(p->cwd)`. `ChdirPaths` are the paths the processes give `sys_chdir`.
* `NamexEnd` is `namex` when `skipelem` finds no element (the path `"/"`). `namei` returns the inode it started from. `nameiparent` puts that inode and fails. It takes no sleep-lock, so `Spec` gives it weak fairness. `NamexStep` merges the last element with the loop's exit: nothing shared happens between them.

**Steps.** A step is the code between two sleep-lock acquisitions. Everything a step touches is under a lock it holds, or is one short atomic update under `itable.lock` or a buffer lock (`iget`, `iput`, `ialloc`). So:

* `StartCreate` (`create`'s `nameiparent` for `sys_open(O_CREATE)` and `sys_mkdir`), `StartUnlink` and `StartLink` enter a system call through `Enter`, which includes namex's `iget` or `idup`. `Close` is `sys_close`.
* `StartChdir` starts `sys_chdir`'s `namei`. `Chdir` is the rest: `ilock`; a non-directory is `iunlockput` and the call fails; else `iunlock`, `iput` of the old cwd, and the new cwd keeps `namei`'s reference.
* `NamexStep` is one turn of namex's loop: `ilock`, the directory test, the early stop of `nameiparent`, and `dirlookup` + `iunlockput`.
* `LinkInc`, `LinkDirlink` and `LinkBad` are the three locked stretches of `sys_link`. `UnlinkLookup` and `UnlinkChild` are those of `sys_unlink`. `UnlinkLookup` keeps the slot `dirlookup` found in `off`, with `dp` still locked. `UnlinkChild` writes the zero entry at that `off` once it has the child's lock. `Create` and `CreateFound` are those of `create`, including what `sys_open` and `sys_mkdir` do with its result.
* `dirlink` may fail for want of room: the model chooses it, and a directory also holds at most `MaxEnts` slots. `filealloc`/`fdalloc` in `sys_open` may fail too. `ialloc` fails when no dinode is free.
* `iput` frees an inode (type 0, content dropped) when the last reference goes and `nlink = 0`.

**Fairness.** Strong fairness on each process's locking steps. `acquiresleep` sleeps on the lock and `releasesleep` wakes every waiter, so a lock that is free again and again is eventually taken by a waiter, given a fair scheduler (`Proc`). A user program is not assumed to make calls.

**`VIEW`.** The locals of an idle process are dead: every call writes them before it reads them. `off` is dead outside `UnlinkChild`. `View` leaves them out, which shrinks the state space about fivefold. This also holds for the liveness property, because the states it merges have the same futures.

**Runs.**

| run | instance | checks | result |
|---|---|---|---|
| `namespace_seq` | 1 process; `DIRSIZ = 2`; paths /a, b, cc, ccc/, a/b, a/., /a/.., / (names a, b, cc); chdir to / and /a/b; 4 dinodes besides the root; `MaxEnts = 4` | `TypeOK`, `LinkCount`, `RefExact`, `NoDangling`, `NoOrphan`, `NoPanic`, `CallsReturn` | pass, 480k distinct states, about 2.3 min |
| `namespace_conc` | 2 processes; paths /a, b; no chdir; 1 dinode besides the root; `MaxEnts = 3` | the same but `TypeOK`, which `namespace_seq` checks | pass, 44k distinct states, about 1 min |
| `namespace_dead_dir` | 1 process; paths /a, b; chdir to /a and /; 2 dinodes besides the root | `NoOrphan` | violation (finding below) |

In `namespace_seq` the root fills up (three names in four slots), `"cc"` and `"ccc/"` name one entry, `"/"` reaches `namex`'s exit with no element, a subdirectory holds a file, and `unlink` meets a non-empty directory, `"."` and `".."`. In `namespace_conc`, `link a b` races `unlink a`, `create` races `create` for the one free dinode, and `unlink` holds the root's lock while the other process waits for it. With `MaxEnts = 3` a second name never fits into the root, so `dirlink` fails there too. Once the cwd is `/a/b`, the relative paths lead below it and the absolute ones still start at the root. No path in that run names `a/b` from inside it, so the process cannot remove its own cwd. A chdir target it could remove, such as `/a`, reaches the finding below at once. For the same reason the two-process run keeps to one directory level and has no chdir: with a subdirectory, either process can remove the other's directory.

* `LinkCount`: `nlink` of every allocated inode is the number of slots naming it, plus the `".."` of each live subdirectory, plus the root's own link, plus a `sys_link` between its `nlink++` and its `dirlink`.
* `RefExact`: `ref` is the number of pointers the processes hold (`cur`, `dp`, `ip`, the open file, the cwd). In `namespace_seq` its mutant is a `sys_chdir` that does not `iput` the old cwd.
* `NoDangling`: no live directory names a freed dinode.
* `NoOrphan`: every allocated inode can be reached by name from the root (the RECURSIVE `Closure`) or is still referenced.
* `NoPanic`: none of `ilock`'s, `dirlookup`'s or `sys_unlink`'s panics fires. In `namespace_conc` its mutant is a `sys_unlink` that unlocks `dp` before it locks the child. Then two unlinks of one name both find it in `dp`, and the second panics on `nlink < 1`.
* `CallsReturn`: every system call a process starts returns. `sys_unlink` locks parent before child and refuses `"."`; a variant without that check deadlocks on itself.

**Finding (`namespace_dead_dir`).** `create` (sysfile.c:289) and `sys_link` (sysfile.c:157) link into the directory `nameiparent` returned. They never check that it is still linked (`dp->nlink > 0`). `sys_unlink` removes an empty directory even while it is some process's cwd: `sys_chdir` keeps that reference, and `namex` starts relative paths from it. TLC's trace has one process run `mkdir /a`, `chdir /a`, `unlink /a`, then `open("b", O_CREATE)`. The new inode (`nlink = 1`) is named only in the dead `a`, so nothing can reach it from the root. When the cwd leaves `a`, `iput` frees `a` and its entries, and the inode is never freed. No concurrency is needed: the shell commands `mkdir d; cd d; rm /d; echo > f` are enough. The same missing check is also open to a race: `nameiparent` returns `dp` unlocked, and another process's `sys_unlink` can remove it before `create` locks it.
