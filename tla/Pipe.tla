-------------------------------- MODULE Pipe --------------------------------
(***************************************************************************)
(* pipe.c: pipewrite, piperead and pipeclose by reader and writer          *)
(* processes sharing the two ends of one pipe, over sleep/wakeup and kill  *)
(* of proc.c, reached through the file-descriptor layer: the descriptor    *)
(* table p->ofile, sys_read, sys_write, sys_dup and sys_close of sysfile.c *)
(* and the file-closing loop of exit(); a pipe end is closed when the last *)
(* reference to its struct file goes (fileclose).                          *)
(*                                                                         *)
(* sleep(chan, &pi->lock) is one step: sleep takes p->lock before it       *)
(* releases pi->lock, and wakeup takes p->lock, so no wakeup can fall in   *)
(* between (module Proc checks that handshake).  A woken process must      *)
(* reacquire pi->lock before it goes on.  Every byte written is its        *)
(* ordinal in the stream, so the buffer's contents can be checked.  nread  *)
(* and nwrite are uint: they count modulo 2^32, here modulo Wrap, a        *)
(* multiple of PIPESIZE as 2^32 is a multiple of 512.                      *)
(***************************************************************************)
EXTENDS Naturals, FiniteSets, Sequences

CONSTANTS
  Writers, Readers,   \* processes holding the write and the read end
  PIPESIZE,
  Wrap,               \* 2^32 in the code, scaled down
  MaxN,               \* largest n of one call
  MaxCalls,           \* system calls a process makes before it exits
  NOFILE,             \* open files per process
  None

Procs == Writers \cup Readers
MaxBytes == Cardinality(Writers) * MaxCalls * MaxN
FDs == 0..NOFILE - 1
Ends == {"rf", "wf"}    \* pipealloc's two struct file: read end, write end

VARIABLES
  lock,                       \* holder of pi->lock, or None
  data, nread, nwrite,        \* struct pipe
  readopen, writeopen,
  pc, n, i,                   \* a process's position, request and progress
  calls, done,                \* system calls made; exited
  ofile, fref,                \* p->ofile[fd]; each end's f->ref
  killed, sleeping,           \* p->killed; the channel p sleeps on
  wtotal, rtotal              \* bytes written and consumed so far

fvars == <<ofile, fref>>
vars == <<lock, data, nread, nwrite, readopen, writeopen, pc, n, i, calls,
          done, killed, sleeping, wtotal, rtotal, fvars>>

PCs == {"idle", "w_acq", "w_loop", "w_sleep", "w_reacq",
        "r_acq", "r_check", "r_sleep", "r_reacq"}

TypeOK ==
  /\ lock \in Procs \cup {None}
  /\ data \in [0..PIPESIZE - 1 -> 0..MaxBytes]
  /\ nread \in 0..Wrap - 1 /\ nwrite \in 0..Wrap - 1
  /\ readopen \in BOOLEAN /\ writeopen \in BOOLEAN
  /\ pc \in [Procs -> PCs]
  /\ n \in [Procs -> 0..MaxN] /\ i \in [Procs -> 0..MaxN]
  /\ calls \in [Procs -> 0..MaxCalls] /\ done \in [Procs -> BOOLEAN]
  /\ killed \in [Procs -> BOOLEAN]
  /\ sleeping \in [Procs -> {"none", "nread", "nwrite"}]
  /\ wtotal \in 0..MaxBytes /\ rtotal \in 0..MaxBytes
  /\ ofile \in [Procs -> [FDs -> Ends \cup {None}]]
  /\ fref \in [Ends -> 0..Cardinality(Procs) * NOFILE]

\* unsigned arithmetic of the code on nread/nwrite
Plus(a, b) == (a + b) % Wrap

Goto(p, l) == pc' = [pc EXCEPT ![p] = l]
Runnable(p) == sleeping[p] = "none"

\* wakeup(chan): every process sleeping on chan becomes RUNNABLE
Wakeup(ch) == sleeping' = [q \in Procs |-> IF sleeping[q] = ch THEN "none"
                                                                ELSE sleeping[q]]

\* sleep(chan, &pi->lock): SLEEPING on chan and pi->lock released
Sleep(p, ch, back) == /\ sleeping' = [sleeping EXCEPT ![p] = ch]
                      /\ lock' = None
                      /\ Goto(p, back)

\* pipewrite's return: wakeup(&pi->nread); release(&pi->lock)
WReturn(p) == Wakeup("nread") /\ lock' = None /\ Goto(p, "idle")

\* piperead's return: wakeup(&pi->nwrite); release(&pi->lock)
RReturn(p) == Wakeup("nwrite") /\ lock' = None /\ Goto(p, "idle")

Acquire(p, from, to) ==
  /\ pc[p] = from /\ Runnable(p) /\ lock = None
  /\ lock' = p
  /\ Goto(p, to)
  /\ UNCHANGED <<data, nread, nwrite, readopen, writeopen, n, i, calls, done,
                 killed, sleeping, wtotal, rtotal, fvars>>

-----------------------------------------------------------------------------
(* The descriptors of p that name an open file: argfd's test.  fdalloc   *)
(* takes the lowest free one; exit closes them from the lowest up.       *)
Fds(p) == {fd \in FDs : ofile[p][fd] # None}
Lowest(S) == CHOOSE fd \in S : \A g \in S : fd <= g

(* pipeclose(pi, writable): under pi->lock, mark the end closed and wake  *)
(* the other side.  (kfree of the pipe when both ends are closed frees no *)
(* state the model keeps.)                                                *)
\* bug variant: the end is marked closed without waking the other side
PipeCloseNoWakeup(f) ==
  /\ lock = None
  /\ IF f = "wf" THEN writeopen' = FALSE /\ UNCHANGED readopen
                 ELSE readopen' = FALSE /\ UNCHANGED writeopen
  /\ UNCHANGED sleeping

PipeClose(f) ==
  /\ lock = None
  /\ IF f = "wf" THEN writeopen' = FALSE /\ Wakeup("nread") /\ UNCHANGED readopen
                 ELSE readopen' = FALSE /\ Wakeup("nwrite") /\ UNCHANGED writeopen

(* ofile[fd] = 0 and fileclose(f): the last reference calls pipeclose.    *)
(* fileclose drops ftable.lock before pipeclose takes pi->lock; no one    *)
(* else holds f then, so the step waits for pi->lock as a whole.          *)
FileClose(p, fd) ==
  LET f == ofile[p][fd] IN
  /\ ofile' = [ofile EXCEPT ![p][fd] = None]
  /\ fref' = [fref EXCEPT ![f] = @ - 1]
  /\ IF fref[f] = 1 THEN PipeClose(f)
                    ELSE UNCHANGED <<readopen, writeopen, sleeping>>

(* A process in user space makes a system call while it has calls left   *)
(* and is not killed (usertrap exits a killed process at the boundary).  *)
UserCall(p) ==
  /\ pc[p] = "idle" /\ ~done[p] /\ ~killed[p] /\ calls[p] < MaxCalls
  /\ calls' = [calls EXCEPT ![p] = @ + 1]

(* sys_write(fd, n) or sys_read(fd, n): argfd, then filewrite/fileread of *)
(* the pipe end the descriptor names.  A call on a descriptor that is not *)
(* open returns -1 and changes nothing.                                   *)
Call(p) ==
  /\ UserCall(p)
  /\ \E fd \in Fds(p), k \in 1..MaxN :
       /\ n' = [n EXCEPT ![p] = k]
       /\ Goto(p, IF ofile[p][fd] = "wf" THEN "w_acq" ELSE "r_acq")
  /\ i' = [i EXCEPT ![p] = 0]
  /\ UNCHANGED <<lock, data, nread, nwrite, readopen, writeopen, done, killed,
                 sleeping, wtotal, rtotal, fvars>>

(* sys_dup(fd): argfd, fdalloc (no free slot: return -1), filedup. *)
\* bug variant: the new descriptor is installed without filedup(f)
DupNoFiledup(p) ==
  /\ UserCall(p)
  /\ \E fd \in Fds(p) :
       \/ /\ Fds(p) # FDs
          /\ ofile' = [ofile EXCEPT ![p][Lowest(FDs \ Fds(p))] = ofile[p][fd]]
          /\ UNCHANGED fref
       \/ /\ Fds(p) = FDs
          /\ UNCHANGED fvars
  /\ UNCHANGED <<lock, data, nread, nwrite, readopen, writeopen, pc, n, i,
                 done, killed, sleeping, wtotal, rtotal>>

Dup(p) ==
  /\ UserCall(p)
  /\ \E fd \in Fds(p) :
       \/ /\ Fds(p) # FDs
          /\ ofile' = [ofile EXCEPT ![p][Lowest(FDs \ Fds(p))] = ofile[p][fd]]
          /\ fref' = [fref EXCEPT ![ofile[p][fd]] = @ + 1]
       \/ /\ Fds(p) = FDs
          /\ UNCHANGED fvars
  /\ UNCHANGED <<lock, data, nread, nwrite, readopen, writeopen, pc, n, i,
                 done, killed, sleeping, wtotal, rtotal>>

(* sys_close(fd): argfd, then ofile[fd] = 0 and fileclose. *)
SysClose(p) ==
  /\ UserCall(p)
  /\ \E fd \in Fds(p) : FileClose(p, fd)
  /\ UNCHANGED <<lock, data, nread, nwrite, pc, n, i, done, killed, wtotal,
                 rtotal>>

(* exit(), after MaxCalls calls or when killed: one turn of its loop      *)
(* closes the lowest open descriptor; with none left the process is gone. *)
Close(p) ==
  /\ pc[p] = "idle" /\ ~done[p] /\ (killed[p] \/ calls[p] = MaxCalls)
  /\ IF Fds(p) = {}
       THEN done' = [done EXCEPT ![p] = TRUE]
            /\ UNCHANGED <<readopen, writeopen, sleeping, fvars>>
       ELSE FileClose(p, Lowest(Fds(p))) /\ UNCHANGED done
  /\ UNCHANGED <<lock, data, nread, nwrite, pc, n, i, calls, killed, wtotal,
                 rtotal>>

(* kill(pid) from another process: p->killed = 1; SLEEPING -> RUNNABLE. *)
Kill(p) ==
  /\ ~killed[p] /\ ~done[p]
  /\ killed' = [killed EXCEPT ![p] = TRUE]
  /\ sleeping' = [sleeping EXCEPT ![p] = "none"]
  /\ UNCHANGED <<lock, data, nread, nwrite, readopen, writeopen, pc, n, i,
                 calls, done, wtotal, rtotal, fvars>>

-----------------------------------------------------------------------------
(* pipewrite(pi, addr, n) *)
WAcquire(p) == Acquire(p, "w_acq", "w_loop")

(* One iteration of the while(i < n) loop, with pi->lock held. *)
\* bug variants: the full test computed without uint wrap-around
\* (nread + PIPESIZE in a wider type); the loop runs while i <= n
WLoopNoWrap(p) ==
  /\ pc[p] = "w_loop" /\ Runnable(p)
  /\ CASE i[p] >= n[p] ->
            WReturn(p) /\ UNCHANGED <<data, nwrite, i, wtotal>>
       [] ~readopen \/ killed[p] ->
            /\ lock' = None /\ Goto(p, "idle")
            /\ UNCHANGED <<data, nwrite, i, sleeping, wtotal>>
       [] nwrite = nread + PIPESIZE ->
            /\ Wakeup("nread") /\ Goto(p, "w_sleep")
            /\ UNCHANGED <<lock, data, nwrite, i, wtotal>>
       [] OTHER ->
            \/ WReturn(p) /\ UNCHANGED <<data, nwrite, i, wtotal>>
            \/ /\ data' = [data EXCEPT ![nwrite % PIPESIZE] = wtotal]
               /\ nwrite' = Plus(nwrite, 1)
               /\ i' = [i EXCEPT ![p] = @ + 1]
               /\ wtotal' = wtotal + 1
               /\ UNCHANGED <<lock, pc, sleeping>>
  /\ UNCHANGED <<nread, readopen, writeopen, n, calls, done, killed, rtotal, fvars>>

WLoopOffByOne(p) ==
  /\ pc[p] = "w_loop" /\ Runnable(p)
  /\ CASE i[p] > n[p] ->
            WReturn(p) /\ UNCHANGED <<data, nwrite, i, wtotal>>
       [] ~readopen \/ killed[p] ->
            /\ lock' = None /\ Goto(p, "idle")
            /\ UNCHANGED <<data, nwrite, i, sleeping, wtotal>>
       [] nwrite = Plus(nread, PIPESIZE) ->
            /\ Wakeup("nread") /\ Goto(p, "w_sleep")
            /\ UNCHANGED <<lock, data, nwrite, i, wtotal>>
       [] OTHER ->
            \/ WReturn(p) /\ UNCHANGED <<data, nwrite, i, wtotal>>
            \/ /\ data' = [data EXCEPT ![nwrite % PIPESIZE] = wtotal]
               /\ nwrite' = Plus(nwrite, 1)
               /\ i' = [i EXCEPT ![p] = @ + 1]
               /\ wtotal' = wtotal + 1
               /\ UNCHANGED <<lock, pc, sleeping>>
  /\ UNCHANGED <<nread, readopen, writeopen, n, calls, done, killed, rtotal, fvars>>

\* bug variant: pipewrite does not test readopen, so it fills a pipe no one
\* will read
WLoopNoReadCheck(p) ==
  /\ pc[p] = "w_loop" /\ Runnable(p)
  /\ CASE i[p] >= n[p] ->                      \* loop done: return i
            WReturn(p) /\ UNCHANGED <<data, nwrite, i, wtotal>>
       [] killed[p] ->                          \* return -1
            /\ lock' = None /\ Goto(p, "idle")
            /\ UNCHANGED <<data, nwrite, i, sleeping, wtotal>>
       [] nwrite = Plus(nread, PIPESIZE) ->     \* full: wake readers, sleep
            /\ Wakeup("nread") /\ Goto(p, "w_sleep")
            /\ UNCHANGED <<lock, data, nwrite, i, wtotal>>
       [] OTHER ->
            \/ WReturn(p) /\ UNCHANGED <<data, nwrite, i, wtotal>>
                                                \* copyin failed: break
            \/ /\ data' = [data EXCEPT ![nwrite % PIPESIZE] = wtotal]
               /\ nwrite' = Plus(nwrite, 1)
               /\ i' = [i EXCEPT ![p] = @ + 1]
               /\ wtotal' = wtotal + 1
               /\ UNCHANGED <<lock, pc, sleeping>>
  /\ UNCHANGED <<nread, readopen, writeopen, n, calls, done, killed, rtotal, fvars>>

WLoop(p) ==
  /\ pc[p] = "w_loop" /\ Runnable(p)
  /\ CASE i[p] >= n[p] ->                      \* loop done: return i
            WReturn(p) /\ UNCHANGED <<data, nwrite, i, wtotal>>
       [] ~readopen \/ killed[p] ->             \* return -1
            /\ lock' = None /\ Goto(p, "idle")
            /\ UNCHANGED <<data, nwrite, i, sleeping, wtotal>>
       [] nwrite = Plus(nread, PIPESIZE) ->     \* full: wake readers, sleep
            /\ Wakeup("nread") /\ Goto(p, "w_sleep")
            /\ UNCHANGED <<lock, data, nwrite, i, wtotal>>
       [] OTHER ->
            \/ WReturn(p) /\ UNCHANGED <<data, nwrite, i, wtotal>>
                                                \* copyin failed: break
            \/ /\ data' = [data EXCEPT ![nwrite % PIPESIZE] = wtotal]
               /\ nwrite' = Plus(nwrite, 1)
               /\ i' = [i EXCEPT ![p] = @ + 1]
               /\ wtotal' = wtotal + 1
               /\ UNCHANGED <<lock, pc, sleeping>>
  /\ UNCHANGED <<nread, readopen, writeopen, n, calls, done, killed, rtotal, fvars>>

WSleep(p) ==
  /\ pc[p] = "w_sleep" /\ Runnable(p)
  /\ Sleep(p, "nwrite", "w_reacq")
  /\ UNCHANGED <<data, nread, nwrite, readopen, writeopen, n, i, calls, done,
                 killed, wtotal, rtotal, fvars>>

WReacquire(p) == Acquire(p, "w_reacq", "w_loop")

-----------------------------------------------------------------------------
(* piperead(pi, addr, n) *)
RAcquire(p) == Acquire(p, "r_acq", "r_check")

(* With pi->lock held: while the pipe is empty and the write end open,     *)
(* return -1 if killed, else sleep.  Otherwise the copy loop takes up to n *)
(* bytes; a failing copyout stops it early, after consuming the byte it    *)
(* failed on.  Then wakeup(&pi->nwrite) and release.                       *)
RCheck(p) ==
  /\ pc[p] = "r_check" /\ Runnable(p)
  /\ IF nread = nwrite /\ writeopen
       THEN /\ IF killed[p] THEN lock' = None /\ Goto(p, "idle")
                            ELSE Goto(p, "r_sleep") /\ UNCHANGED lock
            /\ UNCHANGED <<nread, sleeping, rtotal>>
       ELSE LET avail == (nwrite + Wrap - nread) % Wrap
                most  == IF n[p] < avail THEN n[p] ELSE avail
            IN  /\ \E k \in IF most = 0 THEN {0} ELSE 1..most :
                     /\ nread' = Plus(nread, k)
                     /\ rtotal' = rtotal + k
                /\ RReturn(p)
  /\ UNCHANGED <<data, nwrite, readopen, writeopen, n, i, calls, done, killed,
                 wtotal, fvars>>

RSleep(p) ==
  /\ pc[p] = "r_sleep" /\ Runnable(p)
  /\ Sleep(p, "nread", "r_reacq")
  /\ UNCHANGED <<data, nread, nwrite, readopen, writeopen, n, i, calls, done,
                 killed, wtotal, rtotal, fvars>>

RReacquire(p) == Acquire(p, "r_reacq", "r_check")

-----------------------------------------------------------------------------
(* sys_pipe (pipealloc: both ends open, nread = nwrite = 0), then fork:  *)
(* each writer holds the write end in fd 0 and each reader the read end,  *)
(* the other end closed, as a shell sets up a pipeline.                   *)
Init ==
  /\ lock = None
  /\ data = [k \in 0..PIPESIZE - 1 |-> 0]
  /\ nread = 0 /\ nwrite = 0
  /\ readopen = TRUE /\ writeopen = TRUE
  /\ pc = [p \in Procs |-> "idle"]
  /\ n = [p \in Procs |-> 0] /\ i = [p \in Procs |-> 0]
  /\ calls = [p \in Procs |-> 0] /\ done = [p \in Procs |-> FALSE]
  /\ killed = [p \in Procs |-> FALSE]
  /\ sleeping = [p \in Procs |-> "none"]
  /\ wtotal = 0 /\ rtotal = 0
  /\ ofile = [p \in Procs |->
               [fd \in FDs |-> IF fd # 0 THEN None
                               ELSE IF p \in Writers THEN "wf" ELSE "rf"]]
  /\ fref = [f \in Ends |-> IF f = "wf" THEN Cardinality(Writers)
                                       ELSE Cardinality(Readers)]

Kernel(p) ==
  \/ WLoop(p) \/ WSleep(p) \/ RCheck(p) \/ RSleep(p)

Locking(p) ==
  \/ WAcquire(p) \/ WReacquire(p) \/ RAcquire(p) \/ RReacquire(p)

Next ==
  \E p \in Procs :
    \/ Call(p) \/ Dup(p) \/ SysClose(p) \/ Close(p) \/ Kill(p)
    \/ Kernel(p) \/ Locking(p)

(* A runnable process keeps being scheduled (Proc's scheduler); pi->lock  *)
(* is free again and again, so a waiter eventually gets it; a user program *)
(* eventually makes its next call or exits.  kill is not assumed.          *)
Fairness ==
  \A p \in Procs : /\ WF_vars(Kernel(p))
                   /\ SF_vars(Locking(p))
                   /\ WF_vars(Call(p) \/ Close(p))

Spec == Init /\ [][Next]_vars /\ Fairness

-----------------------------------------------------------------------------
(* Properties *)

\* the bytes from nread up to nwrite, in the order they will be read
Buffered == [k \in 1..(nwrite + Wrap - nread) % Wrap |->
               data[Plus(nread, k - 1) % PIPESIZE]]

Queue == INSTANCE PipeQueue WITH buf <- Buffered, sent <- wtotal, got <- rtotal

(* The pipe implements a bounded FIFO (module PipeQueue): every step of    *)
(* pipewrite, piperead and pipeclose is a write of the next byte into a    *)
(* non-full FIFO with both ends open, a read from its front, a close, or   *)
(* leaves the FIFO as it was.  The refinement mapping reads the FIFO off   *)
(* data[] between nread and nwrite in uint arithmetic, so the full test of *)
(* pipewrite (nwrite == nread + PIPESIZE, in uint arithmetic) must keep a  *)
(* writer from overwriting unread bytes, also when the counters wrap.      *)
QueueSpec == Queue!Spec

(* Every pipewrite and piperead call returns: a writer blocked on a full   *)
(* pipe is woken by a reader or by the read end's close, a reader blocked  *)
(* on an empty pipe by a writer or by the write end's close.               *)
CallsReturn == \A p \in Procs : pc[p] # "idle" ~> pc[p] = "idle"

(* A killed process is not left asleep in a pipe call: kill() wakes a     *)
(* sleeping victim "so it can observe the flag", and the loops of          *)
(* pipewrite and piperead check killed before they sleep.                  *)
KilledNotAsleep == \A p \in Procs : killed[p] => sleeping[p] = "none"
=============================================================================
