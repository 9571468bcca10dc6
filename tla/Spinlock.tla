------------------------------ MODULE Spinlock ------------------------------
(***************************************************************************)
(* spinlock.c: acquire, release, holding, push_off and pop_off on several  *)
(* CPUs.  On each CPU a kernel thread takes and releases locks, nested up  *)
(* to MaxDepth deep and in a fixed global order (the kernel's lock order,  *)
(* so that CPUs cannot deadlock on each other), and turns interrupts on or *)
(* off where it holds no lock (scheduler, usertrap, usertrapret).  When    *)
(* interrupts are on, a device interrupt may run its handler on the same   *)
(* CPU (kerneltrap -> devintr -> clockintr in trap.c, not in src/), which  *)
(* takes and releases the lock TicksLock.  Trap entry clears SIE and sret  *)
(* sets it again.                                                          *)
(***************************************************************************)
EXTENDS Naturals, FiniteSets

CONSTANTS
  CPUS,
  NLOCK,        \* locks 1..NLOCK, acquired in increasing order
  MaxDepth,     \* locks a thread holds at once
  None

Locks == 1..NLOCK
TicksLock == NLOCK            \* the lock of the interrupt handler, last in order

VARIABLES
  locked, lcpu,      \* lk->locked, lk->cpu
  intr,              \* the SIE bit of each CPU (intr_get)
  noff, intena,      \* struct cpu: push_off depth and saved SIE
  theld, tspin,      \* the thread's locks, and the lock it spins on
  hpc,               \* the interrupt handler's position, "none" if not running
  want,              \* the interrupt state the thread last chose
  panicked

vars == <<locked, lcpu, intr, noff, intena, theld, tspin, hpc, want, panicked>>

HPCs == {"none", "acq", "spin", "rel", "ret"}

TypeOK ==
  /\ locked \in [Locks -> BOOLEAN]
  /\ lcpu \in [Locks -> CPUS \cup {None}]
  /\ intr \in [CPUS -> BOOLEAN]
  /\ noff \in [CPUS -> 0..MaxDepth + 1]
  /\ intena \in [CPUS -> BOOLEAN]
  /\ theld \in [CPUS -> SUBSET Locks]
  /\ tspin \in [CPUS -> Locks \cup {None}]
  /\ hpc \in [CPUS -> HPCs]
  /\ want \in [CPUS -> BOOLEAN]
  /\ panicked \in {"none", "acquire", "release", "pop_off",
                   "pop_off - interruptible"}

\* holding(lk): lk->locked && lk->cpu == mycpu()
Holding(c, l) == locked[l] /\ lcpu[l] = c

Live == panicked = "none"
ThreadRuns(c) == Live /\ hpc[c] = "none" /\ tspin[c] = None

\* push_off(): remember SIE at the outermost level, turn interrupts off
\* bug variant: intena is saved by every push_off, not only the outermost
PushOffAlwaysSave(c) ==
  /\ intena' = [intena EXCEPT ![c] = intr[c]]
  /\ intr' = [intr EXCEPT ![c] = FALSE]
  /\ noff' = [noff EXCEPT ![c] = @ + 1]

PushOff(c) ==
  /\ intena' = [intena EXCEPT ![c] = IF noff[c] = 0 THEN intr[c] ELSE @]
  /\ intr' = [intr EXCEPT ![c] = FALSE]
  /\ noff' = [noff EXCEPT ![c] = @ + 1]

\* pop_off(): panics, then the outermost level restores the saved SIE
\* bug variants: pop_off re-enables interrupts whenever intena is set, at any
\* depth; pop_off forgets the decrement
PopOffAnyDepth(c) ==
  CASE intr[c] -> panicked' = "pop_off - interruptible"
                  /\ UNCHANGED <<intr, noff>>
    [] noff[c] < 1 -> panicked' = "pop_off" /\ UNCHANGED <<intr, noff>>
    [] OTHER -> /\ noff' = [noff EXCEPT ![c] = @ - 1]
                /\ intr' = [intr EXCEPT ![c] = IF intena[c] THEN TRUE ELSE @]
                /\ UNCHANGED panicked

PopOffNoDec(c) ==
  CASE intr[c] -> panicked' = "pop_off - interruptible"
                  /\ UNCHANGED <<intr, noff>>
    [] noff[c] < 1 -> panicked' = "pop_off" /\ UNCHANGED <<intr, noff>>
    [] OTHER -> /\ intr' = [intr EXCEPT ![c] =
                              IF noff[c] = 1 /\ intena[c] THEN TRUE ELSE @]
                /\ UNCHANGED <<noff, panicked>>

PopOff(c) ==
  CASE intr[c] -> panicked' = "pop_off - interruptible"
                  /\ UNCHANGED <<intr, noff>>
    [] noff[c] < 1 -> panicked' = "pop_off" /\ UNCHANGED <<intr, noff>>
    [] OTHER -> /\ noff' = [noff EXCEPT ![c] = @ - 1]
                /\ intr' = [intr EXCEPT ![c] =
                              IF noff[c] = 1 /\ intena[c] THEN TRUE ELSE @]
                /\ UNCHANGED panicked

(* acquire(lk) up to the spin loop: push_off, then panic if holding(lk). *)
AcquireStart(c, l) ==
  /\ PushOff(c)
  /\ IF Holding(c, l) THEN panicked' = "acquire" ELSE UNCHANGED panicked

(* The test-and-set that succeeds, then lk->cpu = mycpu(). *)
\* bug variant: the test-and-set succeeds but lk->cpu is not recorded
TakeNoCpu(c, l) ==
  /\ ~locked[l]
  /\ locked' = [locked EXCEPT ![l] = TRUE]
  /\ UNCHANGED lcpu

\* bug variant: the amoswap is a load and a store, so two CPUs can both see
\* the lock free and both take it
TakeNoTest(c, l) ==
  /\ locked' = [locked EXCEPT ![l] = TRUE]
  /\ lcpu' = [lcpu EXCEPT ![l] = c]

Take(c, l) ==
  /\ ~locked[l]
  /\ locked' = [locked EXCEPT ![l] = TRUE]
  /\ lcpu' = [lcpu EXCEPT ![l] = c]

(* release(lk): panic unless holding; lk->cpu = 0; locked = 0; pop_off. *)
ReleaseLock(c, l) ==
  IF ~Holding(c, l)
    THEN panicked' = "release" /\ UNCHANGED <<locked, lcpu, intr, noff>>
    ELSE /\ lcpu' = [lcpu EXCEPT ![l] = None]
         /\ locked' = [locked EXCEPT ![l] = FALSE]
         /\ PopOff(c)

-----------------------------------------------------------------------------
(* The kernel thread of CPU c. *)
TAcquire(c) ==
  /\ ThreadRuns(c)
  /\ Cardinality(theld[c]) < MaxDepth
  /\ \E l \in Locks :
       /\ \A h \in theld[c] : h < l
       /\ AcquireStart(c, l)
       /\ tspin' = [tspin EXCEPT ![c] = l]
  /\ UNCHANGED <<locked, lcpu, theld, hpc, want>>

TSpin(c) ==
  /\ Live /\ hpc[c] = "none" /\ tspin[c] # None
  /\ Take(c, tspin[c])
  /\ theld' = [theld EXCEPT ![c] = @ \cup {tspin[c]}]
  /\ tspin' = [tspin EXCEPT ![c] = None]
  /\ UNCHANGED <<intr, noff, intena, hpc, want, panicked>>

TRelease(c) ==
  /\ ThreadRuns(c)
  /\ \E l \in theld[c] :
       /\ ReleaseLock(c, l)
       /\ theld' = [theld EXCEPT ![c] = @ \ {l}]
  /\ UNCHANGED <<intena, tspin, hpc, want>>

(* intr_on() / intr_off() where the thread holds no spinlock. *)
TIntr(c) ==
  /\ ThreadRuns(c) /\ theld[c] = {}
  /\ \E b \in BOOLEAN : /\ intr' = [intr EXCEPT ![c] = b]
                        /\ want' = [want EXCEPT ![c] = b]
  /\ UNCHANGED <<locked, lcpu, noff, intena, theld, tspin, hpc, panicked>>

-----------------------------------------------------------------------------
(* A device interrupt on CPU c, and its handler. *)
Interrupt(c) ==
  /\ Live /\ hpc[c] = "none" /\ intr[c]
  /\ intr' = [intr EXCEPT ![c] = FALSE]
  /\ hpc' = [hpc EXCEPT ![c] = "acq"]
  /\ UNCHANGED <<locked, lcpu, noff, intena, theld, tspin, want, panicked>>

HAcquire(c) ==
  /\ Live /\ hpc[c] = "acq"
  /\ AcquireStart(c, TicksLock)
  /\ hpc' = [hpc EXCEPT ![c] = "spin"]
  /\ UNCHANGED <<locked, lcpu, theld, tspin, want>>

HSpin(c) ==
  /\ Live /\ hpc[c] = "spin"
  /\ Take(c, TicksLock)
  /\ hpc' = [hpc EXCEPT ![c] = "rel"]
  /\ UNCHANGED <<intr, noff, intena, theld, tspin, want, panicked>>

HRelease(c) ==
  /\ Live /\ hpc[c] = "rel"
  /\ ReleaseLock(c, TicksLock)
  /\ hpc' = [hpc EXCEPT ![c] = "ret"]
  /\ UNCHANGED <<intena, theld, tspin, want>>

(* sret: SIE = SPIE, which was 1 as the interrupt was taken. *)
HReturn(c) ==
  /\ Live /\ hpc[c] = "ret"
  /\ intr' = [intr EXCEPT ![c] = TRUE]
  /\ hpc' = [hpc EXCEPT ![c] = "none"]
  /\ UNCHANGED <<locked, lcpu, noff, intena, theld, tspin, want, panicked>>

-----------------------------------------------------------------------------
(* initlock on every lock; each CPU starts in main() with interrupts off. *)
Init ==
  /\ locked = [l \in Locks |-> FALSE]
  /\ lcpu = [l \in Locks |-> None]
  /\ intr = [c \in CPUS |-> FALSE]
  /\ noff = [c \in CPUS |-> 0]
  /\ intena = [c \in CPUS |-> FALSE]
  /\ theld = [c \in CPUS |-> {}]
  /\ tspin = [c \in CPUS |-> None]
  /\ hpc = [c \in CPUS |-> "none"]
  /\ want = [c \in CPUS |-> FALSE]
  /\ panicked = "none"

Next ==
  \E c \in CPUS :
    \/ TAcquire(c) \/ TSpin(c) \/ TRelease(c) \/ TIntr(c)
    \/ Interrupt(c) \/ HAcquire(c) \/ HSpin(c) \/ HRelease(c) \/ HReturn(c)

Spec == Init /\ [][Next]_vars

-----------------------------------------------------------------------------
(* Properties *)

(* No panic of spinlock.c: no CPU acquires a lock it holds (the interrupt  *)
(* handler cannot run while its CPU's thread holds TicksLock), releases a  *)
(* lock it does not hold, or pops with interrupts on or noff = 0.          *)
NoPanic == panicked = "none"

(* A CPU never runs with interrupts enabled while it holds or is about to *)
(* spin for a spinlock, so no interrupt handler can run on top of it.      *)
IntrOffWhileHolding ==
  \A c \in CPUS :
    (\E l \in Locks : Holding(c, l)) \/ tspin[c] # None => ~intr[c]

(* Nested acquires restore interrupts: once the thread holds no lock again *)
(* and no handler runs, SIE is what the thread last set before its        *)
(* outermost acquire (intena is saved only by the outermost push_off).    *)
IntrRestored ==
  \A c \in CPUS :
    hpc[c] = "none" /\ theld[c] = {} /\ tspin[c] = None => intr[c] = want[c]
=============================================================================
