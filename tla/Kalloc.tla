------------------------------- MODULE Kalloc -------------------------------
(***************************************************************************)
(* kalloc.c: the physical page allocator, on top of the spinlocks of       *)
(* module Spinlock.  The free list is threaded through the free pages      *)
(* themselves: the first word of a page is its r->next.  kmem.lock is one  *)
(* of Spinlock's locks, taken with acquire() and released with release()   *)
(* by the same steps that module checks, on CPUs whose threads may already *)
(* hold a lower lock (allocproc calls kalloc with p->lock held) and whose  *)
(* interrupt handlers take TicksLock.                                      *)
(*                                                                         *)
(* A page's first word is a page number, 0 (NULL), or one of the junk      *)
(* patterns memset leaves: JunkFree (kfree's 1s) and JunkAlloc (kalloc's   *)
(* 5s).  The rest of a page's bytes are not read by kalloc.c and are left  *)
(* out.  Each CPU's thread calls kalloc() and kfree() of the pages it got. *)
(***************************************************************************)
EXTENDS Spinlock, SequencesExt

CONSTANT NPAGE   \* pages between end and PHYSTOP

ASSUME NPAGE \in Nat \ {0} /\ NLOCK >= 2

Pages     == 1..NPAGE
Null      == 0
JunkFree  == NPAGE + 1
JunkAlloc == NPAGE + 2
KmemLock  == NLOCK - 1     \* below TicksLock, above the locks held around kalloc

VARIABLES
  freelist,  \* kmem.freelist
  next,      \* the first word of each page
  kpc,       \* where the thread of each CPU is in kalloc/kfree
  kr,        \* the local r (the page) of that call
  owned      \* the pages each CPU's thread got from kalloc and not yet freed

kvars == <<freelist, next, kpc, kr, owned>>
allvars == <<vars, kvars>>

KPCs == {"idle", "kalloc_read", "kalloc_unlink", "kalloc_rel",
         "kfree_next", "kfree_push", "kfree_rel"}

KGoto(c, l) == kpc' = [kpc EXCEPT ![c] = l]

\* the thread of c runs and has come back from acquire(&kmem.lock)
InKmem(c) == ThreadRuns(c) /\ KmemLock \in theld[c]

\* acquire(&kmem.lock) up to its spin loop; TSpin then takes it
AcquireKmem(c) ==
  /\ Cardinality(theld[c]) < MaxDepth
  /\ \A h \in theld[c] : h < KmemLock
  /\ AcquireStart(c, KmemLock)
  /\ tspin' = [tspin EXCEPT ![c] = KmemLock]

\* release(&kmem.lock)
ReleaseKmem(c) ==
  /\ ReleaseLock(c, KmemLock)
  /\ theld' = [theld EXCEPT ![c] = @ \ {KmemLock}]

-----------------------------------------------------------------------------
(* kalloc() *)
KallocAcquire(c) ==
  /\ ThreadRuns(c) /\ kpc[c] = "idle"
  /\ AcquireKmem(c)
  /\ KGoto(c, "kalloc_read")
  /\ UNCHANGED <<locked, lcpu, theld, hpc, want, freelist, next, kr, owned>>

KallocRead(c) ==                                \* r = kmem.freelist
  /\ InKmem(c) /\ kpc[c] = "kalloc_read"
  /\ kr' = [kr EXCEPT ![c] = freelist]
  /\ KGoto(c, IF freelist # Null THEN "kalloc_unlink" ELSE "kalloc_rel")
  /\ UNCHANGED <<vars, freelist, next, owned>>

KallocUnlink(c) ==                              \* if(r) kmem.freelist = r->next
  /\ InKmem(c) /\ kpc[c] = "kalloc_unlink"
  /\ kr[c] \in Pages
  /\ freelist' = next[kr[c]]
  /\ KGoto(c, "kalloc_rel")
  /\ UNCHANGED <<vars, next, kr, owned>>

(* release(&kmem.lock); then, outside the lock, memset(r, 5) and return r *)
(* to the caller, which now owns the page.                                 *)
KallocRelease(c) ==
  /\ InKmem(c) /\ kpc[c] = "kalloc_rel"
  /\ ReleaseKmem(c)
  /\ next' = IF kr[c] \in Pages THEN [next EXCEPT ![kr[c]] = JunkAlloc]
                                ELSE next
  /\ owned' = [owned EXCEPT ![c] = @ \cup ({kr[c]} \cap Pages)]
  /\ kr' = [kr EXCEPT ![c] = Null]
  /\ KGoto(c, "idle")
  /\ UNCHANGED <<intena, tspin, hpc, want, freelist>>

-----------------------------------------------------------------------------
(* kfree(pa) of a page the caller owns: the range check (pa is a page, so *)
(* it passes), memset(pa, 1) outside the lock, then acquire(&kmem.lock).   *)
KfreeAcquire(c) ==
  /\ ThreadRuns(c) /\ kpc[c] = "idle"
  /\ \E pa \in owned[c] :
       /\ next' = [next EXCEPT ![pa] = JunkFree]
       /\ owned' = [owned EXCEPT ![c] = @ \ {pa}]
       /\ kr' = [kr EXCEPT ![c] = pa]
  /\ AcquireKmem(c)
  /\ KGoto(c, "kfree_next")
  /\ UNCHANGED <<locked, lcpu, theld, hpc, want, freelist>>

KfreeNext(c) ==                                 \* r->next = kmem.freelist
  /\ InKmem(c) /\ kpc[c] = "kfree_next"
  /\ next' = [next EXCEPT ![kr[c]] = freelist]
  /\ KGoto(c, "kfree_push")
  /\ UNCHANGED <<vars, freelist, kr, owned>>

KfreePush(c) ==                                 \* kmem.freelist = r
  /\ InKmem(c) /\ kpc[c] = "kfree_push"
  /\ freelist' = kr[c]
  /\ KGoto(c, "kfree_rel")
  /\ UNCHANGED <<vars, next, kr, owned>>

KfreeRelease(c) ==                              \* release(&kmem.lock)
  /\ InKmem(c) /\ kpc[c] = "kfree_rel"
  /\ ReleaseKmem(c)
  /\ kr' = [kr EXCEPT ![c] = Null]
  /\ KGoto(c, "idle")
  /\ UNCHANGED <<intena, tspin, hpc, want, freelist, next, owned>>

-----------------------------------------------------------------------------
(* kinit(): initlock(&kmem.lock), then freerange(end, PHYSTOP) kfrees the  *)
(* pages in increasing order on the boot CPU, before the other harts run;  *)
(* each kfree pushes on the front, so the list runs from the last page     *)
(* down to the first.                                                      *)
Kinit ==
  /\ Init
  /\ freelist = NPAGE
  /\ next = [p \in Pages |-> p - 1]
  /\ kpc = [c \in CPUS |-> "idle"]
  /\ kr = [c \in CPUS |-> Null]
  /\ owned = [c \in CPUS |-> {}]

(* Other kernel code on the thread (Spinlock's TAcquire/TRelease/TIntr)    *)
(* runs between kalloc calls and never takes kmem.lock itself; interrupt   *)
(* handlers may run at any time interrupts are on.                         *)
OtherCode(c) ==
  /\ \/ TAcquire(c) /\ kpc[c] = "idle" /\ tspin'[c] # KmemLock
     \/ TRelease(c) /\ kpc[c] = "idle"
     \/ TIntr(c)
     \/ TSpin(c)
     \/ Interrupt(c) \/ HAcquire(c) \/ HSpin(c) \/ HRelease(c) \/ HReturn(c)
  /\ UNCHANGED kvars

KNext ==
  \E c \in CPUS :
    \/ OtherCode(c)
    \/ KallocAcquire(c) \/ KallocRead(c) \/ KallocUnlink(c) \/ KallocRelease(c)
    \/ KfreeAcquire(c) \/ KfreeNext(c) \/ KfreePush(c) \/ KfreeRelease(c)

KSpec == Kinit /\ [][KNext]_allvars

-----------------------------------------------------------------------------
(* Properties *)

\* the free list read from kmem.freelist, following r->next at most NPAGE
\* times; a well-formed list ends in Null
RECURSIVE Walk(_, _)
Walk(x, k) == IF x \notin Pages \/ k = 0 THEN <<x>>
              ELSE <<x>> \o Walk(next[x], k - 1)

FreeChain == Walk(freelist, NPAGE)
FreePages == Range(FreeChain) \cap Pages

\* the page a call of c holds privately: taken off the list and not yet
\* returned, or given to kfree and not yet pushed
InFlight(c) ==
  IF kpc[c] \in {"kalloc_rel", "kfree_next", "kfree_push"}
    THEN {kr[c]} \cap Pages ELSE {}

Places(p) ==
  (IF p \in FreePages THEN 1 ELSE 0)
    + Cardinality({c \in CPUS : p \in owned[c] \cup InFlight(c)})

(* Pages are conserved: the free list is a NULL-terminated chain without   *)
(* repeats, and every page is in exactly one place, on that list, owned by *)
(* one caller of kalloc, or inside one kalloc/kfree call.  It rests on     *)
(* kmem.lock making the two-statement pop and push atomic, and on the      *)
(* memsets touching only a page no other CPU can reach.                    *)
PagesConserved ==
  /\ Last(FreeChain) = Null
  /\ IsInjective(FreeChain)
  /\ \A p \in Pages : Places(p) = 1
=============================================================================
