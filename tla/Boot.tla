-------------------------------- MODULE Boot --------------------------------
(***************************************************************************)
(* main() of main.c brings the kernel up: interrupts and the timer, page   *)
(* tables, the area of temporary mappings, threads, and only then the      *)
(* interrupt flag.  Afterwards kmap() and kunmap() change the page tables  *)
(* and the TLB together with the ranges of Kmap.tla, and interrupts come   *)
(* as in Ints.tla.                                                         *)
(*                                                                         *)
(* kmap() and kunmap() hold kmap_lock with interrupts disabled and touch   *)
(* nothing an interrupt does, so the two kinds of steps are followed in    *)
(* behaviours of their own: mappings on the machine with most memory,      *)
(* interrupts on the one with least.                                       *)
(***************************************************************************)
EXTENDS Kmap, PageTables, Ints

CONSTANTS Memory      \* sizes of physical memory, in pages

ASSUME MemoryAssumption == Memory \subseteq Nat \ {0}

VARIABLES memory,     \* balloc_memory()
          pt,         \* the table cr3 leads to
          tlb         \* translations of the area the CPU has cached

bootVars == <<kmapVars, intVars, memory, pt, tlb>>

MostMemory == \A m \in Memory : m <= memory
LeastMemory == \A m \in Memory : memory <= m

KMAP_BEGIN == VIRTUAL_BASE - KMAP_PAGES
KmapArea == KMAP_BEGIN .. VIRTUAL_BASE - 1

\* The area follows the memory that is mapped at most.
ASSUME AreaAssumption == HIGHER_BASE + MAX_PMEM_SIZE <= KMAP_BEGIN

\* What the array of ranges was left with matters only where it is used: on the
\* other machines all of it is the same.
BootInit ==
    /\ KmapInit /\ IntsInit
    /\ memory \in Memory
    /\ ~ MostMemory => \A p \in 1 .. KMAP_PAGES - 2 :
                         empty[p] /\ pages[p] = CHOOSE j \in Junk : TRUE
    /\ pt = NoTable
    /\ tlb = {}

-----------------------------------------------------------------------------
(* The TLB: it caches a translation as soon as there is one and keeps it   *)
(* until it is flushed.  No other can hold a stale one where this does not. *)

Refilled(cache, pml4) ==
    cache \cup Translations(pml4, KmapArea \ {e[1] : e \in cache})

\* Wrong: only the first page is flushed (mutant).
FlushFirst(cache, from, n) == {e \in cache : e[1] # from}

\* flush_tlb_addr() of every page of a range.
FlushPages(cache, from, n) == {e \in cache : e[1] \notin from .. from + n - 1}

-----------------------------------------------------------------------------
(* main() *)

Returned(call) == \E i \in 1 .. stage : Calls[i] = call

\* The page table after a call of main().  Writing cr3 empties the TLB; the
\* ranges of kmap_setup() are set up in KmapInit.
PagingSetup ==
    \E s \in {paging_setup(memory)} : pt' = s /\ tlb' = Refilled({}, s)

KmapSetup ==
    \E s \in {pt_populate_pages(pt, KMAP_BEGIN, VIRTUAL_BASE, TRUE)} :
        pt' = s /\ tlb' = Refilled(tlb, s)

MainStep ==
    /\ MainCall
    /\ \/ Calls[stage + 1] = "paging_setup" /\ PagingSetup
       \/ Calls[stage + 1] = "kmap_setup" /\ KmapSetup
       \/ Calls[stage + 1] \notin {"paging_setup", "kmap_setup"} /\ UNCHANGED <<pt, tlb>>
    /\ UNCHANGED <<kmapVars, memory>>

-----------------------------------------------------------------------------
(* Temporary mappings.  The i-th page a caller maps is page i of memory. *)

Frames(n) == [i \in 1 .. n |-> i]

KmapCall(n) ==
    /\ Up /\ MostMemory /\ kmap(n)
    /\ \E h \in held' \ held : \E s \in {MapFrames(pt, KMAP_BEGIN + h[1], Frames(n))} :
         /\ pt' = s
         /\ tlb' = Refilled(FlushPages(tlb, KMAP_BEGIN + h[1], n), s)
    /\ UNCHANGED <<intVars, memory>>

KunmapCall(r) ==
    /\ Up /\ MostMemory /\ kunmap(r)
    /\ \E n \in {pages[r]} : \E s \in {UnmapPages(pt, KMAP_BEGIN + r, n)} :
         /\ pt' = s
         /\ tlb' = Refilled(FlushPages(tlb, KMAP_BEGIN + r, n), s)
    /\ UNCHANGED <<intVars, memory>>

InterruptStep ==
    /\ LeastMemory /\ Activity
    /\ UNCHANGED <<kmapVars, memory, pt, tlb>>

BootNext ==
    \/ MainStep
    \/ \E n \in 2 .. KMAP_PAGES : KmapCall(n)
    \/ \E h \in held : KunmapCall(h[1])
    \/ InterruptStep

(***************************************************************************)
(* main() and handlers go on, critical sections end, and the CPU takes an  *)
(* interrupt that stays pending before long once the flag is set again and *)
(* again.                                                                  *)
(***************************************************************************)
ProceedStep == Proceed /\ UNCHANGED <<kmapVars, memory, pt, tlb, stage>>
TimerStep == Interrupt(PIT_IRQ) /\ UNCHANGED <<kmapVars, memory, pt, tlb, stage>>

BootSpec ==
    /\ BootInit /\ [][BootNext]_bootVars
    /\ WF_bootVars(MainStep) /\ WF_bootVars(LeastMemory /\ ProceedStep)
    /\ SF_bootVars(LeastMemory /\ TimerStep)

-----------------------------------------------------------------------------
(* Properties *)

\* What callers have mapped, and everything that should be mapped.
Temporary == UNION {{<<KMAP_BEGIN + h[1] + i - 1, i>> : i \in 1 .. h[2]} : h \in held}
Wanted ==
    LET mem_size == IF memory < MAX_PMEM_SIZE THEN memory ELSE MAX_PMEM_SIZE
    IN  {<<HIGHER_BASE + p, p>> : p \in 0 .. mem_size - 1}
          \cup {<<VIRTUAL_BASE + p, p>> : p \in 0 .. SPACE - VIRTUAL_BASE - 1}
          \cup Temporary

(***************************************************************************)
(* The page tables say exactly what was asked for: memory, the kernel      *)
(* image and the pages callers have mapped, each address to its page and   *)
(* no other address to any, for every size of memory, whichever large      *)
(* pages were used, and with nothing but the tables kmap_setup() made      *)
(* (paging.c:86-137).                                                      *)
(***************************************************************************)
MappingExact ==
    Returned("paging_setup") => Translations(pt, 0 .. SPACE - 1) = Wanted

(***************************************************************************)
(* No CPU translates an address of the area as it was before the last      *)
(* kmap() or kunmap() of it (paging.c:345, 378).                           *)
(***************************************************************************)
TlbFresh == tlb \subseteq Translations(pt, KmapArea)
=============================================================================
