----------------------------- MODULE PageAlloc -----------------------------
(***************************************************************************)
(* The buddy allocator of memory.c: zones of page frames, per zone one     *)
(* list of free blocks for every order.                                    *)
(*                                                                         *)
(* The work on a zone is done under its spin lock with interrupts off and  *)
(* is one step; the walk of __page_alloc() over the zones holds no lock    *)
(* between them, so each zone it tries is a step of its own.  At boot each *)
(* round of the loop that cuts a free range into blocks is a step.  Pages  *)
(* are page frame numbers, and a zone is known by the index of its range.  *)
(* The two loops, splitting and merging, are given by the orders they run  *)
(* through: page flags do not change while they run.                       *)
(***************************************************************************)
EXTENDS Integers, Sequences, SequencesExt

CONSTANTS PAGE_SIZE,    \* bytes in a page
          MAX_ORDER,    \* largest block: 2^MAX_ORDER pages
          MemoryMap,    \* <<begin, end>> byte ranges of memory_map, in order
          FreeRanges,   \* <<begin, end>> byte ranges of free_ranges, in order
          Caller,       \* threads that allocate
          BootFree      \* page flags whose FREE bit may be set at boot

\* The trees balloc_setup() leaves: ranges apart from each other, and what is
\* free is memory (Balloc.tla).
Apart(ranges) == \A i, j \in DOMAIN ranges : i < j => ranges[i][2] < ranges[j][1]

ASSUME PageAssumption ==
    /\ PAGE_SIZE \in Nat \ {0} /\ MAX_ORDER \in Nat
    /\ MemoryMap \in Seq(Nat \X Nat) /\ FreeRanges \in Seq(Nat \X Nat)
    /\ Apart(MemoryMap) /\ Apart(FreeRanges)
    /\ \A i \in DOMAIN FreeRanges : \E z \in DOMAIN MemoryMap :
         MemoryMap[z][1] <= FreeRanges[i][1] /\ FreeRanges[i][2] <= MemoryMap[z][2]
    /\ BootFree \subseteq Nat

VARIABLES order,    \* order[z][k]: heads of zone z's free blocks, first first
          isfree,   \* pages whose FREE flag is set
          ord,      \* order bits of the page flags
          boot,     \* free range and page page_alloc_setup() has come to
          busy,     \* <<page, order>> of the blocks callers have
          scan      \* what each caller looks for, and in which zone

pageVars == <<order, isfree, ord, boot, busy, scan>>

Orders == 0 .. MAX_ORDER

\* 1 << k, the pages of a block of order k.
BlockPages[k \in 0 .. MAX_ORDER + 1] == IF k = 0 THEN 1 ELSE 2 * BlockPages[k - 1]

Bit(p, k) == (p \div BlockPages[k]) % 2

-----------------------------------------------------------------------------
(* Boot *)

\* First page that begins in a byte range, and the one after the last whole one.
FirstPage(r) == (r[1] + PAGE_SIZE - 1) \div PAGE_SIZE
LastPage(r) == r[2] \div PAGE_SIZE

\* __page_alloc_zone_setup(): a range without a whole page gives no zone.
ZoneIds == {z \in DOMAIN MemoryMap : FirstPage(MemoryMap[z]) < LastPage(MemoryMap[z])}
ZonePages(z) == FirstPage(MemoryMap[z]) .. LastPage(MemoryMap[z]) - 1
Pages == UNION {ZonePages(z) : z \in ZoneIds}

\* The zone after z in page_alloc_zones; the list's head comes after the last.
NextZone(z) == Min({y \in ZoneIds : z < y} \cup {Len(MemoryMap) + 1})

\* page_alloc_zone_find(): the first zone with the page.
ZoneOf(p) == Min({z \in ZoneIds : p \in ZonePages(z)})

\* Page 0 stands for failure in page_alloc() and is never freed.
FirstFreed(i) == IF FirstPage(FreeRanges[i]) = 0 THEN 1 ELSE FirstPage(FreeRanges[i])
FreedPages(i) == FirstFreed(i) .. LastPage(FreeRanges[i]) - 1
Managed == UNION {FreedPages(i) : i \in DOMAIN FreeRanges}

RangeStart(i) == [range |-> i,
                  page |-> IF i \in DOMAIN FreeRanges THEN FirstFreed(i) ELSE 0]

\* The flags are not cleared at boot: memset() is given zone->end - zone->end.
PageInit ==
    /\ order = [z \in ZoneIds |-> [k \in Orders |-> <<>>]]
    /\ isfree \in SUBSET BootFree
    /\ ord = [p \in Pages |-> 0]
    /\ boot = RangeStart(1)
    /\ busy = {}
    /\ scan = [t \in Caller |-> <<>>]

Booting == boot.range \in DOMAIN FreeRanges

\* The order of the block __page_alloc_zone_free() starts at page p of a range.
BootOrder(p, end) ==
    Min({k \in Orders : k = MAX_ORDER \/ Bit(p, k) = 1 \/ p + BlockPages[k + 1] > end})

\* One round of __page_alloc_zone_free().
BootBlock ==
    /\ Booting
    /\ boot.page < LastPage(FreeRanges[boot.range])
    /\ LET k == BootOrder(boot.page, LastPage(FreeRanges[boot.range]))
       IN  /\ order' = [order EXCEPT ![ZoneOf(boot.page)][k] = Append(@, boot.page)]
           /\ isfree' = isfree \cup {boot.page}
           /\ ord' = [ord EXCEPT ![boot.page] = k]
           /\ boot' = [boot EXCEPT !.page = @ + BlockPages[k]]
    /\ UNCHANGED <<busy, scan>>

\* page_alloc_setup() goes on to the next free range.
BootRange ==
    /\ Booting
    /\ boot.page >= LastPage(FreeRanges[boot.range])
    /\ boot' = RangeStart(boot.range + 1)
    /\ UNCHANGED <<order, isfree, ord, busy, scan>>

-----------------------------------------------------------------------------
(* Allocation *)

\* idx ^ (1 << k)
Buddy(idx, k) == IF Bit(idx, k) = 0 THEN idx + BlockPages[k] ELSE idx - BlockPages[k]

\* The orders from k on whose list in zone z has a block.
Available(z, k) == {j \in k .. MAX_ORDER : order[z][j] # <<>>}

\* A block of order `from` becomes one of order k and a free buddy per order
\* between them.
Split(z, page, from, k) ==
    LET halves == k .. from - 1
    IN  /\ order' = [order EXCEPT ![z] = [j \in Orders |->
                       IF j = from THEN Tail(@[j])
                       ELSE IF j \in halves THEN <<Buddy(page, j)>> \o @[j]
                       ELSE @[j]]]
        /\ isfree' = (isfree \ {page}) \cup {Buddy(page, j) : j \in halves}
        /\ ord' = [p \in Pages |-> IF \E j \in halves : Buddy(page, j) = p
                                 THEN CHOOSE j \in halves : Buddy(page, j) = p
                                 ELSE ord[p]]

\* __page_alloc(): a caller asks for a block of order k and starts to walk.
PageAlloc(t, k) ==
    /\ ~ Booting
    /\ scan[t] = <<>>
    /\ scan' = [scan EXCEPT ![t] = <<k, NextZone(0)>>]
    /\ UNCHANGED <<order, isfree, ord, boot, busy>>

\* page_alloc_zone() on the zone the walk has reached.
AllocZone(t) ==
    /\ scan[t] # <<>>
    /\ LET k == scan[t][1]
           z == scan[t][2]
       IN  /\ z \in ZoneIds
           /\ Available(z, k) # {}
           /\ LET from == Min(Available(z, k))
                  page == Head(order[z][from])
              IN  /\ Split(z, page, from, k)
                  /\ busy' = busy \cup {<<page, k>>}
           /\ scan' = [scan EXCEPT ![t] = <<>>]
    /\ UNCHANGED boot

\* Nothing there: on to the next zone, or back with 0 after the last.
SkipZone(t) ==
    /\ scan[t] # <<>>
    /\ LET k == scan[t][1]
           z == scan[t][2]
       IN  /\ z \in ZoneIds => Available(z, k) = {}
           /\ scan' = [scan EXCEPT ![t] = IF z \in ZoneIds THEN <<k, NextZone(z)>> ELSE <<>>]
    /\ UNCHANGED <<order, isfree, ord, boot, busy>>

-----------------------------------------------------------------------------
(* Freeing *)

\* Wrong: the block keeps its own head when its buddy is the lower (mutant).
FloorSame(idx, k) == idx

\* Where the block of order k around idx begins: merging keeps the lower half.
Floor(idx, k) == idx - (idx % BlockPages[k])

\* Wrong: the order of the buddy is not compared (mutant).
MergesAny(z, idx, k) ==
    LET b == Buddy(Floor(idx, k), k)
    IN  k < MAX_ORDER /\ b \in ZonePages(z) /\ b \in isfree

\* Wrong: merging stops one order early (mutant).
MergesEarly(z, idx, k) ==
    LET b == Buddy(Floor(idx, k), k)
    IN  k + 1 < MAX_ORDER /\ b \in ZonePages(z) /\ b \in isfree /\ ord[b] = k

\* The test of __page_free_zone() before it merges at order k.
Merges(z, idx, k) ==
    LET b == Buddy(Floor(idx, k), k)
    IN  k < MAX_ORDER /\ b \in ZonePages(z) /\ b \in isfree /\ ord[b] = k

\* __page_free_zone(); BUG_ON(idx & ((1 << k) - 1)) is the caller's contract.
\* A buddy merged away keeps its FREE flag unless it becomes the block's head.
FreeZone(z, idx, k) ==
    LET top == Min({j \in k .. MAX_ORDER : ~ Merges(z, idx, j)})
        head == Floor(idx, top)
    IN  /\ order' = [order EXCEPT ![z] = [j \in Orders |->
                       IF j = top THEN <<head>> \o @[j]
                       ELSE IF j \in k .. top - 1
                            THEN RemoveFirst(@[j], Buddy(Floor(idx, j), j))
                       ELSE @[j]]]
        /\ isfree' = isfree \cup {head}
        /\ ord' = [ord EXCEPT ![head] = top]

\* page_free() and __page_free() of a block that was allocated.
PageFree(b) ==
    /\ b \in busy
    /\ busy' = busy \ {b}
    /\ FreeZone(ZoneOf(b[1]), b[1], b[2])
    /\ UNCHANGED <<boot, scan>>

PageNext ==
    \/ BootBlock
    \/ BootRange
    \/ \E t \in Caller :
         (\E k \in Orders : PageAlloc(t, k)) \/ AllocZone(t) \/ SkipZone(t)
    \/ \E b \in busy : PageFree(b)

PageSpec == PageInit /\ [][PageNext]_pageVars

-----------------------------------------------------------------------------
(* Properties *)

Extent(p, k) == p .. p + BlockPages[k] - 1

\* The free blocks, and all blocks, as <<page, order>> pairs.
FreeBlocks == UNION {ToSet(order[z][k]) \X {k} : z \in ZoneIds, k \in Orders}

\* Lists hold pages of their own zone, and orders are within bounds.
PageTypeOK ==
    /\ \A z \in ZoneIds, k \in Orders : order[z][k] \in Seq(ZonePages(z))
    /\ isfree \subseteq Pages
    /\ ord \in [Pages -> Orders]
    /\ busy \subseteq Pages \X Orders
    /\ boot \in [range : 1 .. Len(FreeRanges) + 1, page : Nat]
    /\ \A t \in Caller : scan[t] = <<>> \/ scan[t] \in Orders \X (ZoneIds \cup {Len(MemoryMap) + 1})

(***************************************************************************)
(* No page is in two blocks, free or allocated: what page_alloc() returns  *)
(* belongs to one caller (memory.c:233-263 and 318-349).                   *)
(***************************************************************************)
BlocksDisjoint ==
    /\ PageTypeOK
    /\ \A b, c \in FreeBlocks \cup busy :
         b # c => Extent(b[1], b[2]) \cap Extent(c[1], c[2]) = {}
    /\ FreeBlocks \cap busy = {}
    /\ \A z \in ZoneIds, k \in Orders : IsInjective(order[z][k])

(***************************************************************************)
(* Nothing leaks and nothing is added: the blocks together are the pages   *)
(* page_alloc_setup() took from free_ranges, whatever was split and merged *)
(* since.  Reserved memory, which "won't be in the free ranges tree"       *)
(* (balloc.c:196-197), is never part of a block.                           *)
(***************************************************************************)
PagesConserved ==
    ~ Booting => UNION {Extent(b[1], b[2]) : b \in FreeBlocks \cup busy} = Managed

(***************************************************************************)
(* Merging is complete: no two free blocks are buddies, so a request fails *)
(* only if no free block is large enough in any way of cutting memory.     *)
(* What __page_free_zone() reads of a buddy is true where it matters: the  *)
(* FREE flag with order k on a page that could be merged at order k means  *)
(* that the page heads a free block on list k (memory.c:333 and 341; a     *)
(* page merged into another keeps a stale flag).                           *)
(***************************************************************************)
FullyMerged ==
    /\ \A b \in FreeBlocks :
         b[2] < MAX_ORDER => <<Buddy(b[1], b[2]), b[2]>> \notin FreeBlocks
    /\ \A b \in busy : \A j \in b[2] .. MAX_ORDER - 1 :
         LET p == Buddy(Floor(b[1], j), j)
         IN  p \in ZonePages(ZoneOf(b[1])) /\ p \in isfree /\ ord[p] = j
               => <<p, j>> \in FreeBlocks
=============================================================================
