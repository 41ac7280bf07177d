-------------------------------- MODULE Kmap --------------------------------
(***************************************************************************)
(* kmap() and kunmap() of paging.c: ranges of the kernel's mapping area,   *)
(* kept with boundary tags.  A slot of the area is a page of virtual       *)
(* addresses.  The first and the last slot of a range hold its length, and *)
(* the first one's list node is linked when the range is free.  Both       *)
(* operations hold kmap_lock, so each is one step.                         *)
(*                                                                         *)
(* list_empty() of a node is kept as a flag: list_init() makes it true,    *)
(* list_add() and list_del() make it false (list.c:27-32 leaves null       *)
(* pointers).  Slots inside a range keep what was last stored there.       *)
(***************************************************************************)
EXTENDS Integers, Sequences, FiniteSets, SequencesExt

CONSTANTS KMAP_PAGES,   \* slots of the area
          KMAP_ORDERS,  \* free lists
          Junk          \* what mem_alloc() leaves in a slot that was not set yet

ASSUME KmapAssumption == KMAP_PAGES \in Nat \ {0} /\ KMAP_ORDERS \in Nat \ {0}

VARIABLES pages,             \* range->pages of each slot
          empty,             \* list_empty() of each slot's node
          kmap_free_ranges,  \* the lists, by order
          mapped,            \* slots whose page table entry is present
          held               \* ranges callers have: first slot and length

kmapVars == <<pages, empty, kmap_free_ranges, mapped, held>>

Slot == 0 .. KMAP_PAGES - 1
Order == 0 .. KMAP_ORDERS - 1

\* kmap_order(): the smallest order that covers n pages, KMAP_ORDERS at most.
kmap_order(n) ==
    CHOOSE o \in 0 .. KMAP_ORDERS :
        /\ 2^o >= n \/ o = KMAP_ORDERS
        /\ \A q \in 0 .. o - 1 : 2^q < n

\* What kmap_free_range() and kmap_alloc_range() change, as one value.
State == [pages |-> pages, empty |-> empty, lists |-> kmap_free_ranges]

\* list_del(): the node's own pointers become null, so it is not empty.
list_del(s, r) ==
    [s EXCEPT !.lists = [o \in Order |-> RemoveFirst(s.lists[o], r)], !.empty[r] = FALSE]

SetPages(s, r, n) == [s EXCEPT !.pages = [@ EXCEPT ![r] = n, ![r + n - 1] = n]]

\* The free neighbours the boundary tags of a range lead to.  Tags that lead out
\* of the area are not followed; TagsTruthful says that there are none.
FreeBefore(s, r) ==
    {p \in Slot : r > 0 /\ p = r - s.pages[r - 1] /\ ~s.empty[p]}

FreeAfter(s, r, n) ==
    {q \in Slot : r + n < KMAP_PAGES /\ q = r + n /\ ~s.empty[q]}

\* Wrong: the range after is not joined (mutant).
kmap_free_range_before(s, r, n) ==
    LET before == FreeBefore(s, r)
        first == IF before = {} THEN r ELSE CHOOSE p \in before : TRUE
        s1 == IF before = {} THEN s ELSE list_del(s, first)
        all == n + (IF before = {} THEN 0 ELSE s.pages[first])
        s2 == SetPages(s1, first, all)
    IN  [s2 EXCEPT !.lists[kmap_order(all + 1) - 1] = <<first>> \o @, !.empty[first] = FALSE]

\* kmap_free_range(): the range joins its free neighbours, in front of its list.
kmap_free_range(s, r, n) ==
    LET before == FreeBefore(s, r)
        first == IF before = {} THEN r ELSE CHOOSE p \in before : TRUE
        s1 == IF before = {} THEN s ELSE list_del(s, first)
        joined == n + (IF before = {} THEN 0 ELSE s.pages[first])
        after == FreeAfter(s1, first, joined)
        s2 == IF after = {} THEN s1 ELSE list_del(s1, first + joined)
        all == joined + (IF after = {} THEN 0 ELSE s1.pages[first + joined])
        s3 == SetPages(s2, first, all)
    IN  [s3 EXCEPT !.lists[kmap_order(all + 1) - 1] = <<first>> \o @, !.empty[first] = FALSE]

\* kmap_setup(): one free range; list heads are initialised, slots are not.
KmapInit ==
    /\ \E junk \in [Slot -> Junk], e \in BOOLEAN :
         LET s == kmap_free_range([pages |-> junk, empty |-> [p \in Slot |-> e],
                                   lists |-> [o \in Order |-> <<>>]], 0, KMAP_PAGES)
         IN  pages = s.pages /\ empty = s.empty /\ kmap_free_ranges = s.lists
    /\ mapped = {}
    /\ held = {}

-----------------------------------------------------------------------------
\* kmap_find_free(): the place of the first range of a list that is long
\* enough, or 0.
kmap_find_free(o, n) == SelectInSeq(kmap_free_ranges[o], LAMBDA r : pages[r] >= n)

FirstFit(o, n) == kmap_free_ranges[o][kmap_find_free(o, n)]

\* Wrong: the order below is not searched (mutant).
CandidatesAbove(n) ==
    LET above == {o \in kmap_order(n) .. KMAP_ORDERS - 1 : kmap_find_free(o, n) # 0}
    IN  IF above # {} THEN {FirstFit(Min(above), n)} ELSE {}

\* The first range kmap_alloc_range() finds: from the order that covers n
\* upwards, then in the order below, whose ranges may be long enough too.
Candidates(n) ==
    LET start == kmap_order(n)
        above == {o \in start .. KMAP_ORDERS - 1 : kmap_find_free(o, n) # 0}
    IN  IF above # {} THEN {FirstFit(Min(above), n)}
        ELSE IF 2^start > n /\ kmap_find_free(start - 1, n) # 0
        THEN {FirstFit(start - 1, n)}
        ELSE {}

\* Wrong: the range keeps the length it had (mutant).
TakeUntagged(r, n) ==
    LET s == [list_del(State, r) EXCEPT !.empty[r] = TRUE]
    IN  IF pages[r] > n THEN kmap_free_range(s, r + n, pages[r] - n) ELSE s

\* The range is cut to n pages and the rest goes back.
Take(r, n) ==
    LET s1 == list_del(State, r)
        s2 == SetPages([s1 EXCEPT !.empty[r] = TRUE], r, n)
    IN  IF pages[r] > n THEN kmap_free_range(s2, r + n, pages[r] - n) ELSE s2

\* kmap() of more than one page; fewer need no range.  It returns 0 and
\* changes nothing when there is no candidate.
kmap(n) ==
    /\ n > 1
    /\ \E r \in Candidates(n) :
         LET s == Take(r, n)
         IN  /\ pages' = s.pages /\ empty' = s.empty /\ kmap_free_ranges' = s.lists
             /\ mapped' = mapped \cup (r .. r + n - 1)
             /\ held' = held \cup {<<r, n>>}

\* kunmap(): the length is read from the tag.
kunmap(r) ==
    LET n == pages[r]
        s == kmap_free_range(State, r, n)
    IN  /\ mapped' = mapped \ (r .. r + n - 1)
        /\ pages' = s.pages /\ empty' = s.empty /\ kmap_free_ranges' = s.lists
        /\ held' = {h \in held : h[1] # r}

KmapNext ==
    \/ \E n \in 2 .. KMAP_PAGES : kmap(n)
    \/ \E h \in held : kunmap(h[1])

KmapSpec == KmapInit /\ [][KmapNext]_kmapVars

-----------------------------------------------------------------------------
(* Properties *)

\* Lengths, flags and list members are slots of the area.
KmapTypeOK ==
    /\ pages \in [Slot -> Junk \cup 1 .. KMAP_PAGES]
    /\ empty \in [Slot -> BOOLEAN]
    /\ \A o \in Order : kmap_free_ranges[o] \in Seq(Slot)
    /\ mapped \subseteq Slot
    /\ \A h \in held : h[1] \in Slot /\ h[1] + h[2] <= KMAP_PAGES

FreeRange == UNION {ToSet(kmap_free_ranges[o]) : o \in Order}
Ranges == {<<r, pages[r]>> : r \in FreeRange} \cup held
SlotsOf(range) == range[1] .. range[1] + range[2] - 1

(***************************************************************************)
(* The free ranges and the ranges of callers cut the area into pieces:     *)
(* every slot is in exactly one of them.  No two callers get the same      *)
(* addresses and no address is lost, though kmap_free_range() finds its    *)
(* neighbours only from lengths stored in the array (paging.c:270, 280).   *)
(* Two free ranges never lie side by side, so that after everything is     *)
(* unmapped the whole area is one range again.                             *)
(***************************************************************************)
AreaPartitioned ==
    /\ KmapTypeOK
    /\ UNION {SlotsOf(x) : x \in Ranges} = Slot
    /\ \A x, y \in Ranges : x # y => SlotsOf(x) \cap SlotsOf(y) = {}
    /\ \A o, q \in Order : o # q => ToSet(kmap_free_ranges[o]) \cap ToSet(kmap_free_ranges[q]) = {}
    /\ \A o \in Order : IsInjective(kmap_free_ranges[o])
    /\ \A r, q \in FreeRange : r + pages[r] # q

(***************************************************************************)
(* The tags at both ends of every range tell its length, and the node of   *)
(* its first slot is empty exactly when a caller has it: old contents of   *)
(* slots that became the inside of a range, or never were written, are not *)
(* taken for tags.  So kunmap(), which knows the length only from the tag  *)
(* (paging.c:359), leaves exactly the slots of callers' ranges mapped.     *)
(***************************************************************************)
TagsTruthful ==
    /\ \A x \in Ranges : /\ pages[x[1]] = x[2]
                         /\ pages[x[1] + x[2] - 1] = x[2]
                         /\ empty[x[1]] = (x \in held)
    /\ mapped = UNION {SlotsOf(h) : h \in held}

(***************************************************************************)
(* kmap() of fewer than 2^KMAP_ORDERS pages fails only when no free range  *)
(* has that many pages: the search from kmap_order(pages) upwards and one  *)
(* below misses none (paging.c:297-305).  A free range is filed by the     *)
(* order its length reaches, a request is looked up by the order that      *)
(* covers it.                                                              *)
(***************************************************************************)
SearchComplete ==
    \A n \in 2 .. KMAP_PAGES :
        n < 2^KMAP_ORDERS /\ (\E r \in FreeRange : pages[r] >= n) => Candidates(n) # {}

-----------------------------------------------------------------------------
(* The inductive invariant.  kmap_free_range() works on the array and the  *)
(* lists while a range, the hole, is neither free nor a caller's; its      *)
(* parts are stated for a value s of State, the free ranges F and those    *)
(* of callers U, each by its first slot, and the hole.                     *)

StateSet == [pages : [Slot -> Junk \cup 1 .. KMAP_PAGES],
             empty : [Slot -> BOOLEAN],
             lists : [Order -> Seq(Slot)]]

\* A free range is on one list, once: the one its length leads to.
Filed(s, F) ==
    /\ \A o \in Order : IsInjective(s.lists[o])
    /\ \A o \in Order, r \in Slot :
         Contains(s.lists[o], r) <=> r \in F /\ o = kmap_order(s.pages[r] + 1) - 1

\* Both ends of a range tell its length; what is linked is not empty.
Tagged(s, F, U) ==
    /\ F \subseteq Slot /\ U \subseteq Slot /\ F \cap U = {}
    /\ \A r \in F \cup U :
         /\ s.pages[r] \in 1 .. KMAP_PAGES
         /\ r + s.pages[r] <= KMAP_PAGES
         /\ s.pages[r + s.pages[r] - 1] = s.pages[r]
         /\ s.empty[r] = (r \in U)

\* Ranges do not overlap, and leave no slot out but those of the hole.
Tiled(s, R, hole) ==
    /\ \A r, q \in R : r < q => r + s.pages[r] <= q
    /\ \A x \in Slot : x \in hole <=> \A r \in R : x < r \/ r + s.pages[r] <= x

\* Free ranges are joined: none begins where another ends.
Joined(s, F) == \A r, q \in F : r + s.pages[r] # q

Sound(s, F, U, hole) ==
    /\ s \in StateSet
    /\ Filed(s, F)
    /\ Tagged(s, F, U)
    /\ Tiled(s, F \cup U, hole)
    /\ Joined(s, F)

\* The first slots of callers' ranges.
Used == {h[1] : h \in held}

KmapInv ==
    /\ Sound(State, FreeRange, Used, {})
    /\ held = {<<r, pages[r]>> : r \in Used}
    /\ mapped = {x \in Slot : \E r \in Used : r <= x /\ x < r + pages[r]}
=============================================================================
