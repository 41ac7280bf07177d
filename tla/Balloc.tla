------------------------------- MODULE Balloc -------------------------------
(***************************************************************************)
(* The bootstrap allocator of balloc.c: two ordered sets of address ranges *)
(* built from the boot loader's memory map, and first-fit allocation from  *)
(* the one that holds what is free.                                        *)
(*                                                                         *)
(* A red-black tree is the sequence of its nodes in order.  Addresses      *)
(* count units of 8 bytes, the smallest alignment balloc_alloc() uses.     *)
(* Nothing runs concurrently at this stage of boot; the steps are those of *)
(* balloc_parse_mmap(), one range at a time, so that every prefix of the   *)
(* memory map is looked at.                                                *)
(***************************************************************************)
EXTENDS Integers, Sequences, FiniteSets, SequencesExt

CONSTANTS MemoryMaps,   \* memory maps the boot loader may pass
          Kernel,       \* the range of the kernel image
          Module,       \* the range of the initramfs module
          RANGES,       \* BALLOC_MAX_RANGES, the nodes there are
          Requests,     \* <<size, from, to>> of the calls of balloc_alloc()
          MaxBusy       \* bound: ranges allocated at once

\* An address range: begin, and the first address after it.
Extent == [begin : Nat, end : Nat]
Span(from, to) == [begin |-> from, end |-> to]

\* No range is empty or reversed, and nobody asks for nothing.
ASSUME BallocAssumption ==
    /\ RANGES \in Nat /\ MaxBusy \in Nat
    /\ Kernel \in Extent /\ Kernel.begin < Kernel.end
    /\ Module \in Extent /\ Module.begin < Module.end
    /\ \A m \in MemoryMaps :
         /\ m \in Seq([begin : Nat, end : Nat, type : Nat])
         /\ \A i \in 1 .. Len(m) : m[i].begin < m[i].end
    /\ Requests \subseteq (Nat \ {0}) \X Nat \X Nat

VARIABLES mmap,          \* the entries of the boot loader
          stage,         \* what balloc_parse_mmap() does next, and where it is
          memory_map,    \* all memory, as ranges in order
          free_ranges,   \* free memory, as ranges in order
          spare,         \* length of balloc_free_list
          busy,          \* ranges balloc_alloc() has returned
          halted         \* a BUG_ON was hit

ballocVars == <<mmap, stage, memory_map, free_ranges, spare, busy, halted>>

BallocInit ==
    /\ mmap \in MemoryMaps
    /\ stage = <<"add", 1>>
    /\ memory_map = <<>>
    /\ free_ranges = <<>>
    /\ spare = RANGES
    /\ busy = {}
    /\ halted = FALSE

-----------------------------------------------------------------------------
(* The trees.  s is a tree with the nodes left to link into it. *)

\* The first range of a tree that begins at x or later, and the first that
\* ends after x; one past the last if there is none.
FirstFrom(tree, x) ==
    Min({i \in 1 .. Len(tree) + 1 : i = Len(tree) + 1 \/ tree[i].begin >= x})
FirstBeyond(tree, x) ==
    Min({i \in 1 .. Len(tree) + 1 : i = Len(tree) + 1 \/ tree[i].end > x})

\* Wrong: a range that ends where the new one begins is not joined (mutant).
JoinsPrevOverlap(tree, k, from) == k > 0 /\ tree[k].end > from

\* The k-th range reaches the new one; the next one begins within its reach.
JoinsPrev(tree, k, from) == k > 0 /\ tree[k].end >= from
JoinsNext(tree, k, reach) == k < Len(tree) /\ tree[k + 1].begin <= reach

\* The range is put in place of those after the a-th and before the b-th.
Splice(tree, a, b, r) == SubSeq(tree, 1, a) \o <<r>> \o SubSeq(tree, b, Len(tree))

\* __balloc_add_range(): linked between the ranges that begin before it and
\* the others, then joined with its neighbours, one on each side.  When the
\* next range is joined the new one ends where that one ends.
AddRange(s, from, to) ==
    LET tree == s.tree
        k == FirstFrom(tree, from) - 1
        prev == JoinsPrev(tree, k, from)
        begin == IF prev THEN tree[k].begin ELSE from
        reach == IF prev /\ tree[k].end > to THEN tree[k].end ELSE to
        next == JoinsNext(tree, k, reach)
        end == IF next THEN tree[k + 1].end ELSE reach
    IN  [tree |-> Splice(tree, IF prev THEN k - 1 ELSE k, IF next THEN k + 2 ELSE k + 1,
                         Span(begin, end)),
         spare |-> s.spare - 1 + (IF prev THEN 1 ELSE 0) + (IF next THEN 1 ELSE 0),
         bug |-> s.bug \/ s.spare = 0]

\* The ranges a search from `from` to `to` visits, in order.
Visited(tree, from, to) == SubSeq(tree, FirstBeyond(tree, from), FirstFrom(tree, to) - 1)

\* rb_erase() of a range, and balloc_free_node() of a node.
Erased(s, r) == [tree |-> RemoveFirst(s.tree, r), spare |-> s.spare, bug |-> s.bug]
NodeBack(s) == [tree |-> s.tree, spare |-> s.spare + 1, bug |-> s.bug]

\* Wrong: what r has beyond `to` is dropped (mutant).
CutOutTail(s, r, from, to) ==
    NodeBack(IF r.begin < from THEN AddRange(Erased(s, r), r.begin, from) ELSE Erased(s, r))

\* r is unlinked, what it has outside from .. to is linked again, and its
\* node is given back.
CutOut(s, r, from, to) ==
    LET left == IF r.begin < from THEN AddRange(Erased(s, r), r.begin, from) ELSE Erased(s, r)
        right == IF r.end > to THEN AddRange(left, to, r.end) ELSE left
    IN  NodeBack(right)

\* __balloc_remove_range(); `next` is read before the tree is changed.
RemoveRange(s, from, to) ==
    LET visited == Visited(s.tree, from, to)
        round[k \in 0 .. Len(visited)] ==
          IF k = 0 THEN s ELSE CutOut(round[k - 1], visited[k], from, to)
    IN  round[Len(visited)]

Tree(t) == [tree |-> t, spare |-> spare, bug |-> FALSE]

\* free_ranges becomes what an operation made of it.
FreeRangesBecome(s) == free_ranges' = s.tree /\ spare' = s.spare

\* BUG_ON of balloc_alloc_node(): the kernel stops.
Halt ==
    /\ halted' = TRUE
    /\ UNCHANGED <<mmap, stage, memory_map, free_ranges, spare, busy>>

-----------------------------------------------------------------------------
(* balloc_parse_mmap() *)

\* A range goes into both trees.
AddedBoth(r) ==
    LET all == AddRange(Tree(memory_map), r.begin, r.end)
        some == AddRange([tree |-> free_ranges, spare |-> all.spare, bug |-> all.bug],
                         r.begin, r.end)
    IN  [all |-> all.tree, some |-> some]

\* Wrong: a reserved entry is taken out when it is met, in one pass (mutant).
AddEntrySinglePass ==
    /\ ~ halted /\ stage[1] = "add"
    /\ LET more == stage[2] \in DOMAIN mmap
           r == IF more THEN mmap[stage[2]] ELSE Kernel
           t == AddedBoth(r)
       IN  IF ~ more \/ r.type = 1
           THEN /\ memory_map' = t.all /\ FreeRangesBecome(t.some)
                /\ stage' = IF more THEN <<"add", stage[2] + 1>> ELSE <<"remove", Len(mmap) + 1>>
           ELSE /\ FreeRangesBecome(RemoveRange(Tree(free_ranges), r.begin, r.end))
                /\ stage' = <<"add", stage[2] + 1>>
                /\ UNCHANGED memory_map
    /\ UNCHANGED <<mmap, busy, halted>>

\* All entries, whatever their type, and then the kernel.
AddEntry ==
    /\ ~ halted /\ stage[1] = "add"
    /\ LET more == stage[2] \in 1 .. Len(mmap)
           r == IF more THEN mmap[stage[2]] ELSE Kernel
           t == AddedBoth(r)
       IN  IF t.some.bug THEN Halt
           ELSE /\ memory_map' = t.all
                /\ FreeRangesBecome(t.some)
                /\ stage' = IF more THEN <<"add", stage[2] + 1>> ELSE <<"remove", 1>>
                /\ UNCHANGED <<mmap, busy, halted>>

\* Entries that are not of type 1, the initramfs and the kernel are taken out.
RemoveEntry ==
    /\ ~ halted /\ stage[1] = "remove"
    /\ LET i == stage[2]
           r == IF i \in 1 .. Len(mmap) THEN mmap[i]
                ELSE IF i = Len(mmap) + 1 THEN Module ELSE Kernel
           t == IF i \in 1 .. Len(mmap) /\ mmap[i].type = 1 THEN Tree(free_ranges)
                ELSE RemoveRange(Tree(free_ranges), r.begin, r.end)
       IN  IF t.bug THEN Halt
           ELSE /\ FreeRangesBecome(t)
                /\ stage' = IF i < Len(mmap) + 2 THEN <<"remove", i + 1>> ELSE <<"ready", 0>>
                /\ UNCHANGED <<mmap, memory_map, busy, halted>>

-----------------------------------------------------------------------------
(* Allocation *)

\* The alignment balloc_alloc() chooses, in units: 8, 16, 32 or 64 bytes.
Align(size) == Min({a \in {1, 2, 4, 8} : size <= a \/ a = 8})

AlignUp(addr, align) == ((addr + align - 1) \div align) * align

\* Where a block fits in r, and the ranges in which one does.
Place(r, req) == AlignUp(Max({r.begin, req[2]}), Align(req[1]))
Fits(r, req) == Place(r, req) + req[1] <= Min({r.end, req[3]})

\* The first visited range with room: its place among them, or 0.
FindRoom(req) ==
    SelectInSeq(Visited(free_ranges, req[2], req[3]), LAMBDA r : Fits(r, req))

\* __balloc_alloc(); with no room it returns `to` and changes nothing.
BallocAlloc(req) ==
    /\ ~ halted /\ stage[1] = "ready"
    /\ FindRoom(req) # 0
    /\ LET r == Visited(free_ranges, req[2], req[3])[FindRoom(req)]
           addr == Place(r, req)
           t == CutOut(Tree(free_ranges), r, addr, addr + req[1])
       IN  IF t.bug THEN Halt
           ELSE /\ FreeRangesBecome(t)
                /\ busy' = busy \cup {Span(addr, addr + req[1])}
                /\ UNCHANGED <<mmap, stage, memory_map, halted>>

\* balloc_free() of what was allocated.
BallocFree(r) ==
    /\ ~ halted
    /\ LET t == AddRange(Tree(free_ranges), r.begin, r.end)
       IN  IF t.bug THEN Halt
           ELSE /\ FreeRangesBecome(t)
                /\ busy' = busy \ {r}
                /\ UNCHANGED <<mmap, stage, memory_map, halted>>

BallocNext ==
    \/ AddEntry \/ RemoveEntry
    \/ \E req \in Requests :
         /\ Cardinality(busy) < MaxBusy
         /\ BallocAlloc(req)
    \/ \E r \in busy : BallocFree(r)

BallocSpec == BallocInit /\ [][BallocNext]_ballocVars

-----------------------------------------------------------------------------
(* Properties *)

Bytes(r) == r.begin .. r.end - 1
BytesOf(tree) == UNION {Bytes(tree[i]) : i \in DOMAIN tree}
BytesIn(set) == UNION {Bytes(r) : r \in set}

\* What must never be handed out.
Reserved ==
    BytesIn({mmap[i] : i \in {j \in DOMAIN mmap : mmap[j].type # 1}})
        \cup Bytes(Module) \cup Bytes(Kernel)

\* No range of either tree or of a caller is empty or reversed.
BallocTypeOK ==
    /\ stage \in {"add", "remove"} \X (1 .. Len(mmap) + 2) \cup {<<"ready", 0>>}
    /\ \A r \in ToSet(memory_map) \cup ToSet(free_ranges) \cup busy :
         r.begin \in Nat /\ r.end \in Nat /\ r.begin < r.end
    /\ spare \in 0 .. RANGES
    /\ halted \in BOOLEAN

(***************************************************************************)
(* The ranges of a tree are not empty, in order and a gap apart, whatever  *)
(* the memory map says.  __balloc_remove_range() relies on it: the node it *)
(* reads as `next` (balloc.c:108) must not be freed by the calls of        *)
(* __balloc_add_range() that follow, and its search needs ends in order.   *)
(* Every node is in a tree or on balloc_free_list: none leaks, so that     *)
(* BALLOC_MAX_RANGES bounds the ranges there are and not the calls made.   *)
(***************************************************************************)
RangesApart ==
    /\ BallocTypeOK
    /\ \A tree \in {memory_map, free_ranges} : \A i \in 1 .. Len(tree) - 1 :
         tree[i].end < tree[i + 1].begin
    /\ spare = RANGES - Len(memory_map) - Len(free_ranges)

(***************************************************************************)
(* "all regions that marked reserved in the memory map won't be in the     *)
(* free ranges tree" (balloc.c:196-197), nor the kernel nor the initramfs, *)
(* even if entries overlap, and none of it is ever allocated.              *)
(***************************************************************************)
ReservedNotFree ==
    stage[1] = "ready" => (BytesOf(free_ranges) \cup BytesIn(busy)) \cap Reserved = {}

EntriesApart ==
    \A i, j \in DOMAIN mmap : i # j => Bytes(mmap[i]) \cap Bytes(mmap[j]) = {}

(***************************************************************************)
(* Memory is never handed out twice.  If no entries of the memory map      *)
(* overlap none is lost either: what is allocated and what is free are     *)
(* together all memory of the map that is not reserved.  (An entry that    *)
(* covers a later one entirely loses what it has beyond it, balloc.c:84.)  *)
(***************************************************************************)
FreeMemoryExact ==
    stage[1] = "ready" =>
        /\ \A r \in busy : Bytes(r) \cap BytesOf(free_ranges) = {}
        /\ \A r, q \in busy : r # q => Bytes(r) \cap Bytes(q) = {}
        /\ EntriesApart => BytesOf(free_ranges) \cup BytesIn(busy)
                             = BytesIn({mmap[i] : i \in DOMAIN mmap}) \ Reserved

-----------------------------------------------------------------------------
(* The inductive invariant. *)

\* A tree: no range is empty, and each ends before those after it begin.
Ordered(tree) ==
    /\ tree \in Seq(Extent)
    /\ \A i \in 1 .. Len(tree) : tree[i].begin < tree[i].end
    /\ \A i, j \in 1 .. Len(tree) : i < j => tree[i].end < tree[j].begin

\* The memory of the first n entries, and the part of it that is reserved.
Listed(n) == BytesIn({mmap[i] : i \in 1 .. n})
Withheld(n) == BytesIn({mmap[i] : i \in {j \in 1 .. n : mmap[j].type # 1}})

\* What the first n removals took out.
Removed(n) ==
    Withheld(IF n < Len(mmap) THEN n ELSE Len(mmap))
        \cup (IF n > Len(mmap) THEN Bytes(Module) ELSE {})

\* While entries are added: they are all free.
Adding ==
    /\ stage[2] \in 1 .. Len(mmap) + 1
    /\ busy = {}
    /\ EntriesApart => BytesOf(free_ranges) = Listed(stage[2] - 1)

\* While they are removed: what was is not free, and the rest still is.  The
\* kernel is free until it is removed, whether or not an entry lists it.
Removing ==
    /\ stage[2] \in 1 .. Len(mmap) + 2
    /\ busy = {}
    /\ BytesOf(free_ranges) \cap Removed(stage[2] - 1) = {}
    /\ EntriesApart =>
         /\ Listed(Len(mmap)) \ Removed(stage[2] - 1) \subseteq BytesOf(free_ranges)
         /\ BytesOf(free_ranges) \subseteq Listed(Len(mmap)) \cup Bytes(Kernel)

\* Every node is on a tree or spare.
NodesConserved ==
    /\ spare \in Nat
    /\ spare = RANGES - Len(memory_map) - Len(free_ranges)

BallocInv ==
    /\ mmap \in MemoryMaps
    /\ halted \in BOOLEAN
    /\ Ordered(memory_map) /\ Ordered(free_ranges)
    /\ NodesConserved
    /\ \A r \in busy : r \in Extent /\ r.begin < r.end
    /\ \/ stage[1] = "add" /\ stage = <<"add", stage[2]>> /\ Adding
       \/ stage[1] = "remove" /\ stage = <<"remove", stage[2]>> /\ Removing
       \/ stage = <<"ready", 0>> /\ ReservedNotFree /\ FreeMemoryExact
=============================================================================
