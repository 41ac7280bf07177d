----------------------------- MODULE PageTables -----------------------------
(***************************************************************************)
(* The page tables of paging.c.  Addresses, virtual and physical, are page *)
(* numbers; an entry of a table of level l spans FANOUT^(l-1) pages, and   *)
(* virtual addresses wrap around at SPACE, as uintptr_t does.  A table     *)
(* holds the tables below it: no table is reached on two ways.  Where the  *)
(* code hits a BUG_ON, dereferences a missing pool or takes a mapped page  *)
(* for a table, the entry becomes a "bug".                                 *)
(***************************************************************************)
EXTENDS Integers, Sequences, SequencesExt

CONSTANTS FANOUT,          \* PT_ENTRIES
          HIGHER_BASE,     \* where physical memory is mapped
          VIRTUAL_BASE,    \* where the kernel image is mapped, up to the end
          MAX_PMEM_SIZE    \* physical memory that is mapped at most

LEVELS == 4
pml_size(lvl) == FANOUT^(lvl - 1)
SPACE == FANOUT^LEVELS
pml_offs(addr, lvl) == (addr \div pml_size(lvl)) % FANOUT

ASSUME PageTablesAssumption ==
    /\ FANOUT \in Nat \ {0, 1} /\ MAX_PMEM_SIZE \in Nat
    /\ 0 < HIGHER_BASE /\ HIGHER_BASE + MAX_PMEM_SIZE <= VIRTUAL_BASE
    /\ VIRTUAL_BASE < SPACE

\* An entry is absent, a page (large above level 1) or a table.
Absent == [kind |-> "absent", to |-> 0]
Entry(kind, to) == [kind |-> kind, to |-> to]
NoTable == [i \in 0 .. FANOUT - 1 |-> Absent]

-----------------------------------------------------------------------------
\* Wrong: a large page may cover more than was asked for (mutant).
MapsWholeAny(lvl, begin, phys, tomap, flags) ==
    /\ lvl # LEVELS
    /\ begin % pml_size(lvl) = 0 /\ phys % pml_size(lvl) = 0
    /\ lvl = 1 \/ (lvl \in {2, 3} /\ "LARGE" \in flags)

\* `map`: one entry of this level maps the whole piece.
MapsWhole(lvl, begin, phys, tomap, flags) ==
    /\ lvl # LEVELS /\ tomap = pml_size(lvl)
    /\ begin % pml_size(lvl) = 0 /\ phys % pml_size(lvl) = 0
    /\ lvl = 1 \/ (lvl \in {2, 3} /\ "LARGE" \in flags)

\* __pt_map_pages(): the table after begin to end, both included, were mapped
\* in it.  Without a pool no table can be added.
RECURSIVE __pt_map_pages(_, _, _, _, _, _, _)
__pt_map_pages(table, begin, end, phys, flags, lvl, pool) ==
    LET size == pml_size(lvl)
        from == pml_offs(begin, lvl)
        turn(i) ==   \* one turn of the loop
          LET map_begin == IF i = from THEN begin ELSE ((begin \div size) + i - from) * size
              entry_end == ((((map_begin + size) \div size) * size) - 1) % SPACE
              map_end == IF entry_end < end THEN entry_end ELSE end
              at == phys + map_begin - begin
              pte == table[i]
          IN  IF pte.kind = "absent" /\ MapsWhole(lvl, map_begin, at, map_end - map_begin + 1, flags)
              THEN IF "PRESENT" \in flags THEN Entry("page", at) ELSE Absent
              ELSE IF lvl = 1 \/ pte.kind \in {"page", "bug"} \/ (pte.kind = "absent" /\ ~ pool)
              THEN Entry("bug", 0)
              ELSE Entry("table",
                         __pt_map_pages(IF pte.kind = "table" THEN pte.to ELSE NoTable,
                                        map_begin, map_end, at, flags, lvl - 1, pool))
    IN  [i \in 0 .. FANOUT - 1 |->
           IF i \in from .. pml_offs(end, lvl) THEN turn(i) ELSE table[i]]

\* `end` is the first page behind, 0 for the end of the address space.
pt_map_pages(pml4, begin, end, phys, pool) ==
    __pt_map_pages(pml4, begin, (end - 1) % SPACE, phys, {"PRESENT", "LARGE"}, LEVELS, pool)

\* Tables down to the last level, and no page.
pt_populate_pages(pml4, begin, end, pool) ==
    __pt_map_pages(pml4, begin, (end - 1) % SPACE, 0, {}, LEVELS, pool)

\* The tables paging_setup() builds for a machine with `memory` pages.
paging_setup(balloc_memory) ==
    LET mem_size == IF balloc_memory < MAX_PMEM_SIZE THEN balloc_memory ELSE MAX_PMEM_SIZE
        higher == pt_map_pages(NoTable, HIGHER_BASE, HIGHER_BASE + mem_size, 0, TRUE)
    IN  pt_map_pages(higher, VIRTUAL_BASE, 0, 0, TRUE)

\* The loop of __kmap(): page by page, the i-th one from `from` on to frames[i].
MapFrames(pml4, from, frames) ==
    FoldLeft(LAMBDA t, i : pt_map_pages(t, from + i - 1, from + i, frames[i], FALSE),
             pml4, [i \in 1 .. Len(frames) |-> i])

\* The loop of __kunmap(): each entry is looked up without a test and cleared.
RECURSIVE ClearEntry(_, _, _)
ClearEntry(table, addr, lvl) ==
    LET i == pml_offs(addr, lvl)
    IN  [table EXCEPT ![i] =
           IF lvl = 1 THEN Absent ELSE [@ EXCEPT !.to = ClearEntry(@, addr, lvl - 1)]]

UnmapPages(pml4, from, n) ==
    FoldLeft(LAMBDA t, i : ClearEntry(t, from + i - 1, LEVELS), pml4, [i \in 1 .. n |-> i])

-----------------------------------------------------------------------------
\* The page the CPU finds for an address, -1 if there is none, -2 after a BUG.
RECURSIVE Walk(_, _, _)
Walk(table, addr, lvl) ==
    LET pte == table[pml_offs(addr, lvl)]
    IN  CASE pte.kind = "absent" -> -1
          [] pte.kind = "bug" -> -2
          [] pte.kind = "page" -> pte.to + (addr % pml_size(lvl))
          [] pte.kind = "table" -> Walk(pte.to, addr, lvl - 1)

\* The translations of a set of addresses.
Translations(pml4, addrs) ==
    {e \in {<<a, Walk(pml4, a, LEVELS)>> : a \in addrs} : e[2] # -1}
=============================================================================
