----------------------------- MODULE SlabLayout -----------------------------
(***************************************************************************)
(* How mem_cache_setup() of alloc.c lays a pool out: objects from its      *)
(* start, the pool's own description and bitmask at its end.  The numbers  *)
(* are those of the x86-64 build, in bytes.  Slab states the properties.   *)
(***************************************************************************)
EXTENDS Integers, FiniteSetsExt

CONSTANTS Size,     \* sizes asked for
          Alignment \* alignments asked for

ASSUME LayoutAssumption == Size \subseteq Nat \ {0} /\ Alignment \subseteq Nat \ {0}

PAGE_SHIFT == 12
OBJS_PER_WORD == 64
WORD_SZ == 8
MIN_POOL_OBJS == 8
PoolHeader == 48    \* sizeof(struct mem_pool), one word of the bitmask included
MetaAlign == 8      \* offsetof(struct alignment_off, pool)

ceil(n, d) == (n + d - 1) \div d
align_up(n, a) == a * ceil(n, a)

\* 1 << k
Shl[k \in Nat] == IF k = 0 THEN 1 ELSE 2 * Shl[k - 1]

\* ilog2(): val doubles until it is n or more.
ilog2(n) == Min({power \in 0 .. n : Shl[power] >= n})

ObjSize == {align_up(size, align) : size \in Size, align \in Alignment}

\* Wrong: the bitmask is taken to be one word (mutant).
meta_size_flat(n) == align_up(PoolHeader, MetaAlign)

meta_size(n) == align_up(PoolHeader + (ceil(n, OBJS_PER_WORD) - 1) * WORD_SZ, MetaAlign)

\* The order that MIN_POOL_OBJS objects ask for, in whole pages.
pool_order(size) == ilog2((size * MIN_POOL_OBJS + meta_size(MIN_POOL_OBJS)) \div Shl[PAGE_SHIFT])

pool_size(size) == Shl[pool_order(size) + PAGE_SHIFT]

\* The loop counts down until the objects and the description fit.
obj_count(size) ==
    Max({n \in 0 .. pool_size(size) \div size :
           size * n + meta_size(n) <= pool_size(size)})

\* The rest of what mem_cache_layout_setup() stores in the cache.
Layout(size) ==
    LET n == obj_count(size)
    IN  [obj_count |-> n, meta_offs |-> pool_size(size) - meta_size(n),
         mask_words |-> ceil(n, OBJS_PER_WORD)]

\* The bits of the words from..to-1, as positions in the whole mask.
Bits(from, to) == (OBJS_PER_WORD * from) .. (OBJS_PER_WORD * to - 1)

\* The bits mem_pool_bitmap_setup() sets, for objects the pool has no room for.
mem_pool_bitmap_setup(n, words) ==
    LET word == n \div OBJS_PER_WORD
    IN  Bits(word + 1, words)
        \cup IF n % OBJS_PER_WORD = 0 THEN {} ELSE {b \in Bits(word, word + 1) : b >= n}
=============================================================================
