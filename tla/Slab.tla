-------------------------------- MODULE Slab --------------------------------
(***************************************************************************)
(* The slab allocator of alloc.c: caches of objects of one size cut from   *)
(* blocks of pages, and mem_alloc(), mem_realloc() and mem_free(), which   *)
(* choose a cache by size or take whole pages.                             *)
(*                                                                         *)
(* An operation on a cache holds its spin lock and is one step.  The pools *)
(* mem_cache_shrink() has spliced off are destroyed after it dropped the   *)
(* lock, one step each.  The page allocator (PageAlloc.tla) appears as the *)
(* blocks it has left.  Size classes are numbers: those up to CACHES are   *)
(* served by a cache, the one above by whole pages.                        *)
(***************************************************************************)
EXTENDS SlabLayout, Sequences, SequencesExt

CONSTANTS CACHES,    \* number of caches, MEM_POOLS
          OBJS,      \* cache->obj_count; LayoutFits: it is at least 2
          Pool,      \* blocks the page allocator may hand out
          Thread     \* threads that may shrink or reallocate at the same time

ASSUME SlabAssumption == CACHES \in Nat /\ OBJS \in Nat /\ OBJS > 1

VARIABLES free_pools, partial_pools, busy_pools,   \* the lists of each cache
          bitmask,     \* objects of a pool that are taken
          free,        \* pool->free
          tag,         \* page flags and page->u: the cache, or whole pages
          pages,       \* blocks the page allocator has
          held,        \* pointers callers have
          list,        \* free_slabs of mem_cache_shrink()
          moving,      \* the old pointer of mem_realloc() once it has the new
          released,    \* caches mem_cache_release() was called for
          setup        \* the size mem_cache_setup() lays a cache out for, if it does

slabVars == <<free_pools, partial_pools, busy_pools, bitmask, free, tag, pages,
              held, list, moving, released, setup>>

Cache == 1 .. CACHES
Large == CACHES + 1
NoTag == 0
Slot == 0 .. OBJS - 1

\* class is what was asked for; mem_free() does not know it and reads tag.
Pointer == [pool : Pool, pos : Slot, class : 1 .. Large]

SlabInit ==
    /\ free_pools = [c \in Cache |-> <<>>]
    /\ partial_pools = [c \in Cache |-> <<>>]
    /\ busy_pools = [c \in Cache |-> <<>>]
    /\ bitmask = [p \in Pool |-> {}]
    /\ free = [p \in Pool |-> 0]
    /\ tag = [p \in Pool |-> NoTag]
    /\ pages = Pool
    /\ held = {}
    /\ list = [t \in Thread |-> <<>>]
    /\ moving = [t \in Thread |-> {}]
    /\ released = {}
    /\ \E size \in ObjSize : setup = {size}

-----------------------------------------------------------------------------
(* Allocation *)

\* Wrong: the slot is not marked as taken (mutant).
mem_pool_alloc_unmarked(p, taken, left, class) ==
    LET pos == Min(Slot \ taken)
    IN  /\ bitmask' = [bitmask EXCEPT ![p] = taken]
        /\ free' = [free EXCEPT ![p] = left - 1]
        /\ held' = held \cup {[pool |-> p, pos |-> pos, class |-> class]}

\* mem_pool_alloc(): the first free slot of a pool.
mem_pool_alloc(p, taken, left, class) ==
    LET pos == Min(Slot \ taken)
    IN  /\ bitmask' = [bitmask EXCEPT ![p] = taken \cup {pos}]
        /\ free' = [free EXCEPT ![p] = left - 1]
        /\ held' = held \cup {[pool |-> p, pos |-> pos, class |-> class]}

\* The three ways of __mem_cache_alloc(): a partial pool, a free one, a new one.
AllocPartial(c) ==
    /\ partial_pools[c] # <<>>
    /\ LET p == Head(partial_pools[c])
       IN  /\ mem_pool_alloc(p, bitmask[p], free[p], c)
           /\ IF free[p] = 1
              THEN /\ partial_pools' = [partial_pools EXCEPT ![c] = Tail(@)]
                   /\ busy_pools' = [busy_pools EXCEPT ![c] = <<p>> \o @]
              ELSE UNCHANGED <<partial_pools, busy_pools>>
    /\ UNCHANGED <<free_pools, tag, pages>>

AllocFree(c) ==
    /\ partial_pools[c] = <<>> /\ free_pools[c] # <<>>
    /\ LET p == Head(free_pools[c])
       IN  /\ mem_pool_alloc(p, bitmask[p], free[p], c)
           /\ free_pools' = [free_pools EXCEPT ![c] = Tail(@)]
           /\ partial_pools' = [partial_pools EXCEPT ![c] = <<p>> \o @]
    /\ UNCHANGED <<busy_pools, tag, pages>>

\* Wrong: the pages are not marked as the cache's (mutant).
AllocCreateUntagged(c) ==
    /\ partial_pools[c] = <<>> /\ free_pools[c] = <<>>
    /\ \E p \in pages :
         /\ pages' = pages \ {p}
         /\ mem_pool_alloc(p, {}, OBJS, c)
         /\ partial_pools' = [partial_pools EXCEPT ![c] = <<p>> \o @]
    /\ UNCHANGED <<free_pools, busy_pools, tag>>

AllocCreate(c) ==
    /\ partial_pools[c] = <<>> /\ free_pools[c] = <<>>
    /\ \E p \in pages :
         /\ pages' = pages \ {p}
         /\ tag' = [tag EXCEPT ![p] = c]
         /\ mem_pool_alloc(p, {}, OBJS, c)
         /\ partial_pools' = [partial_pools EXCEPT ![c] = <<p>> \o @]
    /\ UNCHANGED <<free_pools, busy_pools>>

\* mem_alloc() of more than the largest cache has: whole pages.
AllocPages ==
    /\ \E p \in pages :
         /\ pages' = pages \ {p}
         /\ tag' = [tag EXCEPT ![p] = Large]
         /\ held' = held \cup {[pool |-> p, pos |-> 0, class |-> Large]}
    /\ UNCHANGED <<free_pools, partial_pools, busy_pools, bitmask, free>>

\* mem_alloc(); it returns 0 and changes nothing when no pages are left.
mem_alloc(k) ==
    \/ k = Large /\ AllocPages
    \/ k \in Cache \ released /\ (AllocPartial(k) \/ AllocFree(k) \/ AllocCreate(k))

-----------------------------------------------------------------------------
(* Freeing *)

\* Wrong: a pool that was full is not brought back (mutant).
PlaceFreedFull(c, p) ==
    /\ busy_pools' = busy_pools
    /\ partial_pools' = [partial_pools EXCEPT ![c] =
                           IF free[p] + 1 = OBJS THEN RemoveFirst(@, p) ELSE @]
    /\ free_pools' = [free_pools EXCEPT ![c] =
                        IF free[p] + 1 = OBJS THEN <<p>> \o @ ELSE @]

\* The list a pool is on after an object came back: partial if it was full,
\* free if nothing of it is taken any more.
PlaceFreed(c, p) ==
    LET first == free[p] + 1 = 1
        last == free[p] + 1 = OBJS
    IN  /\ busy_pools' = [busy_pools EXCEPT ![c] = IF first THEN RemoveFirst(@, p) ELSE @]
        /\ partial_pools' = [partial_pools EXCEPT ![c] =
                               IF last THEN RemoveFirst(@, p)
                               ELSE IF first THEN <<p>> \o @ ELSE @]
        /\ free_pools' = [free_pools EXCEPT ![c] = IF last THEN <<p>> \o @ ELSE @]

\* mem_free(): the tag of its page says where a pointer goes.
mem_free(ptr) ==
    LET p == ptr.pool
    IN  /\ held' = held \ {ptr}
        /\ \/ /\ tag[p] \in Cache
              /\ bitmask' = [bitmask EXCEPT ![p] = @ \ {ptr.pos}]
              /\ free' = [free EXCEPT ![p] = @ + 1]
              /\ PlaceFreed(tag[p], p)
              /\ UNCHANGED <<tag, pages>>
           \/ /\ tag[p] \notin Cache
              /\ tag' = [tag EXCEPT ![p] = NoTag]
              /\ pages' = pages \cup {p}
              /\ UNCHANGED <<free_pools, partial_pools, busy_pools, bitmask, free>>

-----------------------------------------------------------------------------
(* Operations *)

Idle(t) == list[t] = <<>> /\ moving[t] = {}

MemAlloc(k) == mem_alloc(k) /\ UNCHANGED <<list, moving, released>>

\* A pointer mem_realloc() is about to free is still its caller's alone.
InUse == UNION {moving[t] : t \in Thread}

MemFree(ptr) ==
    /\ ptr \notin InUse
    /\ mem_free(ptr)
    /\ UNCHANGED <<list, moving, released>>

\* mem_realloc() to a larger class: what the tag says is too small.
MemRealloc(t, ptr, k) ==
    /\ Idle(t) /\ ptr \notin InUse
    /\ tag[ptr.pool] < k
    /\ mem_alloc(k)
    /\ moving' = [moving EXCEPT ![t] = {ptr}]
    /\ UNCHANGED <<list, released>>

MemReallocFree(t) ==
    /\ \E ptr \in moving[t] : mem_free(ptr)
    /\ moving' = [moving EXCEPT ![t] = {}]
    /\ UNCHANGED <<list, released>>

\* mem_cache_shrink(): under the lock the free pools move to a local list.
Shrink(t, c) ==
    /\ Idle(t) /\ c \notin released
    /\ list' = [list EXCEPT ![t] = free_pools[c]]
    /\ free_pools' = [free_pools EXCEPT ![c] = <<>>]
    /\ UNCHANGED <<partial_pools, busy_pools, bitmask, free, tag, pages, held,
                   moving, released>>

\* mem_pool_destroy() of the next of them; its BUG_ON is part of ListsExact.
ShrinkDestroy(t) ==
    /\ list[t] # <<>>
    /\ tag' = [tag EXCEPT ![Head(list[t])] = NoTag]
    /\ pages' = pages \cup {Head(list[t])}
    /\ list' = [list EXCEPT ![t] = Tail(@)]
    /\ UNCHANGED <<free_pools, partial_pools, busy_pools, bitmask, free, held,
                   moving, released>>

\* mem_cache_release(), the last use of a cache; all its objects are back.
Release(c) ==
    /\ c \notin released
    /\ \A ptr \in held : ptr.class # c
    /\ tag' = [p \in Pool |-> IF Contains(free_pools[c], p) THEN NoTag ELSE tag[p]]
    /\ pages' = pages \cup ToSet(free_pools[c])
    /\ free_pools' = [free_pools EXCEPT ![c] = <<>>]
    /\ released' = released \cup {c}
    /\ UNCHANGED <<partial_pools, busy_pools, bitmask, free, held, list, moving>>

\* The layout is done; from here on a size is the number of its class, and
\* OBJS stands for the number of objects the layout arrived at.
MemCacheSetup ==
    /\ setup # {}
    /\ setup' = {}
    /\ UNCHANGED <<free_pools, partial_pools, busy_pools, bitmask, free, tag, pages,
                   held, list, moving, released>>

Operation ==
    \/ \E k \in 1 .. Large : MemAlloc(k)
    \/ \E ptr \in held : MemFree(ptr)
    \/ \E t \in Thread :
         \/ \E ptr \in held, k \in 1 .. Large : MemRealloc(t, ptr, k)
         \/ MemReallocFree(t)
         \/ \E c \in Cache : Shrink(t, c)
         \/ ShrinkDestroy(t)
    \/ \E c \in Cache : Release(c)

SlabNext == MemCacheSetup \/ (setup = {} /\ Operation /\ UNCHANGED setup)

SlabSpec == SlabInit /\ [][SlabNext]_slabVars

-----------------------------------------------------------------------------
(* Properties *)

\* The shape of the lists and tables; what mem_realloc() is about to free is
\* still allocated.
SlabTypeOK ==
    /\ \A c \in Cache : /\ free_pools[c] \in Seq(Pool)
                        /\ partial_pools[c] \in Seq(Pool)
                        /\ busy_pools[c] \in Seq(Pool)
    /\ bitmask \in [Pool -> SUBSET Slot]
    /\ free \in [Pool -> 0 .. OBJS]
    /\ tag \in [Pool -> 0 .. Large]
    /\ pages \subseteq Pool
    /\ held \subseteq Pointer
    /\ \A t \in Thread : list[t] \in Seq(Pool) /\ moving[t] \subseteq held
    /\ released \subseteq Cache
    /\ setup \subseteq ObjSize

\* The pools of a cache: those whose pages carry its mark.
PoolsOf(c) == {p \in Pool : tag[p] = c}

\* The slots of a pool that callers hold.
SlotsHeld(p) == {ptr.pos : ptr \in {q \in held : q.pool = p}}

(***************************************************************************)
(* An object is handed out once: the bitmask of a pool marks exactly the   *)
(* slots callers hold, and free counts the others.  So no BUG_ON of        *)
(* mem_pool_alloc() or mem_pool_free() fires (alloc.c:213, 245 and 250).   *)
(***************************************************************************)
ObjectsExact ==
    /\ SlabTypeOK
    /\ \A p \in Pool : tag[p] \in Cache =>
         /\ bitmask[p] = SlotsHeld(p)
         /\ free[p] = OBJS - Cardinality(bitmask[p])

(***************************************************************************)
(* "We split all slabs in three sets: completely free slabs, partially     *)
(* busy slabs, busy slabs" (alloc.h:11-14): every pool of a cache is on    *)
(* the list its count says, or unused and on the list of one thread that   *)
(* shrinks the cache, and on no other.                                     *)
(***************************************************************************)
ListsExact ==
    \A c \in Cache :
        LET all == free_pools[c] \o partial_pools[c] \o busy_pools[c]
        IN  /\ IsInjective(all)
            /\ \A p \in ToSet(free_pools[c]) : free[p] = OBJS
            /\ \A p \in ToSet(partial_pools[c]) : free[p] \in 1 .. OBJS - 1
            /\ \A p \in ToSet(busy_pools[c]) : free[p] = 0
            /\ \A p \in Pool : Contains(all, p) => tag[p] = c
            /\ \A p \in PoolsOf(c) :
                 Contains(all, p) # \E t \in Thread : Contains(list[t], p)
            /\ \A p \in PoolsOf(c), t \in Thread :
                 Contains(list[t], p) => free[p] = OBJS

(***************************************************************************)
(* mem_free() sends every pointer back to where it came from, though it    *)
(* only has the address: the tag of its page is that of the allocation,    *)
(* whatever the page was used for before (alloc.c:400).  And no block is   *)
(* lost: it carries no tag exactly while the page allocator has it.        *)
(***************************************************************************)
TagsRight ==
    /\ \A ptr \in held : tag[ptr.pool] = ptr.class
    /\ \A p \in Pool : p \in pages <=> tag[p] = NoTag

\* The description: list node, page, data and free, then the bitmask.
Description(words) == 40 + WORD_SZ * words

(***************************************************************************)
(* For every size and alignment the objects of a pool end before its       *)
(* description starts, and the description, aligned as the compiler wants  *)
(* it, ends with the pool (alloc.c:71-90).  There are two objects at       *)
(* least, though the number of pages is rounded down (alloc.c:77), as      *)
(* __mem_cache_alloc() needs: a new pool goes to the partial ones after    *)
(* one object was taken from it (alloc.c:288).  Of the bits in the words   *)
(* of a new pool's bitmask just the first obj_count are clear, also where  *)
(* the count is a multiple of the word size: mem_pool_alloc() hands out    *)
(* every object and nothing past them (alloc.c:101).                       *)
(***************************************************************************)
LayoutFits ==
    \A size \in setup :
        LET cache == Layout(size)
        IN  /\ cache.obj_count * size <= cache.meta_offs
            /\ cache.meta_offs + Description(cache.mask_words) <= pool_size(size)
            /\ cache.meta_offs % MetaAlign = 0
            /\ cache.obj_count >= 2
            /\ Bits(0, cache.mask_words)
                 \ mem_pool_bitmap_setup(cache.obj_count, cache.mask_words)
               = 0 .. cache.obj_count - 1

-----------------------------------------------------------------------------
(* The inductive invariant *)

\* The values of the variables; SlabTypeOK follows with MovingHeld.
SlabShape ==
    /\ free_pools \in [Cache -> Seq(Pool)]
    /\ partial_pools \in [Cache -> Seq(Pool)]
    /\ busy_pools \in [Cache -> Seq(Pool)]
    /\ bitmask \in [Pool -> SUBSET Slot]
    /\ free \in [Pool -> 0 .. OBJS]
    /\ tag \in [Pool -> 0 .. Large]
    /\ pages \subseteq Pool
    /\ held \subseteq Pointer
    /\ list \in [Thread -> Seq(Pool)]
    /\ moving \in [Thread -> SUBSET Pointer]
    /\ released \subseteq Cache
    /\ setup \subseteq ObjSize

\* No two threads reallocate the same pointer, and none that was freed.
MovingHeld ==
    /\ \A t \in Thread : moving[t] \subseteq held
    /\ \A t, u \in Thread : t # u => moving[t] \cap moving[u] = {}

\* One pointer to a block of whole pages, so that it is freed once.
HeldTagged ==
    \A ptr \in held : tag[ptr.pool] = ptr.class /\ (ptr.class = Large => ptr.pos = 0)

PagesUntagged == \A p \in Pool : p \in pages <=> tag[p] = NoTag

SlotsMarked ==
    \A p \in Pool : tag[p] \in Cache =>
        /\ bitmask[p] = SlotsHeld(p)
        /\ free[p] = OBJS - Cardinality(bitmask[p])

\* On the list of a thread in mem_cache_shrink(), which dropped the lock.
Spliced(p) == \E t \in Thread : Contains(list[t], p)

SplicedUnused ==
    /\ \A t \in Thread :
         /\ IsInjective(list[t])
         /\ \A p \in Pool : Contains(list[t], p) => tag[p] \in Cache /\ free[p] = OBJS
    /\ \A t, u \in Thread, p \in Pool : Contains(list[t], p) /\ Contains(list[u], p) => t = u

\* What the count of a pool says of the list of cache c it is on.
Placed(c, p) ==
    /\ Contains(free_pools[c], p) => tag[p] = c /\ free[p] = OBJS /\ ~ Spliced(p)
    /\ Contains(partial_pools[c], p) => tag[p] = c /\ free[p] \in 1 .. OBJS - 1
    /\ Contains(busy_pools[c], p) => tag[p] = c /\ free[p] = 0
    /\ tag[p] = c => \/ Contains(free_pools[c], p) \/ Contains(partial_pools[c], p)
                     \/ Contains(busy_pools[c], p) \/ Spliced(p)

CacheLists ==
    \A c \in Cache :
        /\ IsInjective(free_pools[c])
        /\ IsInjective(partial_pools[c])
        /\ IsInjective(busy_pools[c])
        /\ \A p \in Pool : Placed(c, p)

SlabInv ==
    /\ SlabShape
    /\ MovingHeld
    /\ HeldTagged
    /\ PagesUntagged
    /\ SlotsMarked
    /\ SplicedUnused
    /\ CacheLists
=============================================================================
