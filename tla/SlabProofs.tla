----------------------------- MODULE SlabProofs -----------------------------
(***************************************************************************)
(* Proofs about the slab allocator: its inductive invariant SlabInv, and   *)
(* from it that an object is handed out once, that a pool is on the list   *)
(* its count says, and that every pointer goes back to where it came from. *)
(* They hold for any number of caches, objects, blocks and threads, and    *)
(* for the allocator over list.c as well, whose steps are those of Slab.   *)
(* Then that a pool is laid out right for every size, and, from the        *)
(* invariant LinksInv, that the links list.c stores are those lists.       *)
(***************************************************************************)
EXTENDS SlabLists, QueueTheorems, FiniteSetTheorems

-----------------------------------------------------------------------------
(* Slots *)

\* A member of SlotsHeld() is the place of a pointer somebody has.
LEMMA SlotsHeldMembers ==
    ASSUME NEW p
    PROVE  \A x : x \in SlotsHeld(p) <=> \E q \in held : q.pool = p /\ q.pos = x
BY DEF SlotsHeld

\* The bits of a pool are finite, and while one is clear there is a first one:
\* the loop of mem_pool_alloc() finds it.
LEMMA FirstClearBit ==
    ASSUME NEW taken \in SUBSET Slot
    PROVE  /\ IsFiniteSet(taken)
           /\ Cardinality(taken) \in 0 .. OBJS
           /\ Cardinality(taken) < OBJS => Min(Slot \ taken) \in Slot \ taken
<1> USE SlabAssumption
<1>1. IsFiniteSet(Slot) /\ Cardinality(Slot) = OBJS
  BY FS_Interval DEF Slot
<1>2. IsFiniteSet(taken) /\ Cardinality(taken) <= OBJS
  BY <1>1, FS_Subset
<1>3. Cardinality(taken) \in Nat
  BY <1>2, FS_CardinalityType
<1>4. ASSUME Cardinality(taken) < OBJS PROVE Min(Slot \ taken) \in Slot \ taken
  <2> DEFINE T == Slot \ taken
  <2>1. T # {}
    <3>1. ASSUME T = {} PROVE FALSE
      <4>1. taken = Slot
        BY <3>1
      <4> QED BY <1>1, <1>4, <4>1
    <3> QED BY <3>1
  <2>2. T \subseteq Nat
    BY DEF Slot
  <2> QED BY <2>1, <2>2, LeastOf
<1> QED BY <1>2, <1>3, <1>4

-----------------------------------------------------------------------------
(* Taking and returning one object *)

(***************************************************************************)
(* mem_pool_alloc() from a pool of the cache, or from new pages: the slot  *)
(* it takes was nobody's, it is marked and counted, and the pointer is     *)
(* tagged with the cache it will be returned to.                           *)
(***************************************************************************)
LEMMA TakeObject ==
    ASSUME SlabShape, HeldTagged, SlotsMarked,
           NEW p \in Pool, NEW c \in Cache, NEW taken \in SUBSET Slot, NEW left \in 1 .. OBJS,
           mem_pool_alloc(p, taken, left, c),
           taken = SlotsHeld(p), left = OBJS - Cardinality(taken),
           tag[p] \in {c, NoTag},
           tag' = [tag EXCEPT ![p] = c]
    PROVE  /\ bitmask' \in [Pool -> SUBSET Slot]
           /\ free' = [free EXCEPT ![p] = left - 1]
           /\ free' \in [Pool -> 0 .. OBJS]
           /\ tag' \in [Pool -> 0 .. Large]
           /\ held \subseteq held' /\ held' \subseteq Pointer
           /\ HeldTagged'
           /\ SlotsMarked'
<1> USE SlabAssumption
<1>0. IsFiniteSet(taken) /\ Cardinality(taken) \in 0 .. OBJS
  BY FirstClearBit
<1>1. IsFiniteSet(taken) /\ Cardinality(taken) \in Nat /\ Min(Slot \ taken) \in Slot \ taken
  <2>1. Cardinality(taken) < OBJS
    BY <1>0
  <2> QED BY <1>0, <2>1, FirstClearBit
<1> DEFINE pos == Min(Slot \ taken)
           new == [pool |-> p, pos |-> pos, class |-> c]
<1>2. /\ bitmask' = [bitmask EXCEPT ![p] = taken \cup {pos}]
      /\ free' = [free EXCEPT ![p] = left - 1]
      /\ held' = held \cup {new}
  BY DEF mem_pool_alloc
<1>3. c \in 1 .. Large /\ c # NoTag /\ c # Large
  BY DEF Cache, Large, NoTag
<1>4. pos \in Slot /\ pos \notin taken /\ new \in Pointer
  BY <1>1, <1>3 DEF Pointer
<1> HIDE DEF pos
<1>5. /\ bitmask' \in [Pool -> SUBSET Slot]
      /\ free' \in [Pool -> 0 .. OBJS]
      /\ tag' \in [Pool -> 0 .. Large]
      /\ held \subseteq held' /\ held' \subseteq Pointer
  <2>1. bitmask' \in [Pool -> SUBSET Slot]
    BY <1>2, <1>4 DEF SlabShape
  <2>2. free' \in [Pool -> 0 .. OBJS]
    BY <1>2 DEF SlabShape
  <2>3. tag' \in [Pool -> 0 .. Large]
    BY <1>3 DEF SlabShape
  <2> QED BY <1>2, <1>4, <2>1, <2>2, <2>3 DEF SlabShape
<1>6. HeldTagged'
  <2> SUFFICES ASSUME NEW q \in held'
               PROVE  tag'[q.pool] = q.class /\ (q.class = Large => q.pos = 0)
    BY DEF HeldTagged
  <2>1. CASE q = new
    BY <1>3, <2>1 DEF SlabShape
  <2>2. CASE q \in held
    <3>1. tag[q.pool] = q.class /\ (q.class = Large => q.pos = 0)
      BY <2>2 DEF HeldTagged
    <3>2. q.pool \in Pool /\ q.class # NoTag
      BY <2>2, <1>3 DEF SlabShape, Pointer, NoTag
    <3> QED BY <3>1, <3>2 DEF SlabShape
  <2> QED BY <1>2, <2>1, <2>2
<1>7. SlotsMarked'
  <2> SUFFICES ASSUME NEW r \in Pool, tag'[r] \in Cache
               PROVE  /\ bitmask'[r] = SlotsHeld(r)'
                      /\ free'[r] = OBJS - Cardinality(bitmask'[r])
    BY DEF SlotsMarked
  <2>1. CASE r = p
    <3>1. bitmask'[p] = taken \cup {pos} /\ free'[p] = left - 1
      BY <1>2 DEF SlabShape
    <3>2. Cardinality(taken \cup {pos}) = Cardinality(taken) + 1
      BY <1>1, <1>4, FS_AddElement
    <3>3. free'[p] = OBJS - Cardinality(bitmask'[p])
      BY <1>1, <3>1, <3>2
    <3>4. ASSUME NEW x PROVE x \in bitmask'[p] <=> x \in SlotsHeld(p)'
      <4>1. x \in SlotsHeld(p)' <=> \E q \in held' : q.pool = p /\ q.pos = x
        BY DEF SlotsHeld
      <4>2. x \in taken <=> \E q \in held : q.pool = p /\ q.pos = x
        BY SlotsHeldMembers
      <4>3. new.pool = p /\ new.pos = pos
        OBVIOUS
      <4>4. (\E q \in held' : q.pool = p /\ q.pos = x)
              <=> (\E q \in held : q.pool = p /\ q.pos = x) \/ x = pos
        BY <1>2, <4>3
      <4> QED BY <3>1, <4>1, <4>2, <4>4
    <3> QED BY <2>1, <3>3, <3>4
  <2>2. CASE r # p
    <3>1. bitmask'[r] = bitmask[r] /\ free'[r] = free[r] /\ tag'[r] = tag[r]
      BY <1>2, <2>2 DEF SlabShape
    <3>2. bitmask[r] = SlotsHeld(r) /\ free[r] = OBJS - Cardinality(bitmask[r])
      BY <3>1 DEF SlotsMarked
    <3>3. ASSUME NEW x PROVE x \in SlotsHeld(r) <=> x \in SlotsHeld(r)'
      <4>1. x \in SlotsHeld(r)' <=> \E q \in held' : q.pool = r /\ q.pos = x
        BY DEF SlotsHeld
      <4>2. x \in SlotsHeld(r) <=> \E q \in held : q.pool = r /\ q.pos = x
        BY SlotsHeldMembers
      <4> QED BY <1>2, <2>2, <4>1, <4>2
    <3>4. SlotsHeld(r) = SlotsHeld(r)'
      <4>1. \A x \in SlotsHeld(r) : x \in SlotsHeld(r)'
        BY <3>3
      <4>2. \A x \in SlotsHeld(r)' : x \in SlotsHeld(r)
        BY <3>3
      <4> QED BY <3>3
    <3> QED BY <3>1, <3>2, <3>4
  <2> QED BY <2>1, <2>2
<1> QED BY <1>2, <1>5, <1>6, <1>7

(***************************************************************************)
(* mem_pool_free(): the slot of a pointer somebody has was marked; it      *)
(* becomes free and no other slot of any pool changes.                     *)
(***************************************************************************)
LEMMA ReturnObject ==
    ASSUME SlabShape, HeldTagged, SlotsMarked,
           NEW q \in held, tag[q.pool] \in Cache,
           bitmask' = [bitmask EXCEPT ![q.pool] = @ \ {q.pos}],
           free' = [free EXCEPT ![q.pool] = @ + 1],
           held' = held \ {q},
           tag' = tag
    PROVE  /\ bitmask' \in [Pool -> SUBSET Slot]
           /\ free[q.pool] \in 0 .. OBJS - 1
           /\ free' \in [Pool -> 0 .. OBJS]
           /\ held' \subseteq Pointer
           /\ HeldTagged'
           /\ SlotsMarked'
<1> USE SlabAssumption
<1> DEFINE p == q.pool
<1>1. q \in Pointer /\ p \in Pool /\ q.pos \in Slot
  BY DEF SlabShape, Pointer
<1>2. /\ bitmask[p] = SlotsHeld(p) /\ bitmask[p] \in SUBSET Slot
      /\ free[p] = OBJS - Cardinality(bitmask[p])
  BY <1>1 DEF SlotsMarked, SlabShape
<1>3. q.pos \in bitmask[p]
  BY <1>2, SlotsHeldMembers
<1>4. IsFiniteSet(bitmask[p]) /\ Cardinality(bitmask[p]) \in 0 .. OBJS
  BY <1>2, FirstClearBit
<1>5. Cardinality(bitmask[p]) # 0
  BY <1>3, <1>4, FS_EmptySet
<1>6. Cardinality(bitmask[p] \ {q.pos}) = Cardinality(bitmask[p]) - 1
  BY <1>3, <1>4, FS_RemoveElement
<1>7. free[p] \in 0 .. OBJS - 1
  BY <1>2, <1>4, <1>5
<1>8. free' \in [Pool -> 0 .. OBJS]
  BY <1>1, <1>7 DEF SlabShape
<1>9. bitmask' \in [Pool -> SUBSET Slot] /\ held' \subseteq Pointer
  BY <1>1 DEF SlabShape
<1>10. HeldTagged'
  BY DEF HeldTagged
<1>11. SlotsMarked'
  <2> SUFFICES ASSUME NEW r \in Pool, tag'[r] \in Cache
               PROVE  /\ bitmask'[r] = SlotsHeld(r)'
                      /\ free'[r] = OBJS - Cardinality(bitmask'[r])
    BY DEF SlotsMarked
  <2>0. bitmask[r] = SlotsHeld(r) /\ free[r] = OBJS - Cardinality(bitmask[r])
    BY DEF SlotsMarked
  <2>1. CASE r = p
    <3>1. bitmask'[p] = bitmask[p] \ {q.pos} /\ free'[p] = free[p] + 1
      BY <1>1 DEF SlabShape
    <3>2. free'[p] = OBJS - Cardinality(bitmask'[p])
      <4>1. Cardinality(bitmask'[p]) = Cardinality(bitmask[p]) - 1
        BY <1>6, <3>1
      <4> QED BY <1>2, <1>4, <3>1, <4>1
    <3>3. ASSUME NEW z \in held, z.pool = p, z.pos = q.pos PROVE z = q
      <4>1. z.class = q.class
        BY <3>3 DEF HeldTagged
      <4>2. z \in Pointer
        BY DEF SlabShape
      <4> QED BY <1>1, <3>3, <4>1, <4>2 DEF Pointer
    <3>4. ASSUME NEW x PROVE x \in bitmask'[p] <=> x \in SlotsHeld(p)'
      <4>1. x \in SlotsHeld(p)' <=> \E z \in held' : z.pool = p /\ z.pos = x
        BY DEF SlotsHeld
      <4>2. x \in SlotsHeld(p) <=> \E z \in held : z.pool = p /\ z.pos = x
        BY SlotsHeldMembers
      <4> QED BY <1>2, <3>1, <3>3, <4>1, <4>2
    <3>5. bitmask'[p] = SlotsHeld(p)'
      BY <3>4
    <3> QED BY <2>1, <3>2, <3>5
  <2>2. CASE r # p
    <3>1. bitmask'[r] = bitmask[r] /\ free'[r] = free[r]
      BY <1>1, <2>2 DEF SlabShape
    <3>2. ASSUME NEW x PROVE x \in bitmask[r] <=> x \in SlotsHeld(r)'
      <4>1. x \in SlotsHeld(r)' <=> \E z \in held' : z.pool = r /\ z.pos = x
        BY DEF SlotsHeld
      <4>2. x \in SlotsHeld(r) <=> \E z \in held : z.pool = r /\ z.pos = x
        BY SlotsHeldMembers
      <4> QED BY <2>0, <2>2, <4>1, <4>2
    <3>3. bitmask[r] = SlotsHeld(r)'
      BY <3>2
    <3> QED BY <2>0, <3>1, <3>3
  <2> QED BY <2>1, <2>2
<1> QED BY <1>7, <1>8, <1>9, <1>10, <1>11

-----------------------------------------------------------------------------
(* The operations under a cache's lock *)

\* What mem_alloc() and mem_free() change, and what they must keep.
TablesShape ==
    /\ free_pools \in [Cache -> Seq(Pool)]
    /\ partial_pools \in [Cache -> Seq(Pool)]
    /\ busy_pools \in [Cache -> Seq(Pool)]
    /\ bitmask \in [Pool -> SUBSET Slot]
    /\ free \in [Pool -> 0 .. OBJS]
    /\ tag \in [Pool -> 0 .. Large]
    /\ pages \subseteq Pool
    /\ held \subseteq Pointer

TablesInv ==
    /\ TablesShape
    /\ HeldTagged
    /\ PagesUntagged
    /\ SlotsMarked
    /\ SplicedUnused
    /\ CacheLists

\* Nobody has a pointer into pages without a tag or into an unused pool.
LEMMA NobodyHolds ==
    ASSUME SlabShape, HeldTagged, SlotsMarked, NEW p \in Pool,
           tag[p] = NoTag \/ (tag[p] \in Cache /\ free[p] = OBJS)
    PROVE  /\ \A q \in held : q.pool # p
           /\ SlotsHeld(p) = {}
<1> USE SlabAssumption
<1>1. CASE tag[p] = NoTag
  <2>1. \A q \in held : q.class # NoTag
    BY DEF SlabShape, Pointer, NoTag
  <2>2. \A q \in held : q.pool # p
    BY <1>1, <2>1 DEF HeldTagged
  <2> QED BY <2>2, SlotsHeldMembers
<1>2. CASE tag[p] \in Cache /\ free[p] = OBJS
  <2>1. bitmask[p] = SlotsHeld(p) /\ free[p] = OBJS - Cardinality(bitmask[p])
    BY <1>2 DEF SlotsMarked
  <2>2. IsFiniteSet(bitmask[p]) /\ Cardinality(bitmask[p]) \in 0 .. OBJS
    BY FirstClearBit DEF SlabShape
  <2>3. Cardinality(bitmask[p]) = 0
    BY <1>2, <2>1, <2>2
  <2>4. SlotsHeld(p) = {}
    BY <2>1, <2>2, <2>3, FS_EmptySet
  <2> QED BY <2>4, SlotsHeldMembers
<1> QED BY <1>1, <1>2

\* The members of the lists that do not change.
LEMMA SplicedSame ==
    ASSUME UNCHANGED list
    PROVE  \A p : Spliced(p)' <=> Spliced(p)
BY DEF Spliced

(***************************************************************************)
(* A pool of cache c, or new pages that become one, changes its count: all *)
(* stays right if it ends on the list its new count says and no other pool *)
(* changes lists.                                                          *)
(***************************************************************************)
LEMMA PoolMoves ==
    ASSUME SlabInv, NEW c \in Cache, NEW p \in Pool,
           UNCHANGED list, ~ Spliced(p),
           tag[p] \in {c, NoTag}, tag' = [tag EXCEPT ![p] = c],
           \A r \in Pool : r # p => free'[r] = free[r],
           \A d \in Cache : /\ IsInjective(free_pools'[d])
                            /\ IsInjective(partial_pools'[d])
                            /\ IsInjective(busy_pools'[d]),
           \A d \in Cache, r \in Pool : d # c \/ r # p =>
              /\ Contains(free_pools'[d], r) <=> Contains(free_pools[d], r)
              /\ Contains(partial_pools'[d], r) <=> Contains(partial_pools[d], r)
              /\ Contains(busy_pools'[d], r) <=> Contains(busy_pools[d], r),
           Contains(free_pools'[c], p) <=> free'[p] = OBJS,
           Contains(partial_pools'[c], p) <=> free'[p] \in 1 .. OBJS - 1,
           Contains(busy_pools'[c], p) <=> free'[p] = 0,
           free'[p] \in 0 .. OBJS
    PROVE  SplicedUnused' /\ CacheLists'
<1> USE SlabAssumption
<1> USE DEF SlabInv
<1>1. tag'[p] = c /\ \A r \in Pool : r # p => tag'[r] = tag[r]
  BY DEF SlabShape
<1>2. c # NoTag /\ \A d \in Cache : d # NoTag
  BY DEF Cache, NoTag
<1>3. SplicedUnused'
  <2>1. \A t \in Thread : ~ Contains(list[t], p)
    BY DEF Spliced
  <2> QED BY <1>1, <2>1 DEF SplicedUnused
<1>4. ASSUME NEW d \in Cache, NEW r \in Pool PROVE Placed(d, r)'
  <2>1. Placed(d, r) /\ (Spliced(r)' <=> Spliced(r))
    BY SplicedSame DEF CacheLists
  <2>2. CASE r = p /\ d = c
    <3>1. \/ free'[p] = 0 \/ free'[p] = OBJS \/ free'[p] \in 1 .. OBJS - 1
      OBVIOUS
    <3> QED BY <1>1, <2>1, <2>2, <3>1 DEF Placed
  <2>3. CASE r = p /\ d # c
    BY <1>1, <1>2, <2>1, <2>3 DEF Placed
  <2>4. CASE r # p
    BY <1>1, <2>1, <2>4 DEF Placed
  <2> QED BY <2>2, <2>3, <2>4
<1> QED BY <1>3, <1>4 DEF CacheLists

\* __mem_cache_alloc() from a partial pool, which may become a busy one.
LEMMA AllocPartialInv ==
    ASSUME SlabInv, UNCHANGED list, NEW c \in Cache, AllocPartial(c)
    PROVE  TablesInv' /\ held \subseteq held'
<1> USE SlabAssumption
<1> USE DEF SlabInv
<1> DEFINE p == Head(partial_pools[c])
<1>1. partial_pools[c] \in Seq(Pool) /\ partial_pools[c] # <<>> /\ busy_pools[c] \in Seq(Pool)
  BY DEF SlabShape, AllocPartial
<1>2. /\ p \in Pool
      /\ Tail(partial_pools[c]) \in Seq(Pool)
      /\ Contains(partial_pools[c], p)
      /\ \A y : Contains(partial_pools[c], y) <=> Contains(Tail(partial_pools[c]), y) \/ y = p
      /\ IsInjective(partial_pools[c]) => IsInjective(Tail(partial_pools[c]))
      /\ IsInjective(partial_pools[c]) => ~ Contains(Tail(partial_pools[c]), p)
  BY <1>1, TailMembers
<1>3. /\ mem_pool_alloc(p, bitmask[p], free[p], c)
      /\ free_pools' = free_pools /\ tag' = tag /\ pages' = pages
      /\ IF free[p] = 1
         THEN /\ partial_pools' = [partial_pools EXCEPT ![c] = Tail(@)]
              /\ busy_pools' = [busy_pools EXCEPT ![c] = <<p>> \o @]
         ELSE partial_pools' = partial_pools /\ busy_pools' = busy_pools
  BY DEF AllocPartial
<1> HIDE DEF p
<1>4. /\ tag[p] = c /\ free[p] \in 1 .. OBJS - 1 /\ ~ Spliced(p)
      /\ ~ Contains(free_pools[c], p) /\ ~ Contains(busy_pools[c], p)
  <2>1. tag[p] = c /\ free[p] \in 1 .. OBJS - 1
    BY <1>2 DEF CacheLists, Placed
  <2>2. ~ Contains(free_pools[c], p) /\ ~ Contains(busy_pools[c], p)
    BY <1>2, <2>1 DEF CacheLists, Placed
  <2>3. \A t \in Thread : Contains(list[t], p) => free[p] = OBJS
    BY <1>2 DEF SplicedUnused
  <2> QED BY <2>1, <2>2, <2>3 DEF Spliced
<1>5. tag' = [tag EXCEPT ![p] = c]
  BY <1>2, <1>3, <1>4 DEF SlabShape
<1>6. /\ bitmask' \in [Pool -> SUBSET Slot]
      /\ free' = [free EXCEPT ![p] = free[p] - 1]
      /\ free' \in [Pool -> 0 .. OBJS]
      /\ tag' \in [Pool -> 0 .. Large]
      /\ held \subseteq held' /\ held' \subseteq Pointer
      /\ HeldTagged'
      /\ SlotsMarked'
  <2>1. bitmask[p] \in SUBSET Slot /\ free[p] \in 1 .. OBJS
    BY <1>2, <1>4 DEF SlabShape
  <2>2. bitmask[p] = SlotsHeld(p) /\ free[p] = OBJS - Cardinality(bitmask[p])
    BY <1>2, <1>4 DEF SlotsMarked
  <2> QED BY <1>2, <1>3, <1>4, <1>5, <2>1, <2>2, TakeObject
<1>7. PagesUntagged'
  BY <1>3 DEF PagesUntagged
<1>8. free'[p] = free[p] - 1 /\ \A r \in Pool : r # p => free'[r] = free[r]
  BY <1>2, <1>6 DEF SlabShape
<1>9. CASE free[p] = 1
  <2>1. /\ <<p>> \o busy_pools[c] \in Seq(Pool)
        /\ \A y : Contains(<<p>> \o busy_pools[c], y) <=> Contains(busy_pools[c], y) \/ y = p
        /\ IsInjective(busy_pools[c]) => IsInjective(<<p>> \o busy_pools[c])
    BY <1>1, <1>2, <1>4, PrependMembers
  <2>2. /\ partial_pools'[c] = Tail(partial_pools[c])
        /\ busy_pools'[c] = <<p>> \o busy_pools[c]
        /\ \A d \in Cache : d # c => /\ partial_pools'[d] = partial_pools[d]
                                     /\ busy_pools'[d] = busy_pools[d]
    BY <1>3, <1>9 DEF SlabShape
  <2>3. TablesShape'
    BY <1>2, <1>3, <1>6, <1>9, <2>1 DEF TablesShape, SlabShape
  <2>4. \A d \in Cache : /\ IsInjective(free_pools'[d])
                         /\ IsInjective(partial_pools'[d])
                         /\ IsInjective(busy_pools'[d])
    BY <1>2, <1>3, <2>1, <2>2 DEF CacheLists
  <2>5. \A d \in Cache, r \in Pool : d # c \/ r # p =>
           /\ Contains(free_pools'[d], r) <=> Contains(free_pools[d], r)
           /\ Contains(partial_pools'[d], r) <=> Contains(partial_pools[d], r)
           /\ Contains(busy_pools'[d], r) <=> Contains(busy_pools[d], r)
    BY <1>2, <1>3, <2>1, <2>2
  <2>6. /\ ~ Contains(free_pools'[c], p) /\ ~ Contains(partial_pools'[c], p)
        /\ Contains(busy_pools'[c], p)
    BY <1>2, <1>3, <1>4, <2>1, <2>2 DEF CacheLists
  <2>7. free'[p] = 0
    BY <1>8, <1>9
  <2>8. /\ Contains(free_pools'[c], p) <=> free'[p] = OBJS
        /\ Contains(partial_pools'[c], p) <=> free'[p] \in 1 .. OBJS - 1
        /\ Contains(busy_pools'[c], p) <=> free'[p] = 0
        /\ free'[p] \in 0 .. OBJS
    BY <2>6, <2>7
  <2>9. SplicedUnused' /\ CacheLists'
    BY <1>2, <1>4, <1>5, <1>8, <2>4, <2>5, <2>8, PoolMoves
  <2> QED BY <1>6, <1>7, <2>3, <2>9 DEF TablesInv
<1>10. CASE free[p] # 1
  <2>1. TablesShape'
    BY <1>3, <1>6, <1>10 DEF TablesShape, SlabShape
  <2>2. free'[p] \in 1 .. OBJS - 1
    BY <1>4, <1>8, <1>10
  <2>3. \A d \in Cache : /\ IsInjective(free_pools'[d])
                         /\ IsInjective(partial_pools'[d])
                         /\ IsInjective(busy_pools'[d])
    BY <1>3, <1>10 DEF CacheLists
  <2>4. \A d \in Cache, r \in Pool :
           /\ Contains(free_pools'[d], r) <=> Contains(free_pools[d], r)
           /\ Contains(partial_pools'[d], r) <=> Contains(partial_pools[d], r)
           /\ Contains(busy_pools'[d], r) <=> Contains(busy_pools[d], r)
    BY <1>3, <1>10
  <2>5. /\ ~ Contains(free_pools'[c], p) /\ ~ Contains(busy_pools'[c], p)
        /\ Contains(partial_pools'[c], p)
    BY <1>2, <1>4, <2>4
  <2>6. /\ Contains(free_pools'[c], p) <=> free'[p] = OBJS
        /\ Contains(partial_pools'[c], p) <=> free'[p] \in 1 .. OBJS - 1
        /\ Contains(busy_pools'[c], p) <=> free'[p] = 0
        /\ free'[p] \in 0 .. OBJS
    BY <2>2, <2>5
  <2>7. SplicedUnused' /\ CacheLists'
    BY <1>2, <1>4, <1>5, <1>8, <2>3, <2>4, <2>6, PoolMoves
  <2> QED BY <1>6, <1>7, <2>1, <2>7 DEF TablesInv
<1> QED BY <1>9, <1>10

\* __mem_cache_alloc() from a free pool: it has two objects at least, so that
\* it becomes a partial one.
LEMMA AllocFreeInv ==
    ASSUME SlabInv, UNCHANGED list, NEW c \in Cache, AllocFree(c)
    PROVE  TablesInv' /\ held \subseteq held'
<1> USE SlabAssumption
<1> USE DEF SlabInv
<1> DEFINE p == Head(free_pools[c])
<1>1. free_pools[c] \in Seq(Pool) /\ free_pools[c] # <<>> /\ partial_pools[c] \in Seq(Pool)
  BY DEF SlabShape, AllocFree
<1>2. /\ p \in Pool
      /\ Tail(free_pools[c]) \in Seq(Pool)
      /\ Contains(free_pools[c], p)
      /\ \A y : Contains(free_pools[c], y) <=> Contains(Tail(free_pools[c]), y) \/ y = p
      /\ IsInjective(free_pools[c]) => IsInjective(Tail(free_pools[c]))
      /\ IsInjective(free_pools[c]) => ~ Contains(Tail(free_pools[c]), p)
  BY <1>1, TailMembers
<1>3. /\ mem_pool_alloc(p, bitmask[p], free[p], c)
      /\ busy_pools' = busy_pools /\ tag' = tag /\ pages' = pages
      /\ free_pools' = [free_pools EXCEPT ![c] = Tail(@)]
      /\ partial_pools' = [partial_pools EXCEPT ![c] = <<p>> \o @]
  BY DEF AllocFree
<1> HIDE DEF p
<1>4. /\ tag[p] = c /\ free[p] = OBJS /\ ~ Spliced(p)
      /\ ~ Contains(partial_pools[c], p) /\ ~ Contains(busy_pools[c], p)
  BY <1>2 DEF CacheLists, Placed
<1>5. tag' = [tag EXCEPT ![p] = c]
  BY <1>2, <1>3, <1>4 DEF SlabShape
<1>6. /\ bitmask' \in [Pool -> SUBSET Slot]
      /\ free' = [free EXCEPT ![p] = free[p] - 1]
      /\ free' \in [Pool -> 0 .. OBJS]
      /\ tag' \in [Pool -> 0 .. Large]
      /\ held \subseteq held' /\ held' \subseteq Pointer
      /\ HeldTagged'
      /\ SlotsMarked'
  <2>1. bitmask[p] \in SUBSET Slot /\ free[p] \in 1 .. OBJS
    BY <1>2, <1>4 DEF SlabShape
  <2>2. bitmask[p] = SlotsHeld(p) /\ free[p] = OBJS - Cardinality(bitmask[p])
    BY <1>2, <1>4 DEF SlotsMarked
  <2> QED BY <1>2, <1>3, <1>4, <1>5, <2>1, <2>2, TakeObject
<1>7. PagesUntagged'
  BY <1>3 DEF PagesUntagged
<1>8. free'[p] = OBJS - 1 /\ \A r \in Pool : r # p => free'[r] = free[r]
  BY <1>2, <1>4, <1>6 DEF SlabShape
<1>9. /\ <<p>> \o partial_pools[c] \in Seq(Pool)
      /\ \A y : Contains(<<p>> \o partial_pools[c], y) <=> Contains(partial_pools[c], y) \/ y = p
      /\ IsInjective(partial_pools[c]) => IsInjective(<<p>> \o partial_pools[c])
  BY <1>1, <1>2, <1>4, PrependMembers
<1>10. /\ free_pools'[c] = Tail(free_pools[c])
       /\ partial_pools'[c] = <<p>> \o partial_pools[c]
       /\ \A d \in Cache : d # c => /\ partial_pools'[d] = partial_pools[d]
                                    /\ free_pools'[d] = free_pools[d]
  BY <1>3 DEF SlabShape
<1>11. TablesShape'
  BY <1>2, <1>3, <1>6, <1>9 DEF TablesShape, SlabShape
<1>12. \A d \in Cache : /\ IsInjective(free_pools'[d])
                         /\ IsInjective(partial_pools'[d])
                         /\ IsInjective(busy_pools'[d])
  BY <1>2, <1>3, <1>9, <1>10 DEF CacheLists
<1>13. \A d \in Cache, r \in Pool : d # c \/ r # p =>
           /\ Contains(free_pools'[d], r) <=> Contains(free_pools[d], r)
           /\ Contains(partial_pools'[d], r) <=> Contains(partial_pools[d], r)
           /\ Contains(busy_pools'[d], r) <=> Contains(busy_pools[d], r)
  BY <1>2, <1>3, <1>9, <1>10
<1>14. /\ Contains(free_pools'[c], p) <=> free'[p] = OBJS
       /\ Contains(partial_pools'[c], p) <=> free'[p] \in 1 .. OBJS - 1
       /\ Contains(busy_pools'[c], p) <=> free'[p] = 0
       /\ free'[p] \in 0 .. OBJS
  <2>1. ~ Contains(free_pools'[c], p) /\ ~ Contains(busy_pools'[c], p)
    BY <1>2, <1>3, <1>4, <1>10 DEF CacheLists
  <2>2. Contains(partial_pools'[c], p)
    BY <1>9, <1>10
  <2> QED BY <1>8, <2>1, <2>2
<1>15. SplicedUnused' /\ CacheLists'
  BY <1>2, <1>4, <1>5, <1>8, <1>12, <1>13, <1>14, PoolMoves
<1> QED BY <1>6, <1>7, <1>11, <1>15 DEF TablesInv

\* __mem_cache_alloc() from new pages.
LEMMA AllocCreateInv ==
    ASSUME SlabInv, UNCHANGED list, NEW c \in Cache, AllocCreate(c)
    PROVE  TablesInv' /\ held \subseteq held'
<1> USE SlabAssumption
<1> USE DEF SlabInv
<1>1. PICK p \in pages :
        /\ pages' = pages \ {p}
        /\ tag' = [tag EXCEPT ![p] = c]
        /\ mem_pool_alloc(p, {}, OBJS, c)
        /\ partial_pools' = [partial_pools EXCEPT ![c] = <<p>> \o @]
        /\ free_pools' = free_pools /\ busy_pools' = busy_pools
  BY DEF AllocCreate
<1>2. p \in Pool /\ tag[p] = NoTag /\ \A d \in Cache : d # NoTag
  BY DEF PagesUntagged, SlabShape, Cache, NoTag
<1>3. /\ ~ Contains(partial_pools[c], p) /\ ~ Contains(busy_pools[c], p)
      /\ ~ Contains(free_pools[c], p) /\ ~ Spliced(p)
  <2>1. \A t \in Thread : ~ Contains(list[t], p)
    BY <1>2 DEF SplicedUnused
  <2> QED BY <1>2, <2>1 DEF CacheLists, Placed, Spliced
<1>4. /\ bitmask' \in [Pool -> SUBSET Slot]
      /\ free' = [free EXCEPT ![p] = OBJS - 1]
      /\ free' \in [Pool -> 0 .. OBJS]
      /\ tag' \in [Pool -> 0 .. Large]
      /\ held \subseteq held' /\ held' \subseteq Pointer
      /\ HeldTagged'
      /\ SlotsMarked'
  <2>1. {} = SlotsHeld(p)
    BY <1>2, NobodyHolds
  <2>2. {} \in SUBSET Slot /\ OBJS \in 1 .. OBJS /\ OBJS = OBJS - Cardinality({})
    BY FS_EmptySet
  <2> QED BY <1>1, <1>2, <2>1, <2>2, TakeObject
<1>5. free'[p] = OBJS - 1 /\ \A r \in Pool : r # p => free'[r] = free[r]
  BY <1>2, <1>4 DEF SlabShape
<1>6. PagesUntagged'
  <2>1. tag'[p] = c /\ \A r \in Pool : r # p => tag'[r] = tag[r]
    BY <1>1, <1>2 DEF SlabShape
  <2> QED BY <1>1, <1>2, <2>1 DEF PagesUntagged
<1>7. /\ <<p>> \o partial_pools[c] \in Seq(Pool)
      /\ \A y : Contains(<<p>> \o partial_pools[c], y) <=> Contains(partial_pools[c], y) \/ y = p
      /\ IsInjective(partial_pools[c]) => IsInjective(<<p>> \o partial_pools[c])
  <2>1. partial_pools[c] \in Seq(Pool)
    BY DEF SlabShape
  <2> QED BY <1>2, <1>3, <2>1, PrependMembers
<1>8. /\ partial_pools'[c] = <<p>> \o partial_pools[c]
      /\ \A d \in Cache : d # c => partial_pools'[d] = partial_pools[d]
  BY <1>1 DEF SlabShape
<1>9. TablesShape'
  BY <1>1, <1>4, <1>7 DEF TablesShape, SlabShape
<1>10. \A d \in Cache : /\ IsInjective(free_pools'[d])
                         /\ IsInjective(partial_pools'[d])
                         /\ IsInjective(busy_pools'[d])
  BY <1>1, <1>7, <1>8 DEF CacheLists
<1>11. \A d \in Cache, r \in Pool : d # c \/ r # p =>
           /\ Contains(free_pools'[d], r) <=> Contains(free_pools[d], r)
           /\ Contains(partial_pools'[d], r) <=> Contains(partial_pools[d], r)
           /\ Contains(busy_pools'[d], r) <=> Contains(busy_pools[d], r)
  BY <1>1, <1>7, <1>8
<1>12. /\ Contains(free_pools'[c], p) <=> free'[p] = OBJS
       /\ Contains(partial_pools'[c], p) <=> free'[p] \in 1 .. OBJS - 1
       /\ Contains(busy_pools'[c], p) <=> free'[p] = 0
       /\ free'[p] \in 0 .. OBJS
  <2>1. ~ Contains(free_pools'[c], p) /\ ~ Contains(busy_pools'[c], p)
    BY <1>1, <1>3
  <2>2. Contains(partial_pools'[c], p)
    BY <1>7, <1>8
  <2> QED BY <1>5, <2>1, <2>2
<1>13. SplicedUnused' /\ CacheLists'
  BY <1>1, <1>2, <1>3, <1>5, <1>10, <1>11, <1>12, PoolMoves
<1> QED BY <1>4, <1>6, <1>9, <1>13 DEF TablesInv

\* The slots of pools no pointer of which came or went.
LEMMA SlotsHeldSame ==
    ASSUME NEW p, NEW q, q.pool # p,
           held' = held \cup {q} \/ held' = held \ {q}
    PROVE  SlotsHeld(p)' = SlotsHeld(p)
<1>1. {z \in held : z.pool = p}' = {z \in held : z.pool = p}
  OBVIOUS
<1> QED BY <1>1 DEF SlotsHeld

(***************************************************************************)
(* Pages that are nobody's become a block of whole pages, or such a block  *)
(* goes back: the pools of caches are not touched.                         *)
(***************************************************************************)
LEMMA OtherPools ==
    ASSUME SlabInv, UNCHANGED list, NEW p \in Pool,
           UNCHANGED <<free_pools, partial_pools, busy_pools, bitmask, free>>,
           NEW q, q.pool = p, held' = held \cup {q} \/ held' = held \ {q},
           tag[p] \notin Cache, tag' \in [Pool -> 0 .. Large], tag'[p] \notin Cache,
           \A r \in Pool : r # p => tag'[r] = tag[r]
    PROVE  SlotsMarked' /\ SplicedUnused' /\ CacheLists'
<1> USE DEF SlabInv
<1>1. SlotsMarked'
  <2> SUFFICES ASSUME NEW r \in Pool, tag'[r] \in Cache
               PROVE  /\ bitmask'[r] = SlotsHeld(r)'
                      /\ free'[r] = OBJS - Cardinality(bitmask'[r])
    BY DEF SlotsMarked
  <2>1. q.pool # r /\ tag[r] \in Cache
    OBVIOUS
  <2>2. SlotsHeld(r)' = SlotsHeld(r)
    BY <2>1, SlotsHeldSame
  <2> QED BY <2>1, <2>2 DEF SlotsMarked
<1>2. SplicedUnused'
  BY DEF SplicedUnused
<1>3. ASSUME NEW d \in Cache, NEW r \in Pool PROVE Placed(d, r)'
  <2>1. Placed(d, r) /\ (Spliced(r)' <=> Spliced(r))
    BY SplicedSame DEF CacheLists
  <2> QED BY <2>1 DEF Placed
<1>4. CacheLists'
  BY <1>3 DEF CacheLists
<1> QED BY <1>1, <1>2, <1>4

\* mem_alloc() of whole pages.
LEMMA AllocPagesInv ==
    ASSUME SlabInv, UNCHANGED list, AllocPages
    PROVE  TablesInv' /\ held \subseteq held'
<1> USE SlabAssumption
<1> USE DEF SlabInv
<1>1. PICK p \in pages :
        /\ pages' = pages \ {p}
        /\ tag' = [tag EXCEPT ![p] = Large]
        /\ held' = held \cup {[pool |-> p, pos |-> 0, class |-> Large]}
  BY DEF AllocPages
<1>2. UNCHANGED <<free_pools, partial_pools, busy_pools, bitmask, free>>
  BY DEF AllocPages
<1> DEFINE new == [pool |-> p, pos |-> 0, class |-> Large]
<1>3. /\ p \in Pool /\ tag[p] = NoTag /\ NoTag \notin Cache
      /\ Large \notin Cache /\ Large # NoTag /\ Large \in 1 .. Large /\ 0 \in Slot
  BY DEF PagesUntagged, SlabShape, Cache, NoTag, Large, Slot
<1>4. tag' \in [Pool -> 0 .. Large] /\ tag'[p] = Large /\ \A r \in Pool : r # p => tag'[r] = tag[r]
  BY <1>1, <1>3 DEF SlabShape
<1>5. TablesShape' /\ held \subseteq held'
  <2>1. new \in Pointer
    BY <1>3 DEF Pointer
  <2> QED BY <1>1, <1>2, <1>4, <2>1 DEF SlabShape, TablesShape
<1>6. HeldTagged'
  <2>1. \A q \in held : q.pool # p
    BY <1>3, NobodyHolds
  <2>2. \A q \in held : q.pool \in Pool
    BY DEF SlabShape, Pointer
  <2>3. new.pool = p /\ new.pos = 0 /\ new.class = Large
    OBVIOUS
  <2>4. ASSUME NEW q \in held
        PROVE  tag'[q.pool] = q.class /\ (q.class = Large => q.pos = 0)
    BY <1>4, <2>1, <2>2 DEF HeldTagged
  <2> QED BY <1>1, <1>4, <2>3, <2>4 DEF HeldTagged
<1>7. PagesUntagged'
  BY <1>1, <1>3, <1>4 DEF PagesUntagged
<1>8. SlotsMarked' /\ SplicedUnused' /\ CacheLists'
  <2>1. new.pool = p
    OBVIOUS
  <2> HIDE DEF new
  <2>2. held' = held \cup {new}
    BY <1>1 DEF new
  <2> QED BY <1>2, <1>3, <1>4, <2>1, <2>2, OtherPools
<1> QED BY <1>5, <1>6, <1>7, <1>8 DEF TablesInv

\* mem_alloc() in each of its ways.
LEMMA AllocInv ==
    ASSUME SlabInv, UNCHANGED list, NEW k \in 1 .. Large, mem_alloc(k)
    PROVE  TablesInv' /\ held \subseteq held'
<1>1. CASE AllocPages
  BY <1>1, AllocPagesInv
<1>2. CASE k \in Cache /\ AllocPartial(k)
  BY <1>2, AllocPartialInv
<1>3. CASE k \in Cache /\ AllocFree(k)
  BY <1>3, AllocFreeInv
<1>4. CASE k \in Cache /\ AllocCreate(k)
  BY <1>4, AllocCreateInv
<1> QED BY <1>1, <1>2, <1>3, <1>4 DEF mem_alloc

\* __mem_cache_free(): the pool goes to the list its new count says.
LEMMA FreeObjectInv ==
    ASSUME SlabInv, UNCHANGED list, NEW q \in held, mem_free(q), tag[q.pool] \in Cache
    PROVE  TablesInv'
<1> USE SlabAssumption
<1> USE DEF SlabInv
<1>0. PICK p \in Pool, c \in Cache : p = q.pool /\ c = tag[p]
  BY DEF SlabShape, Pointer
<1>1. /\ held' = held \ {q}
      /\ bitmask' = [bitmask EXCEPT ![p] = @ \ {q.pos}]
      /\ free' = [free EXCEPT ![p] = @ + 1]
      /\ PlaceFreed(c, p)
      /\ tag' = tag /\ pages' = pages
  BY <1>0 DEF mem_free
<1>2. /\ bitmask' \in [Pool -> SUBSET Slot]
      /\ free[p] \in 0 .. OBJS - 1
      /\ free' \in [Pool -> 0 .. OBJS]
      /\ held' \subseteq Pointer
      /\ HeldTagged'
      /\ SlotsMarked'
  BY <1>0, <1>1, ReturnObject
<1>3. PagesUntagged'
  BY <1>1 DEF PagesUntagged
<1>4. free'[p] = free[p] + 1 /\ \A r \in Pool : r # p => free'[r] = free[r]
  BY <1>1 DEF SlabShape
<1>5. tag[p] \in {c, NoTag} /\ tag' = [tag EXCEPT ![p] = c] /\ tag' \in [Pool -> 0 .. Large]
  BY <1>0, <1>1 DEF SlabShape
<1>6. ~ Spliced(p)
  <2>1. \A t \in Thread : Contains(list[t], p) => free[p] = OBJS
    BY DEF SplicedUnused
  <2> QED BY <1>2, <2>1 DEF Spliced
<1>7. /\ Contains(busy_pools[c], p) <=> free[p] = 0
      /\ Contains(partial_pools[c], p) <=> free[p] # 0
      /\ ~ Contains(free_pools[c], p)
  <2>1. Placed(c, p)
    BY DEF CacheLists
  <2> QED BY <1>0, <1>2, <1>6, <2>1 DEF Placed
<1>8. /\ free_pools[c] \in Seq(Pool) /\ partial_pools[c] \in Seq(Pool)
      /\ busy_pools[c] \in Seq(Pool)
      /\ IsInjective(free_pools[c]) /\ IsInjective(partial_pools[c])
      /\ IsInjective(busy_pools[c])
  BY DEF SlabShape, CacheLists
<1>9. CASE free[p] = 0
  <2>0. free[p] + 1 = 1 /\ free[p] + 1 # OBJS
    BY <1>9
  <2>1. /\ busy_pools' = [busy_pools EXCEPT ![c] = RemoveFirst(@, p)]
        /\ partial_pools' = [partial_pools EXCEPT ![c] = <<p>> \o @]
        /\ free_pools' = [free_pools EXCEPT ![c] = @]
    BY <1>1, <2>0 DEF PlaceFreed
  <2>2. /\ RemoveFirst(busy_pools[c], p) \in Seq(Pool)
        /\ \A y : Contains(RemoveFirst(busy_pools[c], p), y) <=> Contains(busy_pools[c], y) /\ y # p
        /\ IsInjective(RemoveFirst(busy_pools[c], p))
    BY <1>7, <1>8, <1>9, RemoveMembers
  <2>3. /\ <<p>> \o partial_pools[c] \in Seq(Pool)
        /\ \A y : Contains(<<p>> \o partial_pools[c], y) <=> Contains(partial_pools[c], y) \/ y = p
        /\ IsInjective(<<p>> \o partial_pools[c])
    BY <1>7, <1>8, <1>9, PrependMembers
  <2>4. /\ busy_pools'[c] = RemoveFirst(busy_pools[c], p)
        /\ partial_pools'[c] = <<p>> \o partial_pools[c]
        /\ free_pools' = free_pools
        /\ \A d \in Cache : d # c => /\ partial_pools'[d] = partial_pools[d]
                                     /\ busy_pools'[d] = busy_pools[d]
    BY <2>1 DEF SlabShape
  <2>5. TablesShape'
    BY <1>1, <1>2, <1>5, <2>1, <2>2, <2>3 DEF TablesShape, SlabShape
  <2>6. \A d \in Cache : /\ IsInjective(free_pools'[d])
                         /\ IsInjective(partial_pools'[d])
                         /\ IsInjective(busy_pools'[d])
    BY <2>2, <2>3, <2>4 DEF CacheLists
  <2>7. \A d \in Cache, r \in Pool : d # c \/ r # p =>
           /\ Contains(free_pools'[d], r) <=> Contains(free_pools[d], r)
           /\ Contains(partial_pools'[d], r) <=> Contains(partial_pools[d], r)
           /\ Contains(busy_pools'[d], r) <=> Contains(busy_pools[d], r)
    BY <2>2, <2>3, <2>4
  <2>8. /\ Contains(free_pools'[c], p) <=> free'[p] = OBJS
        /\ Contains(partial_pools'[c], p) <=> free'[p] \in 1 .. OBJS - 1
        /\ Contains(busy_pools'[c], p) <=> free'[p] = 0
        /\ free'[p] \in 0 .. OBJS
    <3>1. /\ ~ Contains(free_pools'[c], p) /\ Contains(partial_pools'[c], p)
          /\ ~ Contains(busy_pools'[c], p)
      BY <1>7, <2>2, <2>3, <2>4
    <3> QED BY <1>4, <1>9, <3>1
  <2>9. SplicedUnused' /\ CacheLists'
    BY <1>4, <1>5, <1>6, <2>6, <2>7, <2>8, PoolMoves
  <2> QED BY <1>2, <1>3, <2>5, <2>9 DEF TablesInv
<1>10. CASE free[p] + 1 = OBJS
  <2>0. free[p] + 1 # 1
    BY <1>10
  <2>1. /\ busy_pools' = [busy_pools EXCEPT ![c] = @]
        /\ partial_pools' = [partial_pools EXCEPT ![c] = RemoveFirst(@, p)]
        /\ free_pools' = [free_pools EXCEPT ![c] = <<p>> \o @]
    BY <1>1, <1>10, <2>0 DEF PlaceFreed
  <2>2. /\ RemoveFirst(partial_pools[c], p) \in Seq(Pool)
        /\ \A y : Contains(RemoveFirst(partial_pools[c], p), y)
                    <=> Contains(partial_pools[c], y) /\ y # p
        /\ IsInjective(RemoveFirst(partial_pools[c], p))
    BY <1>7, <1>8, <1>10, RemoveMembers
  <2>3. /\ <<p>> \o free_pools[c] \in Seq(Pool)
        /\ \A y : Contains(<<p>> \o free_pools[c], y) <=> Contains(free_pools[c], y) \/ y = p
        /\ IsInjective(<<p>> \o free_pools[c])
    BY <1>7, <1>8, PrependMembers
  <2>4. /\ partial_pools'[c] = RemoveFirst(partial_pools[c], p)
        /\ free_pools'[c] = <<p>> \o free_pools[c]
        /\ busy_pools' = busy_pools
        /\ \A d \in Cache : d # c => /\ partial_pools'[d] = partial_pools[d]
                                     /\ free_pools'[d] = free_pools[d]
    BY <2>1 DEF SlabShape
  <2>5. TablesShape'
    BY <1>1, <1>2, <1>5, <2>1, <2>2, <2>3 DEF TablesShape, SlabShape
  <2>6. \A d \in Cache : /\ IsInjective(free_pools'[d])
                         /\ IsInjective(partial_pools'[d])
                         /\ IsInjective(busy_pools'[d])
    BY <2>2, <2>3, <2>4 DEF CacheLists
  <2>7. \A d \in Cache, r \in Pool : d # c \/ r # p =>
           /\ Contains(free_pools'[d], r) <=> Contains(free_pools[d], r)
           /\ Contains(partial_pools'[d], r) <=> Contains(partial_pools[d], r)
           /\ Contains(busy_pools'[d], r) <=> Contains(busy_pools[d], r)
    BY <2>2, <2>3, <2>4
  <2>8. /\ Contains(free_pools'[c], p) <=> free'[p] = OBJS
        /\ Contains(partial_pools'[c], p) <=> free'[p] \in 1 .. OBJS - 1
        /\ Contains(busy_pools'[c], p) <=> free'[p] = 0
        /\ free'[p] \in 0 .. OBJS
    <3>1. /\ Contains(free_pools'[c], p) /\ ~ Contains(partial_pools'[c], p)
          /\ ~ Contains(busy_pools'[c], p)
      BY <1>7, <1>10, <2>2, <2>3, <2>4
    <3> QED BY <1>4, <1>10, <3>1
  <2>9. SplicedUnused' /\ CacheLists'
    BY <1>4, <1>5, <1>6, <2>6, <2>7, <2>8, PoolMoves
  <2> QED BY <1>2, <1>3, <2>5, <2>9 DEF TablesInv
<1>11. CASE free[p] # 0 /\ free[p] + 1 # OBJS
  <2>0. free[p] + 1 # 1
    BY <1>2, <1>11
  <2>1. /\ busy_pools' = [busy_pools EXCEPT ![c] = @]
        /\ partial_pools' = [partial_pools EXCEPT ![c] = @]
        /\ free_pools' = [free_pools EXCEPT ![c] = @]
    BY <1>1, <1>11, <2>0 DEF PlaceFreed
  <2>2. busy_pools' = busy_pools /\ partial_pools' = partial_pools /\ free_pools' = free_pools
    BY <2>1 DEF SlabShape
  <2>5. TablesShape'
    BY <1>1, <1>2, <1>5, <2>2 DEF TablesShape, SlabShape
  <2>6. \A d \in Cache : /\ IsInjective(free_pools'[d])
                         /\ IsInjective(partial_pools'[d])
                         /\ IsInjective(busy_pools'[d])
    BY <2>2 DEF CacheLists
  <2>7. \A d \in Cache, r \in Pool : d # c \/ r # p =>
           /\ Contains(free_pools'[d], r) <=> Contains(free_pools[d], r)
           /\ Contains(partial_pools'[d], r) <=> Contains(partial_pools[d], r)
           /\ Contains(busy_pools'[d], r) <=> Contains(busy_pools[d], r)
    BY <2>2
  <2>8. /\ Contains(free_pools'[c], p) <=> free'[p] = OBJS
        /\ Contains(partial_pools'[c], p) <=> free'[p] \in 1 .. OBJS - 1
        /\ Contains(busy_pools'[c], p) <=> free'[p] = 0
        /\ free'[p] \in 0 .. OBJS
    BY <1>2, <1>4, <1>7, <1>11, <2>2
  <2>9. SplicedUnused' /\ CacheLists'
    BY <1>4, <1>5, <1>6, <2>6, <2>7, <2>8, PoolMoves
  <2> QED BY <1>2, <1>3, <2>5, <2>9 DEF TablesInv
<1> QED BY <1>9, <1>10, <1>11

\* mem_free() of whole pages.
LEMMA FreePagesInv ==
    ASSUME SlabInv, UNCHANGED list, NEW q \in held, mem_free(q), tag[q.pool] \notin Cache
    PROVE  TablesInv'
<1> USE SlabAssumption
<1> USE DEF SlabInv
<1> SUFFICES ASSUME NEW p \in Pool, p = q.pool PROVE TablesInv'
  BY DEF SlabShape, Pointer
<1>1. /\ held' = held \ {q}
      /\ tag' = [tag EXCEPT ![p] = NoTag]
      /\ pages' = pages \cup {p}
      /\ UNCHANGED <<free_pools, partial_pools, busy_pools, bitmask, free>>
  BY DEF mem_free
<1>2. NoTag \notin Cache /\ NoTag \in 0 .. Large
  BY DEF Cache, NoTag, Large
<1>3. tag' \in [Pool -> 0 .. Large] /\ tag'[p] = NoTag /\ \A r \in Pool : r # p => tag'[r] = tag[r]
  BY <1>1, <1>2 DEF SlabShape
<1>4. TablesShape'
  BY <1>1, <1>3 DEF SlabShape, TablesShape
<1>5. ASSUME NEW z \in held, z.pool = p PROVE z = q
  <2>1. z \in Pointer /\ q \in Pointer /\ z.class = q.class /\ q.class \notin Cache
    BY <1>5 DEF HeldTagged, SlabShape
  <2>2. q.class = Large
    BY <2>1 DEF Pointer, Cache, Large
  <2>3. z.pos = q.pos
    BY <2>1, <2>2 DEF HeldTagged
  <2> QED BY <1>5, <2>1, <2>3 DEF Pointer
<1>6. HeldTagged'
  <2>1. \A z \in held' : z \in held /\ z.pool \in Pool /\ z.pool # p
    BY <1>1, <1>5 DEF SlabShape, Pointer
  <2> QED BY <1>3, <2>1 DEF HeldTagged
<1>7. PagesUntagged'
  BY <1>1, <1>3 DEF PagesUntagged
<1>8. SlotsMarked' /\ SplicedUnused' /\ CacheLists'
  <2>1. tag[p] \notin Cache /\ tag'[p] \notin Cache
    BY <1>2, <1>3
  <2> QED BY <1>1, <1>3, <2>1, OtherPools
<1> QED BY <1>4, <1>6, <1>7, <1>8 DEF TablesInv

\* mem_free() in each of its ways.
LEMMA FreeInv ==
    ASSUME SlabInv, UNCHANGED list, NEW q \in held, mem_free(q)
    PROVE  TablesInv' /\ held' = held \ {q}
BY FreeObjectInv, FreePagesInv DEF mem_free

-----------------------------------------------------------------------------
(* mem_cache_shrink() and mem_cache_release() *)

\* A thread without a list takes the free pools of a cache off.
LEMMA ShrinkInv ==
    ASSUME SlabInv, NEW t \in Thread, NEW c \in Cache, Shrink(t, c)
    PROVE  TablesInv'
<1> USE SlabAssumption
<1> USE DEF SlabInv
<1>1. /\ list[t] = <<>>
      /\ list' = [list EXCEPT ![t] = free_pools[c]]
      /\ free_pools' = [free_pools EXCEPT ![c] = <<>>]
      /\ UNCHANGED <<partial_pools, busy_pools, bitmask, free, tag, pages, held>>
  BY DEF Shrink, Idle
<1>2. /\ list'[t] = free_pools[c] /\ \A u \in Thread : u # t => list'[u] = list[u]
      /\ free_pools'[c] = <<>> /\ \A d \in Cache : d # c => free_pools'[d] = free_pools[d]
  BY <1>1 DEF SlabShape
<1>3. \A y : ~ Contains(list[t], y) /\ ~ Contains(free_pools'[c], y)
  BY <1>1, <1>2, EmptyMembers
<1>4. IsInjective(free_pools'[c])
  BY <1>2, EmptyMembers
<1>5. TablesShape'
  <2>1. <<>> \in Seq(Pool)
    OBVIOUS
  <2> QED BY <1>1, <2>1 DEF SlabShape, TablesShape
<1>6. HeldTagged' /\ PagesUntagged' /\ SlotsMarked'
  BY <1>1 DEF HeldTagged, PagesUntagged, SlotsMarked, SlotsHeld
<1>7. \A r \in Pool : Spliced(r)' <=> Spliced(r) \/ Contains(free_pools[c], r)
  BY <1>2, <1>3 DEF Spliced
<1>8. SplicedUnused'
  <2>1. ASSUME NEW u \in Thread
        PROVE  /\ IsInjective(list'[u])
               /\ \A r \in Pool : Contains(list'[u], r) => tag'[r] \in Cache /\ free'[r] = OBJS
    <3>1. CASE u = t
      BY <1>1, <1>2, <3>1 DEF CacheLists, Placed
    <3>2. CASE u # t
      BY <1>1, <1>2, <3>2 DEF SplicedUnused
    <3> QED BY <3>1, <3>2
  <2>2. ASSUME NEW u \in Thread, NEW v \in Thread, NEW r \in Pool,
               Contains(list'[u], r), Contains(list'[v], r)
        PROVE  u = v
    <3>1. Contains(free_pools[c], r) => ~ Spliced(r)
      BY DEF CacheLists, Placed
    <3>2. CASE u # t /\ v # t
      BY <1>2, <2>2, <3>2 DEF SplicedUnused
    <3>3. CASE u = t /\ v # t
      BY <1>2, <2>2, <3>1, <3>3 DEF Spliced
    <3>4. CASE u # t /\ v = t
      BY <1>2, <2>2, <3>1, <3>4 DEF Spliced
    <3> QED BY <3>2, <3>3, <3>4
  <2> QED BY <2>1, <2>2 DEF SplicedUnused
<1>9. CacheLists'
  <2>1. ASSUME NEW d \in Cache
        PROVE  /\ IsInjective(free_pools'[d])
               /\ IsInjective(partial_pools'[d])
               /\ IsInjective(busy_pools'[d])
    BY <1>1, <1>2, <1>4 DEF CacheLists
  <2>2. ASSUME NEW d \in Cache, NEW r \in Pool PROVE Placed(d, r)'
    <3>1. Placed(d, r) /\ Placed(c, r)
      BY DEF CacheLists
    <3>2. CASE d = c
      BY <1>1, <1>3, <1>7, <3>1, <3>2 DEF Placed
    <3>3. CASE d # c
      BY <1>1, <1>2, <1>7, <3>1, <3>3 DEF Placed
    <3> QED BY <3>2, <3>3
  <2> QED BY <2>1, <2>2 DEF CacheLists
<1> QED BY <1>5, <1>6, <1>8, <1>9 DEF TablesInv

\* One round of the loop that destroys them, without the lock.
LEMMA ShrinkDestroyInv ==
    ASSUME SlabInv, NEW t \in Thread, ShrinkDestroy(t)
    PROVE  TablesInv'
<1> USE SlabAssumption
<1> USE DEF SlabInv
<1>1. /\ list[t] # <<>>
      /\ tag' = [tag EXCEPT ![Head(list[t])] = NoTag]
      /\ pages' = pages \cup {Head(list[t])}
      /\ list' = [list EXCEPT ![t] = Tail(@)]
      /\ UNCHANGED <<free_pools, partial_pools, busy_pools, bitmask, free, held>>
  BY DEF ShrinkDestroy
<1> DEFINE h == Head(list[t])
<1>2. list[t] \in Seq(Pool) /\ IsInjective(list[t])
  BY DEF SlabShape, SplicedUnused
<1>3. /\ h \in Pool /\ Contains(list[t], h)
      /\ Tail(list[t]) \in Seq(Pool)
      /\ \A y : Contains(list[t], y) <=> Contains(Tail(list[t]), y) \/ y = h
      /\ IsInjective(Tail(list[t])) /\ ~ Contains(Tail(list[t]), h)
  BY <1>1, <1>2, TailMembers
<1> HIDE DEF h
<1>4. /\ tag' = [tag EXCEPT ![h] = NoTag] /\ pages' = pages \cup {h}
      /\ list'[t] = Tail(list[t]) /\ \A u \in Thread : u # t => list'[u] = list[u]
  BY <1>1 DEF h, SlabShape
<1>5. /\ NoTag \in 0 .. Large /\ NoTag \notin Cache
      /\ tag'[h] = NoTag /\ \A r \in Pool : r # h => tag'[r] = tag[r]
  BY <1>3, <1>4 DEF SlabShape, NoTag, Large, Cache
<1>6. tag[h] \in Cache /\ free[h] = OBJS /\ Spliced(h)
  BY <1>3 DEF SplicedUnused, Spliced
<1>7. \A q \in held : q.pool # h /\ q.pool \in Pool
  BY <1>3, <1>6, NobodyHolds DEF SlabShape, Pointer
<1>8. TablesShape'
  BY <1>1, <1>3, <1>4, <1>5 DEF SlabShape, TablesShape
<1>9. HeldTagged' /\ PagesUntagged'
  BY <1>1, <1>4, <1>5, <1>7 DEF HeldTagged, PagesUntagged
<1>10. SlotsMarked'
  <2>1. \A r \in Pool : tag'[r] \in Cache => tag[r] \in Cache
    BY <1>5
  <2> QED BY <1>1, <2>1 DEF SlotsMarked, SlotsHeld
<1>11. \A u \in Thread : ~ Contains(list'[u], h)
  BY <1>3, <1>4 DEF SplicedUnused
<1>12. \A u \in Thread, r \in Pool : r # h => (Contains(list'[u], r) <=> Contains(list[u], r))
  BY <1>3, <1>4
<1>13. SplicedUnused'
  <2>1. \A u \in Thread : IsInjective(list'[u])
    BY <1>3, <1>4 DEF SplicedUnused
  <2> QED BY <1>1, <1>5, <1>11, <1>12, <2>1 DEF SplicedUnused
<1>14. CacheLists'
  <2>1. ASSUME NEW d \in Cache, NEW r \in Pool PROVE Placed(d, r)'
    <3>1. Placed(d, r)
      BY DEF CacheLists
    <3>2. CASE r = h
      BY <1>1, <1>5, <1>6, <3>1, <3>2 DEF Placed
    <3>3. CASE r # h
      <4>1. Spliced(r)' <=> Spliced(r)
        BY <1>12, <3>3 DEF Spliced
      <4> QED BY <1>1, <1>5, <3>1, <3>3, <4>1 DEF Placed
    <3> QED BY <3>2, <3>3
  <2> QED BY <1>1, <2>1 DEF CacheLists
<1> QED BY <1>8, <1>9, <1>10, <1>13, <1>14 DEF TablesInv

\* mem_cache_release() gives the free pools of the cache back.
LEMMA ReleaseInv ==
    ASSUME SlabInv, NEW c \in Cache, Release(c)
    PROVE  TablesInv'
<1> USE SlabAssumption
<1> USE DEF SlabInv
<1>1. /\ tag' = [p \in Pool |-> IF Contains(free_pools[c], p) THEN NoTag ELSE tag[p]]
      /\ pages' = pages \cup ToSet(free_pools[c])
      /\ free_pools' = [free_pools EXCEPT ![c] = <<>>]
      /\ UNCHANGED <<partial_pools, busy_pools, bitmask, free, held, list>>
  BY DEF Release
<1>2. /\ free_pools'[c] = <<>> /\ \A d \in Cache : d # c => free_pools'[d] = free_pools[d]
      /\ IsInjective(free_pools'[c]) /\ \A y : ~ Contains(free_pools'[c], y)
  BY <1>1, EmptyMembers DEF SlabShape
<1>3. NoTag \in 0 .. Large /\ NoTag \notin Cache
  BY DEF NoTag, Large, Cache
<1>4. /\ ToSet(free_pools[c]) \subseteq Pool
      /\ \A y : y \in ToSet(free_pools[c]) <=> Contains(free_pools[c], y)
  <2>1. free_pools[c] \in Seq(Pool)
    BY DEF SlabShape
  <2> QED BY <2>1, MembersAsSet
<1>5. \A r \in Pool : Contains(free_pools[c], r) =>
         tag[r] = c /\ free[r] = OBJS /\ ~ Spliced(r)
  BY DEF CacheLists, Placed
<1>6. \A q \in held : q.pool \in Pool /\ ~ Contains(free_pools[c], q.pool)
  BY <1>5, NobodyHolds DEF SlabShape, Pointer
<1>7. TablesShape'
  <2>1. <<>> \in Seq(Pool)
    OBVIOUS
  <2>2. tag' \in [Pool -> 0 .. Large]
    BY <1>1, <1>3 DEF SlabShape
  <2> QED BY <1>1, <1>4, <2>1, <2>2 DEF SlabShape, TablesShape
<1>8. HeldTagged' /\ PagesUntagged'
  <2>1. HeldTagged'
    BY <1>1, <1>6 DEF HeldTagged
  <2>2. PagesUntagged'
    BY <1>1, <1>4 DEF PagesUntagged
  <2> QED BY <2>1, <2>2
<1>9. SlotsMarked'
  <2>1. \A r \in Pool : tag'[r] \in Cache => tag[r] \in Cache
    BY <1>1, <1>3
  <2> QED BY <1>1, <2>1 DEF SlotsMarked, SlotsHeld
<1>10. SplicedUnused'
  <2>1. \A r \in Pool, t \in Thread : Contains(list[t], r) => tag'[r] = tag[r]
    BY <1>1, <1>5 DEF Spliced
  <2> QED BY <1>1, <2>1 DEF SplicedUnused
<1>11. CacheLists'
  <2>1. ASSUME NEW d \in Cache, NEW r \in Pool PROVE Placed(d, r)'
    <3>1. Placed(d, r) /\ Placed(c, r) /\ (Spliced(r)' <=> Spliced(r))
      BY <1>1, SplicedSame DEF CacheLists
    <3>2. CASE Contains(free_pools[c], r)
      <4>1. tag'[r] = NoTag /\ tag[r] = c /\ free[r] = OBJS
        BY <1>1, <1>5, <3>2
      <4>2. ~ Contains(partial_pools[d], r) /\ ~ Contains(busy_pools[d], r)
        BY <3>1, <4>1 DEF Placed
      <4>3. ~ Contains(free_pools'[d], r)
        BY <1>2, <3>1, <4>1 DEF Placed
      <4> QED BY <1>1, <1>3, <4>1, <4>2, <4>3 DEF Placed
    <3>3. CASE ~ Contains(free_pools[c], r)
      <4>1. tag'[r] = tag[r]
        BY <1>1, <3>3
      <4>2. Contains(free_pools'[d], r) <=> Contains(free_pools[d], r)
        BY <1>2, <3>3
      <4> QED BY <1>1, <3>1, <4>1, <4>2 DEF Placed
    <3> QED BY <3>2, <3>3
  <2> QED BY <1>1, <1>2, <2>1 DEF CacheLists
<1> QED BY <1>7, <1>8, <1>9, <1>10, <1>11 DEF TablesInv

-----------------------------------------------------------------------------
(* The invariant *)

LEMMA SlabInitInv ==
    ASSUME SlabInit PROVE SlabInv
<1> USE SlabAssumption
<1>1. NoTag \in 0 .. Large /\ NoTag \notin Cache
  BY DEF NoTag, Large, Cache
<1>2. <<>> \in Seq(Pool)
  OBVIOUS
<1>3. SlabShape
  BY <1>1, <1>2 DEF SlabInit, SlabShape
<1>4. MovingHeld /\ HeldTagged /\ PagesUntagged /\ SlotsMarked
  BY <1>1 DEF SlabInit, MovingHeld, HeldTagged, PagesUntagged, SlotsMarked
<1>5. SplicedUnused
  BY EmptyMembers DEF SlabInit, SplicedUnused
<1>6. CacheLists
  <2>1. ASSUME NEW c \in Cache
        PROVE  free_pools[c] = <<>> /\ partial_pools[c] = <<>> /\ busy_pools[c] = <<>>
    BY DEF SlabInit
  <2>2. \A p \in Pool : tag[p] = NoTag
    BY DEF SlabInit
  <2> QED BY <1>1, <2>1, <2>2, EmptyMembers DEF CacheLists, Placed
<1> QED BY <1>3, <1>4, <1>5, <1>6 DEF SlabInv

LEMMA SlabNextInv ==
    ASSUME SlabInv, [SlabNext]_slabVars PROVE SlabInv'
<1> USE DEF SlabInv
<1>0. CASE UNCHANGED slabVars
  <2> USE <1>0 DEF slabVars
  <2>1. SlabShape' /\ MovingHeld' /\ HeldTagged' /\ PagesUntagged'
    BY DEF SlabShape, MovingHeld, HeldTagged, PagesUntagged
  <2>2. SlotsMarked' /\ SplicedUnused'
    BY DEF SlotsMarked, SlotsHeld, SplicedUnused
  <2>3. CacheLists'
    BY DEF CacheLists, Placed, Spliced
  <2> QED BY <2>1, <2>2, <2>3
<1>1. CASE MemCacheSetup
  BY <1>1 DEF MemCacheSetup, SlabShape, MovingHeld, HeldTagged, PagesUntagged, SlotsMarked,
              SlotsHeld, SplicedUnused, CacheLists, Placed, Spliced
<1>2. CASE Operation /\ UNCHANGED setup
  <2>0. setup' = setup
    BY <1>2
  <2>1. ASSUME NEW k \in 1 .. Large, MemAlloc(k) PROVE SlabInv'
    <3>1. TablesInv' /\ held \subseteq held' /\ UNCHANGED <<list, moving, released>>
      BY <2>1, AllocInv DEF MemAlloc
    <3>2. SlabShape'
      BY <2>0, <3>1 DEF SlabShape, TablesInv, TablesShape
    <3>3. MovingHeld'
      BY <3>1 DEF MovingHeld
    <3> QED BY <3>1, <3>2, <3>3 DEF TablesInv
  <2>2. ASSUME NEW q \in held, MemFree(q) PROVE SlabInv'
    <3>1. /\ TablesInv' /\ held' = held \ {q} /\ UNCHANGED <<list, moving, released>>
      BY <2>2, FreeInv DEF MemFree
    <3>2. SlabShape'
      BY <2>0, <3>1 DEF SlabShape, TablesInv, TablesShape
    <3>3. \A t \in Thread : q \notin moving[t]
      BY <2>2 DEF MemFree, InUse
    <3>4. MovingHeld'
      BY <3>1, <3>3 DEF MovingHeld
    <3> QED BY <3>1, <3>2, <3>4 DEF TablesInv
  <2>3. ASSUME NEW t \in Thread, NEW q \in held, NEW k \in 1 .. Large, MemRealloc(t, q, k)
        PROVE  SlabInv'
    <3>1. /\ TablesInv' /\ held \subseteq held' /\ UNCHANGED <<list, released>>
          /\ moving' = [moving EXCEPT ![t] = {q}]
      BY <2>3, AllocInv DEF MemRealloc
    <3>2. SlabShape'
      BY <2>0, <3>1 DEF SlabShape, TablesInv, TablesShape
    <3>3. \A u \in Thread : q \notin moving[u]
      BY <2>3 DEF MemRealloc, InUse
    <3>4. moving'[t] = {q} /\ \A u \in Thread : u # t => moving'[u] = moving[u]
      BY <3>1 DEF SlabShape
    <3>5. MovingHeld'
      BY <3>1, <3>3, <3>4 DEF MovingHeld
    <3> QED BY <3>1, <3>2, <3>5 DEF TablesInv
  <2>4. ASSUME NEW t \in Thread, MemReallocFree(t) PROVE SlabInv'
    <3>1. PICK q \in moving[t] : mem_free(q)
      BY <2>4 DEF MemReallocFree
    <3>2. q \in held /\ UNCHANGED <<list, released>> /\ moving' = [moving EXCEPT ![t] = {}]
      BY <2>4 DEF MemReallocFree, MovingHeld
    <3>3. TablesInv' /\ held' = held \ {q}
      BY <3>1, <3>2, FreeInv
    <3>4. SlabShape'
      BY <2>0, <3>2, <3>3 DEF SlabShape, TablesInv, TablesShape
    <3>5. moving'[t] = {} /\ \A u \in Thread : u # t => moving'[u] = moving[u]
      BY <3>2 DEF SlabShape
    <3>6. MovingHeld'
      BY <3>3, <3>5 DEF MovingHeld
    <3> QED BY <3>3, <3>4, <3>6 DEF TablesInv
  <2>5. ASSUME NEW t \in Thread, NEW c \in Cache, Shrink(t, c) PROVE SlabInv'
    <3>1. TablesInv' /\ held' = held /\ UNCHANGED <<moving, released>>
      BY <2>5, ShrinkInv DEF Shrink
    <3>2. list' \in [Thread -> Seq(Pool)]
      BY <2>5 DEF Shrink, SlabShape
    <3> QED BY <2>0, <3>1, <3>2 DEF SlabShape, TablesInv, TablesShape, MovingHeld
  <2>6. ASSUME NEW t \in Thread, ShrinkDestroy(t) PROVE SlabInv'
    <3>1. TablesInv' /\ held' = held /\ UNCHANGED <<moving, released>>
      BY <2>6, ShrinkDestroyInv DEF ShrinkDestroy
    <3>2. list' \in [Thread -> Seq(Pool)]
      <4>1. list[t] \in Seq(Pool) /\ list[t] # <<>>
        BY <2>6 DEF ShrinkDestroy, SlabShape
      <4>2. Tail(list[t]) \in Seq(Pool)
        BY <4>1, TailMembers
      <4> QED BY <2>6, <4>2 DEF ShrinkDestroy, SlabShape
    <3> QED BY <2>0, <3>1, <3>2 DEF SlabShape, TablesInv, TablesShape, MovingHeld
  <2>7. ASSUME NEW c \in Cache, Release(c) PROVE SlabInv'
    <3>1. TablesInv' /\ UNCHANGED <<held, list, moving>> /\ released' = released \cup {c}
      BY <2>7, ReleaseInv DEF Release
    <3> QED BY <2>0, <3>1 DEF SlabShape, TablesInv, TablesShape, MovingHeld
  <2> QED BY <1>2, <2>1, <2>2, <2>3, <2>4, <2>5, <2>6, <2>7 DEF Operation
<1> QED BY <1>0, <1>1, <1>2 DEF SlabNext

\* The bookkeeping of the allocator as a whole: the bits, counts, tags and lists
\* agree in every state it reaches.
THEOREM SlabInvariant == SlabSpec => []SlabInv
<1>1. SlabInit => SlabInv
  BY SlabInitInv
<1>2. SlabInv /\ [SlabNext]_slabVars => SlabInv'
  BY SlabNextInv
<1> QED BY <1>1, <1>2, PTL DEF SlabSpec

\* The allocator over list.c takes the steps of Slab and no others.
LEMMA LinkedIsSlab == LinkedSpec => SlabSpec
<1>1. LinkedInit => SlabInit
  BY DEF LinkedInit
<1>2. [LinkedNext]_linkedVars => [SlabNext]_slabVars
  <2>1. LinkedOperation => Operation
    BY DEF LinkedOperation, Operation
  <2> QED BY <2>1 DEF LinkedNext, SlabNext, linkedVars, slabVars
<1> QED BY <1>1, <1>2, PTL DEF LinkedSpec, SlabSpec

\* ObjectsExact: mem_pool_alloc() never hands an object out twice, and free is
\* the number of objects nobody has (alloc.c:205-255).
THEOREM ObjectsHandedOutOnce == LinkedSpec => []ObjectsExact
<1>1. SlabInv => ObjectsExact
  <2>1. SlabInv => SlabTypeOK
    BY DEF SlabInv, SlabShape, MovingHeld, SlabTypeOK
  <2> QED BY <2>1 DEF SlabInv, SlotsMarked, ObjectsExact
<1> QED BY <1>1, SlabInvariant, LinkedIsSlab, PTL

\* TagsRight: mem_free() finds the cache a pointer came from, and a block is
\* without a tag just while the page allocator has it (alloc.c:400-412).
THEOREM PointersGoBack == LinkedSpec => []TagsRight
<1>1. SlabInv => TagsRight
  BY DEF SlabInv, HeldTagged, PagesUntagged, TagsRight
<1> QED BY <1>1, SlabInvariant, LinkedIsSlab, PTL

\* ListsExact: every pool of a cache is on the list its count says, or unused
\* and about to be destroyed by one thread (alloc.h:11-14, alloc.c:168).
THEOREM PoolsAreWhereTheyBelong == LinkedSpec => []ListsExact
<1>1. ASSUME SlabInv PROVE ListsExact
  <2> USE SlabAssumption
  <2> USE DEF SlabInv
  <2> SUFFICES ASSUME NEW c \in Cache
               PROVE  LET all == free_pools[c] \o partial_pools[c] \o busy_pools[c]
                      IN  /\ IsInjective(all)
                          /\ \A p \in ToSet(free_pools[c]) : free[p] = OBJS
                          /\ \A p \in ToSet(partial_pools[c]) : free[p] \in 1 .. OBJS - 1
                          /\ \A p \in ToSet(busy_pools[c]) : free[p] = 0
                          /\ \A p \in Pool : Contains(all, p) => tag[p] = c
                          /\ \A p \in PoolsOf(c) :
                               Contains(all, p) # \E t \in Thread : Contains(list[t], p)
                          /\ \A p \in PoolsOf(c), t \in Thread :
                               Contains(list[t], p) => free[p] = OBJS
    BY DEF ListsExact
  <2> DEFINE f == free_pools[c]  q == partial_pools[c]  b == busy_pools[c]
             all == f \o q \o b
  <2>1. /\ f \in Seq(Pool) /\ q \in Seq(Pool) /\ b \in Seq(Pool)
        /\ IsInjective(f) /\ IsInjective(q) /\ IsInjective(b)
    BY <1>1 DEF SlabShape, CacheLists
  <2>2. /\ ToSet(f) \subseteq Pool /\ \A y : y \in ToSet(f) <=> Contains(f, y)
        /\ ToSet(q) \subseteq Pool /\ \A y : y \in ToSet(q) <=> Contains(q, y)
        /\ ToSet(b) \subseteq Pool /\ \A y : y \in ToSet(b) <=> Contains(b, y)
    BY <2>1, MembersAsSet
  <2>3. \A p \in Pool : Placed(c, p)
    BY <1>1 DEF CacheLists
  <2>4. ASSUME NEW y
        PROVE  /\ ~ (Contains(f, y) /\ Contains(q, y))
               /\ ~ (Contains(f, y) /\ Contains(b, y))
               /\ ~ (Contains(q, y) /\ Contains(b, y))
    <3>1. CASE y \in Pool
      <4>1. Placed(c, y)
        BY <2>3, <3>1
      <4> QED BY <4>1 DEF Placed
    <3>2. CASE y \notin Pool
      BY <2>2, <3>2
    <3> QED BY <3>1, <3>2
  <2>5. /\ IsInjective(all)
        /\ \A y : Contains(all, y) <=> Contains(f, y) \/ Contains(q, y) \/ Contains(b, y)
    BY <2>1, <2>4, ThreeLists
  <2> HIDE DEF all
  <2>6. /\ \A p \in ToSet(f) : free[p] = OBJS
        /\ \A p \in ToSet(q) : free[p] \in 1 .. OBJS - 1
        /\ \A p \in ToSet(b) : free[p] = 0
    BY <2>2, <2>3 DEF Placed
  <2>7. \A p \in Pool : Contains(all, p) => tag[p] = c
    BY <2>3, <2>5 DEF Placed
  <2>8. \A t \in Thread, p \in Pool : Contains(list[t], p) => free[p] = OBJS
    BY <1>1 DEF SplicedUnused
  <2>9. ASSUME NEW p \in PoolsOf(c)
        PROVE  Contains(all, p) # \E t \in Thread : Contains(list[t], p)
    <3>1. p \in Pool /\ tag[p] = c /\ Placed(c, p)
      BY <2>3 DEF PoolsOf
    <3>2. (\E t \in Thread : Contains(list[t], p)) <=> Spliced(p)
      BY DEF Spliced
    <3>3. Spliced(p) => free[p] = OBJS
      BY <2>8, <3>1 DEF Spliced
    <3>4. Contains(all, p) <=> ~ Spliced(p)
      BY <2>5, <3>1, <3>3 DEF Placed
    <3> QED BY <3>2, <3>4
  <2>10. \A p \in PoolsOf(c) : p \in Pool
    BY DEF PoolsOf
  <2> QED BY <2>5, <2>6, <2>7, <2>8, <2>9, <2>10 DEF all
<1>2. SlabInv => ListsExact
  BY <1>1
<1> QED BY <1>2, SlabInvariant, LinkedIsSlab, PTL

-----------------------------------------------------------------------------
(* The layout of a pool *)

\* f gives 1 << k for every k.
IsShl(f) == f = [k \in Nat |-> IF k = 0 THEN 1 ELSE 2 * f[k - 1]]

Doubling == [k \in Nat |-> [x \in Nat \ {0} |-> 2 * x]]

\* f doubles 1 for n rounds.
Doubles(f, n) == f[0] = 1 /\ \A k \in 1 .. n : f[k - 1] \in Nat \ {0} /\ f[k] = 2 * f[k - 1]

\* Two of them agree.
LEMMA DoublesAgree ==
    ASSUME NEW n \in Nat, NEW m \in 0 .. n, NEW f, NEW g, Doubles(f, n), Doubles(g, m)
    PROVE  f[m] = g[m]
<1> DEFINE same == [k \in 0 .. m |-> IF f[k] = g[k] THEN 1 ELSE 0]
<1>1. \A k \in 0 .. m : same[k] \in {1} <=> f[k] = g[k]
  OBVIOUS
<1>2. 0 \in 0 .. m /\ m \in Nat /\ same[0] \in {1}
  BY <1>1 DEF Doubles
<1>3. ASSUME NEW k \in 1 .. m, same[k - 1] \in {1} PROVE same[k] \in {1}
  <2>1. k \in 1 .. n /\ k \in 0 .. m /\ k - 1 \in 0 .. m
    OBVIOUS
  <2>2. f[k] = 2 * f[k - 1] /\ g[k] = 2 * g[k - 1]
    BY <2>1 DEF Doubles
  <2> QED BY <1>1, <1>3, <2>1, <2>2
<1>4. \A k \in 0 .. m : same[k] \in {1}
  <2> HIDE DEF same
  <2> QED BY <1>2, <1>3, StaysIn
<1> QED BY <1>1, <1>4

\* 1 << k doubles with k, and is more than k.
LEMMA ShlIs ==
    /\ Shl[0] = 1
    /\ \A k \in Nat : Shl[k] \in Nat /\ Shl[k] > 0 /\ Shl[k] > k /\ Shl[k + 1] = 2 * Shl[k]
<1> DEFINE Positive == Nat \ {0}
           L(n) == CHOOSE f : Doubles(f, n)
           G == [n \in Nat |-> L(n)[n]]
<1>1. ASSUME NEW n \in Nat PROVE Doubles(L(n), n)
  <2>1. Doubling \in [Nat -> [Positive -> Positive]] /\ 1 \in Positive
    BY DEF Doubling
  <2>2. PICK f : IsLoop(f, Positive, 1, Doubling, n)
    <3> DEFINE step == Doubling
    <3>1. step \in [Nat -> [Positive -> Positive]] /\ 1 \in Positive
      BY <2>1
    <3> HIDE DEF Positive, step
    <3>2. \E f : IsLoop(f, Positive, 1, step, n)
      BY <3>1, LoopExists
    <3> QED BY <3>2 DEF step
  <2>3. /\ f \in [0 .. n -> Positive] /\ f[0] = 1
        /\ \A k \in 1 .. n : f[k] = Doubling[k][f[k - 1]]
    BY <2>2 DEF IsLoop
  <2>4. ASSUME NEW k \in 1 .. n PROVE f[k - 1] \in Positive /\ f[k] = 2 * f[k - 1]
    <3>1. f[k - 1] \in Positive
      BY <2>3
    <3>2. k \in Nat /\ \A x \in Positive : Doubling[k][x] = 2 * x
      BY DEF Doubling
    <3>3. Doubling[k][f[k - 1]] = 2 * f[k - 1]
      BY <3>1, <3>2
    <3> QED BY <2>3, <3>1, <3>3
  <2>5. Doubles(f, n)
    BY <2>3, <2>4 DEF Doubles
  <2> QED BY <2>5
<1> HIDE DEF L
<1>2. G[0] = 1
  BY <1>1 DEF Doubles
<1>3. ASSUME NEW n \in Nat PROVE G[n + 1] = 2 * G[n] /\ G[n] \in Positive
  <2>1. Doubles(L(n), n) /\ Doubles(L(n + 1), n + 1)
    BY <1>1
  <2>2. L(n + 1)[n] = L(n)[n]
    <3>1. n + 1 \in Nat /\ n \in 0 .. n + 1
      OBVIOUS
    <3> QED BY <2>1, <3>1, DoublesAgree
  <2>3. n + 1 \in 1 .. n + 1 /\ (n + 1) - 1 = n
    OBVIOUS
  <2>4. L(n + 1)[n + 1] = 2 * L(n + 1)[n] /\ L(n + 1)[n] \in Positive
    BY <2>1, <2>3 DEF Doubles
  <2> QED BY <2>2, <2>4
<1>4. IsShl(G)
  <2>1. ASSUME NEW k \in Nat PROVE G[k] = IF k = 0 THEN 1 ELSE 2 * G[k - 1]
    <3> HIDE DEF G
    <3>1. CASE k = 0
      BY <1>2, <3>1
    <3>2. CASE k # 0
      <4>1. k - 1 \in Nat /\ (k - 1) + 1 = k
        BY <3>2
      <4> QED BY <1>3, <3>2, <4>1
    <3> QED BY <3>1, <3>2
  <2>2. G = [k \in Nat |-> G[k]]
    OBVIOUS
  <2> HIDE DEF G
  <2> QED BY <2>1, <2>2 DEF IsShl
<1>5. Shl = CHOOSE g : IsShl(g)
  BY DEF Shl, IsShl
<1>6. IsShl(Shl)
  BY <1>4, <1>5
<1>7. ASSUME NEW k \in Nat PROVE Shl[k] = IF k = 0 THEN 1 ELSE 2 * Shl[k - 1]
  <2> DEFINE rhs(g) == [i \in Nat |-> IF i = 0 THEN 1 ELSE 2 * g[i - 1]]
  <2>1. Shl = rhs(Shl)
    BY <1>6 DEF IsShl
  <2>2. rhs(Shl)[k] = IF k = 0 THEN 1 ELSE 2 * Shl[k - 1]
    OBVIOUS
  <2> QED BY <2>1, <2>2
<1>8. Shl[0] = 1 /\ \A k \in Nat : Shl[k + 1] = 2 * Shl[k]
  <2>1. ASSUME NEW k \in Nat PROVE Shl[k + 1] = 2 * Shl[k]
    <3>1. k + 1 \in Nat /\ k + 1 # 0 /\ (k + 1) - 1 = k
      OBVIOUS
    <3> QED BY <1>7, <3>1
  <2> QED BY <1>7, <2>1
<1>9. ASSUME NEW n \in Nat PROVE Shl[n] \in Nat /\ Shl[n] > n
  <2> DEFINE T == {k \in Nat : ~ (Shl[k] \in Nat /\ Shl[k] > k)}
  <2>1. ASSUME T # {} PROVE FALSE
    <3>1. PICK k \in T : \A y \in T : k <= y
      <4>1. T \in SUBSET Nat
        OBVIOUS
      <4> HIDE DEF T
      <4> QED BY <2>1, <4>1, LeastOf
    <3>2. k \in Nat /\ ~ (Shl[k] \in Nat /\ Shl[k] > k)
      BY <3>1
    <3>3. k # 0
      BY <1>8, <3>2
    <3>4. k - 1 \in Nat /\ k - 1 \notin T /\ (k - 1) + 1 = k
      BY <3>1, <3>2, <3>3
    <3>5. Shl[k - 1] \in Nat /\ Shl[k - 1] > k - 1
      BY <3>4
    <3>6. Shl[k] = 2 * Shl[k - 1]
      BY <1>8, <3>4
    <3> QED BY <3>2, <3>3, <3>5, <3>6
  <2> QED BY <2>1
<1> QED BY <1>8, <1>9

\* The bytes of 1 << k pages.
LEMMA PageBytes ==
    /\ Shl[PAGE_SHIFT] = 4096
    /\ \A k \in Nat : Shl[k + PAGE_SHIFT] = 4096 * Shl[k]
<1>1. ASSUME NEW k \in Nat PROVE Shl[k + 12] = 4096 * Shl[k]
  <2>1. Shl[k] \in Nat /\ Shl[k + 1] = 2 * Shl[k]
    BY ShlIs
  <2>2. ASSUME NEW j \in Nat PROVE Shl[j + 4] = 16 * Shl[j]
    <3>1. /\ Shl[j] \in Nat /\ Shl[j + 1] = 2 * Shl[j] /\ Shl[(j + 1) + 1] = 2 * Shl[j + 1]
          /\ Shl[(j + 2) + 1] = 2 * Shl[j + 2] /\ Shl[(j + 3) + 1] = 2 * Shl[j + 3]
      BY ShlIs
    <3>2. (j + 1) + 1 = j + 2 /\ (j + 2) + 1 = j + 3 /\ (j + 3) + 1 = j + 4
      OBVIOUS
    <3> QED BY <3>1, <3>2
  <2>3. Shl[k + 4] = 16 * Shl[k] /\ Shl[(k + 4) + 4] = 16 * Shl[k + 4]
        /\ Shl[(k + 8) + 4] = 16 * Shl[k + 8]
    BY <2>2
  <2>4. (k + 4) + 4 = k + 8 /\ (k + 8) + 4 = k + 12
    OBVIOUS
  <2> QED BY <2>1, <2>3, <2>4
<1>2. Shl[0 + 12] = 4096 * Shl[0] /\ 0 + 12 = 12
  BY <1>1
<1> QED BY <1>1, <1>2, ShlIs DEF PAGE_SHIFT

\* Objects are as large as was asked for, and not empty.
LEMMA ObjSizeIs ==
    ASSUME NEW size \in ObjSize
    PROVE  size \in Nat /\ size > 0
<1>1. PICK n \in Size, a \in Alignment : size = align_up(n, a)
  BY DEF ObjSize
<1>2. n \in Nat /\ n > 0 /\ a \in Nat /\ a > 0
  BY LayoutAssumption
<1> DEFINE u == n + a - 1  q == u \div a
<1>3. u \in Nat /\ u >= a
  BY <1>2
<1> HIDE DEF u
<1>4. q \in Nat /\ u % a \in 0 .. a - 1 /\ u - (u % a) = q * a
  BY <1>2, <1>3
<1>5. size = q * a
  BY <1>1, <1>2, <1>4 DEF align_up, ceil, u
<1> HIDE DEF q
<1>6. q * a \in Nat /\ q # 0
  BY <1>2, <1>3, <1>4
<1> QED BY <1>2, <1>4, <1>5, <1>6

\* The description of a pool is a multiple of eight, and just large enough.
LEMMA MetaSizeIs ==
    ASSUME NEW n \in Nat
    PROVE  /\ ceil(n, OBJS_PER_WORD) \in Nat
           /\ n <= 64 * ceil(n, OBJS_PER_WORD) /\ 64 * ceil(n, OBJS_PER_WORD) < n + 64
           /\ meta_size(n) = 40 + 8 * ceil(n, OBJS_PER_WORD)
<1> DEFINE w == ceil(n, OBJS_PER_WORD)
<1>1. w = (n + 63) \div 64
  BY DEF ceil, OBJS_PER_WORD
<1>2. w \in Nat /\ n <= 64 * w /\ 64 * w < n + 64
  BY <1>1
<1>3. meta_size(n) = 8 * ((48 + (w - 1) * 8 + 8 - 1) \div 8)
  BY DEF meta_size, align_up, ceil, PoolHeader, WORD_SZ, MetaAlign
<1> HIDE DEF w
<1>4. 48 + (w - 1) * 8 + 8 - 1 = 8 * (w + 5) + 7
  BY <1>2
<1>5. (8 * (w + 5) + 7) \div 8 = w + 5
  BY <1>2
<1>6. meta_size(n) = 40 + 8 * w
  BY <1>2, <1>3, <1>4, <1>5
<1> QED BY <1>2, <1>6 DEF w

\* A pool is a page at least, and has half the pages min_size asks for.
LEMMA PoolSizeIs ==
    ASSUME NEW size \in Nat, size > 0
    PROVE  /\ pool_size(size) \in Nat /\ pool_size(size) >= 4096 /\ pool_size(size) % 8 = 0
           /\ 2 * pool_size(size) >= 8 * size + 48
<1> DEFINE n == (8 * size + 48) \div 4096
           o == pool_order(size)
<1>1. meta_size(8) = 48
  <2>1. 8 <= 64 * ceil(8, OBJS_PER_WORD) /\ 64 * ceil(8, OBJS_PER_WORD) < 72 /\ ceil(8, OBJS_PER_WORD) \in Nat
        /\ meta_size(8) = 40 + 8 * ceil(8, OBJS_PER_WORD)
    BY MetaSizeIs
  <2> QED BY <2>1
<1>2. o = ilog2(n)
  BY <1>1, PageBytes DEF pool_order, MIN_POOL_OBJS
<1>3. n \in Nat /\ 8 * size + 48 < 4096 * (n + 1)
  OBVIOUS
<1> HIDE DEF n
<1>4. o \in Nat /\ Shl[o] >= n
  <2> DEFINE T == {power \in 0 .. n : Shl[power] >= n}
  <2>1. Shl[n] \in Nat /\ Shl[n] > n
    BY <1>3, ShlIs
  <2>2. T \in SUBSET Nat /\ n \in T
    BY <1>3, <2>1
  <2>3. Min(T) \in T
    <3> HIDE DEF T
    <3> QED BY <2>2, LeastOf
  <2>4. o = Min(T)
    BY <1>2 DEF ilog2
  <2> QED BY <2>3, <2>4
<1>5. pool_size(size) = 4096 * Shl[o]
  BY <1>4, PageBytes DEF pool_size
<1> HIDE DEF o
<1>6. Shl[o] \in Nat /\ Shl[o] > 0
  BY <1>4, ShlIs
<1> QED BY <1>3, <1>4, <1>5, <1>6

\* The loop over objs ends with the most objects that fit.
LEMMA ObjCountIs ==
    ASSUME NEW size \in Nat, size > 0
    PROVE  /\ obj_count(size) \in Nat /\ obj_count(size) >= 2
           /\ size * obj_count(size) + meta_size(obj_count(size)) <= pool_size(size)
<1> DEFINE s == pool_size(size)
           m == s \div size
           T == {n \in 0 .. m : size * n + meta_size(n) <= s}
<1>1. s \in Nat /\ s >= 4096 /\ 2 * s >= 8 * size + 48
  BY PoolSizeIs
<1> HIDE DEF s
<1>2. s % size \in 0 .. size - 1 /\ m \in Nat /\ s - (s % size) = m * size
  BY <1>1
<1>3. m >= 2
  <2>1. m # 0 /\ m # 1
    BY <1>1, <1>2
  <2> QED BY <1>2, <2>1
<1>4. meta_size(2) = 48
  <2>1. 2 <= 64 * ceil(2, OBJS_PER_WORD) /\ 64 * ceil(2, OBJS_PER_WORD) < 66 /\ ceil(2, OBJS_PER_WORD) \in Nat
        /\ meta_size(2) = 40 + 8 * ceil(2, OBJS_PER_WORD)
    BY MetaSizeIs
  <2> QED BY <2>1
<1>5. 2 \in T
  <2>1. size * 2 + 48 <= s
    BY <1>1
  <2> QED BY <1>2, <1>3, <1>4, <2>1
<1> HIDE DEF m
<1>6. T \subseteq 0 .. m
  OBVIOUS
<1>7. PICK n \in T : \A y \in T : y <= n
  <2> DEFINE U == {m - y : y \in T}
  <2>1. U \in SUBSET Nat /\ U # {}
    BY <1>2, <1>5, <1>6
  <2>2. PICK v \in U : \A y \in U : v <= y
    <3> HIDE DEF U
    <3> QED BY <2>1, LeastOf
  <2>3. PICK n \in T : v = m - n
    BY <2>2
  <2>4. ASSUME NEW y \in T PROVE y <= n
    <3>1. m - n <= m - y
      BY <2>2, <2>3
    <3>2. n \in Nat /\ y \in Nat
      BY <1>2, <1>6
    <3> QED BY <1>2, <3>1, <3>2
  <2> QED BY <2>3, <2>4
<1>8. obj_count(size) = Max(T)
  BY DEF obj_count, m, s
<1>9. Max(T) \in T /\ \A y \in T : Max(T) >= y
  <2>1. \A y \in T : n >= y
    BY <1>2, <1>6, <1>7
  <2> HIDE DEF T
  <2> QED BY <1>7, <2>1 DEF Max
<1> DEFINE k == Max(T)
<1>10. k \in Nat /\ k >= 2 /\ size * k + meta_size(k) <= s
  <2>1. k \in T /\ k >= 2
    BY <1>5, <1>9
  <2> HIDE DEF k
  <2> QED BY <1>2, <2>1
<1> QED BY <1>8, <1>10 DEF s

\* Just the first n bits of the mask are clear.
LEMMA BitmapIs ==
    ASSUME NEW n \in Nat, NEW words \in Nat, n <= 64 * words, 64 * words < n + 64
    PROVE  Bits(0, words) \ mem_pool_bitmap_setup(n, words) = 0 .. n - 1
<1> DEFINE w == n \div 64
           r == n % 64
           set == mem_pool_bitmap_setup(n, words)
<1>1. w \in Nat /\ r \in 0 .. 63 /\ n = 64 * w + r
  OBVIOUS
<1>2. \A b : b \in Bits(0, words) <=> b \in Int /\ 0 <= b /\ b < 64 * words
  BY DEF Bits, OBJS_PER_WORD
<1>3. ASSUME NEW b \in Int
      PROVE  b \in set <=> \/ 64 * (w + 1) <= b /\ b < 64 * words
                           \/ r # 0 /\ 64 * w <= b /\ b < 64 * (w + 1) /\ b >= n
  <2>1. b \in Bits(w + 1, words) <=> 64 * (w + 1) <= b /\ b < 64 * words
    BY <1>1 DEF Bits, OBJS_PER_WORD
  <2>2. b \in Bits(w, w + 1) <=> 64 * w <= b /\ b < 64 * (w + 1)
    BY <1>1 DEF Bits, OBJS_PER_WORD
  <2>3. b \in set <=> \/ b \in Bits(w + 1, words)
                      \/ r # 0 /\ b \in Bits(w, w + 1) /\ b >= n
    BY DEF mem_pool_bitmap_setup, OBJS_PER_WORD
  <2> HIDE DEF set, w, r
  <2> QED BY <2>1, <2>2, <2>3
<1> HIDE DEF set, w, r
<1>4. ASSUME NEW b \in Int PROVE b \in Bits(0, words) \ set <=> 0 <= b /\ b < n
  <2>1. CASE r = 0
    <3>1. words = w
      BY <1>1, <2>1
    <3> QED BY <1>1, <1>2, <1>3, <2>1, <3>1
  <2>2. CASE r # 0
    <3>1. words = w + 1
      BY <1>1, <2>2
    <3> QED BY <1>1, <1>2, <1>3, <2>2, <3>1
  <2> QED BY <2>1, <2>2
<1>5. \A b \in Bits(0, words) \ set : b \in Int
  BY <1>2
<1>6. \A b \in 0 .. n - 1 : b \in Int /\ 0 <= b /\ b < n
  OBVIOUS
<1>7. ASSUME NEW b \in Bits(0, words) \ set PROVE b \in 0 .. n - 1
  BY <1>4, <1>5
<1>8. ASSUME NEW b \in 0 .. n - 1 PROVE b \in Bits(0, words) \ set
  BY <1>4, <1>6
<1> QED BY <1>7, <1>8 DEF set

\* LayoutFits: for every size and alignment asked for, objects and description
\* fit in the pool, and the bitmask has a clear bit for every object and for
\* nothing else (alloc.c:71-105).
THEOREM PoolsAreLaidOut == LinkedSpec => []LayoutFits
<1>1. ASSUME SlabInv PROVE LayoutFits
  <2> SUFFICES ASSUME NEW size \in setup
               PROVE  LET cache == Layout(size)
                      IN  /\ cache.obj_count * size <= cache.meta_offs
                          /\ cache.meta_offs + Description(cache.mask_words) <= pool_size(size)
                          /\ cache.meta_offs % MetaAlign = 0
                          /\ cache.obj_count >= 2
                          /\ Bits(0, cache.mask_words)
                               \ mem_pool_bitmap_setup(cache.obj_count, cache.mask_words)
                             = 0 .. cache.obj_count - 1
    BY DEF LayoutFits
  <2>1. size \in Nat /\ size > 0
    <3>1. size \in ObjSize
      BY <1>1 DEF SlabInv, SlabShape
    <3> QED BY <3>1, ObjSizeIs
  <2> DEFINE n == obj_count(size)
             w == ceil(n, OBJS_PER_WORD)
             s == pool_size(size)
             cache == Layout(size)
  <2>2. n \in Nat /\ n >= 2 /\ size * n + meta_size(n) <= s
    BY <2>1, ObjCountIs
  <2>3. s \in Nat /\ s % 8 = 0
    BY <2>1, PoolSizeIs
  <2>4. cache.obj_count = n /\ cache.mask_words = w /\ cache.meta_offs = s - meta_size(n)
    BY DEF Layout
  <2> HIDE DEF n, s, cache
  <2>5. w \in Nat /\ n <= 64 * w /\ 64 * w < n + 64 /\ meta_size(n) = 40 + 8 * w
    BY <2>2, MetaSizeIs
  <2> HIDE DEF w
  <2>6. Bits(0, w) \ mem_pool_bitmap_setup(n, w) = 0 .. n - 1
    BY <2>2, <2>5, BitmapIs
  <2>7. size * n \in Nat /\ size * n = n * size
    BY <2>1, <2>2
  <2>8. n * size <= cache.meta_offs
    BY <2>2, <2>3, <2>4, <2>5, <2>7
  <2>9. cache.meta_offs + Description(w) <= s
    BY <2>3, <2>4, <2>5 DEF Description, WORD_SZ
  <2>10. cache.meta_offs % 8 = 0
    <3>1. cache.meta_offs = s - 40 - 8 * w
      BY <2>3, <2>4, <2>5
    <3>2. (s - 40 - 8 * w) % 8 = 0
      BY <2>3, <2>5
    <3> QED BY <3>1, <3>2
  <2> QED BY <2>2, <2>4, <2>6, <2>8, <2>9, <2>10 DEF cache, s, MetaAlign
<1> QED BY <1>1, SlabInvariant, LinkedIsSlab, PTL

-----------------------------------------------------------------------------
(* Links *)

\* The places links are kept, and what can be stored there.
Nodes == Heads \cup Pool \cup Thread
Pointers == Nodes \cup {Null, Wild}
Links == [Nodes -> [next : Pointers, prev : Pointers]]

\* Place i of list s with head h; the head is before the first and after the last.
At(h, s, i) == IF i \in 1 .. Len(s) THEN s[i] ELSE h

\* The links of the entries and of the head are those of a circular list.
Ring(L, h, s) ==
    \A i \in 0 .. Len(s) :
        L[At(h, s, i)].next = At(h, s, i + 1) /\ L[At(h, s, i + 1)].prev = At(h, s, i)

\* From at on the next pointers lead through s to the head h.
Path(L, h, s, at) ==
    at = At(h, s, 1) /\ \A i \in 1 .. Len(s) : L[s[i]].next = At(h, s, i + 1)

Rings(L, live, q) == \A h \in live : Ring(L, h, q[h])
Paths(L, ls, at) == \A t \in Thread : Path(L, t, ls[t], at[t])

\* L is what the lists q of the live caches and ls of the threads look like in
\* memory; at is where each thread is.
Agree(L, live, q, ls, at) == L \in Links /\ Rings(L, live, q) /\ Paths(L, ls, at)

\* Lists q of the caches and ls of the threads in mem_cache_shrink() are apart.
Separate(q, ls) ==
    /\ \A h \in Heads : q[h] \in Seq(Pool) /\ IsInjective(q[h])
    /\ \A h, g \in Heads, p \in Pool : Contains(q[h], p) /\ Contains(q[g], p) => h = g
    /\ \A t \in Thread : ls[t] \in Seq(Pool) /\ IsInjective(ls[t])
    /\ \A t, u \in Thread, p \in Pool : Contains(ls[t], p) /\ Contains(ls[u], p) => t = u
    /\ \A h \in Heads, t \in Thread, p \in Pool : ~ (Contains(q[h], p) /\ Contains(ls[t], p))

\* The lists of Slab, by their heads.
ByHead(f, p, b) ==
    [h \in Heads |-> IF h[1] = "free_pools" THEN f[h[2]]
                     ELSE IF h[1] = "partial_pools" THEN p[h[2]]
                     ELSE b[h[2]]]

Queue == ByHead(free_pools, partial_pools, busy_pools)

\* The heads of caches that were not released.
Live == {h \in Heads : h[2] \notin released}

\* A cache is released after its last object came back.
NoneReleased == \A q \in held : q.class \notin released

\* mem_realloc() moves one object at a time.
MovesOne == \A t \in Thread : \A q, r \in moving[t] : q = r

\* The links are the lists of Slab, and those of mem_cache_shrink() from where
\* its loop is.  A released cache gets nothing back, so its heads stay dead.
LinksInv ==
    /\ Agree(links, Live, Queue, list, ptr)
    /\ ptr \in [Thread -> Pointers]
    /\ NoneReleased
    /\ MovesOne

\* A list without duplicates is no longer than there are entries for it.
LEMMA ShortList ==
    ASSUME NEW S, IsFiniteSet(S), NEW q \in Seq(S), IsInjective(q)
    PROVE  Cardinality(S) \in Nat /\ Len(q) <= Cardinality(S)
<1>1. Len(q) \in Nat /\ q \in [1 .. Len(q) -> S]
  BY LenProperties
<1>2. q \in Injection(1 .. Len(q), S)
  BY <1>1 DEF Injection, IsInjective
<1>3. Cardinality(1 .. Len(q)) <= Cardinality(S)
  BY <1>2, FS_Injection
<1>4. Cardinality(1 .. Len(q)) = Len(q)
  BY <1>1, FS_Interval
<1> QED BY <1>3, <1>4, FS_CardinalityType

\* The places of a list: no node is at two, but for the head at both ends.
LEMMA Places ==
    ASSUME NEW S, NEW s \in Seq(S), IsInjective(s), NEW h, h \notin S
    PROVE  /\ Len(s) \in Nat
           /\ At(h, s, 0) = h /\ At(h, s, Len(s) + 1) = h
           /\ \A i \in 1 .. Len(s) : At(h, s, i) = s[i] /\ s[i] \in S /\ Contains(s, s[i])
           /\ \A i, j \in 0 .. Len(s) : At(h, s, i) = At(h, s, j) => i = j
           /\ \A i, j \in 1 .. Len(s) + 1 : At(h, s, i) = At(h, s, j) => i = j
<1>1. Len(s) \in Nat /\ DOMAIN s = 1 .. Len(s) /\ \A i \in 1 .. Len(s) : s[i] \in S
  BY LenProperties, ElementOfSeq
<1>2. At(h, s, 0) = h /\ At(h, s, Len(s) + 1) = h
  BY <1>1 DEF At
<1>3. \A i \in 1 .. Len(s) : At(h, s, i) = s[i] /\ s[i] \in S /\ Contains(s, s[i])
  BY <1>1 DEF At, Contains
<1>4. \A i, j \in 1 .. Len(s) : s[i] = s[j] => i = j
  BY <1>1 DEF IsInjective
<1>5. \A i \in 0 .. Len(s) : i = 0 \/ i \in 1 .. Len(s)
  BY <1>1
<1>6. \A i \in 1 .. Len(s) + 1 : i = Len(s) + 1 \/ i \in 1 .. Len(s)
  BY <1>1
<1>7. ASSUME NEW i \in 0 .. Len(s), NEW j \in 0 .. Len(s), At(h, s, i) = At(h, s, j) PROVE i = j
  BY <1>2, <1>3, <1>4, <1>5, <1>7
<1>8. ASSUME NEW i \in 1 .. Len(s) + 1, NEW j \in 1 .. Len(s) + 1, At(h, s, i) = At(h, s, j) PROVE i = j
  BY <1>2, <1>3, <1>4, <1>6, <1>8
<1> QED BY <1>1, <1>2, <1>3, <1>7, <1>8

\* From L to L1, nodes other than n change in two places: a points to v, and
\* b points back to w.
Stores(L, L1, n, a, v, b, w) ==
    \A x \in Nodes : x # n =>
        /\ x = a => L1[x].next = v
        /\ x # a => L1[x].next = L[x].next
        /\ x = b => L1[x].prev = w
        /\ x # b => L1[x].prev = L[x].prev
        /\ x # a /\ x # b => L1[x] = L[x]

\* What list_del() stores.
LEMMA DelStores ==
    ASSUME NEW L \in Links, NEW n \in Nodes, NEW a \in Nodes, NEW b \in Nodes,
           L[n].prev = a, L[n].next = b, a # n, b # n
    PROVE  list_del(L, n) \in Links /\ Stores(L, list_del(L, n), n, a, b, b, a)
<1> DEFINE L1 == list_del(L, n)
<1>1. L1 = [L EXCEPT ![a].next = b, ![b].prev = a, ![n] = [next |-> Null, prev |-> Null]]
  BY DEF list_del
<1>2. \A x \in Nodes : L[x] \in [next : Pointers, prev : Pointers]
  BY DEF Links
<1>3. a \in Pointers /\ b \in Pointers /\ Null \in Pointers
  BY DEF Pointers
<1> DEFINE R == [next : Pointers, prev : Pointers]
           A == [L EXCEPT ![a].next = b]
           B == [A EXCEPT ![b].prev = a]
<1>4. A \in Links /\ A[a].next = b /\ A[a].prev = L[a].prev /\ \A x \in Nodes : x # a => A[x] = L[x]
  <2>1. [L[a] EXCEPT !.next = b] \in R
    BY <1>2, <1>3
  <2> QED BY <1>2, <2>1 DEF Links
<1> HIDE DEF A
<1>5. B \in Links /\ B[b].prev = a /\ B[b].next = A[b].next /\ \A x \in Nodes : x # b => B[x] = A[x]
  <2>1. A[b] \in R
    BY <1>4 DEF Links
  <2>2. [A[b] EXCEPT !.prev = a] \in R
    BY <1>3, <2>1
  <2> QED BY <1>4, <2>1, <2>2 DEF Links
<1> HIDE DEF B
<1>6. L1 = [B EXCEPT ![n] = [next |-> Null, prev |-> Null]]
  BY <1>1 DEF A, B
<1> HIDE DEF L1
<1>7. L1 \in Links /\ \A x \in Nodes : x # n => L1[x] = B[x]
  BY <1>3, <1>5, <1>6 DEF Links
<1>8. ASSUME NEW x \in Nodes, x # n
      PROVE  /\ L1[x].next = IF x = a THEN b ELSE L[x].next
             /\ L1[x].prev = IF x = b THEN a ELSE L[x].prev
  <2>1. B[x].next = A[x].next
    BY <1>5
  <2>2. A[x].prev = L[x].prev
    BY <1>4
  <2> QED BY <1>4, <1>5, <1>7, <1>8, <2>1, <2>2
<1>9. ASSUME NEW x \in Nodes, x \notin {n, a, b} PROVE L1[x] = L[x]
  BY <1>4, <1>5, <1>7, <1>9
<1> QED BY <1>7, <1>8, <1>9 DEF L1, Stores

\* What list_insert() stores.
LEMMA InsertStores ==
    ASSUME NEW L \in Links, NEW n \in Nodes, NEW a \in Nodes, NEW b \in Nodes, a # n, b # n
    PROVE  /\ list_insert(L, n, a, b) \in Links
           /\ list_insert(L, n, a, b)[n] = [next |-> b, prev |-> a]
           /\ Stores(L, list_insert(L, n, a, b), n, a, n, b, n)
<1> DEFINE L1 == list_insert(L, n, a, b)
           R == [next : Pointers, prev : Pointers]
           A == [L EXCEPT ![n] = [next |-> b, prev |-> a]]
           B == [A EXCEPT ![a].next = n]
<1>1. L1 = [B EXCEPT ![b].prev = n]
  BY DEF list_insert
<1>2. \A x \in Nodes : L[x] \in R
  BY DEF Links
<1>3. a \in Pointers /\ b \in Pointers /\ n \in Pointers
  BY DEF Pointers
<1>4. A \in Links /\ A[n] = [next |-> b, prev |-> a] /\ \A x \in Nodes : x # n => A[x] = L[x]
  BY <1>2, <1>3 DEF Links
<1> HIDE DEF A
<1>5. B \in Links /\ B[a].next = n /\ B[a].prev = A[a].prev /\ \A x \in Nodes : x # a => B[x] = A[x]
  <2>1. A[a] \in R
    BY <1>4 DEF Links
  <2>2. [A[a] EXCEPT !.next = n] \in R
    BY <1>3, <2>1
  <2> QED BY <1>4, <2>1, <2>2 DEF Links
<1> HIDE DEF B, L1
<1>6. L1 \in Links /\ L1[b].prev = n /\ L1[b].next = B[b].next /\ \A x \in Nodes : x # b => L1[x] = B[x]
  <2>1. B[b] \in R
    BY <1>5 DEF Links
  <2>2. [B[b] EXCEPT !.prev = n] \in R
    BY <1>3, <2>1
  <2> QED BY <1>1, <1>5, <2>1, <2>2 DEF Links
<1>7. ASSUME NEW x \in Nodes, x # n
      PROVE  /\ L1[x].next = IF x = a THEN n ELSE L[x].next
             /\ L1[x].prev = IF x = b THEN n ELSE L[x].prev
  <2>1. L1[x].next = B[x].next
    BY <1>6
  <2>2. B[x].prev = A[x].prev
    BY <1>5
  <2> QED BY <1>4, <1>5, <1>6, <1>7, <2>1, <2>2
<1>8. ASSUME NEW x \in Nodes, x \notin {n, a, b} PROVE L1[x] = L[x]
  BY <1>4, <1>5, <1>6, <1>8
<1>9. L1[n] = [next |-> b, prev |-> a]
  BY <1>4, <1>5, <1>6
<1> QED BY <1>6, <1>7, <1>8, <1>9 DEF L1, Stores

\* A list whose nodes nobody writes stays as it is.
LEMMA RingFrame ==
    ASSUME NEW S, NEW s \in Seq(S), IsInjective(s), NEW h, h \notin S, NEW L, NEW L1, Ring(L, h, s),
           L1[h] = L[h], \A x \in S : Contains(s, x) => L1[x] = L[x]
    PROVE  Ring(L1, h, s)
<1>1. /\ Len(s) \in Nat
      /\ At(h, s, 0) = h /\ At(h, s, Len(s) + 1) = h
      /\ \A i \in 1 .. Len(s) : At(h, s, i) = s[i] /\ s[i] \in S /\ Contains(s, s[i])
  BY Places
<1>2. ASSUME NEW i \in 0 .. Len(s) + 1 PROVE L1[At(h, s, i)] = L[At(h, s, i)]
  <2>1. i = 0 \/ i = Len(s) + 1 \/ i \in 1 .. Len(s)
    BY <1>1
  <2> QED BY <1>1, <2>1
<1>3. ASSUME NEW i \in 0 .. Len(s)
      PROVE  L1[At(h, s, i)].next = At(h, s, i + 1) /\ L1[At(h, s, i + 1)].prev = At(h, s, i)
  <2>1. i \in 0 .. Len(s) + 1 /\ i + 1 \in 0 .. Len(s) + 1
    BY <1>1
  <2> QED BY <1>2, <2>1 DEF Ring
<1> QED BY <1>3 DEF Ring

\* So does the list of a thread.
LEMMA PathFrame ==
    ASSUME NEW S, NEW s \in Seq(S), NEW h, NEW at, NEW L, NEW L1, Path(L, h, s, at),
           \A x \in S : Contains(s, x) => L1[x] = L[x]
    PROVE  Path(L1, h, s, at)
<1>1. \A i \in 1 .. Len(s) : s[i] \in S /\ Contains(s, s[i])
  BY LenProperties, ElementOfSeq DEF Contains
<1> QED BY <1>1 DEF Path

\* The pointers of a head: to itself just if its list is empty.
LEMMA RingEnds ==
    ASSUME NEW S, NEW s \in Seq(S), IsInjective(s), NEW h, h \notin S, NEW L, Ring(L, h, s)
    PROVE  /\ L[h].next = h <=> s = <<>>
           /\ s # <<>> => L[h].next = Head(s) /\ L[h].prev = s[Len(s)]
<1>1. /\ Len(s) \in Nat
      /\ At(h, s, 0) = h /\ At(h, s, Len(s) + 1) = h
      /\ \A i \in 1 .. Len(s) : At(h, s, i) = s[i] /\ s[i] \in S
  BY Places
<1>2. L[h].next = At(h, s, 1) /\ L[h].prev = At(h, s, Len(s))
  <2>1. 0 \in 0 .. Len(s) /\ Len(s) \in 0 .. Len(s) /\ 0 + 1 = 1
    BY <1>1
  <2> QED BY <1>1, <2>1 DEF Ring
<1>3. CASE s = <<>>
  <2>1. Len(s) = 0
    BY <1>3
  <2> QED BY <1>1, <1>2, <1>3, <2>1
<1>4. CASE s # <<>>
  <2>1. Len(s) # 0 /\ Head(s) = s[1]
    BY <1>4, EmptySeq
  <2>2. 1 \in 1 .. Len(s) /\ Len(s) \in 1 .. Len(s)
    BY <1>1, <2>1
  <2> QED BY <1>1, <1>2, <1>4, <2>1, <2>2
<1> QED BY <1>3, <1>4

\* list_del() takes an entry off its list and writes to no other list.
LEMMA RingDel ==
    ASSUME NEW L \in Links, NEW h \in Nodes \ Pool, NEW s \in Seq(Pool), IsInjective(s),
           Ring(L, h, s), NEW p, Contains(s, p)
    PROVE  /\ list_del(L, p) \in Links
           /\ Ring(list_del(L, p), h, RemoveFirst(s, p))
           /\ \A x \in Nodes : x # h /\ ~ Contains(s, x) => list_del(L, p)[x] = L[x]
<1>1. PICK k \in 1 .. Len(s) : s[k] = p
  BY DEF Contains
<1> DEFINE P(i) == At(h, s, i)
           n == Len(s)
           L1 == list_del(L, p)
           r == RemoveFirst(s, p)
<1>2. /\ n \in Nat /\ P(0) = h /\ P(n + 1) = h
      /\ \A i \in 1 .. n : P(i) = s[i] /\ s[i] \in Pool /\ Contains(s, s[i])
      /\ \A i, j \in 0 .. n : P(i) = P(j) => i = j
      /\ \A i, j \in 1 .. n + 1 : P(i) = P(j) => i = j
  BY Places
<1>3. \A i \in 0 .. n : L[P(i)].next = P(i + 1) /\ L[P(i + 1)].prev = P(i)
  BY DEF Ring
<1>4. r \in Seq(Pool) /\ Len(r) = n - 1 /\ \A i \in 1 .. n - 1 : r[i] = IF i < k THEN s[i] ELSE s[i + 1]
  BY <1>1, RemovePlaces
<1> HIDE DEF P, n, r
<1>5. ASSUME NEW i \in 0 .. n + 1 PROVE P(i) \in Nodes /\ (P(i) = h \/ Contains(s, P(i)))
  <2>1. i = 0 \/ i = n + 1 \/ i \in 1 .. n
    BY <1>2
  <2> QED BY <1>2, <2>1 DEF Nodes
<1>6. k \in 1 .. n /\ k - 1 \in 0 .. n /\ k \in 0 .. n /\ k + 1 \in 1 .. n + 1 /\ k \in 1 .. n + 1
      /\ k - 1 \in 0 .. n + 1 /\ k + 1 \in 0 .. n + 1 /\ (k - 1) + 1 = k /\ P(k) = p
  BY <1>1, <1>2 DEF n
<1> DEFINE a == P(k - 1)
           b == P(k + 1)
<1>7. L[p].prev = a /\ L[p].next = b /\ a \in Nodes /\ b \in Nodes /\ p \in Nodes
  BY <1>3, <1>5, <1>6
<1>8. a # p /\ b # p
  <2>1. k - 1 # k /\ k + 1 # k
    BY <1>6
  <2> QED BY <1>2, <1>6, <2>1
<1> HIDE DEF a, b
<1>9. L1 \in Links /\ Stores(L, L1, p, a, b, b, a)
  BY <1>7, <1>8, DelStores
<1> HIDE DEF L1
<1>10. ASSUME NEW x \in Nodes, x # h, ~ Contains(s, x) PROVE L1[x] = L[x]
  <2>1. x \notin {p, a, b}
    BY <1>5, <1>6, <1>10 DEF a, b
  <2> QED BY <1>9, <2>1 DEF Stores
<1>11. ASSUME NEW j \in 0 .. n PROVE At(h, r, j) = IF j < k THEN P(j) ELSE P(j + 1)
  <2>1. CASE j \in 1 .. n - 1
    <3>1. At(h, r, j) = r[j]
      BY <1>4, <2>1 DEF At
    <3>2. j \in 1 .. n /\ j + 1 \in 1 .. n
      BY <1>2, <2>1
    <3> QED BY <1>2, <1>4, <2>1, <3>1, <3>2
  <2>2. CASE j \notin 1 .. n - 1
    <3>1. At(h, r, j) = h
      BY <1>4, <2>2 DEF At
    <3>2. j = 0 \/ j = n
      BY <1>2, <2>2
    <3>3. 0 < k /\ ~ (n < k)
      BY <1>2, <1>6
    <3> QED BY <1>2, <3>1, <3>2, <3>3
  <2> QED BY <2>1, <2>2
<1>12. ASSUME NEW j \in 0 .. n - 1
       PROVE  L1[At(h, r, j)].next = At(h, r, j + 1) /\ L1[At(h, r, j + 1)].prev = At(h, r, j)
  <2>1. /\ At(h, r, j) = IF j < k THEN P(j) ELSE P(j + 1)
        /\ At(h, r, j + 1) = IF j + 1 < k THEN P(j + 1) ELSE P((j + 1) + 1)
    <3>1. j \in 0 .. n /\ j + 1 \in 0 .. n
      BY <1>2
    <3> QED BY <1>11, <3>1
  <2>2. ASSUME NEW i \in 0 .. n, i # k - 1, i # k
        PROVE  L1[P(i)].next = P(i + 1) /\ L1[P(i + 1)].prev = P(i)
    <3>1. i \in 0 .. n + 1 /\ i + 1 \in 0 .. n + 1 /\ i + 1 \in 1 .. n + 1 /\ i + 1 # k + 1 /\ i + 1 # k
      BY <1>2, <1>6, <2>2
    <3>2. P(i) # a /\ P(i) # p
      BY <1>2, <1>6, <2>2 DEF a
    <3>3. P(i + 1) # b /\ P(i + 1) # p
      BY <1>2, <1>6, <3>1 DEF b
    <3>4. P(i) \in Nodes /\ P(i + 1) \in Nodes
      BY <1>5, <3>1
    <3> QED BY <1>3, <1>9, <3>2, <3>3, <3>4 DEF Stores
  <2>3. CASE j < k - 1
    <3>1. j < k /\ j + 1 < k /\ j \in 0 .. n /\ j # k - 1 /\ j # k
      BY <1>2, <1>6, <2>3
    <3> QED BY <2>1, <2>2, <3>1
  <2>4. CASE j = k - 1
    <3>1. j < k /\ ~ (j + 1 < k) /\ (j + 1) + 1 = k + 1
      BY <1>6, <2>4
    <3>2. At(h, r, j) = a /\ At(h, r, j + 1) = b
      BY <2>1, <2>4, <3>1 DEF a, b
    <3> QED BY <1>7, <1>8, <1>9, <3>2 DEF Stores
  <2>5. CASE j > k - 1
    <3>1. ~ (j < k) /\ ~ (j + 1 < k) /\ j + 1 \in 0 .. n /\ j + 1 # k - 1 /\ j + 1 # k
      BY <1>2, <1>6, <2>5
    <3> QED BY <2>1, <2>2, <3>1
  <2>6. j \in Int /\ k \in Int
    BY <1>2, <1>6
  <2> QED BY <2>3, <2>4, <2>5, <2>6
<1>13. Ring(L1, h, r)
  BY <1>4, <1>12 DEF Ring
<1> QED BY <1>9, <1>10, <1>13 DEF L1, r

\* list_add() puts an entry first and writes to no other list.
LEMMA RingAdd ==
    ASSUME NEW L \in Links, NEW h \in Nodes \ Pool, NEW s \in Seq(Pool), IsInjective(s),
           Ring(L, h, s), NEW p \in Pool, ~ Contains(s, p)
    PROVE  /\ list_add(L, p, h) \in Links
           /\ Ring(list_add(L, p, h), h, <<p>> \o s)
           /\ \A x \in Nodes : x # h /\ x # p /\ ~ Contains(s, x) => list_add(L, p, h)[x] = L[x]
<1> DEFINE P(i) == At(h, s, i)
           n == Len(s)
           L1 == list_add(L, p, h)
           r == <<p>> \o s
           b == L[h].next
<1>1. /\ n \in Nat /\ P(0) = h /\ P(n + 1) = h
      /\ \A i \in 1 .. n : P(i) = s[i] /\ s[i] \in Pool /\ Contains(s, s[i])
      /\ \A i, j \in 0 .. n : P(i) = P(j) => i = j
      /\ \A i, j \in 1 .. n + 1 : P(i) = P(j) => i = j
  BY Places
<1>2. \A i \in 0 .. n : L[P(i)].next = P(i + 1) /\ L[P(i + 1)].prev = P(i)
  BY DEF Ring
<1>3. Len(r) = n + 1 /\ r[1] = p /\ \A i \in 2 .. n + 1 : r[i] = s[i - 1]
  <2>1. <<p>> \in Seq(Pool) /\ Len(<<p>>) = 1 /\ <<p>>[1] = p
    OBVIOUS
  <2>2. /\ Len(r) = 1 + n
        /\ \A i \in 1 .. 1 + n : r[i] = IF i <= 1 THEN <<p>>[i] ELSE s[i - 1]
    BY <2>1, ConcatProperties
  <2> HIDE DEF r, n
  <2>3. 1 \in 1 .. 1 + n /\ \A i \in 2 .. n + 1 : i \in 1 .. 1 + n /\ ~ (i <= 1)
    BY <1>1
  <2> QED BY <1>1, <2>1, <2>2, <2>3
<1> HIDE DEF P, n, r
<1>4. ASSUME NEW i \in 0 .. n + 1 PROVE P(i) \in Nodes /\ P(i) # p /\ (P(i) = h \/ Contains(s, P(i)))
  <2>1. i = 0 \/ i = n + 1 \/ i \in 1 .. n
    BY <1>1
  <2> QED BY <1>1, <2>1 DEF Nodes
<1>5. b = P(1) /\ b \in Nodes /\ b # p /\ p \in Nodes /\ h # p
  <2>1. 0 \in 0 .. n /\ 1 \in 0 .. n + 1 /\ 0 + 1 = 1
    BY <1>1
  <2> QED BY <1>1, <1>2, <1>4, <2>1 DEF Nodes
<1>6. L1 = list_insert(L, p, h, b)
  BY DEF list_add
<1> HIDE DEF b, L1
<1>7. /\ L1 \in Links /\ L1[p] = [next |-> b, prev |-> h]
      /\ Stores(L, L1, p, h, p, b, p)
  BY <1>5, <1>6, InsertStores
<1>8. ASSUME NEW x \in Nodes, x # h, x # p, ~ Contains(s, x) PROVE L1[x] = L[x]
  <2>1. x # b
    <3>1. 1 \in 0 .. n + 1
      BY <1>1
    <3> QED BY <1>4, <1>5, <1>8, <3>1
  <2> QED BY <1>7, <1>8, <2>1 DEF Stores
<1>9. At(h, r, 0) = h /\ At(h, r, 1) = p /\ \A j \in 2 .. n + 2 : At(h, r, j) = P(j - 1)
  <2>1. At(h, r, 0) = h /\ At(h, r, 1) = p
    BY <1>1, <1>3 DEF At
  <2>2. ASSUME NEW j \in 2 .. n + 2 PROVE At(h, r, j) = P(j - 1)
    <3>1. CASE j \in 2 .. n + 1
      <4>1. At(h, r, j) = r[j] /\ j - 1 \in 1 .. n
        BY <1>1, <1>3, <3>1 DEF At
      <4> QED BY <1>1, <1>3, <3>1, <4>1
    <3>2. CASE j = n + 2
      <4>1. At(h, r, j) = h /\ j - 1 = n + 1
        BY <1>1, <1>3, <3>2 DEF At
      <4> QED BY <1>1, <4>1
    <3> QED BY <1>1, <3>1, <3>2
  <2> QED BY <2>1, <2>2
<1>10. ASSUME NEW j \in 0 .. n + 1
       PROVE  L1[At(h, r, j)].next = At(h, r, j + 1) /\ L1[At(h, r, j + 1)].prev = At(h, r, j)
  <2>1. CASE j = 0
    <3>1. At(h, r, j) = h /\ At(h, r, j + 1) = p
      BY <1>9, <2>1
    <3> QED BY <1>5, <1>7, <3>1 DEF Stores
  <2>2. CASE j = 1
    <3>1. 2 \in 2 .. n + 2 /\ j + 1 = 2 /\ 2 - 1 = 1
      BY <1>1, <2>2
    <3>2. At(h, r, j) = p /\ At(h, r, j + 1) = b
      BY <1>5, <1>9, <2>2, <3>1
    <3> QED BY <1>5, <1>7, <3>2 DEF Stores
  <2>3. CASE j >= 2
    <3>1. j \in 2 .. n + 2 /\ j + 1 \in 2 .. n + 2 /\ (j + 1) - 1 = j /\ (j - 1) + 1 = j
          /\ j - 1 \in 0 .. n /\ 0 \in 0 .. n /\ j - 1 # 0
          /\ j \in 1 .. n + 1 /\ 1 \in 1 .. n + 1 /\ j # 1 /\ j \in 0 .. n + 1 /\ j - 1 \in 0 .. n + 1
      BY <1>1, <2>3
    <3>2. At(h, r, j) = P(j - 1) /\ At(h, r, j + 1) = P(j)
      BY <1>9, <3>1
    <3>3. P(j - 1) # h
      BY <1>1, <3>1
    <3>4. P(j) # b
      BY <1>1, <1>5, <3>1
    <3>5. /\ P(j - 1) \in Nodes /\ P(j - 1) # p /\ P(j) \in Nodes /\ P(j) # p
      BY <1>4, <3>1
    <3>6. L[P(j - 1)].next = P(j) /\ L[P(j)].prev = P(j - 1)
      BY <1>2, <3>1
    <3> QED BY <1>7, <3>2, <3>3, <3>4, <3>5, <3>6 DEF Stores
  <2> QED BY <1>1, <2>1, <2>2, <2>3
<1>11. Ring(L1, h, r)
  BY <1>3, <1>10 DEF Ring
<1> QED BY <1>7, <1>8, <1>11 DEF L1, r
\* One round of the loop of Walk.
Step(L, head, w) ==
    IF w.at = head \/ w.at \notin DOMAIN L THEN w
    ELSE [at |-> L[w.at].next, met |-> Append(w.met, w.at)]

\* f is what the loop of Walk does from an entry on.
IsWalk(f, L, first, head, max) ==
    f = [k \in 0 .. max |-> IF k = 0 THEN [at |-> first, met |-> <<>>] ELSE Step(L, head, f[k - 1])]

\* Where a walk along s is after k rounds.
Seen(head, s, k) ==
    IF k <= Len(s) THEN [at |-> At(head, s, k + 1), met |-> SubSeq(s, 1, k)]
                   ELSE [at |-> head, met |-> s]

\* A round of the loop goes one entry further, and no further than the head.
LEMMA SeenNext ==
    ASSUME NEW S, NEW s \in Seq(S), NEW h, h \notin S, NEW L, S \subseteq DOMAIN L, NEW at, Path(L, h, s, at),
           NEW k \in Nat \ {0}
    PROVE  Step(L, h, Seen(h, s, k - 1)) = Seen(h, s, k)
<1>1. Len(s) \in Nat /\ \A i \in 1 .. Len(s) : s[i] \in S
  BY LenProperties, ElementOfSeq
<1>2. CASE k <= Len(s)
  <2>1. k \in 1 .. Len(s) /\ 1 \in 1 .. Len(s) /\ k - 1 <= Len(s) /\ (k - 1) + 1 = k
    BY <1>1, <1>2
  <2>2. At(h, s, k) = s[k] /\ s[k] \in S
    BY <1>1, <2>1 DEF At
  <2>3. Seen(h, s, k - 1) = [at |-> s[k], met |-> SubSeq(s, 1, k - 1)]
    BY <2>1, <2>2 DEF Seen
  <2>4. Step(L, h, Seen(h, s, k - 1)) = [at |-> L[s[k]].next, met |-> Append(SubSeq(s, 1, k - 1), s[k])]
    <3> DEFINE w == Seen(h, s, k - 1)
    <3>1. w.at = s[k] /\ w.met = SubSeq(s, 1, k - 1)
      BY <2>3
    <3> HIDE DEF w
    <3>2. ~ (w.at = h \/ w.at \notin DOMAIN L)
      BY <2>2, <3>1
    <3>3. Step(L, h, w) = [at |-> L[w.at].next, met |-> Append(w.met, w.at)]
      BY <3>2 DEF Step
    <3> QED BY <3>1, <3>3 DEF w
  <2>5. L[s[k]].next = At(h, s, k + 1)
    BY <2>1 DEF Path
  <2>6. SubSeq(s, 1, k) = SubSeq(s, 1, k - 1) \o <<s[k]>>
    <3> DEFINE one == 1
    <3>1. one \in 1 .. Len(s) /\ k \in one .. Len(s)
      BY <1>1, <2>1
    <3> HIDE DEF one
    <3>2. SubSeq(s, one, k) = SubSeq(s, one, k - 1) \o <<s[k]>>
      BY <3>1, SubSeqRecursiveSecond
    <3> QED BY <3>2 DEF one
  <2>7. Append(SubSeq(s, 1, k - 1), s[k]) = SubSeq(s, 1, k - 1) \o <<s[k]>>
    <3>1. SubSeq(s, 1, k - 1) \in Seq(S)
      <4>1. \A i \in 1 .. k - 1 : s[i] \in S
        BY <1>1, <2>1
      <4>2. 1 \in Int /\ k - 1 \in Int
        OBVIOUS
      <4> QED BY <4>1, <4>2, SubSeqProperties
    <3> QED BY <2>2, <3>1, AppendIsConcat
  <2>8. Seen(h, s, k) = [at |-> At(h, s, k + 1), met |-> SubSeq(s, 1, k)]
    BY <1>2 DEF Seen
  <2> QED BY <2>4, <2>5, <2>6, <2>7, <2>8
<1>3. CASE ~ (k <= Len(s))
  <2>1. Seen(h, s, k) = [at |-> h, met |-> s]
    BY <1>3 DEF Seen
  <2>2. Seen(h, s, k - 1) = [at |-> h, met |-> s]
    <3>1. CASE k - 1 <= Len(s)
      <4>1. k - 1 = Len(s) /\ (k - 1) + 1 = Len(s) + 1
        BY <1>1, <1>3, <3>1
      <4>2. At(h, s, Len(s) + 1) = h
        BY <1>1 DEF At
      <4>3. SubSeq(s, 1, Len(s)) = s
        BY SubSeqFull
      <4> QED BY <3>1, <4>1, <4>2, <4>3 DEF Seen
    <3>2. CASE ~ (k - 1 <= Len(s))
      BY <3>2 DEF Seen
    <3> QED BY <3>1, <3>2
  <2> QED BY <2>1, <2>2 DEF Step
<1> QED BY <1>2, <1>3

\* The loop of Walk, allowed rounds enough, meets the entries of a list.
LEMMA WalkIs ==
    ASSUME NEW S, NEW s \in Seq(S), NEW h, h \notin S, NEW L, S \subseteq DOMAIN L, NEW at, Path(L, h, s, at),
           NEW max \in Nat, Len(s) <= max
    PROVE  Walk(L, at, h, max) = s
<1> DEFINE F == [k \in 0 .. max |-> Seen(h, s, k)]
           W == CHOOSE f : IsWalk(f, L, at, h, max)
<1>1. Walk(L, at, h, max) = W[max].met
  BY DEF Walk, IsWalk, Step
<1>2. Len(s) \in Nat
  BY LenProperties
<1>3. Seen(h, s, 0) = [at |-> at, met |-> <<>>]
  <2>1. 0 <= Len(s) /\ 0 + 1 = 1
    BY <1>2
  <2>2. SubSeq(s, 1, 0) = <<>>
    BY SubSeqEmpty
  <2> QED BY <2>1, <2>2 DEF Seen, Path
<1>4. \A k \in 1 .. max : Step(L, h, Seen(h, s, k - 1)) = Seen(h, s, k)
  BY SeenNext
<1>5. IsWalk(F, L, at, h, max)
  <2>1. \A k \in 0 .. max : F[k] = IF k = 0 THEN [at |-> at, met |-> <<>>] ELSE Step(L, h, F[k - 1])
    <3>1. ASSUME NEW k \in 1 .. max PROVE F[k] = Step(L, h, F[k - 1])
      <4>1. k - 1 \in 0 .. max /\ k \in 0 .. max
        OBVIOUS
      <4> QED BY <1>4, <4>1
    <3>2. F[0] = [at |-> at, met |-> <<>>]
      BY <1>3
    <3>3. \A k \in 0 .. max : k # 0 => k \in 1 .. max
      OBVIOUS
    <3> HIDE DEF F
    <3> QED BY <3>1, <3>2, <3>3
  <2> DEFINE G == [k \in 0 .. max |-> IF k = 0 THEN [at |-> at, met |-> <<>>] ELSE Step(L, h, F[k - 1])]
  <2>2. F = G
    <3>1. F = [k \in 0 .. max |-> F[k]]
      OBVIOUS
    <3> HIDE DEF F
    <3> QED BY <2>1, <3>1
  <2> HIDE DEF F
  <2> QED BY <2>2 DEF IsWalk
<1>6. IsWalk(W, L, at, h, max)
  <2> HIDE DEF F
  <2> QED BY <1>5
<1> HIDE DEF F, W
<1>7. W[0] = [at |-> at, met |-> <<>>] /\ \A k \in 1 .. max : W[k] = Step(L, h, W[k - 1])
  BY <1>6 DEF IsWalk
<1> DEFINE same == [k \in 0 .. max |-> IF W[k] = Seen(h, s, k) THEN 1 ELSE 0]
<1>8. \A k \in 0 .. max : same[k] \in {1} <=> W[k] = Seen(h, s, k)
  OBVIOUS
<1>9. 0 \in 0 .. max /\ max \in 0 .. max /\ same[0] \in {1}
  BY <1>3, <1>7, <1>8
<1>10. ASSUME NEW k \in 1 .. max, same[k - 1] \in {1} PROVE same[k] \in {1}
  <2>1. k - 1 \in 0 .. max /\ k \in 0 .. max
    OBVIOUS
  <2>2. W[k - 1] = Seen(h, s, k - 1)
    BY <1>8, <1>10, <2>1
  <2> QED BY <1>4, <1>7, <1>8, <2>1, <2>2
<1> HIDE DEF same
<1>11. \A k \in 0 .. max : same[k] \in {1}
  BY <1>9, <1>10, StaysIn
<1>12. W[max] = Seen(h, s, max)
  BY <1>8, <1>9, <1>11
<1>13. Seen(h, s, max).met = s
  <2>1. CASE max <= Len(s)
    <3>1. max = Len(s)
      BY <1>2, <2>1
    <3>2. SubSeq(s, 1, Len(s)) = s
      BY SubSeqFull
    <3> QED BY <2>1, <3>1, <3>2 DEF Seen
  <2>2. CASE ~ (max <= Len(s))
    BY <2>2 DEF Seen
  <2> QED BY <2>1, <2>2
<1> QED BY <1>1, <1>12, <1>13
\* What list_init() stores.
LEMMA InitStores ==
    ASSUME NEW L \in Links, NEW n \in Nodes
    PROVE  /\ list_init(L, n) \in Links
           /\ list_init(L, n)[n] = [next |-> n, prev |-> n]
           /\ \A x \in Nodes : x # n => list_init(L, n)[x] = L[x]
<1>1. n \in Pointers
  BY DEF Pointers
<1>2. [next |-> n, prev |-> n] \in [next : Pointers, prev : Pointers]
  BY <1>1
<1> QED BY <1>2 DEF Links, list_init

\* What becomes of memory that is given back.
LEMMA GoneStores ==
    ASSUME NEW L \in Links, NEW N
    PROVE  Gone(L, N) \in Links /\ \A x \in Nodes : x \notin N => Gone(L, N)[x] = L[x]
<1>1. Wild \in Pointers
  BY DEF Pointers
<1>2. [next |-> Wild, prev |-> Wild] \in [next : Pointers, prev : Pointers]
  BY <1>1
<1> QED BY <1>2 DEF Links, Gone

\* A single store to a list node.
LEMMA StoreNext ==
    ASSUME NEW L \in Links, NEW n \in Nodes, NEW v \in Nodes
    PROVE  LET L1 == [L EXCEPT ![n].next = v]
           IN  /\ L1 \in Links /\ L1[n].next = v /\ L1[n].prev = L[n].prev
               /\ \A x \in Nodes : x # n => L1[x] = L[x]
<1>1. L[n] \in [next : Pointers, prev : Pointers] /\ v \in Pointers
  BY DEF Links, Pointers
<1>2. [L[n] EXCEPT !.next = v] \in [next : Pointers, prev : Pointers]
  BY <1>1
<1> QED BY <1>1, <1>2 DEF Links

\* The same for the pointer back.
LEMMA StorePrev ==
    ASSUME NEW L \in Links, NEW n \in Nodes, NEW v \in Nodes
    PROVE  LET L1 == [L EXCEPT ![n].prev = v]
           IN  /\ L1 \in Links /\ L1[n].prev = v /\ L1[n].next = L[n].next
               /\ \A x \in Nodes : x # n => L1[x] = L[x]
<1>1. L[n] \in [next : Pointers, prev : Pointers] /\ v \in Pointers
  BY DEF Links, Pointers
<1>2. [L[n] EXCEPT !.prev = v] \in [next : Pointers, prev : Pointers]
  BY <1>1
<1> QED BY <1>1, <1>2 DEF Links

\* list_splice() to an empty list: that list has the entries, the other none,
\* and nothing is written to a third.
LEMMA RingSplice ==
    ASSUME NEW L \in Links, NEW h \in Nodes \ Pool, NEW t \in Nodes \ Pool, h # t,
           NEW s \in Seq(Pool), IsInjective(s), s # <<>>, Ring(L, h, s),
           L[t] = [next |-> t, prev |-> t]
    PROVE  /\ list_splice(L, h, t) \in Links
           /\ Ring(list_splice(L, h, t), t, s)
           /\ Ring(list_splice(L, h, t), h, <<>>)
           /\ \A x \in Nodes : x # h /\ x # t /\ ~ Contains(s, x) => list_splice(L, h, t)[x] = L[x]
<1> DEFINE n == Len(s)
           f == s[1]
           l == s[n]
           L1 == list_splice(L, h, t)
<1>1. /\ n \in Nat
      /\ At(t, s, 0) = t /\ At(t, s, n + 1) = t
      /\ \A i \in 1 .. n : At(t, s, i) = s[i] /\ s[i] \in Pool /\ Contains(s, s[i])
      /\ \A i, j \in 1 .. n + 1 : At(t, s, i) = At(t, s, j) => i = j
  BY Places
<1>2. \A i \in 1 .. n : At(h, s, i) = s[i]
  BY <1>1 DEF At
<1>3. n > 0 /\ 1 \in 1 .. n /\ n \in 1 .. n
  BY <1>1, EmptySeq
<1>4. L[h].next = f /\ L[h].prev = l /\ L[t].next = t /\ Head(s) = f
  BY RingEnds
<1>5. f \in Nodes /\ l \in Nodes /\ f \in Pool /\ l \in Pool /\ f # t /\ l # t /\ f # h /\ l # h
      /\ Contains(s, f) /\ Contains(s, l) /\ h \in Nodes /\ t \in Nodes
  BY <1>1, <1>3 DEF Nodes
<1> DEFINE A == [L EXCEPT ![f].prev = t]
           B == [A EXCEPT ![t].next = f]
           C == [B EXCEPT ![l].next = t]
           D == [C EXCEPT ![t].prev = l]
<1>6. L1 = list_init(D, h)
  BY <1>4, <1>5 DEF list_splice, list_empty
<1>7. A \in Links /\ A[f].prev = t /\ A[f].next = L[f].next /\ \A x \in Nodes : x # f => A[x] = L[x]
  <2> HIDE DEF f
  <2> QED BY <1>5, StorePrev
<1> HIDE DEF A
<1>8. B \in Links /\ B[t].next = f /\ B[t].prev = A[t].prev /\ \A x \in Nodes : x # t => B[x] = A[x]
  <2> HIDE DEF f
  <2> QED BY <1>5, <1>7, StoreNext
<1> HIDE DEF B
<1>9. C \in Links /\ C[l].next = t /\ C[l].prev = B[l].prev /\ \A x \in Nodes : x # l => C[x] = B[x]
  <2> HIDE DEF l
  <2> QED BY <1>5, <1>8, StoreNext
<1> HIDE DEF C
<1>10. D \in Links /\ D[t].prev = l /\ D[t].next = C[t].next /\ \A x \in Nodes : x # t => D[x] = C[x]
  <2> HIDE DEF l
  <2> QED BY <1>5, <1>9, StorePrev
<1> HIDE DEF D, L1
<1>11. L1 \in Links /\ L1[h] = [next |-> h, prev |-> h] /\ \A x \in Nodes : x # h => L1[x] = D[x]
  BY <1>5, <1>6, <1>10, InitStores
<1> HIDE DEF f, l
<1>12. /\ L1[t].next = f /\ L1[t].prev = l /\ L1[f].prev = t /\ L1[l].next = t
       /\ \A x \in Nodes : x # h /\ x # t /\ x # l => L1[x].next = L[x].next
       /\ \A x \in Nodes : x # h /\ x # t /\ x # f => L1[x].prev = L[x].prev
  <2>1. L1[t].next = f /\ L1[t].prev = l
    BY <1>5, <1>8, <1>9, <1>10, <1>11
  <2>2. L1[l].next = t
    BY <1>5, <1>9, <1>10, <1>11
  <2>3. L1[f].prev = C[f].prev /\ C[f].prev = B[f].prev /\ B[f].prev = t
    BY <1>5, <1>7, <1>8, <1>9, <1>10, <1>11
  <2>4. ASSUME NEW x \in Nodes, x # h, x # t, x # l PROVE L1[x].next = L[x].next
    <3>1. A[x].next = L[x].next
      BY <1>7
    <3> QED BY <1>8, <1>9, <1>10, <1>11, <2>4, <3>1
  <2>5. ASSUME NEW x \in Nodes, x # h, x # t, x # f PROVE L1[x].prev = L[x].prev
    <3>1. C[x].prev = B[x].prev
      BY <1>9
    <3> QED BY <1>7, <1>8, <1>10, <1>11, <2>5, <3>1
  <2> QED BY <2>1, <2>2, <2>3, <2>4, <2>5
<1>13. ASSUME NEW x \in Nodes, x # h, x # t, ~ Contains(s, x) PROVE L1[x] = L[x]
  <2>1. x # f /\ x # l
    BY <1>5, <1>13
  <2> QED BY <1>7, <1>8, <1>9, <1>10, <1>11, <1>13, <2>1
<1>14. Ring(L1, h, <<>>)
  <2>1. Len(<<>>) = 0 /\ \A i \in 0 .. 1 : At(h, <<>>, i) = h
    BY DEF At
  <2>2. \A i \in 0 .. 0 : i \in 0 .. 1 /\ i + 1 \in 0 .. 1
    OBVIOUS
  <2> QED BY <1>11, <2>1, <2>2 DEF Ring
<1>15. ASSUME NEW i \in 0 .. n
       PROVE  L1[At(t, s, i)].next = At(t, s, i + 1) /\ L1[At(t, s, i + 1)].prev = At(t, s, i)
  <2>1. L[At(h, s, i)].next = At(h, s, i + 1) /\ L[At(h, s, i + 1)].prev = At(h, s, i)
    BY DEF Ring
  <2>2. \A k \in 1 .. n : s[k] \in Nodes /\ s[k] # h /\ s[k] # t
    BY <1>1 DEF Nodes
  <2>3. \A k \in 1 .. n : (s[k] = f => k = 1) /\ (s[k] = l => k = n)
    <3>1. \A k, j \in 1 .. n : s[k] = s[j] => k = j
      BY <1>1
    <3> QED BY <1>3, <3>1 DEF f, l
  <2>4. L1[At(t, s, i)].next = At(t, s, i + 1)
    <3>1. CASE i = 0
      <4>1. At(t, s, i) = t /\ i + 1 = 1 /\ At(t, s, 1) = f
        BY <1>1, <1>3, <3>1 DEF f
      <4> QED BY <1>12, <4>1
    <3>2. CASE i = n
      <4>1. At(t, s, i) = l /\ At(t, s, i + 1) = t
        BY <1>1, <1>3, <3>2 DEF l
      <4> QED BY <1>12, <4>1
    <3>3. CASE i # 0 /\ i # n
      <4>1. i \in 1 .. n /\ i + 1 \in 1 .. n
        BY <1>1, <3>3
      <4>2. /\ At(t, s, i) = s[i] /\ At(t, s, i + 1) = s[i + 1]
            /\ At(h, s, i) = s[i] /\ At(h, s, i + 1) = s[i + 1]
        BY <1>1, <1>2, <4>1
      <4>3. s[i] \in Nodes /\ s[i] # h /\ s[i] # t /\ s[i] # l
        BY <2>2, <2>3, <3>3, <4>1
      <4> QED BY <1>12, <2>1, <4>2, <4>3
    <3> QED BY <3>1, <3>2, <3>3
  <2>5. L1[At(t, s, i + 1)].prev = At(t, s, i)
    <3>1. CASE i = 0
      <4>1. At(t, s, i) = t /\ i + 1 = 1 /\ At(t, s, 1) = f
        BY <1>1, <1>3, <3>1 DEF f
      <4> QED BY <1>12, <4>1
    <3>2. CASE i = n
      <4>1. At(t, s, i) = l /\ At(t, s, i + 1) = t
        BY <1>1, <1>3, <3>2 DEF l
      <4> QED BY <1>12, <4>1
    <3>3. CASE i # 0 /\ i # n
      <4>1. i \in 1 .. n /\ i + 1 \in 1 .. n /\ i + 1 # 1
        BY <1>1, <3>3
      <4>2. /\ At(t, s, i) = s[i] /\ At(t, s, i + 1) = s[i + 1]
            /\ At(h, s, i) = s[i] /\ At(h, s, i + 1) = s[i + 1]
        BY <1>1, <1>2, <4>1
      <4>3. s[i + 1] \in Nodes /\ s[i + 1] # h /\ s[i + 1] # t /\ s[i + 1] # f
        BY <2>2, <2>3, <4>1
      <4> QED BY <1>12, <2>1, <4>2, <4>3
    <3> QED BY <3>1, <3>2, <3>3
  <2> QED BY <2>4, <2>5
<1>16. Ring(L1, t, s)
  BY <1>15 DEF Ring
<1> QED BY <1>11, <1>13, <1>14, <1>16 DEF L1

\* Along a circular list the next pointers lead back to its head.
LEMMA RingIsPath ==
    ASSUME NEW S, NEW s \in Seq(S), IsInjective(s), NEW h, h \notin S, NEW L, Ring(L, h, s)
    PROVE  Path(L, h, s, L[h].next)
<1>1. /\ Len(s) \in Nat /\ At(h, s, 0) = h
      /\ \A i \in 1 .. Len(s) : At(h, s, i) = s[i]
  BY Places
<1>2. \A i \in 1 .. Len(s) : L[s[i]].next = At(h, s, i + 1)
  <2>1. \A i \in 1 .. Len(s) : i \in 0 .. Len(s)
    OBVIOUS
  <2> QED BY <1>1, <2>1 DEF Ring
<1>3. L[h].next = At(h, s, 1)
  <2>1. 0 \in 0 .. Len(s) /\ 0 + 1 = 1
    BY <1>1
  <2> QED BY <1>1, <2>1 DEF Ring
<1> QED BY <1>2, <1>3 DEF Path
\* The heads of the caches are different nodes.
LEMMA HeadsApart ==
    /\ \A c \in Cache : /\ {FreeHead(c), PartialHead(c), BusyHead(c)} \subseteq Heads
                        /\ FreeHead(c)[2] = c /\ PartialHead(c)[2] = c /\ BusyHead(c)[2] = c
    /\ \A c, d : /\ FreeHead(c) # PartialHead(d) /\ FreeHead(c) # BusyHead(d)
                 /\ PartialHead(c) # BusyHead(d)
    /\ \A h \in Heads : h[2] \in Cache /\ h \in {FreeHead(h[2]), PartialHead(h[2]), BusyHead(h[2])}
    /\ Heads \subseteq Nodes \ Pool /\ Thread \subseteq Nodes \ Pool /\ Pool \subseteq Nodes
    /\ Heads \cap Thread = {}
<1>1. \A c \in Cache : {FreeHead(c), PartialHead(c), BusyHead(c)} \subseteq Heads
  BY DEF Heads
<1>2. \A c : FreeHead(c)[2] = c /\ PartialHead(c)[2] = c /\ BusyHead(c)[2] = c
  BY DEF FreeHead, PartialHead, BusyHead
<1>3. ASSUME NEW c, NEW d
      PROVE  FreeHead(c) # PartialHead(d) /\ FreeHead(c) # BusyHead(d) /\ PartialHead(c) # BusyHead(d)
  <2>1. FreeHead(c)[1] = "free_pools" /\ PartialHead(d)[1] = "partial_pools" /\ BusyHead(d)[1] = "busy_pools"
        /\ PartialHead(c)[1] = "partial_pools"
    BY DEF FreeHead, PartialHead, BusyHead
  <2> QED BY <2>1
<1>4. ASSUME NEW h \in Heads
      PROVE  h[2] \in Cache /\ h \in {FreeHead(h[2]), PartialHead(h[2]), BusyHead(h[2])}
  <2>1. PICK c \in Cache : h \in {FreeHead(c), PartialHead(c), BusyHead(c)}
    BY DEF Heads
  <2>2. h[2] = c
    BY <1>2, <2>1
  <2> QED BY <2>1, <2>2
<1>5. Heads \subseteq Nodes \ Pool /\ Thread \subseteq Nodes \ Pool /\ Pool \subseteq Nodes
      /\ Heads \cap Thread = {}
  BY NodeAssumption DEF Nodes
<1> QED BY <1>1, <1>2, <1>3, <1>4, <1>5

\* The list of each head.
LEMMA ByHeadIs ==
    ASSUME NEW f, NEW q, NEW b, NEW c \in Cache
    PROVE  /\ ByHead(f, q, b)[FreeHead(c)] = f[c]
           /\ ByHead(f, q, b)[PartialHead(c)] = q[c]
           /\ ByHead(f, q, b)[BusyHead(c)] = b[c]
<1>1. FreeHead(c) \in Heads /\ PartialHead(c) \in Heads /\ BusyHead(c) \in Heads
  BY HeadsApart
<1>2. FreeHead(c)[1] = "free_pools" /\ PartialHead(c)[1] = "partial_pools" /\ BusyHead(c)[1] = "busy_pools"
  BY DEF FreeHead, PartialHead, BusyHead
<1>3. FreeHead(c)[2] = c /\ PartialHead(c)[2] = c /\ BusyHead(c)[2] = c
  BY HeadsApart
<1> QED BY <1>1, <1>2, <1>3 DEF ByHead

\* A pool is on one list, of a cache or of a thread in mem_cache_shrink().
LEMMA ListsSeparate ==
    ASSUME SlabInv
    PROVE  Separate(Queue, list)
<1> USE DEF Queue
<1>1. ASSUME NEW h \in Heads
      PROVE  /\ Queue[h] \in Seq(Pool) /\ IsInjective(Queue[h])
             /\ \A p \in Pool : Contains(Queue[h], p) =>
                  /\ tag[p] = h[2] /\ ~ Spliced(p)
                  /\ h = FreeHead(h[2]) => free[p] = OBJS
                  /\ h = PartialHead(h[2]) => free[p] \in 1 .. OBJS - 1
                  /\ h = BusyHead(h[2]) => free[p] = 0
  <2>1. h[2] \in Cache /\ h \in {FreeHead(h[2]), PartialHead(h[2]), BusyHead(h[2])}
    BY HeadsApart
  <2> DEFINE c == h[2]
  <2>2. Queue[FreeHead(c)] = free_pools[c] /\ Queue[PartialHead(c)] = partial_pools[c]
        /\ Queue[BusyHead(c)] = busy_pools[c]
    BY <2>1, ByHeadIs
  <2> HIDE DEF Queue
  <2>3. /\ free_pools[c] \in Seq(Pool) /\ partial_pools[c] \in Seq(Pool) /\ busy_pools[c] \in Seq(Pool)
        /\ IsInjective(free_pools[c]) /\ IsInjective(partial_pools[c]) /\ IsInjective(busy_pools[c])
        /\ \A p \in Pool : Placed(c, p)
    BY <2>1 DEF SlabInv, SlabShape, CacheLists
  <2>4. FreeHead(c) # PartialHead(c) /\ FreeHead(c) # BusyHead(c) /\ PartialHead(c) # BusyHead(c)
    BY HeadsApart
  <2>5. \A p \in Pool : Spliced(p) => free[p] = OBJS
    BY DEF SlabInv, SplicedUnused, Spliced
  <2>6. OBJS \in Nat /\ OBJS > 1
    BY SlabAssumption
  <2>7. ASSUME NEW p \in Pool, Contains(Queue[h], p)
        PROVE  /\ tag[p] = c /\ ~ Spliced(p)
               /\ h = FreeHead(c) => free[p] = OBJS
               /\ h = PartialHead(c) => free[p] \in 1 .. OBJS - 1
               /\ h = BusyHead(c) => free[p] = 0
    <3>1. Placed(c, p) /\ (Spliced(p) => free[p] = OBJS)
      BY <2>3, <2>5
    <3>2. CASE h = FreeHead(c)
      BY <2>2, <2>4, <2>7, <3>1, <3>2 DEF Placed
    <3>3. CASE h = PartialHead(c)
      <4>1. Contains(partial_pools[c], p)
        BY <2>2, <2>7, <3>3
      <4>2. tag[p] = c /\ free[p] \in 1 .. OBJS - 1
        BY <3>1, <4>1 DEF Placed
      <4>3. free[p] # OBJS
        BY <2>6, <4>2
      <4> QED BY <2>4, <3>1, <3>3, <4>2, <4>3
    <3>4. CASE h = BusyHead(c)
      <4>1. Contains(busy_pools[c], p)
        BY <2>2, <2>7, <3>4
      <4>2. tag[p] = c /\ free[p] = 0
        BY <3>1, <4>1 DEF Placed
      <4>3. free[p] # OBJS
        BY <2>6, <4>2
      <4> QED BY <2>4, <3>1, <3>4, <4>2, <4>3
    <3> QED BY <2>1, <3>2, <3>3, <3>4
  <2>8. Queue[h] \in Seq(Pool) /\ IsInjective(Queue[h])
    BY <2>1, <2>2, <2>3
  <2> QED BY <2>7, <2>8
<1> HIDE DEF Queue
<1>2. ASSUME NEW h \in Heads, NEW g \in Heads, NEW p \in Pool, Contains(Queue[h], p), Contains(Queue[g], p)
      PROVE  h = g
  <2>1. h[2] = g[2]
    BY <1>1, <1>2
  <2>2. /\ h \in {FreeHead(h[2]), PartialHead(h[2]), BusyHead(h[2])}
        /\ g \in {FreeHead(h[2]), PartialHead(h[2]), BusyHead(h[2])}
    BY <2>1, HeadsApart
  <2>3. /\ h = FreeHead(h[2]) => free[p] = OBJS
        /\ h = PartialHead(h[2]) => free[p] \in 1 .. OBJS - 1
        /\ h = BusyHead(h[2]) => free[p] = 0
    BY <1>1, <1>2
  <2>4. /\ g = FreeHead(h[2]) => free[p] = OBJS
        /\ g = PartialHead(h[2]) => free[p] \in 1 .. OBJS - 1
        /\ g = BusyHead(h[2]) => free[p] = 0
    BY <1>1, <1>2, <2>1
  <2>5. 0 \notin 1 .. OBJS - 1 /\ OBJS \notin 1 .. OBJS - 1 /\ 0 # OBJS
    BY SlabAssumption
  <2> QED BY <2>2, <2>3, <2>4, <2>5
<1>3. ASSUME NEW h \in Heads, NEW t \in Thread, NEW p \in Pool, Contains(Queue[h], p), Contains(list[t], p)
      PROVE  FALSE
  BY <1>1, <1>3 DEF Spliced
<1>4. \A t \in Thread : list[t] \in Seq(Pool) /\ IsInjective(list[t])
  BY DEF SlabInv, SlabShape, SplicedUnused
<1>5. \A t, u \in Thread, p \in Pool : Contains(list[t], p) /\ Contains(list[u], p) => t = u
  BY DEF SlabInv, SplicedUnused
<1> QED BY <1>1, <1>2, <1>3, <1>4, <1>5 DEF Separate
\* What is on separate lists, in the form the steps below use.
LEMMA SeparateIs ==
    ASSUME NEW q, NEW ls, Separate(q, ls), NEW h \in Heads
    PROVE  /\ h \in Nodes \ Pool /\ q[h] \in Seq(Pool) /\ IsInjective(q[h])
           /\ \A x : Contains(q[h], x) => x \in Pool /\ x \in Nodes
           /\ \A x : \A g \in Heads : g # h /\ Contains(q[h], x) => ~ Contains(q[g], x)
           /\ \A x : \A t \in Thread : Contains(q[h], x) => ~ Contains(ls[t], x)
<1>1. h \in Nodes \ Pool /\ Pool \subseteq Nodes
  BY HeadsApart
<1>2. q[h] \in Seq(Pool) /\ IsInjective(q[h])
  BY DEF Separate
<1>3. \A x : Contains(q[h], x) => x \in Pool
  BY <1>2, MembersAsSet
<1> QED BY <1>1, <1>2, <1>3 DEF Separate

\* Lists of caches that a step does not write to.
LEMMA OtherRings ==
    ASSUME NEW q, NEW ls, Separate(q, ls), NEW h \in Heads, NEW L, NEW L1, NEW X,
           Ring(L, h, q[h]), h \notin X, \A x \in X : ~ Contains(q[h], x),
           \A x \in Nodes : x \notin X => L1[x] = L[x]
    PROVE  Ring(L1, h, q[h])
<1>1. /\ h \in Nodes /\ h \notin Pool /\ q[h] \in Seq(Pool) /\ IsInjective(q[h])
      /\ \A x : Contains(q[h], x) => x \in Nodes
  BY SeparateIs
<1>2. L1[h] = L[h] /\ \A x \in Pool : Contains(q[h], x) => L1[x] = L[x]
  BY <1>1
<1> DEFINE s == q[h]
<1>3. Ring(L, h, s) /\ s \in Seq(Pool) /\ IsInjective(s) /\ \A x \in Pool : Contains(s, x) => L1[x] = L[x]
  BY <1>1, <1>2
<1> HIDE DEF s
<1>4. Ring(L1, h, s)
  BY <1>1, <1>2, <1>3, RingFrame
<1> QED BY <1>4 DEF s

\* The list of a thread that a step does not write to.
LEMMA OtherPath ==
    ASSUME NEW q, NEW ls, Separate(q, ls), NEW t \in Thread, NEW L, NEW L1, NEW X, NEW at,
           Path(L, t, ls[t], at), \A x \in X : ~ Contains(ls[t], x),
           \A x \in Nodes : x \notin X => L1[x] = L[x]
    PROVE  Path(L1, t, ls[t], at)
<1>1. ls[t] \in Seq(Pool)
  BY DEF Separate
<1>2. \A x \in Pool : Contains(ls[t], x) => L1[x] = L[x]
  BY HeadsApart
<1> DEFINE s == ls[t]
<1>3. Path(L, t, s, at) /\ s \in Seq(Pool) /\ \A x \in Pool : Contains(s, x) => L1[x] = L[x]
  BY <1>1, <1>2
<1> HIDE DEF s
<1>4. Path(L1, t, s, at)
  BY <1>3, PathFrame
<1> QED BY <1>4 DEF s

\* A pool moves from one list of a cache to the front of another.
LEMMA MoveKept ==
    ASSUME NEW q, NEW ls, Separate(q, ls), NEW live \in SUBSET Heads, NEW L, NEW at,
           Agree(L, live, q, ls, at),
           NEW a \in live, NEW b \in live, a # b, NEW p, Contains(q[a], p),
           NEW q1, q1[a] = RemoveFirst(q[a], p), q1[b] = <<p>> \o q[b],
           \A h \in live : h # a /\ h # b => q1[h] = q[h]
    PROVE  Agree(list_add(list_del(L, p), p, b), live, q1, ls, at)
<1> DEFINE D == list_del(L, p)
           L1 == list_add(D, p, b)
           sa == q[a]
           sb == q[b]
           r == RemoveFirst(sa, p)
<1>1. L \in Links /\ Ring(L, a, sa) /\ Ring(L, b, sb) /\ \A h \in live : Ring(L, h, q[h])
  BY DEF Agree, Rings
<1>2. /\ a \in Nodes \ Pool /\ sa \in Seq(Pool) /\ IsInjective(sa)
      /\ \A x : Contains(sa, x) => x \in Pool /\ x \in Nodes
      /\ \A x : \A g \in Heads : g # a /\ Contains(sa, x) => ~ Contains(q[g], x)
      /\ \A x : \A t \in Thread : Contains(sa, x) => ~ Contains(ls[t], x)
  BY SeparateIs
<1>3. /\ b \in Nodes \ Pool /\ sb \in Seq(Pool) /\ IsInjective(sb)
      /\ \A x : Contains(sb, x) => x \in Pool /\ x \in Nodes
      /\ \A x : \A g \in Heads : g # b /\ Contains(sb, x) => ~ Contains(q[g], x)
      /\ \A x : \A t \in Thread : Contains(sb, x) => ~ Contains(ls[t], x)
  BY SeparateIs
<1>4. Contains(sa, p) /\ p \in Pool /\ p \in Nodes /\ a \in Heads /\ b \in Heads /\ ~ Contains(sb, p)
  BY <1>2
<1> HIDE DEF sa, sb
<1>5. D \in Links /\ Ring(D, a, r) /\ \A x \in Nodes : x # a /\ ~ Contains(sa, x) => D[x] = L[x]
  BY <1>1, <1>2, <1>4, RingDel
<1>6. r \in Seq(Pool) /\ IsInjective(r) /\ \A y : Contains(r, y) <=> Contains(sa, y) /\ y # p
  BY <1>2, <1>4, RemoveMembers
<1> HIDE DEF D, r
<1>7. Ring(D, b, sb)
  <2>1. D[b] = L[b]
    BY <1>2, <1>3, <1>5
  <2>2. \A x \in Pool : Contains(sb, x) => D[x] = L[x]
    BY <1>2, <1>3, <1>4, <1>5 DEF sa
  <2> QED BY <1>1, <1>3, <2>1, <2>2, RingFrame
<1>8. /\ L1 \in Links /\ Ring(L1, b, <<p>> \o sb)
      /\ \A x \in Nodes : x # b /\ x # p /\ ~ Contains(sb, x) => L1[x] = D[x]
  BY <1>3, <1>4, <1>5, <1>7, RingAdd
<1> HIDE DEF L1
<1>9. Ring(L1, a, r)
  <2>1. L1[a] = D[a]
    BY <1>2, <1>3, <1>4, <1>8
  <2>2. \A x \in Pool : Contains(r, x) => L1[x] = D[x]
    <3>1. \A x \in Pool : Contains(r, x) => x \in Nodes /\ x # b /\ x # p /\ ~ Contains(sb, x)
      BY <1>2, <1>3, <1>4, <1>6 DEF sb
    <3> QED BY <1>8, <3>1
  <2> QED BY <1>2, <1>5, <1>6, <2>1, <2>2, RingFrame
<1> DEFINE X == {x \in Nodes : x = a \/ x = b \/ Contains(sa, x) \/ Contains(sb, x)}
<1>10. \A x \in Nodes : x \notin X => L1[x] = L[x]
  BY <1>4, <1>5, <1>8
<1>11. ASSUME NEW h \in live PROVE Ring(L1, h, q1[h])
  <2>1. CASE h = a
    BY <1>9, <2>1 DEF r, sa
  <2>2. CASE h = b
    BY <1>8, <2>2 DEF sb
  <2>3. CASE h # a /\ h # b
    <3>1. h \in Heads /\ Ring(L, h, q[h]) /\ q1[h] = q[h] /\ h \notin Pool
      BY <1>1, <2>3, HeadsApart
    <3>2. h \notin X
      BY <1>2, <1>3, <2>3, <3>1
    <3>3. \A x \in X : ~ Contains(q[h], x)
      <4>1. \A x : Contains(q[h], x) => x \in Pool
        BY <3>1, SeparateIs
      <4> QED BY <1>2, <1>3, <2>3, <3>1, <4>1
    <3> HIDE DEF X
    <3>4. Ring(L1, h, q[h])
      BY <1>10, <3>1, <3>2, <3>3, OtherRings
    <3> QED BY <3>1, <3>4
  <2> QED BY <2>1, <2>2, <2>3
<1>12. ASSUME NEW t \in Thread PROVE Path(L1, t, ls[t], at[t])
  <2>1. Path(L, t, ls[t], at[t])
    BY DEF Agree, Paths
  <2>2. \A x \in X : ~ Contains(ls[t], x)
    <3>1. \A x : Contains(ls[t], x) => x \in Pool
      <4>1. ls[t] \in Seq(Pool)
        BY DEF Separate
      <4> QED BY <4>1, MembersAsSet
    <3> QED BY <1>2, <1>3, <3>1
  <2> HIDE DEF X
  <2> QED BY <1>10, <2>1, <2>2, OtherPath
<1> QED BY <1>8, <1>11, <1>12 DEF Agree, Rings, Paths, L1, D

\* A pool that was on no list comes to the front of one.
LEMMA AddKept ==
    ASSUME NEW q, NEW ls, Separate(q, ls), NEW live \in SUBSET Heads, NEW L, NEW at,
           Agree(L, live, q, ls, at), NEW b \in live, NEW p \in Pool,
           \A h \in Heads : ~ Contains(q[h], p), \A t \in Thread : ~ Contains(ls[t], p),
           NEW q1, q1[b] = <<p>> \o q[b], \A h \in live : h # b => q1[h] = q[h]
    PROVE  Agree(list_add(L, p, b), live, q1, ls, at)
<1> DEFINE L1 == list_add(L, p, b)
           sb == q[b]
<1>1. L \in Links /\ Ring(L, b, sb) /\ \A h \in live : Ring(L, h, q[h])
  BY DEF Agree, Rings
<1>2. /\ b \in Nodes \ Pool /\ sb \in Seq(Pool) /\ IsInjective(sb)
      /\ \A x : Contains(sb, x) => x \in Pool /\ x \in Nodes
      /\ \A x : \A g \in Heads : g # b /\ Contains(sb, x) => ~ Contains(q[g], x)
      /\ \A x : \A t \in Thread : Contains(sb, x) => ~ Contains(ls[t], x)
  BY SeparateIs
<1>3. ~ Contains(sb, p) /\ b \in Heads
  OBVIOUS
<1> HIDE DEF sb
<1>4. /\ L1 \in Links /\ Ring(L1, b, <<p>> \o sb)
      /\ \A x \in Nodes : x # b /\ x # p /\ ~ Contains(sb, x) => L1[x] = L[x]
  BY <1>1, <1>2, <1>3, RingAdd
<1> HIDE DEF L1
<1> DEFINE X == {x \in Nodes : x = p \/ x = b \/ Contains(sb, x)}
<1>5. \A x \in Nodes : x \notin X => L1[x] = L[x]
  BY <1>4
<1>6. ASSUME NEW h \in live PROVE Ring(L1, h, q1[h])
  <2>1. CASE h = b
    BY <1>4, <2>1 DEF sb
  <2>2. CASE h # b
    <3>1. h \in Heads /\ Ring(L, h, q[h]) /\ q1[h] = q[h] /\ h \notin Pool
      BY <1>1, <2>2, HeadsApart
    <3>2. h \notin X
      BY <1>2, <2>2, <3>1
    <3>3. \A x \in X : ~ Contains(q[h], x)
      <4>1. \A x : Contains(q[h], x) => x \in Pool
        BY <3>1, SeparateIs
      <4> QED BY <1>2, <2>2, <3>1, <4>1
    <3> HIDE DEF X
    <3>4. Ring(L1, h, q[h])
      BY <1>5, <3>1, <3>2, <3>3, OtherRings
    <3> QED BY <3>1, <3>4
  <2> QED BY <2>1, <2>2
<1>7. ASSUME NEW t \in Thread PROVE Path(L1, t, ls[t], at[t])
  <2>1. Path(L, t, ls[t], at[t])
    BY DEF Agree, Paths
  <2>2. \A x \in X : ~ Contains(ls[t], x)
    <3>1. \A x : Contains(ls[t], x) => x \in Pool
      <4>1. ls[t] \in Seq(Pool)
        BY DEF Separate
      <4> QED BY <4>1, MembersAsSet
    <3> QED BY <1>2, <3>1
  <2> HIDE DEF X
  <2> QED BY <1>5, <2>1, <2>2, OtherPath
<1> QED BY <1>4, <1>6, <1>7 DEF Agree, Rings, Paths, L1
\* The lists of caches other than c are the same.
Elsewhere(c, f, q, b, f1, q1, b1) ==
    \A d \in Cache : d # c => f1[d] = f[d] /\ q1[d] = q[d] /\ b1[d] = b[d]

\* Lists a step on cache c leaves alone.
LEMMA OnlyCache ==
    ASSUME NEW f, NEW q, NEW b, NEW f1, NEW q1, NEW b1, NEW c \in Cache,
           Elsewhere(c, f, q, b, f1, q1, b1),
           NEW h \in Heads,
           h = FreeHead(c) => f1[c] = f[c],
           h = PartialHead(c) => q1[c] = q[c],
           h = BusyHead(c) => b1[c] = b[c]
    PROVE  ByHead(f1, q1, b1)[h] = ByHead(f, q, b)[h]
<1>1. PICK d \in Cache : h \in {FreeHead(d), PartialHead(d), BusyHead(d)}
  BY HeadsApart
<1>2. /\ ByHead(f, q, b)[FreeHead(d)] = f[d]
      /\ ByHead(f, q, b)[PartialHead(d)] = q[d]
      /\ ByHead(f, q, b)[BusyHead(d)] = b[d]
  BY ByHeadIs
<1>3. /\ ByHead(f1, q1, b1)[FreeHead(d)] = f1[d]
      /\ ByHead(f1, q1, b1)[PartialHead(d)] = q1[d]
      /\ ByHead(f1, q1, b1)[BusyHead(d)] = b1[d]
  BY ByHeadIs
<1>4. CASE d = c
  BY <1>1, <1>2, <1>3, <1>4
<1>5. CASE d # c
  BY <1>1, <1>2, <1>3, <1>5 DEF Elsewhere
<1> QED BY <1>4, <1>5

\* What the pointers of the heads of a cache in use say.
LEMMA HeadPointers ==
    ASSUME SlabInv, LinksInv, NEW c \in Cache \ released
    PROVE  /\ FreeHead(c) \in Live /\ PartialHead(c) \in Live /\ BusyHead(c) \in Live
           /\ Queue[FreeHead(c)] = free_pools[c] /\ Queue[PartialHead(c)] = partial_pools[c]
           /\ Queue[BusyHead(c)] = busy_pools[c]
           /\ list_empty(links, FreeHead(c)) <=> free_pools[c] = <<>>
           /\ list_empty(links, PartialHead(c)) <=> partial_pools[c] = <<>>
           /\ free_pools[c] # <<>> => list_first(links, FreeHead(c)) = Head(free_pools[c])
           /\ partial_pools[c] # <<>> => list_first(links, PartialHead(c)) = Head(partial_pools[c])
<1>1. FreeHead(c) \in Live /\ PartialHead(c) \in Live /\ BusyHead(c) \in Live
  BY HeadsApart DEF Live
<1>2. Queue[FreeHead(c)] = free_pools[c] /\ Queue[PartialHead(c)] = partial_pools[c]
      /\ Queue[BusyHead(c)] = busy_pools[c]
  BY ByHeadIs DEF Queue
<1>3. free_pools[c] \in Seq(Pool) /\ IsInjective(free_pools[c])
      /\ partial_pools[c] \in Seq(Pool) /\ IsInjective(partial_pools[c])
  BY DEF SlabInv, SlabShape, CacheLists
<1>4. Ring(links, FreeHead(c), free_pools[c]) /\ Ring(links, PartialHead(c), partial_pools[c])
  BY <1>1, <1>2 DEF LinksInv, Agree, Rings
<1>5. FreeHead(c) \notin Pool /\ PartialHead(c) \notin Pool
  BY HeadsApart
<1>6. /\ links[FreeHead(c)].next = FreeHead(c) <=> free_pools[c] = <<>>
      /\ free_pools[c] # <<>> => links[FreeHead(c)].next = Head(free_pools[c])
  BY <1>3, <1>4, <1>5, RingEnds
<1>7. /\ links[PartialHead(c)].next = PartialHead(c) <=> partial_pools[c] = <<>>
      /\ partial_pools[c] # <<>> => links[PartialHead(c)].next = Head(partial_pools[c])
  BY <1>3, <1>4, <1>5, RingEnds
<1> QED BY <1>1, <1>2, <1>6, <1>7 DEF list_empty, list_first

\* The links and the lists after a step.
LinksFollow == Agree(links', Live, Queue', list', ptr')

\* mem_cache_alloc() from a partial pool: it moves to the busy ones when its
\* last object goes.
LEMMA AllocPartialLinks ==
    ASSUME SlabInv, LinksInv, NEW c \in Cache \ released, AllocPartial(c), AllocLinks(c),
           UNCHANGED <<list, ptr>>
    PROVE  LinksFollow
<1> DEFINE s == partial_pools[c]
           p == Head(s)
<1>1. /\ PartialHead(c) \in Live /\ BusyHead(c) \in Live
      /\ Queue[PartialHead(c)] = s /\ Queue[BusyHead(c)] = busy_pools[c]
      /\ list_empty(links, PartialHead(c)) <=> s = <<>>
      /\ s # <<>> => list_first(links, PartialHead(c)) = p
  BY HeadPointers
<1>2. s # <<>> /\ s \in Seq(Pool) /\ IsInjective(s) /\ c # Large
  BY SlabAssumption DEF AllocPartial, SlabInv, SlabShape, CacheLists, Cache, Large
<1>3. p \in Pool /\ Contains(s, p) /\ RemoveFirst(s, p) = Tail(s)
  BY <1>2, TailMembers, RemoveHead
<1>4. free' = [free EXCEPT ![p] = free[p] - 1] /\ free_pools' = free_pools
  BY DEF AllocPartial, mem_pool_alloc
<1>5. free[p] \in 0 .. OBJS /\ free'[p] = free[p] - 1 /\ OBJS \in Nat
  BY <1>3, <1>4, SlabAssumption DEF SlabInv, SlabShape
<1>6. links' = IF free'[p] = 0 THEN Move(p, BusyHead(c)) ELSE links
  BY <1>1, <1>2 DEF AllocLinks
<1>7. /\ free[p] = 1 => /\ partial_pools' = [partial_pools EXCEPT ![c] = Tail(s)]
                        /\ busy_pools' = [busy_pools EXCEPT ![c] = <<p>> \o busy_pools[c]]
      /\ free[p] # 1 => UNCHANGED <<partial_pools, busy_pools>>
  BY DEF AllocPartial
<1>8. Separate(Queue, list) /\ Live \in SUBSET Heads
  BY ListsSeparate DEF Live
<1>9. Agree(links, Live, Queue, list, ptr)
  BY DEF LinksInv
<1> HIDE DEF p
<1>10. CASE free[p] = 1
  <2> DEFINE q1 == ByHead(free_pools', partial_pools', busy_pools')
  <2>1. partial_pools'[c] = Tail(s) /\ busy_pools'[c] = <<p>> \o busy_pools[c] /\ free_pools'[c] = free_pools[c]
        /\ Elsewhere(c, free_pools, partial_pools, busy_pools, free_pools', partial_pools', busy_pools')
    BY <1>4, <1>7, <1>10 DEF SlabInv, SlabShape, Elsewhere
  <2>2. q1[PartialHead(c)] = RemoveFirst(Queue[PartialHead(c)], p)
    BY <1>1, <1>3, <2>1, ByHeadIs
  <2>3. q1[BusyHead(c)] = <<p>> \o Queue[BusyHead(c)]
    <3>1. q1[BusyHead(c)] = busy_pools'[c]
      BY ByHeadIs
    <3> HIDE DEF q1
    <3>2. Queue[BusyHead(c)] = busy_pools[c] /\ busy_pools'[c] = <<p>> \o busy_pools[c]
      BY <1>1, <2>1
    <3> QED BY <3>1, <3>2
  <2>4. ASSUME NEW h \in Live, h # PartialHead(c), h # BusyHead(c) PROVE q1[h] = Queue[h]
    <3>1. h \in Heads
      BY <1>8
    <3> QED BY <2>1, <2>4, <3>1, OnlyCache DEF Queue
  <2>5. PartialHead(c) # BusyHead(c)
    BY HeadsApart
  <2>6. links' = list_add(list_del(links, p), p, BusyHead(c))
    BY <1>5, <1>6, <1>10 DEF Move
  <2>7. Queue' = q1
    BY DEF Queue
  <2> HIDE DEF q1
  <2>8. Contains(Queue[PartialHead(c)], p)
    BY <1>1, <1>3
  <2>9. Agree(list_add(list_del(links, p), p, BusyHead(c)), Live, q1, list, ptr)
    BY <1>1, <1>8, <1>9, <2>2, <2>3, <2>4, <2>5, <2>8, MoveKept
  <2> QED BY <2>6, <2>7, <2>9 DEF LinksFollow
<1>11. CASE free[p] # 1
  <2>1. links' = links
    BY <1>5, <1>6, <1>11
  <2>2. Queue' = Queue
    BY <1>4, <1>7, <1>11 DEF Queue
  <2> QED BY <1>9, <2>1, <2>2 DEF LinksFollow
<1> QED BY <1>10, <1>11

\* From a free pool: it moves to the partial ones, as it has two objects at least.
LEMMA AllocFreeLinks ==
    ASSUME SlabInv, LinksInv, NEW c \in Cache \ released, AllocFree(c), AllocLinks(c),
           UNCHANGED <<list, ptr>>
    PROVE  LinksFollow
<1> DEFINE s == free_pools[c]
           p == Head(s)
<1>1. /\ FreeHead(c) \in Live /\ PartialHead(c) \in Live
      /\ Queue[FreeHead(c)] = s /\ Queue[PartialHead(c)] = partial_pools[c]
      /\ list_empty(links, PartialHead(c)) <=> partial_pools[c] = <<>>
      /\ list_empty(links, FreeHead(c)) <=> s = <<>>
      /\ s # <<>> => list_first(links, FreeHead(c)) = p
  BY HeadPointers
<1>2. s # <<>> /\ partial_pools[c] = <<>> /\ s \in Seq(Pool) /\ IsInjective(s) /\ c # Large
  BY SlabAssumption DEF AllocFree, SlabInv, SlabShape, CacheLists, Cache, Large
<1>3. p \in Pool /\ Contains(s, p) /\ RemoveFirst(s, p) = Tail(s)
  BY <1>2, TailMembers, RemoveHead
<1>4. /\ free' = [free EXCEPT ![p] = free[p] - 1] /\ busy_pools' = busy_pools
      /\ free_pools' = [free_pools EXCEPT ![c] = Tail(s)]
      /\ partial_pools' = [partial_pools EXCEPT ![c] = <<p>> \o partial_pools[c]]
  BY DEF AllocFree, mem_pool_alloc
<1>5. free[p] \in 0 .. OBJS /\ free'[p] = free[p] - 1 /\ OBJS \in Nat
  BY <1>3, <1>4, SlabAssumption DEF SlabInv, SlabShape
<1>6. links' = IF free'[p] # OBJS THEN Move(p, PartialHead(c)) ELSE links
  BY <1>1, <1>2 DEF AllocLinks
<1>7. links' = list_add(list_del(links, p), p, PartialHead(c))
  <2>1. free'[p] # OBJS
    BY <1>5
  <2> QED BY <1>6, <2>1 DEF Move
<1>8. Separate(Queue, list) /\ Live \in SUBSET Heads
  BY ListsSeparate DEF Live
<1>9. Agree(links, Live, Queue, list, ptr)
  BY DEF LinksInv
<1> HIDE DEF p
<1> DEFINE q1 == ByHead(free_pools', partial_pools', busy_pools')
<1>10. free_pools'[c] = Tail(s) /\ partial_pools'[c] = <<p>> \o partial_pools[c] /\ busy_pools'[c] = busy_pools[c]
       /\ Elsewhere(c, free_pools, partial_pools, busy_pools, free_pools', partial_pools', busy_pools')
  BY <1>4 DEF SlabInv, SlabShape, Elsewhere
<1>11. q1[FreeHead(c)] = RemoveFirst(Queue[FreeHead(c)], p)
  BY <1>1, <1>3, <1>10, ByHeadIs
<1>12. q1[PartialHead(c)] = <<p>> \o Queue[PartialHead(c)]
  <2>1. q1[PartialHead(c)] = partial_pools'[c]
    BY ByHeadIs
  <2> HIDE DEF q1
  <2> QED BY <1>1, <1>10, <2>1
<1>13. ASSUME NEW h \in Live, h # FreeHead(c), h # PartialHead(c) PROVE q1[h] = Queue[h]
  <2>1. h \in Heads
    BY <1>8
  <2> QED BY <1>10, <1>13, <2>1, OnlyCache DEF Queue
<1>14. FreeHead(c) # PartialHead(c) /\ Contains(Queue[FreeHead(c)], p)
  BY <1>1, <1>3, HeadsApart
<1>15. Queue' = q1
  BY DEF Queue
<1> HIDE DEF q1
<1>16. Agree(list_add(list_del(links, p), p, PartialHead(c)), Live, q1, list, ptr)
  BY <1>1, <1>8, <1>9, <1>11, <1>12, <1>13, <1>14, MoveKept
<1> QED BY <1>7, <1>15, <1>16 DEF LinksFollow

\* From new pages: a pool on no list yet.
LEMMA AllocCreateLinks ==
    ASSUME SlabInv, LinksInv, NEW c \in Cache \ released, AllocCreate(c), AllocLinks(c),
           UNCHANGED <<list, ptr>>
    PROVE  LinksFollow
<1>1. /\ PartialHead(c) \in Live /\ Queue[PartialHead(c)] = partial_pools[c]
      /\ list_empty(links, PartialHead(c)) <=> partial_pools[c] = <<>>
      /\ list_empty(links, FreeHead(c)) <=> free_pools[c] = <<>>
  BY HeadPointers
<1>2. partial_pools[c] = <<>> /\ free_pools[c] = <<>> /\ c # Large
  BY SlabAssumption DEF AllocCreate, Cache, Large
<1>3. PICK p \in pages : /\ pages' = pages \ {p}
                         /\ partial_pools' = [partial_pools EXCEPT ![c] = <<p>> \o partial_pools[c]]
  BY DEF AllocCreate
<1>4. free_pools' = free_pools /\ busy_pools' = busy_pools
  BY DEF AllocCreate
<1>5. PICK o \in pages \ pages' : links' = list_add(links, o, PartialHead(c))
  BY <1>1, <1>2 DEF AllocLinks
<1>6. o = p /\ p \in Pool
  BY <1>3, <1>5 DEF SlabInv, SlabShape
<1>7. tag[p] = NoTag /\ NoTag \notin Cache
  BY <1>6 DEF SlabInv, PagesUntagged, NoTag, Cache
<1>8. \A h \in Heads : ~ Contains(Queue[h], p)
  <2> SUFFICES ASSUME NEW h \in Heads PROVE ~ Contains(Queue[h], p)
    OBVIOUS
  <2>1. h[2] \in Cache /\ h \in {FreeHead(h[2]), PartialHead(h[2]), BusyHead(h[2])}
    BY HeadsApart
  <2>2. /\ Queue[FreeHead(h[2])] = free_pools[h[2]] /\ Queue[PartialHead(h[2])] = partial_pools[h[2]]
        /\ Queue[BusyHead(h[2])] = busy_pools[h[2]]
    BY <2>1, ByHeadIs DEF Queue
  <2>3. Placed(h[2], p)
    BY <1>6, <2>1 DEF SlabInv, CacheLists
  <2>4. ~ Contains(free_pools[h[2]], p) /\ ~ Contains(partial_pools[h[2]], p) /\ ~ Contains(busy_pools[h[2]], p)
    BY <1>7, <2>1, <2>3 DEF Placed
  <2> QED BY <2>1, <2>2, <2>4
<1>9. \A t \in Thread : ~ Contains(list[t], p)
  BY <1>6, <1>7 DEF SlabInv, SplicedUnused
<1>10. Separate(Queue, list) /\ Live \in SUBSET Heads
  BY ListsSeparate DEF Live
<1>11. Agree(links, Live, Queue, list, ptr)
  BY DEF LinksInv
<1> DEFINE q1 == ByHead(free_pools', partial_pools', busy_pools')
<1>12. partial_pools'[c] = <<p>> \o partial_pools[c] /\ free_pools'[c] = free_pools[c] /\ busy_pools'[c] = busy_pools[c]
       /\ Elsewhere(c, free_pools, partial_pools, busy_pools, free_pools', partial_pools', busy_pools')
  BY <1>3, <1>4 DEF SlabInv, SlabShape, Elsewhere
<1>13. q1[PartialHead(c)] = <<p>> \o Queue[PartialHead(c)]
  <2>1. q1[PartialHead(c)] = partial_pools'[c]
    BY ByHeadIs
  <2> HIDE DEF q1
  <2> QED BY <1>1, <1>12, <2>1
<1>14. ASSUME NEW h \in Live, h # PartialHead(c) PROVE q1[h] = Queue[h]
  <2>1. h \in Heads
    BY <1>10
  <2> QED BY <1>12, <1>14, <2>1, OnlyCache DEF Queue
<1>15. Queue' = q1
  BY DEF Queue
<1> HIDE DEF q1
<1>16. Agree(list_add(links, p, PartialHead(c)), Live, q1, list, ptr)
  BY <1>1, <1>6, <1>8, <1>9, <1>10, <1>11, <1>13, <1>14, AddKept
<1> QED BY <1>5, <1>6, <1>15, <1>16 DEF LinksFollow
\* mem_cache_free(): a pool that was full becomes a partial one, and one whose
\* last object came back a free one.
LEMMA FreeObjectLinks ==
    ASSUME SlabInv, LinksInv, NEW q \in held, mem_free(q), FreeLinks(q.pool), UNCHANGED <<list, ptr>>
    PROVE  LinksFollow
<1> DEFINE p == q.pool
           c == tag[p]
<1>1. Separate(Queue, list) /\ Live \in SUBSET Heads /\ Agree(links, Live, Queue, list, ptr)
  BY ListsSeparate DEF Live, LinksInv
<1>2. p \in Pool /\ c = q.class
  BY DEF SlabInv, SlabShape, Pointer, HeldTagged
<1>3. CASE c \notin Cache
  <2>1. links' = links
    BY <1>3 DEF FreeLinks
  <2>2. UNCHANGED <<free_pools, partial_pools, busy_pools>>
    BY <1>3 DEF mem_free
  <2>3. Queue' = Queue
    BY <2>2 DEF Queue
  <2> QED BY <1>1, <2>1, <2>3 DEF LinksFollow
<1>4. CASE c \in Cache
  <2>1. c \in Cache \ released
    BY <1>2, <1>4 DEF LinksInv, NoneReleased
  <2>2. free' = [free EXCEPT ![p] = @ + 1] /\ PlaceFreed(c, p)
    BY <1>4 DEF mem_free
  <2>3. OBJS \in Nat /\ OBJS > 1 /\ free[p] \in 0 .. OBJS /\ free'[p] = free[p] + 1
    BY <1>2, <2>2, SlabAssumption DEF SlabInv, SlabShape
  <2>4. free[p] # OBJS
    <3>1. SlabShape /\ HeldTagged /\ SlotsMarked
      BY DEF SlabInv
    <3> HIDE DEF p
    <3>2. free[p] = OBJS => \A r \in held : r.pool # p
      BY <1>2, <1>4, <3>1, NobodyHolds
    <3> QED BY <3>2 DEF p
  <2>5. Placed(c, p) /\ ~ Spliced(p)
    BY <1>2, <1>4, <2>4 DEF SlabInv, CacheLists, SplicedUnused, Spliced
  <2>6. /\ FreeHead(c) \in Live /\ PartialHead(c) \in Live /\ BusyHead(c) \in Live
        /\ Queue[FreeHead(c)] = free_pools[c] /\ Queue[PartialHead(c)] = partial_pools[c]
        /\ Queue[BusyHead(c)] = busy_pools[c]
    BY <2>1, HeadPointers
  <2>7. links' = IF free'[p] = OBJS THEN Move(p, FreeHead(c))
                 ELSE IF free'[p] = 1 THEN Move(p, PartialHead(c)) ELSE links
    BY <1>4 DEF FreeLinks
  <2>8. FreeHead(c) # PartialHead(c) /\ PartialHead(c) # BusyHead(c) /\ FreeHead(c) # BusyHead(c)
    BY HeadsApart
  <2> DEFINE q1 == ByHead(free_pools', partial_pools', busy_pools')
  <2>9. Queue' = q1
    BY DEF Queue
  <2>10. q1[FreeHead(c)] = free_pools'[c] /\ q1[PartialHead(c)] = partial_pools'[c] /\ q1[BusyHead(c)] = busy_pools'[c]
    BY <1>4, ByHeadIs
  <2>11. /\ busy_pools' = [busy_pools EXCEPT ![c] = IF free[p] + 1 = 1 THEN RemoveFirst(busy_pools[c], p) ELSE busy_pools[c]]
         /\ partial_pools' = [partial_pools EXCEPT ![c] = IF free[p] + 1 = OBJS THEN RemoveFirst(partial_pools[c], p)
                                                         ELSE IF free[p] + 1 = 1 THEN <<p>> \o partial_pools[c] ELSE partial_pools[c]]
         /\ free_pools' = [free_pools EXCEPT ![c] = IF free[p] + 1 = OBJS THEN <<p>> \o free_pools[c] ELSE free_pools[c]]
    BY <2>2 DEF PlaceFreed
  <2>12. Elsewhere(c, free_pools, partial_pools, busy_pools, free_pools', partial_pools', busy_pools')
    BY <2>11 DEF Elsewhere, SlabInv, SlabShape
  <2>13. /\ busy_pools'[c] = IF free[p] + 1 = 1 THEN RemoveFirst(busy_pools[c], p) ELSE busy_pools[c]
         /\ partial_pools'[c] = IF free[p] + 1 = OBJS THEN RemoveFirst(partial_pools[c], p)
                                ELSE IF free[p] + 1 = 1 THEN <<p>> \o partial_pools[c] ELSE partial_pools[c]
         /\ free_pools'[c] = IF free[p] + 1 = OBJS THEN <<p>> \o free_pools[c] ELSE free_pools[c]
    BY <1>4, <2>11 DEF SlabInv, SlabShape
  <2>14. ASSUME NEW h \in Live,
                h = FreeHead(c) => free_pools'[c] = free_pools[c],
                h = PartialHead(c) => partial_pools'[c] = partial_pools[c],
                h = BusyHead(c) => busy_pools'[c] = busy_pools[c]
         PROVE  q1[h] = Queue[h]
    <3>1. h \in Heads
      BY <1>1
    <3> HIDE DEF c
    <3> QED BY <1>4, <2>12, <2>14, <3>1, OnlyCache DEF Queue
  <2> HIDE DEF q1, p, c
  <2>15. CASE free[p] + 1 = OBJS
    <3>1. free[p] + 1 # 1 /\ free[p] # 0
      BY <2>3, <2>15
    <3>2. Contains(partial_pools[c], p)
      BY <2>4, <2>5, <3>1 DEF Placed, c
    <3>3. /\ q1[PartialHead(c)] = RemoveFirst(Queue[PartialHead(c)], p)
          /\ q1[FreeHead(c)] = <<p>> \o Queue[FreeHead(c)]
          /\ busy_pools'[c] = busy_pools[c]
      BY <2>6, <2>10, <2>13, <2>15, <3>1
    <3>4. \A h \in Live : h # PartialHead(c) /\ h # FreeHead(c) => q1[h] = Queue[h]
      BY <2>14, <3>3
    <3>5. links' = list_add(list_del(links, p), p, FreeHead(c))
      BY <2>3, <2>7, <2>15 DEF Move
    <3>6. Contains(Queue[PartialHead(c)], p)
      BY <2>6, <3>2
    <3>7. Agree(list_add(list_del(links, p), p, FreeHead(c)), Live, q1, list, ptr)
      BY <1>1, <2>6, <2>8, <3>3, <3>4, <3>6, MoveKept
    <3> QED BY <2>9, <3>5, <3>7 DEF LinksFollow
  <2>16. CASE free[p] + 1 = 1
    <3>1. free[p] + 1 # OBJS /\ free[p] \notin 1 .. OBJS - 1
      BY <2>3, <2>16
    <3>2. Contains(busy_pools[c], p)
      BY <2>4, <2>5, <3>1 DEF Placed, c
    <3>3. /\ q1[BusyHead(c)] = RemoveFirst(Queue[BusyHead(c)], p)
          /\ q1[PartialHead(c)] = <<p>> \o Queue[PartialHead(c)]
          /\ free_pools'[c] = free_pools[c]
      BY <2>6, <2>10, <2>13, <2>16, <3>1
    <3>4. \A h \in Live : h # BusyHead(c) /\ h # PartialHead(c) => q1[h] = Queue[h]
      BY <2>14, <3>3
    <3>5. links' = list_add(list_del(links, p), p, PartialHead(c))
      BY <2>3, <2>7, <2>16, <3>1 DEF Move
    <3>6. Contains(Queue[BusyHead(c)], p)
      BY <2>6, <3>2
    <3>7. Agree(list_add(list_del(links, p), p, PartialHead(c)), Live, q1, list, ptr)
      BY <1>1, <2>6, <2>8, <3>3, <3>4, <3>6, MoveKept
    <3> QED BY <2>9, <3>5, <3>7 DEF LinksFollow
  <2>17. CASE free[p] + 1 # OBJS /\ free[p] + 1 # 1
    <3>1. links' = links
      BY <2>3, <2>7, <2>17
    <3>2. free_pools'[c] = free_pools[c] /\ partial_pools'[c] = partial_pools[c] /\ busy_pools'[c] = busy_pools[c]
      BY <2>13, <2>17
    <3>3. \A h \in Live : q1[h] = Queue[h]
      BY <2>14, <3>2
    <3> QED BY <1>1, <2>9, <3>1, <3>3 DEF LinksFollow, Agree, Rings
  <2> QED BY <2>15, <2>16, <2>17
<1> QED BY <1>3, <1>4

\* mem_cache_shrink() under the lock: the free pools are on the thread's own list.
LEMMA ShrinkKept ==
    ASSUME SlabInv, LinksInv, NEW t \in Thread, NEW c \in Cache, Shrink(t, c), ShrinkLinks(t, c)
    PROVE  LinksFollow /\ ptr' \in [Thread -> Pointers]
<1> DEFINE s == free_pools[c]
           h == FreeHead(c)
           L0 == list_init(links, t)
           L == list_splice(L0, h, t)
<1>1. Separate(Queue, list) /\ Live \in SUBSET Heads /\ Agree(links, Live, Queue, list, ptr)
  BY ListsSeparate DEF Live, LinksInv
<1>2. c \in Cache \ released /\ list[t] = <<>>
  BY DEF Shrink, Idle
<1>3. /\ h \in Live /\ Queue[h] = s /\ h \in Heads /\ h \in Nodes \ Pool /\ t \in Nodes \ Pool /\ h # t
      /\ s \in Seq(Pool) /\ IsInjective(s) /\ \A x : Contains(s, x) => x \in Pool
  <2>1. h \in Live /\ Queue[h] = s
    BY <1>2, HeadPointers
  <2>2. h \in Heads /\ h \in Nodes \ Pool /\ t \in Nodes \ Pool /\ h # t
    BY HeadsApart
  <2>3. s \in Seq(Pool) /\ IsInjective(s)
    BY DEF SlabInv, SlabShape, CacheLists
  <2> QED BY <2>1, <2>2, <2>3, MembersAsSet
<1>4. links \in Links /\ Ring(links, h, s) /\ \A g \in Live : Ring(links, g, Queue[g])
  BY <1>1, <1>3 DEF Agree, Rings
<1>5. L0 \in Links /\ L0[t] = [next |-> t, prev |-> t] /\ \A x \in Nodes : x # t => L0[x] = links[x]
  BY <1>3, <1>4, InitStores
<1>6. /\ list' = [list EXCEPT ![t] = s] /\ free_pools' = [free_pools EXCEPT ![c] = <<>>]
      /\ partial_pools' = partial_pools /\ busy_pools' = busy_pools
  BY DEF Shrink
<1>7. list'[t] = s /\ \A u \in Thread : u # t => list'[u] = list[u]
  BY <1>6 DEF SlabInv, SlabShape
<1>8. /\ links' = IF list_empty(L, t) THEN Gone(L, {t}) ELSE L
      /\ ptr' = [ptr EXCEPT ![t] = list_first(L, t)]
  BY DEF ShrinkLinks
<1>9. ptr \in [Thread -> Pointers]
  BY DEF LinksInv
<1> DEFINE q1 == ByHead(free_pools', partial_pools', busy_pools')
<1>10. Queue' = q1
  BY DEF Queue
<1>11. /\ q1[h] = <<>>
       /\ Elsewhere(c, free_pools, partial_pools, busy_pools, free_pools', partial_pools', busy_pools')
       /\ partial_pools'[c] = partial_pools[c] /\ busy_pools'[c] = busy_pools[c]
  <2>1. q1[h] = free_pools'[c]
    BY ByHeadIs
  <2> HIDE DEF q1
  <2>2. free_pools'[c] = <<>>
    BY <1>6 DEF SlabInv, SlabShape
  <2>3. Elsewhere(c, free_pools, partial_pools, busy_pools, free_pools', partial_pools', busy_pools')
    BY <1>6 DEF SlabInv, SlabShape, Elsewhere
  <2> QED BY <1>6, <2>1, <2>2, <2>3
<1>12. ASSUME NEW g \in Live, g # h PROVE q1[g] = Queue[g]
  <2>1. g \in Heads
    BY <1>1
  <2> QED BY <1>11, <1>12, <2>1, OnlyCache DEF Queue
<1> HIDE DEF q1, L, L0, s, h
<1> DEFINE X == {x \in Nodes : x = h \/ x = t \/ Contains(s, x)}
<1>13. \A u \in Thread : u # t =>
          list[u] \in Seq(Pool) /\ Path(links, u, list[u], ptr[u]) /\ \A x \in X : ~ Contains(list[u], x)
  <2> SUFFICES ASSUME NEW u \in Thread
               PROVE  list[u] \in Seq(Pool) /\ Path(links, u, list[u], ptr[u]) /\ \A x \in X : ~ Contains(list[u], x)
    OBVIOUS
  <2>1. list[u] \in Seq(Pool) /\ Path(links, u, list[u], ptr[u])
    BY <1>1 DEF Separate, Agree, Paths
  <2>2. \A x : Contains(list[u], x) => x \in Pool
    BY <2>1, MembersAsSet
  <2>3. \A x \in Pool : Contains(s, x) => ~ Contains(list[u], x)
    BY <1>1, <1>3 DEF Separate
  <2> QED BY <1>3, <2>1, <2>2, <2>3
<1>14. ASSUME NEW g \in Live, g # h
       PROVE  g \notin X /\ \A x \in X : ~ Contains(Queue[g], x)
  <2>1. g \in Heads /\ g \notin Pool /\ g # t
    BY <1>1, HeadsApart
  <2>2. \A x : Contains(Queue[g], x) => x \in Pool
    BY <1>1, <2>1, SeparateIs
  <2>3. \A x \in Pool : Contains(s, x) => ~ Contains(Queue[g], x)
    BY <1>1, <1>3, <1>14, <2>1 DEF Separate
  <2> QED BY <1>3, <1>14, <2>1, <2>2, <2>3
<1>15. ASSUME NEW M \in Links, \A x \in Nodes : x \notin X => M[x] = links[x], NEW at, at \in Pointers,
              Ring(M, h, <<>>), Path(M, t, s, at)
       PROVE  /\ Agree(M, Live, q1, list', [ptr EXCEPT ![t] = at])
              /\ [ptr EXCEPT ![t] = at] \in [Thread -> Pointers]
  <2> DEFINE z == [ptr EXCEPT ![t] = at]
  <2>1. z \in [Thread -> Pointers] /\ z[t] = at /\ \A u \in Thread : u # t => z[u] = ptr[u]
    BY <1>9, <1>15
  <2> HIDE DEF z, X
  <2>2. ASSUME NEW g \in Live PROVE Ring(M, g, q1[g])
    <3>1. CASE g = h
      BY <1>11, <1>15, <3>1
    <3>2. CASE g # h
      <4>1. g \in Heads /\ Ring(links, g, Queue[g]) /\ g \notin X /\ \A x \in X : ~ Contains(Queue[g], x)
        BY <1>1, <1>4, <1>14, <3>2
      <4>2. Ring(M, g, Queue[g])
        BY <1>1, <1>15, <4>1, OtherRings
      <4> QED BY <1>12, <3>2, <4>2
    <3> QED BY <3>1, <3>2
  <2>3. ASSUME NEW u \in Thread PROVE Path(M, u, list'[u], z[u])
    <3>1. CASE u = t
      BY <1>7, <1>15, <2>1, <3>1
    <3>2. CASE u # t
      <4>1. Path(links, u, list[u], ptr[u]) /\ \A x \in X : ~ Contains(list[u], x)
        BY <1>13, <3>2
      <4>2. Path(M, u, list[u], ptr[u])
        BY <1>1, <1>15, <4>1, OtherPath
      <4> QED BY <1>7, <2>1, <3>2, <4>2
    <3> QED BY <3>1, <3>2
  <2>4. Agree(M, Live, q1, list', z)
    BY <1>15, <2>2, <2>3 DEF Agree, Rings, Paths
  <2> QED BY <2>1, <2>4 DEF z
<1>16. Ring(L0, h, s)
  <2>1. L0[h] = links[h] /\ \A x \in Pool : Contains(s, x) => L0[x] = links[x]
    <3>1. \A x \in Pool : x \in Nodes /\ x # t
      BY <1>3 DEF Nodes
    <3> QED BY <1>3, <1>5, <3>1
  <2> QED BY <1>3, <1>4, <2>1, RingFrame
<1>17. CASE s = <<>>
  <2>1. L0[h].next = h
    <3>1. L0[h].next = h <=> s = <<>>
      BY <1>3, <1>16, RingEnds
    <3> QED BY <1>17, <3>1
  <2>2. L = L0
    BY <2>1 DEF L, list_splice, list_empty
  <2>3. list_empty(L, t) /\ list_first(L, t) = t
    BY <1>5, <2>2 DEF list_empty, list_first
  <2> DEFINE M == Gone(L0, {t})
  <2>4. M \in Links /\ \A x \in Nodes : x \notin {t} => M[x] = L0[x]
    BY <1>5, GoneStores
  <2>5. links' = M /\ ptr' = [ptr EXCEPT ![t] = t]
    BY <1>8, <2>2, <2>3
  <2> HIDE DEF M
  <2>6. \A x \in Nodes : x \notin X => M[x] = links[x]
    BY <1>5, <2>4
  <2>7. Ring(M, h, <<>>)
    <3>1. M[h] = links[h] /\ \A x \in Pool : Contains(s, x) => M[x] = links[x]
      BY <1>3, <1>5, <2>4 DEF Nodes
    <3>2. Ring(M, h, s)
      BY <1>3, <1>4, <3>1, RingFrame
    <3> QED BY <1>17, <3>2
  <2>8. Path(M, t, s, t)
    <3>1. Len(s) = 0 /\ At(t, s, 1) = t
      BY <1>17 DEF At
    <3> QED BY <3>1 DEF Path
  <2>9. t \in Pointers
    BY <1>3 DEF Pointers
  <2> HIDE DEF X
  <2> QED BY <1>10, <1>15, <2>4, <2>5, <2>6, <2>7, <2>8, <2>9 DEF LinksFollow
<1>18. CASE s # <<>>
  <2>1. L \in Links /\ Ring(L, t, s) /\ Ring(L, h, <<>>)
        /\ \A x \in Nodes : x # h /\ x # t /\ ~ Contains(s, x) => L[x] = L0[x]
    BY <1>3, <1>5, <1>16, <1>18, RingSplice DEF L
  <2>2. L[t].next = Head(s) /\ Head(s) \in Pool
    BY <1>3, <1>18, <2>1, RingEnds, TailMembers
  <2>3. ~ list_empty(L, t) /\ list_first(L, t) = L[t].next
    BY <1>3, <2>2 DEF list_empty, list_first
  <2>4. links' = L /\ ptr' = [ptr EXCEPT ![t] = L[t].next]
    BY <1>8, <2>3
  <2>5. Path(L, t, s, L[t].next)
    BY <1>3, <2>1, RingIsPath
  <2>6. \A x \in Nodes : x \notin X => L[x] = links[x]
    BY <1>5, <2>1
  <2>7. L[t].next \in Pointers
    BY <2>2 DEF Pointers, Nodes
  <2> HIDE DEF X
  <2> DEFINE at == L[t].next
  <2> HIDE DEF at
  <2>8. at \in Pointers /\ Path(L, t, s, at) /\ ptr' = [ptr EXCEPT ![t] = at]
    BY <2>4, <2>5, <2>7 DEF at
  <2>9. Agree(L, Live, q1, list', [ptr EXCEPT ![t] = at]) /\ [ptr EXCEPT ![t] = at] \in [Thread -> Pointers]
    BY <1>15, <2>1, <2>6, <2>8
  <2> QED BY <1>10, <2>4, <2>8, <2>9 DEF LinksFollow
<1> QED BY <1>17, <1>18
\* A round of the loop of mem_cache_shrink(): the pool and, after the last one,
\* the head are gone, and the pointer is one entry further.
LEMMA DestroyKept ==
    ASSUME SlabInv, LinksInv, NEW t \in Thread, ShrinkDestroy(t), DestroyLinks(t)
    PROVE  LinksFollow /\ ptr' \in [Thread -> Pointers]
<1> DEFINE s == list[t]
           r == Tail(s)
           next == links[ptr[t]].next
           X == {ptr[t]} \cup IF next = t THEN {t} ELSE {}
           M == Gone(links, X)
<1>1. Separate(Queue, list) /\ Live \in SUBSET Heads /\ Agree(links, Live, Queue, list, ptr)
  BY ListsSeparate DEF Live, LinksInv
<1>2. s # <<>> /\ s \in Seq(Pool) /\ IsInjective(s) /\ t \in Nodes /\ t \notin Pool
  BY <1>1, HeadsApart DEF ShrinkDestroy, Separate
<1>3. Path(links, t, s, ptr[t]) /\ links \in Links
  BY <1>1 DEF Agree, Paths
<1>4. /\ r \in Seq(Pool) /\ ~ Contains(r, Head(s)) /\ Head(s) \in Pool /\ Contains(s, Head(s))
      /\ \A y : Contains(s, y) <=> Contains(r, y) \/ y = Head(s)
  BY <1>2, TailMembers
<1>5. Len(s) \in Nat \ {0} /\ Head(s) = s[1] /\ Len(r) = Len(s) - 1 /\ \A i \in 1 .. Len(r) : r[i] = s[i + 1]
  BY <1>2, HeadTailProperties, EmptySeq, LenProperties
<1>6. 1 \in 1 .. Len(s) /\ 1 + 1 = 2
  BY <1>5
<1>7. ptr[t] = Head(s) /\ next = At(t, s, 2)
  BY <1>3, <1>5, <1>6 DEF Path, At
<1> HIDE DEF r
<1>8. \A i \in 1 .. Len(r) + 1 : At(t, r, i) = At(t, s, i + 1)
  <2> SUFFICES ASSUME NEW i \in 1 .. Len(r) + 1 PROVE At(t, r, i) = At(t, s, i + 1)
    OBVIOUS
  <2>1. CASE i \in 1 .. Len(r)
    <3>1. i + 1 \in 1 .. Len(s)
      BY <1>5, <2>1
    <3> QED BY <1>5, <2>1, <3>1 DEF At
  <2>2. CASE i \notin 1 .. Len(r)
    <3>1. i + 1 \notin 1 .. Len(s)
      BY <1>5, <2>2
    <3> QED BY <2>2, <3>1 DEF At
  <2> QED BY <2>1, <2>2
<1>9. M \in Links /\ \A x \in Nodes : x \notin X => M[x] = links[x]
  BY <1>3, GoneStores
<1>10. X \subseteq {Head(s), t}
  BY <1>7
<1>11. next \in Pointers
  <2>1. ptr[t] \in Nodes
    BY <1>4, <1>7 DEF Nodes
  <2> QED BY <1>3, <2>1 DEF Links
<1>12. links' = M /\ ptr' = [ptr EXCEPT ![t] = next]
  BY DEF DestroyLinks
<1>13. ptr' \in [Thread -> Pointers] /\ ptr'[t] = next /\ \A u \in Thread : u # t => ptr'[u] = ptr[u]
  <2> HIDE DEF next
  <2> QED BY <1>11, <1>12 DEF LinksInv
<1> HIDE DEF M, X, next
<1>14. list'[t] = r /\ \A u \in Thread : u # t => list'[u] = list[u]
  BY DEF ShrinkDestroy, SlabInv, SlabShape, r
<1>15. Queue' = Queue
  BY DEF ShrinkDestroy, Queue
<1>16. ASSUME NEW g \in Live PROVE Ring(M, g, Queue[g])
  <2>1. g \in Heads /\ Ring(links, g, Queue[g]) /\ g \notin Pool /\ g # t
    BY <1>1, HeadsApart DEF Agree, Rings
  <2>2. /\ \A x : Contains(Queue[g], x) => x \in Pool
        /\ \A x : \A u \in Thread : Contains(Queue[g], x) => ~ Contains(list[u], x)
    BY <1>1, <2>1, SeparateIs
  <2>3. g \notin X /\ \A x \in X : ~ Contains(Queue[g], x)
    BY <1>2, <1>4, <1>10, <2>1, <2>2
  <2> QED BY <1>1, <1>9, <2>1, <2>3, OtherRings
<1>17. ASSUME NEW u \in Thread PROVE Path(M, u, list'[u], ptr'[u])
  <2>1. CASE u = t
    <3>1. next = At(t, r, 1)
      <4>1. 1 \in 1 .. Len(r) + 1
        BY <1>5
      <4> QED BY <1>6, <1>7, <1>8, <4>1
    <3>2. ASSUME NEW i \in 1 .. Len(r) PROVE M[r[i]].next = At(t, r, i + 1)
      <4>1. i + 1 \in 1 .. Len(s) /\ i + 1 \in 1 .. Len(r) + 1
        BY <1>5
      <4>2. links[s[i + 1]].next = At(t, s, (i + 1) + 1)
        BY <1>3, <4>1 DEF Path
      <4>3. r[i] = s[i + 1] /\ At(t, r, i + 1) = At(t, s, (i + 1) + 1)
        BY <1>5, <1>8, <4>1
      <4>4. Contains(r, r[i])
        BY DEF Contains
      <4>5. r[i] \in Pool
        BY <1>4, ElementOfSeq
      <4>6. r[i] \in Nodes /\ r[i] \notin X
        BY <1>2, <1>4, <1>10, <4>4, <4>5 DEF Nodes
      <4>7. M[r[i]] = links[r[i]]
        BY <1>9, <4>6
      <4> QED BY <4>2, <4>3, <4>7
    <3>3. Path(M, t, r, next)
      BY <3>1, <3>2 DEF Path
    <3> QED BY <1>13, <1>14, <2>1, <3>3
  <2>2. CASE u # t
    <3>1. Path(links, u, list[u], ptr[u]) /\ list[u] \in Seq(Pool)
      BY <1>1 DEF Agree, Paths, Separate
    <3>2. \A x : Contains(list[u], x) => x \in Pool
      BY <3>1, MembersAsSet
    <3>3. ~ Contains(list[u], Head(s))
      BY <1>1, <1>4, <2>2 DEF Separate
    <3>4. \A x \in X : ~ Contains(list[u], x)
      BY <1>2, <1>10, <3>2, <3>3
    <3>5. Path(M, u, list[u], ptr[u])
      BY <1>1, <1>9, <3>1, <3>4, OtherPath
    <3> QED BY <1>13, <1>14, <2>2, <3>5
  <2> QED BY <2>1, <2>2
<1>18. Agree(M, Live, Queue, list', ptr')
  BY <1>9, <1>16, <1>17 DEF Agree, Rings, Paths
<1> QED BY <1>12, <1>13, <1>15, <1>18 DEF LinksFollow

\* mem_cache_release(): the other caches keep their lists.
LEMMA ReleaseKept ==
    ASSUME SlabInv, LinksInv, NEW c \in Cache, Release(c), UNCHANGED ptr,
           links' = Gone(links, ToSet(free_pools[c]) \cup {FreeHead(c), PartialHead(c), BusyHead(c)})
    PROVE  Agree(links', Live', Queue', list', ptr')
<1> DEFINE X == ToSet(free_pools[c]) \cup {FreeHead(c), PartialHead(c), BusyHead(c)}
           s == free_pools[c]
           q1 == ByHead(free_pools', partial_pools', busy_pools')
           M == Gone(links, X)
<1>1. Separate(Queue, list) /\ Live \in SUBSET Heads /\ Agree(links, Live, Queue, list, ptr)
  BY ListsSeparate DEF Live, LinksInv
<1>2. s \in Seq(Pool) /\ FreeHead(c) \in Heads /\ Queue[FreeHead(c)] = s
      /\ FreeHead(c) \notin Pool /\ PartialHead(c) \notin Pool /\ BusyHead(c) \notin Pool
  BY ByHeadIs, HeadsApart DEF SlabInv, SlabShape, Queue
<1>3. \A x : x \in ToSet(s) <=> Contains(s, x)
  BY <1>2, MembersAsSet
<1>4. \A x : Contains(s, x) => x \in Pool
  BY <1>2, MembersAsSet
<1>5. M \in Links /\ \A x \in Nodes : x \notin X => M[x] = links[x]
  <2>1. links \in Links
    BY <1>1 DEF Agree
  <2> HIDE DEF X
  <2> QED BY <2>1, GoneStores
<1> HIDE DEF M
<1>6. list' = list /\ Queue' = q1 /\ released' = released \cup {c}
  BY DEF Release, Queue
<1>7. /\ Elsewhere(c, free_pools, partial_pools, busy_pools, free_pools', partial_pools', busy_pools')
  BY DEF Release, Elsewhere, SlabInv, SlabShape
<1>8. ASSUME NEW g \in Live' PROVE Ring(M, g, q1[g])
  <2>1. g \in Heads /\ g \in Live /\ g # FreeHead(c) /\ g # PartialHead(c) /\ g # BusyHead(c) /\ g \notin Pool
    BY <1>6, HeadsApart DEF Live
  <2>2. Ring(links, g, Queue[g])
    BY <1>1, <2>1 DEF Agree, Rings
  <2>3. q1[g] = Queue[g]
    BY <1>7, <2>1, OnlyCache DEF Queue
  <2> HIDE DEF s
  <2>4. /\ \A x : Contains(Queue[g], x) => x \in Pool
        /\ \A x : Contains(Queue[g], x) => ~ Contains(Queue[FreeHead(c)], x)
    BY <1>1, <1>2, <2>1, SeparateIs
  <2>5. g \notin X /\ \A x \in X : ~ Contains(Queue[g], x)
    <3>1. \A x \in X : x \in {FreeHead(c), PartialHead(c), BusyHead(c)} \/ Contains(s, x)
      BY <1>3 DEF s
    <3>2. \A x : Contains(s, x) => x \in Pool /\ ~ Contains(Queue[g], x)
      BY <1>2, <1>4, <2>4
    <3> HIDE DEF X
    <3> QED BY <1>2, <2>1, <2>4, <3>1, <3>2
  <2> HIDE DEF X, q1
  <2>6. Ring(M, g, Queue[g])
    BY <1>1, <1>5, <2>1, <2>2, <2>5, OtherRings
  <2> QED BY <2>3, <2>6
<1>9. ASSUME NEW u \in Thread PROVE Path(M, u, list[u], ptr[u])
  <2>1. Path(links, u, list[u], ptr[u]) /\ list[u] \in Seq(Pool)
    BY <1>1 DEF Agree, Paths, Separate
  <2>2. \A x : Contains(list[u], x) => x \in Pool
    BY <2>1, MembersAsSet
  <2>3. \A x \in Pool : Contains(Queue[FreeHead(c)], x) => ~ Contains(list[u], x)
    BY <1>1, <1>2 DEF Separate
  <2> HIDE DEF s
  <2>4. \A x \in X : ~ Contains(list[u], x)
    <3>1. \A x \in X : x \in {FreeHead(c), PartialHead(c), BusyHead(c)} \/ Contains(s, x)
      BY <1>3 DEF s
    <3>2. \A x : Contains(s, x) => ~ Contains(list[u], x)
      BY <1>2, <1>4, <2>3
    <3> HIDE DEF X
    <3> QED BY <1>2, <2>2, <3>1, <3>2
  <2> HIDE DEF X
  <2> QED BY <1>1, <1>5, <2>1, <2>4, OtherPath
<1> HIDE DEF q1
<1>10. Agree(M, Live', q1, list, ptr)
  BY <1>5, <1>8, <1>9 DEF Agree, Rings, Paths
<1> QED BY <1>6, <1>10 DEF M
\* After mem_cache_setup() every head points to itself.
LEMMA LinkedInitInv ==
    ASSUME LinkedInit PROVE LinksInv
<1>1. Len(<<>>) = 0 /\ \A h, i : At(h, <<>>, i) = h
  BY DEF At
<1>2. \A n \in Nodes : links[n] = IF n \in Heads THEN [next |-> n, prev |-> n]
                                               ELSE [next |-> Wild, prev |-> Wild]
  BY DEF LinkedInit, Nodes
<1>3. links \in Links
  <2>1. \A n \in Nodes : [next |-> n, prev |-> n] \in [next : Pointers, prev : Pointers]
    BY DEF Pointers
  <2>2. [next |-> Wild, prev |-> Wild] \in [next : Pointers, prev : Pointers]
    BY DEF Pointers
  <2> QED BY <2>1, <2>2 DEF LinkedInit, Links, Nodes
<1>4. ASSUME NEW h \in Live PROVE Ring(links, h, Queue[h])
  <2>1. h \in Heads /\ h[2] \in Cache /\ h \in Nodes
    BY HeadsApart DEF Live
  <2>2. Queue[h] = <<>>
    BY <2>1 DEF Queue, ByHead, LinkedInit, SlabInit
  <2>3. links[h] = [next |-> h, prev |-> h]
    BY <1>2, <2>1
  <2>4. Ring(links, h, <<>>)
    BY <1>1, <2>3 DEF Ring
  <2> QED BY <2>2, <2>4
<1>5. ASSUME NEW t \in Thread PROVE Path(links, t, list[t], ptr[t])
  <2>1. list[t] = <<>> /\ ptr[t] = t
    BY DEF LinkedInit, SlabInit
  <2>2. Path(links, t, <<>>, t)
    BY <1>1 DEF Path
  <2> QED BY <2>1, <2>2
<1>6. Agree(links, Live, Queue, list, ptr)
  BY <1>3, <1>4, <1>5 DEF Agree, Rings, Paths
<1>7. ptr \in [Thread -> Pointers]
  BY DEF LinkedInit, Pointers, Nodes
<1>8. NoneReleased /\ MovesOne
  BY DEF LinkedInit, SlabInit, NoneReleased, MovesOne
<1> QED BY <1>6, <1>7, <1>8 DEF LinksInv

\* mem_alloc() of any size: whole pages are on no list.
LEMMA AllocKept ==
    ASSUME SlabInv, LinksInv, NEW k \in 1 .. Large, mem_alloc(k), AllocLinks(k),
           UNCHANGED <<list, ptr, released>>
    PROVE  LinksFollow /\ NoneReleased'
<1>1. Large \notin Cache /\ released \subseteq Cache
  BY SlabAssumption DEF Large, Cache, SlabInv, SlabShape
<1>2. CASE k = Large /\ AllocPages
  <2>1. links' = links
    BY <1>2 DEF AllocLinks
  <2>2. Queue' = Queue
    BY <1>2 DEF AllocPages, Queue
  <2>3. NoneReleased'
    <3>1. PICK p \in pages : held' = held \cup {[pool |-> p, pos |-> 0, class |-> Large]}
      BY <1>2 DEF AllocPages
    <3> QED BY <1>1, <3>1 DEF LinksInv, NoneReleased
  <2> QED BY <2>1, <2>2, <2>3 DEF LinksFollow, LinksInv
<1>3. ASSUME k \in Cache \ released, NEW p, NEW taken, NEW left, mem_pool_alloc(p, taken, left, k)
      PROVE  NoneReleased'
  <2>1. PICK n : held' = held \cup {[pool |-> p, pos |-> n, class |-> k]}
    BY <1>3 DEF mem_pool_alloc
  <2> QED BY <1>3, <2>1 DEF LinksInv, NoneReleased
<1>4. CASE k \in Cache \ released /\ AllocPartial(k)
  <2>1. NoneReleased'
    BY <1>3, <1>4 DEF AllocPartial
  <2> QED BY <1>4, <2>1, AllocPartialLinks
<1>5. CASE k \in Cache \ released /\ AllocFree(k)
  <2>1. NoneReleased'
    BY <1>3, <1>5 DEF AllocFree
  <2> QED BY <1>5, <2>1, AllocFreeLinks
<1>6. CASE k \in Cache \ released /\ AllocCreate(k)
  <2>1. NoneReleased'
    BY <1>3, <1>6 DEF AllocCreate
  <2> QED BY <1>6, <2>1, AllocCreateLinks
<1> QED BY <1>2, <1>4, <1>5, <1>6 DEF mem_alloc

\* mem_free() of any pointer.
LEMMA FreeKept ==
    ASSUME SlabInv, LinksInv, NEW q \in held, mem_free(q), FreeLinks(q.pool),
           UNCHANGED <<list, ptr, released>>
    PROVE  LinksFollow /\ NoneReleased'
<1>1. LinksFollow
  BY FreeObjectLinks
<1>2. held' = held \ {q}
  BY DEF mem_free
<1> QED BY <1>1, <1>2 DEF LinksInv, NoneReleased

\* Every operation keeps the links and the lists in agreement.
LEMMA LinkedNextInv ==
    ASSUME SlabInv, LinksInv, [LinkedNext]_linkedVars PROVE LinksInv'
<1>0. ptr \in [Thread -> Pointers] /\ MovesOne /\ NoneReleased /\ Agree(links, Live, Queue, list, ptr)
      /\ moving \in [Thread -> SUBSET Pointer]
  BY DEF LinksInv, SlabInv, SlabShape
<1>1. ASSUME UNCHANGED <<free_pools, partial_pools, busy_pools, held, list, moving, released, links, ptr>>
      PROVE  LinksInv'
  <2>1. Queue' = Queue /\ Live' = Live
    BY <1>1 DEF Queue, Live
  <2>2. NoneReleased' /\ MovesOne'
    BY <1>0, <1>1 DEF NoneReleased, MovesOne
  <2> QED BY <1>0, <1>1, <2>1, <2>2 DEF LinksInv
<1>2. CASE UNCHANGED linkedVars
  BY <1>1, <1>2 DEF linkedVars, slabVars
<1>3. CASE MemCacheSetup /\ UNCHANGED <<links, ptr>>
  BY <1>1, <1>3 DEF MemCacheSetup
<1>4. ASSUME LinksFollow, released' = released, ptr' \in [Thread -> Pointers], NoneReleased', MovesOne'
      PROVE  LinksInv'
  <2>1. Live' = Live
    BY <1>4 DEF Live
  <2> QED BY <1>4, <2>1 DEF LinksInv, LinksFollow
<1>5. ASSUME NEW k \in 1 .. Large, MemAlloc(k), AllocLinks(k), UNCHANGED ptr PROVE LinksInv'
  <2>1. mem_alloc(k) /\ UNCHANGED <<list, moving, released>>
    BY <1>5 DEF MemAlloc
  <2>2. LinksFollow /\ NoneReleased'
    BY <1>5, <2>1, AllocKept
  <2> QED BY <1>0, <1>4, <1>5, <2>1, <2>2 DEF MovesOne
<1>6. ASSUME NEW q \in held, MemFree(q), FreeLinks(q.pool), UNCHANGED ptr PROVE LinksInv'
  <2>1. mem_free(q) /\ UNCHANGED <<list, moving, released>>
    BY <1>6 DEF MemFree
  <2>2. LinksFollow /\ NoneReleased'
    BY <1>6, <2>1, FreeKept
  <2> QED BY <1>0, <1>4, <1>6, <2>1, <2>2 DEF MovesOne
<1>7. ASSUME NEW t \in Thread, NEW q \in held, NEW k \in 1 .. Large,
             MemRealloc(t, q, k), AllocLinks(k), UNCHANGED ptr
      PROVE  LinksInv'
  <2>1. mem_alloc(k) /\ UNCHANGED <<list, released>> /\ moving' = [moving EXCEPT ![t] = {q}]
    BY <1>7 DEF MemRealloc
  <2>2. LinksFollow /\ NoneReleased'
    BY <1>7, <2>1, AllocKept
  <2>3. MovesOne'
    BY <1>0, <2>1 DEF MovesOne
  <2> QED BY <1>0, <1>4, <1>7, <2>1, <2>2, <2>3
<1>8. ASSUME NEW t \in Thread, NEW q \in moving[t], MemReallocFree(t), FreeLinks(q.pool), UNCHANGED ptr
      PROVE  LinksInv'
  <2>1. PICK r \in moving[t] : mem_free(r)
    BY <1>8 DEF MemReallocFree
  <2>2. r = q /\ q \in held
    BY <1>0 DEF MovesOne, SlabInv, MovingHeld
  <2>3. UNCHANGED <<list, released>> /\ moving' = [moving EXCEPT ![t] = {}]
    BY <1>8 DEF MemReallocFree
  <2>4. LinksFollow /\ NoneReleased'
    BY <1>8, <2>1, <2>2, <2>3, FreeKept
  <2>5. MovesOne'
    BY <1>0, <2>3 DEF MovesOne
  <2> QED BY <1>0, <1>4, <1>8, <2>3, <2>4, <2>5
<1>9. ASSUME NEW t \in Thread, NEW c \in Cache, Shrink(t, c), ShrinkLinks(t, c) PROVE LinksInv'
  <2>1. LinksFollow /\ ptr' \in [Thread -> Pointers]
    BY <1>9, ShrinkKept
  <2>2. UNCHANGED <<held, moving, released>>
    BY <1>9 DEF Shrink
  <2> QED BY <1>0, <1>4, <2>1, <2>2 DEF NoneReleased, MovesOne
<1>10. ASSUME NEW t \in Thread, ShrinkDestroy(t), DestroyLinks(t) PROVE LinksInv'
  <2>1. LinksFollow /\ ptr' \in [Thread -> Pointers]
    BY <1>10, DestroyKept
  <2>2. UNCHANGED <<held, moving, released>>
    BY <1>10 DEF ShrinkDestroy
  <2> QED BY <1>0, <1>4, <2>1, <2>2 DEF NoneReleased, MovesOne
<1>11. ASSUME NEW c \in Cache, Release(c), UNCHANGED ptr,
              links' = Gone(links, ToSet(free_pools[c]) \cup {FreeHead(c), PartialHead(c), BusyHead(c)})
       PROVE  LinksInv'
  <2>1. Agree(links', Live', Queue', list', ptr')
    BY <1>11, ReleaseKept
  <2>2. UNCHANGED <<held, moving>> /\ released' = released \cup {c} /\ \A q \in held : q.class # c
    BY <1>11 DEF Release
  <2>3. NoneReleased'
    BY <1>0, <2>2 DEF NoneReleased
  <2> QED BY <1>0, <1>11, <2>1, <2>2, <2>3 DEF LinksInv, MovesOne
<1>12. CASE LinkedOperation
  BY <1>5, <1>6, <1>7, <1>8, <1>9, <1>10, <1>11, <1>12 DEF LinkedOperation
<1> QED BY <1>2, <1>3, <1>12 DEF LinkedNext

\* A list met by walking along the links, and the pointers back along it.
LEMMA RingWalked ==
    ASSUME NEW s \in Seq(Pool), IsInjective(s), NEW h \in Nodes \ Pool, links \in Links, Ring(links, h, s)
    PROVE  /\ ListOf(h) = s
           /\ LET r == <<h>> \o s \o <<h>>
              IN  \A i \in 2 .. Len(r) : links[r[i]].prev = r[i - 1]
<1>1. Path(links, h, s, links[h].next)
  BY RingIsPath
<1>2. Cardinality(Pool) \in Nat /\ Len(s) <= Cardinality(Pool) /\ Len(s) \in Nat
  BY NodeAssumption, ShortList, LenProperties
<1>3. Cardinality(Pool) + 1 \in Nat /\ Len(s) <= Cardinality(Pool) + 1
  BY <1>2
<1>4. Pool \subseteq DOMAIN links
  BY DEF Links, Nodes
<1> DEFINE max == Cardinality(Pool) + 1
           at == links[h].next
<1>5. Walk(links, at, h, max) = s
  <2>1. Path(links, h, s, at) /\ max \in Nat /\ Len(s) <= max
    BY <1>1, <1>3
  <2> HIDE DEF max, at
  <2> QED BY <1>4, <2>1, WalkIs
<1>6. ListOf(h) = s
  BY <1>5 DEF ListOf, Meets, list_first
<1> DEFINE r == <<h>> \o s \o <<h>>
<1>7. Len(r) = Len(s) + 2 /\ \A i \in 1 .. Len(s) + 2 : r[i] = At(h, s, i - 1)
  <2> DEFINE u == <<h>> \o s
  <2>1. <<h>> \in Seq(Nodes) /\ Len(<<h>>) = 1 /\ <<h>>[1] = h /\ s \in Seq(Nodes)
    <3>1. s \in Seq(Nodes)
      BY LenProperties, ElementOfSeq DEF Nodes
    <3> QED BY <3>1
  <2>2. u \in Seq(Nodes) /\ Len(u) = 1 + Len(s) /\ \A i \in 1 .. 1 + Len(s) : u[i] = IF i <= 1 THEN <<h>>[i] ELSE s[i - 1]
    BY <2>1, ConcatProperties
  <2>3. r = u \o <<h>>
    OBVIOUS
  <2> HIDE DEF u
  <2>4. Len(r) = Len(u) + 1 /\ \A i \in 1 .. Len(u) + 1 : r[i] = IF i <= Len(u) THEN u[i] ELSE <<h>>[i - Len(u)]
    BY <2>1, <2>2, <2>3, ConcatProperties
  <2> HIDE DEF r
  <2>5. ASSUME NEW i \in 1 .. Len(s) + 2 PROVE r[i] = At(h, s, i - 1)
    <3>1. CASE i = 1
      <4>1. 1 \in 1 .. Len(u) + 1 /\ 1 <= Len(u) /\ 1 \in 1 .. 1 + Len(s) /\ i - 1 = 0 /\ 0 \notin 1 .. Len(s)
        BY <1>2, <2>2, <3>1
      <4>2. r[1] = u[1]
        BY <2>4, <4>1
      <4>3. u[1] = h
        BY <2>1, <2>2, <4>1
      <4> QED BY <3>1, <4>1, <4>2, <4>3 DEF At
    <3>2. CASE i \in 2 .. Len(s) + 1
      <4>1. i \in 1 .. Len(u) + 1 /\ i <= Len(u) /\ i \in 1 .. 1 + Len(s) /\ ~ (i <= 1) /\ i - 1 \in 1 .. Len(s)
        BY <1>2, <2>2, <3>2
      <4>2. r[i] = u[i]
        BY <2>4, <4>1
      <4>3. u[i] = s[i - 1]
        BY <2>2, <4>1
      <4> QED BY <4>1, <4>2, <4>3 DEF At
    <3>3. CASE i = Len(s) + 2
      <4>1. i \in 1 .. Len(u) + 1 /\ ~ (i <= Len(u)) /\ i - Len(u) = 1 /\ i - 1 \notin 1 .. Len(s)
        BY <1>2, <2>2, <3>3
      <4>2. r[i] = <<h>>[1]
        BY <2>4, <4>1
      <4> QED BY <2>1, <4>1, <4>2 DEF At
    <3> QED BY <1>2, <3>1, <3>2, <3>3
  <2>6. Len(r) = Len(s) + 2
    BY <1>2, <2>2, <2>4
  <2> QED BY <2>5, <2>6
<1> HIDE DEF r
<1>8. ASSUME NEW i \in 2 .. Len(r) PROVE links[r[i]].prev = r[i - 1]
  <2>1. i \in 1 .. Len(s) + 2 /\ i - 1 \in 1 .. Len(s) + 2 /\ (i - 1) - 1 \in 0 .. Len(s) /\ ((i - 1) - 1) + 1 = i - 1
    BY <1>2, <1>7
  <2>2. r[i] = At(h, s, i - 1) /\ r[i - 1] = At(h, s, (i - 1) - 1)
    BY <1>7, <2>1
  <2>3. links[At(h, s, ((i - 1) - 1) + 1)].prev = At(h, s, (i - 1) - 1)
    BY <2>1 DEF Ring
  <2> QED BY <2>1, <2>2, <2>3
<1> QED BY <1>6, <1>8 DEF r

\* LinksExact: the stores of list.c keep the lists what the allocator takes
\* them for, and mem_cache_shrink() never follows a pointer in memory it gave
\* back (list.c:3-52, alloc.c:156-177).
THEOREM ListsAreTheirLinks == LinkedSpec => []LinksExact
<1>1. LinkedInit => LinksInv
  BY LinkedInitInv
<1>2. SlabInv /\ LinksInv /\ [LinkedNext]_linkedVars => LinksInv'
  BY LinkedNextInv
<1>3. ASSUME SlabInv, LinksInv PROVE LinksExact
  <2>1. Separate(Queue, list) /\ Agree(links, Live, Queue, list, ptr)
    BY <1>3, ListsSeparate DEF LinksInv
  <2>2. links \in Links
    BY <2>1 DEF Agree
  <2>3. ASSUME NEW c \in Cache \ released, NEW h \in {FreeHead(c), PartialHead(c), BusyHead(c)}
        PROVE  /\ ListOf(h) = Queue[h]
               /\ LET s == <<h>> \o ListOf(h) \o <<h>>
                  IN  \A i \in 2 .. Len(s) : links[s[i]].prev = s[i - 1]
    <3>1. h \in Live /\ h \in Heads
      BY <1>3, HeadPointers, HeadsApart
    <3>2. h \in Nodes \ Pool /\ Queue[h] \in Seq(Pool) /\ IsInjective(Queue[h])
      BY <2>1, <3>1, SeparateIs
    <3>3. Ring(links, h, Queue[h])
      BY <2>1, <3>1 DEF Agree, Rings
    <3> DEFINE q == Queue[h]
    <3>4. q \in Seq(Pool) /\ IsInjective(q) /\ Ring(links, h, q)
      BY <3>2, <3>3
    <3> HIDE DEF q
    <3>5. /\ ListOf(h) = q
          /\ LET r == <<h>> \o q \o <<h>>
             IN  \A i \in 2 .. Len(r) : links[r[i]].prev = r[i - 1]
      BY <2>2, <3>2, <3>4, RingWalked
    <3> QED BY <3>5 DEF q
  <2>4. ASSUME NEW c \in Cache \ released
        PROVE  /\ Queue[FreeHead(c)] = free_pools[c] /\ Queue[PartialHead(c)] = partial_pools[c]
               /\ Queue[BusyHead(c)] = busy_pools[c]
    BY <1>3, HeadPointers
  <2>5. ASSUME NEW t \in Thread PROVE list[t] = Meets(ptr[t], t)
    <3> DEFINE s == list[t]
               at == ptr[t]
               max == Cardinality(Pool) + 1
    <3>1. s \in Seq(Pool) /\ IsInjective(s) /\ Path(links, t, s, at) /\ t \notin Pool
      BY <2>1, HeadsApart DEF Separate, Agree, Paths
    <3>2. Pool \subseteq DOMAIN links
      BY <2>2 DEF Links, Nodes
    <3> HIDE DEF s, at
    <3>3. Cardinality(Pool) \in Nat /\ Len(s) <= Cardinality(Pool) /\ Len(s) \in Nat
      BY <3>1, NodeAssumption, ShortList, LenProperties
    <3>4. max \in Nat /\ Len(s) <= max
      BY <3>3
    <3> HIDE DEF max
    <3>5. Walk(links, at, t, max) = s
      BY <3>1, <3>2, <3>4, WalkIs
    <3> QED BY <3>5 DEF Meets, s, at, max
  <2> QED BY <2>3, <2>4, <2>5 DEF LinksExact
<1> QED BY <1>1, <1>2, <1>3, SlabInvariant, LinkedIsSlab, PTL DEF LinkedSpec
=============================================================================
