------------------------------ MODULE SlabLists ------------------------------
(***************************************************************************)
(* The slab allocator over list.c.  Slab.tla keeps the lists of pools as   *)
(* sequences; here every operation also does the calls of list.c that      *)
(* alloc.c makes, on the links in the pools' own memory and in the heads,  *)
(* and mem_cache_shrink() walks its local list by a pointer while other    *)
(* threads reuse the memory it has given back.                             *)
(***************************************************************************)
EXTENDS Slab, List

CONSTANT Wild   \* the links in memory that is not, or no longer, a pool

VARIABLES links,   \* next and prev of every list node
          ptr      \* mem_cache_shrink(): the entry its loop is at

linkedVars == <<slabVars, links, ptr>>

FreeHead(c) == <<"free_pools", c>>
PartialHead(c) == <<"partial_pools", c>>
BusyHead(c) == <<"busy_pools", c>>

Heads == UNION {{FreeHead(c), PartialHead(c), BusyHead(c)} : c \in Cache}

\* Nodes at different addresses, and no more pools than memory has room for.
ASSUME NodeAssumption ==
    /\ Pool \cap Thread = {}
    /\ Heads \cap (Pool \cup Thread) = {}
    /\ IsFiniteSet(Pool)

\* mem_cache_setup(); the head of mem_cache_shrink() is on its thread's stack.
LinkedInit ==
    /\ SlabInit
    /\ links = [n \in Heads \cup Pool \cup Thread |->
                  IF n \in Heads THEN [next |-> n, prev |-> n]
                                 ELSE [next |-> Wild, prev |-> Wild]]
    /\ ptr = [t \in Thread |-> t]

Move(p, head) == list_add(list_del(links, p), p, head)

-----------------------------------------------------------------------------
\* __mem_cache_alloc(): the pool it takes, by the heads' own pointers.
AllocLinks(k) ==
    IF k = Large THEN links' = links
    ELSE IF ~ list_empty(links, PartialHead(k))
    THEN LET p == list_first(links, PartialHead(k))
         IN  links' = IF free'[p] = 0 THEN Move(p, BusyHead(k)) ELSE links
    ELSE IF ~ list_empty(links, FreeHead(k))
    THEN LET p == list_first(links, FreeHead(k))
         IN  links' = IF free'[p] # OBJS THEN Move(p, PartialHead(k)) ELSE links
    ELSE \E p \in pages \ pages' : links' = list_add(links, p, PartialHead(k))

\* __mem_cache_free(); pages that are given back become somebody else's.
FreeLinks(p) ==
    IF tag[p] \notin Cache THEN links' = links
    ELSE links' = IF free'[p] = OBJS THEN Move(p, FreeHead(tag[p]))
                  ELSE IF free'[p] = 1 THEN Move(p, PartialHead(tag[p]))
                  ELSE links

\* Memory that is given back: its links become whatever its next user stores.
Gone(L, nodes) ==
    [n \in DOMAIN L |-> IF n \in nodes THEN [next |-> Wild, prev |-> Wild] ELSE L[n]]

\* One round of mem_cache_shrink(): it moves on before it destroys the pool.
\* Its head is gone when it returns after the last one.
DestroyLinks(t) ==
    LET next == links[ptr[t]].next
    IN  /\ links' = Gone(links, {ptr[t]} \cup IF next = t THEN {t} ELSE {})
        /\ ptr' = [ptr EXCEPT ![t] = next]

\* mem_cache_shrink() under the lock; with no free pools it returns at once.
ShrinkLinks(t, c) ==
    LET L == list_splice(list_init(links, t), FreeHead(c), t)
    IN  /\ links' = IF list_empty(L, t) THEN Gone(L, {t}) ELSE L
        /\ ptr' = [ptr EXCEPT ![t] = list_first(L, t)]

LinkedOperation ==
    \/ \E k \in 1 .. Large : MemAlloc(k) /\ AllocLinks(k) /\ UNCHANGED ptr
    \/ \E q \in held : MemFree(q) /\ FreeLinks(q.pool) /\ UNCHANGED ptr
    \/ \E t \in Thread :
         \/ \E q \in held, k \in 1 .. Large :
              MemRealloc(t, q, k) /\ AllocLinks(k) /\ UNCHANGED ptr
         \/ \E q \in moving[t] :
              MemReallocFree(t) /\ FreeLinks(q.pool) /\ UNCHANGED ptr
         \/ \E c \in Cache :
              /\ Shrink(t, c)
              /\ ShrinkLinks(t, c)
         \/ ShrinkDestroy(t) /\ DestroyLinks(t)
    \/ \E c \in Cache :
         /\ Release(c)
         /\ links' = Gone(links, ToSet(free_pools[c])
                               \cup {FreeHead(c), PartialHead(c), BusyHead(c)})
         /\ UNCHANGED ptr

LinkedNext ==
    \/ MemCacheSetup /\ UNCHANGED <<links, ptr>>
    \/ setup = {} /\ LinkedOperation /\ UNCHANGED setup

LinkedSpec == LinkedInit /\ [][LinkedNext]_linkedVars

-----------------------------------------------------------------------------
(* Properties *)

\* One round more than there are pools, for lists that do not end.
Meets(first, head) == Walk(links, first, head, Cardinality(Pool) + 1)
ListOf(head) == Meets(list_first(links, head), head)

(***************************************************************************)
(* The links are the lists.  Walking from the head of a cache meets just   *)
(* the pools Slab.tla has on that list, in that order, and every entry's   *)
(* prev is the one before it, also after lists were spliced away, emptied  *)
(* and used again (list.c:34-52).  The loop of mem_cache_shrink(), which   *)
(* runs without the lock, meets the pools it spliced off and no other,     *)
(* though those behind it may be pools of another cache by then            *)
(* (alloc.c:168-176): it never reads links in memory it gave back.         *)
(***************************************************************************)
LinksExact ==
    /\ \A c \in Cache \ released :
         /\ ListOf(FreeHead(c)) = free_pools[c]
         /\ ListOf(PartialHead(c)) = partial_pools[c]
         /\ ListOf(BusyHead(c)) = busy_pools[c]
         /\ \A h \in {FreeHead(c), PartialHead(c), BusyHead(c)} :
              LET s == <<h>> \o ListOf(h) \o <<h>>
              IN  \A i \in 2 .. Len(s) : links[s[i]].prev = s[i - 1]
    /\ \A t \in Thread : list[t] = Meets(ptr[t], t)
=============================================================================
