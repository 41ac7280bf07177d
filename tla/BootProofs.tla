----------------------------- MODULE BootProofs -----------------------------
(***************************************************************************)
(* Proofs about two of the components main() brings up and Boot.tla puts   *)
(* together.                                                               *)
(*                                                                         *)
(* The temporary kernel mappings: the ranges cut the area into pieces      *)
(* whatever junk the array held, the tags tell the truth, and the search   *)
(* by orders misses no range.  This holds for an area of any size, any     *)
(* number of lists and any contents of unused slots.                       *)
(*                                                                         *)
(* Interrupts, for any set of lines with a device and any number of        *)
(* threads: none comes that the kernel cannot take, from the first line of *)
(* main() on, and no line stays in service.                                *)
(***************************************************************************)
EXTENDS Kmap, Ints, QueueTheorems

-----------------------------------------------------------------------------
(* Orders *)

\* The loop of kmap_order() ends: at the first order that covers n, or at the
\* number of lists.
LEMMA OrderExists ==
    ASSUME NEW n \in Nat
    PROVE  /\ kmap_order(n) \in 0 .. KMAP_ORDERS
           /\ 2^kmap_order(n) >= n \/ kmap_order(n) = KMAP_ORDERS
           /\ \A q \in 0 .. kmap_order(n) - 1 : 2^q < n
<1> USE KmapAssumption
<1> DEFINE T == {o \in 0 .. KMAP_ORDERS : 2^o >= n \/ o = KMAP_ORDERS}
<1>1. T \in SUBSET Nat /\ KMAP_ORDERS \in T
  OBVIOUS
<1>2. Min(T) \in T /\ \A y \in T : Min(T) <= y
  BY <1>1, LeastOf
<1> DEFINE m == Min(T)
<1> HIDE DEF m
<1>3. m \in 0 .. KMAP_ORDERS /\ (2^m >= n \/ m = KMAP_ORDERS)
  BY <1>2 DEF m
<1>4. ASSUME NEW q \in 0 .. m - 1 PROVE 2^q < n
  <2>1. q \in 0 .. KMAP_ORDERS /\ q # KMAP_ORDERS /\ q < m
    BY <1>3
  <2>2. ~ (2^q >= n)
    BY <1>2, <2>1 DEF m
  <2> QED BY <2>1, <2>2
<1> HIDE DEF T
<1> QED BY <1>3, <1>4 DEF kmap_order

\* kmap_free_range() files a range on a list there is.
LEMMA FiledOrder ==
    ASSUME NEW n \in Nat \ {0}
    PROVE  kmap_order(n + 1) - 1 \in Order
<1> USE KmapAssumption
<1>1. n + 1 \in Nat
  OBVIOUS
<1>2. /\ kmap_order(n + 1) \in 0 .. KMAP_ORDERS
      /\ 2^kmap_order(n + 1) >= n + 1 \/ kmap_order(n + 1) = KMAP_ORDERS
  BY <1>1, OrderExists
<1>3. 2^0 = 1
  OBVIOUS
<1>4. ASSUME kmap_order(n + 1) = 0 PROVE FALSE
  <2>1. 2^kmap_order(n + 1) = 1
    BY <1>3, <1>4
  <2> QED BY <1>2, <1>4, <2>1
<1> QED BY <1>2, <1>4 DEF Order

-----------------------------------------------------------------------------
(* Single changes of the array and the lists *)

\* One field of a state is replaced.
LEMMA FieldReplaced ==
    ASSUME NEW A, NEW B, NEW C, NEW s \in [pages : A, empty : B, lists : C], NEW x
    PROVE  /\ [s EXCEPT !.pages = x] = [pages |-> x, empty |-> s.empty, lists |-> s.lists]
           /\ [s EXCEPT !.empty = x] = [pages |-> s.pages, empty |-> x, lists |-> s.lists]
           /\ [s EXCEPT !.lists = x] = [pages |-> s.pages, empty |-> s.empty, lists |-> x]
OBVIOUS

LEMMA DelEffect ==
    ASSUME NEW s \in StateSet, NEW r \in Slot,
           \A o \in Order : IsInjective(s.lists[o])
    PROVE  /\ list_del(s, r) \in StateSet
           /\ list_del(s, r).pages = s.pages
           /\ \A x \in Slot : x # r => list_del(s, r).empty[x] = s.empty[x]
           /\ \A o \in Order : IsInjective(list_del(s, r).lists[o])
           /\ \A o \in Order, x \in Slot :
                Contains(list_del(s, r).lists[o], x) <=> Contains(s.lists[o], x) /\ x # r
<1> DEFINE t == list_del(s, r)
<1>0. t = [pages |-> s.pages, empty |-> [s.empty EXCEPT ![r] = FALSE],
           lists |-> [o \in Order |-> RemoveFirst(s.lists[o], r)]]
  <2> DEFINE u == [s EXCEPT !.lists = [o \in Order |-> RemoveFirst(s.lists[o], r)]]
  <2>1. u = [pages |-> s.pages, empty |-> s.empty,
             lists |-> [o \in Order |-> RemoveFirst(s.lists[o], r)]]
    BY FieldReplaced DEF StateSet
  <2>2. t = [u EXCEPT !.empty = [u.empty EXCEPT ![r] = FALSE]]
    BY DEF list_del
  <2> HIDE DEF u, t
  <2>3. u \in [pages : {u.pages}, empty : {u.empty}, lists : {u.lists}]
    BY <2>1
  <2>4. t = [pages |-> u.pages, empty |-> [u.empty EXCEPT ![r] = FALSE], lists |-> u.lists]
    BY <2>2, <2>3, FieldReplaced
  <2> QED BY <2>1, <2>4
<1>1. /\ t.pages = s.pages
      /\ t.empty = [s.empty EXCEPT ![r] = FALSE]
      /\ t.lists = [o \in Order |-> RemoveFirst(s.lists[o], r)]
      /\ t = [pages |-> t.pages, empty |-> t.empty, lists |-> t.lists]
  BY <1>0
<1>2. ASSUME NEW o \in Order
      PROVE  /\ t.lists[o] \in Seq(Slot)
             /\ IsInjective(t.lists[o])
             /\ \A x : Contains(t.lists[o], x) <=> Contains(s.lists[o], x) /\ x # r
  <2>1. s.lists[o] \in Seq(Slot) /\ t.lists[o] = RemoveFirst(s.lists[o], r)
    BY <1>1 DEF StateSet
  <2>2. CASE Contains(s.lists[o], r)
    BY <2>1, <2>2, RemoveMembers
  <2>3. CASE ~ Contains(s.lists[o], r)
    <3>1. t.lists[o] = s.lists[o]
      BY <2>1, <2>3, RemoveAbsent
    <3> QED BY <2>1, <2>3, <3>1
  <2> QED BY <2>2, <2>3
<1> HIDE DEF t
<1>3. t.lists \in [Order -> Seq(Slot)]
  BY <1>1, <1>2
<1>4. t.empty \in [Slot -> BOOLEAN] /\ \A x \in Slot : x # r => t.empty[x] = s.empty[x]
  BY <1>1 DEF StateSet
<1>5. t \in StateSet
  BY <1>1, <1>3, <1>4 DEF StateSet
<1> QED BY <1>1, <1>2, <1>4, <1>5 DEF t

LEMMA SetPagesEffect ==
    ASSUME NEW s \in StateSet, NEW r \in Slot, NEW n \in 1 .. KMAP_PAGES, r + n <= KMAP_PAGES
    PROVE  /\ SetPages(s, r, n) \in StateSet
           /\ SetPages(s, r, n).empty = s.empty
           /\ SetPages(s, r, n).lists = s.lists
           /\ SetPages(s, r, n).pages[r] = n
           /\ SetPages(s, r, n).pages[r + n - 1] = n
           /\ \A x \in Slot : x # r /\ x # r + n - 1 => SetPages(s, r, n).pages[x] = s.pages[x]
<1> USE KmapAssumption
<1> DEFINE t == SetPages(s, r, n)
<1>1. r + n - 1 \in Slot
  BY DEF Slot
<1>2. /\ t.pages = [s.pages EXCEPT ![r] = n, ![r + n - 1] = n]
      /\ t.empty = s.empty /\ t.lists = s.lists
      /\ t = [pages |-> t.pages, empty |-> t.empty, lists |-> t.lists]
  <2> DEFINE f == [s.pages EXCEPT ![r] = n, ![r + n - 1] = n]
  <2>1. t = [s EXCEPT !.pages = f]
    BY DEF SetPages
  <2> HIDE DEF f, t
  <2>2. t = [pages |-> f, empty |-> s.empty, lists |-> s.lists]
    BY <2>1, FieldReplaced DEF StateSet
  <2> QED BY <2>2 DEF f
<1>3. s.pages \in [Slot -> Junk \cup 1 .. KMAP_PAGES]
  BY DEF StateSet
<1> HIDE DEF t
<1>4. /\ t.pages \in [Slot -> Junk \cup 1 .. KMAP_PAGES]
      /\ t.pages[r] = n /\ t.pages[r + n - 1] = n
      /\ \A x \in Slot : x # r /\ x # r + n - 1 => t.pages[x] = s.pages[x]
  BY <1>1, <1>2, <1>3
<1>5. t \in StateSet
  BY <1>2, <1>4 DEF StateSet
<1> QED BY <1>2, <1>4, <1>5 DEF t

\* list_add() of a range, as kmap_free_range() does it, and what it does to
\* list_empty() of its node.
Add(s, r, o) == [s EXCEPT !.lists[o] = <<r>> \o @, !.empty[r] = FALSE]

LEMMA AddEffect ==
    ASSUME NEW s \in StateSet, NEW r \in Slot, NEW o \in Order,
           \A q \in Order : IsInjective(s.lists[q]) /\ ~ Contains(s.lists[q], r)
    PROVE  /\ Add(s, r, o) \in StateSet
           /\ Add(s, r, o).pages = s.pages
           /\ Add(s, r, o).empty[r] = FALSE
           /\ \A x \in Slot : x # r => Add(s, r, o).empty[x] = s.empty[x]
           /\ \A q \in Order : IsInjective(Add(s, r, o).lists[q])
           /\ \A q \in Order, x \in Slot :
                Contains(Add(s, r, o).lists[q], x)
                  <=> Contains(s.lists[q], x) \/ (q = o /\ x = r)
<1> DEFINE t == Add(s, r, o)
<1> DEFINE f == [s.lists EXCEPT ![o] = <<r>> \o @]
           e == [s.empty EXCEPT ![r] = FALSE]
<1>1. t = [pages |-> s.pages, empty |-> e, lists |-> f]
  <2> DEFINE u == [s EXCEPT !.lists = f]
  <2>1. t = [u EXCEPT !.empty = [u.empty EXCEPT ![r] = FALSE]]
    BY DEF Add
  <2> HIDE DEF f, t
  <2>2. u = [pages |-> s.pages, empty |-> s.empty, lists |-> f]
    BY FieldReplaced DEF StateSet
  <2> HIDE DEF u
  <2>3. u \in [pages : {u.pages}, empty : {u.empty}, lists : {u.lists}]
    BY <2>2
  <2>4. t = [pages |-> u.pages, empty |-> [u.empty EXCEPT ![r] = FALSE], lists |-> u.lists]
    BY <2>1, <2>3, FieldReplaced
  <2> QED BY <2>2, <2>4
<1> HIDE DEF t
<1>2. t.pages = s.pages /\ t.empty = e /\ t.lists = f
  BY <1>1
<1>3. /\ s.pages \in [Slot -> Junk \cup 1 .. KMAP_PAGES]
      /\ s.empty \in [Slot -> BOOLEAN] /\ s.lists \in [Order -> Seq(Slot)]
  BY DEF StateSet
<1>4. e \in [Slot -> BOOLEAN] /\ e[r] = FALSE /\ \A x \in Slot : x # r => e[x] = s.empty[x]
  BY <1>3
<1>5. /\ <<r>> \o s.lists[o] \in Seq(Slot)
      /\ \A y : Contains(<<r>> \o s.lists[o], y) <=> Contains(s.lists[o], y) \/ y = r
      /\ IsInjective(<<r>> \o s.lists[o])
  BY <1>3, PrependMembers
<1>6. f[o] = <<r>> \o s.lists[o] /\ \A q \in Order : q # o => f[q] = s.lists[q]
  BY <1>3
<1>7. f \in [Order -> Seq(Slot)]
  BY <1>3, <1>5
<1> HIDE DEF e, f
<1>8. t \in StateSet
  BY <1>1, <1>3, <1>4, <1>7 DEF StateSet
<1>9. ASSUME NEW q \in Order
      PROVE  /\ IsInjective(t.lists[q])
             /\ \A x \in Slot : Contains(t.lists[q], x) <=> Contains(s.lists[q], x) \/ (q = o /\ x = r)
  <2>1. CASE q = o
    BY <1>2, <1>5, <1>6, <2>1
  <2>2. CASE q # o
    BY <1>2, <1>6, <2>2
  <2> QED BY <2>1, <2>2
<1>10. t.empty[r] = FALSE /\ \A x \in Slot : x # r => t.empty[x] = s.empty[x]
  BY <1>2, <1>4
<1> QED BY <1>2, <1>8, <1>9, <1>10 DEF t

-----------------------------------------------------------------------------
(* Ranges that leave the lists or their callers, and ranges that come *)

\* Lengths of ranges are numbers and their slots are in the area.
Bounded(s, R) ==
    /\ R \subseteq Slot
    /\ \A r \in R : s.pages[r] \in 1 .. KMAP_PAGES /\ r + s.pages[r] <= KMAP_PAGES

\* The slots of a range that is taken away become the hole's.
LEMMA TileRemoved ==
    ASSUME NEW s, NEW R, NEW hole, Bounded(s, R), Tiled(s, R, hole), NEW p \in R
    PROVE  Tiled(s, R \ {p}, hole \cup (p .. p + s.pages[p] - 1))
<1> USE KmapAssumption
<1>1. \A r \in R : r \in Int /\ s.pages[r] \in 1 .. KMAP_PAGES
  BY DEF Bounded, Slot
<1>2. \A r, q \in R : r < q => r + s.pages[r] <= q
  BY DEF Tiled
<1>3. ASSUME NEW x \in Slot
      PROVE  x \in hole \cup (p .. p + s.pages[p] - 1)
               <=> \A r \in R \ {p} : x < r \/ r + s.pages[r] <= x
  <2>0. x \in Int /\ p \in Int /\ s.pages[p] \in Int
    BY <1>1 DEF Slot
  <2>1. x \in hole <=> \A r \in R : x < r \/ r + s.pages[r] <= x
    BY DEF Tiled
  <2>2. ASSUME x \in p .. p + s.pages[p] - 1, NEW r \in R \ {p}
        PROVE  x < r \/ r + s.pages[r] <= x
    <3>1. p < r \/ r < p
      BY <1>1
    <3>2. p < r => p + s.pages[p] <= r
      BY <1>2
    <3>3. r < p => r + s.pages[r] <= p
      BY <1>2
    <3>4. r \in Int /\ s.pages[r] \in Int
      BY <1>1
    <3>5. p <= x /\ x < p + s.pages[p]
      BY <2>0, <2>2
    <3> QED BY <2>0, <3>1, <3>2, <3>3, <3>4, <3>5
  <2>3. x \in p .. p + s.pages[p] - 1 <=> ~ (x < p \/ p + s.pages[p] <= x)
    BY <2>0
  <2> QED BY <2>1, <2>2, <2>3
<1> QED BY <1>2, <1>3 DEF Tiled

\* A range that is put at the start of the hole, the others being as they were.
LEMMA TileAdded ==
    ASSUME NEW s, NEW t, NEW R, NEW r \in Slot, NEW m \in 1 .. KMAP_PAGES, NEW n \in 1 .. m,
           r + m <= KMAP_PAGES, Bounded(s, R), Tiled(s, R, r .. r + m - 1),
           \A q \in R : t.pages[q] = s.pages[q],
           t.pages[r] = n
    PROVE  Tiled(t, R \cup {r}, (r + n) .. (r + m - 1))
<1> USE KmapAssumption
<1>1. \A q \in R : q \in Int /\ s.pages[q] \in 1 .. KMAP_PAGES
  BY DEF Bounded, Slot
<1>2. \A p, q \in R : p < q => p + s.pages[p] <= q
  BY DEF Tiled
<1>3. \A x \in Slot : x \in r .. r + m - 1 <=> \A q \in R : x < q \/ q + s.pages[q] <= x
  BY DEF Tiled
<1>4. r \in Int /\ m \in Int /\ n \in Int
  BY DEF Slot
<1>5. ASSUME NEW q \in R PROVE q + s.pages[q] <= r \/ r + m <= q
  <2>1. q \in Slot /\ ~ (q < q \/ q + s.pages[q] <= q)
    BY <1>1 DEF Bounded
  <2>2. q \notin r .. r + m - 1
    BY <1>3, <2>1
  <2>3. r \in r .. r + m - 1
    BY <1>4
  <2>4. r < q \/ q + s.pages[q] <= r
    BY <1>3, <2>3
  <2> QED BY <1>1, <1>4, <2>2, <2>4
<1>6. ASSUME NEW p \in R \cup {r}, NEW q \in R \cup {r}, p < q PROVE p + t.pages[p] <= q
  <2>1. CASE p \in R /\ q \in R
    BY <1>2, <1>6, <2>1
  <2>2. CASE p = r /\ q \in R
    BY <1>1, <1>4, <1>5, <1>6, <2>2
  <2>3. CASE p \in R /\ q = r
    BY <1>1, <1>4, <1>5, <1>6, <2>3
  <2>4. CASE p = r /\ q = r
    BY <1>4, <1>6, <2>4
  <2> QED BY <2>1, <2>2, <2>3, <2>4
<1>7. ASSUME NEW x \in Slot
      PROVE  x \in (r + n) .. (r + m - 1)
               <=> \A q \in R \cup {r} : x < q \/ q + t.pages[q] <= x
  <2>1. x \in Int
    BY DEF Slot
  <2>2. x \in (r + n) .. (r + m - 1) <=> x \in r .. r + m - 1 /\ (x < r \/ r + t.pages[r] <= x)
    BY <1>4, <2>1
  <2>3. (\A q \in R : x < q \/ q + s.pages[q] <= x) <=> (\A q \in R : x < q \/ q + t.pages[q] <= x)
    OBVIOUS
  <2> QED BY <1>3, <2>2, <2>3
<1> QED BY <1>6, <1>7 DEF Tiled

\* Tagged ranges are in the area.
LEMMA TaggedBounded ==
    ASSUME NEW s, NEW F, NEW U, Tagged(s, F, U)
    PROVE  Bounded(s, F \cup U)
BY DEF Tagged, Bounded

\* A free range is taken off its list: list_del() in kmap_free_range() and
\* kmap_alloc_range().
LEMMA UnlinkSound ==
    ASSUME NEW s, NEW F, NEW U, NEW hole, Sound(s, F, U, hole), NEW p \in F
    PROVE  /\ Sound(list_del(s, p), F \ {p}, U, hole \cup (p .. p + s.pages[p] - 1))
           /\ list_del(s, p).pages = s.pages
<1> DEFINE t == list_del(s, p)
<1>1. /\ s \in StateSet /\ Filed(s, F) /\ Tagged(s, F, U)
      /\ Tiled(s, F \cup U, hole) /\ Joined(s, F) /\ p \in Slot
  BY DEF Sound, Tagged
<1>2. /\ t \in StateSet /\ t.pages = s.pages
      /\ \A x \in Slot : x # p => t.empty[x] = s.empty[x]
      /\ \A o \in Order : IsInjective(t.lists[o])
      /\ \A o \in Order, x \in Slot :
           Contains(t.lists[o], x) <=> Contains(s.lists[o], x) /\ x # p
  <2>1. \A o \in Order : IsInjective(s.lists[o])
    BY <1>1 DEF Filed
  <2> QED BY <1>1, <2>1, DelEffect
<1> HIDE DEF t
<1>3. Filed(t, F \ {p})
  BY <1>1, <1>2 DEF Filed
<1>4. Tagged(t, F \ {p}, U)
  <2>1. \A r \in (F \ {p}) \cup U : r \in Slot /\ r # p /\ r \in F \cup U
    BY <1>1 DEF Tagged
  <2>2. (F \ {p}) \subseteq Slot /\ U \subseteq Slot /\ (F \ {p}) \cap U = {}
    BY <1>1 DEF Tagged
  <2> QED BY <1>1, <1>2, <2>1, <2>2 DEF Tagged
<1>5. Tiled(t, (F \ {p}) \cup U, hole \cup (p .. p + s.pages[p] - 1))
  <2>1. (F \ {p}) \cup U = (F \cup U) \ {p}
    BY <1>1 DEF Tagged
  <2>2. Tiled(s, (F \cup U) \ {p}, hole \cup (p .. p + s.pages[p] - 1))
    BY <1>1, TaggedBounded, TileRemoved
  <2> QED BY <1>2, <2>1, <2>2 DEF Tiled
<1>6. Joined(t, F \ {p})
  BY <1>1, <1>2 DEF Joined
<1> QED BY <1>2, <1>3, <1>4, <1>5, <1>6 DEF Sound, t

\* A caller's range comes back: nothing is stored yet.
LEMMA DropSound ==
    ASSUME NEW s, NEW F, NEW U, NEW hole, Sound(s, F, U, hole), NEW u \in U
    PROVE  Sound(s, F, U \ {u}, hole \cup (u .. u + s.pages[u] - 1))
<1>1. /\ s \in StateSet /\ Filed(s, F) /\ Tagged(s, F, U)
      /\ Tiled(s, F \cup U, hole) /\ Joined(s, F)
  BY DEF Sound
<1>2. Tagged(s, F, U \ {u})
  <2>1. \A r \in F \cup (U \ {u}) : r \in F \cup U /\ (r \in U <=> r \in U \ {u})
    BY <1>1 DEF Tagged
  <2>2. F \subseteq Slot /\ (U \ {u}) \subseteq Slot /\ F \cap (U \ {u}) = {}
    BY <1>1 DEF Tagged
  <2> QED BY <1>1, <2>1, <2>2 DEF Tagged
<1>3. Tiled(s, F \cup (U \ {u}), hole \cup (u .. u + s.pages[u] - 1))
  <2>1. F \cup (U \ {u}) = (F \cup U) \ {u}
    BY <1>1 DEF Tagged
  <2> QED BY <1>1, <2>1, TaggedBounded, TileRemoved
<1> QED BY <1>1, <1>2, <1>3 DEF Sound

\* Tags stored in the hole overwrite no tag of a range.
SameOutside(s, t, hole) == \A x \in Slot : x \notin hole => t.pages[x] = s.pages[x]

LEMMA TagsKept ==
    ASSUME NEW s, NEW t, NEW R, NEW hole, Bounded(s, R), Tiled(s, R, hole),
           SameOutside(s, t, hole)
    PROVE  \A q \in R : /\ q \notin hole
                        /\ t.pages[q] = s.pages[q]
                        /\ t.pages[q + s.pages[q] - 1] = s.pages[q + s.pages[q] - 1]
<1> USE KmapAssumption
<1> SUFFICES ASSUME NEW q \in R
             PROVE  /\ q \notin hole
                    /\ t.pages[q] = s.pages[q]
                    /\ t.pages[q + s.pages[q] - 1] = s.pages[q + s.pages[q] - 1]
  OBVIOUS
<1>1. q \in Slot /\ s.pages[q] \in 1 .. KMAP_PAGES /\ q + s.pages[q] <= KMAP_PAGES
  BY DEF Bounded
<1>2. \A x \in Slot : x \in hole => x < q \/ q + s.pages[q] <= x
  BY DEF Tiled
<1>3. /\ q + s.pages[q] - 1 \in Slot
      /\ ~ (q + s.pages[q] - 1 < q \/ q + s.pages[q] <= q + s.pages[q] - 1)
      /\ ~ (q < q \/ q + s.pages[q] <= q)
  BY <1>1 DEF Slot
<1>4. q \notin hole /\ q + s.pages[q] - 1 \notin hole
  BY <1>1, <1>2, <1>3
<1> QED BY <1>1, <1>3, <1>4 DEF SameOutside

\* kmap_alloc_range() cuts a range for its caller from the start of the hole.
Cut(s, r, n) == SetPages([s EXCEPT !.empty[r] = TRUE], r, n)

\* A hole of m slots at r, and what is left of it after n; it has room for n.
Hole(r, m) == r .. r + m - 1
Rest(r, n, m) == (r + n) .. (r + m - 1)
Room(r, m, n) == m \in 1 .. KMAP_PAGES /\ n \in 1 .. m /\ r + m <= KMAP_PAGES

LEMMA ClaimSound ==
    ASSUME NEW s, NEW F, NEW U, NEW r \in Slot,
           NEW m, NEW n, Room(r, m, n), Sound(s, F, U, Hole(r, m))
    PROVE  /\ Sound(Cut(s, r, n), F, U \cup {r}, Rest(r, n, m))
           /\ Cut(s, r, n).pages[r] = n
           /\ \A q \in U : Cut(s, r, n).pages[q] = s.pages[q]
<1> USE KmapAssumption
<1> DEFINE t == Cut(s, r, n)
<1>0. /\ n \in 1 .. KMAP_PAGES /\ r + n <= KMAP_PAGES /\ r \in Int
      /\ m \in 1 .. KMAP_PAGES /\ n \in 1 .. m /\ r + m <= KMAP_PAGES
  BY DEF Slot, Room
<1> DEFINE e == [s EXCEPT !.empty = [s.empty EXCEPT ![r] = TRUE]]
<1>1. /\ s \in StateSet /\ Filed(s, F) /\ Tagged(s, F, U)
      /\ Tiled(s, F \cup U, r .. r + m - 1) /\ Joined(s, F)
  BY DEF Sound, Hole
<1>2. /\ e = [pages |-> s.pages, empty |-> [s.empty EXCEPT ![r] = TRUE], lists |-> s.lists]
      /\ t = SetPages(e, r, n)
  <2>1. t = SetPages(e, r, n)
    BY DEF Cut
  <2> DEFINE f == [s.empty EXCEPT ![r] = TRUE]
  <2>2. e = [s EXCEPT !.empty = f]
    OBVIOUS
  <2> HIDE DEF e, f
  <2>3. e = [pages |-> s.pages, empty |-> f, lists |-> s.lists]
    BY <1>1, <2>2, FieldReplaced DEF StateSet
  <2> QED BY <2>1, <2>3 DEF f
<1> HIDE DEF e, t
<1>3. /\ e.pages = s.pages /\ e.empty = [s.empty EXCEPT ![r] = TRUE] /\ e.lists = s.lists
      /\ s.empty \in [Slot -> BOOLEAN]
  BY <1>1, <1>2 DEF StateSet
<1>4. /\ e.empty \in [Slot -> BOOLEAN] /\ e.empty[r] = TRUE
      /\ \A x \in Slot : x # r => e.empty[x] = s.empty[x]
  BY <1>3
<1>5. e \in StateSet
  BY <1>1, <1>2, <1>3, <1>4 DEF StateSet
<1>6. /\ t \in StateSet /\ t.empty = e.empty /\ t.lists = s.lists
      /\ t.pages[r] = n /\ t.pages[r + n - 1] = n
      /\ \A x \in Slot : x # r /\ x # r + n - 1 => t.pages[x] = s.pages[x]
  <2>1. /\ SetPages(e, r, n) \in StateSet
        /\ SetPages(e, r, n).empty = e.empty
        /\ SetPages(e, r, n).lists = e.lists
        /\ SetPages(e, r, n).pages[r] = n
        /\ SetPages(e, r, n).pages[r + n - 1] = n
        /\ \A x \in Slot : x # r /\ x # r + n - 1 => SetPages(e, r, n).pages[x] = e.pages[x]
    BY <1>0, <1>5, SetPagesEffect
  <2>2. t = SetPages(e, r, n)
    BY <1>2
  <2> QED BY <1>3, <2>1, <2>2
<1>7. r \notin F /\ r \notin U
      /\ \A q \in F \cup U :
           /\ t.pages[q] = s.pages[q]
           /\ t.pages[q + s.pages[q] - 1] = s.pages[q + s.pages[q] - 1]
  <2> DEFINE hole == r .. r + m - 1
  <2>1. Bounded(s, F \cup U) /\ Tiled(s, F \cup U, hole)
    BY <1>1, TaggedBounded
  <2>2. r \in hole /\ r + n - 1 \in hole
    BY <1>0
  <2> HIDE DEF hole
  <2>3. SameOutside(s, t, hole)
    BY <1>6, <2>2 DEF SameOutside
  <2>4. \A q \in F \cup U : /\ q \notin hole
                            /\ t.pages[q] = s.pages[q]
                            /\ t.pages[q + s.pages[q] - 1] = s.pages[q + s.pages[q] - 1]
    BY <2>1, <2>3, TagsKept
  <2> QED BY <2>2, <2>4
<1>8. Filed(t, F)
  BY <1>1, <1>6, <1>7 DEF Filed
<1>9. Tagged(t, F, U \cup {r})
  <2>1. F \subseteq Slot /\ U \cup {r} \subseteq Slot /\ F \cap (U \cup {r}) = {}
    BY <1>1, <1>7 DEF Tagged
  <2>2. ASSUME NEW q \in F \cup U
        PROVE  /\ t.pages[q] \in 1 .. KMAP_PAGES
               /\ q + t.pages[q] <= KMAP_PAGES
               /\ t.pages[q + t.pages[q] - 1] = t.pages[q]
               /\ t.empty[q] = (q \in U \cup {r})
    <3>1. /\ s.pages[q] \in 1 .. KMAP_PAGES /\ q + s.pages[q] <= KMAP_PAGES
          /\ s.pages[q + s.pages[q] - 1] = s.pages[q] /\ s.empty[q] = (q \in U)
          /\ q \in Slot /\ q # r
      BY <1>1, <1>7 DEF Tagged
    <3>2. t.empty[q] = s.empty[q]
      BY <1>4, <1>6, <3>1
    <3>3. (q \in U) = (q \in U \cup {r})
      BY <3>1
    <3> QED BY <1>7, <3>1, <3>2, <3>3
  <2>3. /\ t.pages[r] \in 1 .. KMAP_PAGES
        /\ r + t.pages[r] <= KMAP_PAGES
        /\ t.pages[r + t.pages[r] - 1] = t.pages[r]
        /\ t.empty[r] = (r \in U \cup {r})
    BY <1>0, <1>4, <1>6
  <2>4. \A q \in F \cup (U \cup {r}) : q \in F \cup U \/ q = r
    OBVIOUS
  <2> QED BY <2>1, <2>2, <2>3, <2>4 DEF Tagged
<1>10. Tiled(t, F \cup (U \cup {r}), (r + n) .. (r + m - 1))
  <2>1. F \cup (U \cup {r}) = (F \cup U) \cup {r}
    OBVIOUS
  <2>2. Bounded(s, F \cup U)
    BY <1>1, TaggedBounded
  <2>3. t.pages[r] = n /\ \A q \in F \cup U : t.pages[q] = s.pages[q]
    BY <1>6, <1>7
  <2>4. Tiled(s, F \cup U, r .. r + m - 1)
    BY <1>1
  <2>5. Tiled(t, (F \cup U) \cup {r}, (r + n) .. (r + m - 1))
    BY <1>0, <2>2, <2>3, <2>4, TileAdded
  <2> QED BY <2>1, <2>5
<1>11. Joined(t, F)
  BY <1>1, <1>7 DEF Joined
<1> QED BY <1>6, <1>7, <1>8, <1>9, <1>10, <1>11 DEF Sound, Rest, t

\* The end of kmap_free_range(): the hole becomes a free range, between ranges
\* of callers.
Link(s, r, n) == Add(SetPages(s, r, n), r, kmap_order(n + 1) - 1)

Apart(s, F, r, n) == \A p \in F : p + s.pages[p] # r /\ r + n # p

LEMMA LinkSound ==
    ASSUME NEW s, NEW F, NEW U, NEW r \in Slot, NEW n \in 1 .. KMAP_PAGES, r + n <= KMAP_PAGES,
           Sound(s, F, U, r .. r + n - 1), Apart(s, F, r, n)
    PROVE  /\ Sound(Link(s, r, n), F \cup {r}, U, {})
           /\ \A q \in U : Link(s, r, n).pages[q] = s.pages[q]
<1> USE KmapAssumption
<1> DEFINE t == Link(s, r, n)
           v == SetPages(s, r, n)
           o == kmap_order(n + 1) - 1
<1>0. n \in 1 .. n /\ r \in Int /\ n \in Int
  BY DEF Slot
<1>1. /\ s \in StateSet /\ Filed(s, F) /\ Tagged(s, F, U)
      /\ Tiled(s, F \cup U, r .. r + n - 1) /\ Joined(s, F)
  BY DEF Sound
<1>3. /\ v \in StateSet /\ v.empty = s.empty /\ v.lists = s.lists
      /\ v.pages[r] = n /\ v.pages[r + n - 1] = n
      /\ \A x \in Slot : x # r /\ x # r + n - 1 => v.pages[x] = s.pages[x]
  BY <1>1, SetPagesEffect
<1>2. /\ r \notin F \cup U
      /\ \A q \in F \cup U :
           /\ v.pages[q] = s.pages[q]
           /\ v.pages[q + s.pages[q] - 1] = s.pages[q + s.pages[q] - 1]
  <2> DEFINE hole == r .. r + n - 1
  <2>1. Bounded(s, F \cup U) /\ Tiled(s, F \cup U, hole)
    BY <1>1, TaggedBounded
  <2>2. r \in hole /\ r + n - 1 \in hole
    BY <1>0
  <2> HIDE DEF hole, v
  <2>3. SameOutside(s, v, hole)
    BY <1>3, <2>2 DEF SameOutside
  <2>4. \A q \in F \cup U : /\ q \notin hole
                            /\ v.pages[q] = s.pages[q]
                            /\ v.pages[q + s.pages[q] - 1] = s.pages[q + s.pages[q] - 1]
    BY <2>1, <2>3, TagsKept
  <2> QED BY <2>2, <2>4
<1>4. o \in Order
  BY FiledOrder
<1>5. \A q \in Order : IsInjective(v.lists[q]) /\ ~ Contains(v.lists[q], r)
  BY <1>1, <1>2, <1>3 DEF Filed
<1>6. t = Add(v, r, o)
  BY DEF Link
<1> HIDE DEF v, o, t
<1>7. /\ t \in StateSet
      /\ t.pages = v.pages
      /\ t.empty[r] = FALSE
      /\ \A x \in Slot : x # r => t.empty[x] = s.empty[x]
      /\ \A q \in Order : IsInjective(t.lists[q])
      /\ \A q \in Order, x \in Slot :
           Contains(t.lists[q], x) <=> Contains(s.lists[q], x) \/ (q = o /\ x = r)
  <2>1. /\ Add(v, r, o) \in StateSet
        /\ Add(v, r, o).pages = v.pages
        /\ Add(v, r, o).empty[r] = FALSE
        /\ \A x \in Slot : x # r => Add(v, r, o).empty[x] = v.empty[x]
        /\ \A q \in Order : IsInjective(Add(v, r, o).lists[q])
        /\ \A q \in Order, x \in Slot :
             Contains(Add(v, r, o).lists[q], x) <=> Contains(v.lists[q], x) \/ (q = o /\ x = r)
    BY <1>3, <1>4, <1>5, AddEffect
  <2> QED BY <1>3, <1>6, <2>1
<1>8. Filed(t, F \cup {r})
  <2>1. ASSUME NEW q \in Order, NEW x \in Slot
        PROVE  Contains(t.lists[q], x) <=> x \in F \cup {r} /\ q = kmap_order(t.pages[x] + 1) - 1
    <3>1. Contains(s.lists[q], x) <=> x \in F /\ q = kmap_order(s.pages[x] + 1) - 1
      BY <1>1 DEF Filed
    <3>2. CASE x = r
      BY <1>2, <1>3, <1>7, <3>1, <3>2 DEF o
    <3>3. CASE x # r
      <4>1. x \in F => t.pages[x] = s.pages[x]
        BY <1>2, <1>7
      <4> QED BY <1>7, <3>1, <3>3, <4>1
    <3> QED BY <3>2, <3>3
  <2> QED BY <1>7, <2>1 DEF Filed
<1>9. Tagged(t, F \cup {r}, U)
  <2>1. F \cup {r} \subseteq Slot /\ U \subseteq Slot /\ (F \cup {r}) \cap U = {}
    BY <1>1, <1>2 DEF Tagged
  <2>2. ASSUME NEW q \in F \cup U
        PROVE  /\ t.pages[q] \in 1 .. KMAP_PAGES
               /\ q + t.pages[q] <= KMAP_PAGES
               /\ t.pages[q + t.pages[q] - 1] = t.pages[q]
               /\ t.empty[q] = (q \in U)
    <3>1. /\ s.pages[q] \in 1 .. KMAP_PAGES /\ q + s.pages[q] <= KMAP_PAGES
          /\ s.pages[q + s.pages[q] - 1] = s.pages[q] /\ s.empty[q] = (q \in U)
          /\ q \in Slot /\ q # r
      BY <1>1, <1>2 DEF Tagged
    <3>2. t.empty[q] = s.empty[q]
      BY <1>7, <3>1
    <3> QED BY <1>2, <1>7, <3>1, <3>2
  <2>3. /\ t.pages[r] \in 1 .. KMAP_PAGES
        /\ r + t.pages[r] <= KMAP_PAGES
        /\ t.pages[r + t.pages[r] - 1] = t.pages[r]
        /\ t.empty[r] = (r \in U)
    <3>1. (r \in U) = FALSE
      BY <1>2
    <3> QED BY <1>3, <1>7, <3>1
  <2>4. \A q \in (F \cup {r}) \cup U : q \in F \cup U \/ q = r
    OBVIOUS
  <2> QED BY <2>1, <2>2, <2>3, <2>4 DEF Tagged
<1>10. Tiled(t, (F \cup {r}) \cup U, {})
  <2>1. (F \cup {r}) \cup U = (F \cup U) \cup {r} /\ (r + n) .. (r + n - 1) = {}
    BY <1>0
  <2>2. Bounded(s, F \cup U)
    BY <1>1, TaggedBounded
  <2>3. t.pages[r] = n /\ \A q \in F \cup U : t.pages[q] = s.pages[q]
    BY <1>2, <1>3, <1>7
  <2>4. Tiled(t, (F \cup U) \cup {r}, (r + n) .. (r + n - 1))
    BY <1>0, <1>1, <2>2, <2>3, TileAdded
  <2> QED BY <2>1, <2>4
<1>11. Joined(t, F \cup {r})
  <2>1. \A q \in F : t.pages[q] = s.pages[q]
    BY <1>2, <1>7
  <2>2. t.pages[r] = n /\ r + n # r
    BY <1>0, <1>3, <1>7
  <2> QED BY <1>1, <2>1, <2>2 DEF Joined, Apart
<1>12. \A q \in U : t.pages[q] = s.pages[q]
  BY <1>2, <1>7
<1> QED BY <1>7, <1>8, <1>9, <1>10, <1>11, <1>12 DEF Sound, t

-----------------------------------------------------------------------------
(* kmap_free_range() *)

\* The tag before the hole leads to the range that ends there, and to no other.
LEMMA BeforeFound ==
    ASSUME NEW s, NEW F, NEW U, NEW r \in Slot, NEW n \in 1 .. KMAP_PAGES, r + n <= KMAP_PAGES,
           Sound(s, F, U, r .. r + n - 1)
    PROVE  \/ FreeBefore(s, r) = {} /\ \A q \in F : q + s.pages[q] # r
           \/ \E p \in F : FreeBefore(s, r) = {p} /\ p + s.pages[p] = r
<1> USE KmapAssumption
<1>1. /\ Tagged(s, F, U) /\ Tiled(s, F \cup U, r .. r + n - 1)
      /\ s.empty \in [Slot -> BOOLEAN]
  BY DEF Sound, StateSet
<1>2. \A q \in F \cup U : q \in Slot /\ s.pages[q] \in 1 .. KMAP_PAGES
  BY <1>1, TaggedBounded DEF Bounded
<1>3. r \in Int /\ n \in Int /\ \A q \in F \cup U : q \in Int /\ q >= 0 /\ s.pages[q] \in Int /\ s.pages[q] >= 1
  BY <1>2 DEF Slot
<1>4. CASE r = 0
  <2>1. FreeBefore(s, r) = {}
    BY <1>4 DEF FreeBefore
  <2>2. \A q \in F : q + s.pages[q] # r
    BY <1>3, <1>4
  <2> QED BY <2>1, <2>2
<1>5. CASE r # 0
  <2>1. r > 0 /\ r - 1 \in Slot /\ r - 1 \notin r .. r + n - 1 /\ r \in r .. r + n - 1
    BY <1>5 DEF Slot
  <2>2. PICK p \in F \cup U : ~ (r - 1 < p \/ p + s.pages[p] <= r - 1)
    BY <1>1, <2>1 DEF Tiled
  <2>3. r < p \/ p + s.pages[p] <= r
    BY <1>1, <2>1 DEF Tiled
  <2>4. p + s.pages[p] = r
    BY <1>3, <2>2, <2>3
  <2>5. p \in Slot /\ s.pages[r - 1] = s.pages[p] /\ s.empty[p] = (p \in U)
    <3>1. s.pages[p + s.pages[p] - 1] = s.pages[p]
      BY <1>1 DEF Tagged
    <3>2. s.empty[p] = (p \in U)
      BY <1>1 DEF Tagged
    <3>3. p + s.pages[p] - 1 = r - 1
      BY <1>3, <2>4
    <3>4. s.pages[r - 1] = s.pages[p]
      BY <3>1, <3>3
    <3>5. p \in Slot
      BY <1>2
    <3> QED BY <3>2, <3>4, <3>5
  <2>6. r - s.pages[r - 1] = p
    BY <1>3, <2>4, <2>5
  <2>7. CASE p \in U
    <3>1. s.empty[p] = TRUE /\ p \notin F
      <4>1. (p \in U) = TRUE
        BY <2>7
      <4>2. p \notin F
        BY <1>1, <2>7 DEF Tagged
      <4> QED BY <2>5, <4>1, <4>2
    <3>2. FreeBefore(s, r) = {}
      BY <2>6, <3>1 DEF FreeBefore
    <3>3. ASSUME NEW q \in F, q + s.pages[q] = r PROVE FALSE
      <4>1. q # p /\ (q < p \/ p < q)
        BY <1>3, <3>1
      <4>2. q < p => q + s.pages[q] <= p
        BY <1>1 DEF Tiled
      <4>3. p < q => p + s.pages[p] <= q
        BY <1>1 DEF Tiled
      <4> QED BY <1>3, <2>4, <3>3, <4>1, <4>2, <4>3
    <3> QED BY <3>2, <3>3
  <2>8. CASE p \notin U
    <3>1. s.empty[p] = FALSE /\ p \in F
      <4>1. (p \in U) = FALSE
        BY <2>8
      <4> QED BY <2>5, <2>8, <4>1
    <3>2. FreeBefore(s, r) = {p}
      BY <2>1, <2>5, <2>6, <3>1 DEF FreeBefore
    <3> QED BY <2>4, <3>1, <3>2
  <2> QED BY <2>7, <2>8
<1> QED BY <1>4, <1>5

\* The slot after the hole is the first of a range, which is taken if it is free.
LEMMA AfterFound ==
    ASSUME NEW s, NEW F, NEW U, NEW r \in Slot, NEW n \in 1 .. KMAP_PAGES, r + n <= KMAP_PAGES,
           Sound(s, F, U, r .. r + n - 1)
    PROVE  \/ FreeAfter(s, r, n) = {} /\ r + n \notin F
           \/ FreeAfter(s, r, n) = {r + n} /\ r + n \in F
<1> USE KmapAssumption
<1>1. /\ Tagged(s, F, U) /\ Tiled(s, F \cup U, r .. r + n - 1)
      /\ s.empty \in [Slot -> BOOLEAN]
  BY DEF Sound, StateSet
<1>2. \A q \in F \cup U : q \in Slot /\ s.pages[q] \in 1 .. KMAP_PAGES
  BY <1>1, TaggedBounded DEF Bounded
<1>3. r \in Int /\ n \in Int /\ \A q \in F \cup U : q \in Int /\ s.pages[q] \in Int /\ s.pages[q] >= 1
  BY <1>2 DEF Slot
<1>4. CASE r + n = KMAP_PAGES
  <2>1. FreeAfter(s, r, n) = {}
    BY <1>4 DEF FreeAfter
  <2>2. r + n \notin F
    BY <1>2, <1>4 DEF Slot
  <2> QED BY <2>1, <2>2
<1>5. CASE r + n # KMAP_PAGES
  <2>1. /\ r + n < KMAP_PAGES /\ r + n \in Slot /\ r + n \notin r .. r + n - 1
        /\ r + n - 1 \in Slot /\ r + n - 1 \in r .. r + n - 1
    BY <1>5 DEF Slot
  <2>2. PICK p \in F \cup U : ~ (r + n < p \/ p + s.pages[p] <= r + n)
    BY <1>1, <2>1 DEF Tiled
  <2>3. r + n - 1 < p \/ p + s.pages[p] <= r + n - 1
    BY <1>1, <2>1 DEF Tiled
  <2>4. p = r + n
    BY <1>3, <2>2, <2>3
  <2>5. s.empty[p] = (p \in U)
    BY <1>1 DEF Tagged
  <2>6. CASE p \in U
    <3>1. (p \in U) = TRUE
      BY <2>6
    <3>2. p \notin F
      BY <1>1, <2>6 DEF Tagged
    <3>3. FreeAfter(s, r, n) = {}
      BY <2>4, <2>5, <3>1 DEF FreeAfter
    <3> QED BY <2>4, <3>2, <3>3
  <2>7. CASE p \notin U
    <3>1. (p \in U) = FALSE
      BY <2>7
    <3>2. s.empty[r + n] = FALSE
      BY <2>4, <2>5, <3>1
    <3>3. FreeAfter(s, r, n) = {r + n}
      BY <2>1, <3>2 DEF FreeAfter
    <3> QED BY <2>4, <2>7, <3>3
  <2> QED BY <2>6, <2>7
<1> QED BY <1>4, <1>5

LEMMA IntervalsJoin ==
    ASSUME NEW a \in Int, NEW b \in Int, NEW c \in Int, a <= b, b <= c
    PROVE  (a .. b - 1) \cup (b .. c - 1) = a .. c - 1
OBVIOUS

\* In t no range is a hole, and the ranges of callers are as they were in s.
Freed(s, U, t) ==
    /\ \E G : Sound(t, G, U, {})
    /\ \A q \in U : t.pages[q] = s.pages[q]

\* A range that is neither free nor a caller's becomes part of a free one, and
\* the ranges of callers stay as they are.
LEMMA FreeRangeSound ==
    ASSUME NEW s, NEW F, NEW U, NEW r \in Slot, NEW n \in 1 .. KMAP_PAGES, r + n <= KMAP_PAGES,
           Sound(s, F, U, r .. r + n - 1)
    PROVE  Freed(s, U, kmap_free_range(s, r, n))
<1> USE KmapAssumption
<1> DEFINE before == FreeBefore(s, r)
           first == IF before = {} THEN r ELSE CHOOSE p \in before : TRUE
           s1 == IF before = {} THEN s ELSE list_del(s, first)
           joined == n + (IF before = {} THEN 0 ELSE s.pages[first])
           after == FreeAfter(s1, first, joined)
           s2 == IF after = {} THEN s1 ELSE list_del(s1, first + joined)
           all == joined + (IF after = {} THEN 0 ELSE s1.pages[first + joined])
<1>1. kmap_free_range(s, r, n) = Link(s2, first, all)
  BY DEF kmap_free_range, Link, Add
<1>2. Bounded(s, F \cup U) /\ Joined(s, F)
  BY TaggedBounded DEF Sound
<1>3. /\ r \in Int /\ r >= 0 /\ n \in Int
      /\ \A q \in F : /\ q \in Slot /\ q \in Int /\ q >= 0
                      /\ s.pages[q] \in Int /\ s.pages[q] >= 1 /\ q + s.pages[q] <= KMAP_PAGES
  BY <1>2 DEF Bounded, Slot
<1>4. \E F1 \in SUBSET F :
        /\ Sound(s1, F1, U, first .. r + n - 1)
        /\ s1.pages = s.pages
        /\ first \in Slot /\ first <= r /\ joined = r + n - first
        /\ \A q \in F1 : q + s.pages[q] # first
        /\ r + n \in F => r + n \in F1
  <2>1. CASE before = {} /\ \A q \in F : q + s.pages[q] # r
    <3>1. first = r /\ s1 = s /\ joined = n
      BY <1>3, <2>1
    <3> HIDE DEF before, first, s1, joined
    <3> WITNESS F \in SUBSET F
    <3> QED BY <1>3, <2>1, <3>1
  <2>2. ASSUME NEW p \in F, before = {p}, p + s.pages[p] = r
        PROVE  \E F1 \in SUBSET F :
                 /\ Sound(s1, F1, U, first .. r + n - 1)
                 /\ s1.pages = s.pages
                 /\ first \in Slot /\ first <= r /\ joined = r + n - first
                 /\ \A q \in F1 : q + s.pages[q] # first
                 /\ r + n \in F => r + n \in F1
    <3>1. first = p /\ s1 = list_del(s, p) /\ joined = n + s.pages[p]
      BY <2>2
    <3> HIDE DEF before, first, s1, joined
    <3>2. /\ Sound(list_del(s, p), F \ {p}, U, (r .. r + n - 1) \cup (p .. p + s.pages[p] - 1))
          /\ list_del(s, p).pages = s.pages
      BY UnlinkSound
    <3>3. (r .. r + n - 1) \cup (p .. p + s.pages[p] - 1) = p .. r + n - 1
      <4>1. p \in Int /\ s.pages[p] \in Int /\ s.pages[p] >= 1
        BY <1>3
      <4> DEFINE c == r + n
      <4>2. c \in Int /\ p + s.pages[p] = r /\ p <= r /\ r <= c
        BY <1>3, <2>2, <4>1
      <4> HIDE DEF c
      <4>3. (p .. r - 1) \cup (r .. c - 1) = p .. c - 1
        BY <1>3, <4>1, <4>2, IntervalsJoin
      <4>4. p + s.pages[p] - 1 = r - 1 /\ c - 1 = r + n - 1
        BY <1>3, <4>1, <4>2 DEF c
      <4> QED BY <4>3, <4>4
    <3>4. Sound(s1, F \ {p}, U, first .. r + n - 1)
      BY <3>1, <3>2, <3>3
    <3>5. first \in Slot /\ first <= r /\ joined = r + n - first
      BY <1>3, <2>2, <3>1
    <3>6. \A q \in F \ {p} : q + s.pages[q] # first
      BY <1>2, <3>1 DEF Joined
    <3>7. r + n \in F => r + n \in F \ {p}
      BY <1>3, <2>2
    <3> WITNESS F \ {p} \in SUBSET F
    <3> QED BY <3>1, <3>2, <3>4, <3>5, <3>6, <3>7
  <2> QED BY <2>1, <2>2, BeforeFound
<1>5. PICK F1 \in SUBSET F :
        /\ Sound(s1, F1, U, first .. r + n - 1)
        /\ s1.pages = s.pages
        /\ first \in Slot /\ first <= r /\ joined = r + n - first
        /\ \A q \in F1 : q + s.pages[q] # first
        /\ r + n \in F => r + n \in F1
  BY <1>4
<1> HIDE DEF before, first, s1, joined
<1>6. \E F2 \in SUBSET F1 :
        /\ Sound(s2, F2, U, first .. first + all - 1)
        /\ s2.pages = s.pages
        /\ all \in 1 .. KMAP_PAGES /\ first + all <= KMAP_PAGES
        /\ first + all \notin F2
  <2>0. /\ first \in Int /\ first >= 0 /\ joined \in Int /\ first + joined = r + n
        /\ joined \in 1 .. KMAP_PAGES
    BY <1>3, <1>5 DEF Slot
  <2>1. CASE after = {} /\ r + n \notin F1
    <3>1. all = (r - first) + n /\ s2 = s1
      BY <1>3, <1>5, <2>0, <2>1
    <3>2. first + all = r + n /\ all \in 1 .. KMAP_PAGES
      BY <1>3, <1>5, <2>0, <3>1
    <3> HIDE DEF after, all, s2
    <3>3. first .. first + all - 1 = first .. r + n - 1
      <4>1. first + all - 1 = r + n - 1
        BY <1>3, <2>0, <3>2
      <4> QED BY <4>1
    <3>4. Sound(s2, F1, U, first .. first + all - 1) /\ s2.pages = s.pages
      BY <1>5, <3>1, <3>3
    <3>5. first + all <= KMAP_PAGES /\ first + all \notin F1
      BY <2>1, <3>2
    <3> WITNESS F1 \in SUBSET F1
    <3> QED BY <3>2, <3>4, <3>5
  <2>2. CASE after = {r + n} /\ r + n \in F1
    <3> DEFINE p == r + n
    <3>1. all = (r - first) + n + s.pages[p] /\ s2 = list_del(s1, p)
      <4>1. all = joined + s1.pages[p] /\ s2 = list_del(s1, p)
        BY <2>0, <2>2
      <4> QED BY <1>3, <1>5, <2>0, <4>1
    <3>2. p \in F1 /\ p \in F /\ p = r + n /\ p \in Int /\ s.pages[p] \in Int /\ s.pages[p] >= 1
          /\ p + s.pages[p] <= KMAP_PAGES
      BY <1>3, <1>5, <2>2
    <3> HIDE DEF after, all, s2, p
    <3>3. first + all = p + s.pages[p] /\ all \in 1 .. KMAP_PAGES
      BY <1>3, <1>5, <2>0, <3>1, <3>2
    <3>4. /\ Sound(list_del(s1, p), F1 \ {p}, U, (first .. r + n - 1) \cup (p .. p + s1.pages[p] - 1))
          /\ list_del(s1, p).pages = s1.pages
      BY <1>5, <3>2, UnlinkSound
    <3>5. (first .. r + n - 1) \cup (p .. p + s.pages[p] - 1) = first .. first + all - 1
      <4>1. (first .. p - 1) \cup (p .. p + s.pages[p] - 1) = first .. (p + s.pages[p]) - 1
        <5>1. first <= p /\ p <= p + s.pages[p] /\ p + s.pages[p] \in Int
          BY <1>3, <1>5, <2>0, <3>2
        <5> DEFINE c == p + s.pages[p]
        <5>2. c \in Int /\ p <= c /\ c - 1 = p + s.pages[p] - 1 /\ c = p + s.pages[p]
          BY <3>2, <5>1
        <5> HIDE DEF c
        <5>3. (first .. p - 1) \cup (p .. c - 1) = first .. c - 1
          BY <2>0, <3>2, <5>1, <5>2, IntervalsJoin
        <5> QED BY <5>2, <5>3
      <4>2. p - 1 = r + n - 1 /\ (p + s.pages[p]) - 1 = first + all - 1
        BY <1>3, <2>0, <3>2, <3>3
      <4> QED BY <4>1, <4>2
    <3>6. Sound(s2, F1 \ {p}, U, first .. first + all - 1) /\ s2.pages = s.pages
      BY <1>5, <3>1, <3>4, <3>5
    <3>7. first + all \notin F1 \ {p}
      BY <1>2, <1>5, <3>2, <3>3 DEF Joined
    <3>8. first + all <= KMAP_PAGES
      BY <3>2, <3>3
    <3> WITNESS F1 \ {p} \in SUBSET F1
    <3> QED BY <3>3, <3>6, <3>7, <3>8
  <2>3. \/ after = {} /\ r + n \notin F1
        \/ after = {r + n} /\ r + n \in F1
    <3>1. first .. r + n - 1 = first .. first + joined - 1
      BY <1>3, <2>0
    <3>2. first \in Slot /\ first + joined <= KMAP_PAGES
      BY <1>5, <2>0
    <3>3. Sound(s1, F1, U, first .. first + joined - 1)
      BY <1>5, <3>1
    <3>4. \/ FreeAfter(s1, first, joined) = {} /\ first + joined \notin F1
          \/ FreeAfter(s1, first, joined) = {first + joined} /\ first + joined \in F1
      <4>1. joined \in 1 .. KMAP_PAGES
        BY <2>0
      <4>2. \A x \in Slot, m \in 1 .. KMAP_PAGES :
              x + m <= KMAP_PAGES /\ Sound(s1, F1, U, x .. x + m - 1) =>
                \/ FreeAfter(s1, x, m) = {} /\ x + m \notin F1
                \/ FreeAfter(s1, x, m) = {x + m} /\ x + m \in F1
        BY AfterFound
      <4> QED BY <3>2, <3>3, <4>1, <4>2
    <3>5. first + joined = r + n
      BY <2>0
    <3> QED BY <3>4, <3>5
  <2> HIDE DEF after, all, s2
  <2> QED BY <2>1, <2>2, <2>3
<1>7. PICK F2 \in SUBSET F1 :
        /\ Sound(s2, F2, U, first .. first + all - 1)
        /\ s2.pages = s.pages
        /\ all \in 1 .. KMAP_PAGES /\ first + all <= KMAP_PAGES
        /\ first + all \notin F2
  BY <1>6
<1> HIDE DEF after, all, s2
<1>8. Apart(s2, F2, first, all)
  BY <1>5, <1>7 DEF Apart
<1>9. /\ Sound(Link(s2, first, all), F2 \cup {first}, U, {})
      /\ \A q \in U : Link(s2, first, all).pages[q] = s2.pages[q]
  <2>1. first \in Slot /\ all \in 1 .. KMAP_PAGES /\ first + all <= KMAP_PAGES
    BY <1>5, <1>7
  <2>2. Sound(s2, F2, U, first .. first + all - 1)
    BY <1>7
  <2> QED BY <1>8, <2>1, <2>2, LinkSound
<1>10. \A q \in U : kmap_free_range(s, r, n).pages[q] = s.pages[q]
  BY <1>1, <1>7, <1>9
<1>11. \E G : Sound(kmap_free_range(s, r, n), G, U, {})
  BY <1>1, <1>9
<1> QED BY <1>10, <1>11 DEF Freed

-----------------------------------------------------------------------------
(* kmap() and kunmap() *)

\* What is linked is what is free.
LEMMA LinkedIsFree ==
    ASSUME NEW s, NEW F, NEW U, NEW hole, Sound(s, F, U, hole)
    PROVE  UNION {ToSet(s.lists[o]) : o \in Order} = F
<1>1. s.lists \in [Order -> Seq(Slot)] /\ Filed(s, F) /\ Tagged(s, F, U)
  BY DEF Sound, StateSet
<1>2. ASSUME NEW o \in Order, NEW x \in ToSet(s.lists[o]) PROVE x \in F
  <2>1. s.lists[o] \in Seq(Slot)
    BY <1>1
  <2>2. x \in Slot /\ Contains(s.lists[o], x)
    BY <2>1, MembersAsSet
  <2> QED BY <1>1, <2>2 DEF Filed
<1>3. ASSUME NEW x \in F PROVE \E o \in Order : x \in ToSet(s.lists[o])
  <2> DEFINE o == kmap_order(s.pages[x] + 1) - 1
  <2>1. x \in Slot /\ s.pages[x] \in Nat \ {0}
    <3>1. Bounded(s, F \cup U)
      BY <1>1, TaggedBounded
    <3> QED BY <3>1, KmapAssumption DEF Bounded
  <2>2. o \in Order
    BY <2>1, FiledOrder
  <2>3. Contains(s.lists[o], x)
    BY <1>1, <2>1, <2>2 DEF Filed
  <2> HIDE DEF o
  <2>4. s.lists[o] \in Seq(Slot)
    BY <1>1, <2>2
  <2>5. x \in ToSet(s.lists[o])
    BY <2>3, <2>4, MembersAsSet
  <2> QED BY <2>2, <2>5
<1> QED BY <1>2, <1>3

\* kmap_find_free() returns a range of the list that is long enough, if there
\* is one.
LEMMA FindFree ==
    ASSUME NEW o \in Order, NEW n \in Nat, kmap_free_ranges[o] \in Seq(Slot)
    PROVE  /\ kmap_find_free(o, n) # 0 =>
                /\ Contains(kmap_free_ranges[o], FirstFit(o, n))
                /\ pages[FirstFit(o, n)] >= n
           /\ (\E x : Contains(kmap_free_ranges[o], x) /\ pages[x] >= n) => kmap_find_free(o, n) # 0
<1> DEFINE q == kmap_free_ranges[o]
           I == {i \in 1 .. Len(q) : pages[q[i]] >= n}
<1>1. Len(q) \in Nat
  BY LenProperties
<1>2. kmap_find_free(o, n) = IF I # {} THEN Min(I) ELSE 0
  BY DEF kmap_find_free, SelectInSeq
<1>3. I \in SUBSET Nat /\ 0 \notin I
  BY <1>1
<1>4. ASSUME I # {} PROVE Min(I) \in I
  BY <1>3, <1>4, LeastOf
<1>5. ASSUME kmap_find_free(o, n) # 0
      PROVE  Contains(q, FirstFit(o, n)) /\ pages[FirstFit(o, n)] >= n
  <2>1. kmap_find_free(o, n) \in I
    BY <1>2, <1>4, <1>5
  <2>2. FirstFit(o, n) = q[kmap_find_free(o, n)]
    BY DEF FirstFit
  <2> QED BY <2>1, <2>2 DEF Contains
<1>6. ASSUME NEW x, Contains(q, x), pages[x] >= n PROVE kmap_find_free(o, n) # 0
  <2>1. PICK i \in 1 .. Len(q) : q[i] = x
    BY <1>6 DEF Contains
  <2>2. i \in I
    BY <1>6, <2>1
  <2>3. Min(I) # 0
    BY <1>3, <1>4, <2>2
  <2> QED BY <1>2, <2>2, <2>3
<1> QED BY <1>5, <1>6

\* kmap_alloc_range() finds only free ranges that are long enough.
LEMMA CandidateFits ==
    ASSUME NEW F, NEW U, Sound(State, F, U, {}), NEW n \in Nat, n > 1, NEW r \in Candidates(n)
    PROVE  r \in F /\ pages[r] >= n
<1> USE KmapAssumption
<1> DEFINE start == kmap_order(n)
           above == {o \in start .. KMAP_ORDERS - 1 : kmap_find_free(o, n) # 0}
<1>1. kmap_free_ranges \in [Order -> Seq(Slot)] /\ Filed(State, F)
  BY DEF Sound, StateSet, State
<1>2. start \in 0 .. KMAP_ORDERS
  BY OrderExists
<1>3. ASSUME NEW o \in Order, kmap_find_free(o, n) # 0, r = FirstFit(o, n)
      PROVE  r \in F /\ pages[r] >= n
  <2>1. kmap_free_ranges[o] \in Seq(Slot)
    BY <1>1
  <2>2. Contains(kmap_free_ranges[o], FirstFit(o, n)) /\ pages[FirstFit(o, n)] >= n
    BY <1>3, <2>1, FindFree
  <2>3. Contains(kmap_free_ranges[o], r) /\ pages[r] >= n
    BY <1>3, <2>2
  <2>4. r \in Slot
    BY <2>1, <2>3, MembersAsSet
  <2>5. Contains(State.lists[o], r)
    BY <2>3 DEF State
  <2> QED BY <1>1, <2>3, <2>4, <2>5 DEF Filed
<1>4. CASE above # {}
  <2>1. above \in SUBSET Nat
    BY <1>2
  <2>2. Min(above) \in above
    BY <1>4, <2>1, LeastOf
  <2>3. r = FirstFit(Min(above), n)
    BY <1>4 DEF Candidates
  <2>4. Min(above) \in Order /\ kmap_find_free(Min(above), n) # 0
    BY <1>2, <2>2 DEF Order
  <2> QED BY <1>3, <2>3, <2>4
<1>5. CASE above = {}
  <2>1. 2^start > n /\ kmap_find_free(start - 1, n) # 0 /\ r = FirstFit(start - 1, n)
    BY <1>5 DEF Candidates
  <2>2. start # 0
    <3>1. 2^0 = 1
      OBVIOUS
    <3>2. ASSUME start = 0 PROVE FALSE
      <4>1. 2^start = 1
        BY <3>1, <3>2
      <4> QED BY <2>1, <4>1
    <3> QED BY <3>2
  <2>3. start - 1 \in Order
    BY <1>2, <2>2 DEF Order
  <2> QED BY <1>3, <2>1, <2>3
<1> QED BY <1>4, <1>5

\* The ranges U have in t the sizes they have now.
SamePages(U, t) == \A q \in U : t.pages[q] = pages[q]

\* A free range is cut for a caller and the rest goes back.
LEMMA TakeSound ==
    ASSUME NEW F, NEW U, Sound(State, F, U, {}), NEW r \in F, NEW n \in 1 .. KMAP_PAGES,
           pages[r] >= n
    PROVE  /\ \E G : Sound(Take(r, n), G, U \cup {r}, {})
           /\ Take(r, n).pages[r] = n
           /\ SamePages(U, Take(r, n))
<1> USE KmapAssumption
<1> DEFINE m == pages[r]
           s1 == list_del(State, r)
           s2 == Cut(s1, r, n)
<1>1. State.pages = pages
  BY DEF State
<1>2. r \in Slot /\ m \in 1 .. KMAP_PAGES /\ r + m <= KMAP_PAGES
  <2>1. Bounded(State, F \cup U)
    BY TaggedBounded DEF Sound
  <2> QED BY <1>1, <2>1 DEF Bounded
<1>3. Sound(s1, F \ {r}, U, r .. r + m - 1) /\ s1.pages = pages
  <2>1. /\ Sound(list_del(State, r), F \ {r}, U, {} \cup (r .. r + State.pages[r] - 1))
        /\ list_del(State, r).pages = State.pages
    BY UnlinkSound
  <2>2. {} \cup (r .. r + State.pages[r] - 1) = r .. r + m - 1
    BY <1>1
  <2> HIDE DEF m
  <2> QED BY <1>1, <2>1, <2>2
<1>4. Take(r, n) = IF m > n THEN kmap_free_range(s2, r + n, m - n) ELSE s2
  BY DEF Take, Cut
<1>5. pages[r] = m /\ m >= n
  OBVIOUS
<1> HIDE DEF m, s1
<1>6. n \in 1 .. m /\ n \in Int /\ m \in Int /\ r \in Int
  BY <1>2, <1>5 DEF Slot
<1>7. /\ Sound(s2, F \ {r}, U \cup {r}, (r + n) .. (r + m - 1))
      /\ s2.pages[r] = n
      /\ \A q \in U : s2.pages[q] = s1.pages[q]
  <2>1. Sound(s1, F \ {r}, U, r .. r + m - 1)
    BY <1>3
  <2>2. n \in 1 .. m
    BY <1>6
  <2> DEFINE F1 == F \ {r}
  <2>3. Sound(s1, F1, U, Hole(r, m))
    BY <2>1 DEF Hole
  <2> HIDE DEF F1
  <2>4. /\ Sound(Cut(s1, r, n), F1, U \cup {r}, Rest(r, n, m))
        /\ Cut(s1, r, n).pages[r] = n
        /\ \A q \in U : Cut(s1, r, n).pages[q] = s1.pages[q]
    <3>1. r \in Slot /\ Room(r, m, n)
      BY <1>2, <2>2 DEF Room
    <3> QED BY <2>3, <3>1, ClaimSound
  <2> QED BY <2>4 DEF F1, Rest
<1> HIDE DEF s2
<1>8. CASE m > n
  <2> DEFINE a == r + n
             b == m - n
  <2>1. a \in Slot /\ b \in 1 .. KMAP_PAGES /\ a + b <= KMAP_PAGES /\ a + b - 1 = r + m - 1
    BY <1>2, <1>6, <1>8 DEF Slot
  <2>2. (r + n) .. (r + m - 1) = a .. a + b - 1
    BY <2>1
  <2>3. Take(r, n) = kmap_free_range(s2, a, b)
    BY <1>4, <1>8
  <2> HIDE DEF a, b
  <2>4. Sound(s2, F \ {r}, U \cup {r}, a .. a + b - 1)
    BY <1>7, <2>2
  <2>5. /\ \E G : Sound(kmap_free_range(s2, a, b), G, U \cup {r}, {})
        /\ \A q \in U \cup {r} : kmap_free_range(s2, a, b).pages[q] = s2.pages[q]
    <3>1. a \in Slot /\ b \in 1 .. KMAP_PAGES /\ a + b <= KMAP_PAGES
      BY <2>1
    <3> DEFINE F1 == F \ {r}
               U1 == U \cup {r}
    <3>2. Sound(s2, F1, U1, a .. a + b - 1)
      BY <2>4
    <3> HIDE DEF F1, U1
    <3>3. Freed(s2, U1, kmap_free_range(s2, a, b))
      BY <3>1, <3>2, FreeRangeSound
    <3> QED BY <3>3 DEF U1, Freed
  <2> QED BY <1>3, <1>7, <2>3, <2>5 DEF SamePages
<1>9. CASE ~ (m > n)
  <2>1. Take(r, n) = s2
    BY <1>4, <1>9
  <2>2. (r + n) .. (r + m - 1) = {}
    BY <1>6, <1>9
  <2>3. Sound(s2, F \ {r}, U \cup {r}, {})
    BY <1>7, <2>2
  <2> QED BY <1>3, <1>7, <2>1, <2>3 DEF SamePages
<1> QED BY <1>8, <1>9

-----------------------------------------------------------------------------
(* The invariant *)

\* The slots of the ranges in R, as kmap() and kunmap() map and unmap them.
Covered(f, R) == {x \in Slot : \E q \in R : q <= x /\ x < q + f[q]}

LEMMA MappedMore ==
    ASSUME NEW f, NEW g, NEW R, NEW r \in Slot, NEW n \in Int, r + n <= KMAP_PAGES,
           \A q \in R : g[q] = f[q], g[r] = n
    PROVE  Covered(f, R) \cup (r .. r + n - 1) = Covered(g, R \cup {r})
<1> USE KmapAssumption
<1>1. r \in Int /\ r >= 0
  BY DEF Slot
<1>2. ASSUME NEW x
      PROVE  x \in r .. r + n - 1 <=> x \in Slot /\ r <= x /\ x < r + n
  BY <1>1 DEF Slot
<1> QED BY <1>2 DEF Covered

SameOn(f, g, R) == \A q \in R : g[q] = f[q]

LEMMA MappedLess ==
    ASSUME NEW s, NEW F, NEW R, Sound(s, F, R, {}), NEW r \in R,
           NEW g, NEW V, SameOn(s.pages, g, V), \A q : q \in V <=> q \in R /\ q # r
    PROVE  Covered(s.pages, R) \ Hole(r, s.pages[r]) = Covered(g, V)
<1> USE KmapAssumption
<1>7. V = R \ {r}
  OBVIOUS
<1> DEFINE M == Covered(s.pages, R)
<1>0. Bounded(s, F \cup R) /\ Tiled(s, F \cup R, {})
  BY TaggedBounded DEF Sound
<1>1. \A q \in R : q \in Int /\ s.pages[q] \in Int /\ q \in F \cup R
  BY <1>0 DEF Bounded, Slot
<1>2. ASSUME NEW x \in Slot, NEW q \in R \ {r}, q <= x, x < q + s.pages[q]
      PROVE  x \notin r .. r + s.pages[r] - 1
  <2>1. x \in Int /\ (q < r \/ r < q)
    BY <1>1 DEF Slot
  <2>2. q < r => q + s.pages[q] <= r
    BY <1>0, <1>1 DEF Tiled
  <2>3. r < q => r + s.pages[r] <= q
    BY <1>0, <1>1 DEF Tiled
  <2> QED BY <1>1, <1>2, <2>1, <2>2, <2>3
<1>3. ASSUME NEW x \in Slot
      PROVE  x \in r .. r + s.pages[r] - 1 <=> r <= x /\ x < r + s.pages[r]
  BY <1>1 DEF Slot
<1>4. ASSUME NEW x \in Slot
      PROVE  /\ x \in M <=> \E q \in R : q <= x /\ x < q + s.pages[q]
             /\ (\E q \in R \ {r} : q <= x /\ x < q + s.pages[q])
                  <=> (\E q \in R \ {r} : q <= x /\ x < q + g[q])
  BY <1>7 DEF Covered, SameOn
<1>5. M \subseteq Slot
  BY DEF Covered
<1> HIDE DEF M
<1>6. ASSUME NEW x \in Slot
      PROVE  x \in M \ (r .. r + s.pages[r] - 1)
               <=> \E q \in R \ {r} : q <= x /\ x < q + g[q]
  BY <1>2, <1>3, <1>4
<1> QED BY <1>5, <1>6, <1>7 DEF M, Covered, Hole

LEMMA InitKept == KmapInit => KmapInv
<1> USE KmapAssumption
<1> SUFFICES ASSUME KmapInit PROVE KmapInv
  OBVIOUS
<1>1. PICK junk \in [Slot -> Junk], e \in BOOLEAN :
        LET s == kmap_free_range([pages |-> junk, empty |-> [p \in Slot |-> e],
                                  lists |-> [o \in Order |-> <<>>]], 0, KMAP_PAGES)
        IN  pages = s.pages /\ empty = s.empty /\ kmap_free_ranges = s.lists
  BY DEF KmapInit
<1> DEFINE s == [pages |-> junk, empty |-> [p \in Slot |-> e], lists |-> [o \in Order |-> <<>>]]
           t == kmap_free_range(s, 0, KMAP_PAGES)
<1>2. pages = t.pages /\ empty = t.empty /\ kmap_free_ranges = t.lists
  BY <1>1
<1>3. Sound(s, {}, {}, 0 .. 0 + KMAP_PAGES - 1)
  <2>1. /\ s.pages \in [Slot -> Junk \cup 1 .. KMAP_PAGES]
        /\ s.empty \in [Slot -> BOOLEAN]
        /\ s = [pages |-> s.pages, empty |-> s.empty, lists |-> s.lists]
    OBVIOUS
  <2>2. \A o \in Order : s.lists[o] = <<>>
    OBVIOUS
  <2>3. /\ <<>> \in Seq(Slot) /\ IsInjective(<<>>) /\ \A x : ~ Contains(<<>>, x)
    BY EmptyMembers
  <2>4. s.lists \in [Order -> Seq(Slot)]
    BY <2>3
  <2> HIDE DEF s
  <2>5. s \in StateSet
    BY <2>1, <2>4 DEF StateSet
  <2>6. Filed(s, {})
    BY <2>2, <2>3 DEF Filed
  <2>7. Tagged(s, {}, {}) /\ Joined(s, {})
    BY DEF Tagged, Joined
  <2>8. Tiled(s, {} \cup {}, 0 .. 0 + KMAP_PAGES - 1)
    BY DEF Tiled, Slot
  <2> QED BY <2>5, <2>6, <2>7, <2>8 DEF Sound
<1> HIDE DEF s
<1>4. \E G : Sound(t, G, {}, {})
  <2>1. 0 \in Slot /\ KMAP_PAGES \in 1 .. KMAP_PAGES /\ 0 + KMAP_PAGES <= KMAP_PAGES
    BY DEF Slot
  <2>2. Freed(s, {}, t)
    BY <1>3, <2>1, FreeRangeSound
  <2> QED BY <2>2 DEF Freed
<1> HIDE DEF t
<1>5. PICK G : Sound(t, G, {}, {})
  BY <1>4
<1>6. State = t
  BY <1>2, <1>5 DEF State, Sound, StateSet
<1>7. FreeRange = G
  BY <1>2, <1>5, LinkedIsFree DEF FreeRange
<1>8. held = {} /\ mapped = {} /\ Used = {}
  BY DEF KmapInit, Used
<1> QED BY <1>5, <1>6, <1>7, <1>8 DEF KmapInv

\* kmap() of n pages.
LEMMA kmapKept ==
    ASSUME KmapInv, NEW n \in 2 .. KMAP_PAGES, kmap(n)
    PROVE  KmapInv'
<1> USE KmapAssumption
<1>1. PICK r \in Candidates(n) :
        /\ pages' = Take(r, n).pages /\ empty' = Take(r, n).empty
        /\ kmap_free_ranges' = Take(r, n).lists
        /\ mapped' = mapped \cup (r .. r + n - 1)
        /\ held' = held \cup {<<r, n>>}
  BY DEF kmap
<1>2. Sound(State, FreeRange, Used, {})
  BY DEF KmapInv
<1> DEFINE F == FreeRange
           U == Used
           t == Take(r, n)
<1>3. r \in F /\ pages[r] >= n
  BY <1>2, CandidateFits
<1>4. /\ \E G : Sound(Take(r, n), G, U \cup {r}, {})
      /\ Take(r, n).pages[r] = n
      /\ \A q \in U : Take(r, n).pages[q] = pages[q]
  <2>1. n \in 1 .. KMAP_PAGES
    OBVIOUS
  <2> HIDE DEF F, U
  <2>2. Sound(State, F, U, {})
    BY <1>2 DEF F, U
  <2>3. r \in F /\ pages[r] >= n
    BY <1>3
  <2>4. \E G : Sound(Take(r, n), G, U \cup {r}, {})
    BY <2>1, <2>2, <2>3, TakeSound
  <2>5. Take(r, n).pages[r] = n
    BY <2>1, <2>2, <2>3, TakeSound
  <2>6. SamePages(U, Take(r, n))
    BY <2>1, <2>2, <2>3, TakeSound
  <2> QED BY <2>4, <2>5, <2>6 DEF SamePages
<1>5. PICK G : Sound(t, G, U \cup {r}, {})
  BY <1>4
<1> HIDE DEF F, t
<1>6. /\ t.pages = pages' /\ t.empty = empty' /\ t.lists = kmap_free_ranges'
      /\ State' = t
  BY <1>1, <1>5 DEF State, Sound, StateSet, t
<1>7. FreeRange' = G
  BY <1>5, <1>6, LinkedIsFree DEF FreeRange
<1>8. Used' = U \cup {r}
  <2>1. <<r, n>>[1] = r /\ held' = held \cup {<<r, n>>}
    BY <1>1
  <2>2. \A x : x \in Used' <=> \E h \in held' : x = h[1]
    BY DEF Used
  <2>3. \A x : x \in U <=> \E h \in held : x = h[1]
    BY DEF Used
  <2> HIDE DEF U
  <2>4. ASSUME NEW x PROVE x \in Used' <=> x \in U \/ x = r
    BY <2>1, <2>2, <2>3
  <2> QED BY <2>4
<1>9. pages'[r] = n /\ \A q \in U : pages'[q] = pages[q]
  BY <1>4, <1>6 DEF t
<1>10. held' = {<<q, pages'[q]>> : q \in U \cup {r}}
  <2>1. held = {<<q, pages[q]>> : q \in U}
    BY DEF KmapInv
  <2> HIDE DEF U
  <2> QED BY <1>1, <1>9, <2>1
<1>11. mapped' = {x \in Slot : \E q \in U \cup {r} : q <= x /\ x < q + pages'[q]}
  <2>1. mapped = Covered(pages, U)
    BY DEF KmapInv, Covered
  <2>2. r \in Slot /\ r + n <= KMAP_PAGES
    <3>1. Bounded(t, G \cup (U \cup {r}))
      BY <1>5, TaggedBounded DEF Sound
    <3> QED BY <1>6, <1>9, <3>1 DEF Bounded
  <2> HIDE DEF U
  <2> DEFINE g == pages'
  <2>3. g[r] = n /\ \A q \in U : g[q] = pages[q]
    BY <1>9
  <2> HIDE DEF g
  <2>4. Covered(pages, U) \cup (r .. r + n - 1) = Covered(g, U \cup {r})
    BY <2>2, <2>3, MappedMore
  <2> QED BY <1>1, <2>1, <2>4 DEF g, Covered
<1>12. Sound(State', FreeRange', Used', {})
  BY <1>5, <1>6, <1>7, <1>8
<1> QED BY <1>8, <1>10, <1>11, <1>12 DEF KmapInv

\* kunmap() of a range a caller has.
LEMMA kunmapKept ==
    ASSUME KmapInv, NEW h \in held, kunmap(h[1])
    PROVE  KmapInv'
<1> USE KmapAssumption
<1> DEFINE r == h[1]
           n == pages[r]
           U == Used
           t == kmap_free_range(State, r, n)
<1>1. Sound(State, FreeRange, U, {}) /\ r \in U /\ State.pages = pages
  BY DEF KmapInv, Used, State
<1>2. Bounded(State, FreeRange \cup U) /\ Tiled(State, FreeRange \cup U, {})
  BY <1>1, TaggedBounded DEF Sound
<1>3. /\ mapped' = mapped \ (r .. r + n - 1)
      /\ pages' = t.pages /\ empty' = t.empty /\ kmap_free_ranges' = t.lists
      /\ held' = {x \in held : x[1] # r}
  BY DEF kunmap
<1>4. \A x : x \in Used' <=> \E y \in held' : x = y[1]
  BY DEF Used
<1>5. \A x : x \in U <=> \E y \in held : x = y[1]
  BY DEF Used
<1>6. held = {<<q, pages[q]>> : q \in U} /\ mapped = Covered(pages, U)
  BY DEF KmapInv, Covered
<1> HIDE DEF r, U
<1>7. r \in Slot /\ n \in 1 .. KMAP_PAGES /\ r + n <= KMAP_PAGES
  BY <1>1, <1>2 DEF Bounded
<1>8. Sound(State, FreeRange, U \ {r}, r .. r + n - 1)
  <2>1. Sound(State, FreeRange, U \ {r}, {} \cup (r .. r + State.pages[r] - 1))
    BY <1>1, DropSound
  <2>2. {} \cup (r .. r + State.pages[r] - 1) = r .. r + n - 1
    BY <1>1
  <2> HIDE DEF n
  <2> QED BY <2>1, <2>2
<1>9. /\ \E G : Sound(t, G, U \ {r}, {})
      /\ \A q \in U \ {r} : t.pages[q] = pages[q]
  <2> DEFINE V == U \ {r}
  <2>1. pages = State.pages
    BY <1>1
  <2> HIDE DEF n, V
  <2>2. Sound(State, FreeRange, V, r .. r + n - 1)
    BY <1>8 DEF V
  <2>3. Freed(State, V, kmap_free_range(State, r, n))
    BY <1>7, <2>2, FreeRangeSound
  <2> QED BY <2>1, <2>3 DEF V, Freed
<1> HIDE DEF t
<1>10. PICK G : Sound(t, G, U \ {r}, {})
  BY <1>9
<1>11. State' = t
  BY <1>3, <1>10 DEF State, Sound, StateSet
<1>12. FreeRange' = G
  BY <1>3, <1>10, LinkedIsFree DEF FreeRange
<1>13. Used' = U \ {r}
  <2>1. ASSUME NEW x PROVE x \in Used' <=> x \in U /\ x # r
    BY <1>3, <1>4, <1>5
  <2> QED BY <2>1
<1>14. \A q \in U \ {r} : pages'[q] = pages[q]
  BY <1>3, <1>9
<1>15. held' = {<<q, pages'[q]>> : q \in U \ {r}}
  <2>1. ASSUME NEW x PROVE x \in held' <=> \E q \in U \ {r} : x = <<q, pages[q]>>
    <3>1. x \in held <=> \E q \in U : x = <<q, pages[q]>>
      BY <1>6
    <3>2. x \in held' <=> x \in held /\ x[1] # r
      BY <1>3
    <3>3. \A q : <<q, pages[q]>>[1] = q
      OBVIOUS
    <3> QED BY <3>1, <3>2, <3>3
  <2>2. ASSUME NEW x
        PROVE  (\E q \in U \ {r} : x = <<q, pages[q]>>) <=> (\E q \in U \ {r} : x = <<q, pages'[q]>>)
    BY <1>14
  <2> QED BY <2>1, <2>2
<1>16. mapped' = {x \in Slot : \E q \in U \ {r} : q <= x /\ x < q + pages'[q]}
  <2> DEFINE g == pages'
             V == U \ {r}
  <2>1. Sound(State, FreeRange, U, {}) /\ \A q : q \in V <=> q \in U /\ q # r
    BY <1>1
  <2>2. SameOn(State.pages, g, V) /\ r \in U
    BY <1>1, <1>14 DEF SameOn
  <2> HIDE DEF g, V
  <2>3. Covered(State.pages, U) \ Hole(r, State.pages[r]) = Covered(g, V)
    BY <2>1, <2>2, MappedLess
  <2> QED BY <1>1, <1>3, <1>6, <2>3 DEF g, V, Covered, Hole
<1>17. Sound(State', FreeRange', Used', {})
  BY <1>10, <1>11, <1>12, <1>13
<1> QED BY <1>13, <1>15, <1>16, <1>17 DEF KmapInv

-----------------------------------------------------------------------------
(* Theorems *)

(***************************************************************************)
(* Whatever kmap_setup() found in the array, and after any sequence of     *)
(* kmap() and kunmap(), the free ranges and those of callers tile the      *)
(* area, are tagged at both ends and filed by their length.                *)
(***************************************************************************)
THEOREM KmapInvariant == KmapSpec => []KmapInv
<1>1. KmapInv /\ [KmapNext]_kmapVars => KmapInv'
  <2> SUFFICES ASSUME KmapInv, [KmapNext]_kmapVars PROVE KmapInv'
    OBVIOUS
  <2>1. CASE \E n \in 2 .. KMAP_PAGES : kmap(n)
    BY <2>1, kmapKept
  <2>2. CASE \E h \in held : kunmap(h[1])
    BY <2>2, kunmapKept
  <2>3. CASE UNCHANGED kmapVars
    BY <2>3 DEF KmapInv, State, FreeRange, Used, kmapVars
  <2> QED BY <2>1, <2>2, <2>3 DEF KmapNext
<1> QED BY InitKept, <1>1, PTL DEF KmapSpec

\* Every range, free or not, by its first slot.
LEMMA RangesAre ==
    ASSUME KmapInv
    PROVE  /\ Ranges = {<<r, pages[r]>> : r \in FreeRange \cup Used}
           /\ Bounded(State, FreeRange \cup Used) /\ State.pages = pages
           /\ \A x \in Ranges : /\ x = <<x[1], pages[x[1]]>> /\ x[1] \in FreeRange \cup Used
                                /\ x[1] \in Slot /\ x[2] = pages[x[1]]
                                /\ x[2] \in 1 .. KMAP_PAGES /\ x[1] + x[2] <= KMAP_PAGES
<1>1. Bounded(State, FreeRange \cup Used)
  BY TaggedBounded DEF KmapInv, Sound
<1>2. State.pages = pages
  BY DEF State
<1>3. Ranges = {<<r, pages[r]>> : r \in FreeRange \cup Used}
  <2>1. ASSUME NEW x
        PROVE  x \in Ranges <=> \E r \in FreeRange \cup Used : x = <<r, pages[r]>>
    BY DEF Ranges, KmapInv
  <2> QED BY <2>1
<1>4. ASSUME NEW x \in Ranges
      PROVE  /\ x = <<x[1], pages[x[1]]>> /\ x[1] \in FreeRange \cup Used
             /\ x[1] \in Slot /\ x[2] = pages[x[1]]
             /\ x[2] \in 1 .. KMAP_PAGES /\ x[1] + x[2] <= KMAP_PAGES
  <2>1. PICK r \in FreeRange \cup Used : x = <<r, pages[r]>>
    BY <1>3
  <2>2. x[1] = r /\ x[2] = pages[r]
    BY <2>1
  <2>3. r \in Slot /\ pages[r] \in 1 .. KMAP_PAGES /\ r + pages[r] <= KMAP_PAGES
    BY <1>1, <1>2 DEF Bounded
  <2> QED BY <2>1, <2>2, <2>3
<1> QED BY <1>1, <1>2, <1>3, <1>4

(***************************************************************************)
(* The lengths kmap_free_range() reads from the array to find neighbours   *)
(* never make it join what it should not or lose a slot: every slot of the *)
(* area is in exactly one range, and free neighbours have been joined.     *)
(***************************************************************************)
THEOREM AreaStaysPartitioned == KmapSpec => []AreaPartitioned
<1>1. KmapInv => AreaPartitioned
  <2> SUFFICES ASSUME KmapInv PROVE AreaPartitioned
    OBVIOUS
  <2> USE KmapAssumption
  <2> DEFINE R == FreeRange \cup Used
  <2>1. /\ Sound(State, FreeRange, Used, {})
        /\ pages \in [Slot -> Junk \cup 1 .. KMAP_PAGES]
        /\ empty \in [Slot -> BOOLEAN]
        /\ kmap_free_ranges \in [Order -> Seq(Slot)]
        /\ Filed(State, FreeRange) /\ Tiled(State, R, {}) /\ Joined(State, FreeRange)
        /\ State.lists = kmap_free_ranges
    BY DEF KmapInv, Sound, StateSet, State
  <2>2. /\ Ranges = {<<r, pages[r]>> : r \in R}
        /\ Bounded(State, R) /\ State.pages = pages
        /\ \A x \in Ranges : /\ x = <<x[1], pages[x[1]]>> /\ x[1] \in R
                             /\ x[1] \in Slot /\ x[2] = pages[x[1]]
                             /\ x[2] \in 1 .. KMAP_PAGES /\ x[1] + x[2] <= KMAP_PAGES
    BY RangesAre
  <2>3. KmapTypeOK
    <3>1. mapped \subseteq Slot
      BY DEF KmapInv
    <3>2. \A h \in held : h \in Ranges
      BY DEF Ranges
    <3>3. \A h \in held : h[1] \in Slot /\ h[1] + h[2] <= KMAP_PAGES
      BY <2>2, <3>2
    <3>4. \A o \in Order : kmap_free_ranges[o] \in Seq(Slot)
      BY <2>1
    <3> QED BY <2>1, <3>1, <3>3, <3>4 DEF KmapTypeOK
  <2> HIDE DEF R
  <2>4. UNION {SlotsOf(x) : x \in Ranges} = Slot
    <3>1. ASSUME NEW x \in Ranges, NEW y \in SlotsOf(x) PROVE y \in Slot
      <4>1. x[1] \in Slot /\ x[2] \in 1 .. KMAP_PAGES /\ x[1] + x[2] <= KMAP_PAGES
        BY <2>2
      <4> QED BY <3>1, <4>1 DEF SlotsOf, Slot
    <3>2. ASSUME NEW y \in Slot PROVE \E x \in Ranges : y \in SlotsOf(x)
      <4>1. PICK r \in R : ~ (y < r \/ r + pages[r] <= y)
        BY <2>1, <2>2 DEF Tiled
      <4>2. r \in Int /\ pages[r] \in Int /\ y \in Int
        BY <2>2 DEF Bounded, Slot
      <4>3. <<r, pages[r]>> \in Ranges
        BY <2>2
      <4>4. <<r, pages[r]>>[1] = r /\ <<r, pages[r]>>[2] = pages[r]
        OBVIOUS
      <4>5. y \in SlotsOf(<<r, pages[r]>>)
        BY <4>1, <4>2, <4>4 DEF SlotsOf
      <4> QED BY <4>3, <4>5
    <3> QED BY <3>1, <3>2
  <2>5. ASSUME NEW x \in Ranges, NEW y \in Ranges, x # y
        PROVE  SlotsOf(x) \cap SlotsOf(y) = {}
    <3> DEFINE a == x[1]
               b == y[1]
    <3>1. /\ a \in R /\ b \in R /\ a \in Slot /\ b \in Slot
          /\ x[2] = pages[a] /\ y[2] = pages[b]
          /\ x = <<a, pages[a]>> /\ y = <<b, pages[b]>>
          /\ pages[a] \in 1 .. KMAP_PAGES /\ pages[b] \in 1 .. KMAP_PAGES
      BY <2>2
    <3>2. /\ SlotsOf(x) = a .. a + pages[a] - 1
          /\ SlotsOf(y) = b .. b + pages[b] - 1
      BY <3>1 DEF SlotsOf
    <3> HIDE DEF a, b
    <3>3. a # b
      BY <2>5, <3>1
    <3>4. /\ a \in Int /\ b \in Int /\ pages[a] \in Int /\ pages[b] \in Int
      BY <3>1 DEF Slot
    <3>5. (a < b => a + pages[a] <= b) /\ (b < a => b + pages[b] <= a)
      BY <2>1, <2>2, <3>1 DEF Tiled
    <3>6. (a .. a + pages[a] - 1) \cap (b .. b + pages[b] - 1) = {}
      BY <3>3, <3>4, <3>5
    <3> QED BY <3>2, <3>6
  <2>6. ASSUME NEW o \in Order, NEW q \in Order, o # q
        PROVE  ToSet(kmap_free_ranges[o]) \cap ToSet(kmap_free_ranges[q]) = {}
    <3>1. kmap_free_ranges[o] \in Seq(Slot) /\ kmap_free_ranges[q] \in Seq(Slot)
      BY <2>1
    <3>2. ASSUME NEW x \in ToSet(kmap_free_ranges[o]), x \in ToSet(kmap_free_ranges[q]) PROVE FALSE
      <4>1. x \in Slot /\ Contains(kmap_free_ranges[o], x) /\ Contains(kmap_free_ranges[q], x)
        BY <3>1, <3>2, MembersAsSet
      <4>2. o = kmap_order(pages[x] + 1) - 1 /\ q = kmap_order(pages[x] + 1) - 1
        BY <2>1, <2>2, <4>1 DEF Filed
      <4> QED BY <2>6, <4>2
    <3> QED BY <3>2
  <2>7. \A o \in Order : IsInjective(kmap_free_ranges[o])
    BY <2>1 DEF Filed
  <2>8. \A r, q \in FreeRange : r + pages[r] # q
    BY <2>1, <2>2 DEF Joined
  <2> QED BY <2>3, <2>4, <2>5, <2>6, <2>7, <2>8 DEF AreaPartitioned
<1> QED BY KmapInvariant, <1>1, PTL

(***************************************************************************)
(* Old contents of the array are never taken for tags, and what is mapped  *)
(* is what callers have: kunmap() may trust the length it reads.           *)
(***************************************************************************)
THEOREM TagsStayTruthful == KmapSpec => []TagsTruthful
<1>1. KmapInv => TagsTruthful
  <2> SUFFICES ASSUME KmapInv PROVE TagsTruthful
    OBVIOUS
  <2> USE KmapAssumption
  <2> DEFINE R == FreeRange \cup Used
  <2>1. Tagged(State, FreeRange, Used) /\ State.pages = pages /\ State.empty = empty
    BY DEF KmapInv, Sound, State
  <2>2. /\ Bounded(State, R)
        /\ \A x \in Ranges : /\ x = <<x[1], pages[x[1]]>> /\ x[1] \in R
                             /\ x[1] \in Slot /\ x[2] = pages[x[1]]
                             /\ x[2] \in 1 .. KMAP_PAGES /\ x[1] + x[2] <= KMAP_PAGES
    BY RangesAre
  <2>3. ASSUME NEW x \in Ranges
        PROVE  /\ pages[x[1]] = x[2]
               /\ pages[x[1] + x[2] - 1] = x[2]
               /\ empty[x[1]] = (x \in held)
    <3>1. x[1] \in R /\ x[2] = pages[x[1]] /\ x = <<x[1], pages[x[1]]>>
      BY <2>2
    <3>2. pages[x[1] + pages[x[1]] - 1] = pages[x[1]]
      BY <2>1, <3>1 DEF Tagged
    <3>3. empty[x[1]] = (x[1] \in Used)
      BY <2>1, <3>1 DEF Tagged
    <3>4. x[1] \in Used <=> x \in held
      BY <3>1 DEF KmapInv, Used
    <3>5. (x[1] \in Used) = (x \in held)
      BY <3>4
    <3> QED BY <3>1, <3>2, <3>3, <3>5
  <2>4. mapped = UNION {SlotsOf(h) : h \in held}
    <3>1. \A h \in held : h \in Ranges
      BY DEF Ranges
    <3>2. ASSUME NEW y, NEW h \in held
          PROVE  y \in SlotsOf(h) <=> y \in Slot /\ h[1] <= y /\ y < h[1] + pages[h[1]]
      <4>1. h[1] \in Slot /\ h[2] = pages[h[1]] /\ h[2] \in 1 .. KMAP_PAGES /\ h[1] + h[2] <= KMAP_PAGES
        BY <2>2, <3>1
      <4> QED BY <4>1 DEF SlotsOf, Slot
    <3>3. mapped = {x \in Slot : \E r \in Used : r <= x /\ x < r + pages[r]}
      BY DEF KmapInv
    <3>4. \A r : r \in Used <=> \E h \in held : r = h[1]
      BY DEF Used
    <3>5. ASSUME NEW y PROVE y \in mapped <=> \E h \in held : y \in SlotsOf(h)
      BY <3>2, <3>3, <3>4
    <3> QED BY <3>5
  <2> QED BY <2>3, <2>4 DEF TagsTruthful
<1> QED BY KmapInvariant, <1>1, PTL

(***************************************************************************)
(* kmap() returns 0 only when no free range is long enough: the list a     *)
(* range is filed on is searched for every request it could serve.         *)
(***************************************************************************)
THEOREM SearchIsComplete == KmapSpec => []SearchComplete
<1>1. KmapInv => SearchComplete
  <2> SUFFICES ASSUME KmapInv, NEW n \in 2 .. KMAP_PAGES, n < 2^KMAP_ORDERS,
                      NEW r \in FreeRange, pages[r] >= n
               PROVE  Candidates(n) # {}
    BY DEF SearchComplete
  <2> USE KmapAssumption
  <2> DEFINE start == kmap_order(n)
             k == kmap_order(pages[r] + 1)
             above == {o \in start .. KMAP_ORDERS - 1 : kmap_find_free(o, n) # 0}
  <2>1. /\ Filed(State, FreeRange) /\ State.pages = pages /\ State.lists = kmap_free_ranges
        /\ kmap_free_ranges \in [Order -> Seq(Slot)]
    BY DEF KmapInv, Sound, StateSet, State
  <2>2. r \in Slot /\ pages[r] \in 1 .. KMAP_PAGES /\ pages[r] \in Nat \ {0}
    <3>1. Bounded(State, FreeRange \cup Used)
      BY RangesAre
    <3> QED BY <2>1, <3>1 DEF Bounded
  <2>3. /\ start \in 0 .. KMAP_ORDERS
        /\ \A q \in 0 .. start - 1 : 2^q < n
    BY OrderExists
  <2>4. /\ k \in 0 .. KMAP_ORDERS
        /\ 2^k >= pages[r] + 1 \/ k = KMAP_ORDERS
    <3>1. pages[r] + 1 \in Nat
      BY <2>2
    <3> QED BY <3>1, OrderExists
  <2>5. k - 1 \in Order
    BY <2>2, FiledOrder
  <2>6. kmap_find_free(k - 1, n) # 0
    <3>1. Contains(kmap_free_ranges[k - 1], r)
      BY <2>1, <2>2, <2>5 DEF Filed
    <3> HIDE DEF k
    <3>2. kmap_free_ranges[k - 1] \in Seq(Slot) /\ n \in Nat
      BY <2>1, <2>5
    <3> QED BY <2>5, <3>1, <3>2, FindFree
  <2> HIDE DEF k
  <2>7. CASE k - 1 >= start
    <3>1. k - 1 \in above
      BY <2>3, <2>4, <2>5, <2>6, <2>7 DEF Order
    <3> QED BY <3>1 DEF Candidates
  <2>8. CASE k - 1 < start
    <3>1. 2^k \in Int /\ 2^KMAP_ORDERS \in Int
      BY <2>4
    <3>2. ASSUME k < start PROVE FALSE
      <4>1. 2^k < n
        BY <2>3, <2>4, <3>2
      <4>2. k # KMAP_ORDERS
        BY <2>3, <2>4, <3>2
      <4>3. 2^k >= pages[r] + 1
        BY <2>4, <4>2
      <4> QED BY <2>2, <3>1, <4>1, <4>3
    <3>3. k = start
      BY <2>3, <2>4, <2>8, <3>2
    <3>4. 2^k > n
      <4>1. CASE k = KMAP_ORDERS
        BY <4>1
      <4>2. CASE 2^k >= pages[r] + 1
        BY <2>2, <3>1, <4>2
      <4> QED BY <2>4, <4>1, <4>2
    <3>5. 2^start > n /\ kmap_find_free(start - 1, n) # 0
      BY <2>6, <3>3, <3>4
    <3> QED BY <3>5 DEF Candidates
  <2>9. k - 1 >= start \/ k - 1 < start
    BY <2>3, <2>4
  <2> QED BY <2>7, <2>8, <2>9
<1> QED BY KmapInvariant, <1>1, PTL

-----------------------------------------------------------------------------
(* Interrupts *)

USE IntsAssumption

USE DEF PIT_IRQ, PIC_IRQS, PIC_SLAVE_IRQ, IRQS, ERRORS, PIC_OFFSET, IRQ

-----------------------------------------------------------------------------
(* The controllers *)

\* Once the controllers are set up, line l arrives as the vector of line l.
LEMMA VectorOfLine ==
    ASSUME NEW l \in IRQ, offset = [master |-> PIC_OFFSET, slave |-> PIC_OFFSET + PIC_IRQS]
    PROVE  Vector(l) - ERRORS = l
BY DEF Vector, IsMaster

\* A mask written for one line is sound if it and the old one are.
LEMMA WriteMaskSound ==
    ASSUME NEW l \in IRQ, NEW mask \in SUBSET IRQ, WriteMask(l, mask),
           imr \subseteq IRQ, MaskSound(imr), MaskSound(mask),
           UNCHANGED <<irq_handler, stage>>
    PROVE  imr' \subseteq IRQ /\ MaskSound(imr)'
<1>1. ChipOf(l) \subseteq IRQ /\ imr' = (imr \ ChipOf(l)) \cup (mask \cap ChipOf(l))
  BY DEF ChipOf, WriteMask
<1> QED BY <1>1, IntsAssumption DEF MaskSound

-----------------------------------------------------------------------------
(* The invariant *)

\* The state the kernel is entered in satisfies the invariant.
LEMMA IntsInitInv == IntsInit => IntsInv
<1> SUFFICES ASSUME IntsInit PROVE IntsInv
  OBVIOUS
<1>1. Len(Calls) = 6
  BY DEF Calls
<1>2. where \in [CPUThread -> Wheres] /\ where[running] = "code"
  BY DEF IntsInit, Wheres
<1>3. /\ update \in [CPUThread -> Update]
      /\ \A t \in CPUThread : ~ Updating(t)
  BY DEF IntsInit, Update, NoUpdate, Updating
<1>4. IntsTypeOK /\ NoUnexpectedInterrupt
  <2>1. /\ irq_handler \subseteq IRQ /\ pic_irq_mask \subseteq IRQ /\ stale \subseteq IRQ
        /\ imr \subseteq IRQ /\ irr \subseteq IRQ /\ isr \subseteq IRQ
    BY DEF IntsInit
  <2>2. /\ iflag \in BOOLEAN /\ ready \in BOOLEAN /\ hung \in BOOLEAN /\ ~ hung
        /\ overlap \in BOOLEAN /\ intno \in Nat
    BY DEF IntsInit
  <2>3. running \in CPUThread /\ stage \in 0 .. Len(Calls)
    BY <1>1 DEF IntsInit
  <2> QED BY <1>2, <1>3, <2>1, <2>2, <2>3 DEF IntsTypeOK, NoUnexpectedInterrupt
<1>5. BootOrder
  BY <1>1, <1>3 DEF IntsInit, BootOrder, Up
<1>6. FlagMatchesCode
  BY <1>1 DEF IntsInit, FlagMatchesCode, Up
<1>7. LinesHandled
  BY <1>2, <1>3 DEF IntsInit, LinesHandled, MaskSound
<1>8. MasksAgree
  BY <1>3 DEF IntsInit, MasksAgree
<1> QED BY <1>4, <1>5, <1>6, <1>7, <1>8 DEF IntsInv

\* Each call of main() does its part of the set-up.
LEMMA MainCallInv ==
    ASSUME IntsInv, MainCall
    PROVE  IntsInv'
<1>1. /\ Len(Calls) = 6
      /\ Calls[1] = "ints_setup" /\ Calls[2] = "time_setup"
      /\ Calls[3] = "paging_setup" /\ Calls[4] = "kmap_setup"
      /\ Calls[5] = "threads_setup" /\ Calls[6] = "enable_ints"
  BY DEF Calls
<1>2. /\ stage \in 0 .. 5 /\ stage' = stage + 1
      /\ running = BootThread /\ where[BootThread] = "code" /\ ~ iflag
      /\ isr = {}
      /\ \A t \in CPUThread : ~ Updating(t)
  BY <1>1 DEF MainCall, IntsInv, IntsTypeOK, Up, BootOrder, LinesHandled
<1> USE DEF IntsInv, IntsTypeOK, NoUnexpectedInterrupt, BootOrder,
            FlagMatchesCode, LinesHandled, MasksAgree, MaskSound, Updating, Settled, Up
<1>3. CASE stage = 0
  <2>1. ints_setup
    BY <1>1, <1>2, <1>3 DEF MainCall
  <2> QED BY <1>1, <1>2, <1>3, <2>1 DEF ints_setup, pic_setup
<1>4. CASE stage = 1
  <2>1. time_setup
    BY <1>1, <1>2, <1>4 DEF MainCall
  <2>2. /\ pic_irq_mask' = pic_irq_mask \ {PIT_IRQ}
        /\ \A l \in IRQ : (l \in imr <=> l \in pic_irq_mask) => (l \in imr' <=> l \in pic_irq_mask')
        /\ imr' \subseteq IRQ /\ PIT_IRQ \notin imr' /\ imr' \subseteq imr \cup pic_irq_mask'
        /\ imr \cap pic_irq_mask' \subseteq imr'
    BY <2>1 DEF time_setup, pic_unmask, WriteMask, ChipOf, IsMaster
  <2>3. /\ stage' = 2 /\ irq_handler' = irq_handler \cup {PIT_IRQ}
        /\ UNCHANGED <<update, overlap, stale, irr, isr, offset, iflag, running, where,
                       intno, ready, hung>>
    BY <1>2, <1>4, <2>1 DEF time_setup
  <2>4. IntsTypeOK' /\ NoUnexpectedInterrupt' /\ BootOrder' /\ FlagMatchesCode'
    BY <1>1, <1>2, <1>4, <2>2, <2>3
  <2>5. MaskSound(pic_irq_mask)' /\ MaskSound(imr)'
    BY <1>4, <2>2, <2>3
  <2>6. LinesHandled'
    BY <1>2, <2>3, <2>5
  <2>7. MasksAgree'
    BY <1>2, <1>4, <2>2, <2>3
  <2> QED BY <2>4, <2>6, <2>7
<1>5. CASE stage \in {2, 3}
  <2>1. UNCHANGED <<irq_handler, maskVars, intno, irr, isr, offset, iflag,
                    running, where, ready, hung>>
    BY <1>1, <1>2, <1>5 DEF MainCall
  <2> QED BY <1>1, <1>2, <1>5, <2>1 DEF maskVars
<1>6. CASE stage = 4
  <2>1. threads_setup
    BY <1>1, <1>2, <1>6 DEF MainCall
  <2> QED BY <1>1, <1>2, <1>6, <2>1 DEF threads_setup, maskVars
<1>7. CASE stage = 5
  <2>1. Calls[stage + 1] = "enable_ints"
    BY <1>1, <1>7
  <2>2. enable_ints
    BY <2>1, Zenon DEF MainCall
  <2>3. /\ stage' = 6 /\ iflag' = TRUE
        /\ UNCHANGED <<irq_handler, pic_irq_mask, imr, update, overlap, stale, intno, irr,
                       isr, offset, running, where, ready, hung>>
    BY <1>2, <1>7, <2>2 DEF enable_ints, maskVars
  <2>4. IntsTypeOK' /\ NoUnexpectedInterrupt' /\ BootOrder' /\ FlagMatchesCode'
    BY <1>1, <1>2, <1>7, <2>3
  <2>5. MaskSound(pic_irq_mask)' /\ MaskSound(imr)'
    BY <1>7, <2>3
  <2>6. LinesHandled'
    BY <1>2, <2>3, <2>5
  <2>7. MasksAgree'
    BY <1>2, <1>7, <2>3
  <2> QED BY <2>4, <2>6, <2>7
<1> HIDE DEF IntsInv, IntsTypeOK, NoUnexpectedInterrupt, BootOrder, FlagMatchesCode,
             LinesHandled, MasksAgree, MaskSound, Updating, Settled, Up
<1> QED BY <1>2, <1>3, <1>4, <1>5, <1>6, <1>7

\* While masks are left alone they stay sound and in agreement.
LEMMA MasksKept ==
    ASSUME IntsInv, UNCHANGED <<maskVars, stage>>, irq_handler \subseteq irq_handler'
    PROVE  /\ MasksAgree'
           /\ MaskSound(pic_irq_mask)' /\ (stage >= 1 => MaskSound(imr))'
           /\ (\A t \in CPUThread : Updating(t) => MaskSound(update[t].mask))'
BY DEF IntsInv, MasksAgree, LinesHandled, MaskSound, Updating, Settled, maskVars

\* An interrupt that gets through has a handler, and it alone is in service.
LEMMA InterruptInv ==
    ASSUME IntsInv, NEW l \in Line, Interrupt(l), UNCHANGED stage
    PROVE  IntsInv'
<1>1. /\ iflag /\ l \in irr /\ Passes(l)
  BY DEF Interrupt, Delivered
<1>2. Up /\ stage = 6 /\ ready /\ where[running] = "code" /\ l \in IRQ
  BY <1>1 DEF IntsInv, BootOrder, FlagMatchesCode, Up, Calls
<1>3. Vector(l) = ERRORS + l
  BY <1>2, VectorOfLine DEF IntsInv, BootOrder, Vector, IsMaster
<1>4. l \in irq_handler
  BY <1>1, <1>2 DEF IntsInv, LinesHandled, MaskSound, Passes
<1>5. /\ isr' = {l, Input(l)} /\ intno' = ERRORS + l /\ iflag' = FALSE /\ irr' = irr \ {l}
      /\ where' = [where EXCEPT ![running] = "entry"]
      /\ UNCHANGED <<irq_handler, maskVars, offset, running, ready, hung, stage>>
  BY <1>2, <1>3 DEF Interrupt, At, IntsInv, LinesHandled
<1>6. running \in CPUThread /\ Input(l) \in IRQ
  BY <1>2 DEF IntsInv, IntsTypeOK, Input
<1>7. IntsTypeOK' /\ NoUnexpectedInterrupt'
  <2>1. where' \in [CPUThread -> Wheres]
    BY <1>5 DEF IntsInv, IntsTypeOK, Wheres
  <2>2. /\ irr' \subseteq IRQ
        /\ intno' \in Nat
        /\ iflag' \in BOOLEAN
    <3>1. irr \subseteq IRQ
      BY DEF IntsInv, IntsTypeOK
    <3>2. irr' \subseteq IRQ
      BY <1>5, <3>1
    <3>3. intno' \in Nat
      BY <1>2, <1>5
    <3> QED BY <1>5, <3>2, <3>3
  <2>3. isr' \subseteq IRQ
    BY <1>2, <1>5, <1>6, Zenon
  <2>4. UNCHANGED <<irq_handler, pic_irq_mask, imr, update, overlap, stale, running, ready,
                    hung, stage>>
    BY <1>5 DEF maskVars
  <2> QED BY <2>1, <2>2, <2>3, <2>4 DEF IntsInv, IntsTypeOK, NoUnexpectedInterrupt
<1>8. BootOrder'
  BY <1>2, <1>5 DEF IntsInv, BootOrder, Up, maskVars
<1>9. LinesHandled' /\ MasksAgree'
  <2>1. where'[running'] = "entry"
    BY <1>5, <1>6 DEF IntsInv, IntsTypeOK
  <2>2. Input(l)' = Input(l)
    BY DEF Input, IsMaster
  <2> QED BY <1>4, <1>5, <2>1, <2>2, MasksKept DEF IntsInv, LinesHandled
<1>10. FlagMatchesCode'
  BY <1>2, <1>5 DEF IntsInv, IntsTypeOK, FlagMatchesCode, Up
<1> QED BY <1>7, <1>8, <1>9, <1>10 DEF IntsInv

\* It is acknowledged at both controllers before its handler runs.
LEMMA HandlerInv ==
    ASSUME IntsInv, int_handler, UNCHANGED stage
    PROVE  IntsInv'
<1>1. PICK l \in Line \cap irq_handler : intno = ERRORS + l /\ isr = {l, Input(l)}
  BY DEF int_handler, IntsInv, LinesHandled
<1>2. intno - ERRORS = l
  BY <1>1, IntsAssumption
<1>3. /\ isr' = {} /\ hung' = FALSE /\ intno' = 0
      /\ \/ where' = [where EXCEPT ![running] = "timer"]
         \/ where' = [where EXCEPT ![running] = "driver"]
      /\ UNCHANGED <<irq_handler, maskVars, irr, offset, iflag, running, ready, stage>>
  BY <1>1, <1>2 DEF int_handler, pic_ack, At
<1>4. where[running] = "entry" /\ running \in CPUThread
  BY DEF int_handler, IntsInv, IntsTypeOK
<1>5. IntsTypeOK' /\ NoUnexpectedInterrupt'
  <2>1. where' \in [CPUThread -> Wheres]
    BY <1>3 DEF IntsInv, IntsTypeOK, Wheres
  <2> QED BY <1>3, <2>1 DEF IntsInv, IntsTypeOK, NoUnexpectedInterrupt, maskVars
<1>6. BootOrder'
  BY <1>3, <1>4 DEF IntsInv, IntsTypeOK, BootOrder, Up, maskVars
<1>7. LinesHandled' /\ MasksAgree'
  <2>1. where'[running'] # "entry"
    BY <1>3, <1>4 DEF IntsInv, IntsTypeOK
  <2> QED BY <1>3, <2>1, MasksKept DEF IntsInv, LinesHandled
<1>8. FlagMatchesCode'
  BY <1>3, <1>4 DEF IntsInv, IntsTypeOK, FlagMatchesCode, Up
<1> QED BY <1>5, <1>6, <1>7, <1>8 DEF IntsInv

\* What the steps of an update leave alone.
LEMMA UpdateFrame ==
    ASSUME IntsInv, Up, ready, where[running] = "code",
           UNCHANGED <<irq_handler, irr, isr, offset, iflag, running, where, intno,
                       ready, hung, stage>>,
           pic_irq_mask' \subseteq IRQ, imr' \subseteq IRQ, stale' \subseteq IRQ,
           overlap' \in BOOLEAN, update' \in [CPUThread -> Update],
           MaskSound(pic_irq_mask)', MaskSound(imr)',
           \A t \in CPUThread : Updating(t)' => MaskSound(update[t].mask)',
           MasksAgree'
    PROVE  IntsInv'
<1>1. IntsTypeOK' /\ NoUnexpectedInterrupt'
  BY DEF IntsInv, IntsTypeOK, NoUnexpectedInterrupt
<1>2. BootOrder' /\ FlagMatchesCode'
  BY DEF IntsInv, BootOrder, FlagMatchesCode, Up
<1>3. LinesHandled'
  BY DEF IntsInv, LinesHandled
<1> QED BY <1>1, <1>2, <1>3 DEF IntsInv

\* An update begins: its mask is sound, and differs in its own line only.
LEMMA BeginUpdateInv ==
    ASSUME IntsInv, Up, InCode, UNCHANGED stage,
           NEW l \in Line, NEW mask \in SUBSET IRQ, MaskSound(mask), BeginUpdate(l, mask),
           \A k \in IRQ \ {l} : k \in mask <=> k \in pic_irq_mask
    PROVE  IntsInv'
<1>1. /\ update' = [update EXCEPT ![running] = [next |-> "store", irq |-> l, mask |-> mask]]
      /\ running \in CPUThread /\ ready /\ where[running] = "code" /\ ~ Updating(running)
      /\ overlap' \in BOOLEAN /\ stale' \subseteq IRQ /\ l \in IRQ /\ stage = 6
      /\ (overlap' <=> \E t \in CPUThread : Updating(t))
      /\ stale' = IF overlap' THEN IRQ ELSE stale
      /\ UNCHANGED <<irq_handler, pic_irq_mask, imr>>
  <2>1. /\ running \in CPUThread /\ where[running] = "code" /\ stage = 6 /\ ready
    BY DEF InCode, IntsInv, IntsTypeOK, BootOrder, Up, Calls
  <2>2. ~ Updating(running)
    BY DEF InCode, NoUpdate, Updating
  <2>3. /\ update' = [update EXCEPT ![running] = [next |-> "store", irq |-> l, mask |-> mask]]
        /\ overlap' = \E t \in CPUThread : Updating(t)
        /\ stale' = IF overlap' THEN IRQ ELSE stale
        /\ UNCHANGED <<irq_handler, pic_irq_mask, imr>>
    BY DEF BeginUpdate
  <2>4. stale \subseteq IRQ
    BY DEF IntsInv, IntsTypeOK
  <2>5. stale' \subseteq IRQ /\ overlap' \in BOOLEAN
    BY <2>3, <2>4
  <2>6. l \in IRQ
    BY IntsAssumption
  <2> QED BY <2>1, <2>2, <2>3, <2>5, <2>6
<1>2. [next |-> "store", irq |-> l, mask |-> mask] \in Update
  BY <1>1 DEF Update
<1>3. /\ update' \in [CPUThread -> Update]
      /\ update'[running] = [next |-> "store", irq |-> l, mask |-> mask]
      /\ \A t \in CPUThread \ {running} : update'[t] = update[t]
  BY <1>1, <1>2 DEF IntsInv, IntsTypeOK
<1>4. MasksAgree'
  <2>1. CASE overlap'
    BY <1>1, <2>1 DEF MasksAgree, Settled, Updating
  <2>2. CASE ~ overlap'
    <3>1. stale' = stale /\ \A t \in CPUThread : ~ Updating(t)
      BY <1>1, <2>2
    <3>2. \A k \in IRQ : Settled(k)' => Settled(k) /\ (k \in imr' <=> k \in pic_irq_mask')
      BY <1>1, <3>1 DEF IntsInv, MasksAgree, Settled
    <3>3. \A t \in CPUThread : Updating(t)' => t = running
      BY <1>3, <3>1 DEF Updating
    <3>4. \A k \in IRQ \ {l} : k \in update'[running].mask <=> k \in pic_irq_mask'
      BY <1>1, <1>3
    <3>5. \A u \in CPUThread \ {running} : ~ Updating(u)'
      BY <3>3
    <3>6. update'[running].irq = l /\ update'[running].next = "store"
      BY <1>3
    <3> QED BY <2>2, <3>2, <3>3, <3>4, <3>5, <3>6 DEF MasksAgree
  <2> QED BY <2>1, <2>2
<1>5. MaskSound(pic_irq_mask)' /\ MaskSound(imr)'
  BY <1>1 DEF IntsInv, LinesHandled, MaskSound
<1>6. \A t \in CPUThread : Updating(t)' => MaskSound(update[t].mask)'
  BY <1>1, <1>3 DEF IntsInv, LinesHandled, MaskSound, Updating
<1>7. UNCHANGED <<irq_handler, irr, isr, offset, iflag, running, where, intno,
                  ready, hung>>
  BY DEF BeginUpdate
<1>8. pic_irq_mask' \subseteq IRQ /\ imr' \subseteq IRQ
  BY <1>1 DEF IntsInv, IntsTypeOK
<1> QED BY <1>1, <1>3, <1>4, <1>5, <1>6, <1>7, <1>8, UpdateFrame

\* The facts about a step of the update the running thread is in.
LEMMA AtUpdateFacts ==
    ASSUME IntsInv, NEW next \in {"store", "reload", "out"}, AtUpdate(next), UNCHANGED stage
    PROVE  /\ running \in CPUThread /\ Updating(running) /\ where[running] = "code"
           /\ update[running] \in Update /\ Up /\ ready /\ stage = 6
           /\ MaskSound(update[running].mask) /\ update[running].mask \subseteq IRQ
           /\ update[running].irq \in IRQ
           /\ MaskSound(pic_irq_mask) /\ MaskSound(imr)
           /\ update[running].next = next
           /\ UNCHANGED <<irq_handler, irr, isr, offset, iflag, running, where, intno,
                          ready, hung, stage>>
<1>1. running \in CPUThread /\ Updating(running) /\ where[running] = "code"
  BY DEF AtUpdate, IntsInv, IntsTypeOK, Updating
<1>2. update[running] \in Update
  BY <1>1 DEF IntsInv, IntsTypeOK
<1>3. Up /\ ready /\ stage = 6
  BY <1>1 DEF IntsInv, IntsTypeOK, BootOrder, Up, Calls
<1>4. update[running].mask \subseteq IRQ /\ update[running].irq \in IRQ
  BY <1>2 DEF Update
<1> QED BY <1>1, <1>2, <1>3, <1>4 DEF AtUpdate, IntsInv, LinesHandled

\* pic_irq_mask is stored.
LEMMA MaskStoreInv ==
    ASSUME IntsInv, MaskStore, UNCHANGED stage
    PROVE  IntsInv'
<1>1. AtUpdate("store")
  BY DEF MaskStore
<1> USE AtUpdateFacts, <1>1
<1>2. /\ pic_irq_mask' = update[running].mask
      /\ update' = [update EXCEPT ![running].next = "reload"]
      /\ UNCHANGED <<imr, overlap, stale>>
  BY DEF MaskStore
<1>3. [update[running] EXCEPT !.next = "reload"] \in Update
  BY DEF Update
<1>4. /\ update' \in [CPUThread -> Update]
      /\ update'[running].next = "reload"
      /\ update'[running].irq = update[running].irq
      /\ update'[running].mask = update[running].mask
      /\ \A t \in CPUThread \ {running} : update'[t] = update[t]
  BY <1>2, <1>3 DEF IntsInv, IntsTypeOK, Update
<1>5. \A t \in CPUThread : /\ Updating(t)' <=> Updating(t)
                          /\ update'[t].irq = update[t].irq
                          /\ update'[t].mask = update[t].mask
  BY <1>4 DEF Updating
<1>6. MasksAgree'
  <2>1. CASE stale = IRQ /\ overlap
    BY <1>2, <2>1 DEF MasksAgree, Settled
  <2>2. CASE ~ (stale = IRQ /\ overlap)
    <3>1. /\ ~ overlap /\ \A u \in CPUThread \ {running} : ~ Updating(u)
          /\ \A k \in IRQ \ {update[running].irq} :
                k \in update[running].mask <=> k \in pic_irq_mask
      BY <2>2 DEF IntsInv, MasksAgree
    <3>2. ASSUME NEW k \in IRQ, Settled(k)' PROVE k \in imr' <=> k \in pic_irq_mask'
      <4>1. Settled(k) /\ k # update[running].irq
        BY <1>2, <1>5, <3>2 DEF Settled
      <4> QED BY <1>2, <3>1, <4>1 DEF IntsInv, MasksAgree
    <3>3. \A t \in CPUThread : Updating(t)' => t = running
      BY <1>5, <3>1
    <3>4. \A u \in CPUThread \ {running} : ~ Updating(u)'
      BY <3>3
    <3> QED BY <1>2, <1>4, <3>1, <3>2, <3>3, <3>4 DEF MasksAgree
  <2> QED BY <2>1, <2>2
<1>7. MaskSound(pic_irq_mask)' /\ MaskSound(imr)'
  BY <1>2 DEF MaskSound
<1>8. \A t \in CPUThread : Updating(t)' => MaskSound(update[t].mask)'
  BY <1>5 DEF IntsInv, LinesHandled, MaskSound
<1>9. /\ pic_irq_mask' \subseteq IRQ /\ imr' \subseteq IRQ
      /\ stale' \subseteq IRQ /\ overlap' \in BOOLEAN
  BY <1>2 DEF IntsInv, IntsTypeOK
<1> QED BY <1>4, <1>6, <1>7, <1>8, <1>9, UpdateFrame

\* It is loaded again for out8().
LEMMA MaskReloadInv ==
    ASSUME IntsInv, MaskReload, UNCHANGED stage
    PROVE  IntsInv'
<1>1. AtUpdate("reload")
  BY DEF MaskReload
<1> USE AtUpdateFacts, <1>1
<1>2. /\ update' = [update EXCEPT ![running].next = "out", ![running].mask = pic_irq_mask]
      /\ UNCHANGED <<pic_irq_mask, imr, overlap, stale>>
  BY DEF MaskReload
<1>3. [update[running] EXCEPT !.next = "out", !.mask = pic_irq_mask] \in Update
  BY DEF Update, IntsInv, IntsTypeOK
<1>4. /\ update' \in [CPUThread -> Update]
      /\ update'[running].next = "out"
      /\ update'[running].irq = update[running].irq
      /\ update'[running].mask = pic_irq_mask
      /\ \A t \in CPUThread \ {running} : update'[t] = update[t]
  BY <1>2, <1>3 DEF IntsInv, IntsTypeOK, Update
<1>5. \A t \in CPUThread : (Updating(t)' <=> Updating(t)) /\ update'[t].irq = update[t].irq
  BY <1>4 DEF Updating
<1>6. \A k \in IRQ : Settled(k)' <=> Settled(k)
  BY <1>2, <1>5 DEF Settled
<1>7. MasksAgree'
  <2>1. stage' >= 1 => \A k \in IRQ : Settled(k)' => (k \in imr' <=> k \in pic_irq_mask')
    BY <1>2, <1>6 DEF IntsInv, MasksAgree
  <2>2. CASE stale = IRQ /\ overlap
    BY <1>2, <2>1, <2>2 DEF MasksAgree
  <2>3. CASE ~ (stale = IRQ /\ overlap)
    <3>1. ~ overlap /\ \A u \in CPUThread \ {running} : ~ Updating(u)
      BY <2>3 DEF IntsInv, MasksAgree
    <3>2. \A t \in CPUThread : Updating(t)' => t = running
      BY <1>5, <3>1
    <3>3. \A u \in CPUThread \ {running} : ~ Updating(u)'
      BY <3>2
    <3> QED BY <1>2, <1>4, <2>1, <3>1, <3>2, <3>3 DEF MasksAgree
  <2> QED BY <2>2, <2>3
<1>8. MaskSound(pic_irq_mask)' /\ MaskSound(imr)'
  BY <1>2 DEF MaskSound
<1>9. \A t \in CPUThread : Updating(t)' => MaskSound(update[t].mask)'
  BY <1>4, <1>5 DEF IntsInv, LinesHandled, MaskSound
<1>10. /\ pic_irq_mask' \subseteq IRQ /\ imr' \subseteq IRQ
       /\ stale' \subseteq IRQ /\ overlap' \in BOOLEAN
  BY <1>2 DEF IntsInv, IntsTypeOK
<1> QED BY <1>4, <1>7, <1>8, <1>9, <1>10, UpdateFrame

\* It is written to the controller, which then agrees if the update ran alone.
LEMMA MaskOutInv ==
    ASSUME IntsInv, MaskOut, UNCHANGED stage
    PROVE  IntsInv'
<1>1. AtUpdate("out")
  BY DEF MaskOut
<1> USE AtUpdateFacts, <1>1
<1> DEFINE l == update[running].irq
<1>2. /\ WriteMask(l, update[running].mask)
      /\ update' = [update EXCEPT ![running] = NoUpdate]
      /\ stale' = IF overlap THEN stale ELSE stale \ ChipOf(l)
      /\ overlap' = (overlap /\ \E t \in CPUThread \ {running} : Updating(t))
      /\ UNCHANGED pic_irq_mask
  BY DEF MaskOut
<1>3. /\ update' \in [CPUThread -> Update]
      /\ ~ Updating(running)'
      /\ \A t \in CPUThread \ {running} : update'[t] = update[t] /\ (Updating(t)' <=> Updating(t))
  BY <1>2 DEF IntsInv, IntsTypeOK, Update, NoUpdate, Updating
<1>4. imr' \subseteq IRQ /\ MaskSound(imr)'
  BY <1>2, WriteMaskSound DEF IntsInv, IntsTypeOK
<1>5. MasksAgree'
  <2>1. CASE stale = IRQ /\ overlap
    <3>1. stale' = IRQ
      BY <1>2, <2>1
    <3>2. \A t \in CPUThread : Updating(t)' => overlap'
      BY <1>2, <1>3, <2>1
    <3> QED BY <3>1, <3>2 DEF MasksAgree, Settled
  <2>2. CASE ~ (stale = IRQ /\ overlap)
    <3>1. /\ ~ overlap /\ \A u \in CPUThread \ {running} : ~ Updating(u)
          /\ update[running].mask = pic_irq_mask
      BY <2>2 DEF IntsInv, MasksAgree
    <3>2. \A t \in CPUThread : ~ Updating(t)'
      BY <1>3, <3>1
    <3>3. ASSUME NEW k \in IRQ, Settled(k)' PROVE k \in imr' <=> k \in pic_irq_mask'
      <4>1. CASE k \in ChipOf(l)
        BY <1>2, <3>1, <4>1 DEF WriteMask
      <4>2. CASE k \notin ChipOf(l)
        <5>1. k # l
          BY <4>2 DEF ChipOf
        <5>2. Settled(k)
          BY <1>2, <3>1, <3>3, <4>2, <5>1 DEF Settled
        <5> QED BY <1>2, <3>1, <4>2, <5>2 DEF IntsInv, MasksAgree, WriteMask
      <4> QED BY <4>1, <4>2
    <3> QED BY <3>2, <3>3 DEF MasksAgree
  <2> QED BY <2>1, <2>2
<1>6. MaskSound(pic_irq_mask)'
  BY <1>2 DEF MaskSound
<1>7. \A t \in CPUThread : Updating(t)' => MaskSound(update[t].mask)'
  BY <1>3 DEF IntsInv, LinesHandled, MaskSound
<1>8. pic_irq_mask' \subseteq IRQ /\ stale' \subseteq IRQ /\ overlap' \in BOOLEAN
  BY <1>2 DEF IntsInv, IntsTypeOK
<1> QED BY <1>3, <1>4, <1>5, <1>6, <1>7, <1>8, UpdateFrame

\* What threads and handlers do keeps the flag and the masks right.
LEMMA ActivityInv ==
    ASSUME IntsInv, Activity
    PROVE  IntsInv'
<1>1. stage' = stage /\ Len(Calls) = 6
  BY DEF Activity, Calls
<1>2. where[running] # "code" \/ iflag => Up /\ ready
  BY <1>1 DEF IntsInv, IntsTypeOK, BootOrder, Up
<1>3. ASSUME UNCHANGED <<maskVars, irr, isr, offset, hung, ready, intno>>,
             irq_handler \subseteq irq_handler', irq_handler' \subseteq IRQ,
             running' \in CPUThread, where' \in [CPUThread -> Wheres], iflag' \in BOOLEAN,
             where[running] # "code" \/ iflag, where[running] # "entry",
             where'[running'] # "entry",
             iflag' <=> where'[running'] = "code",
             \A t \in CPUThread \ {running'} : where'[t] \in {"new", "sched", "return"}
      PROVE  IntsInv'
  <2>1. IntsTypeOK' /\ NoUnexpectedInterrupt'
    BY <1>1, <1>3 DEF IntsInv, IntsTypeOK, NoUnexpectedInterrupt, maskVars
  <2>2. BootOrder' /\ FlagMatchesCode'
    BY <1>1, <1>2, <1>3 DEF IntsInv, BootOrder, FlagMatchesCode, Up
  <2>3. LinesHandled' /\ MasksAgree'
    BY <1>1, <1>3, MasksKept DEF IntsInv, LinesHandled
  <2> QED BY <2>1, <2>2, <2>3 DEF IntsInv
<1>4. /\ running \in CPUThread /\ where \in [CPUThread -> Wheres] /\ irq_handler \subseteq IRQ
      /\ \A t \in CPUThread \ {running} : where[t] \in {"new", "sched", "return"}
      /\ Up => (iflag <=> where[running] = "code")
  BY DEF IntsInv, IntsTypeOK, FlagMatchesCode
<1>5. CASE HandlerReturn
  <2>1. ~ hung'
    BY <1>2, <1>5 DEF HandlerReturn
  <2> QED BY <1>2, <1>3, <1>4, <1>5, <2>1 DEF HandlerReturn, At, Wheres, IntsInv, NoUnexpectedInterrupt, IntsTypeOK
<1>6. CASE Iret \/ YieldReturn \/ thread_entry \/ spin_unlock_irqrestore
  <2>1. /\ where[running] \notin {"code", "entry"} /\ iflag' = TRUE
        /\ where' = [where EXCEPT ![running] = "code"]
        /\ UNCHANGED <<irq_handler, maskVars, intno, irr, isr, offset, running, ready, hung>>
    BY <1>6 DEF Iret, YieldReturn, thread_entry, spin_unlock_irqrestore, At
  <2> QED BY <1>3, <1>4, <2>1 DEF Wheres
<1>7. ASSUME NEW u \in CPUThread, TimerSwitch(u) PROVE IntsInv'
  <2>1. where[running] = "timer" /\ u # running /\ ~ iflag
    BY <1>2, <1>4, <1>7 DEF TimerSwitch
  <2>2. /\ running' = u /\ where' = [where EXCEPT ![running] = "return"]
        /\ UNCHANGED <<irq_handler, maskVars, intno, irr, isr, offset, iflag, ready, hung>>
    BY <1>7 DEF TimerSwitch, At
  <2>3. iflag' \in BOOLEAN
    BY <2>2 DEF IntsInv, IntsTypeOK
  <2>4. /\ where' \in [CPUThread -> Wheres]
        /\ where'[u] = where[u] /\ where'[running] = "return"
        /\ \A t \in CPUThread \ {running} : where'[t] = where[t]
    BY <1>4, <2>1, <2>2 DEF Wheres
  <2>5. where'[running'] \notin {"code", "entry"}
    BY <1>4, <2>1, <2>2, <2>4
  <2>6. \A t \in CPUThread \ {running'} : where'[t] \in {"new", "sched", "return"}
    BY <1>4, <2>2, <2>4
  <2>7. running' \in CPUThread /\ irq_handler' = irq_handler /\ ~ iflag'
    BY <2>1, <2>2
  <2> QED BY <1>3, <1>4, <2>1, <2>2, <2>3, <2>4, <2>5, <2>6, <2>7
<1>8. ASSUME NEW u \in CPUThread, Yield(u) PROVE IntsInv'
  <2>1. where[running] = "code" /\ u # running /\ iflag
    BY <1>8 DEF Yield, InCode
  <2>2. /\ running' = u /\ where' = [where EXCEPT ![running] = "sched"] /\ iflag' = FALSE
        /\ UNCHANGED <<irq_handler, maskVars, intno, irr, isr, offset, ready, hung>>
    BY <1>8 DEF Yield, At
  <2>3. /\ where' \in [CPUThread -> Wheres]
        /\ where'[u] = where[u] /\ where'[running] = "sched"
        /\ \A t \in CPUThread \ {running} : where'[t] = where[t]
    BY <1>4, <2>1, <2>2 DEF Wheres
  <2>4. where'[running'] \notin {"code", "entry"}
    BY <1>4, <2>1, <2>2, <2>3
  <2>5. \A t \in CPUThread \ {running'} : where'[t] \in {"new", "sched", "return"}
    BY <1>4, <2>2, <2>3
  <2>6. running' \in CPUThread /\ irq_handler' = irq_handler /\ iflag' \in BOOLEAN
    BY <2>2
  <2> QED BY <1>3, <1>4, <2>1, <2>2, <2>3, <2>4, <2>5, <2>6
<1>9. CASE spin_lock_irqsave
  BY <1>3, <1>4, <1>9 DEF spin_lock_irqsave, InCode, At, Wheres, IntsInv, IntsTypeOK
<1>10. ASSUME NEW l \in Line, Raise(l) PROVE IntsInv'
  <2>1. /\ irr' = irr \cup {l} /\ l \in IRQ
        /\ UNCHANGED <<irq_handler, maskVars, isr, offset, iflag, running, where,
                       intno, ready, hung, stage>>
    BY <1>1, <1>10, IntsAssumption DEF Raise
  <2>2. IntsTypeOK' /\ NoUnexpectedInterrupt' /\ BootOrder' /\ FlagMatchesCode'
    BY <2>1 DEF IntsInv, IntsTypeOK, NoUnexpectedInterrupt, BootOrder, FlagMatchesCode,
                Up, Updating, maskVars
  <2>3. LinesHandled' /\ MasksAgree'
    BY <2>1, MasksKept DEF IntsInv, LinesHandled
  <2> QED BY <2>2, <2>3 DEF IntsInv
<1>11. ASSUME NEW l \in Line, Interrupt(l) PROVE IntsInv'
  BY <1>1, <1>11, InterruptInv
<1>12. CASE int_handler
  BY <1>1, <1>12, HandlerInv
<1>13. ASSUME NEW l \in Line, register_irq_handler(l) PROVE IntsInv'
  <2>1. l \in IRQ
    BY IntsAssumption
  <2> QED BY <1>3, <1>4, <1>13, <2>1 DEF register_irq_handler, InCode, IntsInv, IntsTypeOK
<1>14. ASSUME NEW l \in Line, activate_irq(l) \/ deactivate_irq(l) PROVE IntsInv'
  <2>1. InCode /\ Up /\ MaskSound(pic_irq_mask) /\ pic_irq_mask \subseteq IRQ
        /\ l \in IRQ /\ l # PIC_SLAVE_IRQ
    BY <1>2, <1>14, IntsAssumption DEF activate_irq, deactivate_irq, InCode, IntsInv,
       IntsTypeOK, LinesHandled
  <2>2. CASE activate_irq(l)
    <3>1. MaskSound(pic_irq_mask \ {l})
      BY <2>1, <2>2 DEF MaskSound, activate_irq
    <3> QED BY <1>1, <2>1, <2>2, <3>1, BeginUpdateInv DEF activate_irq, pic_unmask
  <2>3. CASE deactivate_irq(l)
    <3>1. MaskSound(pic_irq_mask \cup {l})
      BY <2>1, <2>3 DEF MaskSound, deactivate_irq
    <3> QED BY <1>1, <2>1, <2>3, <3>1, BeginUpdateInv DEF deactivate_irq, pic_mask
  <2> QED BY <1>14, <2>2, <2>3
<1>15. CASE MaskStore \/ MaskReload \/ MaskOut
  BY <1>1, <1>15, MaskStoreInv, MaskReloadInv, MaskOutInv
<1> QED BY <1>5, <1>6, <1>7, <1>8, <1>9, <1>10, <1>11, <1>12, <1>13, <1>14, <1>15
        DEF Activity, Proceed

\* Every step keeps the invariant.
LEMMA IntsNextInv ==
    ASSUME IntsInv, [IntsNext]_intVars
    PROVE  IntsInv'
<1>1. CASE UNCHANGED intVars
  BY <1>1 DEF intVars, IntsInv, IntsTypeOK, NoUnexpectedInterrupt, BootOrder,
              FlagMatchesCode, LinesHandled, MasksAgree, MaskSound, Settled, Updating, Up
<1> QED BY <1>1, MainCallInv, ActivityInv DEF IntsNext

(***************************************************************************)
(* The invariant holds from the state main() is entered in, for any        *)
(* devices and threads and however their updates of the mask race: every   *)
(* mask stored, written or about to be is sound, and the controllers agree *)
(* with pic_irq_mask on every settled line.                                *)
(***************************************************************************)
THEOREM InterruptInvariant == IntsSpec => []IntsInv
<1>1. IntsInit => IntsInv
  BY IntsInitInv
<1>2. IntsInv /\ [IntsNext]_intVars => IntsInv'
  BY IntsNextInv
<1> QED BY <1>1, <1>2, PTL DEF IntsSpec

(***************************************************************************)
(* unexpected_interrupt() is never reached, and no tick calls schedule()   *)
(* before threads_setup(), whatever the devices raise and when, and        *)
(* whichever updates of the mask are lost (ints.c:51, 59, main.c:315).     *)
(***************************************************************************)
THEOREM NoInterruptIsUnexpected == IntsSpec => []NoUnexpectedInterrupt
<1>1. IntsInv => NoUnexpectedInterrupt
  BY DEF IntsInv
<1> QED BY <1>1, InterruptInvariant, PTL

(***************************************************************************)
(* Whenever a thread runs with interrupts enabled nothing is in service,   *)
(* the tick gets through, and a settled line does just when pic_irq_mask   *)
(* says so: what lines 39-43 and 48-52 of i8259a.c give without a lock.    *)
(***************************************************************************)
THEOREM EnabledMeansOpen == IntsSpec => []LinesOpenWhenEnabled
<1>1. ASSUME IntsInv PROVE LinesOpenWhenEnabled
  <2>1. IntsTypeOK
    BY <1>1 DEF IntsInv
  <2>2. ASSUME iflag, ready
        PROVE  /\ isr = {} /\ Passes(PIT_IRQ)
               /\ \A l \in Line : Settled(l) => (Passes(l) <=> l \notin pic_irq_mask)
    <3>1. stage = 6 /\ Up /\ where[running] = "code"
      BY <1>1, <2>2 DEF IntsInv, IntsTypeOK, BootOrder, FlagMatchesCode, Up, Calls
    <3>2. isr = {} /\ MaskSound(imr)
      BY <1>1, <3>1 DEF IntsInv, LinesHandled, IntsTypeOK
    <3>3. \A l \in Line : Passes(l) <=> l \notin imr
      BY <3>2, IntsAssumption DEF Passes, MaskSound, Input
    <3>4. Passes(PIT_IRQ)
      BY <3>1, <3>2, <3>3, IntsAssumption DEF MaskSound, IntsInv, IntsTypeOK
    <3>5. \A l \in Line : Settled(l) => (l \in imr <=> l \in pic_irq_mask)
      BY <1>1, <2>1, <3>1, IntsAssumption DEF IntsInv, IntsTypeOK, MasksAgree
    <3> QED BY <3>2, <3>3, <3>4, <3>5
  <2> QED BY <2>1, <2>2 DEF LinesOpenWhenEnabled
<1> QED BY <1>1, InterruptInvariant, PTL
=============================================================================
