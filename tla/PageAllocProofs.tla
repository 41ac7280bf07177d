-------------------------- MODULE PageAllocProofs --------------------------
(***************************************************************************)
(* Proofs about the buddy allocator: whatever is allocated and freed in    *)
(* whatever order, blocks stay apart, no page is lost or added, and        *)
(* buddies are merged.  They hold for any memory map, any number of orders *)
(* and any callers, provided the page flags are clear at boot; memory.c    *)
(* leaves that to chance (PageAlloc_flags.cfg).                            *)
(***************************************************************************)
EXTENDS PageAlloc, QueueTheorems

-----------------------------------------------------------------------------
(* Sizes of blocks *)

\* f gives the pages of a block of every order.
IsPages(f) == f = [k \in 0 .. MAX_ORDER + 1 |-> IF k = 0 THEN 1 ELSE 2 * f[k - 1]]

\* Every order doubles the size of a block.
LEMMA Doubling ==
    /\ \A k \in 0 .. MAX_ORDER + 1 : BlockPages[k] \in Nat /\ BlockPages[k] > 0
    /\ BlockPages[0] = 1
    /\ \A k \in Orders : BlockPages[k + 1] = 2 * BlockPages[k]
<1> DEFINE n == MAX_ORDER + 1
           Positive == Nat \ {0}
           step == [k \in Nat |-> [x \in Positive |-> 2 * x]]
<1>1. n \in Nat /\ MAX_ORDER \in Nat
  BY PageAssumption
<1>2. step \in [Nat -> [Positive -> Positive]] /\ 1 \in Positive
  OBVIOUS
<1>3. PICK f : IsLoop(f, Positive, 1, step, n)
  <2> HIDE DEF n, step, Positive
  <2> QED BY <1>1, <1>2, LoopExists
<1>4. f \in [0 .. n -> Positive] /\ f[0] = 1 /\ \A k \in 1 .. n : f[k] = 2 * f[k - 1]
  <2>1. f \in [0 .. n -> Positive] /\ f[0] = 1 /\ \A k \in 1 .. n : f[k] = step[k][f[k - 1]]
    BY <1>3 DEF IsLoop
  <2>2. \A k \in 1 .. n : k \in Nat /\ k - 1 \in 0 .. n
    BY <1>1
  <2>3. \A k \in 1 .. n : f[k - 1] \in Positive
    BY <2>1, <2>2
  <2> QED BY <2>1, <2>2, <2>3
<1>5. IsPages(f)
  <2>1. \A k \in 0 .. n : f[k] = IF k = 0 THEN 1 ELSE 2 * f[k - 1]
    BY <1>1, <1>4
  <2> QED BY <1>4, <2>1 DEF IsPages
<1>6. BlockPages = CHOOSE g : IsPages(g)
  BY DEF BlockPages, IsPages
<1>7. IsPages(BlockPages)
  BY <1>5, <1>6
<1>8. \A k \in 0 .. n : BlockPages[k] = IF k = 0 THEN 1 ELSE 2 * BlockPages[k - 1]
  <2> DEFINE rhs(g) == [k \in 0 .. n |-> IF k = 0 THEN 1 ELSE 2 * g[k - 1]]
  <2>1. BlockPages = rhs(BlockPages)
    BY <1>7 DEF IsPages
  <2>2. \A k \in 0 .. n : rhs(BlockPages)[k] = IF k = 0 THEN 1 ELSE 2 * BlockPages[k - 1]
    OBVIOUS
  <2> QED BY <2>1, <2>2
<1>9. BlockPages[0] = 1 /\ \A k \in 1 .. n : BlockPages[k] = 2 * BlockPages[k - 1]
  BY <1>1, <1>8
<1>10. \A k \in 0 .. n : BlockPages[k] \in Positive
  <2>1. BlockPages[0] \in Positive /\ \A k \in 1 .. n : BlockPages[k - 1] \in Positive => BlockPages[k] \in Positive
    BY <1>9
  <2> HIDE DEF n, Positive
  <2> QED BY <1>1, <2>1, StaysIn
<1>11. \A k \in Orders : k + 1 \in 1 .. n /\ (k + 1) - 1 = k
  BY <1>1 DEF Orders
<1>12. \A k \in Orders : BlockPages[k + 1] = 2 * BlockPages[k]
  BY <1>9, <1>11
<1> QED BY <1>9, <1>10, <1>12

\* Products with a positive factor are ordered as their other factors are.
LEMMA Products ==
    ASSUME NEW a \in Int, NEW b \in Int, NEW s \in Nat, s > 0
    PROVE  /\ a * s \in Int
           /\ a * s < b * s => a < b
           /\ a <= b => a * s <= b * s
           /\ (a + 1) * s = a * s + s
           /\ a * s + b * s = (a + b) * s
OBVIOUS

\* What a multiple divided by its factor gives.
LEMMA Quotient ==
    ASSUME NEW a \in Nat, NEW s \in Nat, s > 0
    PROVE  (a * s) \div s = a
OBVIOUS

\* A number and the multiple below it.
LEMMA Remainder ==
    ASSUME NEW x \in Nat, NEW s \in Nat, s > 0
    PROVE  /\ x % s \in 0 .. s - 1
           /\ x \div s \in Nat
           /\ x - (x % s) = (x \div s) * s
OBVIOUS

\* BUG_ON(idx & ((1 << k) - 1)) does not trigger.
Aligned(p, k) == \E a \in Nat : p = a * BlockPages[k]

\* A block is a multiple of every smaller one.
LEMMA Divides ==
    ASSUME NEW j \in 0 .. MAX_ORDER + 1, NEW k \in j .. MAX_ORDER + 1
    PROVE  \E d \in Nat : d > 0 /\ BlockPages[k] = d * BlockPages[j]
<1>1. MAX_ORDER \in Nat
  BY PageAssumption
<1> DEFINE T == {m \in j .. MAX_ORDER + 1 :
                   ~ \E d \in Nat : d > 0 /\ BlockPages[m] = d * BlockPages[j]}
<1>2. ASSUME T # {} PROVE FALSE
  <2>1. T \in SUBSET Nat
    BY <1>1
  <2>2. PICK m \in T : \A y \in T : m <= y
    <3> HIDE DEF T
    <3> QED BY <1>2, <2>1, LeastOf
  <2>3. m \in j .. MAX_ORDER + 1
    BY <2>2
  <2>4. m # j
    <3>1. BlockPages[j] = 1 * BlockPages[j]
      BY Doubling
    <3> QED BY <2>2, <3>1
  <2>5. m - 1 \in j .. MAX_ORDER + 1 /\ m - 1 \in Orders /\ (m - 1) + 1 = m /\ ~ (m <= m - 1)
    BY <1>1, <2>3, <2>4 DEF Orders
  <2>6. PICK d \in Nat : d > 0 /\ BlockPages[m - 1] = d * BlockPages[j]
    BY <2>2, <2>5
  <2>7. BlockPages[m] = 2 * BlockPages[m - 1]
    BY <2>5, Doubling
  <2>8. 2 * (d * BlockPages[j]) = (2 * d) * BlockPages[j]
    BY Doubling
  <2>9. 2 * d \in Nat /\ 2 * d > 0 /\ BlockPages[m] = (2 * d) * BlockPages[j]
    BY <2>6, <2>7, <2>8
  <2> QED BY <2>2, <2>9
<1>3. k \notin T
  BY <1>2
<1> QED BY <1>3

\* A block that may begin at p may be cut there.
LEMMA AlignedLower ==
    ASSUME NEW j \in 0 .. MAX_ORDER + 1, NEW k \in j .. MAX_ORDER + 1, NEW p, Aligned(p, k)
    PROVE  Aligned(p, j) /\ p \in Nat
<1>1. MAX_ORDER \in Nat
  BY PageAssumption
<1>2. PICK a \in Nat : p = a * BlockPages[k]
  BY DEF Aligned
<1>3. PICK d \in Nat : d > 0 /\ BlockPages[k] = d * BlockPages[j]
  BY Divides
<1>4. BlockPages[j] \in Nat /\ BlockPages[k] \in Nat
  BY <1>1, Doubling
<1>5. a * (d * BlockPages[j]) = (a * d) * BlockPages[j] /\ a * d \in Nat /\ a * BlockPages[k] \in Nat
  BY <1>4
<1> QED BY <1>2, <1>3, <1>5 DEF Aligned

\* Of two blocks with a page in common the smaller is part of the larger.
LEMMA Nested ==
    ASSUME NEW j \in 0 .. MAX_ORDER + 1, NEW k \in j .. MAX_ORDER + 1, NEW p, NEW q, NEW x \in Int,
           Aligned(p, j), Aligned(q, k),
           p <= x, x < p + BlockPages[j], q <= x, x < q + BlockPages[k]
    PROVE  q <= p /\ p + BlockPages[j] <= q + BlockPages[k]
<1>1. MAX_ORDER \in Nat
  BY PageAssumption
<1> DEFINE s == BlockPages[j]
<1>2. s \in Nat /\ s > 0
  BY <1>1, Doubling
<1>3. PICK d \in Nat : d > 0 /\ BlockPages[k] = d * s
  BY Divides
<1>4. PICK a \in Nat : p = a * s
  BY DEF Aligned
<1>5. PICK c \in Nat : q = c * BlockPages[k]
  BY DEF Aligned
<1> HIDE DEF s
<1> DEFINE e == c * d
<1>6. e \in Nat /\ q = e * s
  BY <1>2, <1>3, <1>5
<1> HIDE DEF e
<1>7. /\ a * s \in Int /\ e * s \in Int /\ (a + 1) * s = a * s + s /\ (e + d) * s = e * s + d * s
      /\ d * s \in Int
  BY <1>2, <1>3, <1>4, <1>6, Products
<1>8. a * s <= x /\ x < (a + 1) * s /\ e * s <= x /\ x < (e + d) * s
  BY <1>3, <1>4, <1>6, <1>7 DEF s
<1>9. a * s < (e + d) * s /\ e * s < (a + 1) * s
  BY <1>2, <1>3, <1>4, <1>6, <1>7, <1>8
<1>10. a < e + d /\ e < a + 1
  <2>1. a \in Int /\ e + d \in Int /\ e \in Int /\ a + 1 \in Int
    BY <1>3, <1>4, <1>6
  <2> QED BY <1>2, <1>9, <2>1, Products
<1>11. a + 1 <= e + d /\ e <= a
  BY <1>3, <1>4, <1>6, <1>10
<1>12. (a + 1) * s <= (e + d) * s /\ e * s <= a * s
  <2>1. a \in Int /\ e + d \in Int /\ e \in Int /\ a + 1 \in Int
    BY <1>3, <1>4, <1>6
  <2> QED BY <1>2, <1>11, <2>1, Products
<1> QED BY <1>3, <1>4, <1>6, <1>7, <1>12 DEF s

\* m and q are the halves of a block of order k + 1 that begins at m.
Halves(m, q, k) == Aligned(m, k + 1) /\ q = m + BlockPages[k]

\* What the bit k of the first page says of a half.
LEMMA HalvesAre ==
    ASSUME NEW k \in Orders, NEW m, NEW q, Halves(m, q, k)
    PROVE  /\ m \in Nat /\ q \in Nat
           /\ Aligned(m, k) /\ Aligned(q, k)
           /\ Bit(m, k) = 0 /\ Bit(q, k) = 1
           /\ Buddy(m, k) = q /\ Buddy(q, k) = m
           /\ q + BlockPages[k] = m + BlockPages[k + 1]
<1>1. MAX_ORDER \in Nat
  BY PageAssumption
<1> DEFINE s == BlockPages[k]
<1>2. s \in Nat /\ s > 0 /\ BlockPages[k + 1] = 2 * s
  BY <1>1, Doubling DEF Orders
<1>3. PICK c \in Nat : m = c * BlockPages[k + 1]
  BY DEF Aligned, Halves
<1>4. q = m + s
  BY DEF Halves
<1> HIDE DEF s
<1>5. m = (2 * c) * s /\ q = (2 * c + 1) * s /\ m \in Nat /\ q \in Nat
  BY <1>2, <1>3, <1>4
<1>6. ((2 * c) * s) \div s = 2 * c /\ ((2 * c + 1) * s) \div s = 2 * c + 1
  <2>1. 2 * c \in Nat /\ 2 * c + 1 \in Nat
    OBVIOUS
  <2> QED BY <1>2, <2>1, Quotient
<1>7. (2 * c) % 2 = 0 /\ (2 * c + 1) % 2 = 1
  OBVIOUS
<1>8. Bit(m, k) = 0 /\ Bit(q, k) = 1
  BY <1>5, <1>6, <1>7 DEF Bit, s
<1>9. Buddy(m, k) = q /\ Buddy(q, k) = m
  BY <1>2, <1>4, <1>5, <1>8 DEF Buddy, s
<1>10. Aligned(m, k) /\ Aligned(q, k)
  BY <1>5 DEF Aligned, s
<1> QED BY <1>2, <1>4, <1>5, <1>8, <1>9, <1>10 DEF s

\* A block is the lower or the upper half of the next larger one.
LEMMA IsHalf ==
    ASSUME NEW k \in Orders, NEW p, Aligned(p, k)
    PROVE  \/ Halves(p, Buddy(p, k), k) /\ Bit(p, k) = 0
           \/ Halves(Buddy(p, k), p, k) /\ Bit(p, k) = 1
<1>1. MAX_ORDER \in Nat
  BY PageAssumption
<1> DEFINE s == BlockPages[k]
<1>2. s \in Nat /\ s > 0 /\ BlockPages[k + 1] = 2 * s
  BY <1>1, Doubling DEF Orders
<1>3. PICK a \in Nat : p = a * s
  BY DEF Aligned
<1> HIDE DEF s
<1>4. PICK c \in Nat : a = 2 * c \/ a = 2 * c + 1
  <2>1. a \div 2 \in Nat /\ (a = 2 * (a \div 2) \/ a = 2 * (a \div 2) + 1)
    OBVIOUS
  <2> QED BY <2>1
<1> DEFINE m == c * BlockPages[k + 1]
           q == m + s
<1>5. Halves(m, q, k)
  BY DEF Halves, Aligned, s
<1>6. m = (2 * c) * s /\ q = (2 * c + 1) * s
  BY <1>2
<1>7. p = m \/ p = q
  BY <1>3, <1>4, <1>6
<1> HIDE DEF m, q
<1>8. Buddy(m, k) = q /\ Buddy(q, k) = m /\ Bit(m, k) = 0 /\ Bit(q, k) = 1
  BY <1>5, HalvesAre
<1> QED BY <1>5, <1>7, <1>8

\* The head of the block of order k that has page x.
LEMMA FloorIs ==
    ASSUME NEW k \in 0 .. MAX_ORDER + 1, NEW x \in Nat
    PROVE  /\ Floor(x, k) \in Nat /\ Aligned(Floor(x, k), k)
           /\ Floor(x, k) <= x /\ x < Floor(x, k) + BlockPages[k]
<1>1. MAX_ORDER \in Nat
  BY PageAssumption
<1> DEFINE s == BlockPages[k]
<1>2. s \in Nat /\ s > 0
  BY <1>1, Doubling
<1> HIDE DEF s
<1>3. x % s \in 0 .. s - 1 /\ x \div s \in Nat /\ x - (x % s) = (x \div s) * s
  BY <1>2, Remainder
<1>4. Floor(x, k) = x - (x % s)
  BY DEF Floor, s
<1>5. (x \div s) * s \in Nat
  BY <1>2, <1>3
<1>6. Aligned(Floor(x, k), k)
  BY <1>3, <1>4 DEF Aligned, s
<1>7. Floor(x, k) <= x /\ x < Floor(x, k) + s
  BY <1>2, <1>3, <1>4
<1> QED BY <1>3, <1>4, <1>5, <1>6, <1>7 DEF s

\* There is one such block.
LEMMA FloorUnique ==
    ASSUME NEW k \in 0 .. MAX_ORDER + 1, NEW x \in Nat, NEW q,
           Aligned(q, k), q <= x, x < q + BlockPages[k]
    PROVE  q = Floor(x, k)
<1>1. MAX_ORDER \in Nat
  BY PageAssumption
<1> DEFINE f == Floor(x, k)
<1>2. f \in Nat /\ Aligned(f, k) /\ f <= x /\ x < f + BlockPages[k]
  BY FloorIs
<1> HIDE DEF f
<1>3. k \in k .. MAX_ORDER + 1 /\ x \in Int
  BY <1>1
<1>4. q \in Nat
  BY <1>3, AlignedLower
<1>5. q <= f /\ f <= q
  BY <1>2, <1>3, Nested
<1> QED BY <1>2, <1>4, <1>5 DEF f

-----------------------------------------------------------------------------
(* The invariant *)

Covers(b) == Extent(b[1], b[2])

\* Free blocks F and blocks in use B begin at multiples of their sizes, lie in
\* one zone each and have no page in common.
Sound(F, B) ==
    /\ F \cap B = {}
    /\ \A b \in F \cup B :
         /\ b = <<b[1], b[2]>> /\ b[2] \in Orders /\ Aligned(b[1], b[2])
         /\ \E z \in ZoneIds : Covers(b) \subseteq ZonePages(z)
    /\ \A b, c \in F \cup B : b # c => Covers(b) \cap Covers(c) = {}

Union(F, B) == UNION {Covers(b) : b \in F \cup B}

\* The flags of the pages that head free blocks are right.  Others whose FREE
\* flag is set are inside a block, from its merging, and head none.
Truthful(F, B, flag, o) ==
    /\ \A b \in F : b[1] \in flag /\ o[b[1]] = b[2]
    /\ \A p \in flag : /\ o[p] \in Orders /\ Aligned(p, o[p])
                        /\ p \in Union(F, B)
                        /\ \A b \in B : b[1] # p

\* No two free blocks are the halves of a larger one.
Merged(F) == \A b, c \in F : ~ (b[2] = c[2] /\ b[2] < MAX_ORDER /\ Halves(b[1], c[1], b[2]))

\* The pages of the ranges page_alloc_setup() has been through.
Taken ==
    {p \in Managed : \E i \in DOMAIN FreeRanges :
        p \in FreedPages(i) /\ (i < boot.range \/ (i = boot.range /\ p < boot.page))}

\* What keeps a block of a range from being the lower half of a larger one.
Final(p, k, end) == k = MAX_ORDER \/ Bit(p, k) = 1 \/ p + BlockPages[k + 1] > end

\* While free ranges are cut, nothing is allocated yet.
Cutting ==
    LET end == LastPage(FreeRanges[boot.range])
    IN  /\ busy = {} /\ \A t \in Caller : scan[t] = <<>>
        /\ FirstFreed(boot.range) <= boot.page
        /\ boot.page <= end \/ boot.page = FirstFreed(boot.range)
        /\ \A b \in FreeBlocks : Covers(b) \cap FreedPages(boot.range) # {}
                                   => Final(b[1], b[2], end)

\* A zone has a list of its own pages for every order, each page once.
Lists(q) ==
    /\ q \in [ZoneIds -> [Orders -> Seq(Pages)]]
    /\ \A z \in ZoneIds, k \in Orders : q[z][k] \in Seq(ZonePages(z)) /\ IsInjective(q[z][k])

PageInv ==
    /\ Lists(order)
    /\ ord \in [Pages -> Orders]
    /\ boot \in [range : 1 .. Len(FreeRanges) + 1, page : Nat]
    /\ scan \in [Caller -> {<<>>} \cup (Orders \X (ZoneIds \cup {Len(MemoryMap) + 1}))]
    /\ Sound(FreeBlocks, busy)
    /\ Truthful(FreeBlocks, busy, isfree, ord)
    /\ Merged(FreeBlocks)
    /\ Union(FreeBlocks, busy) = Taken
    /\ Booting => Cutting

-----------------------------------------------------------------------------
(* Blocks and zones *)

\* The pages of a block, as numbers.
LEMMA CoversIs ==
    ASSUME NEW k \in 0 .. MAX_ORDER + 1, NEW p, Aligned(p, k)
    PROVE  /\ p \in Nat /\ BlockPages[k] \in Nat /\ BlockPages[k] > 0
           /\ \A x : x \in Extent(p, k) <=> x \in Int /\ p <= x /\ x < p + BlockPages[k]
           /\ p \in Extent(p, k)
<1>1. MAX_ORDER \in Nat
  BY PageAssumption
<1>2. BlockPages[k] \in Nat /\ BlockPages[k] > 0
  BY <1>1, Doubling
<1>3. k \in k .. MAX_ORDER + 1
  BY <1>1
<1>4. p \in Nat
  BY <1>3, AlignedLower
<1> QED BY <1>2, <1>4 DEF Extent

\* Of two blocks that meet, the smaller is part of the larger.
LEMMA Contained ==
    ASSUME NEW j \in 0 .. MAX_ORDER + 1, NEW k \in j .. MAX_ORDER + 1, NEW p, NEW q, NEW x,
           Aligned(p, j), Aligned(q, k), x \in Extent(p, j), x \in Extent(q, k)
    PROVE  Extent(p, j) \subseteq Extent(q, k)
<1>1. MAX_ORDER \in Nat /\ k \in 0 .. MAX_ORDER + 1
  BY PageAssumption
<1>2. /\ p \in Nat /\ BlockPages[j] \in Nat
      /\ \A y : y \in Extent(p, j) <=> y \in Int /\ p <= y /\ y < p + BlockPages[j]
  BY CoversIs
<1>3. /\ q \in Nat /\ BlockPages[k] \in Nat
      /\ \A y : y \in Extent(q, k) <=> y \in Int /\ q <= y /\ y < q + BlockPages[k]
  BY <1>1, CoversIs
<1>4. x \in Int /\ p <= x /\ x < p + BlockPages[j] /\ q <= x /\ x < q + BlockPages[k]
  BY <1>2, <1>3
<1>5. q <= p /\ p + BlockPages[j] <= q + BlockPages[k]
  BY <1>4, Nested
<1> QED BY <1>2, <1>3, <1>5

\* Two halves make the whole.
LEMMA HalvesUnion ==
    ASSUME NEW k \in Orders, NEW m, NEW q, Halves(m, q, k)
    PROVE  /\ Extent(m, k + 1) = Extent(m, k) \cup Extent(q, k)
           /\ Extent(m, k) \cap Extent(q, k) = {}
<1>1. MAX_ORDER \in Nat /\ k \in 0 .. MAX_ORDER + 1 /\ k + 1 \in 0 .. MAX_ORDER + 1
  BY PageAssumption DEF Orders
<1>2. /\ m \in Nat /\ q \in Nat /\ Aligned(m, k) /\ Aligned(q, k) /\ Aligned(m, k + 1)
      /\ q = m + BlockPages[k] /\ q + BlockPages[k] = m + BlockPages[k + 1]
  BY HalvesAre DEF Halves
<1>3. BlockPages[k] \in Nat /\ BlockPages[k] > 0 /\ BlockPages[k + 1] \in Nat
  BY <1>1, Doubling
<1>4. /\ \A x : x \in Extent(m, k) <=> x \in Int /\ m <= x /\ x < m + BlockPages[k]
      /\ \A x : x \in Extent(q, k) <=> x \in Int /\ q <= x /\ x < q + BlockPages[k]
      /\ \A x : x \in Extent(m, k + 1) <=> x \in Int /\ m <= x /\ x < m + BlockPages[k + 1]
  BY <1>1, <1>2, CoversIs
<1>5. ASSUME NEW x
      PROVE  /\ x \in Extent(m, k + 1) <=> x \in Extent(m, k) \/ x \in Extent(q, k)
             /\ ~ (x \in Extent(m, k) /\ x \in Extent(q, k))
  BY <1>2, <1>3, <1>4
<1> QED BY <1>5

\* First and last page of byte ranges that are apart: a page is between them.
LEMMA PagesApart ==
    ASSUME NEW r \in Nat \X Nat, NEW s \in Nat \X Nat, r[2] < s[1]
    PROVE  /\ LastPage(r) \in Nat /\ FirstPage(s) \in Nat
           /\ LastPage(r) < FirstPage(s)
<1> DEFINE n == PAGE_SIZE  u == s[1] + n - 1
<1>1. n \in Nat /\ n > 0 /\ r[2] \in Nat /\ s[1] \in Nat /\ u \in Nat
  BY PageAssumption
<1>2. r[2] % n \in 0 .. n - 1 /\ r[2] \div n \in Nat /\ r[2] - (r[2] % n) = (r[2] \div n) * n
  BY <1>1, Remainder
<1>3. u % n \in 0 .. n - 1 /\ u \div n \in Nat /\ u - (u % n) = (u \div n) * n
  <2> HIDE DEF u, n
  <2> QED BY <1>1, Remainder
<1> DEFINE a == r[2] \div n  b == u \div n
<1>4. a \in Nat /\ b \in Nat /\ a * n \in Int /\ b * n \in Int
  BY <1>1, <1>2, <1>3
<1>5. a * n <= r[2] /\ b * n >= s[1]
  BY <1>1, <1>2, <1>3, <1>4
<1>6. a * n < b * n
  BY <1>1, <1>4, <1>5
<1>7. a < b
  <2> HIDE DEF a, b, n
  <2> QED BY <1>1, <1>4, <1>6, Products
<1> QED BY <1>4, <1>7 DEF LastPage, FirstPage

\* First and last page of a range.
LEMMA PageOfRange ==
    ASSUME NEW r \in Nat \X Nat
    PROVE  FirstPage(r) \in Nat /\ LastPage(r) \in Nat
<1> DEFINE n == PAGE_SIZE  u == r[1] + n - 1
<1>1. n \in Nat /\ n > 0 /\ r[2] \in Nat /\ r[1] \in Nat /\ u \in Nat
  BY PageAssumption
<1>2. r[2] \div n \in Nat
  BY <1>1, Remainder
<1>3. u \div n \in Nat
  <2> HIDE DEF u, n
  <2> QED BY <1>1, Remainder
<1> QED BY <1>2, <1>3 DEF FirstPage, LastPage

\* The ranges are pairs of numbers.
LEMMA Ranges ==
    /\ \A z \in DOMAIN MemoryMap : z \in Nat /\ MemoryMap[z] \in Nat \X Nat
    /\ \A i \in DOMAIN FreeRanges : i \in Nat /\ FreeRanges[i] \in Nat \X Nat
    /\ DOMAIN MemoryMap = 1 .. Len(MemoryMap) /\ Len(MemoryMap) \in Nat
    /\ DOMAIN FreeRanges = 1 .. Len(FreeRanges) /\ Len(FreeRanges) \in Nat
<1>1. MemoryMap \in Seq(Nat \X Nat) /\ FreeRanges \in Seq(Nat \X Nat)
  BY PageAssumption
<1>2. /\ DOMAIN MemoryMap = 1 .. Len(MemoryMap) /\ Len(MemoryMap) \in Nat
      /\ DOMAIN FreeRanges = 1 .. Len(FreeRanges) /\ Len(FreeRanges) \in Nat
  BY <1>1, LenProperties
<1>3. /\ \A z \in 1 .. Len(MemoryMap) : MemoryMap[z] \in Nat \X Nat
      /\ \A i \in 1 .. Len(FreeRanges) : FreeRanges[i] \in Nat \X Nat
  BY <1>1, ElementOfSeq
<1> QED BY <1>2, <1>3

\* Zones do not touch: page_alloc_zone_find() has one zone to find.
LEMMA ZonesApart ==
    ASSUME NEW z \in ZoneIds, NEW y \in ZoneIds, NEW p \in ZonePages(z), NEW q \in ZonePages(y),
           q = p \/ q = p + 1
    PROVE  z = y /\ p \in Nat /\ q \in Nat
<1>1. /\ z \in Nat /\ y \in Nat /\ z \in DOMAIN MemoryMap /\ y \in DOMAIN MemoryMap
      /\ MemoryMap[z] \in Nat \X Nat /\ MemoryMap[y] \in Nat \X Nat
  BY Ranges DEF ZoneIds
<1>2. /\ FirstPage(MemoryMap[z]) \in Nat /\ LastPage(MemoryMap[z]) \in Nat
      /\ FirstPage(MemoryMap[y]) \in Nat /\ LastPage(MemoryMap[y]) \in Nat
  BY <1>1, PageOfRange
<1>3. /\ p \in Int /\ FirstPage(MemoryMap[z]) <= p /\ p < LastPage(MemoryMap[z])
      /\ q \in Int /\ FirstPage(MemoryMap[y]) <= q /\ q < LastPage(MemoryMap[y])
  BY <1>2 DEF ZonePages
<1>4. ASSUME z < y PROVE FALSE
  <2>1. MemoryMap[z][2] < MemoryMap[y][1]
    BY <1>1, <1>4, PageAssumption DEF Apart
  <2>2. LastPage(MemoryMap[z]) < FirstPage(MemoryMap[y])
    BY <1>1, <2>1, PagesApart
  <2> QED BY <1>2, <1>3, <2>2
<1>5. ASSUME y < z PROVE FALSE
  <2>1. MemoryMap[y][2] < MemoryMap[z][1]
    BY <1>1, <1>5, PageAssumption DEF Apart
  <2>2. LastPage(MemoryMap[y]) < FirstPage(MemoryMap[z])
    BY <1>1, <2>1, PagesApart
  <2> QED BY <1>2, <1>3, <2>2
<1> QED BY <1>1, <1>2, <1>3, <1>4, <1>5

\* page_alloc_zone_find() finds the zone a page is in.
LEMMA ZoneFound ==
    ASSUME NEW z \in ZoneIds, NEW p \in ZonePages(z)
    PROVE  ZoneOf(p) = z
<1> DEFINE T == {y \in ZoneIds : p \in ZonePages(y)}
<1>1. T \in SUBSET Nat /\ z \in T
  BY Ranges DEF ZoneIds
<1>2. \A y \in T : y = z
  BY ZonesApart
<1>3. Min(T) \in T
  <2> HIDE DEF T
  <2> QED BY <1>1, LeastOf
<1> QED BY <1>2, <1>3 DEF ZoneOf

-----------------------------------------------------------------------------
(* Blocks that meet *)

\* What Sound says of one block.
LEMMA BlockFacts ==
    ASSUME NEW F, NEW B, Sound(F, B), NEW b \in F \cup B
    PROVE  /\ b = <<b[1], b[2]>> /\ b[2] \in Orders /\ b[2] \in 0 .. MAX_ORDER + 1
           /\ Aligned(b[1], b[2]) /\ b[1] \in Nat /\ b[1] \in Covers(b)
           /\ Covers(b) = Extent(b[1], b[2])
           /\ \E z \in ZoneIds : Covers(b) \subseteq ZonePages(z)
<1>1. b = <<b[1], b[2]>> /\ b[2] \in Orders /\ Aligned(b[1], b[2])
  BY DEF Sound
<1>2. b[2] \in 0 .. MAX_ORDER + 1
  BY <1>1, PageAssumption DEF Orders
<1>3. b[1] \in Nat /\ b[1] \in Extent(b[1], b[2])
  BY <1>1, <1>2, CoversIs
<1> QED BY <1>1, <1>2, <1>3 DEF Covers, Sound

\* Blocks with a page in common are the same.
LEMMA SameBlock ==
    ASSUME NEW F, NEW B, Sound(F, B), NEW b \in F \cup B, NEW c \in F \cup B, NEW x,
           x \in Covers(b), x \in Covers(c)
    PROVE  b = c
BY DEF Sound

\* The test of __page_free_zone() is right: a page with the FREE flag and order
\* j, next to an area of that order which holds a block no larger, heads a
\* free block.  A stale flag is inside a larger block, and that would hold the
\* area too.
LEMMA BuddyFree ==
    ASSUME NEW F, NEW B, NEW flag, NEW o, Sound(F, B), Truthful(F, B, flag, o),
           NEW j \in Orders, NEW f, Aligned(f, j), NEW c \in F \cup B, c[2] <= j,
           c[1] \in Extent(f, j), Buddy(f, j) \in flag, o[Buddy(f, j)] = j
    PROVE  <<Buddy(f, j), j>> \in F
<1> DEFINE p == Buddy(f, j)
<1>1. MAX_ORDER \in Nat /\ j \in 0 .. MAX_ORDER + 1 /\ j + 1 \in 0 .. MAX_ORDER + 1
  BY PageAssumption DEF Orders
<1>2. PICK m, q : Halves(m, q, j) /\ (<<f, p>> = <<m, q>> \/ <<f, p>> = <<q, m>>)
  BY IsHalf
<1>3. Aligned(p, j) /\ p \in Nat
  BY <1>2, HalvesAre
<1>4. p \in Union(F, B) /\ \A b \in B : b[1] # p
  BY DEF Truthful
<1>5. PICK b \in F \cup B : p \in Covers(b)
  BY <1>4 DEF Union
<1>6. /\ b = <<b[1], b[2]>> /\ b[2] \in Orders /\ b[2] \in 0 .. MAX_ORDER + 1
      /\ Aligned(b[1], b[2]) /\ b[1] \in Nat /\ b[1] \in Covers(b)
      /\ Covers(b) = Extent(b[1], b[2])
  BY BlockFacts
<1>7. CASE b[1] = p
  <2>1. b \in F /\ b[2] = j
    BY <1>4, <1>7 DEF Truthful
  <2> QED BY <1>6, <1>7, <2>1
<1>8. CASE b[1] # p
  <2>1. \A x : x \in Extent(p, j) <=> x \in Int /\ p <= x /\ x < p + BlockPages[j]
    BY <1>1, <1>3, CoversIs
  <2>2. \A x : x \in Extent(b[1], b[2]) <=> x \in Int /\ b[1] <= x /\ x < b[1] + BlockPages[b[2]]
    BY <1>6, CoversIs
  <2>3. b[1] < p
    BY <1>3, <1>5, <1>6, <1>8, <2>2
  <2>4. ~ (b[2] <= j)
    <3>1. SUFFICES ASSUME b[2] <= j PROVE FALSE
      OBVIOUS
    <3>2. j \in b[2] .. MAX_ORDER + 1 /\ p \in Extent(p, j)
      BY <1>1, <1>3, <1>6, <3>1, CoversIs
    <3>3. p \in Extent(b[1], b[2])
      BY <1>5, <1>6
    <3>4. Extent(b[1], b[2]) \subseteq Extent(p, j)
      BY <1>3, <1>6, <3>2, <3>3, Contained
    <3>5. p <= b[1]
      BY <1>6, <2>1, <3>4
    <3> QED BY <1>3, <1>6, <2>3, <3>5
  <2>5. b[2] \in j + 1 .. MAX_ORDER + 1
    BY <1>1, <1>6, <2>4
  <2>6. Aligned(m, j + 1) /\ Extent(m, j + 1) = Extent(m, j) \cup Extent(q, j)
    BY <1>2, HalvesUnion DEF Halves
  <2>7. p \in Extent(m, j + 1) /\ c[1] \in Extent(m, j + 1)
    <3>1. p \in Extent(p, j)
      BY <1>1, <1>3, CoversIs
    <3>2. (f = m /\ p = q) \/ (f = q /\ p = m)
      BY <1>2
    <3> HIDE DEF p
    <3> QED BY <2>6, <3>1, <3>2
  <2>8. p \in Extent(b[1], b[2])
    BY <1>5, <1>6
  <2>9. Extent(m, j + 1) \subseteq Extent(b[1], b[2])
    <3> HIDE DEF p
    <3> QED BY <1>1, <1>6, <2>5, <2>6, <2>7, <2>8, Contained
  <2>10. c[1] \in Covers(b)
    BY <1>6, <2>7, <2>9
  <2>11. c[1] \in Covers(c)
    BY BlockFacts
  <2>12. b = c
    BY <2>10, <2>11, SameBlock
  <2> QED BY <2>4, <2>12
<1> QED BY <1>7, <1>8

\* One round of the merging loop: the block around idx of order j and its
\* buddy are the halves of the next larger one.
LEMMA MergeStep ==
    ASSUME NEW idx \in Nat, NEW j \in Orders
    PROVE  LET f == Floor(idx, j)
               b == Buddy(f, j)
               g == Floor(idx, j + 1)
           IN  /\ (g = f /\ Halves(f, b, j)) \/ (g = b /\ Halves(b, f, j))
               /\ Extent(g, j + 1) = Extent(f, j) \cup Extent(b, j)
<1> DEFINE f == Floor(idx, j)
           b == Buddy(f, j)
<1>1. MAX_ORDER \in Nat /\ j \in 0 .. MAX_ORDER + 1 /\ j + 1 \in 0 .. MAX_ORDER + 1
  BY PageAssumption DEF Orders
<1>2. /\ f \in Nat /\ Aligned(f, j) /\ f <= idx /\ idx < f + BlockPages[j]
  BY <1>1, FloorIs
<1>3. idx \in Extent(f, j)
  <2> HIDE DEF f
  <2> QED BY <1>1, <1>2, CoversIs
<1>4. Halves(f, b, j) \/ Halves(b, f, j)
  <2> HIDE DEF f
  <2> QED BY <1>2, IsHalf
<1> HIDE DEF f, b
<1>5. PICK m, q : Halves(m, q, j) /\ ((m = f /\ q = b) \/ (m = b /\ q = f))
  BY <1>4
<1>6. Extent(m, j + 1) = Extent(m, j) \cup Extent(q, j) /\ Aligned(m, j + 1)
  BY <1>5, HalvesUnion DEF Halves
<1>7. Extent(m, j + 1) = Extent(f, j) \cup Extent(b, j)
  BY <1>5, <1>6
<1>8. idx \in Extent(m, j + 1)
  BY <1>3, <1>7
<1>9. m <= idx /\ idx < m + BlockPages[j + 1]
  BY <1>1, <1>6, <1>8, CoversIs
<1>10. m = Floor(idx, j + 1)
  BY <1>1, <1>6, <1>9, FloorUnique
<1> QED BY <1>5, <1>7, <1>10 DEF f, b

\* A block where blocks may be.
Fits(b) ==
    /\ b = <<b[1], b[2]>> /\ b[2] \in Orders /\ Aligned(b[1], b[2])
    /\ \E z \in ZoneIds : Covers(b) \subseteq ZonePages(z)

\* F1 and B1 have New, which covers the same pages, for the blocks Old of A.
Exchanged(A, Old, New, F1, B1) ==
    /\ Old \subseteq A /\ F1 \cap B1 = {} /\ F1 \cup B1 = (A \ Old) \cup New
    /\ \A b \in New : Fits(b)
    /\ \A b, c \in New : b # c => Covers(b) \cap Covers(c) = {}
    /\ \A x : (\E b \in New : x \in Covers(b)) <=> (\E b \in Old : x \in Covers(b))

\* Blocks may be exchanged for others that cover the same pages.
LEMMA Exchange ==
    ASSUME NEW F, NEW B, Sound(F, B), NEW Old, NEW New, NEW F1, NEW B1,
           Exchanged(F \cup B, Old, New, F1, B1)
    PROVE  Sound(F1, B1) /\ Union(F1, B1) = Union(F, B)
<1> USE DEF Exchanged
<1> DEFINE A == F \cup B  A1 == F1 \cup B1
<1>1. \A b, c \in A : b # c => Covers(b) \cap Covers(c) = {}
  BY DEF Sound
<1>2. \A b \in A : Fits(b)
  BY DEF Sound, Fits
<1>3. A1 = (A \ Old) \cup New /\ Old \subseteq A
  OBVIOUS
<1>4. Union(F1, B1) = UNION {Covers(b) : b \in A1} /\ Union(F, B) = UNION {Covers(b) : b \in A}
  BY DEF Union
<1> HIDE DEF A, A1
<1>5. \A b \in A1 : Fits(b)
  BY <1>2, <1>3
<1>6. ASSUME NEW b \in New, NEW c \in A \ Old PROVE Covers(b) \cap Covers(c) = {}
  BY <1>1, <1>3
<1>7. ASSUME NEW b \in A1, NEW c \in A1, b # c PROVE Covers(b) \cap Covers(c) = {}
  <2>1. CASE b \in New /\ c \in New
    BY <1>7, <2>1
  <2>2. CASE b \in New /\ c \notin New
    BY <1>3, <1>6, <2>2
  <2>3. CASE b \notin New /\ c \in New
    BY <1>3, <1>6, <2>3
  <2>4. CASE b \notin New /\ c \notin New
    BY <1>1, <1>3, <1>7, <2>4
  <2> QED BY <2>1, <2>2, <2>3, <2>4
<1>8. ASSUME NEW x PROVE (\E b \in A1 : x \in Covers(b)) <=> (\E b \in A : x \in Covers(b))
  BY <1>3
<1>9. UNION {Covers(b) : b \in A1} = UNION {Covers(b) : b \in A}
  BY <1>8
<1>10. Sound(F1, B1)
  <2>1. F1 \cap B1 = {}
    OBVIOUS
  <2>2. \A b \in F1 \cup B1 : Fits(b)
    BY <1>5 DEF A1
  <2>3. \A b, c \in F1 \cup B1 : b # c => Covers(b) \cap Covers(c) = {}
    BY <1>7 DEF A1
  <2> QED BY <2>1, <2>2, <2>3 DEF Sound, Fits
<1> QED BY <1>4, <1>9, <1>10

-----------------------------------------------------------------------------
(* Freeing *)

\* The buddy __page_free_zone() looks at in the round of order j.
Partner(idx, j) == Buddy(Floor(idx, j), j)

\* The block that is filed is the one that was freed and the buddies on the way.
LEMMA MergeExtent ==
    ASSUME NEW idx \in Nat, NEW k \in Orders, NEW top \in k .. MAX_ORDER, NEW x
    PROVE  x \in Extent(Floor(idx, top), top)
             <=> \/ x \in Extent(Floor(idx, k), k)
                 \/ \E j \in k .. top - 1 : x \in Extent(Partner(idx, j), j)
<1> DEFINE At(j) == Extent(Floor(idx, j), j)
<1>1. MAX_ORDER \in Nat /\ k \in Nat /\ top \in Orders
  BY PageAssumption DEF Orders
<1>2. \A j \in k .. top - 1 : At(j + 1) = At(j) \cup Extent(Partner(idx, j), j)
  <2> SUFFICES ASSUME NEW j \in k .. top - 1 PROVE At(j + 1) = At(j) \cup Extent(Partner(idx, j), j)
    OBVIOUS
  <2>1. j \in Orders
    BY <1>1 DEF Orders
  <2> QED BY <2>1, MergeStep DEF Partner
<1>3. \A j \in k .. top : At(j) \subseteq At(top)
  <2> SUFFICES ASSUME NEW j \in k .. top PROVE At(j) \subseteq At(top)
    OBVIOUS
  <2>1. j \in 0 .. MAX_ORDER + 1 /\ top \in j .. MAX_ORDER + 1 /\ top \in 0 .. MAX_ORDER + 1
    BY <1>1
  <2>2. /\ Aligned(Floor(idx, j), j) /\ Floor(idx, j) <= idx /\ idx < Floor(idx, j) + BlockPages[j]
        /\ Aligned(Floor(idx, top), top) /\ Floor(idx, top) <= idx /\ idx < Floor(idx, top) + BlockPages[top]
    BY <2>1, FloorIs
  <2>3. idx \in At(j) /\ idx \in At(top)
    BY <2>1, <2>2, CoversIs
  <2> QED BY <2>1, <2>2, <2>3, Contained
<1>4. ASSUME x \in At(top), x \notin At(k) PROVE \E j \in k .. top - 1 : x \in Extent(Partner(idx, j), j)
  <2> DEFINE T == {j \in k .. top : x \in At(j)}
  <2>1. T \in SUBSET Nat /\ top \in T
    BY <1>1, <1>4
  <2>2. PICK m \in T : \A y \in T : m <= y
    <3> HIDE DEF T
    <3> QED BY <2>1, LeastOf
  <2>3. m \in k + 1 .. top /\ m - 1 \in k .. top - 1 /\ (m - 1) + 1 = m /\ ~ (m <= m - 1)
    BY <1>1, <1>4, <2>2
  <2>4. x \in At(m) /\ x \notin At(m - 1)
    BY <1>1, <2>2, <2>3
  <2>5. At(m) = At(m - 1) \cup Extent(Partner(idx, m - 1), m - 1)
    BY <1>2, <2>3
  <2> QED BY <2>3, <2>4, <2>5
<1>5. ASSUME NEW j \in k .. top - 1, x \in Extent(Partner(idx, j), j) PROVE x \in At(top)
  <2>1. j + 1 \in k .. top
    BY <1>1
  <2>2. x \in At(j + 1)
    BY <1>2, <1>5
  <2> QED BY <1>3, <2>1, <2>2
<1>6. x \in At(k) => x \in At(top)
  BY <1>1, <1>3
<1> QED BY <1>4, <1>5, <1>6

\* __page_free_zone() sees the buddy of order j as one to merge with.
Sees(z, idx, j, flag, o) ==
    Partner(idx, j) \in ZonePages(z) /\ Partner(idx, j) \in flag /\ o[Partner(idx, j)] = j

\* The rounds from order k on merge until the one of order top does not.
Stops(z, idx, k, top, flag, o) ==
    /\ \A j \in k .. top - 1 : Sees(z, idx, j, flag, o)
    /\ top < MAX_ORDER => ~ Sees(z, idx, top, flag, o)

Gone(idx, k, top) == {<<Partner(idx, j), j>> : j \in k .. top - 1}

AfterMerge(F, idx, k, top) == (F \ Gone(idx, k, top)) \cup {<<Floor(idx, top), top>>}

\* All buddies on the way head free blocks, and the new block covers what the
\* blocks it replaces did.
LEMMA MergeReplaces ==
    ASSUME NEW F, NEW B, NEW flag, NEW o, Sound(F, B), Truthful(F, B, flag, o),
           NEW idx, NEW k, <<idx, k>> \in B, NEW z \in ZoneIds, NEW top \in k .. MAX_ORDER,
           Stops(z, idx, k, top, flag, o)
    PROVE  /\ idx \in Nat /\ k \in Orders /\ Floor(idx, k) = idx /\ Aligned(idx, k)
           /\ Gone(idx, k, top) \subseteq F
           /\ \A x : x \in Extent(Floor(idx, top), top)
                      <=> \E b \in Gone(idx, k, top) \cup {<<idx, k>>} : x \in Covers(b)
<1> DEFINE c == <<idx, k>>
<1>1. c \in F \cup B /\ c[1] = idx /\ c[2] = k
  OBVIOUS
<1>2. k \in Orders /\ k \in 0 .. MAX_ORDER + 1 /\ Aligned(idx, k) /\ idx \in Nat
      /\ idx \in Covers(c) /\ Covers(c) = Extent(idx, k)
  <2>1. /\ c[2] \in Orders /\ c[2] \in 0 .. MAX_ORDER + 1
        /\ Aligned(c[1], c[2]) /\ c[1] \in Nat /\ c[1] \in Covers(c)
        /\ Covers(c) = Extent(c[1], c[2])
    <3> HIDE DEF c
    <3> QED BY <1>1, BlockFacts
  <2> QED BY <1>1, <2>1
<1>3. MAX_ORDER \in Nat /\ k \in Nat
  BY <1>2, PageAssumption
<1>4. Floor(idx, k) = idx
  <2>1. idx <= idx /\ idx < idx + BlockPages[k]
    BY <1>2, CoversIs
  <2> QED BY <1>2, <2>1, FloorUnique
<1>5. ASSUME NEW j \in k .. top - 1 PROVE <<Partner(idx, j), j>> \in F
  <2>1. j \in Orders /\ j \in 0 .. MAX_ORDER + 1 /\ k <= j
    BY <1>3 DEF Orders
  <2>2. Partner(idx, j) \in flag /\ o[Partner(idx, j)] = j
    BY DEF Stops, Sees
  <2> DEFINE f == Floor(idx, j)
  <2>3. Aligned(f, j) /\ f <= idx /\ idx < f + BlockPages[j]
    BY <1>2, <2>1, FloorIs
  <2>4. idx \in Extent(f, j)
    <3> HIDE DEF f
    <3> QED BY <1>2, <2>1, <2>3, CoversIs
  <2>5. Buddy(f, j) \in flag /\ o[Buddy(f, j)] = j
    BY <2>2 DEF Partner
  <2> HIDE DEF f, c
  <2>6. <<Buddy(f, j), j>> \in F
    BY <1>1, <2>1, <2>3, <2>4, <2>5, BuddyFree
  <2> QED BY <2>6 DEF f, Partner
<1>6. Gone(idx, k, top) \subseteq F
  BY <1>5 DEF Gone
<1>7. ASSUME NEW x
      PROVE  x \in Extent(Floor(idx, top), top)
               <=> \E b \in Gone(idx, k, top) \cup {<<idx, k>>} : x \in Covers(b)
  <2>1. x \in Extent(Floor(idx, top), top)
          <=> x \in Extent(idx, k) \/ \E j \in k .. top - 1 : x \in Extent(Partner(idx, j), j)
    BY <1>2, <1>4, MergeExtent
  <2>2. ASSUME NEW j PROVE Covers(<<Partner(idx, j), j>>) = Extent(Partner(idx, j), j)
    BY DEF Covers
  <2> HIDE DEF c
  <2>3. (\E b \in Gone(idx, k, top) : x \in Covers(b))
          <=> \E j \in k .. top - 1 : x \in Extent(Partner(idx, j), j)
    BY <2>2 DEF Gone
  <2> QED BY <1>2, <2>1, <2>3 DEF c
<1> QED BY <1>2, <1>4, <1>6, <1>7

\* Freeing keeps blocks apart and pages theirs.
LEMMA MergeSound ==
    ASSUME NEW F, NEW B, NEW flag, NEW o, Sound(F, B), Truthful(F, B, flag, o),
           NEW idx, NEW k, <<idx, k>> \in B, NEW z \in ZoneIds, idx \in ZonePages(z),
           NEW top \in k .. MAX_ORDER, Stops(z, idx, k, top, flag, o)
    PROVE  /\ Sound(AfterMerge(F, idx, k, top), B \ {<<idx, k>>})
           /\ Union(AfterMerge(F, idx, k, top), B \ {<<idx, k>>}) = Union(F, B)
           /\ Extent(Floor(idx, top), top) \subseteq ZonePages(z)
<1> DEFINE c == <<idx, k>>
           G == Gone(idx, k, top)
           h == <<Floor(idx, top), top>>
           Old == G \cup {c}
           F1 == (F \ G) \cup {h}
           B1 == B \ {c}
<1>1. /\ idx \in Nat /\ k \in Orders /\ Aligned(idx, k) /\ G \subseteq F
      /\ \A x : x \in Extent(Floor(idx, top), top) <=> \E b \in Old : x \in Covers(b)
  BY MergeReplaces
<1>2. MAX_ORDER \in Nat /\ top \in Orders /\ top \in 0 .. MAX_ORDER + 1 /\ k \in 0 .. MAX_ORDER + 1
  BY <1>1, PageAssumption DEF Orders
<1>3. Covers(h) = Extent(Floor(idx, top), top) /\ h = <<h[1], h[2]>> /\ h[1] = Floor(idx, top) /\ h[2] = top
  BY DEF Covers
<1>4. Covers(c) = Extent(idx, k) /\ idx \in Covers(c)
  BY <1>1, <1>2, CoversIs DEF Covers
<1>5. \A g \in G : \E j \in k .. top - 1 : g = <<Partner(idx, j), j>>
  BY DEF Gone
<1>6. Aligned(Floor(idx, top), top)
  BY <1>1, <1>2, FloorIs
<1>7. ASSUME NEW b \in Old PROVE Covers(b) \subseteq ZonePages(z)
  <2>1. PICK y \in ZonePages(z) : y \in Covers(b)
    <3>1. CASE b = c
      BY <1>4, <3>1
    <3>2. CASE b \in G
      <4>1. PICK j \in k .. top - 1 : b = <<Partner(idx, j), j>>
        BY <1>5, <3>2
      <4>2. b \in F \cup B /\ b[1] = Partner(idx, j)
        BY <1>1, <3>2, <4>1
      <4>3. b[1] \in Covers(b)
        <5> HIDE DEF G
        <5> QED BY <4>2, BlockFacts
      <4>4. Partner(idx, j) \in ZonePages(z)
        BY DEF Stops, Sees
      <4> QED BY <4>2, <4>3, <4>4
    <3> QED BY <3>1, <3>2
  <2>2. b \in F \cup B
    BY <1>1
  <2> HIDE DEF Old
  <2>3. PICK w \in ZoneIds : Covers(b) \subseteq ZonePages(w)
    BY <2>2, BlockFacts
  <2>4. y \in ZonePages(w)
    BY <2>1, <2>3
  <2>5. z = w
    BY <2>4, ZonesApart
  <2> QED BY <2>3, <2>5
<1>8. Covers(h) \subseteq ZonePages(z)
  BY <1>1, <1>3, <1>7
<1>9. h \notin B1
  <2>1. SUFFICES ASSUME h \in B1 PROVE FALSE
    OBVIOUS
  <2>2. idx \in Covers(h)
    BY <1>1, <1>3, <1>4
  <2>3. h \in F \cup B /\ c \in F \cup B /\ h # c
    BY <2>1
  <2> HIDE DEF h, c
  <2> QED BY <1>4, <2>2, <2>3, SameBlock
<1>10. F \cap B = {}
  BY DEF Sound
<1> HIDE DEF G, h, c
<1>11. F1 \cap B1 = {}
  BY <1>9, <1>10
<1>12. F1 \cup B1 = ((F \cup B) \ Old) \cup {h} /\ Old \subseteq F \cup B
  BY <1>1, <1>10 DEF c
<1>13. Fits(h)
  BY <1>2, <1>3, <1>6, <1>8 DEF Fits
<1>14. \A x : (\E b \in {h} : x \in Covers(b)) <=> (\E b \in Old : x \in Covers(b))
  BY <1>1, <1>3
<1> HIDE DEF F1, B1, Old
<1>15. Sound(F1, B1) /\ Union(F1, B1) = Union(F, B)
  <2>1. \A b \in {h} : Fits(b)
    BY <1>13
  <2>2. \A b, d \in {h} : b # d => Covers(b) \cap Covers(d) = {}
    OBVIOUS
  <2>3. Exchanged(F \cup B, Old, {h}, F1, B1)
    BY <1>11, <1>12, <1>14, <2>1, <2>2 DEF Exchanged
  <2> QED BY <2>3, Exchange
<1> QED BY <1>3, <1>8, <1>15 DEF F1, B1, G, h, c, AfterMerge

SamePages(F, B, F1, B1) == Union(F1, B1) = Union(F, B)

\* The part of it about pages, by name.
LEMMA MergePages ==
    ASSUME NEW F, NEW B, NEW flag, NEW o, Sound(F, B), Truthful(F, B, flag, o),
           NEW idx, NEW k, <<idx, k>> \in B, NEW z \in ZoneIds, idx \in ZonePages(z),
           NEW top \in k .. MAX_ORDER, Stops(z, idx, k, top, flag, o)
    PROVE  SamePages(F, B, AfterMerge(F, idx, k, top), B \ {<<idx, k>>})
BY MergeSound DEF SamePages

\* Freeing keeps the flags right.
LEMMA MergeTruthful ==
    ASSUME NEW F, NEW B, NEW flag, NEW o, Sound(F, B), Truthful(F, B, flag, o),
           NEW idx, NEW k, <<idx, k>> \in B, NEW z \in ZoneIds, idx \in ZonePages(z),
           NEW top \in k .. MAX_ORDER, Stops(z, idx, k, top, flag, o), NEW u,
           u[Floor(idx, top)] = top, \A p \in flag : p # Floor(idx, top) => u[p] = o[p]
    PROVE  Truthful(AfterMerge(F, idx, k, top), B \ {<<idx, k>>}, flag \cup {Floor(idx, top)}, u)
<1> DEFINE c == <<idx, k>>
           e == Floor(idx, top)
           h == <<e, top>>
           F1 == AfterMerge(F, idx, k, top)
           B1 == B \ {c}
<1>1. Sound(F1, B1) /\ Union(F1, B1) = Union(F, B)
  BY MergeSound
<1>2. h \in F1 /\ h[1] = e /\ h[2] = top /\ \A b \in F1 : b = h \/ b \in F
  BY DEF AfterMerge
<1>3. idx \in Nat /\ k \in Orders
  BY MergeReplaces
<1>4. MAX_ORDER \in Nat /\ top \in Orders /\ top \in 0 .. MAX_ORDER + 1
  BY <1>3, PageAssumption DEF Orders
<1>5. Aligned(e, top)
  BY <1>3, <1>4, FloorIs
<1> HIDE DEF e, h, F1, B1
<1>6. e \in Covers(h)
  BY <1>1, <1>2, BlockFacts
<1>7. ASSUME NEW b \in F1 \cup B1, b # h PROVE b[1] # e
  <2>1. b[1] \in Covers(b)
    BY <1>1, BlockFacts
  <2>2. b[1] # e \/ b = h
    BY <1>1, <1>2, <1>6, <2>1, SameBlock
  <2> QED BY <1>7, <2>2
<1>8. ASSUME NEW b \in F1 PROVE b[1] \in flag \cup {e} /\ u[b[1]] = b[2]
  <2>1. CASE b = h
    BY <1>2, <2>1 DEF e
  <2>2. CASE b # h
    <3>1. b \in F /\ b[1] # e
      BY <1>2, <1>7, <2>2
    <3>2. b[1] \in flag /\ o[b[1]] = b[2]
      BY <3>1 DEF Truthful
    <3> QED BY <3>1, <3>2 DEF e
  <2> QED BY <2>1, <2>2
<1>9. ASSUME NEW p \in flag \cup {e}
      PROVE  u[p] \in Orders /\ Aligned(p, u[p]) /\ p \in Union(F1, B1) /\ \A b \in B1 : b[1] # p
  <2>1. CASE p = e
    <3>1. h \notin B1
      BY <1>1, <1>2 DEF Sound
    <3>2. e \in Union(F1, B1)
      BY <1>2, <1>6 DEF Union
    <3>3. u[e] = top
      BY DEF e
    <3> QED BY <1>4, <1>5, <1>7, <2>1, <3>1, <3>2, <3>3
  <2>2. CASE p # e
    <3>1. p \in flag /\ u[p] = o[p]
      BY <2>2 DEF e
    <3>2. o[p] \in Orders /\ Aligned(p, o[p]) /\ p \in Union(F, B) /\ \A b \in B : b[1] # p
      BY <3>1 DEF Truthful
    <3> QED BY <1>1, <3>1, <3>2 DEF B1
  <2> QED BY <2>1, <2>2
<1>10. Truthful(F1, B1, flag \cup {e}, u)
  BY <1>8, <1>9 DEF Truthful
<1> QED BY <1>10 DEF F1, B1, e, c

\* Freeing leaves no two free buddies.
LEMMA MergeMerged ==
    ASSUME NEW F, NEW B, NEW flag, NEW o, Sound(F, B), Truthful(F, B, flag, o), Merged(F),
           NEW idx, NEW k, <<idx, k>> \in B, NEW z \in ZoneIds, idx \in ZonePages(z),
           NEW top \in k .. MAX_ORDER, Stops(z, idx, k, top, flag, o)
    PROVE  Merged(AfterMerge(F, idx, k, top))
<1> DEFINE e == Floor(idx, top)
           h == <<e, top>>
           F1 == AfterMerge(F, idx, k, top)
<1>1. /\ h[1] = e /\ h[2] = top /\ \A b \in F1 : b = h \/ b \in F
  BY DEF AfterMerge
<1>2. idx \in Nat /\ k \in Orders
  BY MergeReplaces
<1>3. MAX_ORDER \in Nat /\ top \in Orders /\ top \in 0 .. MAX_ORDER + 1 /\ top \in Nat
  BY <1>2, PageAssumption DEF Orders
<1>4. Aligned(e, top)
  BY <1>2, <1>3, FloorIs
<1>5. Extent(e, top) \subseteq ZonePages(z)
  BY MergeSound
<1>6. top < MAX_ORDER =>
        ~ (Buddy(e, top) \in ZonePages(z) /\ Buddy(e, top) \in flag /\ o[Buddy(e, top)] = top)
  BY DEF Stops, Sees, Partner
<1> HIDE DEF e, h, F1
<1>7. ASSUME NEW b \in F, b[2] = top, top < MAX_ORDER, NEW m, NEW q, Halves(m, q, top),
             (b[1] = m /\ e = q) \/ (b[1] = q /\ e = m)
      PROVE  FALSE
  <2>1. /\ Buddy(m, top) = q /\ Buddy(q, top) = m /\ m \in Nat /\ q \in Nat
        /\ Aligned(m, top) /\ Aligned(q, top) /\ q = m + BlockPages[top]
    BY <1>3, <1>7, HalvesAre DEF Halves
  <2>2. b[1] \in flag /\ o[b[1]] = top /\ b[1] = Buddy(e, top)
    BY <1>7, <2>1 DEF Truthful
  <2>3. PICK y \in ZoneIds : Covers(b) \subseteq ZonePages(y)
    BY BlockFacts
  <2>4. Covers(b) = Extent(b[1], top)
    BY <1>7 DEF Covers
  <2>5. /\ BlockPages[top] \in Nat /\ BlockPages[top] > 0
        /\ \A x : x \in Extent(m, top) <=> x \in Int /\ m <= x /\ x < m + BlockPages[top]
        /\ \A x : x \in Extent(q, top) <=> x \in Int /\ q <= x /\ x < q + BlockPages[top]
    BY <1>3, <2>1, CoversIs
  <2>6. q - 1 \in Extent(m, top) /\ q \in Extent(q, top) /\ m \in Extent(m, top) /\ q = (q - 1) + 1
    BY <2>1, <2>5
  <2>7. CASE b[1] = m /\ e = q
    <3>1. q - 1 \in ZonePages(y) /\ q \in ZonePages(z) /\ m \in ZonePages(y)
      BY <1>5, <2>3, <2>4, <2>6, <2>7
    <3>2. y = z
      BY <2>6, <3>1, ZonesApart
    <3> QED BY <1>6, <1>7, <2>2, <2>7, <3>1, <3>2
  <2>8. CASE b[1] = q /\ e = m
    <3>1. q - 1 \in ZonePages(z) /\ q \in ZonePages(y)
      BY <1>5, <2>3, <2>4, <2>6, <2>8
    <3>2. y = z
      BY <2>6, <3>1, ZonesApart
    <3> QED BY <1>6, <1>7, <2>2, <2>8, <3>1, <3>2
  <2> QED BY <1>7, <2>7, <2>8
<1>8. ASSUME NEW b \in F1, NEW c \in F1, b[2] = c[2], b[2] < MAX_ORDER, Halves(b[1], c[1], b[2])
      PROVE  FALSE
  <2>1. CASE b \in F /\ c \in F
    BY <1>8, <2>1 DEF Merged
  <2>2. CASE b = h /\ c \in F
    BY <1>1, <1>7, <1>8, <2>2
  <2>3. CASE b \in F /\ c = h
    BY <1>1, <1>7, <1>8, <2>3
  <2>4. CASE b = h /\ c = h
    <3>1. Halves(e, e, top)
      BY <1>1, <1>8, <2>4
    <3>2. e \in Nat /\ e = e + BlockPages[top] /\ BlockPages[top] \in Nat /\ BlockPages[top] > 0
      BY <1>3, <3>1, HalvesAre, Doubling DEF Halves
    <3> QED BY <3>2
  <2> QED BY <1>1, <2>1, <2>2, <2>3, <2>4
<1>9. Merged(F1)
  BY <1>8 DEF Merged
<1> QED BY <1>9 DEF F1

-----------------------------------------------------------------------------
(* Allocation *)

\* The buddies __page_alloc_zone() frees on the way from order `from` to k.
Upper(page, k, from) == {<<Buddy(page, j), j>> : j \in k .. from - 1}

AfterSplit(F, page, from, k) == (F \ {<<page, from>>}) \cup Upper(page, k, from)

\* Each of them is the upper half of what is left in its round.
LEMMA SplitRound ==
    ASSUME NEW from \in Orders, NEW page, Aligned(page, from), NEW k \in 0 .. from, NEW j \in k .. from
    PROVE  /\ j \in Orders /\ j \in 0 .. MAX_ORDER + 1 /\ page \in Nat /\ Aligned(page, j)
           /\ Floor(page, j) = page /\ page \in Extent(page, j)
           /\ j < from => Halves(page, Buddy(page, j), j)
<1>1. MAX_ORDER \in Nat /\ from \in Nat /\ j \in Orders /\ j \in 0 .. MAX_ORDER + 1
      /\ from \in j .. MAX_ORDER + 1
  BY PageAssumption DEF Orders
<1>2. Aligned(page, j) /\ page \in Nat
  BY <1>1, AlignedLower
<1>3. page \in Extent(page, j) /\ page <= page /\ page < page + BlockPages[j]
  BY <1>1, <1>2, CoversIs
<1>4. Floor(page, j) = page
  BY <1>1, <1>2, <1>3, FloorUnique
<1>5. ASSUME j < from PROVE Halves(page, Buddy(page, j), j)
  <2>1. j + 1 \in 0 .. MAX_ORDER + 1 /\ from \in j + 1 .. MAX_ORDER + 1
    BY <1>1, <1>5
  <2>2. Aligned(page, j + 1)
    BY <2>1, AlignedLower
  <2> DEFINE q == page + BlockPages[j]
  <2>3. Halves(page, q, j)
    BY <2>2 DEF Halves
  <2> HIDE DEF q
  <2>4. Buddy(page, j) = q
    BY <1>1, <2>3, HalvesAre
  <2> QED BY <2>3, <2>4
<1> QED BY <1>1, <1>2, <1>3, <1>4, <1>5

\* The pieces of a block that is split are apart and cover it.
LEMMA SplitPieces ==
    ASSUME NEW from \in Orders, NEW page, Aligned(page, from), NEW k \in 0 .. from
    PROVE  LET New == Upper(page, k, from) \cup {<<page, k>>}
           IN  /\ \A b, c \in New : b # c => Covers(b) \cap Covers(c) = {}
               /\ \A x : (\E b \in New : x \in Covers(b)) <=> x \in Extent(page, from)
<1> DEFINE New == Upper(page, k, from) \cup {<<page, k>>}
<1>1. MAX_ORDER \in Nat /\ from \in Nat /\ k \in Nat /\ k \in Orders /\ from \in k .. MAX_ORDER
      /\ k \in k .. from
  BY PageAssumption DEF Orders
<1>2. page \in Nat /\ Floor(page, k) = page /\ Floor(page, from) = page
  BY <1>1, SplitRound
<1>3. ASSUME NEW i \in k .. from - 1, NEW j \in i + 1 .. from - 1
      PROVE  Extent(Buddy(page, i), i) \cap Extent(Buddy(page, j), j) = {}
  <2>1. i \in k .. from /\ i < from /\ j \in k .. from /\ j < from /\ i \in Orders /\ j \in Orders
        /\ i + 1 \in 0 .. MAX_ORDER + 1 /\ j \in i + 1 .. MAX_ORDER + 1 /\ i + 1 \in k .. from
    BY <1>1 DEF Orders
  <2>2. Halves(page, Buddy(page, i), i) /\ Halves(page, Buddy(page, j), j)
    BY <2>1, SplitRound
  <2>3. Extent(page, i + 1) = Extent(page, i) \cup Extent(Buddy(page, i), i)
    BY <2>1, <2>2, HalvesUnion
  <2>4. Extent(page, j) \cap Extent(Buddy(page, j), j) = {}
    BY <2>1, <2>2, HalvesUnion
  <2>5. /\ Aligned(page, i + 1) /\ page \in Extent(page, i + 1)
        /\ Aligned(page, j) /\ page \in Extent(page, j)
    BY <2>1, SplitRound
  <2>6. Extent(page, i + 1) \subseteq Extent(page, j)
    BY <2>1, <2>5, Contained
  <2> QED BY <2>3, <2>4, <2>6
<1>4. ASSUME NEW j \in k .. from - 1
      PROVE  Extent(page, k) \cap Extent(Buddy(page, j), j) = {}
  <2>1. j \in k .. from /\ j < from /\ j \in Orders /\ k \in 0 .. MAX_ORDER + 1 /\ j \in k .. MAX_ORDER + 1
    BY <1>1 DEF Orders
  <2>2. Halves(page, Buddy(page, j), j)
    BY <2>1, SplitRound
  <2>3. Extent(page, j) \cap Extent(Buddy(page, j), j) = {}
    BY <2>1, <2>2, HalvesUnion
  <2>4. /\ Aligned(page, k) /\ page \in Extent(page, k)
        /\ Aligned(page, j) /\ page \in Extent(page, j)
    BY <1>1, <2>1, SplitRound
  <2>5. Extent(page, k) \subseteq Extent(page, j)
    BY <2>1, <2>4, Contained
  <2> QED BY <2>3, <2>5
<1>5. ASSUME NEW p, NEW j PROVE Covers(<<p, j>>) = Extent(p, j)
  BY DEF Covers
<1>6. \A b \in New : b = <<page, k>> \/ \E j \in k .. from - 1 : b = <<Buddy(page, j), j>>
  BY DEF Upper
<1>7. <<page, k>> \in New /\ \A j \in k .. from - 1 : <<Buddy(page, j), j>> \in New
  BY DEF Upper
<1> HIDE DEF New
<1>8. ASSUME NEW b \in New, NEW c \in New, b # c PROVE Covers(b) \cap Covers(c) = {}
  <2>1. CASE b = <<page, k>> /\ c = <<page, k>>
    BY <1>8, <2>1
  <2>2. CASE b = <<page, k>> /\ \E j \in k .. from - 1 : c = <<Buddy(page, j), j>>
    <3>1. PICK j \in k .. from - 1 : c = <<Buddy(page, j), j>>
      BY <2>2
    <3> QED BY <1>4, <1>5, <2>2, <3>1
  <2>3. CASE c = <<page, k>> /\ \E j \in k .. from - 1 : b = <<Buddy(page, j), j>>
    <3>1. PICK j \in k .. from - 1 : b = <<Buddy(page, j), j>>
      BY <2>3
    <3> QED BY <1>4, <1>5, <2>3, <3>1
  <2>4. CASE (\E j \in k .. from - 1 : b = <<Buddy(page, j), j>>)
               /\ \E j \in k .. from - 1 : c = <<Buddy(page, j), j>>
    <3>1. PICK i \in k .. from - 1 : b = <<Buddy(page, i), i>>
      BY <2>4
    <3>2. PICK j \in k .. from - 1 : c = <<Buddy(page, j), j>>
      BY <2>4
    <3>3. i # j
      BY <1>8, <3>1, <3>2
    <3>4. j \in i + 1 .. from - 1 \/ i \in j + 1 .. from - 1
      BY <1>1, <3>3
    <3>5. Extent(Buddy(page, i), i) \cap Extent(Buddy(page, j), j) = {}
      BY <1>3, <3>4
    <3> QED BY <1>5, <3>1, <3>2, <3>5
  <2> QED BY <1>6, <2>1, <2>2, <2>3, <2>4
<1>9. ASSUME NEW x PROVE (\E b \in New : x \in Covers(b)) <=> x \in Extent(page, from)
  <2>1. x \in Extent(page, from)
          <=> x \in Extent(page, k) \/ \E j \in k .. from - 1 : x \in Extent(Partner(page, j), j)
    BY <1>1, <1>2, MergeExtent
  <2>2. \A j \in k .. from - 1 : Partner(page, j) = Buddy(page, j)
    <3> SUFFICES ASSUME NEW j \in k .. from - 1 PROVE Partner(page, j) = Buddy(page, j)
      OBVIOUS
    <3>1. j \in k .. from
      BY <1>1
    <3>2. Floor(page, j) = page
      BY <3>1, SplitRound
    <3> QED BY <3>2 DEF Partner
  <2>3. x \in Extent(page, from)
          <=> x \in Extent(page, k) \/ \E j \in k .. from - 1 : x \in Extent(Buddy(page, j), j)
    BY <2>1, <2>2
  <2>4. (\E b \in New : x \in Covers(b))
          <=> x \in Extent(page, k) \/ \E j \in k .. from - 1 : x \in Extent(Buddy(page, j), j)
    <3>1. Covers(<<page, k>>) = Extent(page, k)
      BY <1>5
    <3>2. \A j \in k .. from - 1 : Covers(<<Buddy(page, j), j>>) = Extent(Buddy(page, j), j)
      BY <1>5
    <3>3. ASSUME NEW b \in New, x \in Covers(b)
          PROVE  x \in Extent(page, k) \/ \E j \in k .. from - 1 : x \in Extent(Buddy(page, j), j)
      BY <1>6, <3>1, <3>2, <3>3
    <3>4. x \in Extent(page, k) => \E b \in New : x \in Covers(b)
      BY <1>7, <3>1
    <3>5. ASSUME NEW j \in k .. from - 1, x \in Extent(Buddy(page, j), j)
          PROVE  \E b \in New : x \in Covers(b)
      BY <1>7, <3>2, <3>5
    <3> QED BY <3>3, <3>4, <3>5
  <2> QED BY <2>3, <2>4
<1> QED BY <1>8, <1>9 DEF New

\* Allocation keeps blocks apart and pages theirs.
LEMMA SplitSound ==
    ASSUME NEW F, NEW B, Sound(F, B), NEW page, NEW from, <<page, from>> \in F, NEW k \in 0 .. from
    PROVE  /\ from \in Orders /\ Aligned(page, from)
           /\ Sound(AfterSplit(F, page, from, k), B \cup {<<page, k>>})
           /\ Union(AfterSplit(F, page, from, k), B \cup {<<page, k>>}) = Union(F, B)
<1> DEFINE c == <<page, from>>
           h == <<page, k>>
           U == Upper(page, k, from)
           New == U \cup {h}
           F1 == (F \ {c}) \cup U
           B1 == B \cup {h}
<1>1. c[1] = page /\ c[2] = from /\ h[1] = page /\ h[2] = k /\ h = <<h[1], h[2]>>
  OBVIOUS
<1>2. from \in Orders /\ Aligned(page, from) /\ Covers(c) = Extent(page, from)
      /\ \E z \in ZoneIds : Covers(c) \subseteq ZonePages(z)
  <2>1. c \in F \cup B
    OBVIOUS
  <2>2. /\ c[2] \in Orders /\ Aligned(c[1], c[2]) /\ Covers(c) = Extent(c[1], c[2])
        /\ \E z \in ZoneIds : Covers(c) \subseteq ZonePages(z)
    <3> HIDE DEF c
    <3> QED BY <2>1, BlockFacts
  <2> QED BY <1>1, <2>2
<1>3. MAX_ORDER \in Nat /\ from \in Nat /\ k \in Nat /\ k \in Orders /\ k \in k .. from
  BY <1>2, PageAssumption DEF Orders
<1>4. /\ \A b, d \in New : b # d => Covers(b) \cap Covers(d) = {}
      /\ \A x : (\E b \in New : x \in Covers(b)) <=> x \in Extent(page, from)
  BY <1>2, SplitPieces
<1>5. \A b \in U : \E j \in k .. from - 1 : b = <<Buddy(page, j), j>>
  BY DEF Upper
<1>6. Aligned(page, k) /\ page \in Extent(page, k) /\ page \in Nat
  BY <1>2, <1>3, SplitRound
<1>7. ASSUME NEW b \in New PROVE b = <<b[1], b[2]>> /\ b[2] \in Orders /\ Aligned(b[1], b[2])
  <2>1. CASE b = h
    BY <1>1, <1>3, <1>6, <2>1
  <2>2. CASE b \in U
    <3>1. PICK j \in k .. from - 1 : b = <<Buddy(page, j), j>>
      BY <1>5, <2>2
    <3>2. j \in k .. from /\ j < from /\ j \in Orders
      BY <1>2, <1>3 DEF Orders
    <3>3. Halves(page, Buddy(page, j), j)
      BY <1>2, <3>2, SplitRound
    <3>4. Aligned(Buddy(page, j), j)
      BY <3>2, <3>3, HalvesAre
    <3> QED BY <3>1, <3>2, <3>4
  <2> QED BY <2>1, <2>2
<1>8. \A b \in New : Fits(b)
  <2> SUFFICES ASSUME NEW b \in New PROVE Fits(b)
    OBVIOUS
  <2>1. Covers(b) \subseteq Covers(c)
    <3> HIDE DEF New, c
    <3> QED BY <1>2, <1>4
  <2> QED BY <1>2, <1>7, <2>1 DEF Fits
<1>9. ASSUME NEW b \in U PROVE b # h /\ b \notin B
  <2>1. PICK j \in k .. from - 1 : b = <<Buddy(page, j), j>>
    BY <1>5
  <2>2. j \in k .. from /\ j < from /\ j \in Orders /\ j \in Nat
    BY <1>2, <1>3 DEF Orders
  <2>3. Halves(page, Buddy(page, j), j)
    BY <1>2, <2>2, SplitRound
  <2>4. Buddy(page, j) = page + BlockPages[j] /\ BlockPages[j] \in Nat /\ BlockPages[j] > 0
    BY <1>3, <2>2, <2>3, Doubling DEF Halves, Orders
  <2>5. b[1] # page /\ b[1] = Buddy(page, j) /\ b[2] = j
    BY <1>6, <2>1, <2>4
  <2>6. b # h
    BY <1>1, <2>5
  <2>7. ASSUME b \in B PROVE FALSE
    <3>1. b \in F \cup B /\ c \in F \cup B
      BY <2>7
    <3>2. b[1] \in Covers(b)
      <4> HIDE DEF U, c
      <4> QED BY <3>1, BlockFacts
    <3>3. b[1] \in Covers(c)
      <4>1. b \in New
        OBVIOUS
      <4> HIDE DEF New, U, c
      <4> QED BY <1>2, <1>4, <3>2, <4>1
    <3>4. b = c
      <4> HIDE DEF U, c
      <4> QED BY <3>1, <3>2, <3>3, SameBlock
    <3> QED BY <1>1, <2>5, <3>4
  <2> QED BY <2>6, <2>7
<1>10. h \notin F \ {c} /\ (h \in B => FALSE)
  <2>1. page \in Covers(c) /\ page \in Covers(h)
    <3>1. Covers(h) = Extent(page, k)
      BY <1>1 DEF Covers
    <3>2. page \in Extent(page, from)
      <4>1. h \in New
        OBVIOUS
      <4> HIDE DEF New, h
      <4> QED BY <1>4, <1>6, <3>1, <4>1
    <3> QED BY <1>2, <1>6, <3>1, <3>2
  <2>2. c \in F \cup B /\ c \in F /\ c \notin B
    BY DEF Sound
  <2> HIDE DEF c, h
  <2>3. h \in F \cup B => h = c
    BY <2>1, <2>2, SameBlock
  <2> QED BY <2>2, <2>3
<1>11. F \cap B = {} /\ c \in F
  BY DEF Sound
<1> HIDE DEF c, h, U
<1>12. F1 \cap B1 = {} /\ F1 \cup B1 = ((F \cup B) \ {c}) \cup New /\ {c} \subseteq F \cup B
  BY <1>9, <1>10, <1>11
<1>13. \A x : (\E b \in New : x \in Covers(b)) <=> (\E b \in {c} : x \in Covers(b))
  BY <1>2, <1>4
<1>14. Exchanged(F \cup B, {c}, New, F1, B1)
  <2> HIDE DEF F1, B1, New
  <2> QED BY <1>4, <1>8, <1>12, <1>13 DEF Exchanged
<1> HIDE DEF F1, B1, New
<1>15. Sound(F1, B1) /\ Union(F1, B1) = Union(F, B)
  BY <1>14, Exchange
<1> QED BY <1>2, <1>15 DEF F1, B1, U, h, c, AfterSplit

\* Allocation keeps the flags right: those of the buddies are set, that of the
\* block is cleared.
LEMMA SplitTruthful ==
    ASSUME NEW F, NEW B, NEW flag, NEW o, Sound(F, B), Truthful(F, B, flag, o),
           NEW page, NEW from, <<page, from>> \in F, NEW k \in 0 .. from, NEW u,
           \A j \in k .. from - 1 : u[Buddy(page, j)] = j,
           \A p \in flag : (\A j \in k .. from - 1 : p # Buddy(page, j)) => u[p] = o[p]
    PROVE  Truthful(AfterSplit(F, page, from, k), B \cup {<<page, k>>},
                    (flag \ {page}) \cup {Buddy(page, j) : j \in k .. from - 1}, u)
<1> DEFINE c == <<page, from>>
           h == <<page, k>>
           F1 == AfterSplit(F, page, from, k)
           B1 == B \cup {h}
           Heads == {Buddy(page, j) : j \in k .. from - 1}
<1>1. Sound(F1, B1) /\ Union(F1, B1) = Union(F, B) /\ from \in Orders /\ Aligned(page, from)
  <2>1. Sound(AfterSplit(F, page, from, k), B \cup {<<page, k>>})
    BY SplitSound
  <2>2. Union(AfterSplit(F, page, from, k), B \cup {<<page, k>>}) = Union(F, B)
    BY SplitSound
  <2>3. from \in Orders /\ Aligned(page, from)
    BY SplitSound
  <2> QED BY <2>1, <2>2, <2>3
<1>2. MAX_ORDER \in Nat /\ from \in Nat /\ k \in Nat
  BY <1>1, PageAssumption DEF Orders
<1>3. /\ \A j \in k .. from - 1 : <<Buddy(page, j), j>> \in F1
      /\ \A b \in F1 : (b \in F /\ b # c) \/ \E j \in k .. from - 1 : b = <<Buddy(page, j), j>>
  BY DEF AfterSplit, Upper
<1>4. h \in B1 /\ h[1] = page /\ B \subseteq B1 /\ c[1] = page /\ c \in F \cup B
  OBVIOUS
<1> HIDE DEF F1, c, h
<1>5. ASSUME NEW b \in F1 \cup B1, NEW d \in F1 \cup B1, b[1] = d[1] PROVE b = d
  <2>1. b[1] \in Covers(b) /\ d[1] \in Covers(d)
    BY <1>1, BlockFacts
  <2> QED BY <1>1, <1>5, <2>1, SameBlock
<1>6. F1 \cap B1 = {}
  BY <1>1 DEF Sound
<1>7. ASSUME NEW j \in k .. from - 1
      PROVE  /\ Aligned(Buddy(page, j), j) /\ j \in Orders
             /\ Buddy(page, j) \in Union(F1, B1)
             /\ \A b \in B1 : b[1] # Buddy(page, j)
  <2>1. j \in k .. from /\ j < from /\ j \in Orders
    BY <1>1, <1>2 DEF Orders
  <2>2. Halves(page, Buddy(page, j), j)
    BY <1>1, <2>1, SplitRound
  <2>3. Aligned(Buddy(page, j), j)
    BY <2>1, <2>2, HalvesAre
  <2> DEFINE n == <<Buddy(page, j), j>>
  <2>4. n \in F1 /\ n[1] = Buddy(page, j)
    BY <1>3
  <2> HIDE DEF n
  <2>5. n[1] \in Covers(n)
    BY <1>1, <2>4, BlockFacts
  <2>6. n[1] \in Union(F1, B1)
    BY <2>4, <2>5 DEF Union
  <2>7. \A b \in B1 : b[1] # n[1]
    BY <1>5, <1>6, <2>4
  <2> QED BY <2>1, <2>3, <2>4, <2>6, <2>7
<1>8. ASSUME NEW b \in F1 PROVE b[1] \in (flag \ {page}) \cup Heads /\ u[b[1]] = b[2]
  <2>1. CASE \E j \in k .. from - 1 : b = <<Buddy(page, j), j>>
    BY <2>1
  <2>2. CASE ~ \E j \in k .. from - 1 : b = <<Buddy(page, j), j>>
    <3>1. b \in F
      BY <1>3, <2>2
    <3>2. b[1] # page
      BY <1>4, <1>5, <1>6
    <3>3. b[1] \in flag /\ o[b[1]] = b[2]
      BY <3>1 DEF Truthful
    <3>4. ASSUME NEW j \in k .. from - 1 PROVE b[1] # Buddy(page, j)
      <4> DEFINE n == <<Buddy(page, j), j>>
      <4>1. n \in F1 /\ n[1] = Buddy(page, j) /\ b # n
        BY <1>3, <2>2
      <4> HIDE DEF n
      <4> QED BY <1>5, <4>1
    <3> QED BY <3>2, <3>3, <3>4
  <2> QED BY <2>1, <2>2
<1>9. ASSUME NEW p \in (flag \ {page}) \cup Heads
      PROVE  u[p] \in Orders /\ Aligned(p, u[p]) /\ p \in Union(F1, B1) /\ \A b \in B1 : b[1] # p
  <2>1. CASE p \in Heads
    <3>1. PICK j \in k .. from - 1 : p = Buddy(page, j)
      BY <2>1
    <3>2. u[p] = j
      BY <3>1
    <3> QED BY <1>7, <3>1, <3>2
  <2>2. CASE p \notin Heads
    <3>1. p \in flag /\ p # page /\ u[p] = o[p]
      BY <2>2
    <3>2. o[p] \in Orders /\ Aligned(p, o[p]) /\ p \in Union(F, B) /\ \A b \in B : b[1] # p
      BY <3>1 DEF Truthful
    <3> QED BY <1>1, <1>4, <3>1, <3>2
  <2> QED BY <2>1, <2>2
<1>10. Truthful(F1, B1, (flag \ {page}) \cup Heads, u)
  <2> HIDE DEF B1, Heads
  <2> QED BY <1>8, <1>9 DEF Truthful
<1> QED BY <1>10 DEF F1, h

\* Allocation leaves no two free buddies: what is freed on the way are upper
\* halves, and the lower ones hold the block.
LEMMA SplitMerged ==
    ASSUME NEW F, NEW B, Sound(F, B), Merged(F), NEW page, NEW from, <<page, from>> \in F,
           NEW k \in 0 .. from
    PROVE  Merged(AfterSplit(F, page, from, k))
<1> DEFINE h == <<page, k>>
           F1 == AfterSplit(F, page, from, k)
           B1 == B \cup {h}
<1>1. Sound(F1, B1) /\ from \in Orders /\ Aligned(page, from)
  BY SplitSound
<1>2. MAX_ORDER \in Nat /\ from \in Nat /\ k \in Nat
  BY <1>1, PageAssumption DEF Orders
<1>3. \A b \in F1 : b \in F \/ \E j \in k .. from - 1 : b = <<Buddy(page, j), j>>
  BY DEF AfterSplit, Upper
<1>4. h \in B1 /\ h[1] = page
  OBVIOUS
<1> HIDE DEF F1, h, B1
<1>5. ASSUME NEW b \in F1, b[1] = page PROVE FALSE
  <2>1. page \in Covers(b) /\ page \in Covers(h)
    BY <1>1, <1>4, <1>5, BlockFacts
  <2>2. b = h
    BY <1>1, <1>4, <2>1, SameBlock
  <2> QED BY <1>1, <1>4, <2>2 DEF Sound
<1>6. ASSUME NEW j \in k .. from - 1 PROVE j \in Orders /\ Halves(page, Buddy(page, j), j)
  <2>1. j \in k .. from /\ j < from /\ j \in Orders
    BY <1>1, <1>2 DEF Orders
  <2> QED BY <1>1, <2>1, SplitRound
<1>7. ASSUME NEW b \in F1, NEW c \in F1, b[2] = c[2], b[2] < MAX_ORDER, Halves(b[1], c[1], b[2])
      PROVE  FALSE
  <2>1. CASE b \in F /\ c \in F
    BY <1>7, <2>1 DEF Merged
  <2>2. CASE \E j \in k .. from - 1 : c = <<Buddy(page, j), j>>
    <3>1. PICK j \in k .. from - 1 : c = <<Buddy(page, j), j>>
      BY <2>2
    <3>2. c[1] = Buddy(page, j) /\ c[2] = j
      BY <3>1
    <3>3. Buddy(c[1], j) = page
      BY <1>6, <3>2, HalvesAre
    <3>4. Buddy(c[1], j) = b[1]
      BY <1>6, <1>7, <3>2, HalvesAre
    <3> QED BY <1>5, <3>3, <3>4
  <2>3. CASE \E j \in k .. from - 1 : b = <<Buddy(page, j), j>>
    <3>1. PICK j \in k .. from - 1 : b = <<Buddy(page, j), j>>
      BY <2>3
    <3>2. b[1] = Buddy(page, j) /\ b[2] = j
      BY <3>1
    <3>3. Bit(b[1], j) = 1
      BY <1>6, <3>2, HalvesAre
    <3>4. Bit(b[1], j) = 0
      BY <1>6, <1>7, <3>2, HalvesAre
    <3> QED BY <3>3, <3>4
  <2> QED BY <1>3, <2>1, <2>2, <2>3
<1>8. Merged(F1)
  BY <1>7 DEF Merged
<1> QED BY <1>8 DEF F1

-----------------------------------------------------------------------------
(* Boot *)

\* None of the blocks F is the buddy of n.
Alone(F, n) ==
    \A b \in F : b[2] = n[2] /\ n[2] < MAX_ORDER
                   => ~ Halves(b[1], n[1], n[2]) /\ ~ Halves(n[1], b[1], n[2])

\* The order bits u are those of o but for the head of n.
Headed(flag, o, u, n) == u[n[1]] = n[2] /\ \A p \in flag : p # n[1] => u[p] = o[p]

\* A block of pages that are in none yet joins the free ones.
LEMMA BlockAdded ==
    ASSUME NEW F, NEW B, NEW flag, NEW o, Sound(F, B), Truthful(F, B, flag, o), Merged(F),
           NEW n, Fits(n), Covers(n) \cap Union(F, B) = {}, NEW u,
           Headed(flag, o, u, n), Alone(F, n)
    PROVE  /\ Sound(F \cup {n}, B)
           /\ Union(F \cup {n}, B) = Union(F, B) \cup Covers(n)
           /\ Truthful(F \cup {n}, B, flag \cup {n[1]}, u)
           /\ Merged(F \cup {n})
<1> USE DEF Headed, Alone
<1> DEFINE F1 == F \cup {n}
<1>1. n[2] \in Orders /\ Aligned(n[1], n[2]) /\ Covers(n) = Extent(n[1], n[2])
  BY DEF Fits, Covers
<1>2. n[2] \in 0 .. MAX_ORDER + 1 /\ MAX_ORDER \in Nat
  BY <1>1, PageAssumption DEF Orders
<1>3. n[1] \in Nat /\ n[1] \in Covers(n) /\ BlockPages[n[2]] \in Nat /\ BlockPages[n[2]] > 0
  BY <1>1, <1>2, CoversIs
<1>4. \A b \in F \cup B : Covers(b) \cap Covers(n) = {} /\ Covers(b) \subseteq Union(F, B)
  BY DEF Union
<1>5. \A b \in F \cup B : b[1] \in Covers(b)
  BY BlockFacts
<1>6. \A b \in F \cup B : b[1] # n[1]
  BY <1>3, <1>4, <1>5
<1>7. Sound(F1, B)
  <2>1. F1 \cap B = {}
    BY <1>6 DEF Sound
  <2>2. \A b \in F1 \cup B : Fits(b)
    BY DEF Sound, Fits
  <2>3. \A b, c \in F \cup B : b # c => Covers(b) \cap Covers(c) = {}
    BY DEF Sound
  <2>4. \A b, c \in F1 \cup B : b # c => Covers(b) \cap Covers(c) = {}
    BY <1>4, <2>3
  <2> QED BY <2>1, <2>2, <2>4 DEF Sound, Fits
<1>8. Union(F1, B) = Union(F, B) \cup Covers(n)
  BY DEF Union
<1>9. n[1] \notin flag
  BY <1>3 DEF Truthful
<1>10. Truthful(F1, B, flag \cup {n[1]}, u)
  <2>1. \A b \in F : b[1] \in flag /\ o[b[1]] = b[2]
    BY DEF Truthful
  <2>2. \A b \in F1 : b[1] \in flag \cup {n[1]} /\ u[b[1]] = b[2]
    BY <1>6, <2>1
  <2>3. \A p \in flag : /\ o[p] \in Orders /\ Aligned(p, o[p]) /\ p \in Union(F, B)
                        /\ \A b \in B : b[1] # p
    BY DEF Truthful
  <2>4. ASSUME NEW p \in flag \cup {n[1]}
        PROVE  u[p] \in Orders /\ Aligned(p, u[p]) /\ p \in Union(F1, B) /\ \A b \in B : b[1] # p
    <3>1. CASE p = n[1]
      BY <1>1, <1>3, <1>6, <1>8, <3>1
    <3>2. CASE p # n[1]
      BY <1>8, <2>3, <3>2
    <3> QED BY <3>1, <3>2
  <2> QED BY <2>2, <2>4 DEF Truthful
<1>11. Merged(F1)
  <2>1. ASSUME NEW b \in F1, NEW c \in F1, b[2] = c[2], b[2] < MAX_ORDER, Halves(b[1], c[1], b[2])
        PROVE  FALSE
    <3>1. CASE b \in F /\ c \in F
      BY <2>1, <3>1 DEF Merged
    <3>2. CASE b = n /\ c \in F
      BY <2>1, <3>2
    <3>3. CASE b \in F /\ c = n
      BY <2>1, <3>3
    <3>4. CASE b = n /\ c = n
      <4>1. n[1] = n[1] + BlockPages[n[2]]
        BY <2>1, <3>4 DEF Halves
      <4> QED BY <1>3, <4>1
    <3> QED BY <3>1, <3>2, <3>3, <3>4
  <2> QED BY <2>1 DEF Merged
<1> QED BY <1>7, <1>8, <1>10, <1>11

-----------------------------------------------------------------------------
(* The lists of a zone *)

BlocksOf(q) == UNION {ToSet(q[z][k]) \X {k} : z \in ZoneIds, k \in Orders}

\* A block is free if its head is on a list.
LEMMA BlocksOfIs ==
    ASSUME NEW q, Lists(q)
    PROVE  /\ \A b \in BlocksOf(q) : b = <<b[1], b[2]>>
           /\ \A p, k : <<p, k>> \in BlocksOf(q)
                           <=> k \in Orders /\ \E z \in ZoneIds : Contains(q[z][k], p)
<1>1. \A z \in ZoneIds, k \in Orders : q[z][k] \in Seq(ZonePages(z))
  BY DEF Lists
<1>2. ASSUME NEW z \in ZoneIds, NEW k \in Orders, NEW p
      PROVE  p \in ToSet(q[z][k]) <=> Contains(q[z][k], p)
  BY <1>1, MembersAsSet
<1>3. ASSUME NEW b \in BlocksOf(q) PROVE b = <<b[1], b[2]>>
  BY DEF BlocksOf
<1>4. ASSUME NEW p, NEW k
      PROVE  <<p, k>> \in BlocksOf(q) <=> k \in Orders /\ \E z \in ZoneIds : p \in ToSet(q[z][k])
  <2> DEFINE M(z, j) == ToSet(q[z][j]) \X {j}
  <2>1. \A z, j : <<p, k>> \in M(z, j) <=> p \in ToSet(q[z][j]) /\ k = j
    OBVIOUS
  <2>2. BlocksOf(q) = UNION {M(z, j) : z \in ZoneIds, j \in Orders}
    BY DEF BlocksOf
  <2> HIDE DEF M
  <2>3. <<p, k>> \in BlocksOf(q) <=> \E z \in ZoneIds, j \in Orders : <<p, k>> \in M(z, j)
    BY <2>2
  <2> QED BY <2>1, <2>3
<1> QED BY <1>2, <1>3, <1>4

\* A free block is on the list of the zone it is in.
LEMMA InOwnZone ==
    ASSUME NEW q, Lists(q), NEW z \in ZoneIds, NEW p \in ZonePages(z), NEW k, <<p, k>> \in BlocksOf(q)
    PROVE  k \in Orders /\ Contains(q[z][k], p)
<1>1. k \in Orders /\ \E y \in ZoneIds : Contains(q[y][k], p)
  BY BlocksOfIs
<1>2. PICK y \in ZoneIds : Contains(q[y][k], p)
  BY <1>1
<1>3. q[y][k] \in Seq(ZonePages(y))
  BY <1>1 DEF Lists
<1>4. p \in ZonePages(y)
  BY <1>2, <1>3, MembersAsSet
<1>5. y = z
  BY <1>4, ZonesApart
<1> QED BY <1>1, <1>2, <1>5

\* The lists of one zone change.
LEMMA ZoneChanged ==
    ASSUME NEW q, Lists(q), NEW z \in ZoneIds, NEW L,
           L \in [Orders -> Seq(ZonePages(z))], \A k \in Orders : IsInjective(L[k])
    PROVE  /\ Lists([q EXCEPT ![z] = L])
           /\ \A p, k : <<p, k>> \in BlocksOf([q EXCEPT ![z] = L])
                <=> /\ k \in Orders
                    /\ Contains(L[k], p) \/ \E y \in ZoneIds \ {z} : Contains(q[y][k], p)
<1> DEFINE r == [q EXCEPT ![z] = L]
<1>1. /\ q \in [ZoneIds -> [Orders -> Seq(Pages)]]
      /\ \A y \in ZoneIds, k \in Orders : q[y][k] \in Seq(ZonePages(y)) /\ IsInjective(q[y][k])
  BY DEF Lists
<1>2. Seq(ZonePages(z)) \subseteq Seq(Pages)
  <2>1. ZonePages(z) \subseteq Pages
    BY DEF Pages
  <2> QED BY <2>1
<1>3. L \in [Orders -> Seq(Pages)]
  BY <1>2
<1>4. r \in [ZoneIds -> [Orders -> Seq(Pages)]] /\ r[z] = L /\ \A y \in ZoneIds \ {z} : r[y] = q[y]
  BY <1>1, <1>3
<1> HIDE DEF r
<1>5. \A y \in ZoneIds, k \in Orders : r[y][k] \in Seq(ZonePages(y)) /\ IsInjective(r[y][k])
  <2> SUFFICES ASSUME NEW y \in ZoneIds, NEW k \in Orders
               PROVE  r[y][k] \in Seq(ZonePages(y)) /\ IsInjective(r[y][k])
    OBVIOUS
  <2>1. CASE y = z
    BY <1>4, <2>1
  <2>2. CASE y # z
    BY <1>1, <1>4, <2>2
  <2> QED BY <2>1, <2>2
<1>6. Lists(r)
  BY <1>4, <1>5 DEF Lists
<1>7. \A p, k : <<p, k>> \in BlocksOf(r) <=> k \in Orders /\ \E y \in ZoneIds : Contains(r[y][k], p)
  BY <1>6, BlocksOfIs
<1>8. ASSUME NEW p, NEW k
      PROVE  (\E y \in ZoneIds : Contains(r[y][k], p))
               <=> Contains(L[k], p) \/ \E y \in ZoneIds \ {z} : Contains(q[y][k], p)
  BY <1>4
<1> QED BY <1>6, <1>7, <1>8 DEF r

\* The lists __page_free_zone() leaves in a zone.
MergedLists(l, idx, k, top) ==
    [j \in Orders |->
        IF j = top THEN <<Floor(idx, top)>> \o l[j]
        ELSE IF j \in k .. top - 1 THEN RemoveFirst(l[j], Buddy(Floor(idx, j), j))
        ELSE l[j]]

WithMerge(q, z, idx, k, top) == [q EXCEPT ![z] = MergedLists(q[z], idx, k, top)]

\* They have the new block and not the ones that were merged into it.
LEMMA MergeLists ==
    ASSUME NEW q, NEW B, NEW flag, NEW o, Lists(q), Sound(BlocksOf(q), B),
           Truthful(BlocksOf(q), B, flag, o),
           NEW idx, NEW k, <<idx, k>> \in B, NEW z \in ZoneIds, idx \in ZonePages(z),
           NEW top \in k .. MAX_ORDER, Stops(z, idx, k, top, flag, o)
    PROVE  /\ Lists(WithMerge(q, z, idx, k, top))
           /\ BlocksOf(WithMerge(q, z, idx, k, top)) = AfterMerge(BlocksOf(q), idx, k, top)
<1> DEFINE F == BlocksOf(q)
           l == q[z]
           L == MergedLists(l, idx, k, top)
           e == Floor(idx, top)
           P(j) == Buddy(Floor(idx, j), j)
           r == [q EXCEPT ![z] = L]
<1>1. /\ idx \in Nat /\ k \in Orders /\ Gone(idx, k, top) \subseteq F
  BY MergeReplaces
<1>2. Sound(AfterMerge(F, idx, k, top), B \ {<<idx, k>>}) /\ Extent(e, top) \subseteq ZonePages(z)
  BY MergeSound
<1>3. MAX_ORDER \in Nat /\ k \in Nat /\ top \in Orders /\ top \in 0 .. MAX_ORDER + 1
  BY <1>1, PageAssumption DEF Orders
<1>4. Aligned(e, top) /\ e <= idx /\ idx < e + BlockPages[top]
  BY <1>1, <1>3, FloorIs
<1> HIDE DEF e
<1>5. e \in Extent(e, top) /\ idx \in Extent(e, top)
  BY <1>1, <1>3, <1>4, CoversIs
<1>6. e \in ZonePages(z)
  BY <1>2, <1>5
<1>7. \A j \in Orders : l[j] \in Seq(ZonePages(z)) /\ IsInjective(l[j])
  BY DEF Lists
<1>8. ~ Contains(l[top], e)
  <2>1. SUFFICES ASSUME Contains(l[top], e) PROVE FALSE
    OBVIOUS
  <2> DEFINE h == <<e, top>>  c == <<idx, k>>
  <2>2. h \in F
    BY <1>3, <2>1, BlocksOfIs
  <2>3. Covers(h) = Extent(e, top) /\ c \in B /\ c[1] = idx
    BY DEF Covers
  <2> HIDE DEF h, c
  <2>4. idx \in Covers(c)
    BY <2>3, BlockFacts
  <2>5. h = c
    BY <1>5, <2>2, <2>3, <2>4, SameBlock
  <2> QED BY <2>2, <2>3, <2>5 DEF Sound
<1>9. ASSUME NEW j \in k .. top - 1
      PROVE  j \in Orders /\ j # top /\ Contains(l[j], P(j)) /\ P(j) \in ZonePages(z)
  <2>1. P(j) \in ZonePages(z)
    BY DEF Stops, Sees, Partner
  <2>2. <<P(j), j>> \in F
    BY <1>1 DEF Gone, Partner
  <2>3. j \in Orders /\ Contains(l[j], P(j))
    <3> HIDE DEF P
    <3> QED BY <2>1, <2>2, InOwnZone
  <2>4. j # top
    BY <1>3
  <2> QED BY <2>1, <2>3, <2>4
<1>10. /\ L[top] = <<e>> \o l[top]
       /\ \A j \in k .. top - 1 : L[j] = RemoveFirst(l[j], P(j))
       /\ \A j \in Orders : j # top /\ j \notin k .. top - 1 => L[j] = l[j]
       /\ L = [j \in Orders |-> L[j]]
  BY <1>3, <1>9 DEF MergedLists, e
<1> HIDE DEF L, l, P
<1>11. /\ L[top] \in Seq(ZonePages(z)) /\ IsInjective(L[top])
       /\ \A p : Contains(L[top], p) <=> Contains(l[top], p) \/ p = e
  BY <1>3, <1>6, <1>7, <1>8, <1>10, PrependMembers
<1>12. ASSUME NEW j \in k .. top - 1
       PROVE  /\ L[j] \in Seq(ZonePages(z)) /\ IsInjective(L[j])
              /\ \A p : Contains(L[j], p) <=> Contains(l[j], p) /\ p # P(j)
  <2>1. l[j] \in Seq(ZonePages(z)) /\ IsInjective(l[j]) /\ Contains(l[j], P(j))
    BY <1>7, <1>9
  <2>2. /\ RemoveFirst(l[j], P(j)) \in Seq(ZonePages(z))
        /\ \A p : Contains(RemoveFirst(l[j], P(j)), p) <=> Contains(l[j], p) /\ p # P(j)
        /\ IsInjective(RemoveFirst(l[j], P(j)))
    BY <2>1, RemoveMembers
  <2> QED BY <1>10, <2>2
<1>13. ASSUME NEW j \in Orders PROVE L[j] \in Seq(ZonePages(z)) /\ IsInjective(L[j])
  BY <1>7, <1>10, <1>11, <1>12
<1>14. L \in [Orders -> Seq(ZonePages(z))]
  BY <1>10, <1>13
<1>15. /\ Lists(r)
       /\ \A p, j : <<p, j>> \in BlocksOf(r)
            <=> /\ j \in Orders
                /\ Contains(L[j], p) \/ \E y \in ZoneIds \ {z} : Contains(q[y][j], p)
  BY <1>13, <1>14, ZoneChanged
<1> HIDE DEF r
<1>16. \A p, j : <<p, j>> \in F
            <=> /\ j \in Orders
                /\ Contains(l[j], p) \/ \E y \in ZoneIds \ {z} : Contains(q[y][j], p)
  <2>1. \A p, j : <<p, j>> \in F <=> j \in Orders /\ \E y \in ZoneIds : Contains(q[y][j], p)
    BY BlocksOfIs
  <2> QED BY <2>1 DEF l
<1>17. ASSUME NEW p, NEW j, NEW y \in ZoneIds \ {z}, Contains(q[y][j], p), j \in k .. top - 1
       PROVE  p # P(j)
  <2>1. q[y][j] \in Seq(ZonePages(y))
    BY <1>9, <1>17 DEF Lists
  <2>2. p \in ZonePages(y)
    BY <1>17, <2>1, MembersAsSet
  <2>3. P(j) \in ZonePages(z)
    BY <1>9, <1>17
  <2>4. p = P(j) => y = z
    BY <2>2, <2>3, ZonesApart
  <2> QED BY <2>4
<1>18. ASSUME NEW p, NEW j
       PROVE  <<p, j>> \in AfterMerge(F, idx, k, top)
                <=> (<<p, j>> \in F /\ ~ (j \in k .. top - 1 /\ p = P(j))) \/ (p = e /\ j = top)
  <2>1. <<p, j>> \in Gone(idx, k, top) <=> j \in k .. top - 1 /\ p = P(j)
    BY DEF Gone, Partner, P
  <2> QED BY <2>1 DEF AfterMerge, e
<1>19. ASSUME NEW p, NEW j
       PROVE  <<p, j>> \in BlocksOf(r) <=> <<p, j>> \in AfterMerge(F, idx, k, top)
  <2>1. CASE j = top
    <3>1. j \notin k .. top - 1
      BY <1>3, <2>1
    <3> QED BY <1>3, <1>11, <1>15, <1>16, <1>18, <2>1, <3>1
  <2>2. CASE j \in k .. top - 1
    <3>1. j \in Orders /\ j # top
      BY <1>9, <2>2
    <3>2. Contains(L[j], p) <=> Contains(l[j], p) /\ p # P(j)
      BY <1>12, <2>2
    <3>3. (\E y \in ZoneIds \ {z} : Contains(q[y][j], p)) => p # P(j)
      BY <1>17, <2>2
    <3> QED BY <1>15, <1>16, <1>18, <2>2, <3>1, <3>2, <3>3
  <2>3. CASE j # top /\ j \notin k .. top - 1
    <3>1. j \in Orders => L[j] = l[j]
      BY <1>10, <2>3
    <3> QED BY <1>15, <1>16, <1>18, <2>3, <3>1
  <2> QED BY <2>1, <2>2, <2>3
<1>20. BlocksOf(r) = AfterMerge(F, idx, k, top)
  <2>1. \A b \in BlocksOf(r) : b = <<b[1], b[2]>>
    BY <1>15, BlocksOfIs
  <2>2. \A b \in AfterMerge(F, idx, k, top) : b = <<b[1], b[2]>>
    BY <1>2 DEF Sound
  <2> QED BY <1>19, <2>1, <2>2
<1> QED BY <1>15, <1>20 DEF r, L, l, WithMerge

\* The lists __page_alloc_zone() leaves in a zone.
SplitLists(l, page, from, k) ==
    [j \in Orders |->
        IF j = from THEN Tail(l[j])
        ELSE IF j \in k .. from - 1 THEN <<Buddy(page, j)>> \o l[j]
        ELSE l[j]]

WithSplit(q, z, page, from, k) == [q EXCEPT ![z] = SplitLists(q[z], page, from, k)]

\* They have the buddies and not the block that was split.
LEMMA SplitListed ==
    ASSUME NEW q, NEW B, Lists(q), Sound(BlocksOf(q), B), NEW z \in ZoneIds, NEW from \in Orders,
           q[z][from] # <<>>, NEW k \in 0 .. from, NEW head, head = Head(q[z][from])
    PROVE  /\ <<head, from>> \in BlocksOf(q) /\ Extent(head, from) \subseteq ZonePages(z)
           /\ Lists(WithSplit(q, z, head, from, k))
           /\ BlocksOf(WithSplit(q, z, head, from, k)) = AfterSplit(BlocksOf(q), head, from, k)
<1> DEFINE F == BlocksOf(q)
           l == q[z]
           page == Head(l[from])
           L == SplitLists(l, page, from, k)
           r == [q EXCEPT ![z] = L]
           c == <<page, from>>
<1>1. \A j \in Orders : l[j] \in Seq(ZonePages(z)) /\ IsInjective(l[j])
  BY DEF Lists
<1>2. MAX_ORDER \in Nat /\ from \in Nat /\ k \in Nat /\ k \in k .. from
  BY PageAssumption DEF Orders
<1>3. /\ page \in ZonePages(z) /\ Tail(l[from]) \in Seq(ZonePages(z)) /\ Contains(l[from], page)
      /\ \A p : Contains(l[from], p) <=> Contains(Tail(l[from]), p) \/ p = page
      /\ IsInjective(Tail(l[from])) /\ ~ Contains(Tail(l[from]), page)
  <2>1. l[from] \in Seq(ZonePages(z)) /\ IsInjective(l[from]) /\ l[from] # <<>>
    BY <1>1
  <2> HIDE DEF l
  <2> QED BY <2>1, TailMembers
<1> HIDE DEF page
<1>4. c \in F /\ c[1] = page /\ c[2] = from
  <2>1. <<page, from>> \in F
    BY <1>3, BlocksOfIs
  <2> QED BY <2>1
<1>5. Aligned(page, from) /\ Sound(AfterSplit(F, page, from, k), B \cup {<<page, k>>})
  BY <1>4, SplitSound
<1>6. Extent(page, from) \subseteq ZonePages(z)
  <2> HIDE DEF c
  <2>1. PICK y \in ZoneIds : Covers(c) \subseteq ZonePages(y)
    BY <1>4, BlockFacts
  <2>2. page \in Covers(c) /\ Covers(c) = Extent(page, from)
    BY <1>4, BlockFacts
  <2>3. y = z
    BY <1>3, <2>1, <2>2, ZonesApart
  <2> QED BY <2>1, <2>2, <2>3
<1>7. ASSUME NEW j \in k .. from - 1
      PROVE  /\ j \in Orders /\ j # from /\ Buddy(page, j) \in ZonePages(z)
             /\ ~ Contains(l[j], Buddy(page, j))
  <2>1. j \in k .. from /\ j < from /\ j \in Orders /\ j \in 0 .. MAX_ORDER + 1
    BY <1>2 DEF Orders
  <2>2. Halves(page, Buddy(page, j), j) /\ page \in Nat
    BY <1>5, <2>1, SplitRound
  <2>3. Aligned(Buddy(page, j), j)
    BY <2>1, <2>2, HalvesAre
  <2> DEFINE n == <<Buddy(page, j), j>>
  <2>4. n \in Upper(page, k, from) \cup {<<page, k>>} /\ n[1] = Buddy(page, j)
        /\ Covers(n) = Extent(Buddy(page, j), j)
    BY DEF Upper, Covers
  <2>5. Buddy(page, j) \in Covers(n)
    BY <2>1, <2>3, <2>4, CoversIs
  <2> HIDE DEF n
  <2>6. Buddy(page, j) \in Extent(page, from)
    BY <1>5, <2>4, <2>5, SplitPieces
  <2>7. ASSUME Contains(l[j], Buddy(page, j)) PROVE FALSE
    <3>1. <<Buddy(page, j), j>> \in F
      BY <2>1, <2>7, BlocksOfIs
    <3>2. n \in F
      BY <3>1 DEF n
    <3>3. Covers(c) = Extent(page, from)
      BY <1>4 DEF Covers
    <3> HIDE DEF c
    <3>4. n = c
      BY <1>4, <2>5, <2>6, <3>2, <3>3, SameBlock
    <3>5. n[1] = page /\ BlockPages[j] \in Nat /\ BlockPages[j] > 0 /\ n[1] = page + BlockPages[j]
      BY <1>2, <1>4, <2>1, <2>2, <2>4, <3>4, Doubling DEF Halves
    <3> QED BY <2>2, <3>5
  <2> QED BY <1>2, <1>6, <2>1, <2>6, <2>7
<1>8. /\ L[from] = Tail(l[from])
      /\ \A j \in k .. from - 1 : L[j] = <<Buddy(page, j)>> \o l[j]
      /\ \A j \in Orders : j # from /\ j \notin k .. from - 1 => L[j] = l[j]
      /\ L = [j \in Orders |-> L[j]]
  BY <1>2, <1>7 DEF SplitLists
<1> HIDE DEF L, l
<1>9. ASSUME NEW j \in k .. from - 1
      PROVE  /\ L[j] \in Seq(ZonePages(z)) /\ IsInjective(L[j])
             /\ \A p : Contains(L[j], p) <=> Contains(l[j], p) \/ p = Buddy(page, j)
  <2>1. l[j] \in Seq(ZonePages(z)) /\ IsInjective(l[j]) /\ ~ Contains(l[j], Buddy(page, j))
        /\ Buddy(page, j) \in ZonePages(z)
    BY <1>1, <1>7
  <2>2. /\ <<Buddy(page, j)>> \o l[j] \in Seq(ZonePages(z))
        /\ \A p : Contains(<<Buddy(page, j)>> \o l[j], p) <=> Contains(l[j], p) \/ p = Buddy(page, j)
        /\ IsInjective(<<Buddy(page, j)>> \o l[j])
    BY <2>1, PrependMembers
  <2> QED BY <1>8, <2>2
<1>10. ASSUME NEW j \in Orders PROVE L[j] \in Seq(ZonePages(z)) /\ IsInjective(L[j])
  BY <1>1, <1>3, <1>8, <1>9
<1>11. L \in [Orders -> Seq(ZonePages(z))]
  BY <1>8, <1>10
<1>12. /\ Lists(r)
       /\ \A p, j : <<p, j>> \in BlocksOf(r)
            <=> /\ j \in Orders
                /\ Contains(L[j], p) \/ \E y \in ZoneIds \ {z} : Contains(q[y][j], p)
  BY <1>10, <1>11, ZoneChanged
<1> HIDE DEF r
<1>13. \A p, j : <<p, j>> \in F
            <=> /\ j \in Orders
                /\ Contains(l[j], p) \/ \E y \in ZoneIds \ {z} : Contains(q[y][j], p)
  <2>1. \A p, j : <<p, j>> \in F <=> j \in Orders /\ \E y \in ZoneIds : Contains(q[y][j], p)
    BY BlocksOfIs
  <2> QED BY <2>1 DEF l
<1>14. ASSUME NEW y \in ZoneIds \ {z}, Contains(q[y][from], page) PROVE FALSE
  <2>1. q[y][from] \in Seq(ZonePages(y))
    BY DEF Lists
  <2>2. page \in ZonePages(y)
    BY <1>14, <2>1, MembersAsSet
  <2> QED BY <1>3, <2>2, ZonesApart
<1>15. ASSUME NEW p, NEW j
       PROVE  <<p, j>> \in AfterSplit(F, page, from, k)
                <=> (<<p, j>> \in F /\ ~ (j = from /\ p = page)) \/ (j \in k .. from - 1 /\ p = Buddy(page, j))
  <2>1. <<p, j>> \in Upper(page, k, from) <=> j \in k .. from - 1 /\ p = Buddy(page, j)
    BY DEF Upper
  <2> QED BY <2>1 DEF AfterSplit
<1>16. ASSUME NEW p, NEW j
       PROVE  <<p, j>> \in BlocksOf(r) <=> <<p, j>> \in AfterSplit(F, page, from, k)
  <2>1. CASE j = from
    <3>1. j \notin k .. from - 1
      BY <1>2, <2>1
    <3>2. Contains(L[j], p) <=> Contains(l[j], p) /\ p # page
      BY <1>3, <1>8, <2>1
    <3> QED BY <1>12, <1>13, <1>14, <1>15, <2>1, <3>1, <3>2
  <2>2. CASE j \in k .. from - 1
    <3>1. j \in Orders /\ j # from
      BY <1>7, <2>2
    <3>2. Contains(L[j], p) <=> Contains(l[j], p) \/ p = Buddy(page, j)
      BY <1>9, <2>2
    <3> QED BY <1>12, <1>13, <1>15, <2>2, <3>1, <3>2
  <2>3. CASE j # from /\ j \notin k .. from - 1
    <3>1. j \in Orders => L[j] = l[j]
      BY <1>8, <2>3
    <3> QED BY <1>12, <1>13, <1>15, <2>3, <3>1
  <2> QED BY <2>1, <2>2, <2>3
<1>17. BlocksOf(r) = AfterSplit(F, page, from, k)
  <2>1. \A b \in BlocksOf(r) : b = <<b[1], b[2]>>
    BY <1>12, BlocksOfIs
  <2>2. \A b \in AfterSplit(F, page, from, k) : b = <<b[1], b[2]>>
    BY <1>5 DEF Sound
  <2>3. ASSUME NEW b \in BlocksOf(r) PROVE b \in AfterSplit(F, page, from, k)
    BY <1>16, <2>1
  <2>4. ASSUME NEW b \in AfterSplit(F, page, from, k) PROVE b \in BlocksOf(r)
    BY <1>16, <2>2
  <2> QED BY <2>3, <2>4
<1> QED BY <1>4, <1>6, <1>12, <1>17 DEF r, L, l, page, c, WithSplit

\* The lists __page_alloc_zone_free() leaves.
WithBlock(q, z, k, p) == [q EXCEPT ![z][k] = Append(q[z][k], p)]

\* A block is filed at the end of its list.
LEMMA AppendListed ==
    ASSUME NEW q, Lists(q), NEW z \in ZoneIds, NEW k \in Orders, NEW p \in ZonePages(z),
           <<p, k>> \notin BlocksOf(q)
    PROVE  /\ Lists(WithBlock(q, z, k, p))
           /\ BlocksOf(WithBlock(q, z, k, p)) = BlocksOf(q) \cup {<<p, k>>}
<1> DEFINE l == q[z]
           L == [l EXCEPT ![k] = Append(l[k], p)]
           r == [q EXCEPT ![z] = L]
<1>1. /\ \A j \in Orders : l[j] \in Seq(ZonePages(z)) /\ IsInjective(l[j])
      /\ l = [j \in Orders |-> l[j]] /\ q \in [ZoneIds -> [Orders -> Seq(Pages)]]
  BY DEF Lists
<1>2. ~ Contains(l[k], p)
  BY BlocksOfIs
<1>3. WithBlock(q, z, k, p) = r
  BY DEF WithBlock
<1>4. L[k] = Append(l[k], p) /\ (\A j \in Orders \ {k} : L[j] = l[j]) /\ L = [j \in Orders |-> L[j]]
  BY <1>1
<1> HIDE DEF L, l
<1>5. /\ L[k] \in Seq(ZonePages(z)) /\ IsInjective(L[k])
      /\ \A x : Contains(L[k], x) <=> Contains(l[k], x) \/ x = p
  <2>1. l[k] \in Seq(ZonePages(z)) /\ IsInjective(l[k])
    BY <1>1
  <2>2. /\ Append(l[k], p) \in Seq(ZonePages(z)) /\ IsInjective(Append(l[k], p))
        /\ \A x : Contains(Append(l[k], p), x) <=> Contains(l[k], x) \/ x = p
    BY <1>2, <2>1, AppendMembers
  <2> QED BY <1>4, <2>2
<1>6. ASSUME NEW j \in Orders PROVE L[j] \in Seq(ZonePages(z)) /\ IsInjective(L[j])
  BY <1>1, <1>4, <1>5
<1>7. L \in [Orders -> Seq(ZonePages(z))]
  BY <1>4, <1>6
<1>8. /\ Lists(r)
      /\ \A x, j : <<x, j>> \in BlocksOf(r)
            <=> /\ j \in Orders
                /\ Contains(L[j], x) \/ \E y \in ZoneIds \ {z} : Contains(q[y][j], x)
  BY <1>6, <1>7, ZoneChanged
<1>9. \A x, j : <<x, j>> \in BlocksOf(q)
            <=> /\ j \in Orders
                /\ Contains(l[j], x) \/ \E y \in ZoneIds \ {z} : Contains(q[y][j], x)
  <2>1. \A x, j : <<x, j>> \in BlocksOf(q) <=> j \in Orders /\ \E y \in ZoneIds : Contains(q[y][j], x)
    BY BlocksOfIs
  <2> QED BY <2>1 DEF l
<1> HIDE DEF r
<1>10. ASSUME NEW x, NEW j
       PROVE  <<x, j>> \in BlocksOf(r) <=> <<x, j>> \in BlocksOf(q) \/ (x = p /\ j = k)
  BY <1>4, <1>5, <1>8, <1>9
<1>11. BlocksOf(r) = BlocksOf(q) \cup {<<p, k>>}
  <2>1. \A b \in BlocksOf(r) : b = <<b[1], b[2]>>
    BY <1>8, BlocksOfIs
  <2>2. \A b \in BlocksOf(q) : b = <<b[1], b[2]>>
    BY BlocksOfIs
  <2>3. \A b \in BlocksOf(r) : b \in BlocksOf(q) \/ b = <<p, k>>
    BY <1>10, <2>1
  <2>4. \A b \in BlocksOf(q) : b \in BlocksOf(r)
    BY <1>10, <2>2
  <2>5. <<p, k>> \in BlocksOf(r)
    BY <1>10
  <2> QED BY <2>3, <2>4, <2>5
<1> QED BY <1>3, <1>8, <1>11

-----------------------------------------------------------------------------
(* Cutting free ranges *)

\* The order of a block: the bits of its first page below are clear, the block
\* is in the range, and the next larger would not do.
LEMMA BootOrderIs ==
    ASSUME NEW end \in Nat, NEW p \in 0 .. end - 1
    PROVE  /\ BootOrder(p, end) \in Orders
           /\ Aligned(p, BootOrder(p, end))
           /\ p + BlockPages[BootOrder(p, end)] <= end
           /\ Final(p, BootOrder(p, end), end)
<1> DEFINE T == {k \in Orders : k = MAX_ORDER \/ Bit(p, k) = 1 \/ p + BlockPages[k + 1] > end}
<1>1. MAX_ORDER \in Nat /\ MAX_ORDER \in T /\ T \in SUBSET Nat
  BY PageAssumption DEF Orders
<1>2. Min(T) \in T /\ \A y \in T : Min(T) <= y
  <2> HIDE DEF T
  <2> QED BY <1>1, LeastOf
<1> DEFINE k == Min(T)
<1>3. BootOrder(p, end) = k
  BY DEF BootOrder
<1> HIDE DEF k
<1>4. k \in Orders /\ Final(p, k, end) /\ k \in 0 .. MAX_ORDER /\ k \in Nat
  BY <1>2 DEF k, Final, Orders
<1>5. ASSUME NEW j \in 0 .. k - 1
      PROVE  /\ j \in Orders /\ j + 1 \in 0 .. MAX_ORDER + 1 /\ Bit(p, j) # 1
             /\ ~ (p + BlockPages[j + 1] > end)
  <2>1. j \in Orders /\ ~ (k <= j) /\ j + 1 \in 0 .. MAX_ORDER + 1
    BY <1>1, <1>4 DEF Orders
  <2>2. j \notin T
    BY <1>2, <2>1 DEF k
  <2> QED BY <2>1, <2>2
<1>6. Aligned(p, k)
  <2> DEFINE U == {j \in 0 .. k : ~ Aligned(p, j)}
  <2>1. ASSUME U # {} PROVE FALSE
    <3>1. U \in SUBSET Nat
      OBVIOUS
    <3>2. PICK m \in U : \A y \in U : m <= y
      <4> HIDE DEF U
      <4> QED BY <2>1, <3>1, LeastOf
    <3>3. m # 0
      <4>1. p = p * BlockPages[0] /\ p \in Nat
        BY Doubling
      <4>2. Aligned(p, 0)
        BY <4>1 DEF Aligned
      <4> QED BY <3>2, <4>2
    <3>4. m - 1 \in 0 .. k - 1 /\ m - 1 \in 0 .. k /\ (m - 1) + 1 = m /\ ~ (m <= m - 1)
      BY <1>4, <3>2, <3>3
    <3>5. Aligned(p, m - 1)
      BY <3>2, <3>4
    <3>6. m - 1 \in Orders /\ Bit(p, m - 1) # 1
      BY <1>5, <3>4
    <3>7. Halves(p, Buddy(p, m - 1), m - 1)
      BY <3>5, <3>6, IsHalf
    <3>8. Aligned(p, m)
      BY <3>4, <3>7 DEF Halves
    <3> QED BY <3>2, <3>8
  <2>2. k \notin U
    BY <2>1
  <2> QED BY <1>4, <2>2
<1>7. p + BlockPages[k] <= end
  <2>1. CASE k = 0
    BY <2>1, Doubling
  <2>2. CASE k # 0
    <3>1. k - 1 \in 0 .. k - 1 /\ (k - 1) + 1 = k
      BY <1>4, <2>2
    <3>2. ~ (p + BlockPages[k] > end)
      BY <1>5, <3>1
    <3>3. BlockPages[k] \in Nat
      BY <1>1, <1>4, Doubling
    <3> QED BY <3>2, <3>3
  <2> QED BY <2>1, <2>2
<1> QED BY <1>3, <1>4, <1>6, <1>7

\* A range that is free is memory of one zone.
LEMMA FreedInZone ==
    ASSUME NEW i \in DOMAIN FreeRanges, FreedPages(i) # {}
    PROVE  \E z \in ZoneIds : FreedPages(i) \subseteq ZonePages(z)
<1>1. PICK z \in DOMAIN MemoryMap :
        MemoryMap[z][1] <= FreeRanges[i][1] /\ FreeRanges[i][2] <= MemoryMap[z][2]
  BY PageAssumption
<1> DEFINE a == MemoryMap[z]  b == FreeRanges[i]  n == PAGE_SIZE
<1>2. a \in Nat \X Nat /\ b \in Nat \X Nat /\ n \in Nat /\ n > 0
  BY Ranges, PageAssumption
<1>3. a[1] \in Nat /\ a[2] \in Nat /\ b[1] \in Nat /\ b[2] \in Nat /\ a[1] <= b[1] /\ b[2] <= a[2]
  BY <1>1, <1>2
<1>4. /\ FirstPage(a) \in Nat /\ LastPage(a) \in Nat /\ FirstPage(b) \in Nat /\ LastPage(b) \in Nat
  BY <1>2, PageOfRange
<1> HIDE DEF a, b, n
<1>5. ASSUME NEW x \in Nat, NEW y \in Nat, x <= y PROVE x \div n <= y \div n
  <2>1. /\ x % n \in 0 .. n - 1 /\ x \div n \in Nat /\ x - (x % n) = (x \div n) * n
        /\ y % n \in 0 .. n - 1 /\ y \div n \in Nat /\ y - (y % n) = (y \div n) * n
    BY <1>2, Remainder
  <2> DEFINE s == x \div n  t == y \div n
  <2> HIDE DEF s, t
  <2>2. s \in Nat /\ t \in Nat /\ s * n <= x /\ y < t * n + n
    <3>1. s * n = x - (x % n) /\ t * n = y - (y % n) /\ s \in Nat /\ t \in Nat
      BY <2>1 DEF s, t
    <3> QED BY <1>2, <2>1, <3>1
  <2>3. s * n < (t + 1) * n
    <3>1. (t + 1) * n = t * n + n /\ s * n \in Int /\ t * n \in Int
      BY <1>2, <2>2, Products
    <3> QED BY <1>2, <1>5, <2>2, <3>1
  <2>4. s < t + 1
    <3>1. s \in Int /\ t + 1 \in Int
      BY <2>2
    <3> QED BY <1>2, <2>3, <3>1, Products
  <2>5. s <= t
    BY <2>2, <2>4
  <2> QED BY <2>5 DEF s, t
<1>6. FirstPage(a) <= FirstPage(b)
  <2>1. a[1] + n - 1 \in Nat /\ b[1] + n - 1 \in Nat /\ a[1] + n - 1 <= b[1] + n - 1
    BY <1>2, <1>3
  <2>2. (a[1] + n - 1) \div n <= (b[1] + n - 1) \div n
    BY <1>5, <2>1
  <2> QED BY <2>2 DEF FirstPage, n
<1>7. LastPage(b) <= LastPage(a)
  BY <1>3, <1>5 DEF LastPage, n
<1>8. FreedPages(i) \subseteq ZonePages(z)
  BY <1>4, <1>6, <1>7 DEF FreedPages, FirstFreed, ZonePages, a, b
<1>9. PICK x : x \in ZonePages(z)
  BY <1>8
<1>10. z \in ZoneIds
  BY <1>4, <1>9 DEF ZoneIds, ZonePages, a
<1> QED BY <1>8, <1>10

\* Free ranges have no page in common, and one at least is between them.
LEMMA FreedApart ==
    ASSUME NEW i \in DOMAIN FreeRanges, NEW j \in DOMAIN FreeRanges, i < j
    PROVE  /\ FirstFreed(j) \in Nat /\ LastPage(FreeRanges[i]) \in Nat
           /\ LastPage(FreeRanges[i]) < FirstFreed(j)
<1>1. /\ FreeRanges[i] \in Nat \X Nat /\ FreeRanges[j] \in Nat \X Nat /\ i \in Nat /\ j \in Nat
  BY Ranges
<1>2. FreeRanges[i][2] < FreeRanges[j][1]
  BY PageAssumption DEF Apart
<1>3. /\ LastPage(FreeRanges[i]) \in Nat /\ FirstPage(FreeRanges[j]) \in Nat
      /\ LastPage(FreeRanges[i]) < FirstPage(FreeRanges[j])
  BY <1>1, <1>2, PagesApart
<1> QED BY <1>3 DEF FirstFreed

\* The pages of a free range, as numbers.
LEMMA FreedIs ==
    ASSUME NEW i \in DOMAIN FreeRanges
    PROVE  /\ i \in Nat /\ FirstFreed(i) \in Nat /\ LastPage(FreeRanges[i]) \in Nat
           /\ \A x : x \in FreedPages(i)
                <=> x \in Int /\ FirstFreed(i) <= x /\ x < LastPage(FreeRanges[i])
<1>1. i \in Nat /\ FreeRanges[i] \in Nat \X Nat
  BY Ranges
<1>2. FirstPage(FreeRanges[i]) \in Nat /\ LastPage(FreeRanges[i]) \in Nat
  BY <1>1, PageOfRange
<1>3. FirstFreed(i) \in Nat
  BY <1>2 DEF FirstFreed
<1> QED BY <1>1, <1>2, <1>3 DEF FreedPages

\* Pages taken are before the one the loop has come to, those of other ranges
\* with a page between.
LEMMA TakenBefore ==
    ASSUME Booting, FirstFreed(boot.range) <= boot.page, boot.page \in Nat, NEW x \in Taken
    PROVE  /\ x \in Int /\ x < boot.page
           /\ x \in FreedPages(boot.range) \/ x + 1 < FirstFreed(boot.range)
<1> DEFINE i == boot.range  p == boot.page
<1>1. i \in DOMAIN FreeRanges
  BY DEF Booting
<1>2. i \in Nat /\ FirstFreed(i) \in Nat /\ p \in Nat /\ FirstFreed(i) <= p
  BY <1>1, FreedIs
<1>3. PICK j \in DOMAIN FreeRanges : x \in FreedPages(j) /\ (j < i \/ (j = i /\ x < p))
  BY DEF Taken
<1>4. x \in Int /\ x < LastPage(FreeRanges[j]) /\ LastPage(FreeRanges[j]) \in Nat
  BY <1>3, FreedIs
<1>5. CASE j = i
  <2>1. j \in Nat /\ ~ (j < i)
    BY <1>2, <1>5
  <2> QED BY <1>3, <1>4, <1>5, <2>1
<1>6. CASE j < i
  <2>1. LastPage(FreeRanges[j]) < FirstFreed(i)
    BY <1>1, <1>6, FreedApart
  <2> QED BY <1>2, <1>4, <2>1
<1> QED BY <1>3, <1>5, <1>6

\* Blocks and pages with the FREE flag are in zones.
LEMMA FlaggedPages ==
    ASSUME PageInv
    PROVE  Union(FreeBlocks, busy) \subseteq Pages /\ isfree \subseteq Pages
<1>1. Sound(FreeBlocks, busy) /\ Truthful(FreeBlocks, busy, isfree, ord)
  BY DEF PageInv
<1>2. Union(FreeBlocks, busy) \subseteq Pages
  <2> SUFFICES ASSUME NEW b \in FreeBlocks \cup busy PROVE Covers(b) \subseteq Pages
    BY DEF Union
  <2>1. \E y \in ZoneIds : Covers(b) \subseteq ZonePages(y)
    BY <1>1 DEF Sound
  <2> QED BY <2>1 DEF Pages
<1>3. isfree \subseteq Pages
  BY <1>1, <1>2 DEF Truthful
<1> QED BY <1>2, <1>3

\* A round of the loop keeps the invariant: the block has pages not taken
\* before, and it has no free buddy.  A lower one would have ended where this
\* one begins, in the same range, and the loop would have made it larger.
LEMMA BootBlockKept ==
    ASSUME PageInv, BootBlock
    PROVE  PageInv'
<1> DEFINE i == boot.range
           p == boot.page
           end == LastPage(FreeRanges[i])
           k == BootOrder(p, end)
           n == <<p, k>>
<1>1. /\ Lists(order) /\ ord \in [Pages -> Orders]
      /\ boot \in [range : 1 .. Len(FreeRanges) + 1, page : Nat]
      /\ Sound(FreeBlocks, busy) /\ Truthful(FreeBlocks, busy, isfree, ord)
      /\ Merged(FreeBlocks) /\ Union(FreeBlocks, busy) = Taken
  BY DEF PageInv
<1>2. /\ i \in DOMAIN FreeRanges /\ p < end /\ Booting /\ Cutting
      /\ order' = [order EXCEPT ![ZoneOf(p)][k] = Append(order[ZoneOf(p)][k], p)]
      /\ isfree' = isfree \cup {p}
      /\ ord' = [ord EXCEPT ![p] = k]
      /\ boot' = [boot EXCEPT !.page = p + BlockPages[k]]
      /\ UNCHANGED <<busy, scan>>
  BY DEF BootBlock, Booting, PageInv
<1>3. /\ busy = {} /\ (\A t \in Caller : scan[t] = <<>>) /\ FirstFreed(i) <= p
      /\ \A b \in FreeBlocks : Covers(b) \cap FreedPages(i) # {} => Final(b[1], b[2], end)
  BY <1>2 DEF Cutting
<1>4. /\ i \in Nat /\ FirstFreed(i) \in Nat /\ end \in Nat /\ p \in Nat /\ p \in 0 .. end - 1
      /\ \A x : x \in FreedPages(i) <=> x \in Int /\ FirstFreed(i) <= x /\ x < end
  <2>1. /\ i \in Nat /\ FirstFreed(i) \in Nat /\ end \in Nat
        /\ \A x : x \in FreedPages(i) <=> x \in Int /\ FirstFreed(i) <= x /\ x < end
    BY <1>2, FreedIs
  <2>2. p \in Nat
    BY <1>1
  <2> HIDE DEF i, p, end
  <2> QED BY <1>2, <2>1, <2>2
<1>5. k \in Orders /\ Aligned(p, k) /\ p + BlockPages[k] <= end /\ Final(p, k, end)
  <2> HIDE DEF p, end
  <2> QED BY <1>4, BootOrderIs
<1> HIDE DEF k
<1>6. MAX_ORDER \in Nat /\ k \in Nat /\ k \in 0 .. MAX_ORDER + 1
  BY <1>5, PageAssumption DEF Orders
<1>7. /\ BlockPages[k] \in Nat /\ BlockPages[k] > 0 /\ p \in Extent(p, k)
      /\ \A x : x \in Extent(p, k) <=> x \in Int /\ p <= x /\ x < p + BlockPages[k]
  <2> HIDE DEF p
  <2> QED BY <1>5, <1>6, CoversIs
<1>8. Extent(p, k) \subseteq FreedPages(i)
  <2> HIDE DEF p, i, end
  <2> QED BY <1>3, <1>4, <1>5, <1>7
<1>9. PICK z \in ZoneIds : FreedPages(i) \subseteq ZonePages(z)
  <2>1. FreedPages(i) # {}
    BY <1>7, <1>8
  <2> QED BY <1>2, <2>1, FreedInZone
<1>10. p \in ZonePages(z) /\ ZoneOf(p) = z /\ p \in Pages
  <2>1. p \in ZonePages(z)
    BY <1>7, <1>8, <1>9
  <2> HIDE DEF p
  <2> QED BY <2>1, ZoneFound DEF Pages
<1>11. n[1] = p /\ n[2] = k /\ Covers(n) = Extent(p, k) /\ Fits(n)
  <2>1. n[1] = p /\ n[2] = k /\ n = <<n[1], n[2]>>
    OBVIOUS
  <2>2. Covers(n) = Extent(p, k)
    BY <2>1 DEF Covers
  <2> HIDE DEF n
  <2> QED BY <1>5, <1>8, <1>9, <2>1, <2>2 DEF Fits
<1>12. \A x \in Taken : x \in Int /\ x < p /\ (x \in FreedPages(i) \/ x + 1 < FirstFreed(i))
  BY <1>2, <1>3, <1>4, TakenBefore
<1> HIDE DEF i, p, end, n
<1>13. Covers(n) \cap Union(FreeBlocks, busy) = {}
  <2> SUFFICES ASSUME NEW x \in Covers(n), x \in Taken PROVE FALSE
    BY <1>1
  <2>1. x \in Int /\ p <= x
    BY <1>7, <1>11
  <2>2. x < p
    BY <1>12
  <2> QED BY <1>4, <2>1, <2>2
<1>14. \A b \in FreeBlocks : Covers(b) \subseteq Taken
  BY <1>1 DEF Union
<1>15. n \notin FreeBlocks
  BY <1>1, <1>7, <1>11, <1>13, <1>14
<1>16. Lists(order') /\ FreeBlocks' = FreeBlocks \cup {n}
  <2>1. FreeBlocks = BlocksOf(order) /\ FreeBlocks' = BlocksOf(order')
    BY DEF FreeBlocks, BlocksOf
  <2>2. order' = [order EXCEPT ![z][k] = Append(order[z][k], p)]
    BY <1>2, <1>10
  <2>3. <<p, k>> \notin BlocksOf(order)
    BY <1>15, <2>1 DEF n
  <2> DEFINE r == WithBlock(order, z, k, p)
  <2>4. Lists(r) /\ BlocksOf(r) = BlocksOf(order) \cup {<<p, k>>}
    BY <1>1, <1>5, <1>10, <2>3, AppendListed
  <2>5. order' = r
    BY <2>2 DEF WithBlock
  <2> HIDE DEF r
  <2>6. Lists(order') /\ BlocksOf(order') = BlocksOf(order) \cup {<<p, k>>}
    BY <2>4, <2>5
  <2> QED BY <2>1, <2>6 DEF n
<1>17. ord' \in [Pages -> Orders] /\ ord'[p] = k /\ \A q \in Pages : q # p => ord'[q] = ord[q]
  BY <1>1, <1>2, <1>5, <1>10
<1>18. isfree \subseteq Pages
  BY FlaggedPages
<1>19. \A q \in isfree : q # p => ord'[q] = ord[q]
  BY <1>17, <1>18
<1>20. ASSUME NEW b \in FreeBlocks, b[2] = k, k < MAX_ORDER
       PROVE  ~ Halves(b[1], p, k) /\ ~ Halves(p, b[1], k)
  <2>1. /\ b[1] \in Nat /\ b[1] \in Covers(b) /\ Aligned(b[1], k) /\ Covers(b) = Extent(b[1], k)
    <3>1. b \in FreeBlocks \cup busy
      OBVIOUS
    <3>2. b[1] \in Nat /\ b[1] \in Covers(b) /\ Aligned(b[1], b[2]) /\ Covers(b) = Extent(b[1], b[2])
      BY <1>1, <3>1, BlockFacts
    <3> QED BY <1>20, <3>2
  <2>2. \A x : x \in Covers(b) <=> x \in Int /\ b[1] <= x /\ x < b[1] + BlockPages[k]
    BY <1>6, <2>1, CoversIs
  <2>3. Covers(b) \subseteq Taken
    BY <1>14
  <2>4. ASSUME Halves(p, b[1], k) PROVE FALSE
    <3>1. b[1] = p + BlockPages[k]
      BY <2>4 DEF Halves
    <3>2. b[1] < p
      BY <1>12, <2>1, <2>3
    <3> QED BY <1>4, <1>7, <3>1, <3>2
  <2>5. ASSUME Halves(b[1], p, k) PROVE FALSE
    <3>1. p = b[1] + BlockPages[k] /\ Bit(b[1], k) = 0 /\ p + BlockPages[k] = b[1] + BlockPages[k + 1]
      BY <1>5, <2>5, HalvesAre DEF Halves
    <3>2. p - 1 \in Covers(b)
      BY <1>4, <1>7, <2>1, <2>2, <3>1
    <3>3. p - 1 \in FreedPages(i)
      <4>1. p - 1 \in FreedPages(i) \/ (p - 1) + 1 < FirstFreed(i)
        BY <1>12, <2>3, <3>2
      <4> QED BY <1>3, <1>4, <4>1
    <3>4. Final(b[1], k, end)
      BY <1>3, <1>20, <3>2, <3>3
    <3>5. b[1] + BlockPages[k + 1] > end
      BY <1>20, <3>1, <3>4, <1>6 DEF Final
    <3>6. p + BlockPages[k] > end /\ p + BlockPages[k] \in Nat
      BY <1>4, <1>7, <3>1, <3>5
    <3> QED BY <1>4, <1>5, <3>6
  <2> QED BY <2>4, <2>5
<1>21. /\ Sound(FreeBlocks', busy')
       /\ Union(FreeBlocks', busy') = Union(FreeBlocks, busy) \cup Covers(n)
       /\ Truthful(FreeBlocks', busy', isfree', ord')
       /\ Merged(FreeBlocks')
  <2>1. Alone(FreeBlocks, n)
    BY <1>11, <1>20 DEF Alone
  <2>2. Headed(isfree, ord, ord', n)
    BY <1>11, <1>17, <1>19 DEF Headed
  <2>3. /\ Sound(FreeBlocks \cup {n}, busy)
        /\ Union(FreeBlocks \cup {n}, busy) = Union(FreeBlocks, busy) \cup Covers(n)
        /\ Truthful(FreeBlocks \cup {n}, busy, isfree \cup {n[1]}, ord')
        /\ Merged(FreeBlocks \cup {n})
    BY <1>1, <1>11, <1>13, <2>1, <2>2, BlockAdded
  <2>4. busy' = busy /\ isfree' = isfree \cup {n[1]}
    BY <1>2, <1>11
  <2> QED BY <1>16, <2>3, <2>4
<1>22. /\ boot' \in [range : 1 .. Len(FreeRanges) + 1, page : Nat]
       /\ boot'.range = i /\ boot'.page = p + BlockPages[k]
  <2>1. boot \in [range : 1 .. Len(FreeRanges) + 1, page : Nat] /\ boot.range = i
    BY <1>1 DEF i
  <2>2. p + BlockPages[k] \in Nat
    BY <1>4, <1>7
  <2> QED BY <1>2, <2>1, <2>2
<1>23. Taken' = Taken \cup Extent(p, k)
  <2>1. \A x : x \in Taken <=> \E j \in DOMAIN FreeRanges : x \in FreedPages(j) /\ (j < i \/ (j = i /\ x < p))
    BY DEF Taken, Managed, i, p
  <2>2. \A x : x \in Taken' <=> \E j \in DOMAIN FreeRanges :
                 x \in FreedPages(j) /\ (j < i \/ (j = i /\ x < p + BlockPages[k]))
    BY <1>22 DEF Taken, Managed
  <2>3. ASSUME NEW x \in Taken PROVE x \in Taken'
    <3>1. x \in Int /\ x < p /\ x < p + BlockPages[k]
      BY <1>4, <1>7, <1>12
    <3> QED BY <2>1, <2>2, <3>1
  <2>4. ASSUME NEW x \in Extent(p, k) PROVE x \in Taken'
    BY <1>2, <1>7, <1>8, <2>2
  <2>5. ASSUME NEW x \in Taken', x \notin Taken PROVE x \in Extent(p, k)
    <3>1. x \in FreedPages(i) /\ x < p + BlockPages[k] /\ ~ (x < p)
      BY <2>1, <2>2, <2>5
    <3>2. x \in Int
      BY <1>4, <3>1
    <3> QED BY <1>4, <1>7, <3>1, <3>2
  <2> QED BY <2>3, <2>4, <2>5
<1>24. Union(FreeBlocks', busy') = Taken'
  BY <1>1, <1>11, <1>21, <1>23
<1>25. Cutting'
  <2>1. /\ busy' = {} /\ (\A t \in Caller : scan'[t] = <<>>)
    BY <1>2, <1>3
  <2>2. FirstFreed(i) <= boot'.page /\ boot'.page <= end
    BY <1>3, <1>4, <1>5, <1>7, <1>22
  <2>3. \A b \in FreeBlocks' : Covers(b) \cap FreedPages(i) # {} => Final(b[1], b[2], end)
    BY <1>3, <1>5, <1>11, <1>16
  <2> QED BY <1>22, <2>1, <2>2, <2>3 DEF Cutting, end
<1>26. scan' \in [Caller -> {<<>>} \cup (Orders \X (ZoneIds \cup {Len(MemoryMap) + 1}))]
  BY <1>2 DEF PageInv
<1> QED BY <1>16, <1>17, <1>21, <1>22, <1>24, <1>25, <1>26 DEF PageInv

\* The loop goes on to a range of which no page is taken.
LEMMA BootRangeKept ==
    ASSUME PageInv, BootRange
    PROVE  PageInv'
<1> DEFINE i == boot.range
           p == boot.page
           end == LastPage(FreeRanges[i])
           start == boot'.page
<1>1. /\ Lists(order) /\ ord \in [Pages -> Orders]
      /\ boot \in [range : 1 .. Len(FreeRanges) + 1, page : Nat]
      /\ scan \in [Caller -> {<<>>} \cup (Orders \X (ZoneIds \cup {Len(MemoryMap) + 1}))]
      /\ Sound(FreeBlocks, busy) /\ Truthful(FreeBlocks, busy, isfree, ord)
      /\ Merged(FreeBlocks) /\ Union(FreeBlocks, busy) = Taken
  BY DEF PageInv
<1>2. /\ i \in DOMAIN FreeRanges /\ p >= end /\ Cutting /\ boot' = RangeStart(i + 1)
      /\ UNCHANGED <<order, isfree, ord, busy, scan>>
  BY DEF BootRange, Booting, PageInv
<1>3. FreeBlocks' = FreeBlocks
  BY <1>2 DEF FreeBlocks
<1>4. /\ busy = {} /\ \A t \in Caller : scan[t] = <<>>
  BY <1>2 DEF Cutting
<1>5. /\ DOMAIN FreeRanges = 1 .. Len(FreeRanges) /\ Len(FreeRanges) \in Nat
      /\ i \in Nat /\ end \in Nat /\ p \in Nat
  BY <1>1, <1>2, Ranges, FreedIs
<1>6. /\ boot'.range = i + 1
      /\ i + 1 \in DOMAIN FreeRanges => start = FirstFreed(i + 1)
      /\ i + 1 \notin DOMAIN FreeRanges => start = 0
      /\ boot' = [range |-> i + 1, page |-> start]
  BY <1>2 DEF RangeStart
<1>7. start \in Nat
  <2>1. CASE i + 1 \in DOMAIN FreeRanges
    BY <1>6, <2>1, FreedIs
  <2>2. CASE i + 1 \notin DOMAIN FreeRanges
    BY <1>6, <2>2
  <2> QED BY <2>1, <2>2
<1> HIDE DEF start
<1>8. boot' \in [range : 1 .. Len(FreeRanges) + 1, page : Nat]
  <2>1. i + 1 \in 1 .. Len(FreeRanges) + 1
    BY <1>2, <1>5
  <2> QED BY <1>6, <1>7, <2>1
<1>9. \A x : x \in Taken <=> \E j \in DOMAIN FreeRanges : x \in FreedPages(j) /\ (j < i \/ (j = i /\ x < p))
  BY DEF Taken, Managed
<1>10. \A x : x \in Taken' <=> \E j \in DOMAIN FreeRanges :
                 x \in FreedPages(j) /\ (j < i + 1 \/ (j = i + 1 /\ x < start))
  BY <1>6 DEF Taken, Managed, start
<1> HIDE DEF i, p, end
<1>11. ASSUME NEW x \in Taken PROVE x \in Taken'
  <2>1. PICK j \in DOMAIN FreeRanges : x \in FreedPages(j) /\ (j < i \/ (j = i /\ x < p))
    BY <1>9
  <2>2. j \in Nat /\ j < i + 1
    BY <1>5, <2>1
  <2> QED BY <1>10, <2>1, <2>2
<1>12. ASSUME NEW x \in Taken' PROVE x \in Taken
  <2>1. PICK j \in DOMAIN FreeRanges : x \in FreedPages(j) /\ (j < i + 1 \/ (j = i + 1 /\ x < start))
    BY <1>10
  <2>2. j \in Nat /\ x \in Int /\ FirstFreed(j) <= x /\ x < LastPage(FreeRanges[j]) /\ FirstFreed(j) \in Nat
    BY <2>1, FreedIs
  <2>3. j # i + 1
    <3> SUFFICES ASSUME j = i + 1 PROVE FALSE
      OBVIOUS
    <3>1. start = FirstFreed(j) /\ ~ (j < i + 1)
      BY <1>5, <1>6, <2>1
    <3> QED BY <1>7, <2>1, <2>2, <3>1
  <2>4. j < i \/ j = i
    BY <1>5, <2>1, <2>2, <2>3
  <2>5. j = i => x < p
    BY <1>2, <1>5, <2>2 DEF end
  <2> QED BY <1>9, <2>1, <2>4, <2>5
<1>13. Taken' = Taken
  BY <1>11, <1>12
<1>14. ASSUME i + 1 \in DOMAIN FreeRanges PROVE Cutting'
  <2>1. /\ busy' = {} /\ (\A t \in Caller : scan'[t] = <<>>)
    BY <1>2, <1>4
  <2>2. start = FirstFreed(i + 1) /\ FirstFreed(i + 1) <= start
    BY <1>6, <1>7, <1>14
  <2>3. ASSUME NEW b \in FreeBlocks, NEW x \in Covers(b), x \in FreedPages(i + 1) PROVE FALSE
    <3>1. x \in Taken
      BY <1>1 DEF Union
    <3>2. PICK j \in DOMAIN FreeRanges : x \in FreedPages(j) /\ (j < i \/ (j = i /\ x < p))
      BY <1>9, <3>1
    <3>3. j < i + 1 /\ x \in Int /\ x < LastPage(FreeRanges[j]) /\ FirstFreed(i + 1) <= x
      BY <1>5, <1>14, <2>3, <3>2, FreedIs
    <3>4. /\ FirstFreed(i + 1) \in Nat /\ LastPage(FreeRanges[j]) \in Nat
          /\ LastPage(FreeRanges[j]) < FirstFreed(i + 1)
      BY <1>14, <3>3, FreedApart
    <3> QED BY <3>3, <3>4
  <2>4. \A b \in FreeBlocks' : Covers(b) \cap FreedPages(i + 1) # {}
           => Final(b[1], b[2], LastPage(FreeRanges[i + 1]))
    BY <1>3, <2>3
  <2> QED BY <1>6, <2>1, <2>2, <2>4 DEF Cutting, start
<1>15. Booting' => Cutting'
  BY <1>6, <1>14 DEF Booting
<1> QED BY <1>1, <1>2, <1>3, <1>8, <1>13, <1>15 DEF PageInv

-----------------------------------------------------------------------------
(* Every step keeps the invariant *)

\* page_alloc_setup() starts with empty lists; that every page flag is clear is
\* an assumption, see the README.
LEMMA PageInitInv ==
    ASSUME BootFree = {}, PageInit
    PROVE  PageInv
<1>1. /\ order = [z \in ZoneIds |-> [k \in Orders |-> <<>>]]
      /\ isfree = {} /\ ord = [p \in Pages |-> 0] /\ boot = RangeStart(1)
      /\ busy = {} /\ scan = [t \in Caller |-> <<>>]
  BY DEF PageInit
<1>2. \A S : <<>> \in Seq(S)
  OBVIOUS
<1>3. IsInjective(<<>>) /\ \A p : ~ Contains(<<>>, p)
  BY EmptyMembers
<1>4. Lists(order)
  <2>1. \A z \in ZoneIds, k \in Orders : order[z][k] = <<>>
    BY <1>1
  <2>2. order \in [ZoneIds -> [Orders -> Seq(Pages)]]
    BY <1>1, <1>2
  <2> QED BY <1>2, <1>3, <2>1, <2>2 DEF Lists
<1>5. FreeBlocks = {}
  <2>1. FreeBlocks = BlocksOf(order)
    BY DEF FreeBlocks, BlocksOf
  <2>2. ASSUME NEW p, NEW k PROVE <<p, k>> \notin BlocksOf(order)
    <3>1. <<p, k>> \in BlocksOf(order) <=> k \in Orders /\ \E z \in ZoneIds : Contains(order[z][k], p)
      BY <1>4, BlocksOfIs
    <3>2. \A z \in ZoneIds : k \in Orders => order[z][k] = <<>>
      BY <1>1
    <3> QED BY <1>3, <3>1, <3>2
  <2>3. \A b \in BlocksOf(order) : b = <<b[1], b[2]>>
    BY <1>4, BlocksOfIs
  <2>4. ASSUME NEW b \in BlocksOf(order) PROVE FALSE
    BY <2>2, <2>3
  <2> QED BY <2>1, <2>4
<1>6. ord \in [Pages -> Orders]
  <2>1. 0 \in Orders
    BY PageAssumption DEF Orders
  <2> QED BY <1>1, <2>1
<1>7. /\ DOMAIN FreeRanges = 1 .. Len(FreeRanges) /\ Len(FreeRanges) \in Nat
  BY Ranges
<1>8. boot.range = 1 /\ boot = [range |-> 1, page |-> boot.page]
      /\ (1 \in DOMAIN FreeRanges => boot.page = FirstFreed(1))
      /\ (1 \notin DOMAIN FreeRanges => boot.page = 0)
  BY <1>1 DEF RangeStart
<1>9. boot.page \in Nat
  <2>1. CASE 1 \in DOMAIN FreeRanges
    BY <1>8, <2>1, FreedIs
  <2>2. CASE 1 \notin DOMAIN FreeRanges
    BY <1>8, <2>2
  <2> QED BY <2>1, <2>2
<1>10. boot \in [range : 1 .. Len(FreeRanges) + 1, page : Nat]
  <2> DEFINE q == boot.page
  <2>1. q \in Nat /\ boot = [range |-> 1, page |-> q] /\ 1 \in 1 .. Len(FreeRanges) + 1
    BY <1>7, <1>8, <1>9
  <2> HIDE DEF q
  <2> QED BY <2>1
<1>11. Sound({}, {}) /\ Truthful({}, {}, {}, ord) /\ Merged({}) /\ Union({}, {}) = {}
  BY DEF Sound, Truthful, Merged, Union
<1>12. Taken = {}
  <2> SUFFICES ASSUME NEW x \in Taken PROVE FALSE
    OBVIOUS
  <2>1. PICK j \in DOMAIN FreeRanges : x \in FreedPages(j) /\ (j < 1 \/ (j = 1 /\ x < boot.page))
    BY <1>8 DEF Taken
  <2>2. j = 1 /\ x < FirstFreed(j)
    BY <1>7, <1>8, <2>1
  <2>3. x \in Int /\ FirstFreed(j) \in Nat /\ FirstFreed(j) <= x
    BY <2>1, FreedIs
  <2> QED BY <2>2, <2>3
<1>13. Booting => Cutting
  <2> SUFFICES ASSUME Booting PROVE Cutting
    OBVIOUS
  <2>1. 1 \in DOMAIN FreeRanges /\ boot.page = FirstFreed(1)
    BY <1>8 DEF Booting
  <2>2. FirstFreed(1) <= boot.page
    BY <1>9, <2>1
  <2> QED BY <1>1, <1>5, <1>8, <2>1, <2>2 DEF Cutting
<1>14. scan \in [Caller -> {<<>>} \cup (Orders \X (ZoneIds \cup {Len(MemoryMap) + 1}))]
  BY <1>1
<1> QED BY <1>1, <1>4, <1>5, <1>6, <1>10, <1>11, <1>12, <1>13, <1>14 DEF PageInv

\* The walk over the zones goes from zone to zone and ends at the list's head.
LEMMA NextZoneIs ==
    ASSUME NEW z
    PROVE  NextZone(z) \in ZoneIds \cup {Len(MemoryMap) + 1}
<1> DEFINE T == {y \in ZoneIds : z < y} \cup {Len(MemoryMap) + 1}
<1>1. T \in SUBSET Nat /\ T # {}
  BY Ranges DEF ZoneIds
<1>2. Min(T) \in T
  <2> HIDE DEF T
  <2> QED BY <1>1, LeastOf
<1> QED BY <1>2 DEF NextZone

\* The steps of a walk that take no block.
LEMMA WalkKept ==
    ASSUME PageInv, NEW t \in Caller, UNCHANGED <<order, isfree, ord, boot, busy>>, ~ Booting,
           NEW s \in {<<>>} \cup (Orders \X (ZoneIds \cup {Len(MemoryMap) + 1})),
           scan' = [scan EXCEPT ![t] = s]
    PROVE  PageInv'
<1>1. FreeBlocks' = FreeBlocks /\ Taken' = Taken /\ ~ Booting'
  BY DEF FreeBlocks, Taken, Booting
<1>2. scan' \in [Caller -> {<<>>} \cup (Orders \X (ZoneIds \cup {Len(MemoryMap) + 1}))]
  BY DEF PageInv
<1>3. Lists(order)' /\ Sound(FreeBlocks, busy)' /\ Truthful(FreeBlocks, busy, isfree, ord)'
      /\ Merged(FreeBlocks)' /\ (Union(FreeBlocks, busy) = Taken)'
  BY <1>1 DEF PageInv
<1> QED BY <1>1, <1>2, <1>3 DEF PageInv

\* __page_alloc() begins a walk.
LEMMA PageAllocKept ==
    ASSUME PageInv, NEW t \in Caller, NEW k \in Orders, PageAlloc(t, k)
    PROVE  PageInv'
<1> DEFINE s == <<k, NextZone(0)>>
<1>1. s \in Orders \X (ZoneIds \cup {Len(MemoryMap) + 1})
  BY NextZoneIs
<1>2. ~ Booting /\ scan' = [scan EXCEPT ![t] = s] /\ UNCHANGED <<order, isfree, ord, boot, busy>>
  BY DEF PageAlloc
<1> HIDE DEF s
<1> QED BY <1>1, <1>2, WalkKept

\* What the invariant says of a caller on its walk.
LEMMA OnWalk ==
    ASSUME PageInv, NEW t \in Caller, scan[t] # <<>>
    PROVE  /\ ~ Booting /\ scan[t] = <<scan[t][1], scan[t][2]>>
           /\ scan[t][1] \in Orders /\ scan[t][2] \in ZoneIds \cup {Len(MemoryMap) + 1}
<1>1. scan[t] \in {<<>>} \cup (Orders \X (ZoneIds \cup {Len(MemoryMap) + 1}))
  BY DEF PageInv
<1>2. ~ Booting
  BY DEF PageInv, Cutting
<1> QED BY <1>1, <1>2

\* page_alloc_zone() finds nothing, and the walk goes on or ends.
LEMMA SkipZoneKept ==
    ASSUME PageInv, NEW t \in Caller, SkipZone(t)
    PROVE  PageInv'
<1> DEFINE k == scan[t][1]
           z == scan[t][2]
           s == IF z \in ZoneIds THEN <<k, NextZone(z)>> ELSE <<>>
<1>1. ~ Booting /\ k \in Orders
  BY OnWalk DEF SkipZone
<1>2. NextZone(z) \in ZoneIds \cup {Len(MemoryMap) + 1}
  BY NextZoneIs
<1>3. scan' = [scan EXCEPT ![t] = s] /\ UNCHANGED <<order, isfree, ord, boot, busy>>
  BY DEF SkipZone
<1>4. s \in {<<>>} \cup (Orders \X (ZoneIds \cup {Len(MemoryMap) + 1}))
  <2> HIDE DEF k, z
  <2> QED BY <1>1, <1>2
<1> HIDE DEF s
<1> QED BY <1>1, <1>3, <1>4, WalkKept

\* A block is split and given to the caller.
LEMMA AllocZoneKept ==
    ASSUME PageInv, NEW t \in Caller, AllocZone(t)
    PROVE  PageInv'
<1> DEFINE k == scan[t][1]
           z == scan[t][2]
           from == Min(Available(z, k))
           page == Head(order[z][from])
           halves == k .. from - 1
           F == FreeBlocks
           F1 == AfterSplit(FreeBlocks, page, from, k)
           B1 == busy \cup {<<page, k>>}
<1>1. /\ Lists(order) /\ ord \in [Pages -> Orders]
      /\ boot \in [range : 1 .. Len(FreeRanges) + 1, page : Nat]
      /\ scan \in [Caller -> {<<>>} \cup (Orders \X (ZoneIds \cup {Len(MemoryMap) + 1}))]
      /\ Sound(F, busy) /\ Truthful(F, busy, isfree, ord)
      /\ Merged(F) /\ Union(F, busy) = Taken
  BY DEF PageInv
<1>2. /\ scan[t] # <<>> /\ z \in ZoneIds /\ Available(z, k) # {}
      /\ Split(z, page, from, k) /\ busy' = B1
      /\ scan' = [scan EXCEPT ![t] = <<>>] /\ boot' = boot
  BY DEF AllocZone
<1>3. ~ Booting /\ k \in Orders
  BY <1>2, OnWalk
<1>4. MAX_ORDER \in Nat /\ k \in Nat
  BY <1>3, PageAssumption DEF Orders
<1> HIDE DEF k, z
<1>5. from \in k .. MAX_ORDER /\ order[z][from] # <<>>
  <2>1. Available(z, k) \in SUBSET Nat
    BY <1>4 DEF Available
  <2>2. Min(Available(z, k)) \in Available(z, k)
    BY <1>2, <2>1, LeastOf
  <2> QED BY <2>2 DEF Available
<1> HIDE DEF from
<1>6. from \in Orders /\ from \in Nat /\ k \in 0 .. from /\ k \in k .. from
  BY <1>4, <1>5 DEF Orders
<1>7. F = BlocksOf(order) /\ FreeBlocks' = BlocksOf(order')
  BY DEF FreeBlocks, BlocksOf
<1>8. /\ order' = WithSplit(order, z, page, from, k)
      /\ isfree' = (isfree \ {page}) \cup {Buddy(page, j) : j \in halves}
      /\ ord' = [p \in Pages |-> IF \E j \in halves : Buddy(page, j) = p
                                 THEN CHOOSE j \in halves : Buddy(page, j) = p
                                 ELSE ord[p]]
  BY <1>2 DEF Split, WithSplit, SplitLists
<1>9. page = Head(order[z][from])
  OBVIOUS
<1> HIDE DEF page
<1>10. /\ <<page, from>> \in F
       /\ Lists(order') /\ FreeBlocks' = F1
  <2>1. Sound(BlocksOf(order), busy)
    BY <1>1, <1>7
  <2>2. /\ <<page, from>> \in BlocksOf(order)
        /\ Lists(WithSplit(order, z, page, from, k))
        /\ BlocksOf(WithSplit(order, z, page, from, k)) = AfterSplit(BlocksOf(order), page, from, k)
    BY <1>1, <1>2, <1>5, <1>6, <1>9, <2>1, SplitListed
  <2> QED BY <1>7, <1>8, <2>2
<1>11. Sound(F1, B1) /\ Union(F1, B1) = Union(F, busy)
  <2> HIDE DEF F
  <2>1. Sound(AfterSplit(F, page, from, k), busy \cup {<<page, k>>})
    BY <1>1, <1>6, <1>10, SplitSound
  <2>2. Union(AfterSplit(F, page, from, k), busy \cup {<<page, k>>}) = Union(F, busy)
    BY <1>1, <1>6, <1>10, SplitSound
  <2> QED BY <2>1, <2>2 DEF F
<1>12. Merged(F1)
  BY <1>1, <1>6, <1>10, SplitMerged
<1>13. ASSUME NEW j \in halves PROVE <<Buddy(page, j), j>> \in F1
  BY DEF AfterSplit, Upper
<1>14. ASSUME NEW j \in halves PROVE Buddy(page, j) \in Pages
  <2> DEFINE b == <<Buddy(page, j), j>>
  <2>1. b \in F1 \cup B1 /\ b[1] = Buddy(page, j)
    BY <1>13
  <2> HIDE DEF b
  <2>2. b[1] \in Covers(b) /\ \E y \in ZoneIds : Covers(b) \subseteq ZonePages(y)
    <3> HIDE DEF F1, B1
    <3> QED BY <1>11, <2>1, BlockFacts
  <2> QED BY <2>1, <2>2 DEF Pages
<1>15. ASSUME NEW i \in halves, NEW j \in halves, Buddy(page, i) = Buddy(page, j) PROVE i = j
  <2> DEFINE b == <<Buddy(page, i), i>>
             c == <<Buddy(page, j), j>>
  <2>1. b \in F1 \cup B1 /\ c \in F1 \cup B1 /\ b[1] = c[1] /\ b[2] = i /\ c[2] = j
    BY <1>13, <1>15
  <2> HIDE DEF b, c, F1, B1
  <2>2. b[1] \in Covers(b) /\ c[1] \in Covers(c)
    BY <1>11, <2>1, BlockFacts
  <2>3. b = c
    BY <1>11, <2>1, <2>2, SameBlock
  <2> QED BY <2>1, <2>3
<1>16. ASSUME NEW j \in halves PROVE ord'[Buddy(page, j)] = j
  <2> DEFINE p == Buddy(page, j)
             c == CHOOSE i \in halves : Buddy(page, i) = p
  <2>1. p \in Pages /\ \E i \in halves : Buddy(page, i) = p
    BY <1>14
  <2>2. c \in halves /\ Buddy(page, c) = p
    BY <2>1
  <2>3. ord'[p] = c
    BY <1>8, <2>1
  <2> HIDE DEF c
  <2>4. c = j
    BY <1>15, <2>2
  <2> QED BY <2>3, <2>4
<1>17. isfree \subseteq Pages
  BY FlaggedPages
<1>18. ASSUME NEW p \in isfree, \A j \in halves : p # Buddy(page, j) PROVE ord'[p] = ord[p]
  BY <1>8, <1>17, <1>18
<1>19. halves \subseteq Orders
  BY <1>4, <1>5 DEF Orders
<1>20. ord' \in [Pages -> Orders]
  <2>1. ASSUME NEW p \in Pages PROVE ord'[p] \in Orders
    <3>1. CASE \E j \in halves : Buddy(page, j) = p
      BY <1>16, <1>19, <3>1
    <3>2. CASE ~ \E j \in halves : Buddy(page, j) = p
      <4>1. ord'[p] = ord[p]
        BY <1>8, <3>2
      <4> QED BY <1>1, <4>1
    <3> QED BY <3>1, <3>2
  <2>2. ord' = [p \in Pages |-> ord'[p]]
    BY <1>8
  <2> QED BY <2>1, <2>2
<1>21. Truthful(F1, B1, isfree', ord')
  <2> DEFINE u == ord'
  <2>1. \A j \in k .. from - 1 : u[Buddy(page, j)] = j
    BY <1>16
  <2>2. \A p \in isfree : (\A j \in k .. from - 1 : p # Buddy(page, j)) => u[p] = ord[p]
    BY <1>18
  <2> HIDE DEF u
  <2>3. Truthful(AfterSplit(FreeBlocks, page, from, k), busy \cup {<<page, k>>},
                 (isfree \ {page}) \cup {Buddy(page, j) : j \in k .. from - 1}, u)
    BY <1>1, <1>6, <1>10, <2>1, <2>2, SplitTruthful
  <2> QED BY <1>8, <2>3 DEF u
<1>22. Taken' = Taken /\ ~ Booting'
  BY <1>2, <1>3 DEF Taken, Booting
<1>23. scan' \in [Caller -> {<<>>} \cup (Orders \X (ZoneIds \cup {Len(MemoryMap) + 1}))]
  BY <1>1, <1>2
<1> HIDE DEF F1, B1
<1> QED BY <1>1, <1>2, <1>10, <1>11, <1>12, <1>20, <1>21, <1>22, <1>23 DEF PageInv

\* A block is freed and merged with the free buddies it has.
LEMMA PageFreeKept ==
    ASSUME PageInv, NEW b \in busy, PageFree(b)
    PROVE  PageInv'
<1> DEFINE idx == b[1]
           k == b[2]
           z == ZoneOf(idx)
           T == {j \in k .. MAX_ORDER : ~ Merges(z, idx, j)}
           top == Min(T)
           head == Floor(idx, top)
           F == FreeBlocks
           F1 == AfterMerge(FreeBlocks, idx, k, top)
           B1 == busy \ {<<idx, k>>}
<1>1. /\ Lists(order) /\ ord \in [Pages -> Orders]
      /\ boot \in [range : 1 .. Len(FreeRanges) + 1, page : Nat]
      /\ scan \in [Caller -> {<<>>} \cup (Orders \X (ZoneIds \cup {Len(MemoryMap) + 1}))]
      /\ Sound(F, busy) /\ Truthful(F, busy, isfree, ord)
      /\ Merged(F) /\ Union(F, busy) = Taken
  BY DEF PageInv
<1>2. ~ Booting
  BY DEF PageInv, Cutting
<1>3. /\ b = <<idx, k>> /\ k \in Orders /\ idx \in Nat /\ idx \in Covers(b)
      /\ \E y \in ZoneIds : Covers(b) \subseteq ZonePages(y)
  <2>1. b \in F \cup busy
    OBVIOUS
  <2> HIDE DEF F
  <2> QED BY <1>1, <2>1, BlockFacts
<1>4. z \in ZoneIds /\ idx \in ZonePages(z)
  <2>1. PICK y \in ZoneIds : idx \in ZonePages(y)
    BY <1>3
  <2>2. ZoneOf(idx) = y
    BY <2>1, ZoneFound
  <2> QED BY <2>1, <2>2
<1>5. MAX_ORDER \in Nat /\ k \in Nat /\ k \in 0 .. MAX_ORDER
  BY <1>3, PageAssumption DEF Orders
<1>6. /\ order' = WithMerge(order, z, idx, k, top)
      /\ isfree' = isfree \cup {head} /\ ord' = [ord EXCEPT ![head] = top]
      /\ busy' = B1 /\ boot' = boot /\ scan' = scan
  BY <1>3 DEF PageFree, FreeZone, WithMerge, MergedLists
<1> HIDE DEF idx, k, z
<1>7. top \in T /\ \A j \in T : top <= j
  <2>1. ~ Merges(z, idx, MAX_ORDER)
    BY <1>5 DEF Merges
  <2>2. T \in SUBSET Nat /\ MAX_ORDER \in T
    BY <1>5, <2>1
  <2> HIDE DEF T
  <2> QED BY <2>2, LeastOf
<1> HIDE DEF top
<1>8. top \in k .. MAX_ORDER /\ top \in Nat /\ top \in Orders /\ top \in 0 .. MAX_ORDER + 1
  BY <1>5, <1>7 DEF Orders
<1>9. Stops(z, idx, k, top, isfree, ord)
  <2>1. ASSUME NEW j \in k .. top - 1 PROVE Sees(z, idx, j, isfree, ord)
    <3>1. j \in k .. MAX_ORDER /\ ~ (top <= j)
      BY <1>5, <1>8
    <3>2. Merges(z, idx, j)
      BY <1>7, <3>1
    <3> QED BY <3>2 DEF Merges, Sees, Partner
  <2>2. ASSUME top < MAX_ORDER PROVE ~ Sees(z, idx, top, isfree, ord)
    <3>1. ~ Merges(z, idx, top)
      BY <1>7
    <3> QED BY <2>2, <3>1 DEF Merges, Sees, Partner
  <2> QED BY <2>1, <2>2 DEF Stops
<1> HIDE DEF T
<1>10. F = BlocksOf(order) /\ FreeBlocks' = BlocksOf(order')
  BY DEF FreeBlocks, BlocksOf
<1>11. <<idx, k>> \in busy
  BY <1>3
<1>12. Lists(order') /\ FreeBlocks' = F1
  <2>1. Sound(BlocksOf(order), busy) /\ Truthful(BlocksOf(order), busy, isfree, ord)
    BY <1>1, <1>10
  <2>2. /\ Lists(WithMerge(order, z, idx, k, top))
        /\ BlocksOf(WithMerge(order, z, idx, k, top)) = AfterMerge(BlocksOf(order), idx, k, top)
    BY <1>1, <1>4, <1>8, <1>9, <1>11, <2>1, MergeLists
  <2> QED BY <1>6, <1>10, <2>2
<1>13. /\ Sound(F1, B1) /\ Union(F1, B1) = Union(F, busy)
       /\ Extent(head, top) \subseteq ZonePages(z)
  <2> HIDE DEF F, head
  <2>1. Sound(AfterMerge(F, idx, k, top), busy \ {<<idx, k>>})
    BY <1>1, <1>4, <1>8, <1>9, <1>11, MergeSound
  <2>2. SamePages(F, busy, AfterMerge(F, idx, k, top), busy \ {<<idx, k>>})
    BY <1>1, <1>4, <1>8, <1>9, <1>11, MergePages
  <2>3. Extent(Floor(idx, top), top) \subseteq ZonePages(z)
    BY <1>1, <1>4, <1>8, <1>9, <1>11, MergeSound
  <2> QED BY <2>1, <2>2, <2>3 DEF F, head, SamePages
<1>14. Merged(F1)
  BY <1>1, <1>4, <1>8, <1>9, <1>11, MergeMerged
<1>15. head \in Pages
  <2>1. Aligned(head, top)
    BY <1>3, <1>8, FloorIs
  <2>2. head \in Extent(head, top)
    <3> HIDE DEF head
    <3> QED BY <1>8, <2>1, CoversIs
  <2> QED BY <1>4, <1>13, <2>2 DEF Pages
<1>16. ord' \in [Pages -> Orders] /\ ord'[head] = top
       /\ \A p \in Pages : p # head => ord'[p] = ord[p]
  <2> HIDE DEF head
  <2> QED BY <1>1, <1>6, <1>8, <1>15
<1>17. Truthful(F1, B1, isfree', ord')
  <2> DEFINE u == ord'
  <2>1. isfree \subseteq Pages
    BY FlaggedPages
  <2>2. u[Floor(idx, top)] = top /\ \A p \in isfree : p # Floor(idx, top) => u[p] = ord[p]
    BY <1>16, <2>1
  <2> HIDE DEF u
  <2>3. Truthful(AfterMerge(FreeBlocks, idx, k, top), busy \ {<<idx, k>>},
                 isfree \cup {Floor(idx, top)}, u)
    BY <1>1, <1>4, <1>8, <1>9, <1>11, <2>2, MergeTruthful
  <2> QED BY <1>6, <2>3 DEF u
<1>18. Taken' = Taken /\ ~ Booting'
  BY <1>2, <1>6 DEF Taken, Booting
<1> HIDE DEF F1, B1
<1> QED BY <1>1, <1>6, <1>12, <1>13, <1>14, <1>16, <1>17, <1>18 DEF PageInv

\* Every step of the allocator keeps the invariant.
LEMMA PageStepKept ==
    ASSUME PageInv, [PageNext]_pageVars
    PROVE  PageInv'
<1>1. CASE BootBlock
  BY <1>1, BootBlockKept
<1>2. CASE BootRange
  BY <1>2, BootRangeKept
<1>3. ASSUME NEW t \in Caller, NEW k \in Orders, PageAlloc(t, k) PROVE PageInv'
  BY <1>3, PageAllocKept
<1>4. ASSUME NEW t \in Caller, AllocZone(t) PROVE PageInv'
  BY <1>4, AllocZoneKept
<1>5. ASSUME NEW t \in Caller, SkipZone(t) PROVE PageInv'
  BY <1>5, SkipZoneKept
<1>6. ASSUME NEW b \in busy, PageFree(b) PROVE PageInv'
  BY <1>6, PageFreeKept
<1>7. CASE UNCHANGED pageVars
  <2>1. UNCHANGED <<order, isfree, ord, boot, busy, scan>>
    BY <1>7 DEF pageVars
  <2>2. FreeBlocks' = FreeBlocks /\ Taken' = Taken /\ (Booting' <=> Booting)
    BY <2>1 DEF FreeBlocks, Taken, Booting
  <2>3. Cutting' <=> Cutting
    BY <2>1, <2>2 DEF Cutting
  <2> QED BY <2>1, <2>2, <2>3 DEF PageInv
<1> QED BY <1>1, <1>2, <1>3, <1>4, <1>5, <1>6, <1>7 DEF PageNext

-----------------------------------------------------------------------------
(* Theorems *)

\* What the invariant means for the blocks: none overlap.
LEMMA InvDisjoint ==
    ASSUME PageInv
    PROVE  BlocksDisjoint
<1>1. /\ Lists(order) /\ ord \in [Pages -> Orders]
      /\ boot \in [range : 1 .. Len(FreeRanges) + 1, page : Nat]
      /\ scan \in [Caller -> {<<>>} \cup (Orders \X (ZoneIds \cup {Len(MemoryMap) + 1}))]
      /\ Sound(FreeBlocks, busy)
  BY DEF PageInv
<1>2. isfree \subseteq Pages
  BY FlaggedPages
<1>3. busy \subseteq Pages \X Orders
  <2> SUFFICES ASSUME NEW b \in busy PROVE b \in Pages \X Orders
    OBVIOUS
  <2>1. b \in FreeBlocks \cup busy
    OBVIOUS
  <2>2. /\ b = <<b[1], b[2]>> /\ b[2] \in Orders /\ b[1] \in Covers(b)
        /\ \E z \in ZoneIds : Covers(b) \subseteq ZonePages(z)
    BY <1>1, <2>1, BlockFacts
  <2>3. b[1] \in Pages
    BY <2>2 DEF Pages
  <2> QED BY <2>2, <2>3
<1>4. /\ \A z \in ZoneIds, k \in Orders : order[z][k] \in Seq(ZonePages(z)) /\ IsInjective(order[z][k])
  BY <1>1 DEF Lists
<1>5. \A t \in Caller : scan[t] = <<>> \/ scan[t] \in Orders \X (ZoneIds \cup {Len(MemoryMap) + 1})
  BY <1>1
<1>6. PageTypeOK
  BY <1>1, <1>2, <1>3, <1>4, <1>5 DEF PageTypeOK
<1>7. /\ FreeBlocks \cap busy = {}
      /\ \A b, c \in FreeBlocks \cup busy : b # c => Extent(b[1], b[2]) \cap Extent(c[1], c[2]) = {}
  BY <1>1 DEF Sound, Covers
<1> QED BY <1>4, <1>6, <1>7 DEF BlocksDisjoint

\* What it means for the pages: after boot, all that were free are in blocks.
LEMMA InvConserved ==
    ASSUME PageInv
    PROVE  PagesConserved
<1> SUFFICES ASSUME ~ Booting
             PROVE  UNION {Extent(b[1], b[2]) : b \in FreeBlocks \cup busy} = Managed
  BY DEF PagesConserved
<1>1. Union(FreeBlocks, busy) = Taken /\ boot.range \in 1 .. Len(FreeRanges) + 1
  BY DEF PageInv
<1>2. DOMAIN FreeRanges = 1 .. Len(FreeRanges) /\ Len(FreeRanges) \in Nat
  BY Ranges
<1>3. ASSUME NEW i \in DOMAIN FreeRanges PROVE i < boot.range
  <2>1. boot.range \notin 1 .. Len(FreeRanges)
    BY <1>2 DEF Booting
  <2> QED BY <1>1, <1>2, <2>1
<1>4. Taken = Managed
  BY <1>3 DEF Taken, Managed
<1> QED BY <1>1, <1>4 DEF Union, Covers

\* What it means for merging: no free block has a free buddy, and the test for
\* one is right.
LEMMA InvMerged ==
    ASSUME PageInv
    PROVE  FullyMerged
<1>1. /\ Sound(FreeBlocks, busy) /\ Truthful(FreeBlocks, busy, isfree, ord) /\ Merged(FreeBlocks)
  BY DEF PageInv
<1>2. ASSUME NEW b \in FreeBlocks, b[2] < MAX_ORDER, <<Buddy(b[1], b[2]), b[2]>> \in FreeBlocks
      PROVE  FALSE
  <2> DEFINE c == <<Buddy(b[1], b[2]), b[2]>>
  <2>1. c \in FreeBlocks /\ c[1] = Buddy(b[1], b[2]) /\ c[2] = b[2]
    BY <1>2
  <2> HIDE DEF c
  <2>2. b[2] \in Orders /\ Aligned(b[1], b[2])
    BY <1>1 DEF Sound
  <2>3. Halves(b[1], c[1], b[2]) \/ Halves(c[1], b[1], b[2])
    BY <2>1, <2>2, IsHalf
  <2> QED BY <1>1, <1>2, <2>1, <2>3 DEF Merged
<1>3. ASSUME NEW b \in busy, NEW j \in b[2] .. MAX_ORDER - 1,
             Buddy(Floor(b[1], j), j) \in isfree, ord[Buddy(Floor(b[1], j), j)] = j
      PROVE  <<Buddy(Floor(b[1], j), j), j>> \in FreeBlocks
  <2> DEFINE f == Floor(b[1], j)
  <2>1. b \in FreeBlocks \cup busy
    OBVIOUS
  <2>2. b[2] \in Orders /\ b[1] \in Nat
    BY <1>1, <2>1, BlockFacts
  <2>3. MAX_ORDER \in Nat /\ j \in Orders /\ j \in 0 .. MAX_ORDER + 1 /\ b[2] <= j
    BY <2>2, PageAssumption DEF Orders
  <2>4. f \in Nat /\ Aligned(f, j) /\ f <= b[1] /\ b[1] < f + BlockPages[j]
    BY <2>2, <2>3, FloorIs
  <2>5. Buddy(f, j) \in isfree /\ ord[Buddy(f, j)] = j
    BY <1>3
  <2> HIDE DEF f
  <2>6. b[1] \in Extent(f, j)
    BY <2>2, <2>3, <2>4, CoversIs
  <2>7. <<Buddy(f, j), j>> \in FreeBlocks
    BY <1>1, <2>1, <2>3, <2>4, <2>5, <2>6, BuddyFree
  <2> QED BY <2>7 DEF f
<1>4. \A b \in busy : \A j \in b[2] .. MAX_ORDER - 1 :
         LET p == Buddy(Floor(b[1], j), j)
         IN  p \in ZonePages(ZoneOf(b[1])) /\ p \in isfree /\ ord[p] = j
               => <<p, j>> \in FreeBlocks
  BY <1>3
<1> QED BY <1>2, <1>4 DEF FullyMerged

\* The invariant holds of every state the allocator can reach, if the page
\* flags were clear at boot.
THEOREM PageInvariant ==
    ASSUME BootFree = {}
    PROVE  PageSpec => []PageInv
<1>1. PageInit => PageInv
  BY PageInitInv
<1>2. PageInv /\ [PageNext]_pageVars => PageInv'
  BY PageStepKept
<1> QED BY <1>1, <1>2, PTL DEF PageSpec

\* page_alloc() never gives out a page twice, nor one that is on a list, however
\* blocks were split and merged and whichever callers walk the zones at once.
THEOREM NoPageTwice ==
    ASSUME BootFree = {}
    PROVE  PageSpec => []BlocksDisjoint
<1>1. PageInv => BlocksDisjoint
  BY InvDisjoint
<1> QED BY <1>1, PageInvariant, PTL

\* After page_alloc_setup() the blocks are the pages of free_ranges, always.
THEOREM NoPageLost ==
    ASSUME BootFree = {}
    PROVE  PageSpec => []PagesConserved
<1>1. PageInv => PagesConserved
  BY InvConserved
<1> QED BY <1>1, PageInvariant, PTL

\* __page_free_zone() never leaves two free buddies, and never takes a stale
\* FREE flag for a free block.
THEOREM MergingComplete ==
    ASSUME BootFree = {}
    PROVE  PageSpec => []FullyMerged
<1>1. PageInv => FullyMerged
  BY InvMerged
<1> QED BY <1>1, PageInvariant, PTL
=============================================================================
