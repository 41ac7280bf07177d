---------------------------- MODULE BallocProofs ----------------------------
(***************************************************************************)
(* Proofs about the bootstrap allocator: its inductive invariant BallocInv *)
(* and from it that the ranges of a tree stay apart, that reserved memory  *)
(* is never free or handed out, and that memory is handed out once and not *)
(* lost.  They hold for every memory map, overlapping entries included,    *)
(* any number of nodes and any requests.                                   *)
(***************************************************************************)
EXTENDS Balloc, QueueTheorems

-----------------------------------------------------------------------------
(* Pieces of sequences *)

\* n is t with r in place of what is after the a-th and before the b-th.
Spliced(n, t, a, b, r) ==
    /\ Len(n) = Len(t) + a + 2 - b
    /\ \A i \in 1 .. a : n[i] = t[i]
    /\ n[a + 1] = r
    /\ \A i \in a + 2 .. Len(t) + a + 2 - b : n[i] = t[i + b - (a + 2)]

\* A tree with a range in place of some of its own.
LEMMA SpliceIs ==
    ASSUME NEW S, NEW t \in Seq(S), NEW a, NEW b, NEW r \in S,
           a \in 0 .. Len(t) /\ b \in a + 1 .. Len(t) + 1
    PROVE  Splice(t, a, b, r) \in Seq(S) /\ Spliced(Splice(t, a, b, r), t, a, b, r)
<1>1. Len(t) \in Nat /\ \A i \in 1 .. Len(t) : t[i] \in S
  BY LenProperties, ElementOfSeq
<1> DEFINE f == SubSeq(t, 1, a)  g == SubSeq(t, b, Len(t))  h == f \o <<r>>  s == h \o g
<1>2. /\ f \in Seq(S) /\ Len(f) = a /\ \A i \in 1 .. a : f[i] = t[i]
      /\ g \in Seq(S) /\ Len(g) = Len(t) + 1 - b
      /\ \A i \in 1 .. Len(t) + 1 - b : g[i] = t[b + i - 1]
  BY EndsOf
<1>3. Splice(t, a, b, r) = s
  BY DEF Splice
<1> HIDE DEF f, g
<1>4. <<r>> \in Seq(S) /\ Len(<<r>>) = 1 /\ <<r>>[1] = r
  OBVIOUS
<1>5. /\ h \in Seq(S) /\ Len(h) = a + 1
      /\ \A i \in 1 .. a : h[i] = t[i]
      /\ h[a + 1] = r
  <2>1. /\ h \in Seq(S) /\ Len(h) = Len(f) + 1
        /\ \A i \in 1 .. Len(f) + 1 : h[i] = IF i <= Len(f) THEN f[i] ELSE <<r>>[i - Len(f)]
    BY <1>2, <1>4, ConcatProperties
  <2> HIDE DEF h
  <2>2. /\ \A i \in 1 .. a : i \in 1 .. a + 1 /\ i <= a
        /\ a + 1 \in 1 .. a + 1 /\ ~ (a + 1 <= a) /\ a + 1 - a = 1
    OBVIOUS
  <2>3. ASSUME NEW i \in 1 .. a PROVE h[i] = t[i]
    BY <1>2, <2>1, <2>2
  <2>4. h[a + 1] = r
    BY <1>2, <1>4, <2>1, <2>2
  <2> QED BY <1>2, <2>1, <2>3, <2>4
<1> HIDE DEF h
<1>6. /\ s \in Seq(S) /\ Len(s) = Len(h) + Len(g)
      /\ \A i \in 1 .. Len(h) + Len(g) : s[i] = IF i <= Len(h) THEN h[i] ELSE g[i - Len(h)]
  BY <1>2, <1>5, ConcatProperties
<1> HIDE DEF s
<1>7. Len(s) = Len(t) + a + 2 - b
  BY <1>1, <1>2, <1>5, <1>6
<1>8. ASSUME NEW i \in 1 .. a PROVE s[i] = t[i]
  <2>1. i \in 1 .. Len(h) + Len(g) /\ i <= Len(h)
    BY <1>1, <1>2, <1>5
  <2> QED BY <1>5, <1>6, <2>1
<1>9. s[a + 1] = r
  <2>1. a + 1 \in 1 .. Len(h) + Len(g) /\ a + 1 <= Len(h)
    BY <1>1, <1>2, <1>5
  <2> QED BY <1>5, <1>6, <2>1
<1>10. ASSUME NEW i \in a + 2 .. Len(t) + a + 2 - b PROVE s[i] = t[i + b - (a + 2)]
  <2>1. /\ i \in 1 .. Len(h) + Len(g) /\ ~ (i <= Len(h)) /\ i - Len(h) = i - (a + 1)
        /\ i - (a + 1) \in 1 .. Len(t) + 1 - b
        /\ b + (i - (a + 1)) - 1 = i + b - (a + 2)
    BY <1>1, <1>2, <1>5
  <2> DEFINE j == i - (a + 1)
  <2>2. s[i] = g[j]
    BY <1>6, <2>1
  <2>3. g[j] = t[b + j - 1]
    BY <1>2, <2>1
  <2>4. b + j - 1 = i + b - (a + 2)
    BY <2>1
  <2> QED BY <2>2, <2>3, <2>4
<1> QED BY <1>3, <1>6, <1>7, <1>8, <1>9, <1>10 DEF Spliced

-----------------------------------------------------------------------------
(* Trees *)

\* The ranges of a tree are apart, in whatever order they are taken.
LEMMA RangesOfTree ==
    ASSUME NEW t, Ordered(t)
    PROVE  /\ t \in Seq(Extent) /\ Len(t) \in Nat
           /\ \A i \in 1 .. Len(t) :
                t[i] \in Extent /\ t[i].begin \in Nat /\ t[i].end \in Nat /\ t[i].begin < t[i].end
           /\ IsInjective(t)
           /\ \A y, z : Contains(t, y) /\ Contains(t, z) /\ y # z
                          => y.end < z.begin \/ z.end < y.begin
<1>1. /\ t \in Seq(Extent) /\ Len(t) \in Nat /\ DOMAIN t = 1 .. Len(t)
      /\ \A i \in 1 .. Len(t) : t[i] \in Extent
  BY LenProperties, ElementOfSeq DEF Ordered
<1>2. \A i \in 1 .. Len(t) : t[i].begin \in Nat /\ t[i].end \in Nat /\ t[i].begin < t[i].end
  BY <1>1 DEF Ordered, Extent
<1>3. \A i, j \in 1 .. Len(t) : i # j => t[i].end < t[j].begin \/ t[j].end < t[i].begin
  BY <1>1 DEF Ordered
<1>4. IsInjective(t)
  BY <1>1, <1>2, <1>3 DEF IsInjective
<1>5. ASSUME NEW y, NEW z, Contains(t, y), Contains(t, z), y # z
      PROVE  y.end < z.begin \/ z.end < y.begin
  <2>1. PICK i \in 1 .. Len(t) : t[i] = y
    BY <1>5 DEF Contains
  <2>2. PICK j \in 1 .. Len(t) : t[j] = z
    BY <1>5 DEF Contains
  <2> QED BY <1>3, <1>5, <2>1, <2>2
<1> QED BY <1>1, <1>2, <1>4, <1>5

\* The searches go down to the first range that begins at x or later, and to
\* the first that ends after x.
LEMMA SearchEnds ==
    ASSUME NEW t, Ordered(t), NEW x \in Nat
    PROVE  /\ FirstFrom(t, x) \in 1 .. Len(t) + 1
           /\ \A i \in 1 .. Len(t) : t[i].begin >= x <=> i >= FirstFrom(t, x)
           /\ FirstBeyond(t, x) \in 1 .. Len(t) + 1
           /\ \A i \in 1 .. Len(t) : t[i].end > x <=> i >= FirstBeyond(t, x)
<1>1. /\ Len(t) \in Nat
      /\ \A i \in 1 .. Len(t) : t[i].begin \in Nat /\ t[i].end \in Nat /\ t[i].begin < t[i].end
  BY RangesOfTree
<1>2. \A i, j \in 1 .. Len(t) : i < j => t[i].end < t[j].begin
  BY DEF Ordered
<1> DEFINE A == {i \in 1 .. Len(t) + 1 : i = Len(t) + 1 \/ t[i].begin >= x}
           B == {i \in 1 .. Len(t) + 1 : i = Len(t) + 1 \/ t[i].end > x}
<1>3. A \in SUBSET Nat /\ A # {} /\ B \in SUBSET Nat /\ B # {}
  <2>1. Len(t) + 1 \in A /\ Len(t) + 1 \in B
    BY <1>1
  <2> QED BY <1>1, <2>1
<1>4. /\ FirstFrom(t, x) \in A /\ \A y \in A : FirstFrom(t, x) <= y
      /\ FirstBeyond(t, x) \in B /\ \A y \in B : FirstBeyond(t, x) <= y
  BY <1>3, LeastOf DEF FirstFrom, FirstBeyond
<1>5. ASSUME NEW i \in 1 .. Len(t)
      PROVE  t[i].begin >= x <=> i >= FirstFrom(t, x)
  <2> DEFINE k == FirstFrom(t, x)
  <2>1. k \in A /\ (i \in A => k <= i)
    BY <1>4
  <2>2. CASE i = k
    BY <1>1, <2>1, <2>2
  <2>3. CASE k < i
    <3>1. k \in 1 .. Len(t) /\ t[k].begin >= x
      BY <1>1, <2>1, <2>3
    <3> QED BY <1>1, <1>2, <2>3, <3>1
  <2>4. CASE i < k
    BY <1>1, <2>1, <2>4
  <2> QED BY <1>1, <2>1, <2>2, <2>3, <2>4
<1>6. ASSUME NEW i \in 1 .. Len(t)
      PROVE  t[i].end > x <=> i >= FirstBeyond(t, x)
  <2> DEFINE k == FirstBeyond(t, x)
  <2>1. k \in B /\ (i \in B => k <= i)
    BY <1>4
  <2>2. CASE i = k
    BY <1>1, <2>1, <2>2
  <2>3. CASE k < i
    <3>1. k \in 1 .. Len(t) /\ t[k].end > x
      BY <1>1, <2>1, <2>3
    <3> QED BY <1>1, <1>2, <2>3, <3>1
  <2>4. CASE i < k
    BY <1>1, <2>1, <2>4
  <2> QED BY <1>1, <2>1, <2>2, <2>3, <2>4
<1> QED BY <1>4, <1>5, <1>6

\* rb_erase() of one range.
LEMMA EraseEffect ==
    ASSUME NEW t, Ordered(t), NEW r, Contains(t, r)
    PROVE  /\ Ordered(RemoveFirst(t, r))
           /\ Len(RemoveFirst(t, r)) = Len(t) - 1
           /\ \A y : Contains(RemoveFirst(t, r), y) <=> Contains(t, y) /\ y # r
<1>1. /\ t \in Seq(Extent) /\ Len(t) \in Nat /\ IsInjective(t) /\ DOMAIN t = 1 .. Len(t)
      /\ \A i \in 1 .. Len(t) : t[i].begin < t[i].end
      /\ \A i, j \in 1 .. Len(t) : i < j => t[i].end < t[j].begin
  BY RangesOfTree, LenProperties DEF Ordered
<1>2. PICK k \in 1 .. Len(t) : t[k] = r
  BY DEF Contains
<1>3. {i \in 1 .. Len(t) : t[i] = r} = {k}
  BY <1>1, <1>2 DEF IsInjective
<1>4. Min({k}) = k
  BY <1>1, <1>2 DEF Min
<1> DEFINE e == RemoveFirst(t, r)  f == SubSeq(t, 1, k - 1)  g == SubSeq(t, k + 1, Len(t))
<1>5. e = f \o g
  BY <1>2, <1>3, <1>4 DEF RemoveFirst, SelectInSeq, RemoveAt
<1>6. /\ f \in Seq(Extent) /\ Len(f) = k - 1 /\ \A i \in 1 .. k - 1 : f[i] = t[i]
      /\ g \in Seq(Extent) /\ Len(g) = Len(t) + 1 - (k + 1)
      /\ \A i \in 1 .. Len(t) + 1 - (k + 1) : g[i] = t[k + 1 + i - 1]
  <2>1. k - 1 \in 0 .. Len(t) /\ k + 1 \in (k - 1) + 1 .. Len(t) + 1
    BY <1>1
  <2> QED BY <1>1, <2>1, EndsOf
<1> HIDE DEF f, g
<1>8. \A y : Contains(e, y) <=> Contains(t, y) /\ y # r
  BY <1>1, RemoveMembers
<1> HIDE DEF e
<1>7. /\ e \in Seq(Extent) /\ Len(e) = Len(f) + Len(g)
      /\ \A i \in 1 .. Len(f) + Len(g) : e[i] = IF i <= Len(f) THEN f[i] ELSE g[i - Len(f)]
  <2> DEFINE w == f \o g
  <2>1. /\ w \in Seq(Extent) /\ Len(w) = Len(f) + Len(g)
        /\ \A i \in 1 .. Len(f) + Len(g) : w[i] = IF i <= Len(f) THEN f[i] ELSE g[i - Len(f)]
    BY <1>6, ConcatProperties
  <2> HIDE DEF w
  <2>2. e = w
    BY <1>5 DEF w
  <2> QED BY <2>1, <2>2
<1>9. Len(e) = Len(t) - 1
  <2>1. Len(e) = Len(f) + Len(g) /\ Len(f) = k - 1 /\ Len(g) = Len(t) + 1 - (k + 1)
    BY <1>6, <1>7
  <2>2. k \in Int /\ Len(t) \in Int
    BY <1>1, <1>2
  <2> QED BY <2>1, <2>2
<1>10. ASSUME NEW i \in 1 .. Len(e)
       PROVE  /\ i < k => i \in 1 .. Len(t) /\ e[i] = t[i]
              /\ i >= k => i + 1 \in 1 .. Len(t) /\ e[i] = t[i + 1]
  <2>1. CASE i < k
    BY <1>1, <1>6, <1>7, <1>9, <2>1
  <2>2. CASE i >= k
    <3> DEFINE j == i - (k - 1)
    <3>1. j \in 1 .. Len(t) + 1 - (k + 1) /\ k + 1 + j - 1 = i + 1 /\ i + 1 \in 1 .. Len(t)
      BY <1>1, <1>9, <2>2
    <3>2. ~ (i <= Len(f)) /\ i - Len(f) = j /\ i \in 1 .. Len(f) + Len(g)
      BY <1>1, <1>6, <1>9, <2>2
    <3>3. e[i] = g[j]
      BY <1>7, <3>2
    <3>4. g[j] = t[k + 1 + j - 1]
      BY <1>6, <3>1
    <3> QED BY <1>1, <2>2, <3>1, <3>3, <3>4
  <2> QED BY <2>1, <2>2
<1>11. ASSUME NEW i \in 1 .. Len(e), NEW j \in 1 .. Len(e), i < j
       PROVE  e[i].end < e[j].begin
  <2>1. CASE j < k
    BY <1>1, <1>10, <1>11, <2>1
  <2>2. CASE i < k /\ j >= k
    <3>1. i \in 1 .. Len(t) /\ j + 1 \in 1 .. Len(t) /\ i < j + 1
      BY <1>10, <1>11, <2>2
    <3> QED BY <1>1, <1>10, <2>2, <3>1
  <2>3. CASE i >= k
    <3>1. i + 1 \in 1 .. Len(t) /\ j + 1 \in 1 .. Len(t) /\ i + 1 < j + 1 /\ j >= k
      BY <1>10, <1>11, <2>3
    <3> QED BY <1>1, <1>10, <2>3, <3>1
  <2> QED BY <1>11, <2>1, <2>2, <2>3
<1>12. ASSUME NEW i \in 1 .. Len(e) PROVE e[i].begin < e[i].end
  <2>1. CASE i < k
    BY <1>1, <1>10, <2>1
  <2>2. CASE i >= k
    BY <1>1, <1>10, <2>2
  <2> QED BY <2>1, <2>2
<1>13. Ordered(e)
  BY <1>7, <1>11, <1>12 DEF Ordered
<1> QED BY <1>8, <1>9, <1>13 DEF e

\* The range that replaces those between the a-th and the b-th of a tree when
\* from .. to is added, and how it lies to the others.
Joins(t, a, b, begin, end, from, to) ==
    /\ begin < end
    /\ \A i \in 1 .. a : t[i].end < begin
    /\ \A i \in b .. Len(t) : end < t[i].begin
    /\ \A i \in a + 1 .. b - 1 : begin <= t[i].begin /\ t[i].end <= end
    /\ \A x \in begin .. end - 1 :
         x \in from .. to - 1 \/ \E i \in a + 1 .. b - 1 : x \in t[i].begin .. t[i].end - 1
    /\ (\A i \in 1 .. Len(t) : t[i].end <= from \/ t[i].begin >= to) => begin <= from /\ to <= end
    /\ (\A i \in 1 .. Len(t) : t[i].end < from \/ t[i].begin > to)
         => b = a + 1 /\ begin = from /\ end = to

\* __balloc_add_range(), whichever neighbours it joins.
LEMMA AddShape ==
    ASSUME NEW s, Ordered(s.tree), s.spare \in Int,
           NEW from \in Nat, NEW to \in Nat, from < to
    PROVE  \E a \in 0 .. Len(s.tree) : \E b \in a + 1 .. Len(s.tree) + 1 :
           \E begin \in Nat : \E end \in Nat :
             /\ AddRange(s, from, to).tree = Splice(s.tree, a, b, Span(begin, end))
             /\ AddRange(s, from, to).spare = s.spare + (b - a) - 2
             /\ Joins(s.tree, a, b, begin, end, from, to)
<1> DEFINE k == FirstFrom(s.tree, from) - 1
           prev == JoinsPrev(s.tree, k, from)
           begin == IF prev THEN s.tree[k].begin ELSE from
           reach == IF prev /\ s.tree[k].end > to THEN s.tree[k].end ELSE to
           next == JoinsNext(s.tree, k, reach)
           end == IF next THEN s.tree[k + 1].end ELSE reach
           a == IF prev THEN k - 1 ELSE k
           b == IF next THEN k + 2 ELSE k + 1
<1>1. /\ AddRange(s, from, to).tree = Splice(s.tree, a, b, Span(begin, end))
      /\ AddRange(s, from, to).spare
           = s.spare - 1 + (IF prev THEN 1 ELSE 0) + (IF next THEN 1 ELSE 0)
  BY DEF AddRange
<1>2. PICK t : t = s.tree
  OBVIOUS
<1>3. /\ Len(t) \in Nat
      /\ \A i \in 1 .. Len(t) : t[i].begin \in Nat /\ t[i].end \in Nat /\ t[i].begin < t[i].end
      /\ \A i, j \in 1 .. Len(t) : i < j => t[i].end < t[j].begin
  BY <1>2, RangesOfTree DEF Ordered
<1>4. /\ k \in 0 .. Len(t)
      /\ \A i \in 1 .. Len(t) : t[i].begin >= from <=> i >= k + 1
  <2>1. /\ FirstFrom(t, from) \in 1 .. Len(t) + 1
        /\ \A i \in 1 .. Len(t) : t[i].begin >= from <=> i >= FirstFrom(t, from)
    BY <1>2, SearchEnds
  <2>2. k = FirstFrom(t, from) - 1
    BY <1>2
  <2> QED BY <1>3, <2>1, <2>2
<1>5. /\ prev <=> k > 0 /\ t[k].end >= from
      /\ next <=> k < Len(t) /\ t[k + 1].begin <= reach
      /\ begin = IF prev THEN t[k].begin ELSE from
      /\ reach = IF prev /\ t[k].end > to THEN t[k].end ELSE to
      /\ end = IF next THEN t[k + 1].end ELSE reach
      /\ a = IF prev THEN k - 1 ELSE k
      /\ b = IF next THEN k + 2 ELSE k + 1
  BY <1>2 DEF JoinsPrev, JoinsNext
<1> HIDE DEF k, prev, begin, reach, next, end, a, b
<1>6. /\ k > 0 => k \in 1 .. Len(t) /\ t[k].begin < from
      /\ k < Len(t) => k + 1 \in 1 .. Len(t) /\ t[k + 1].begin >= from
  BY <1>3, <1>4
<1>7. begin \in Nat /\ reach \in Nat /\ end \in Nat /\ begin <= from /\ to <= reach
  BY <1>3, <1>4, <1>5, <1>6
<1>8. a \in 0 .. Len(t) /\ b \in a + 1 .. Len(t) + 1 /\ a \in {k - 1, k} /\ b \in {k + 1, k + 2}
  BY <1>3, <1>4, <1>5
<1>9. AddRange(s, from, to).spare = s.spare + (b - a) - 2
  <2>1. CASE prev /\ next
    <3>1. AddRange(s, from, to).spare = s.spare - 1 + 1 + 1 /\ a = k - 1 /\ b = k + 2
      BY <1>1, <1>5, <2>1
    <3>2. k \in Int /\ b - a = 3
      BY <1>4, <3>1
    <3> QED BY <3>1, <3>2
  <2>2. CASE prev /\ ~ next
    BY <1>1, <1>4, <1>5, <2>2
  <2>3. CASE ~ prev /\ next
    BY <1>1, <1>4, <1>5, <2>3
  <2>4. CASE ~ prev /\ ~ next
    BY <1>1, <1>4, <1>5, <2>4
  <2> QED BY <2>1, <2>2, <2>3, <2>4
<1>10. begin < end
  <2>1. CASE next
    <3>1. k + 1 \in 1 .. Len(t) /\ t[k + 1].begin >= from /\ end = t[k + 1].end
      BY <1>5, <1>6, <2>1
    <3> QED BY <1>3, <1>7, <3>1
  <2>2. CASE ~ next
    BY <1>5, <1>7, <2>2
  <2> QED BY <2>1, <2>2
<1>11. ASSUME NEW i \in 1 .. a PROVE t[i].end < begin
  <2>1. CASE prev
    <3>1. i \in 1 .. Len(t) /\ k \in 1 .. Len(t) /\ i < k
      BY <1>3, <1>4, <1>5, <1>8, <2>1
    <3> QED BY <1>3, <1>5, <2>1, <3>1
  <2>2. CASE ~ prev
    <3>1. i \in 1 .. Len(t) /\ k \in 1 .. Len(t) /\ i <= k
      BY <1>3, <1>4, <1>5, <1>8, <2>2
    <3>2. t[k].end < from /\ begin = from
      BY <1>3, <1>5, <2>2, <3>1
    <3> QED BY <1>3, <3>1, <3>2
  <2> QED BY <2>1, <2>2
<1>12. ASSUME NEW i \in b .. Len(t) PROVE end < t[i].begin
  <2>1. CASE next
    <3>1. i \in 1 .. Len(t) /\ k + 1 \in 1 .. Len(t) /\ k + 1 < i
      BY <1>3, <1>4, <1>5, <1>8, <2>1
    <3> QED BY <1>3, <1>5, <2>1, <3>1
  <2>2. CASE ~ next
    <3>1. i \in 1 .. Len(t) /\ k + 1 \in 1 .. Len(t) /\ k + 1 <= i /\ k < Len(t)
      BY <1>3, <1>4, <1>5, <1>8, <2>2
    <3>2. reach < t[k + 1].begin /\ end = reach
      <4>1. ~ (t[k + 1].begin <= reach) /\ end = reach
        BY <1>5, <2>2, <3>1
      <4>2. t[k + 1].begin \in Nat
        BY <1>3, <3>1
      <4> QED BY <1>7, <4>1, <4>2
    <3>3. t[k + 1].begin <= t[i].begin
      BY <1>3, <3>1
    <3> QED BY <1>3, <1>7, <3>1, <3>2, <3>3
  <2> QED BY <2>1, <2>2
<1>13. \A i \in a + 1 .. b - 1 : (i = k /\ prev) \/ (i = k + 1 /\ next)
  BY <1>4, <1>5
<1>14. /\ prev => k \in a + 1 .. b - 1 /\ k \in 1 .. Len(t)
       /\ next => k + 1 \in a + 1 .. b - 1 /\ k + 1 \in 1 .. Len(t)
  BY <1>3, <1>4, <1>5
<1>15. prev => begin <= t[k].begin /\ t[k].end <= reach
  BY <1>3, <1>5, <1>7, <1>14
<1>16. next => t[k + 1].begin >= from /\ t[k + 1].begin <= reach /\ t[k + 1].end = end
  BY <1>3, <1>5, <1>6, <1>14
<1>17. prev => t[k].end <= end
  <2>1. CASE prev /\ next
    <3>1. k \in 1 .. Len(t) /\ k + 1 \in 1 .. Len(t) /\ k < k + 1
      BY <1>4, <1>14, <2>1
    <3>2. t[k].end < t[k + 1].begin /\ t[k + 1].begin < t[k + 1].end
      BY <1>3, <3>1
    <3>3. t[k + 1].end = end
      BY <1>16, <2>1
    <3>4. t[k].end \in Nat /\ t[k + 1].begin \in Nat /\ end \in Nat
      BY <1>3, <1>7, <3>1
    <3> QED BY <3>2, <3>3, <3>4
  <2>2. CASE prev /\ ~ next
    BY <1>5, <1>15, <2>2
  <2> QED BY <2>1, <2>2
<1>18. ASSUME NEW i \in a + 1 .. b - 1 PROVE begin <= t[i].begin /\ t[i].end <= end
  <2>1. CASE i = k /\ prev
    BY <1>15, <1>17, <2>1
  <2>2. CASE i = k + 1 /\ next
    BY <1>3, <1>7, <1>14, <1>16, <2>2
  <2> QED BY <1>13, <2>1, <2>2
<1>19. ASSUME NEW x \in begin .. end - 1
       PROVE  x \in from .. to - 1 \/ \E i \in a + 1 .. b - 1 : x \in t[i].begin .. t[i].end - 1
  <2>1. CASE x < from
    <3>1. prev /\ t[k].begin = begin /\ t[k].end >= from
      BY <1>5, <1>7, <2>1
    <3>2. k \in a + 1 .. b - 1 /\ x \in t[k].begin .. t[k].end - 1
      BY <1>3, <1>7, <1>14, <2>1, <3>1
    <3> QED BY <3>2
  <2>2. CASE from <= x /\ to <= x /\ x < reach
    <3>1. prev /\ reach = t[k].end
      BY <1>5, <1>7, <2>2
    <3>2. k \in a + 1 .. b - 1 /\ k \in 1 .. Len(t) /\ t[k].begin < from
      BY <1>5, <1>6, <1>14, <3>1
    <3>3. t[k].begin \in Nat /\ t[k].end \in Nat
      BY <1>3, <3>2
    <3>4. x \in t[k].begin .. t[k].end - 1
      BY <1>7, <2>2, <3>1, <3>2, <3>3
    <3> QED BY <3>2, <3>4
  <2>3. CASE from <= x /\ to <= x /\ reach <= x
    <3>1. next /\ end = t[k + 1].end
      BY <1>5, <1>7, <2>3
    <3>2. k + 1 \in a + 1 .. b - 1 /\ x \in t[k + 1].begin .. t[k + 1].end - 1
      BY <1>3, <1>7, <1>14, <1>16, <2>3, <3>1
    <3> QED BY <3>2
  <2> QED BY <1>7, <2>1, <2>2, <2>3
<1>20. ASSUME \A i \in 1 .. Len(t) : t[i].end <= from \/ t[i].begin >= to
       PROVE  begin <= from /\ to <= end
  <2>1. CASE next
    BY <1>3, <1>6, <1>7, <1>14, <1>16, <1>20, <2>1
  <2>2. CASE ~ next
    BY <1>5, <1>7, <2>2
  <2> QED BY <1>7, <2>1, <2>2
<1>21. ASSUME \A i \in 1 .. Len(t) : t[i].end < from \/ t[i].begin > to
       PROVE  b = a + 1 /\ begin = from /\ end = to
  <2>1. ~ prev
    <3>1. ASSUME prev PROVE FALSE
      <4>1. k \in 1 .. Len(t) /\ t[k].end >= from /\ t[k].begin < from
        BY <1>5, <1>6, <3>1
      <4>2. t[k].end < from \/ t[k].begin > to
        BY <1>21, <4>1
      <4> QED BY <1>3, <4>1, <4>2
    <3> QED BY <3>1
  <2>2. reach = to
    BY <1>5, <2>1
  <2>3. ~ next
    BY <1>3, <1>6, <1>14, <1>16, <1>21, <2>2
  <2> QED BY <1>4, <1>5, <2>1, <2>2, <2>3
<1>22. Joins(t, a, b, begin, end, from, to)
  BY <1>10, <1>11, <1>12, <1>18, <1>19, <1>20, <1>21 DEF Joins
<1> QED BY <1>1, <1>2, <1>7, <1>8, <1>9, <1>22 DEF a, b, begin, end

\* An address is in a tree if one of its ranges holds it.
LEMMA BytesOfTree ==
    ASSUME NEW t, Ordered(t)
    PROVE  /\ \A x : x \in BytesOf(t) <=> \E i \in 1 .. Len(t) : x \in t[i].begin .. t[i].end - 1
           /\ \A x : x \in BytesOf(t) <=> \E r : Contains(t, r) /\ x \in Bytes(r)
<1>1. DOMAIN t = 1 .. Len(t)
  BY RangesOfTree, LenProperties
<1>2. \A x : x \in BytesOf(t) <=> \E i \in 1 .. Len(t) : x \in Bytes(t[i])
  BY <1>1 DEF BytesOf
<1> QED BY <1>2 DEF Bytes, Contains

\* begin .. end lies between the a-th and the b-th range.
LiesBetween(t, a, b, begin, end) ==
    /\ begin < end
    /\ \A i \in 1 .. a : t[i].end < begin
    /\ \A i \in b .. Len(t) : end < t[i].begin

\* A tree with a range in place of some is a tree if it lies between the rest.
LEMMA SpliceOrdered ==
    ASSUME NEW t, Ordered(t), NEW a \in 0 .. Len(t), NEW b \in a + 1 .. Len(t) + 1,
           NEW begin \in Nat, NEW end \in Nat, LiesBetween(t, a, b, begin, end)
    PROVE  /\ Ordered(Splice(t, a, b, Span(begin, end)))
           /\ Len(Splice(t, a, b, Span(begin, end))) = Len(t) + a + 2 - b
           /\ \A y : Contains(Splice(t, a, b, Span(begin, end)), y)
                       <=> \/ y = Span(begin, end)
                           \/ \E i \in 1 .. Len(t) : (i <= a \/ i >= b) /\ y = t[i]
<1> USE DEF LiesBetween
<1> DEFINE r == Span(begin, end)  n == Splice(t, a, b, r)
<1>1. /\ t \in Seq(Extent) /\ Len(t) \in Nat
      /\ \A i \in 1 .. Len(t) : t[i].begin \in Nat /\ t[i].end \in Nat /\ t[i].begin < t[i].end
      /\ \A i, j \in 1 .. Len(t) : i < j => t[i].end < t[j].begin
  BY RangesOfTree DEF Ordered
<1>2. r \in Extent /\ r.begin = begin /\ r.end = end
  BY DEF Span, Extent
<1> HIDE DEF r
<1>3. /\ n \in Seq(Extent)
      /\ Len(n) = Len(t) + a + 2 - b
      /\ \A i \in 1 .. a : n[i] = t[i]
      /\ n[a + 1] = r
      /\ \A i \in a + 2 .. Len(t) + a + 2 - b : n[i] = t[i + b - (a + 2)]
  <2>1. r \in Extent /\ t \in Seq(Extent) /\ a \in 0 .. Len(t) /\ b \in a + 1 .. Len(t) + 1
    BY <1>1, <1>2
  <2>2. n \in Seq(Extent) /\ Spliced(n, t, a, b, r)
    BY <2>1, SpliceIs, Zenon
  <2> HIDE DEF n
  <2> QED BY <2>2 DEF Spliced
<1> HIDE DEF n
<1>4. ASSUME NEW i \in 1 .. Len(n)
      PROVE  \/ i \in 1 .. a /\ i \in 1 .. Len(t) /\ n[i] = t[i]
             \/ i = a + 1 /\ n[i] = r
             \/ i >= a + 2 /\ i + b - (a + 2) \in b .. Len(t) /\ n[i] = t[i + b - (a + 2)]
  <2>1. Len(n) = Len(t) + a + 2 - b /\ Len(t) \in Nat
    BY <1>1, <1>3
  <2>2. CASE i <= a
    BY <1>3, <2>1, <2>2
  <2>3. CASE i = a + 1
    BY <1>3, <2>3
  <2>4. CASE i >= a + 2
    <3>1. i \in a + 2 .. Len(t) + a + 2 - b /\ i + b - (a + 2) \in b .. Len(t)
      BY <2>1, <2>4
    <3> QED BY <1>3, <2>4, <3>1
  <2> QED BY <2>1, <2>2, <2>3, <2>4
<1>5. ASSUME NEW i \in 1 .. Len(n) PROVE n[i].begin < n[i].end
  <2>1. CASE i \in 1 .. Len(t) /\ n[i] = t[i]
    BY <1>1, <2>1
  <2>2. CASE n[i] = r
    BY <1>2, <2>2
  <2>3. CASE i + b - (a + 2) \in b .. Len(t) /\ n[i] = t[i + b - (a + 2)]
    <3>1. i + b - (a + 2) \in 1 .. Len(t)
      BY <1>1, <2>3
    <3> QED BY <1>1, <2>3, <3>1
  <2> QED BY <1>4, <2>1, <2>2, <2>3
<1>6. ASSUME NEW i \in 1 .. Len(n), NEW j \in 1 .. Len(n), i < j
      PROVE  n[i].end < n[j].begin
  <2> DEFINE u == i + b - (a + 2)  v == j + b - (a + 2)
  <2>1. CASE i \in 1 .. a /\ i \in 1 .. Len(t) /\ n[i] = t[i]
    <3>1. CASE j \in 1 .. a /\ j \in 1 .. Len(t) /\ n[j] = t[j]
      BY <1>1, <1>6, <2>1, <3>1
    <3>2. CASE j = a + 1 /\ n[j] = r
      BY <1>2, <2>1, <3>2
    <3>3. CASE j >= a + 2 /\ v \in b .. Len(t) /\ n[j] = t[v]
      <4>1. v \in 1 .. Len(t) /\ i < v
        BY <1>1, <2>1, <3>3
      <4> QED BY <1>1, <2>1, <3>3, <4>1
    <3> QED BY <1>4, <3>1, <3>2, <3>3
  <2>2. CASE i = a + 1 /\ n[i] = r
    <3>1. j >= a + 2 /\ v \in b .. Len(t) /\ n[j] = t[v]
      BY <1>1, <1>4, <1>6, <2>2
    <3> QED BY <1>2, <2>2, <3>1
  <2>3. CASE i >= a + 2 /\ u \in b .. Len(t) /\ n[i] = t[u]
    <3>1. j >= a + 2 /\ v \in b .. Len(t) /\ n[j] = t[v]
      BY <1>1, <1>4, <1>6, <2>3
    <3>2. u \in 1 .. Len(t) /\ v \in 1 .. Len(t) /\ u < v
      BY <1>1, <1>6, <2>3, <3>1
    <3> QED BY <1>1, <2>3, <3>1, <3>2
  <2> QED BY <1>4, <2>1, <2>2, <2>3
<1>7. ASSUME NEW y, Contains(n, y)
      PROVE  y = r \/ \E i \in 1 .. Len(t) : (i <= a \/ i >= b) /\ y = t[i]
  <2>1. PICK i \in 1 .. Len(n) : n[i] = y
    BY <1>7 DEF Contains
  <2>2. CASE i \in 1 .. a /\ i \in 1 .. Len(t) /\ n[i] = t[i]
    BY <2>1, <2>2
  <2>3. CASE n[i] = r
    BY <2>1, <2>3
  <2>4. CASE i >= a + 2 /\ i + b - (a + 2) \in b .. Len(t) /\ n[i] = t[i + b - (a + 2)]
    <3>1. i + b - (a + 2) \in 1 .. Len(t) /\ i + b - (a + 2) >= b
      BY <1>1, <2>4
    <3> QED BY <2>1, <2>4, <3>1
  <2> QED BY <1>4, <2>1, <2>2, <2>3, <2>4
<1>8. ASSUME NEW i \in 1 .. Len(t), i <= a PROVE Contains(n, t[i])
  <2>1. i \in 1 .. Len(n) /\ n[i] = t[i]
    BY <1>1, <1>3, <1>8
  <2> QED BY <2>1 DEF Contains
<1>9. ASSUME NEW i \in 1 .. Len(t), i >= b PROVE Contains(n, t[i])
  <2> DEFINE j == i - b + (a + 2)
  <2>1. j \in 1 .. Len(n) /\ j \in a + 2 .. Len(t) + a + 2 - b /\ j + b - (a + 2) = i
    BY <1>1, <1>3, <1>9
  <2>2. n[j] = t[i]
    BY <1>3, <2>1
  <2> QED BY <2>1, <2>2 DEF Contains
<1>10. Contains(n, r)
  <2>1. a + 1 \in 1 .. Len(n)
    BY <1>1, <1>3
  <2> QED BY <1>3, <2>1 DEF Contains
<1>11. Ordered(n)
  BY <1>3, <1>5, <1>6 DEF Ordered
<1> QED BY <1>3, <1>7, <1>8, <1>9, <1>10, <1>11 DEF r, n

\* No range of a tree reaches from .. to.
Clear(t, from, to) == \A y : Contains(t, y) => y.end < from \/ y.begin > to

\* __balloc_add_range(): the tree stays one, no node is lost, memory is added
\* and none but the range's; all of it if none was there, and as a range of its
\* own if no other reaches it.
LEMMA AddEffect ==
    ASSUME NEW s, Ordered(s.tree), s.spare \in Int,
           NEW from \in Nat, NEW to \in Nat, from < to
    PROVE  /\ Ordered(AddRange(s, from, to).tree)
           /\ AddRange(s, from, to).spare \in Int
           /\ Len(AddRange(s, from, to).tree) + AddRange(s, from, to).spare
                = Len(s.tree) + s.spare
           /\ AddRange(s, from, to).spare >= s.spare - 1
           /\ BytesOf(s.tree) \subseteq BytesOf(AddRange(s, from, to).tree)
           /\ BytesOf(AddRange(s, from, to).tree) \subseteq BytesOf(s.tree) \cup from .. to - 1
           /\ BytesOf(s.tree) \cap (from .. to - 1) = {}
                => from .. to - 1 \subseteq BytesOf(AddRange(s, from, to).tree)
           /\ Clear(s.tree, from, to)
                => \A y : Contains(AddRange(s, from, to).tree, y)
                            <=> Contains(s.tree, y) \/ y = Span(from, to)
<1>0. PICK a \in 0 .. Len(s.tree) : \E b \in a + 1 .. Len(s.tree) + 1 :
           \E begin \in Nat : \E end \in Nat :
             /\ AddRange(s, from, to).tree = Splice(s.tree, a, b, Span(begin, end))
             /\ AddRange(s, from, to).spare = s.spare + (b - a) - 2
             /\ Joins(s.tree, a, b, begin, end, from, to)
  BY AddShape
<1>1. PICK b \in a + 1 .. Len(s.tree) + 1, begin \in Nat, end \in Nat :
         /\ AddRange(s, from, to).tree = Splice(s.tree, a, b, Span(begin, end))
         /\ AddRange(s, from, to).spare = s.spare + (b - a) - 2
         /\ Joins(s.tree, a, b, begin, end, from, to)
  BY <1>0
<1>2. PICK t : t = s.tree
  OBVIOUS
<1>3. PICK n : n = AddRange(s, from, to).tree
  OBVIOUS
<1>4. /\ Ordered(t) /\ Len(t) \in Nat
      /\ \A i \in 1 .. Len(t) : t[i].begin \in Nat /\ t[i].end \in Nat /\ t[i].begin < t[i].end
  BY <1>2, RangesOfTree
<1>5. /\ a \in 0 .. Len(t) /\ b \in a + 1 .. Len(t) + 1 /\ begin \in Nat /\ end \in Nat
      /\ n = Splice(t, a, b, Span(begin, end))
      /\ Joins(t, a, b, begin, end, from, to)
  BY <1>0, <1>1, <1>2, <1>3
<1>6. LiesBetween(t, a, b, begin, end)
  BY <1>5 DEF Joins, LiesBetween
<1>7. /\ Ordered(n)
      /\ Len(n) = Len(t) + a + 2 - b
      /\ \A y : Contains(n, y)
                  <=> \/ y = Span(begin, end)
                      \/ \E i \in 1 .. Len(t) : (i <= a \/ i >= b) /\ y = t[i]
  <2> DEFINE m == Splice(t, a, b, Span(begin, end))
  <2>1. a \in 0 .. Len(t) /\ b \in a + 1 .. Len(t) + 1 /\ begin \in Nat /\ end \in Nat
    BY <1>5
  <2>2. /\ Ordered(m)
        /\ Len(m) = Len(t) + a + 2 - b
        /\ \A y : Contains(m, y)
                    <=> \/ y = Span(begin, end)
                        \/ \E i \in 1 .. Len(t) : (i <= a \/ i >= b) /\ y = t[i]
    BY <1>4, <1>6, <2>1, SpliceOrdered, ZenonT(60)
  <2> HIDE DEF m
  <2>3. n = m
    BY <1>5 DEF m
  <2> QED BY <2>2, <2>3
<1>8. /\ AddRange(s, from, to).spare \in Int
      /\ Len(n) + AddRange(s, from, to).spare = Len(t) + s.spare
      /\ AddRange(s, from, to).spare >= s.spare - 1
  <2>1. AddRange(s, from, to).spare = s.spare + (b - a) - 2
    BY <1>1
  <2>2. a \in Int /\ b \in Int /\ b >= a + 1 /\ Len(t) \in Int /\ Len(n) = Len(t) + a + 2 - b
    BY <1>4, <1>5, <1>7
  <2> QED BY <2>1, <2>2
<1> DEFINE r == Span(begin, end)
<1>9. r.begin = begin /\ r.end = end /\ Bytes(r) = begin .. end - 1
  BY DEF Span, Bytes
<1> HIDE DEF r
<1>10. /\ \A x : x \in BytesOf(t) <=> \E i \in 1 .. Len(t) : x \in Bytes(t[i])
       /\ \A x : x \in BytesOf(n) <=> \E y : Contains(n, y) /\ x \in Bytes(y)
  BY <1>4, <1>7, BytesOfTree DEF Bytes
<1>11. Contains(n, r) /\ \A i \in 1 .. Len(t) : i <= a \/ i >= b => Contains(n, t[i])
  BY <1>7 DEF r
<1>12. ASSUME NEW x \in BytesOf(t) PROVE x \in BytesOf(n)
  <2>1. PICK i \in 1 .. Len(t) : x \in Bytes(t[i])
    BY <1>10
  <2>2. CASE i <= a \/ i >= b
    BY <1>10, <1>11, <2>1, <2>2
  <2>3. CASE i \in a + 1 .. b - 1
    <3>1. begin <= t[i].begin /\ t[i].end <= end
      BY <1>5, <2>3 DEF Joins
    <3>2. x \in t[i].begin .. t[i].end - 1
      BY <2>1 DEF Bytes
    <3>3. x \in begin .. end - 1
      <4>1. t[i].begin \in Nat /\ t[i].end \in Nat /\ begin \in Nat /\ end \in Nat
        BY <1>4, <1>5, <2>1
      <4> QED BY <3>1, <3>2, <4>1
    <3>4. x \in Bytes(r)
      BY <1>9, <3>3
    <3> QED BY <1>10, <1>11, <3>4
  <2> QED BY <1>4, <1>5, <2>1, <2>2, <2>3
<1>13. ASSUME NEW x \in BytesOf(n) PROVE x \in BytesOf(t) \cup from .. to - 1
  <2>1. PICK y : Contains(n, y) /\ x \in Bytes(y)
    BY <1>10
  <2>2. CASE \E i \in 1 .. Len(t) : y = t[i]
    BY <1>10, <2>1, <2>2
  <2>3. CASE y = r
    <3>1. x \in begin .. end - 1
      BY <1>9, <2>1, <2>3
    <3>2. x \in from .. to - 1 \/ \E i \in a + 1 .. b - 1 : x \in t[i].begin .. t[i].end - 1
      BY <1>5, <3>1 DEF Joins
    <3>3. ASSUME NEW i \in a + 1 .. b - 1, x \in t[i].begin .. t[i].end - 1
          PROVE  x \in BytesOf(t)
      <4>1. i \in 1 .. Len(t)
        BY <1>4, <1>5
      <4> QED BY <1>10, <3>3, <4>1 DEF Bytes
    <3> QED BY <3>2, <3>3
  <2> QED BY <1>7, <2>1, <2>2, <2>3 DEF r
<1>14. ASSUME BytesOf(t) \cap (from .. to - 1) = {}
       PROVE  from .. to - 1 \subseteq BytesOf(n)
  <2>1. ASSUME NEW i \in 1 .. Len(t) PROVE t[i].end <= from \/ t[i].begin >= to
    <3>1. ASSUME t[i].end > from, t[i].begin < to PROVE FALSE
      <4>1. PICK x \in Nat : x = IF t[i].begin < from THEN from ELSE t[i].begin
        BY <1>4
      <4>2. x \in t[i].begin .. t[i].end - 1 /\ x \in from .. to - 1
        BY <1>4, <3>1, <4>1
      <4> QED BY <1>10, <1>14, <4>2 DEF Bytes
    <3> QED BY <1>4, <3>1
  <2>2. begin <= from /\ to <= end
    BY <1>5, <2>1 DEF Joins
  <2>3. from .. to - 1 \subseteq Bytes(r)
    BY <1>5, <1>9, <2>2
  <2> QED BY <1>10, <1>11, <2>3
<1>15. ASSUME Clear(t, from, to), NEW y
       PROVE  Contains(n, y) <=> Contains(t, y) \/ y = Span(from, to)
  <2>1. \A i \in 1 .. Len(t) : Contains(t, t[i])
    BY DEF Contains
  <2>2. \A i \in 1 .. Len(t) : t[i].end < from \/ t[i].begin > to
    BY <1>15, <2>1 DEF Clear
  <2>3. b = a + 1 /\ begin = from /\ end = to
    BY <1>5, <2>2 DEF Joins
  <2>4. \A i \in 1 .. Len(t) : i <= a \/ i >= b
    BY <1>4, <1>5, <2>3
  <2> QED BY <1>7, <2>3, <2>4 DEF Contains
<1> QED BY <1>2, <1>3, <1>7, <1>8, <1>12, <1>13, <1>14, <1>15

\* BUG_ON of balloc_alloc_node().
LEMMA AddBug ==
    ASSUME NEW s, NEW from, NEW to
    PROVE  AddRange(s, from, to).bug <=> s.bug \/ s.spare = 0
BY DEF AddRange

\* A tree whose nodes were there to link, unless the kernel stops.
Sane(s) == Ordered(s.tree) /\ s.spare \in Int /\ (s.bug \/ s.spare >= 0)

\* __balloc_add_range() again, with the check of balloc_alloc_node().
LEMMA AddSane ==
    ASSUME NEW s, Sane(s), NEW from \in Nat, NEW to \in Nat, from < to
    PROVE  Sane(AddRange(s, from, to))
<1>1. Ordered(s.tree) /\ s.spare \in Int /\ (s.bug \/ s.spare >= 0)
  BY DEF Sane
<1>2. /\ Ordered(AddRange(s, from, to).tree)
      /\ AddRange(s, from, to).spare \in Int
      /\ AddRange(s, from, to).spare >= s.spare - 1
  BY <1>1, AddEffect
<1>3. s.bug \/ s.spare = 0 => AddRange(s, from, to).bug
  BY AddBug
<1>4. CASE s.bug \/ s.spare = 0
  BY <1>2, <1>3, <1>4 DEF Sane
<1>5. CASE s.spare > 0
  <2>1. AddRange(s, from, to).spare >= 0
    BY <1>1, <1>2, <1>5
  <2> QED BY <1>2, <2>1 DEF Sane
<1>6. s.bug \/ s.spare = 0 \/ s.spare > 0
  <2>1. CASE s.bug
    BY <2>1
  <2>2. CASE s.spare >= 0
    BY <1>1, <2>2
  <2> QED BY <1>1, <2>1, <2>2
<1> QED BY <1>4, <1>5, <1>6

\* What a range leaves when from .. to is taken out of it.
Pieces(y, r, from, to) ==
    \/ r.begin < from /\ y = Span(r.begin, from)
    \/ r.end > to /\ y = Span(to, r.end)

\* One round of __balloc_remove_range(), and the end of __balloc_alloc(): the
\* range is replaced by its pieces, and no other is touched.
LEMMA CutOutEffect ==
    ASSUME NEW s, Sane(s), NEW r, Contains(s.tree, r),
           NEW from \in Nat, NEW to \in Nat, from < to, r.begin < to, r.end > from
    PROVE  /\ Sane(CutOut(s, r, from, to))
           /\ Len(CutOut(s, r, from, to).tree) + CutOut(s, r, from, to).spare
                = Len(s.tree) + s.spare
           /\ \A y : Contains(CutOut(s, r, from, to).tree, y)
                       <=> (Contains(s.tree, y) /\ y # r) \/ Pieces(y, r, from, to)
<1>1. Ordered(s.tree) /\ s.spare \in Int /\ (s.bug \/ s.spare >= 0)
  BY DEF Sane
<1>2. /\ r.begin \in Nat /\ r.end \in Nat /\ r.begin < r.end /\ Len(s.tree) \in Nat
      /\ \A y : Contains(s.tree, y) /\ y # r => y.end < r.begin \/ r.end < y.begin
      /\ \A y : Contains(s.tree, y) => y.begin \in Nat /\ y.end \in Nat
  BY <1>1, RangesOfTree DEF Contains
<1> DEFINE e == Erased(s, r)
           left == IF r.begin < from THEN AddRange(e, r.begin, from) ELSE e
           right == IF r.end > to THEN AddRange(left, to, r.end) ELSE left
<1>3. CutOut(s, r, from, to) = NodeBack(right)
  BY DEF CutOut
<1>4. /\ Sane(e)
      /\ Len(e.tree) + e.spare + 1 = Len(s.tree) + s.spare
      /\ \A y : Contains(e.tree, y) <=> Contains(s.tree, y) /\ y # r
  <2>1. e.tree = RemoveFirst(s.tree, r) /\ e.spare = s.spare /\ e.bug = s.bug
    BY DEF Erased
  <2>2. /\ Ordered(e.tree) /\ Len(e.tree) = Len(s.tree) - 1
        /\ \A y : Contains(e.tree, y) <=> Contains(s.tree, y) /\ y # r
    BY <1>1, <2>1, EraseEffect
  <2>3. e.spare \in Int /\ (e.bug \/ e.spare >= 0)
    BY <1>1, <2>1
  <2>4. Sane(e)
    BY <2>2, <2>3 DEF Sane
  <2>5. Len(e.tree) + e.spare + 1 = Len(s.tree) + s.spare
    BY <1>1, <1>2, <2>1, <2>2
  <2> QED BY <2>2, <2>4, <2>5
<1> HIDE DEF e
<1>5. /\ Sane(left)
      /\ Len(left.tree) + left.spare = Len(e.tree) + e.spare
      /\ \A y : Contains(left.tree, y)
                  <=> Contains(e.tree, y) \/ (r.begin < from /\ y = Span(r.begin, from))
  <2>1. CASE ~ (r.begin < from)
    BY <1>4, <2>1
  <2>2. CASE r.begin < from
    <3>1. Clear(e.tree, r.begin, from)
      BY <1>2, <1>4 DEF Clear
    <3>2. Ordered(e.tree) /\ e.spare \in Int
      BY <1>4 DEF Sane
    <3>3. left = AddRange(e, r.begin, from)
      BY <2>2
    <3>4. Sane(left)
      BY <1>2, <1>4, <2>2, <3>3, AddSane
    <3>5. /\ Len(left.tree) + left.spare = Len(e.tree) + e.spare
          /\ \A y : Contains(left.tree, y) <=> Contains(e.tree, y) \/ y = Span(r.begin, from)
      BY <1>2, <2>2, <3>1, <3>2, <3>3, AddEffect
    <3> QED BY <2>2, <3>4, <3>5
  <2> QED BY <2>1, <2>2
<1> HIDE DEF left
<1>6. /\ Sane(right)
      /\ Len(right.tree) + right.spare = Len(left.tree) + left.spare
      /\ \A y : Contains(right.tree, y)
                  <=> Contains(left.tree, y) \/ (r.end > to /\ y = Span(to, r.end))
  <2>1. CASE ~ (r.end > to)
    BY <1>5, <2>1
  <2>2. CASE r.end > to
    <3>1. Clear(left.tree, to, r.end)
      <4> SUFFICES ASSUME NEW y, Contains(left.tree, y)
                   PROVE  y.end < to \/ y.begin > r.end
        BY DEF Clear
      <4>1. CASE Contains(e.tree, y)
        BY <1>2, <1>4, <4>1
      <4>2. CASE y = Span(r.begin, from)
        BY <4>2 DEF Span
      <4> QED BY <1>5, <4>1, <4>2
    <3>2. Ordered(left.tree) /\ left.spare \in Int
      BY <1>5 DEF Sane
    <3>3. right = AddRange(left, to, r.end)
      BY <2>2
    <3>4. Sane(right)
      BY <1>2, <1>5, <2>2, <3>3, AddSane
    <3>5. /\ Len(right.tree) + right.spare = Len(left.tree) + left.spare
          /\ \A y : Contains(right.tree, y) <=> Contains(left.tree, y) \/ y = Span(to, r.end)
      BY <1>2, <2>2, <3>1, <3>2, <3>3, AddEffect
    <3> QED BY <2>2, <3>4, <3>5
  <2> QED BY <2>1, <2>2
<1> HIDE DEF right
<1>7. /\ NodeBack(right).tree = right.tree
      /\ NodeBack(right).spare = right.spare + 1
      /\ NodeBack(right).bug = right.bug
  BY DEF NodeBack
<1>8. Ordered(right.tree) /\ right.spare \in Int /\ (right.bug \/ right.spare >= 0)
  BY <1>6 DEF Sane
<1>9. Sane(NodeBack(right))
  <2>1. NodeBack(right).spare \in Int /\ (right.spare >= 0 => NodeBack(right).spare >= 0)
    BY <1>7, <1>8
  <2> QED BY <1>7, <1>8, <2>1 DEF Sane
<1>10. Len(NodeBack(right).tree) + NodeBack(right).spare = Len(s.tree) + s.spare
  <2>1. Len(right.tree) \in Int /\ Len(e.tree) \in Int /\ e.spare \in Int /\ Len(left.tree) \in Int
        /\ left.spare \in Int
    BY <1>4, <1>5, <1>6, RangesOfTree DEF Sane
  <2>2. /\ Len(right.tree) + right.spare = Len(left.tree) + left.spare
        /\ Len(left.tree) + left.spare = Len(e.tree) + e.spare
        /\ Len(e.tree) + e.spare + 1 = Len(s.tree) + s.spare
    BY <1>4, <1>5, <1>6
  <2>3. Len(right.tree) + (right.spare + 1) = Len(s.tree) + s.spare
    <3>1. PICK u \in Int : u = Len(e.tree) + e.spare
      BY <2>1
    <3>2. PICK v \in Int, w \in Int : v = Len(right.tree) /\ w = right.spare
      BY <1>8, <2>1
    <3>3. v + w = u /\ u + 1 = Len(s.tree) + s.spare
      BY <2>2, <3>1, <3>2
    <3>4. v + (w + 1) = u + 1
      BY <3>3
    <3> QED BY <3>2, <3>3, <3>4
  <2> QED BY <1>7, <2>3
<1>11. ASSUME NEW y
       PROVE  Contains(NodeBack(right).tree, y)
                <=> (Contains(s.tree, y) /\ y # r) \/ Pieces(y, r, from, to)
  BY <1>4, <1>5, <1>6, <1>7 DEF Pieces
<1> QED BY <1>3, <1>9, <1>10, <1>11

\* It takes out what the range has of from .. to, and nothing else.
LEMMA CutOutBytes ==
    ASSUME NEW s, Sane(s), NEW r, Contains(s.tree, r),
           NEW from \in Nat, NEW to \in Nat, from < to, r.begin < to, r.end > from
    PROVE  \A x : x \in BytesOf(CutOut(s, r, from, to).tree)
                    <=> x \in BytesOf(s.tree) /\ ~ (x \in from .. to - 1 /\ x \in Bytes(r))
<1>1. PICK n : n = CutOut(s, r, from, to).tree
  OBVIOUS
<1>2. /\ Ordered(s.tree) /\ Ordered(n)
      /\ \A y : Contains(n, y) <=> (Contains(s.tree, y) /\ y # r) \/ Pieces(y, r, from, to)
  BY <1>1, CutOutEffect DEF Sane
<1>3. /\ \A x : x \in BytesOf(s.tree) <=> \E y : Contains(s.tree, y) /\ x \in Bytes(y)
      /\ \A x : x \in BytesOf(n) <=> \E y : Contains(n, y) /\ x \in Bytes(y)
  BY <1>2, BytesOfTree
<1>4. /\ r.begin \in Nat /\ r.end \in Nat
      /\ \A y : Contains(s.tree, y) /\ y # r => y.end < r.begin \/ r.end < y.begin
      /\ \A y : Contains(s.tree, y) => y.begin \in Nat /\ y.end \in Nat
  BY <1>2, RangesOfTree DEF Contains
<1>5. /\ Bytes(r) = r.begin .. r.end - 1
      /\ Bytes(Span(r.begin, from)) = r.begin .. from - 1
      /\ Bytes(Span(to, r.end)) = to .. r.end - 1
  BY DEF Bytes, Span
<1>6. ASSUME NEW x, x \in BytesOf(n)
      PROVE  x \in BytesOf(s.tree) /\ ~ (x \in from .. to - 1 /\ x \in Bytes(r))
  <2>1. PICK y : Contains(n, y) /\ x \in Bytes(y)
    BY <1>3, <1>6
  <2>2. CASE Contains(s.tree, y) /\ y # r
    <3>1. x \in BytesOf(s.tree)
      BY <1>3, <2>1, <2>2
    <3>2. x \in y.begin .. y.end - 1
      BY <2>1 DEF Bytes
    <3>3. x \notin Bytes(r)
      BY <1>4, <1>5, <2>2, <3>2
    <3> QED BY <3>1, <3>3
  <2>3. CASE r.begin < from /\ y = Span(r.begin, from)
    <3>1. x \in r.begin .. from - 1
      BY <1>5, <2>1, <2>3
    <3>2. x \in Bytes(r) /\ x \notin from .. to - 1
      BY <1>4, <1>5, <3>1
    <3> QED BY <1>3, <3>2
  <2>4. CASE r.end > to /\ y = Span(to, r.end)
    <3>1. x \in to .. r.end - 1
      BY <1>5, <2>1, <2>4
    <3>2. x \in Bytes(r) /\ x \notin from .. to - 1
      BY <1>4, <1>5, <3>1
    <3> QED BY <1>3, <3>2
  <2> QED BY <1>2, <2>1, <2>2, <2>3, <2>4 DEF Pieces
<1>7. ASSUME NEW x, x \in BytesOf(s.tree), ~ (x \in from .. to - 1 /\ x \in Bytes(r))
      PROVE  x \in BytesOf(n)
  <2>1. PICK y : Contains(s.tree, y) /\ x \in Bytes(y)
    BY <1>3, <1>7
  <2>2. CASE y # r
    BY <1>2, <1>3, <2>1, <2>2
  <2>3. CASE y = r
    <3>1. x \in r.begin .. r.end - 1 /\ x \notin from .. to - 1
      BY <1>5, <1>7, <2>1, <2>3
    <3>2. CASE x < from
      <4>1. r.begin < from /\ x \in Bytes(Span(r.begin, from))
        BY <1>4, <1>5, <3>1, <3>2
      <4> QED BY <1>2, <1>3, <4>1 DEF Pieces
    <3>3. CASE x >= to
      <4>1. r.end > to /\ x \in Bytes(Span(to, r.end))
        BY <1>4, <1>5, <3>1, <3>3
      <4> QED BY <1>2, <1>3, <4>1 DEF Pieces
    <3> QED BY <1>4, <3>1, <3>2, <3>3
  <2> QED BY <2>2, <2>3
<1> QED BY <1>1, <1>6, <1>7

\* The loops of __balloc_remove_range() and __balloc_alloc() visit exactly the
\* ranges that have memory between from and to.
LEMMA VisitedIs ==
    ASSUME NEW t, Ordered(t), NEW from \in Nat, NEW to \in Nat
    PROVE  /\ Len(Visited(t, from, to)) \in Nat
           /\ \A j \in 1 .. Len(Visited(t, from, to)) :
                /\ Contains(t, Visited(t, from, to)[j])
                /\ Visited(t, from, to)[j].begin < to
                /\ Visited(t, from, to)[j].end > from
           /\ \A i, j \in 1 .. Len(Visited(t, from, to)) :
                Visited(t, from, to)[i] = Visited(t, from, to)[j] => i = j
           /\ \A y : Contains(t, y) /\ y.begin < to /\ y.end > from
                       => \E j \in 1 .. Len(Visited(t, from, to)) : y = Visited(t, from, to)[j]
<1> DEFINE m == FirstBeyond(t, from)  p == FirstFrom(t, to)  v == Visited(t, from, to)
<1>1. /\ Len(t) \in Nat /\ IsInjective(t) /\ DOMAIN t = 1 .. Len(t)
      /\ \A i \in 1 .. Len(t) : t[i] \in Extent /\ t[i].begin \in Nat /\ t[i].end \in Nat
  BY RangesOfTree, LenProperties
<1>2. /\ m \in 1 .. Len(t) + 1 /\ p \in 1 .. Len(t) + 1
      /\ \A i \in 1 .. Len(t) : t[i].end > from <=> i >= m
      /\ \A i \in 1 .. Len(t) : t[i].begin >= to <=> i >= p
  BY SearchEnds
<1>3. v = SubSeq(t, m, p - 1)
  BY DEF Visited
<1> HIDE DEF m, p, v
<1>4. m \in Int /\ p - 1 \in Int /\ \A i \in m .. p - 1 : i \in 1 .. Len(t) /\ t[i] \in Extent
  BY <1>1, <1>2
<1>5. /\ Len(v) = IF m <= p - 1 THEN p - 1 - m + 1 ELSE 0
      /\ \A i \in 1 .. p - 1 - m + 1 : v[i] = t[m + i - 1]
      /\ v \in Seq(Extent)
  <2> DEFINE w == SubSeq(t, m, p - 1)
  <2>1. /\ Len(w) = IF m <= p - 1 THEN p - 1 - m + 1 ELSE 0
        /\ \A i \in 1 .. p - 1 - m + 1 : w[i] = t[m + i - 1]
        /\ w \in Seq(Extent)
    BY <1>4, SubSeqProperties
  <2> HIDE DEF w
  <2>2. v = w
    BY <1>3 DEF w
  <2> QED BY <2>1, <2>2
<1>6. Len(v) \in Nat /\ \A i \in 1 .. Len(v) : i \in 1 .. p - 1 - m + 1 /\ m + i - 1 \in m .. p - 1
  BY <1>2, <1>4, <1>5
<1>7. \A i \in 1 .. Len(v) : m + i - 1 \in 1 .. Len(t) /\ v[i] = t[m + i - 1]
  BY <1>4, <1>5, <1>6
<1>8. ASSUME NEW j \in 1 .. Len(v)
      PROVE  Contains(t, v[j]) /\ v[j].begin < to /\ v[j].end > from
  <2>1. PICK i \in 1 .. Len(t) : i = m + j - 1
    BY <1>7
  <2>2. v[j] = t[i] /\ i >= m /\ ~ (i >= p)
    BY <1>2, <1>4, <1>6, <1>7, <2>1
  <2>3. t[i].begin < to /\ t[i].end > from
    BY <1>1, <1>2, <2>2
  <2> QED BY <2>2, <2>3 DEF Contains
<1>9. ASSUME NEW i \in 1 .. Len(v), NEW j \in 1 .. Len(v), v[i] = v[j] PROVE i = j
  <2>1. m + i - 1 = m + j - 1
    BY <1>1, <1>7, <1>9 DEF IsInjective
  <2> QED BY <1>4, <1>6, <2>1
<1>10. ASSUME NEW y, Contains(t, y), y.begin < to, y.end > from
       PROVE  \E j \in 1 .. Len(v) : y = v[j]
  <2>1. PICK i \in 1 .. Len(t) : t[i] = y
    BY <1>10 DEF Contains
  <2>2. i >= m /\ ~ (i >= p)
    BY <1>1, <1>2, <1>10, <2>1
  <2> DEFINE j == i - m + 1
  <2>3. j \in 1 .. Len(v) /\ m + j - 1 = i
    BY <1>1, <1>2, <1>4, <1>5, <2>2
  <2> QED BY <1>7, <2>1, <2>3
<1> QED BY <1>6, <1>8, <1>9, <1>10 DEF v

\* f is what the first n rounds of __balloc_remove_range() make of s.
IsRounds(f, s, v, n, from, to) ==
    f = [k \in 0 .. n |-> IF k = 0 THEN s ELSE CutOut(f[k - 1], v[k], from, to)]

LEMMA RoundsExist ==
    ASSUME NEW s, NEW v, NEW from, NEW to
    PROVE  \A n \in Nat : \E f : IsRounds(f, s, v, n, from, to)
<1> DEFINE T == {n \in Nat : ~ \E f : IsRounds(f, s, v, n, from, to)}
<1>1. ASSUME T # {} PROVE FALSE
  <2>1. Min(T) \in T /\ \A y \in T : Min(T) <= y
    BY <1>1, LeastOf
  <2>2. PICK n \in Nat : n = Min(T)
    BY <2>1
  <2>3. ~ \E f : IsRounds(f, s, v, n, from, to)
    BY <2>1, <2>2
  <2>4. CASE n = 0
    <3> DEFINE f == [k \in 0 .. 0 |-> s]
    <3>1. f = [k \in 0 .. 0 |-> IF k = 0 THEN s ELSE CutOut(f[k - 1], v[k], from, to)]
      OBVIOUS
    <3> QED BY <2>3, <2>4, <3>1 DEF IsRounds
  <2>5. CASE n > 0
    <3>1. n - 1 \in Nat /\ n - 1 \notin T
      <4>1. n - 1 \in Nat /\ n - 1 < n
        BY <2>5
      <4> HIDE DEF T
      <4>2. n - 1 \in T => n <= n - 1
        BY <2>1, <2>2
      <4> QED BY <4>1, <4>2
    <3>2. PICK f : IsRounds(f, s, v, n - 1, from, to)
      BY <3>1
    <3> DEFINE g == [k \in 0 .. n |-> IF k = n THEN CutOut(f[n - 1], v[n], from, to) ELSE f[k]]
    <3>3. ASSUME NEW k \in 0 .. n
          PROVE  g[k] = IF k = 0 THEN s ELSE CutOut(g[k - 1], v[k], from, to)
      <4>1. CASE k = n
        <5>1. n - 1 \in 0 .. n /\ n - 1 # n /\ n # 0
          BY <2>5
        <5>2. g[n - 1] = f[n - 1] /\ g[n] = CutOut(f[n - 1], v[n], from, to)
          BY <5>1
        <5> QED BY <4>1, <5>1, <5>2
      <4>2. CASE k = 0
        <5>1. 0 \in 0 .. n - 1 /\ 0 # n
          BY <2>5
        <5>2. f[0] = s
          BY <3>2, <5>1 DEF IsRounds
        <5> QED BY <4>2, <5>1, <5>2
      <4>3. CASE k # 0 /\ k # n
        <5>1. k \in 0 .. n - 1 /\ k - 1 \in 0 .. n /\ k - 1 # n
          BY <4>3
        <5>2. f[k] = CutOut(f[k - 1], v[k], from, to)
          BY <3>2, <4>3, <5>1 DEF IsRounds
        <5>3. g[k] = f[k] /\ g[k - 1] = f[k - 1]
          BY <4>3, <5>1
        <5> QED BY <4>3, <5>2, <5>3
      <4> QED BY <4>1, <4>2, <4>3
    <3> DEFINE h == [k \in 0 .. n |-> IF k = 0 THEN s ELSE CutOut(g[k - 1], v[k], from, to)]
    <3>4. g = h
      <4> HIDE DEF g
      <4>1. \A k \in 0 .. n : g[k] = h[k]
        BY <3>3
      <4>2. g = [k \in 0 .. n |-> g[k]]
        BY DEF g
      <4> QED BY <4>1, <4>2
    <3>5. IsRounds(g, s, v, n, from, to)
      <4> HIDE DEF g
      <4> QED BY <3>4 DEF IsRounds
    <3> QED BY <2>3, <3>5
  <2> QED BY <2>4, <2>5
<1> QED BY <1>1

\* __balloc_remove_range() is its last round.
LEMMA RemoveIsRounds ==
    ASSUME NEW s, NEW from, NEW to, Len(Visited(s.tree, from, to)) \in Nat
    PROVE  \E f : /\ IsRounds(f, s, Visited(s.tree, from, to),
                              Len(Visited(s.tree, from, to)), from, to)
                  /\ RemoveRange(s, from, to) = f[Len(Visited(s.tree, from, to))]
<1> DEFINE v == Visited(s.tree, from, to)
           g == CHOOSE f : f = [k \in 0 .. Len(v) |->
                                  IF k = 0 THEN s ELSE CutOut(f[k - 1], v[k], from, to)]
<1>1. RemoveRange(s, from, to) = g[Len(v)]
  BY DEF RemoveRange
<1>2. \E f : IsRounds(f, s, v, Len(v), from, to)
  BY RoundsExist
<1>3. \E f : f = [k \in 0 .. Len(v) |-> IF k = 0 THEN s ELSE CutOut(f[k - 1], v[k], from, to)]
  BY <1>2 DEF IsRounds
<1>4. g = [k \in 0 .. Len(v) |-> IF k = 0 THEN s ELSE CutOut(g[k - 1], v[k], from, to)]
  BY <1>3
<1> HIDE DEF g
<1>5. IsRounds(g, s, v, Len(v), from, to)
  BY <1>4 DEF IsRounds
<1> QED BY <1>1, <1>5

\* n is what is left of s after k rounds: the ranges still to visit are there,
\* no others have memory between from and to, and the rest is as it was.
Progress(s, v, n, k, from, to) ==
    /\ Sane(n)
    /\ Len(n.tree) + n.spare = Len(s.tree) + s.spare
    /\ \A j \in k + 1 .. Len(v) : Contains(n.tree, v[j])
    /\ \A y : Contains(n.tree, y) /\ y.begin < to /\ y.end > from
                => \E j \in k + 1 .. Len(v) : y = v[j]
    /\ \A x : x \notin from .. to - 1 => (x \in BytesOf(n.tree) <=> x \in BytesOf(s.tree))

\* A round: `next`, read before the tree is changed, is still a range of it.
LEMMA RoundEffect ==
    ASSUME NEW s, NEW v, NEW n, NEW k \in Nat, NEW from \in Nat, NEW to \in Nat, from < to,
           Len(v) \in Nat, k < Len(v),
           \A j \in 1 .. Len(v) : v[j].begin < to /\ v[j].end > from,
           \A i, j \in 1 .. Len(v) : v[i] = v[j] => i = j,
           Progress(s, v, n, k, from, to)
    PROVE  Progress(s, v, CutOut(n, v[k + 1], from, to), k + 1, from, to)
<1>1. PICK r : r = v[k + 1]
  OBVIOUS
<1>2. k + 1 \in 1 .. Len(v) /\ k + 1 \in k + 1 .. Len(v)
  OBVIOUS
<1>3. Sane(n) /\ Contains(n.tree, r) /\ r.begin < to /\ r.end > from
  BY <1>1, <1>2 DEF Progress
<1>4. PICK c : c = CutOut(n, r, from, to)
  OBVIOUS
<1>5. /\ Sane(c)
      /\ Len(c.tree) + c.spare = Len(n.tree) + n.spare
      /\ \A y : Contains(c.tree, y)
                  <=> (Contains(n.tree, y) /\ y # r) \/ Pieces(y, r, from, to)
  BY <1>3, <1>4, CutOutEffect
<1>6. \A x : x \in BytesOf(c.tree)
               <=> x \in BytesOf(n.tree) /\ ~ (x \in from .. to - 1 /\ x \in Bytes(r))
  BY <1>3, <1>4, CutOutBytes
<1>7. \A j \in k + 2 .. Len(v) : j \in k + 1 .. Len(v) /\ j \in 1 .. Len(v) /\ v[j] # r
  BY <1>1, <1>2
<1>8. ASSUME NEW j \in (k + 1) + 1 .. Len(v) PROVE Contains(c.tree, v[j])
  <2>1. j \in k + 2 .. Len(v)
    OBVIOUS
  <2>2. Contains(n.tree, v[j]) /\ v[j] # r
    BY <1>7, <2>1 DEF Progress
  <2> QED BY <1>5, <2>2
<1>9. ASSUME NEW y, Contains(c.tree, y), y.begin < to, y.end > from
      PROVE  \E j \in (k + 1) + 1 .. Len(v) : y = v[j]
  <2>1. ~ Pieces(y, r, from, to)
    <3>1. ASSUME y = Span(r.begin, from) PROVE FALSE
      BY <1>9, <3>1 DEF Span
    <3>2. ASSUME y = Span(to, r.end) PROVE FALSE
      BY <1>9, <3>2 DEF Span
    <3> QED BY <3>1, <3>2 DEF Pieces
  <2>2. Contains(n.tree, y) /\ y # r
    BY <1>5, <1>9, <2>1
  <2>3. PICK j \in k + 1 .. Len(v) : y = v[j]
    BY <1>9, <2>2 DEF Progress
  <2>4. j # k + 1
    BY <1>1, <2>2, <2>3
  <2>5. j \in (k + 1) + 1 .. Len(v)
    BY <2>3, <2>4
  <2> QED BY <2>3, <2>5
<1>10. Len(c.tree) + c.spare = Len(s.tree) + s.spare
  BY <1>5 DEF Progress
<1>11. \A x : x \notin from .. to - 1 => (x \in BytesOf(c.tree) <=> x \in BytesOf(s.tree))
  BY <1>6 DEF Progress
<1>12. Progress(s, v, c, k + 1, from, to)
  BY <1>5, <1>8, <1>9, <1>10, <1>11 DEF Progress
<1> QED BY <1>1, <1>4, <1>12

\* __balloc_remove_range(): the tree stays one, no node is lost, and the range
\* is taken out of it, all of it and nothing else.
LEMMA RemoveEffect ==
    ASSUME NEW s, Sane(s), NEW from \in Nat, NEW to \in Nat, from < to
    PROVE  /\ Sane(RemoveRange(s, from, to))
           /\ Len(RemoveRange(s, from, to).tree) + RemoveRange(s, from, to).spare
                = Len(s.tree) + s.spare
           /\ BytesOf(RemoveRange(s, from, to).tree) = BytesOf(s.tree) \ (from .. to - 1)
<1>1. PICK v : v = Visited(s.tree, from, to)
  OBVIOUS
<1>2. Ordered(s.tree)
  BY DEF Sane
<1>3. /\ Len(v) \in Nat
      /\ \A j \in 1 .. Len(v) : Contains(s.tree, v[j]) /\ v[j].begin < to /\ v[j].end > from
      /\ \A i, j \in 1 .. Len(v) : v[i] = v[j] => i = j
      /\ \A y : Contains(s.tree, y) /\ y.begin < to /\ y.end > from
                  => \E j \in 1 .. Len(v) : y = v[j]
  BY <1>1, <1>2, VisitedIs
<1>4. PICK f : IsRounds(f, s, v, Len(v), from, to) /\ RemoveRange(s, from, to) = f[Len(v)]
  BY <1>1, <1>3, RemoveIsRounds
<1>5. \A k \in 0 .. Len(v) : f[k] = IF k = 0 THEN s ELSE CutOut(f[k - 1], v[k], from, to)
  BY <1>4 DEF IsRounds
<1>6. Progress(s, v, s, 0, from, to)
  BY <1>3 DEF Progress
<1> DEFINE T == {k \in 0 .. Len(v) : ~ Progress(s, v, f[k], k, from, to)}
<1>7. ASSUME T # {} PROVE FALSE
  <2>1. T \in SUBSET Nat
    BY <1>3
  <2>2. Min(T) \in T /\ \A y \in T : Min(T) <= y
    BY <1>7, <2>1, LeastOf
  <2>3. PICK k \in 0 .. Len(v) : k = Min(T)
    BY <2>2
  <2>4. ~ Progress(s, v, f[k], k, from, to)
    BY <2>2, <2>3
  <2>5. k # 0
    BY <1>5, <1>6, <2>3, <2>4
  <2>6. PICK j \in Nat : k = j + 1 /\ j < Len(v) /\ j \in 0 .. Len(v)
    <3>1. k - 1 \in Nat /\ k = (k - 1) + 1 /\ k - 1 < Len(v) /\ k - 1 \in 0 .. Len(v)
      BY <1>3, <2>3, <2>5
    <3> QED BY <3>1
  <2>7. j \notin T
    <3> HIDE DEF T
    <3>1. j \in T => k <= j
      BY <2>2, <2>3
    <3> QED BY <2>6, <3>1
  <2>8. Progress(s, v, f[j], j, from, to)
    BY <2>6, <2>7
  <2>9. f[k] = CutOut(f[j], v[j + 1], from, to)
    <3>1. k - 1 = j
      BY <2>6
    <3> QED BY <1>5, <2>3, <2>5, <2>6, <3>1
  <2>10. Progress(s, v, CutOut(f[j], v[j + 1], from, to), j + 1, from, to)
    BY <1>3, <2>6, <2>8, RoundEffect
  <2> QED BY <2>4, <2>6, <2>9, <2>10
<1>8. Progress(s, v, f[Len(v)], Len(v), from, to)
  BY <1>3, <1>7
<1>9. PICK n : n = RemoveRange(s, from, to)
  OBVIOUS
<1>10. Progress(s, v, n, Len(v), from, to)
  BY <1>4, <1>8, <1>9
<1>11. Sane(n) /\ Len(n.tree) + n.spare = Len(s.tree) + s.spare
  BY <1>10 DEF Progress
<1>12. \A y : Contains(n.tree, y) => ~ (y.begin < to /\ y.end > from)
  <2>1. Len(v) + 1 .. Len(v) = {}
    BY <1>3
  <2> QED BY <1>10, <2>1 DEF Progress
<1>13. Ordered(n.tree)
  BY <1>11 DEF Sane
<1>14. ASSUME NEW x \in BytesOf(n.tree) PROVE x \notin from .. to - 1
  <2>1. PICK i \in 1 .. Len(n.tree) : x \in n.tree[i].begin .. n.tree[i].end - 1
    BY <1>13, BytesOfTree
  <2>2. Contains(n.tree, n.tree[i]) /\ n.tree[i].begin \in Nat /\ n.tree[i].end \in Nat
    BY <1>13, RangesOfTree DEF Contains
  <2>3. ~ (n.tree[i].begin < to /\ n.tree[i].end > from)
    BY <1>12, <2>2
  <2> QED BY <2>1, <2>2, <2>3
<1>15. \A x : x \notin from .. to - 1 => (x \in BytesOf(n.tree) <=> x \in BytesOf(s.tree))
  BY <1>10 DEF Progress
<1>16. BytesOf(n.tree) = BytesOf(s.tree) \ (from .. to - 1)
  BY <1>14, <1>15
<1> QED BY <1>9, <1>11, <1>16

-----------------------------------------------------------------------------
(* The memory map *)

\* What is known of the boot loader's entries, the kernel and the initramfs.
LEMMA MapFacts ==
    ASSUME mmap \in MemoryMaps
    PROVE  /\ Len(mmap) \in Nat /\ DOMAIN mmap = 1 .. Len(mmap)
           /\ \A i \in 1 .. Len(mmap) :
                mmap[i].begin \in Nat /\ mmap[i].end \in Nat /\ mmap[i].begin < mmap[i].end
           /\ Kernel.begin \in Nat /\ Kernel.end \in Nat /\ Kernel.begin < Kernel.end
           /\ Module.begin \in Nat /\ Module.end \in Nat /\ Module.begin < Module.end
           /\ RANGES \in Nat
<1>1. /\ mmap \in Seq([begin : Nat, end : Nat, type : Nat])
      /\ \A i \in 1 .. Len(mmap) : mmap[i].begin < mmap[i].end
  BY BallocAssumption
<1>2. /\ Len(mmap) \in Nat /\ DOMAIN mmap = 1 .. Len(mmap)
      /\ \A i \in 1 .. Len(mmap) : mmap[i] \in [begin : Nat, end : Nat, type : Nat]
  BY <1>1, LenProperties, ElementOfSeq
<1>3. \A i \in 1 .. Len(mmap) : mmap[i].begin \in Nat /\ mmap[i].end \in Nat
  BY <1>2
<1>4. /\ Kernel.begin \in Nat /\ Kernel.end \in Nat /\ Kernel.begin < Kernel.end
      /\ Module.begin \in Nat /\ Module.end \in Nat /\ Module.begin < Module.end
      /\ RANGES \in Nat
  BY BallocAssumption DEF Extent
<1> QED BY <1>1, <1>2, <1>3, <1>4

\* One entry more is listed.
LEMMA ListedStep ==
    /\ Listed(0) = {}
    /\ \A n \in Nat : Listed(n + 1) = Listed(n) \cup Bytes(mmap[n + 1])
<1>1. \A n \in Nat : \A x : x \in Listed(n) <=> \E i \in 1 .. n : x \in Bytes(mmap[i])
  BY DEF Listed, BytesIn
<1>2. Listed(0) = {}
  BY <1>1
<1>3. ASSUME NEW n \in Nat, NEW x
      PROVE  x \in Listed(n + 1) <=> x \in Listed(n) \/ x \in Bytes(mmap[n + 1])
  <2>1. \A i : i \in 1 .. n + 1 <=> i \in 1 .. n \/ i = n + 1
    OBVIOUS
  <2>2. n + 1 \in Nat
    OBVIOUS
  <2>3. x \in Listed(n + 1) <=> \E i \in 1 .. n + 1 : x \in Bytes(mmap[i])
    BY <1>1, <2>2
  <2> QED BY <1>1, <2>1, <2>3
<1> QED BY <1>2, <1>3

\* One entry more is withheld, if it is not of type 1.
LEMMA WithheldStep ==
    /\ Withheld(0) = {}
    /\ \A n \in Nat : Withheld(n + 1) = Withheld(n) \cup
                        (IF mmap[n + 1].type # 1 THEN Bytes(mmap[n + 1]) ELSE {})
<1>1. \A n \in Nat : \A x : x \in Withheld(n)
                              <=> \E i \in 1 .. n : mmap[i].type # 1 /\ x \in Bytes(mmap[i])
  BY DEF Withheld, BytesIn
<1>2. Withheld(0) = {}
  BY <1>1
<1>3. ASSUME NEW n \in Nat, NEW x
      PROVE  x \in Withheld(n + 1)
               <=> x \in Withheld(n) \/ (mmap[n + 1].type # 1 /\ x \in Bytes(mmap[n + 1]))
  <2>1. \A i : i \in 1 .. n + 1 <=> i \in 1 .. n \/ i = n + 1
    OBVIOUS
  <2>2. n + 1 \in Nat
    OBVIOUS
  <2>3. x \in Withheld(n + 1)
          <=> \E i \in 1 .. n + 1 : mmap[i].type # 1 /\ x \in Bytes(mmap[i])
    BY <1>1, <2>2
  <2> QED BY <1>1, <2>1, <2>3
<1> QED BY <1>2, <1>3

\* What a removal takes out, and that in the end it is what is reserved.
LEMMA RemovedStep ==
    ASSUME mmap \in MemoryMaps
    PROVE  /\ Removed(0) = {}
           /\ \A i \in 1 .. Len(mmap) :
                Removed(i) = Removed(i - 1) \cup
                               (IF mmap[i].type # 1 THEN Bytes(mmap[i]) ELSE {})
           /\ Removed(Len(mmap) + 1) = Removed(Len(mmap)) \cup Bytes(Module)
           /\ Reserved = Removed(Len(mmap) + 1) \cup Bytes(Kernel)
           /\ Listed(Len(mmap)) = BytesIn({mmap[i] : i \in DOMAIN mmap})
<1>1. Len(mmap) \in Nat /\ DOMAIN mmap = 1 .. Len(mmap)
  BY MapFacts
<1>2. /\ \A n \in 0 .. Len(mmap) : Removed(n) = Withheld(n)
      /\ Removed(Len(mmap) + 1) = Withheld(Len(mmap)) \cup Bytes(Module)
  BY <1>1 DEF Removed
<1>3. Removed(0) = {}
  BY <1>1, <1>2, WithheldStep
<1>4. ASSUME NEW i \in 1 .. Len(mmap)
      PROVE  Removed(i) = Removed(i - 1) \cup
                            (IF mmap[i].type # 1 THEN Bytes(mmap[i]) ELSE {})
  <2>1. PICK n \in Nat : n = i - 1 /\ i = n + 1
    BY <1>1
  <2>2. Withheld(n + 1) = Withheld(n) \cup
                            (IF mmap[n + 1].type # 1 THEN Bytes(mmap[n + 1]) ELSE {})
    BY WithheldStep
  <2>3. Removed(i) = Withheld(i) /\ Removed(i - 1) = Withheld(i - 1)
    BY <1>1, <1>2
  <2> QED BY <2>1, <2>2, <2>3
<1>5. Removed(Len(mmap) + 1) = Removed(Len(mmap)) \cup Bytes(Module)
  BY <1>1, <1>2
<1>6. Reserved = Removed(Len(mmap) + 1) \cup Bytes(Kernel)
  BY <1>1, <1>2 DEF Reserved, Withheld
<1>7. Listed(Len(mmap)) = BytesIn({mmap[i] : i \in DOMAIN mmap})
  BY <1>1 DEF Listed
<1> QED BY <1>3, <1>4, <1>5, <1>6, <1>7

-----------------------------------------------------------------------------
(* Alignment *)

\* Rounding an address up to 8, 16, 32 or 64 bytes does not lower it.
LEMMA AlignedUp ==
    ASSUME NEW addr \in Nat, NEW size \in Nat
    PROVE  AlignUp(addr, Align(size)) \in Nat /\ AlignUp(addr, Align(size)) >= addr
<1>1. Align(size) \in {1, 2, 4, 8}
  <2> DEFINE T == {a \in {1, 2, 4, 8} : size <= a \/ a = 8}
  <2>1. T \in SUBSET Nat /\ 8 \in T
    OBVIOUS
  <2>2. Min(T) \in T
    BY <2>1, LeastOf
  <2> QED BY <2>2 DEF Align
<1>2. ASSUME NEW a \in {1, 2, 4, 8}
      PROVE  AlignUp(addr, a) \in Nat /\ AlignUp(addr, a) >= addr
  <2>1. CASE a = 1
    BY <2>1 DEF AlignUp
  <2>2. CASE a = 2
    BY <2>2 DEF AlignUp
  <2>3. CASE a = 4
    BY <2>3 DEF AlignUp
  <2>4. CASE a = 8
    BY <2>4 DEF AlignUp
  <2> QED BY <1>2, <2>1, <2>2, <2>3, <2>4
<1> QED BY <1>1, <1>2

\* A place that fits is within the range.
LEMMA PlaceInside ==
    ASSUME NEW r, r.begin \in Nat, r.end \in Nat, NEW req \in (Nat \ {0}) \X Nat \X Nat,
           Fits(r, req)
    PROVE  /\ Place(r, req) \in Nat /\ req[1] \in Nat /\ req[1] > 0
           /\ r.begin <= Place(r, req) /\ Place(r, req) + req[1] <= r.end
<1>1. req[1] \in Nat /\ req[1] > 0 /\ req[2] \in Nat /\ req[3] \in Nat
  OBVIOUS
<1>2. Max({r.begin, req[2]}) \in Nat /\ Max({r.begin, req[2]}) >= r.begin
  <2>1. \E x \in {r.begin, req[2]} : \A y \in {r.begin, req[2]} : x >= y
    BY <1>1
  <2> QED BY <1>1, <2>1 DEF Max
<1>3. Min({r.end, req[3]}) \in Nat /\ Min({r.end, req[3]}) <= r.end
  <2> DEFINE T == {r.end, req[3]}
  <2>1. T \in SUBSET Nat /\ T # {} /\ r.end \in T
    BY <1>1
  <2> HIDE DEF T
  <2>2. Min(T) \in T /\ Min(T) <= r.end
    BY <2>1, LeastOf
  <2> QED BY <2>1, <2>2 DEF T
<1>4. Place(r, req) \in Nat /\ Place(r, req) >= Max({r.begin, req[2]})
  BY <1>1, <1>2, AlignedUp DEF Place
<1>5. Place(r, req) + req[1] <= Min({r.end, req[3]})
  BY DEF Fits
<1> QED BY <1>1, <1>2, <1>3, <1>4, <1>5

\* What __balloc_alloc() finds.
LEMMA RoomFound ==
    ASSUME Ordered(free_ranges), NEW req \in Requests, FindRoom(req) # 0
    PROVE  /\ Contains(free_ranges, Visited(free_ranges, req[2], req[3])[FindRoom(req)])
           /\ Fits(Visited(free_ranges, req[2], req[3])[FindRoom(req)], req)
<1>1. req \in (Nat \ {0}) \X Nat \X Nat
  BY BallocAssumption
<1>2. req[2] \in Nat /\ req[3] \in Nat
  BY <1>1
<1> DEFINE v == Visited(free_ranges, req[2], req[3])
           T == {i \in 1 .. Len(v) : Fits(v[i], req)}
<1>3. Len(v) \in Nat /\ \A j \in 1 .. Len(v) : Contains(free_ranges, v[j])
  BY <1>2, VisitedIs
<1>4. FindRoom(req) = IF T # {} THEN Min(T) ELSE 0
  BY DEF FindRoom, SelectInSeq
<1> HIDE DEF v
<1>5. T \in SUBSET Nat
  BY <1>3
<1>6. T # {} => Min(T) \in T
  BY <1>5, LeastOf
<1>7. FindRoom(req) \in T
  BY <1>4, <1>6
<1> QED BY <1>3, <1>7 DEF v

-----------------------------------------------------------------------------
(* The invariant *)

\* The trees as the operations take them.
LEMMA TreeSane ==
    ASSUME NEW t, Ordered(t), spare \in Nat
    PROVE  /\ Sane(Tree(t)) /\ Tree(t).tree = t /\ Tree(t).spare = spare
           /\ ~ Tree(t).bug
<1>1. Tree(t).tree = t /\ Tree(t).spare = spare /\ Tree(t).bug = FALSE
  BY DEF Tree
<1> QED BY <1>1 DEF Sane

\* A range goes into both trees, each of them as __balloc_add_range() does it.
LEMMA AddedBothEffect ==
    ASSUME Ordered(memory_map), Ordered(free_ranges), spare \in Nat,
           NEW r, r.begin \in Nat, r.end \in Nat, r.begin < r.end,
           ~ AddedBoth(r).some.bug
    PROVE  /\ Ordered(AddedBoth(r).all) /\ Ordered(AddedBoth(r).some.tree)
           /\ AddedBoth(r).some.spare \in Nat
           /\ Len(AddedBoth(r).all) + Len(AddedBoth(r).some.tree) + AddedBoth(r).some.spare
                = Len(memory_map) + Len(free_ranges) + spare
           /\ BytesOf(free_ranges) \subseteq BytesOf(AddedBoth(r).some.tree)
           /\ BytesOf(AddedBoth(r).some.tree) \subseteq BytesOf(free_ranges) \cup Bytes(r)
           /\ BytesOf(free_ranges) \cap Bytes(r) = {}
                => BytesOf(AddedBoth(r).some.tree) = BytesOf(free_ranges) \cup Bytes(r)
<1> DEFINE all == AddRange(Tree(memory_map), r.begin, r.end)
           mid == [tree |-> free_ranges, spare |-> all.spare, bug |-> all.bug]
           some == AddRange(mid, r.begin, r.end)
<1>1. AddedBoth(r).all = all.tree /\ AddedBoth(r).some = some
  BY DEF AddedBoth
<1>2. /\ Sane(Tree(memory_map)) /\ Tree(memory_map).tree = memory_map
      /\ Tree(memory_map).spare = spare
  BY TreeSane
<1>3. Ordered(Tree(memory_map).tree) /\ Tree(memory_map).spare \in Int
  BY <1>2 DEF Sane
<1>4. Sane(all)
  BY <1>2, AddSane
<1>5. Len(all.tree) + all.spare = Len(memory_map) + spare
  BY <1>2, <1>3, AddEffect
<1> HIDE DEF all
<1>6. mid.tree = free_ranges /\ mid.spare = all.spare /\ mid.bug = all.bug
  OBVIOUS
<1>7. Ordered(mid.tree) /\ mid.spare \in Int /\ Sane(mid)
  BY <1>4, <1>6 DEF Sane
<1> HIDE DEF mid
<1>8. Sane(some)
  BY <1>7, AddSane
<1>9. /\ Len(some.tree) + some.spare = Len(mid.tree) + mid.spare
      /\ BytesOf(mid.tree) \subseteq BytesOf(some.tree)
      /\ BytesOf(some.tree) \subseteq BytesOf(mid.tree) \cup r.begin .. r.end - 1
      /\ BytesOf(mid.tree) \cap (r.begin .. r.end - 1) = {}
           => r.begin .. r.end - 1 \subseteq BytesOf(some.tree)
  BY <1>7, AddEffect
<1> HIDE DEF some
<1>10. Bytes(r) = r.begin .. r.end - 1
  BY DEF Bytes
<1>11. ~ some.bug
  BY <1>1
<1>12. Ordered(all.tree) /\ Ordered(some.tree) /\ all.spare \in Int /\ some.spare \in Nat
  BY <1>4, <1>8, <1>11 DEF Sane
<1>13. /\ Len(all.tree) \in Nat /\ Len(some.tree) \in Nat
       /\ Len(memory_map) \in Nat /\ Len(free_ranges) \in Nat
  BY <1>12, RangesOfTree
<1>14. Len(all.tree) + Len(some.tree) + some.spare = Len(memory_map) + Len(free_ranges) + spare
  <2>1. PICK u \in Int : u = all.spare
    BY <1>12
  <2>2. Len(all.tree) + u = Len(memory_map) + spare
    BY <1>5, <2>1
  <2>3. Len(some.tree) + some.spare = Len(free_ranges) + u
    BY <1>6, <1>9, <2>1
  <2>4. PICK a \in Nat, b \in Nat, c \in Nat :
           a = Len(all.tree) /\ b = Len(some.tree) /\ c = some.spare
    BY <1>12, <1>13
  <2>5. PICK d \in Nat, e \in Nat : d = Len(memory_map) /\ e = Len(free_ranges)
    BY <1>13
  <2>6. a + u = d + spare /\ b + c = e + u
    BY <2>2, <2>3, <2>4, <2>5
  <2>7. a + b + c = d + e + spare
    BY <2>6
  <2> QED BY <2>4, <2>5, <2>7
<1> QED BY <1>1, <1>6, <1>9, <1>10, <1>12, <1>14

\* The trees are empty and every node is spare.
LEMMA BallocInitInv == BallocInit => BallocInv
<1> SUFFICES ASSUME BallocInit PROVE BallocInv
  OBVIOUS
<1>1. /\ mmap \in MemoryMaps /\ stage = <<"add", 1>> /\ memory_map = <<>> /\ free_ranges = <<>>
      /\ spare = RANGES /\ busy = {} /\ halted = FALSE
  BY DEF BallocInit
<1>2. Len(mmap) \in Nat /\ RANGES \in Nat
  BY <1>1, MapFacts
<1>3. Ordered(<<>>) /\ BytesOf(<<>>) = {}
  <2>1. <<>> \in Seq(Extent) /\ Len(<<>>) = 0 /\ DOMAIN <<>> = {}
    OBVIOUS
  <2>2. Ordered(<<>>)
    BY <2>1 DEF Ordered
  <2> QED BY <2>1, <2>2 DEF BytesOf
<1>4. stage[1] = "add" /\ stage[2] = 1 /\ stage[2] - 1 = 0
  BY <1>1
<1>5. Adding
  <2>1. Listed(stage[2] - 1) = {}
    BY <1>4, ListedStep
  <2>2. BytesOf(free_ranges) = {} /\ stage[2] \in 1 .. Len(mmap) + 1
    BY <1>1, <1>2, <1>3, <1>4
  <2> QED BY <1>1, <2>1, <2>2 DEF Adding
<1>6. NodesConserved
  BY <1>1, <1>2 DEF NodesConserved
<1> QED BY <1>1, <1>3, <1>4, <1>5, <1>6 DEF BallocInv

\* An entry is added, or the kernel.
LEMMA AddEntryInv ==
    ASSUME BallocInv, AddEntry, ~ halted'
    PROVE  BallocInv'
<1>1. /\ mmap \in MemoryMaps /\ halted \in BOOLEAN
      /\ Ordered(memory_map) /\ Ordered(free_ranges) /\ NodesConserved
  BY DEF BallocInv
<1>2. stage[1] = "add" /\ stage = <<"add", stage[2]>> /\ Adding
  BY DEF BallocInv, AddEntry
<1>3. PICK i : i = stage[2]
  OBVIOUS
<1> DEFINE more == i \in 1 .. Len(mmap)
           r == IF more THEN mmap[i] ELSE Kernel
<1>4. /\ ~ AddedBoth(r).some.bug
      /\ memory_map' = AddedBoth(r).all
      /\ free_ranges' = AddedBoth(r).some.tree /\ spare' = AddedBoth(r).some.spare
      /\ stage' = IF more THEN <<"add", i + 1>> ELSE <<"remove", 1>>
      /\ mmap' = mmap /\ busy' = busy /\ halted' = halted
  BY <1>3 DEF AddEntry, Halt, FreeRangesBecome
<1>5. /\ Len(mmap) \in Nat /\ DOMAIN mmap = 1 .. Len(mmap)
      /\ r.begin \in Nat /\ r.end \in Nat /\ r.begin < r.end
  BY <1>1, MapFacts
<1> HIDE DEF r
<1>6. spare \in Nat /\ spare = RANGES - Len(memory_map) - Len(free_ranges) /\ RANGES \in Nat
  BY <1>1, MapFacts DEF NodesConserved
<1>7. /\ Ordered(memory_map') /\ Ordered(free_ranges') /\ spare' \in Nat
      /\ Len(memory_map') + Len(free_ranges') + spare'
           = Len(memory_map) + Len(free_ranges) + spare
      /\ BytesOf(free_ranges) \subseteq BytesOf(free_ranges')
      /\ BytesOf(free_ranges') \subseteq BytesOf(free_ranges) \cup Bytes(r)
      /\ BytesOf(free_ranges) \cap Bytes(r) = {}
           => BytesOf(free_ranges') = BytesOf(free_ranges) \cup Bytes(r)
  BY <1>1, <1>4, <1>5, <1>6, AddedBothEffect
<1>8. NodesConserved'
  <2>1. /\ Len(memory_map) \in Nat /\ Len(free_ranges) \in Nat
        /\ Len(memory_map') \in Nat /\ Len(free_ranges') \in Nat
    BY <1>1, <1>7, RangesOfTree
  <2> QED BY <1>6, <1>7, <2>1 DEF NodesConserved
<1>9. /\ i \in 1 .. Len(mmap) + 1 /\ busy = {}
      /\ EntriesApart => BytesOf(free_ranges) = Listed(i - 1)
  BY <1>2, <1>3 DEF Adding
<1>10. EntriesApart' = EntriesApart /\ \A n : Listed(n)' = Listed(n) /\ Removed(n)' = Removed(n)
  BY <1>4 DEF EntriesApart, Listed, Removed, Withheld
<1>11. CASE more
  <2>1. stage' = <<"add", i + 1>> /\ stage'[1] = "add" /\ stage'[2] = i + 1 /\ i + 1 - 1 = i
    BY <1>4, <1>9, <1>11
  <2>2. ASSUME EntriesApart PROVE BytesOf(free_ranges') = Listed(i)
    <3>1. PICK n \in Nat : n = i - 1 /\ i = n + 1
      BY <1>9, <1>5
    <3>2. r = mmap[i]
      BY <1>11 DEF r
    <3>3. ASSUME NEW x \in Listed(n), x \in Bytes(mmap[i]) PROVE FALSE
      <4>1. PICK j \in 1 .. n : x \in Bytes(mmap[j])
        BY <3>3 DEF Listed, BytesIn
      <4>2. j \in DOMAIN mmap /\ i \in DOMAIN mmap /\ j # i
        BY <1>5, <1>11, <3>1, <4>1
      <4> QED BY <2>2, <3>3, <4>1, <4>2 DEF EntriesApart
    <3>4. BytesOf(free_ranges) = Listed(n)
      BY <1>9, <2>2, <3>1
    <3>5. BytesOf(free_ranges') = Listed(n) \cup Bytes(mmap[i])
      BY <1>7, <3>2, <3>3, <3>4
    <3> QED BY <3>1, <3>5, ListedStep
  <2>3. Adding'
    <3>1. i + 1 \in 1 .. Len(mmap) + 1
      BY <1>5, <1>11
    <3>2. EntriesApart' => BytesOf(free_ranges') = Listed(i)'
      BY <1>10, <2>2
    <3>3. (stage[2] - 1)' = i /\ Len(mmap)' = Len(mmap)
      BY <1>4, <2>1
    <3>4. Listed(stage[2] - 1)' = Listed(i)'
      BY <3>3 DEF Listed
    <3> QED BY <1>4, <1>9, <2>1, <3>1, <3>2, <3>3, <3>4 DEF Adding
  <2> QED BY <1>1, <1>4, <1>7, <1>8, <1>9, <2>1, <2>3 DEF BallocInv
<1>12. CASE ~ more
  <2>1. stage' = <<"remove", 1>> /\ stage'[1] = "remove" /\ stage'[2] = 1 /\ stage'[2] - 1 = 0
    BY <1>4, <1>12
  <2>2. i = Len(mmap) + 1 /\ i - 1 = Len(mmap) /\ r = Kernel
    BY <1>5, <1>9, <1>12 DEF r
  <2>3. Removed(0) = {}
    BY <1>1, RemovedStep
  <2>4. Removed(stage[2] - 1)' = {}
    <3>1. Removed(stage[2] - 1)' = Removed(0)'
      BY <2>1 DEF Removed, Withheld
    <3> QED BY <1>10, <2>3, <3>1
  <2>5. Listed(Len(mmap))' = Listed(Len(mmap))
    BY <1>4 DEF Listed
  <2>6. Removing'
    BY <1>4, <1>5, <1>7, <1>9, <1>10, <2>1, <2>2, <2>4, <2>5 DEF Removing, Bytes
  <2> QED BY <1>1, <1>4, <1>7, <1>8, <1>9, <2>1, <2>6 DEF BallocInv
<1> QED BY <1>11, <1>12

\* An entry, the initramfs or the kernel is taken out.
LEMMA RemoveEntryInv ==
    ASSUME BallocInv, RemoveEntry, ~ halted'
    PROVE  BallocInv'
<1>1. /\ mmap \in MemoryMaps /\ halted \in BOOLEAN
      /\ Ordered(memory_map) /\ Ordered(free_ranges) /\ NodesConserved
  BY DEF BallocInv
<1>2. stage[1] = "remove" /\ stage = <<"remove", stage[2]>> /\ Removing
  BY DEF BallocInv, RemoveEntry
<1>3. PICK i : i = stage[2]
  OBVIOUS
<1> DEFINE keep == i \in 1 .. Len(mmap) /\ mmap[i].type = 1
           r == IF i \in 1 .. Len(mmap) THEN mmap[i]
                ELSE IF i = Len(mmap) + 1 THEN Module ELSE Kernel
           t == IF keep THEN Tree(free_ranges)
                ELSE RemoveRange(Tree(free_ranges), r.begin, r.end)
<1>4. /\ ~ t.bug
      /\ free_ranges' = t.tree /\ spare' = t.spare
      /\ stage' = IF i < Len(mmap) + 2 THEN <<"remove", i + 1>> ELSE <<"ready", 0>>
      /\ mmap' = mmap /\ memory_map' = memory_map /\ busy' = busy /\ halted' = halted
  BY <1>3 DEF RemoveEntry, Halt, FreeRangesBecome
<1>5. /\ Len(mmap) \in Nat /\ DOMAIN mmap = 1 .. Len(mmap)
      /\ r.begin \in Nat /\ r.end \in Nat /\ r.begin < r.end
  BY <1>1, MapFacts
<1>6. /\ i \in 1 .. Len(mmap) + 2 /\ busy = {}
      /\ BytesOf(free_ranges) \cap Removed(i - 1) = {}
      /\ EntriesApart => /\ Listed(Len(mmap)) \ Removed(i - 1) \subseteq BytesOf(free_ranges)
                         /\ BytesOf(free_ranges) \subseteq Listed(Len(mmap)) \cup Bytes(Kernel)
  BY <1>2, <1>3 DEF Removing
<1> DEFINE gone == IF keep THEN {} ELSE Bytes(r)
<1>7. spare \in Nat /\ spare = RANGES - Len(memory_map) - Len(free_ranges) /\ RANGES \in Nat
  BY <1>1, MapFacts DEF NodesConserved
<1>8. /\ Sane(Tree(free_ranges)) /\ Tree(free_ranges).tree = free_ranges
      /\ Tree(free_ranges).spare = spare
  BY <1>1, <1>7, TreeSane
<1> HIDE DEF r
<1>9. /\ Sane(t) /\ Len(t.tree) + t.spare = Len(free_ranges) + spare
      /\ BytesOf(t.tree) = BytesOf(free_ranges) \ gone
  <2>1. CASE keep
    BY <1>8, <2>1
  <2>2. CASE ~ keep
    <3>1. /\ Sane(RemoveRange(Tree(free_ranges), r.begin, r.end))
          /\ Len(RemoveRange(Tree(free_ranges), r.begin, r.end).tree)
               + RemoveRange(Tree(free_ranges), r.begin, r.end).spare
               = Len(Tree(free_ranges).tree) + Tree(free_ranges).spare
          /\ BytesOf(RemoveRange(Tree(free_ranges), r.begin, r.end).tree)
               = BytesOf(Tree(free_ranges).tree) \ (r.begin .. r.end - 1)
      <4>1. Sane(Tree(free_ranges)) /\ r.begin \in Nat /\ r.end \in Nat /\ r.begin < r.end
        BY <1>5, <1>8
      <4> QED BY <4>1, RemoveEffect
    <3>2. t = RemoveRange(Tree(free_ranges), r.begin, r.end) /\ gone = r.begin .. r.end - 1
      BY <2>2 DEF Bytes
    <3> QED BY <1>8, <3>1, <3>2
  <2> QED BY <2>1, <2>2
<1> HIDE DEF t
<1>10. /\ Ordered(free_ranges') /\ spare' \in Nat
       /\ Len(free_ranges') + spare' = Len(free_ranges) + spare
       /\ BytesOf(free_ranges') = BytesOf(free_ranges) \ gone
  BY <1>4, <1>9 DEF Sane
<1>11. NodesConserved'
  <2>1. Len(memory_map) \in Nat /\ Len(free_ranges) \in Nat /\ Len(free_ranges') \in Nat
    BY <1>1, <1>10, RangesOfTree
  <2>2. memory_map' = memory_map
    BY <1>4
  <2> QED BY <1>7, <1>10, <2>1, <2>2 DEF NodesConserved
<1>12. /\ EntriesApart' = EntriesApart /\ \A n : Listed(n)' = Listed(n) /\ Removed(n)' = Removed(n)
       /\ Listed(Len(mmap))' = Listed(Len(mmap))
       /\ Reserved' = Reserved
  BY <1>4 DEF EntriesApart, Listed, Removed, Withheld, Reserved
<1>13. CASE i < Len(mmap) + 2
  <2>1. stage' = <<"remove", i + 1>> /\ stage'[1] = "remove" /\ stage'[2] = i + 1 /\ i + 1 - 1 = i
    BY <1>4, <1>6, <1>13
  <2>2. Removed(i) = Removed(i - 1) \cup gone
    <3>1. CASE i \in 1 .. Len(mmap)
      <4>1. Removed(i) = Removed(i - 1) \cup (IF mmap[i].type # 1 THEN Bytes(mmap[i]) ELSE {})
        BY <1>1, <3>1, RemovedStep
      <4>2. r = mmap[i]
        BY <3>1 DEF r
      <4> QED BY <3>1, <4>1, <4>2
    <3>2. CASE i = Len(mmap) + 1
      <4>1. Removed(Len(mmap) + 1) = Removed(Len(mmap)) \cup Bytes(Module)
        BY <1>1, RemovedStep
      <4>2. i \notin 1 .. Len(mmap) /\ i - 1 = Len(mmap)
        BY <1>5, <3>2
      <4>3. gone = Bytes(Module)
        BY <3>2, <4>2 DEF r
      <4> QED BY <3>2, <4>1, <4>2, <4>3
    <3> QED BY <1>5, <1>6, <1>13, <3>1, <3>2
  <2>3. Removed(stage[2] - 1)' = Removed(i)
    <3>0. (stage[2] - 1)' = i
      <4>1. i \in Int
        BY <1>5, <1>6
      <4> QED BY <2>1, <4>1
    <3>1. Removed(stage[2] - 1)' = Removed(i)'
      BY <3>0 DEF Removed, Withheld
    <3> QED BY <1>12, <3>1
  <2>4. i + 1 \in 1 .. Len(mmap) + 2
    BY <1>5, <1>6, <1>13
  <2> HIDE DEF gone
  <2>5. BytesOf(free_ranges') \cap Removed(i) = {}
    BY <1>6, <1>10, <2>2
  <2>6. EntriesApart => /\ Listed(Len(mmap)) \ Removed(i) \subseteq BytesOf(free_ranges')
                        /\ BytesOf(free_ranges') \subseteq Listed(Len(mmap)) \cup Bytes(Kernel)
    BY <1>6, <1>10, <2>2
  <2>7. Removing'
    BY <1>4, <1>6, <1>12, <2>1, <2>3, <2>4, <2>5, <2>6 DEF Removing, Bytes
  <2> QED BY <1>1, <1>4, <1>6, <1>10, <1>11, <2>1, <2>7 DEF BallocInv
<1>14. CASE ~ (i < Len(mmap) + 2)
  <2>1. stage' = <<"ready", 0>>
    BY <1>4, <1>14
  <2>2. i = Len(mmap) + 2 /\ i - 1 = Len(mmap) + 1 /\ i \notin 1 .. Len(mmap) /\ i # Len(mmap) + 1
    BY <1>5, <1>6, <1>14
  <2>3. gone = Bytes(Kernel)
    BY <2>2 DEF r
  <2> HIDE DEF gone
  <2>4. Reserved = Removed(i - 1) \cup Bytes(Kernel)
    <3>1. Reserved = Removed(Len(mmap) + 1) \cup Bytes(Kernel)
      BY <1>1, RemovedStep
    <3> QED BY <2>2, <3>1
  <2>5. Listed(Len(mmap)) = BytesIn({mmap[j] : j \in DOMAIN mmap})
    BY <1>1, RemovedStep
  <2>6. busy' = {} /\ BytesIn(busy') = {}
    BY <1>4, <1>6 DEF BytesIn
  <2>7. ReservedNotFree'
    <3>1. BytesOf(free_ranges') \cap Reserved = {}
      BY <1>6, <1>10, <2>3, <2>4
    <3> QED BY <1>12, <2>6, <3>1 DEF ReservedNotFree
  <2>8. EntriesApart => BytesOf(free_ranges') = Listed(Len(mmap)) \ Reserved
    BY <1>6, <1>10, <2>3, <2>4
  <2>9. FreeMemoryExact'
    <3>1. EntriesApart' => BytesOf(free_ranges') \cup BytesIn(busy')
                             = BytesIn({mmap'[j] : j \in DOMAIN mmap'}) \ Reserved'
      BY <1>4, <1>12, <2>5, <2>6, <2>8
    <3> QED BY <2>6, <3>1 DEF FreeMemoryExact
  <2> QED BY <1>1, <1>4, <1>6, <1>10, <1>11, <2>1, <2>7, <2>9 DEF BallocInv
<1> QED BY <1>13, <1>14

\* A block is cut out of a free range.
LEMMA AllocInv ==
    ASSUME BallocInv, NEW req \in Requests, BallocAlloc(req), ~ halted'
    PROVE  BallocInv'
<1>1. /\ mmap \in MemoryMaps /\ halted \in BOOLEAN
      /\ Ordered(memory_map) /\ Ordered(free_ranges) /\ NodesConserved
      /\ \A q \in busy : q \in Extent /\ q.begin < q.end
  BY DEF BallocInv
<1>2. stage = <<"ready", 0>> /\ ReservedNotFree /\ FreeMemoryExact
  BY DEF BallocInv, BallocAlloc
<1> DEFINE r == Visited(free_ranges, req[2], req[3])[FindRoom(req)]
           addr == Place(r, req)
           t == CutOut(Tree(free_ranges), r, addr, addr + req[1])
           block == Span(addr, addr + req[1])
<1>3. /\ FindRoom(req) # 0 /\ ~ t.bug
      /\ free_ranges' = t.tree /\ spare' = t.spare
      /\ busy' = busy \cup {block}
      /\ mmap' = mmap /\ stage' = stage /\ memory_map' = memory_map /\ halted' = halted
  BY DEF BallocAlloc, Halt, FreeRangesBecome
<1>4. Contains(free_ranges, r) /\ Fits(r, req)
  BY <1>1, <1>3, RoomFound
<1> HIDE DEF r
<1>5. r.begin \in Nat /\ r.end \in Nat
  BY <1>1, <1>4, RangesOfTree DEF Contains
<1>6. req \in (Nat \ {0}) \X Nat \X Nat
  BY BallocAssumption
<1>7. /\ addr \in Nat /\ req[1] \in Nat /\ req[1] > 0
      /\ r.begin <= addr /\ addr + req[1] <= r.end
  BY <1>4, <1>5, <1>6, PlaceInside
<1> HIDE DEF addr
<1>8. PICK top \in Nat : top = addr + req[1]
  BY <1>7
<1>9. addr < top /\ r.begin < top /\ r.end > addr /\ r.begin <= addr /\ top <= r.end
  BY <1>5, <1>7, <1>8
<1>10. spare \in Nat /\ spare = RANGES - Len(memory_map) - Len(free_ranges) /\ RANGES \in Nat
  BY <1>1, MapFacts DEF NodesConserved
<1>11. /\ Sane(Tree(free_ranges)) /\ Tree(free_ranges).tree = free_ranges
       /\ Tree(free_ranges).spare = spare
  BY <1>1, <1>10, TreeSane
<1>12. t = CutOut(Tree(free_ranges), r, addr, top) /\ block = Span(addr, top)
  BY <1>8
<1>13. /\ Sane(t) /\ Len(t.tree) + t.spare = Len(free_ranges) + spare
       /\ \A x : x \in BytesOf(t.tree)
                   <=> x \in BytesOf(free_ranges) /\ ~ (x \in addr .. top - 1 /\ x \in Bytes(r))
  <2> DEFINE c == CutOut(Tree(free_ranges), r, addr, top)
  <2>1. /\ Sane(Tree(free_ranges)) /\ Contains(Tree(free_ranges).tree, r)
        /\ addr \in Nat /\ top \in Nat /\ addr < top /\ r.begin < top /\ r.end > addr
    BY <1>4, <1>7, <1>8, <1>9, <1>11
  <2>2. Sane(c) /\ Len(c.tree) + c.spare = Len(Tree(free_ranges).tree) + Tree(free_ranges).spare
    BY <2>1, CutOutEffect
  <2>3. \A x : x \in BytesOf(c.tree)
                 <=> /\ x \in BytesOf(Tree(free_ranges).tree)
                     /\ ~ (x \in addr .. top - 1 /\ x \in Bytes(r))
    BY <2>1, CutOutBytes
  <2> HIDE DEF c, t
  <2>4. t = c
    BY <1>12 DEF c
  <2> QED BY <1>11, <2>2, <2>3, <2>4
<1> HIDE DEF t, block
<1>14. block \in Extent /\ block.begin < block.end /\ Bytes(block) = addr .. top - 1
  BY <1>7, <1>9, <1>12 DEF Span, Extent, Bytes
<1>15. Bytes(block) \subseteq Bytes(r) /\ Bytes(r) \subseteq BytesOf(free_ranges)
  <2>1. Bytes(block) \subseteq Bytes(r)
    <3>1. Bytes(r) = r.begin .. r.end - 1
      BY DEF Bytes
    <3>2. addr .. top - 1 \subseteq r.begin .. r.end - 1
      BY <1>5, <1>7, <1>9
    <3> QED BY <1>14, <3>1, <3>2
  <2>2. Bytes(r) \subseteq BytesOf(free_ranges)
    BY <1>1, <1>4, BytesOfTree
  <2> QED BY <2>1, <2>2
<1>16. /\ Ordered(free_ranges') /\ spare' \in Nat
       /\ Len(free_ranges') + spare' = Len(free_ranges) + spare
  BY <1>3, <1>13 DEF Sane
<1>17. BytesOf(free_ranges') = BytesOf(free_ranges) \ Bytes(block)
  <2>1. BytesOf(free_ranges') = BytesOf(t.tree)
    BY <1>3
  <2>2. \A x : x \in BytesOf(t.tree) <=> x \in BytesOf(free_ranges) /\ x \notin Bytes(block)
    BY <1>13, <1>14, <1>15
  <2> QED BY <2>1, <2>2
<1>18. NodesConserved'
  <2>1. Len(memory_map) \in Nat /\ Len(free_ranges) \in Nat /\ Len(free_ranges') \in Nat
    BY <1>1, <1>16, RangesOfTree
  <2>2. memory_map' = memory_map
    BY <1>3
  <2> QED BY <1>10, <1>16, <2>1, <2>2 DEF NodesConserved
<1>19. BytesIn(busy') = BytesIn(busy) \cup Bytes(block)
  BY <1>3 DEF BytesIn
<1>20. BytesOf(free_ranges') \cup BytesIn(busy') = BytesOf(free_ranges) \cup BytesIn(busy)
  BY <1>15, <1>17, <1>19
<1>21. /\ EntriesApart' = EntriesApart /\ Reserved' = Reserved
       /\ BytesIn({mmap[i] : i \in DOMAIN mmap})' = BytesIn({mmap[i] : i \in DOMAIN mmap})
  BY <1>3 DEF EntriesApart, Reserved
<1>22. stage[1] = "ready" /\ stage'[1] = "ready"
  BY <1>2, <1>3
<1>23. ReservedNotFree'
  BY <1>2, <1>20, <1>21, <1>22 DEF ReservedNotFree
<1>24. FreeMemoryExact'
  <2>1. /\ \A q \in busy : Bytes(q) \cap BytesOf(free_ranges) = {}
        /\ \A p, q \in busy : p # q => Bytes(p) \cap Bytes(q) = {}
        /\ EntriesApart => BytesOf(free_ranges) \cup BytesIn(busy)
                             = BytesIn({mmap[i] : i \in DOMAIN mmap}) \ Reserved
    BY <1>2, <1>22 DEF FreeMemoryExact
  <2>2. \A q \in busy' : Bytes(q) \cap BytesOf(free_ranges') = {}
    BY <1>3, <1>17, <2>1
  <2>3. \A q \in busy : Bytes(q) \cap Bytes(block) = {}
    BY <1>15, <2>1
  <2>4. \A p, q \in busy' : p # q => Bytes(p) \cap Bytes(q) = {}
    BY <1>3, <2>1, <2>3
  <2>5. EntriesApart' => BytesOf(free_ranges') \cup BytesIn(busy')
                           = BytesIn({mmap[i] : i \in DOMAIN mmap})' \ Reserved'
    BY <1>20, <1>21, <2>1
  <2> QED BY <2>2, <2>4, <2>5 DEF FreeMemoryExact, Bytes
<1>25. \A q \in busy' : q \in Extent /\ q.begin < q.end
  BY <1>1, <1>3, <1>14
<1> QED BY <1>1, <1>2, <1>3, <1>16, <1>18, <1>23, <1>24, <1>25 DEF BallocInv

\* A block goes back, next to what is free.
LEMMA FreeInv ==
    ASSUME BallocInv, NEW r \in busy, BallocFree(r), ~ halted'
    PROVE  BallocInv'
<1>1. /\ mmap \in MemoryMaps /\ halted \in BOOLEAN
      /\ Ordered(memory_map) /\ Ordered(free_ranges) /\ NodesConserved
      /\ \A q \in busy : q \in Extent /\ q.begin < q.end
  BY DEF BallocInv
<1>2. stage = <<"ready", 0>> /\ ReservedNotFree /\ FreeMemoryExact
  BY DEF BallocInv, Adding, Removing
<1> DEFINE t == AddRange(Tree(free_ranges), r.begin, r.end)
<1>3. /\ ~ t.bug
      /\ free_ranges' = t.tree /\ spare' = t.spare
      /\ busy' = busy \ {r}
      /\ mmap' = mmap /\ stage' = stage /\ memory_map' = memory_map /\ halted' = halted
  BY DEF BallocFree, Halt, FreeRangesBecome
<1>4. r.begin \in Nat /\ r.end \in Nat /\ r.begin < r.end /\ Bytes(r) = r.begin .. r.end - 1
  BY <1>1 DEF Extent, Bytes
<1>5. spare \in Nat /\ spare = RANGES - Len(memory_map) - Len(free_ranges) /\ RANGES \in Nat
  BY <1>1, MapFacts DEF NodesConserved
<1>6. /\ Sane(Tree(free_ranges)) /\ Tree(free_ranges).tree = free_ranges
      /\ Tree(free_ranges).spare = spare
  BY <1>1, <1>5, TreeSane
<1>7. stage[1] = "ready" /\ stage'[1] = "ready"
  BY <1>2, <1>3
<1>8. /\ \A q \in busy : Bytes(q) \cap BytesOf(free_ranges) = {}
      /\ \A p, q \in busy : p # q => Bytes(p) \cap Bytes(q) = {}
      /\ EntriesApart => BytesOf(free_ranges) \cup BytesIn(busy)
                           = BytesIn({mmap[i] : i \in DOMAIN mmap}) \ Reserved
  BY <1>2, <1>7 DEF FreeMemoryExact
<1>9. /\ Sane(t) /\ Len(t.tree) + t.spare = Len(free_ranges) + spare
      /\ BytesOf(t.tree) = BytesOf(free_ranges) \cup Bytes(r)
  <2>1. /\ Sane(Tree(free_ranges)) /\ Ordered(Tree(free_ranges).tree)
        /\ Tree(free_ranges).spare \in Int
    BY <1>6 DEF Sane
  <2>2. Sane(t)
    BY <1>4, <2>1, AddSane
  <2>3. /\ Len(t.tree) + t.spare = Len(Tree(free_ranges).tree) + Tree(free_ranges).spare
        /\ BytesOf(Tree(free_ranges).tree) \subseteq BytesOf(t.tree)
        /\ BytesOf(t.tree) \subseteq BytesOf(Tree(free_ranges).tree) \cup r.begin .. r.end - 1
        /\ BytesOf(Tree(free_ranges).tree) \cap (r.begin .. r.end - 1) = {}
             => r.begin .. r.end - 1 \subseteq BytesOf(t.tree)
    BY <1>4, <2>1, AddEffect
  <2> HIDE DEF t
  <2>4. BytesOf(free_ranges) \cap Bytes(r) = {}
    BY <1>8
  <2> QED BY <1>4, <1>6, <2>2, <2>3, <2>4
<1> HIDE DEF t
<1>10. /\ Ordered(free_ranges') /\ spare' \in Nat
       /\ Len(free_ranges') + spare' = Len(free_ranges) + spare
       /\ BytesOf(free_ranges') = BytesOf(free_ranges) \cup Bytes(r)
  BY <1>3, <1>9 DEF Sane
<1>11. NodesConserved'
  <2>1. Len(memory_map) \in Nat /\ Len(free_ranges) \in Nat /\ Len(free_ranges') \in Nat
    BY <1>1, <1>10, RangesOfTree
  <2>2. memory_map' = memory_map
    BY <1>3
  <2> QED BY <1>5, <1>10, <2>1, <2>2 DEF NodesConserved
<1>12. BytesIn(busy) = BytesIn(busy') \cup Bytes(r)
  BY <1>3 DEF BytesIn
<1>13. BytesOf(free_ranges') \cup BytesIn(busy') = BytesOf(free_ranges) \cup BytesIn(busy)
  BY <1>10, <1>12
<1>14. /\ EntriesApart' = EntriesApart /\ Reserved' = Reserved
       /\ BytesIn({mmap[i] : i \in DOMAIN mmap})' = BytesIn({mmap[i] : i \in DOMAIN mmap})
  BY <1>3 DEF EntriesApart, Reserved
<1>15. ReservedNotFree'
  BY <1>2, <1>7, <1>13, <1>14 DEF ReservedNotFree
<1>16. FreeMemoryExact'
  <2>1. \A q \in busy' : q \in busy /\ q # r
    BY <1>3
  <2>2. \A q \in busy' : Bytes(q) \cap BytesOf(free_ranges') = {}
    BY <1>8, <1>10, <2>1
  <2>3. \A p, q \in busy' : p # q => Bytes(p) \cap Bytes(q) = {}
    BY <1>8, <2>1
  <2>4. EntriesApart' => BytesOf(free_ranges') \cup BytesIn(busy')
                           = BytesIn({mmap[i] : i \in DOMAIN mmap})' \ Reserved'
    BY <1>8, <1>13, <1>14
  <2> QED BY <2>2, <2>3, <2>4 DEF FreeMemoryExact, Bytes
<1>17. \A q \in busy' : q \in Extent /\ q.begin < q.end
  BY <1>1, <1>3
<1> QED BY <1>1, <1>2, <1>3, <1>10, <1>11, <1>15, <1>16, <1>17 DEF BallocInv

\* Every step keeps the invariant; one in which the kernel stops changes nothing.
LEMMA BallocStep ==
    ASSUME BallocInv, [BallocNext]_ballocVars
    PROVE  BallocInv'
<1>1. ASSUME mmap' = mmap, stage' = stage, memory_map' = memory_map, free_ranges' = free_ranges,
             spare' = spare, busy' = busy, halted' \in BOOLEAN
      PROVE  BallocInv'
  <2>1. NodesConserved' = NodesConserved
    BY <1>1 DEF NodesConserved
  <2>2. EntriesApart' = EntriesApart /\ Reserved' = Reserved
    BY <1>1 DEF EntriesApart, Reserved
  <2>3. Adding' = Adding
    BY <1>1, <2>2 DEF Adding, Listed
  <2>4. Removing' = Removing
    BY <1>1, <2>2 DEF Removing, Listed, Removed, Withheld
  <2>5. ReservedNotFree' = ReservedNotFree
    BY <1>1, <2>2 DEF ReservedNotFree
  <2>6. FreeMemoryExact' = FreeMemoryExact
    BY <1>1, <2>2 DEF FreeMemoryExact
  <2> QED BY <1>1, <2>1, <2>3, <2>4, <2>5, <2>6 DEF BallocInv
<1>2. CASE UNCHANGED ballocVars
  BY <1>1, <1>2 DEF ballocVars, BallocInv
<1>3. CASE BallocNext
  <2>1. CASE Halt
    BY <1>1, <2>1 DEF Halt
  <2>2. CASE AddEntry
    <3>1. Halt \/ ~ halted'
      BY <2>2 DEF AddEntry
    <3> QED BY <2>1, <2>2, <3>1, AddEntryInv
  <2>3. CASE RemoveEntry
    <3>1. Halt \/ ~ halted'
      BY <2>3 DEF RemoveEntry
    <3> QED BY <2>1, <2>3, <3>1, RemoveEntryInv
  <2>4. ASSUME NEW req \in Requests, BallocAlloc(req) PROVE BallocInv'
    <3>1. Halt \/ ~ halted'
      BY <2>4 DEF BallocAlloc
    <3> QED BY <2>1, <2>4, <3>1, AllocInv
  <2>5. ASSUME NEW r \in busy, BallocFree(r) PROVE BallocInv'
    <3>1. Halt \/ ~ halted'
      BY <2>5 DEF BallocFree
    <3> QED BY <2>1, <2>5, <3>1, FreeInv
  <2> QED BY <1>3, <2>2, <2>3, <2>4, <2>5 DEF BallocNext
<1> QED BY <1>2, <1>3

(***************************************************************************)
(* BallocInv holds in every state of balloc.c, whatever the memory map.    *)
(***************************************************************************)
THEOREM BallocInvariant == BallocSpec => []BallocInv
<1>1. BallocInit => BallocInv
  BY BallocInitInv
<1>2. BallocInv /\ [BallocNext]_ballocVars => BallocInv'
  BY BallocStep
<1> QED BY <1>1, <1>2, PTL DEF BallocSpec

(***************************************************************************)
(* The ranges of both trees stay in order and a gap apart and no node is   *)
(* lost, which is what __balloc_remove_range() relies on when it reads     *)
(* `next` before it links what is left of a range.                         *)
(***************************************************************************)
THEOREM TreesStayApart == BallocSpec => []RangesApart
<1>1. ASSUME BallocInv PROVE RangesApart
  <2>1. /\ mmap \in MemoryMaps /\ halted \in BOOLEAN
        /\ Ordered(memory_map) /\ Ordered(free_ranges)
        /\ spare \in Nat /\ spare = RANGES - Len(memory_map) - Len(free_ranges)
        /\ \A r \in busy : r \in Extent /\ r.begin < r.end
    BY <1>1 DEF BallocInv, NodesConserved
  <2>2. Len(memory_map) \in Nat /\ Len(free_ranges) \in Nat /\ Len(mmap) \in Nat /\ RANGES \in Nat
    BY <2>1, RangesOfTree, MapFacts
  <2>3. spare \in 0 .. RANGES
    BY <2>1, <2>2
  <2>4. stage \in {"add", "remove"} \X (1 .. Len(mmap) + 2) \cup {<<"ready", 0>>}
    <3>1. CASE stage = <<"add", stage[2]>> /\ Adding
      <4>1. stage[2] \in 1 .. Len(mmap) + 2
        BY <2>2, <3>1 DEF Adding
      <4> QED BY <3>1, <4>1
    <3>2. CASE stage = <<"remove", stage[2]>> /\ Removing
      <4>1. stage[2] \in 1 .. Len(mmap) + 2
        BY <2>2, <3>2 DEF Removing
      <4> QED BY <3>2, <4>1
    <3> QED BY <1>1, <3>1, <3>2 DEF BallocInv
  <2>5. ASSUME NEW t, Ordered(t), NEW r \in ToSet(t)
        PROVE  r.begin \in Nat /\ r.end \in Nat /\ r.begin < r.end
    <3>1. PICK i \in 1 .. Len(t) : r = t[i]
      BY <2>5, RangesOfTree, MembersAsSet DEF Contains
    <3> QED BY <2>5, <3>1, RangesOfTree
  <2>6. \A r \in busy : r.begin \in Nat /\ r.end \in Nat /\ r.begin < r.end
    BY <2>1 DEF Extent
  <2>7. BallocTypeOK
    BY <2>1, <2>3, <2>4, <2>5, <2>6 DEF BallocTypeOK
  <2>8. ASSUME NEW t, Ordered(t), NEW i \in 1 .. Len(t) - 1 PROVE t[i].end < t[i + 1].begin
    <3>1. i \in 1 .. Len(t) /\ i + 1 \in 1 .. Len(t) /\ i < i + 1
      BY <2>8, RangesOfTree
    <3> QED BY <2>8, <3>1 DEF Ordered
  <2> QED BY <2>1, <2>7, <2>8 DEF RangesApart
<1> QED BY <1>1, BallocInvariant, PTL

(***************************************************************************)
(* What an entry that is not of type 1 covers, the initramfs and the       *)
(* kernel are neither free nor handed out once balloc_parse_mmap() is      *)
(* done, "because sometimes BIOS/bootloader may report a broken memory     *)
(* map with overlapped regions" (balloc.c:192-193) included.               *)
(***************************************************************************)
THEOREM ReservedIsNotHandedOut == BallocSpec => []ReservedNotFree
<1>1. ASSUME BallocInv PROVE ReservedNotFree
  <2>1. stage[1] = "ready" => ~ (stage[1] = "add") /\ ~ (stage[1] = "remove")
    OBVIOUS
  <2> QED BY <1>1, <2>1 DEF BallocInv, ReservedNotFree
<1> QED BY <1>1, BallocInvariant, PTL

(***************************************************************************)
(* balloc_alloc() hands no address out twice, and with entries that do not *)
(* overlap every usable address is free or handed out.                     *)
(***************************************************************************)
THEOREM MemoryHandedOutOnce == BallocSpec => []FreeMemoryExact
<1>1. ASSUME BallocInv PROVE FreeMemoryExact
  <2>1. stage[1] = "ready" => ~ (stage[1] = "add") /\ ~ (stage[1] = "remove")
    OBVIOUS
  <2> QED BY <1>1, <2>1 DEF BallocInv, FreeMemoryExact
<1> QED BY <1>1, BallocInvariant, PTL
=============================================================================
