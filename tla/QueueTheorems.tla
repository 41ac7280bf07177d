--------------------------- MODULE QueueTheorems ---------------------------
(* What the operations of list.c do to the members of a queue, and what a  *)
(* search for the first of several places finds.                           *)
EXTENDS Naturals, Sequences, SequencesExt, SequenceTheorems,
        WellFoundedInduction, TLAPS

\* list_add_tail() adds one member, and no duplicate if it was not a member.
LEMMA AppendMembers ==
    ASSUME NEW S, NEW q \in Seq(S), NEW x \in S
    PROVE  /\ Append(q, x) \in Seq(S)
           /\ Append(q, x) # <<>>
           /\ \A y : Contains(Append(q, x), y) <=> Contains(q, y) \/ y = x
           /\ IsInjective(q) /\ ~ Contains(q, x) => IsInjective(Append(q, x))
<1> DEFINE a == Append(q, x)
<1>1. /\ a \in Seq(S) /\ a # <<>> /\ Len(a) = Len(q) + 1
      /\ \A i \in 1 .. Len(q) : a[i] = q[i]
      /\ a[Len(q) + 1] = x
  BY AppendProperties
<1>2. Len(q) \in Nat /\ DOMAIN q = 1 .. Len(q) /\ DOMAIN a = 1 .. Len(a)
  BY <1>1, LenProperties
<1>3. ASSUME NEW y PROVE Contains(a, y) <=> Contains(q, y) \/ y = x
  <2>1. \A i \in 1 .. Len(q) + 1 : i = Len(q) + 1 \/ i \in 1 .. Len(q)
    BY <1>2
  <2>2. ASSUME Contains(a, y) PROVE Contains(q, y) \/ y = x
    BY <1>1, <1>2, <2>1, <2>2 DEF Contains
  <2>3. ASSUME Contains(q, y) PROVE Contains(a, y)
    BY <1>1, <1>2, <2>3 DEF Contains
  <2>4. ASSUME y = x PROVE Contains(a, y)
    BY <1>1, <1>2, <2>4 DEF Contains
  <2> QED BY <2>2, <2>3, <2>4
<1>4. ASSUME IsInjective(q), ~ Contains(q, x) PROVE IsInjective(a)
  <2> SUFFICES ASSUME NEW i \in DOMAIN a, NEW j \in DOMAIN a, a[i] = a[j]
               PROVE  i = j
    BY DEF IsInjective
  <2>1. CASE i \in 1 .. Len(q) /\ j \in 1 .. Len(q)
    BY <1>1, <1>2, <1>4, <2>1 DEF IsInjective
  <2>2. CASE i = Len(q) + 1 /\ j \in 1 .. Len(q)
    BY <1>1, <1>2, <1>4, <2>2 DEF Contains
  <2>3. CASE i \in 1 .. Len(q) /\ j = Len(q) + 1
    BY <1>1, <1>2, <1>4, <2>3 DEF Contains
  <2> QED BY <1>1, <1>2, <2>1, <2>2, <2>3
<1> QED BY <1>1, <1>3, <1>4

\* Removing the first entry removes one member, and leaves no other copy of it.
LEMMA TailMembers ==
    ASSUME NEW S, NEW q \in Seq(S), q # <<>>
    PROVE  /\ Head(q) \in S
           /\ Tail(q) \in Seq(S)
           /\ Contains(q, Head(q))
           /\ \A y : Contains(q, y) <=> Contains(Tail(q), y) \/ y = Head(q)
           /\ IsInjective(q) => IsInjective(Tail(q))
           /\ IsInjective(q) => ~ Contains(Tail(q), Head(q))
<1> DEFINE h == Head(q)  r == Tail(q)
<1>1. /\ h \in S /\ r \in Seq(S) /\ Len(r) = Len(q) - 1
      /\ \A i \in 1 .. Len(r) : r[i] = q[i + 1]
  BY HeadTailProperties
<1>2. /\ Len(q) \in Nat \ {0} /\ Len(r) \in Nat
      /\ DOMAIN q = 1 .. Len(q) /\ DOMAIN r = 1 .. Len(r)
  BY <1>1, LenProperties, EmptySeq
<1>3. h = q[1]
  BY HeadTailProperties
<1>4. Contains(q, h)
  BY <1>2, <1>3 DEF Contains
<1>5. ASSUME NEW y PROVE Contains(q, y) <=> Contains(r, y) \/ y = h
  <2>1. ASSUME Contains(r, y) PROVE Contains(q, y)
    <3>1. PICK i \in 1 .. Len(r) : r[i] = y
      BY <2>1 DEF Contains
    <3>2. i + 1 \in 1 .. Len(q) /\ q[i + 1] = y
      BY <1>1, <1>2, <3>1
    <3> QED BY <3>2 DEF Contains
  <2>2. ASSUME Contains(q, y), y # h PROVE Contains(r, y)
    <3>1. PICK i \in 1 .. Len(q) : q[i] = y
      BY <2>2 DEF Contains
    <3>2. i - 1 \in 1 .. Len(r) /\ r[i - 1] = q[(i - 1) + 1]
      BY <1>1, <1>2, <1>3, <2>2, <3>1
    <3>3. (i - 1) + 1 = i
      BY <1>2
    <3> QED BY <3>1, <3>2, <3>3 DEF Contains
  <2> QED BY <1>4, <2>1, <2>2
<1>6. ASSUME IsInjective(q) PROVE IsInjective(r) /\ ~ Contains(r, h)
  <2>1. \A i, j \in 1 .. Len(q) : q[i] = q[j] => i = j
    BY <1>2, <1>6 DEF IsInjective
  <2>2. \A i \in 1 .. Len(r) : i + 1 \in 1 .. Len(q) /\ i + 1 # 1
    BY <1>1, <1>2
  <2>3. IsInjective(r)
    <3> SUFFICES ASSUME NEW i \in 1 .. Len(r), NEW j \in 1 .. Len(r), r[i] = r[j]
                 PROVE  i = j
      BY <1>2 DEF IsInjective
    <3>1. i + 1 = j + 1
      BY <1>1, <2>1, <2>2
    <3> QED BY <3>1, <1>2
  <2>4. ~ Contains(r, h)
    <3> SUFFICES ASSUME NEW i \in 1 .. Len(r), r[i] = h PROVE FALSE
      BY DEF Contains
    <3>1. 1 \in 1 .. Len(q) /\ q[i + 1] = q[1]
      BY <1>1, <1>2, <1>3
    <3> QED BY <2>1, <2>2, <3>1
  <2> QED BY <2>3, <2>4
<1> QED BY <1>1, <1>4, <1>5, <1>6

\* A list that is empty, as list_setup() leaves it.
LEMMA EmptyMembers ==
    /\ IsInjective(<<>>)
    /\ \A y : ~ Contains(<<>>, y)
<1>1. DOMAIN <<>> = {} /\ Len(<<>>) = 0
  OBVIOUS
<1> QED BY <1>1 DEF IsInjective, Contains

\* The entry list_add_tail() added last.
LEMMA FrontOfAppend ==
    ASSUME NEW S, NEW q \in Seq(S), NEW x \in S
    PROVE  Front(Append(q, x)) = q /\ Last(Append(q, x)) = x
<1> DEFINE a == Append(q, x)
<1>1. /\ a \in Seq(S) /\ Len(a) = Len(q) + 1
      /\ \A i \in 1 .. Len(q) : a[i] = q[i]
      /\ a[Len(q) + 1] = x
  BY AppendProperties
<1>2. Len(q) \in Nat /\ Len(a) - 1 = Len(q)
  BY <1>1, LenProperties
<1>3. \A i \in 1 .. Len(q) : a[i] \in S
  BY <1>1, ElementOfSeq
<1>4. /\ SubSeq(a, 1, Len(q)) \in Seq(S)
      /\ Len(SubSeq(a, 1, Len(q))) = Len(q)
      /\ \A i \in 1 .. Len(q) : SubSeq(a, 1, Len(q))[i] = a[i]
  BY <1>1, <1>2, <1>3, SubSeqProperties
<1>5. SubSeq(a, 1, Len(q)) = q
  BY <1>1, <1>4, SeqEqual
<1> QED BY <1>1, <1>2, <1>5 DEF Front, Last

\* A queue is its last entry behind the others, of which it is none.
LEMMA FrontAndLast ==
    ASSUME NEW S, NEW q \in Seq(S), q # <<>>
    PROVE  /\ Front(q) \in Seq(S)
           /\ Last(q) \in S
           /\ q = Append(Front(q), Last(q))
           /\ \A y : Contains(q, y) <=> Contains(Front(q), y) \/ y = Last(q)
           /\ IsInjective(q) => ~ Contains(Front(q), Last(q))
<1>1. PICK f \in Seq(S), x \in S : q = Append(f, x)
  BY SequenceEmptyOrAppend
<1>2. Front(q) = f /\ Last(q) = x
  BY <1>1, FrontOfAppend
<1>3. \A y : Contains(q, y) <=> Contains(f, y) \/ y = x
  BY <1>1, AppendMembers
<1>4. ASSUME IsInjective(q), Contains(f, x) PROVE FALSE
  <2>1. /\ Len(q) = Len(f) + 1 /\ Len(f) \in Nat /\ DOMAIN q = 1 .. Len(q)
        /\ \A i \in 1 .. Len(f) : q[i] = f[i]
        /\ q[Len(f) + 1] = x
    BY <1>1, AppendProperties, LenProperties
  <2>2. PICK i \in 1 .. Len(f) : f[i] = x
    BY <1>4 DEF Contains
  <2>3. i \in DOMAIN q /\ Len(f) + 1 \in DOMAIN q /\ i # Len(f) + 1
    BY <2>1, <2>2
  <2> QED BY <1>4, <2>1, <2>2, <2>3 DEF IsInjective
<1> QED BY <1>1, <1>2, <1>3, <1>4

\* list_add(): a new first entry.
LEMMA PrependMembers ==
    ASSUME NEW S, NEW q \in Seq(S), NEW x \in S
    PROVE  /\ <<x>> \o q \in Seq(S)
           /\ \A y : Contains(<<x>> \o q, y) <=> Contains(q, y) \/ y = x
           /\ IsInjective(q) /\ ~ Contains(q, x) => IsInjective(<<x>> \o q)
<1>1. <<x>> \in Seq(S) /\ Len(<<x>>) = 1 /\ <<x>>[1] = x
  OBVIOUS
<1> DEFINE a == <<x>> \o q
<1>2. /\ a \in Seq(S) /\ Len(a) = 1 + Len(q)
      /\ \A i \in 1 .. 1 + Len(q) : a[i] = IF i <= 1 THEN x ELSE q[i - 1]
  BY <1>1, ConcatProperties, SMT
<1>3. Len(q) \in Nat /\ DOMAIN q = 1 .. Len(q) /\ DOMAIN a = 1 .. Len(a)
  BY <1>2, LenProperties
<1> HIDE DEF a
<1>4. ASSUME NEW y PROVE Contains(a, y) <=> Contains(q, y) \/ y = x
  <2>1. ASSUME Contains(a, y), y # x PROVE Contains(q, y)
    <3>1. PICK i \in 1 .. Len(a) : a[i] = y
      BY <2>1 DEF Contains
    <3>2. i - 1 \in 1 .. Len(q) /\ q[i - 1] = y
      BY <1>2, <1>3, <2>1, <3>1
    <3> QED BY <3>2 DEF Contains
  <2>2. ASSUME Contains(q, y) PROVE Contains(a, y)
    <3>1. PICK i \in 1 .. Len(q) : q[i] = y
      BY <2>2 DEF Contains
    <3>2. i + 1 \in 1 .. Len(a) /\ ~ (i + 1 <= 1) /\ (i + 1) - 1 = i
      BY <1>2, <1>3, <3>1
    <3>3. a[i + 1] = y
      BY <1>2, <3>1, <3>2
    <3> QED BY <3>2, <3>3 DEF Contains
  <2>3. ASSUME y = x PROVE Contains(a, y)
    <3>1. 1 \in 1 .. Len(a) /\ a[1] = x
      BY <1>2, <1>3
    <3> QED BY <2>3, <3>1 DEF Contains
  <2> QED BY <2>1, <2>2, <2>3
<1>5. ASSUME IsInjective(q), ~ Contains(q, x) PROVE IsInjective(a)
  <2> SUFFICES ASSUME NEW i \in 1 .. Len(a), NEW j \in 1 .. Len(a), a[i] = a[j]
               PROVE  i = j
    BY <1>3 DEF IsInjective
  <2>1. \A k \in 1 .. Len(q) : q[k] # x
    BY <1>5 DEF Contains
  <2>2. ASSUME NEW k \in 1 .. Len(a), k # 1
        PROVE  k - 1 \in 1 .. Len(q) /\ a[k] = q[k - 1]
    BY <1>2, <1>3, <2>2
  <2>3. a[1] = x
    BY <1>2, <1>3
  <2>4. CASE i # 1 /\ j # 1
    <3>1. q[i - 1] = q[j - 1] /\ i - 1 \in DOMAIN q /\ j - 1 \in DOMAIN q
      BY <1>3, <2>2, <2>4
    <3>2. i - 1 = j - 1
      BY <1>5, <3>1 DEF IsInjective
    <3> QED BY <1>2, <1>3, <3>2
  <2> QED BY <2>1, <2>2, <2>3, <2>4
<1> QED BY <1>2, <1>4, <1>5 DEF a

\* Two lists one after the other.
LEMMA ConcatMembers ==
    ASSUME NEW S, NEW q \in Seq(S), NEW r \in Seq(S)
    PROVE  /\ q \o r \in Seq(S)
           /\ \A y : Contains(q \o r, y) <=> Contains(q, y) \/ Contains(r, y)
           /\ IsInjective(q) /\ IsInjective(r) /\ (\A y : ~ (Contains(q, y) /\ Contains(r, y)))
                => IsInjective(q \o r)
<1> DEFINE a == q \o r
<1>1. /\ a \in Seq(S) /\ Len(a) = Len(q) + Len(r)
      /\ \A i \in 1 .. Len(q) + Len(r) :
           a[i] = IF i <= Len(q) THEN q[i] ELSE r[i - Len(q)]
  BY ConcatProperties
<1>2. /\ Len(q) \in Nat /\ Len(r) \in Nat
      /\ DOMAIN q = 1 .. Len(q) /\ DOMAIN r = 1 .. Len(r) /\ DOMAIN a = 1 .. Len(a)
  BY <1>1, LenProperties
<1> HIDE DEF a
<1>3. ASSUME NEW i \in 1 .. Len(a)
      PROVE  \/ i \in 1 .. Len(q) /\ a[i] = q[i]
             \/ i - Len(q) \in 1 .. Len(r) /\ a[i] = r[i - Len(q)]
  BY <1>1, <1>2
<1>4. ASSUME NEW y PROVE Contains(a, y) <=> Contains(q, y) \/ Contains(r, y)
  <2>1. ASSUME Contains(a, y) PROVE Contains(q, y) \/ Contains(r, y)
    BY <1>3, <2>1 DEF Contains
  <2>2. ASSUME Contains(q, y) PROVE Contains(a, y)
    <3>1. PICK i \in 1 .. Len(q) : q[i] = y
      BY <2>2 DEF Contains
    <3>2. i \in 1 .. Len(a) /\ a[i] = y
      BY <1>1, <1>2, <3>1
    <3> QED BY <3>2 DEF Contains
  <2>3. ASSUME Contains(r, y) PROVE Contains(a, y)
    <3>1. PICK i \in 1 .. Len(r) : r[i] = y
      BY <2>3 DEF Contains
    <3>2. /\ i + Len(q) \in 1 .. Len(a) /\ ~ (i + Len(q) <= Len(q))
          /\ (i + Len(q)) - Len(q) = i
      BY <1>1, <1>2, <3>1
    <3>3. a[i + Len(q)] = y
      BY <1>1, <3>1, <3>2
    <3> QED BY <3>2, <3>3 DEF Contains
  <2> QED BY <2>1, <2>2, <2>3
<1>5. ASSUME IsInjective(q), IsInjective(r), \A y : ~ (Contains(q, y) /\ Contains(r, y))
      PROVE  IsInjective(a)
  <2> SUFFICES ASSUME NEW i \in 1 .. Len(a), NEW j \in 1 .. Len(a), a[i] = a[j]
               PROVE  i = j
    BY <1>2 DEF IsInjective
  <2>1. CASE i \in 1 .. Len(q) /\ a[i] = q[i] /\ j \in 1 .. Len(q) /\ a[j] = q[j]
    BY <1>2, <1>5, <2>1 DEF IsInjective
  <2>2. CASE /\ i - Len(q) \in 1 .. Len(r) /\ a[i] = r[i - Len(q)]
             /\ j - Len(q) \in 1 .. Len(r) /\ a[j] = r[j - Len(q)]
    <3>1. i - Len(q) = j - Len(q)
      BY <1>2, <1>5, <2>2 DEF IsInjective
    <3> QED BY <1>1, <1>2, <3>1
  <2>3. CASE /\ i \in 1 .. Len(q) /\ a[i] = q[i]
             /\ j - Len(q) \in 1 .. Len(r) /\ a[j] = r[j - Len(q)]
    BY <1>5, <2>3 DEF Contains
  <2>4. CASE /\ i - Len(q) \in 1 .. Len(r) /\ a[i] = r[i - Len(q)]
             /\ j \in 1 .. Len(q) /\ a[j] = q[j]
    BY <1>5, <2>4 DEF Contains
  <2> QED BY <1>3, <2>1, <2>2, <2>3, <2>4
<1> QED BY <1>1, <1>4, <1>5 DEF a

LEMMA ThreeLists ==
    ASSUME NEW S, NEW f \in Seq(S), NEW q \in Seq(S), NEW b \in Seq(S),
           IsInjective(f), IsInjective(q), IsInjective(b),
           \A y : ~ (Contains(f, y) /\ Contains(q, y)),
           \A y : ~ (Contains(f, y) /\ Contains(b, y)),
           \A y : ~ (Contains(q, y) /\ Contains(b, y))
    PROVE  /\ IsInjective(f \o q \o b)
           /\ \A y : Contains(f \o q \o b, y) <=> Contains(f, y) \/ Contains(q, y) \/ Contains(b, y)
<1> DEFINE a == f \o q
<1>1. /\ a \in Seq(S) /\ IsInjective(a)
      /\ \A y : Contains(a, y) <=> Contains(f, y) \/ Contains(q, y)
  BY ConcatMembers
<1> HIDE DEF a
<1>2. \A y : ~ (Contains(a, y) /\ Contains(b, y))
  BY <1>1
<1>3. /\ IsInjective(a \o b)
      /\ \A y : Contains(a \o b, y) <=> Contains(a, y) \/ Contains(b, y)
  BY <1>1, <1>2, ConcatMembers
<1> QED BY <1>1, <1>3 DEF a

\* What a sequence has before and after a gap.
LEMMA EndsOf ==
    ASSUME NEW S, NEW t \in Seq(S), NEW a \in 0 .. Len(t), NEW b \in a + 1 .. Len(t) + 1
    PROVE  /\ SubSeq(t, 1, a) \in Seq(S) /\ Len(SubSeq(t, 1, a)) = a
           /\ \A i \in 1 .. a : SubSeq(t, 1, a)[i] = t[i]
           /\ SubSeq(t, b, Len(t)) \in Seq(S) /\ Len(SubSeq(t, b, Len(t))) = Len(t) + 1 - b
           /\ \A i \in 1 .. Len(t) + 1 - b : SubSeq(t, b, Len(t))[i] = t[b + i - 1]
<1>1. Len(t) \in Nat /\ \A i \in 1 .. Len(t) : t[i] \in S
  BY LenProperties, ElementOfSeq
<1> DEFINE f == SubSeq(t, 1, a)  g == SubSeq(t, b, Len(t))
<1>2. f \in Seq(S) /\ Len(f) = a /\ \A i \in 1 .. a : f[i] = t[i]
  <2>1. a \in Int /\ 1 \in Int /\ \A i \in 1 .. a : t[i] \in S
    BY <1>1
  <2>2. /\ f \in Seq(S) /\ Len(f) = IF 1 <= a THEN a - 1 + 1 ELSE 0
        /\ \A i \in 1 .. a - 1 + 1 : f[i] = t[1 + i - 1]
    BY <2>1, SubSeqProperties
  <2> HIDE DEF f
  <2>3. \A i \in 1 .. a : 1 + i - 1 = i /\ i \in 1 .. a - 1 + 1
    BY <1>1
  <2>4. Len(f) = a
    BY <1>1, <2>2
  <2>5. ASSUME NEW i \in 1 .. a PROVE f[i] = t[i]
    BY <2>2, <2>3
  <2> QED BY <2>2, <2>4, <2>5
<1>3. /\ g \in Seq(S) /\ Len(g) = Len(t) + 1 - b
      /\ \A i \in 1 .. Len(t) + 1 - b : g[i] = t[b + i - 1]
  <2>1. b \in Int /\ Len(t) \in Int /\ \A i \in b .. Len(t) : t[i] \in S
    BY <1>1
  <2>2. /\ g \in Seq(S) /\ Len(g) = IF b <= Len(t) THEN Len(t) - b + 1 ELSE 0
        /\ \A i \in 1 .. Len(t) - b + 1 : g[i] = t[b + i - 1]
    BY <2>1, SubSeqProperties
  <2> HIDE DEF g
  <2>3. \A i \in 1 .. Len(t) + 1 - b : i \in 1 .. Len(t) - b + 1
    BY <1>1
  <2>4. Len(g) = Len(t) + 1 - b
    BY <1>1, <2>2
  <2>5. ASSUME NEW i \in 1 .. Len(t) + 1 - b PROVE g[i] = t[b + i - 1]
    BY <2>2, <2>3
  <2> QED BY <2>2, <2>4, <2>5
<1> QED BY <1>2, <1>3

\* list_del(): the entry leaves a list it is on, and the others stay.
LEMMA RemoveMembers ==
    ASSUME NEW S, NEW q \in Seq(S), NEW x, IsInjective(q), Contains(q, x)
    PROVE  /\ RemoveFirst(q, x) \in Seq(S)
           /\ \A y : Contains(RemoveFirst(q, x), y) <=> Contains(q, y) /\ y # x
           /\ IsInjective(RemoveFirst(q, x))
<1>1. PICK k \in 1 .. Len(q) : q[k] = x
  BY DEF Contains
<1>2. Len(q) \in Nat /\ DOMAIN q = 1 .. Len(q) /\ \A i \in 1 .. Len(q) : q[i] \in S
  BY LenProperties, ElementOfSeq
<1>3. {i \in 1 .. Len(q) : q[i] = x} = {k}
  BY <1>1, <1>2 DEF IsInjective
<1>4. Min({k}) = k
  BY <1>1, <1>2 DEF Min
<1>5. RemoveFirst(q, x) = RemoveAt(q, k)
  BY <1>1, <1>3, <1>4 DEF RemoveFirst, SelectInSeq
<1> DEFINE f == SubSeq(q, 1, k - 1)  g == SubSeq(q, k + 1, Len(q))
<1>6. /\ f \in Seq(S) /\ Len(f) = k - 1
      /\ \A i \in 1 .. k - 1 : f[i] = q[i]
  <2>1. k - 1 \in 0 .. Len(q) /\ k + 1 \in (k - 1) + 1 .. Len(q) + 1
    BY <1>1, <1>2
  <2> QED BY <2>1, EndsOf
<1>7. /\ g \in Seq(S) /\ Len(g) = Len(q) - k
      /\ \A i \in 1 .. Len(q) - k : g[i] = q[k + i]
  <2>1. k - 1 \in 0 .. Len(q) /\ k + 1 \in (k - 1) + 1 .. Len(q) + 1
    BY <1>1, <1>2
  <2>2. /\ g \in Seq(S) /\ Len(g) = Len(q) + 1 - (k + 1)
        /\ \A i \in 1 .. Len(q) + 1 - (k + 1) : g[i] = q[k + 1 + i - 1]
    BY <2>1, EndsOf
  <2> HIDE DEF g
  <2>3. Len(q) + 1 - (k + 1) = Len(q) - k
    <3>1. k \in Int /\ Len(q) \in Int
      BY <1>1, <1>2
    <3>2. \A m \in Int : m + 1 - (k + 1) = m - k
      BY <3>1
    <3> QED BY <3>1, <3>2, Zenon
  <2>4. \A i \in 1 .. Len(q) - k : k + 1 + i - 1 = k + i
    BY <1>1, <1>2
  <2>5. ASSUME NEW i \in 1 .. Len(q) - k PROVE g[i] = q[k + i]
    BY <2>2, <2>3, <2>4
  <2> QED BY <2>2, <2>3, <2>5
<1>8. RemoveFirst(q, x) = f \o g
  BY <1>5 DEF RemoveAt
<1> HIDE DEF f, g
<1>9. ASSUME NEW y PROVE Contains(f, y) \/ Contains(g, y) <=> Contains(q, y) /\ y # x
  <2>1. ASSUME Contains(f, y) PROVE Contains(q, y) /\ y # x
    <3>1. PICK i \in 1 .. k - 1 : f[i] = y
      BY <1>6, <2>1 DEF Contains
    <3>2. i \in 1 .. Len(q) /\ q[i] = y /\ i # k
      BY <1>1, <1>2, <1>6, <3>1
    <3> QED BY <1>1, <1>2, <3>2 DEF Contains, IsInjective
  <2>2. ASSUME Contains(g, y) PROVE Contains(q, y) /\ y # x
    <3>1. PICK i \in 1 .. Len(q) - k : g[i] = y
      BY <1>7, <2>2 DEF Contains
    <3>2. k + i \in 1 .. Len(q) /\ q[k + i] = y /\ k + i # k
      BY <1>1, <1>2, <1>7, <3>1
    <3> QED BY <1>1, <1>2, <3>2 DEF Contains, IsInjective
  <2>3. ASSUME Contains(q, y), y # x PROVE Contains(f, y) \/ Contains(g, y)
    <3>1. PICK i \in 1 .. Len(q) : q[i] = y
      BY <2>3 DEF Contains
    <3>2. CASE i < k
      <4>1. i \in 1 .. k - 1
        BY <1>1, <1>2, <3>1, <3>2
      <4> QED BY <1>6, <3>1, <4>1 DEF Contains
    <3>3. CASE i > k
      <4>1. i - k \in 1 .. Len(q) - k /\ k + (i - k) = i
        BY <1>1, <1>2, <3>1, <3>3
      <4> QED BY <1>7, <3>1, <4>1 DEF Contains
    <3> QED BY <1>1, <1>2, <2>3, <3>1, <3>2, <3>3
  <2> QED BY <2>1, <2>2, <2>3
<1>10. IsInjective(f) /\ IsInjective(g)
  <2>0. DOMAIN f = 1 .. k - 1 /\ DOMAIN g = 1 .. Len(q) - k
    BY <1>6, <1>7, LenProperties
  <2>1. IsInjective(f)
    <3> SUFFICES ASSUME NEW i \in 1 .. k - 1, NEW j \in 1 .. k - 1, f[i] = f[j]
                 PROVE  i = j
      BY <2>0 DEF IsInjective
    <3>1. i \in DOMAIN q /\ j \in DOMAIN q /\ q[i] = q[j]
      BY <1>1, <1>2, <1>6
    <3> QED BY <3>1 DEF IsInjective
  <2>2. IsInjective(g)
    <3> SUFFICES ASSUME NEW i \in 1 .. Len(q) - k, NEW j \in 1 .. Len(q) - k, g[i] = g[j]
                 PROVE  i = j
      BY <2>0 DEF IsInjective
    <3>1. k + i \in DOMAIN q /\ k + j \in DOMAIN q /\ q[k + i] = q[k + j]
      BY <1>1, <1>2, <1>7
    <3>2. k + i = k + j
      BY <3>1 DEF IsInjective
    <3> QED BY <1>1, <1>2, <3>2
  <2> QED BY <2>1, <2>2
<1>11. ASSUME NEW y, Contains(f, y), Contains(g, y) PROVE FALSE
  <2>1. PICK i \in 1 .. k - 1 : f[i] = y
    BY <1>6, <1>11 DEF Contains
  <2>2. PICK j \in 1 .. Len(q) - k : g[j] = y
    BY <1>7, <1>11 DEF Contains
  <2>3. i \in DOMAIN q /\ k + j \in DOMAIN q /\ q[i] = q[k + j] /\ i # k + j
    BY <1>1, <1>2, <1>6, <1>7, <2>1, <2>2
  <2> QED BY <2>3 DEF IsInjective
<1> QED BY <1>6, <1>7, <1>8, <1>9, <1>10, <1>11, ConcatMembers

\* The members of a queue as a set.
LEMMA MembersAsSet ==
    ASSUME NEW S, NEW q \in Seq(S)
    PROVE  /\ ToSet(q) \subseteq S
           /\ \A y : y \in ToSet(q) <=> Contains(q, y)
<1>1. DOMAIN q = 1 .. Len(q) /\ \A i \in 1 .. Len(q) : q[i] \in S
  BY LenProperties, ElementOfSeq
<1>2. ToSet(q) \subseteq S
  BY <1>1 DEF ToSet
<1>3. ASSUME NEW y PROVE y \in ToSet(q) <=> Contains(q, y)
  BY <1>1 DEF ToSet, Contains
<1> QED BY <1>2, <1>3

\* list_del() of an entry that is on another list.
LEMMA RemoveAbsent ==
    ASSUME NEW q, NEW x, ~ Contains(q, x)
    PROVE  RemoveFirst(q, x) = q
BY DEF RemoveFirst, Contains

\* The first of several places is one of them.
LEMMA LeastOf ==
    ASSUME NEW T \in SUBSET Nat, T # {}
    PROVE  Min(T) \in T /\ \A y \in T : Min(T) <= y
<1>1. PICK x \in T : \A y \in T : ~ (<<y, x>> \in OpToRel(<, Nat))
  BY NatLessThanWellFounded, WFMin
<1>2. ASSUME NEW y \in T, y < x PROVE FALSE
  <2>1. <<y, x>> \in Nat \X Nat /\ <<y, x>>[1] < <<y, x>>[2]
    BY <1>2
  <2>2. <<y, x>> \in OpToRel(<, Nat)
    BY <2>1 DEF OpToRel
  <2> QED BY <1>1, <2>2
<1>3. \A y \in T : x <= y
  BY <1>2
<1> QED BY <1>3 DEF Min

-----------------------------------------------------------------------------
(* Loops: recursive functions of the number of rounds *)

\* What holds before the first round and is kept by every round holds after all.
LEMMA StaysIn ==
    ASSUME NEW n \in Nat, NEW f, NEW S, f[0] \in S,
           \A k \in 1 .. n : f[k - 1] \in S => f[k] \in S
    PROVE  \A k \in 0 .. n : f[k] \in S
<1> DEFINE T == {k \in 0 .. n : f[k] \notin S}
<1>1. ASSUME T # {} PROVE FALSE
  <2>1. T \in SUBSET Nat
    OBVIOUS
  <2>2. Min(T) \in T /\ \A y \in T : Min(T) <= y
    BY <1>1, <2>1, LeastOf
  <2>3. PICK m \in T : \A y \in T : m <= y
    BY <2>2
  <2>4. m \in 1 .. n /\ m - 1 \in 0 .. n /\ ~ (m <= m - 1)
    BY <2>3
  <2>5. m - 1 \notin T
    BY <2>3, <2>4
  <2>6. f[m - 1] \in S
    BY <2>4, <2>5
  <2> QED BY <2>3, <2>4, <2>6
<1> QED BY <1>1

\* f is s and what n rounds make of it, round k being the function step[k].
IsLoop(f, S, s, step, n) ==
    f \in [0 .. n -> S] /\ f[0] = s /\ \A k \in 1 .. n : f[k] = step[k][f[k - 1]]

\* A loop can go on for any number of rounds.
LEMMA LoopExists ==
    ASSUME NEW S, NEW s \in S, NEW step \in [Nat -> [S -> S]]
    PROVE  \A n \in Nat : \E f : IsLoop(f, S, s, step, n)
<1> DEFINE Loop(f, n) == f[0] = s /\ \A k \in 1 .. n : f[k] = step[k][f[k - 1]]
           T == {n \in Nat : ~ \E f \in [0 .. n -> S] : Loop(f, n)}
<1>1. ASSUME T # {} PROVE FALSE
  <2>1. Min(T) \in T /\ \A y \in T : Min(T) <= y
    <3>1. T \in SUBSET Nat
      OBVIOUS
    <3> HIDE DEF T
    <3> QED BY <1>1, <3>1, LeastOf
  <2>2. PICK n \in T : \A y \in T : n <= y
    BY <2>1
  <2>3. n \in Nat /\ ~ \E f \in [0 .. n -> S] : Loop(f, n)
    BY <2>2
  <2>4. CASE n = 0
    <3> DEFINE f == [k \in 0 .. 0 |-> s]
    <3>1. f \in [0 .. 0 -> S] /\ f[0] = s /\ \A k \in 1 .. 0 : FALSE
      OBVIOUS
    <3>2. Loop(f, 0)
      BY <3>1
    <3> QED BY <2>3, <2>4, <3>1, <3>2
  <2>5. CASE n > 0
    <3> DEFINE m == n - 1
    <3>1. m \in Nat /\ ~ (n <= m) /\ m + 1 = n
      BY <2>3, <2>5
    <3>2. \E f \in [0 .. m -> S] : Loop(f, m)
      BY <2>2, <3>1
    <3>3. PICK f \in [0 .. m -> S] : Loop(f, m)
      BY <3>2
    <3> DEFINE g == [k \in 0 .. n |-> IF k = n THEN step[n][f[m]] ELSE f[k]]
    <3>4. f[m] \in S /\ step[n] \in [S -> S] /\ step[n][f[m]] \in S
      BY <2>3, <3>1, <3>3
    <3>5. g \in [0 .. n -> S]
      <4>1. ASSUME NEW k \in 0 .. n, k # n PROVE f[k] \in S
        BY <3>1, <3>3, <4>1
      <4> QED BY <3>4, <4>1
    <3>6. g[0] = s
      BY <3>1, <3>3
    <3>7. ASSUME NEW k \in 1 .. n PROVE g[k] = step[k][g[k - 1]]
      <4>1. k \in 0 .. n /\ k - 1 \in 0 .. n /\ k - 1 # n /\ g[k - 1] = f[k - 1]
        BY <3>1
      <4>2. CASE k = n
        BY <3>1, <4>1, <4>2
      <4>3. CASE k # n
        <5>1. k \in 1 .. m
          BY <3>1, <4>3
        <5>2. f[k] = step[k][f[k - 1]]
          BY <3>3, <5>1
        <5> QED BY <4>1, <4>3, <5>2
      <4> QED BY <4>2, <4>3
    <3>8. Loop(g, n)
      BY <3>6, <3>7
    <3> QED BY <2>3, <3>5, <3>8
  <2> QED BY <2>3, <2>4, <2>5
<1> QED BY <1>1 DEF IsLoop

\* list_del() by places: what was behind the entry moves up by one.
LEMMA RemovePlaces ==
    ASSUME NEW S, NEW q \in Seq(S), IsInjective(q), NEW k \in 1 .. Len(q)
    PROVE  /\ RemoveFirst(q, q[k]) \in Seq(S)
           /\ Len(RemoveFirst(q, q[k])) = Len(q) - 1
           /\ \A i \in 1 .. Len(q) - 1 :
                RemoveFirst(q, q[k])[i] = IF i < k THEN q[i] ELSE q[i + 1]
<1> DEFINE x == q[k]
<1>1. Len(q) \in Nat /\ DOMAIN q = 1 .. Len(q) /\ \A i \in 1 .. Len(q) : q[i] \in S
  BY LenProperties, ElementOfSeq
<1>2. {i \in 1 .. Len(q) : q[i] = x} = {k}
  BY <1>1 DEF IsInjective
<1>3. Min({k}) = k
  BY <1>1 DEF Min
<1>4. RemoveFirst(q, x) = RemoveAt(q, k)
  BY <1>2, <1>3 DEF RemoveFirst, SelectInSeq
<1> DEFINE f == SubSeq(q, 1, k - 1)  g == SubSeq(q, k + 1, Len(q))
<1>5. k - 1 \in 0 .. Len(q) /\ k + 1 \in (k - 1) + 1 .. Len(q) + 1
  BY <1>1
<1>6. /\ f \in Seq(S) /\ Len(f) = k - 1
      /\ \A i \in 1 .. k - 1 : f[i] = q[i]
  BY <1>5, EndsOf
<1>7. /\ g \in Seq(S) /\ Len(g) = Len(q) + 1 - (k + 1)
      /\ \A i \in 1 .. Len(q) + 1 - (k + 1) : g[i] = q[k + 1 + i - 1]
  BY <1>5, EndsOf
<1>8. RemoveFirst(q, x) = f \o g
  BY <1>4 DEF RemoveAt
<1> HIDE DEF f, g, x
<1>9. /\ f \o g \in Seq(S) /\ Len(f \o g) = Len(f) + Len(g)
      /\ \A i \in 1 .. Len(f) + Len(g) : (f \o g)[i] = IF i <= Len(f) THEN f[i] ELSE g[i - Len(f)]
  BY <1>6, <1>7, ConcatProperties
<1>10. Len(f) + Len(g) = Len(q) - 1
  <2> DEFINE m == Len(q)
  <2>1. m \in Nat /\ k \in Nat /\ Len(f) = k - 1 /\ Len(g) = m + 1 - (k + 1)
    BY <1>1, <1>6, <1>7
  <2> HIDE DEF m
  <2>2. (k - 1) + (m + 1 - (k + 1)) = m - 1
    BY <2>1
  <2> QED BY <2>1, <2>2 DEF m
<1>11. ASSUME NEW i \in 1 .. Len(q) - 1 PROVE (f \o g)[i] = IF i < k THEN q[i] ELSE q[i + 1]
  <2>1. (f \o g)[i] = IF i <= k - 1 THEN f[i] ELSE g[i - (k - 1)]
    BY <1>6, <1>9, <1>10
  <2>2. CASE i < k
    <3>1. i \in 1 .. k - 1 /\ i <= k - 1
      BY <1>1, <2>2
    <3> QED BY <1>6, <2>1, <2>2, <3>1
  <2>3. CASE ~ (i < k)
    <3>1. ~ (i <= k - 1) /\ i - (k - 1) \in 1 .. Len(q) + 1 - (k + 1) /\ k + 1 + (i - (k - 1)) - 1 = i + 1
      BY <1>1, <2>3
    <3> QED BY <1>7, <2>1, <2>3, <3>1
  <2> QED BY <2>2, <2>3
<1> QED BY <1>8, <1>9, <1>10, <1>11 DEF x

\* Taking the first entry off a list is list_del() of it.
LEMMA RemoveHead ==
    ASSUME NEW S, NEW q \in Seq(S), q # <<>>, IsInjective(q)
    PROVE  RemoveFirst(q, Head(q)) = Tail(q)
<1>1. Len(q) \in Nat /\ Len(q) > 0 /\ 1 \in 1 .. Len(q) /\ Head(q) = q[1]
  BY EmptySeq, LenProperties
<1> DEFINE r == RemoveFirst(q, q[1])
<1>2. /\ r \in Seq(S) /\ Len(r) = Len(q) - 1
      /\ \A i \in 1 .. Len(q) - 1 : r[i] = IF i < 1 THEN q[i] ELSE q[i + 1]
  BY <1>1, RemovePlaces
<1>3. /\ Tail(q) \in Seq(S) /\ Len(Tail(q)) = Len(q) - 1
      /\ \A i \in 1 .. Len(Tail(q)) : Tail(q)[i] = q[i + 1]
  BY HeadTailProperties
<1> HIDE DEF r
<1>4. \A i \in 1 .. Len(r) : r[i] = Tail(q)[i]
  BY <1>1, <1>2, <1>3
<1>5. r = Tail(q)
  BY <1>2, <1>3, <1>4, SeqEqual
<1> QED BY <1>1, <1>5 DEF r
=============================================================================
