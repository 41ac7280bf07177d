---------------------------- MODULE RbTreeProofs ----------------------------
(***************************************************************************)
(* The tree of rbtree.c is in order at every step, and red-black between   *)
(* calls, for any number of nodes.  Every node x has bounds b: the nearest *)
(* nodes above it on either side, or 0 and N + 1, and its subtree is what  *)
(* lies between them.  That makes the order a matter of every node and its *)
(* children alone, which a rotation, a new leaf or an erased node can only *)
(* change in a few places.  In the same way heights h say how many black   *)
(* nodes every way down from a node has.                                   *)
(***************************************************************************)
EXTENDS RbTree, QueueTheorems, FiniteSetTheorems

Ref == Node \cup {Null}

Trees == [root : Ref, left : [Node -> Ref], right : [Node -> Ref],
          parent : [Node -> Ref], color : [Node -> {RED, BLACK}]]

-----------------------------------------------------------------------------
(* Trees with one link changed *)

\* u is t with p as the parent of x.
SetsParent(t, u, x, p) ==
    /\ u \in Trees /\ u.root = t.root /\ u.color = t.color
    /\ \A z \in Side : u[z] = t[z]
    /\ \A y \in Node : u.parent[y] = IF y = x THEN p ELSE t.parent[y]

\* u is t with c as the child of x on side s.
SetsChild(t, u, x, s, c) ==
    /\ u \in Trees /\ u.root = t.root /\ u.color = t.color /\ u.parent = t.parent
    /\ \A y \in Node, z \in Side : u[z][y] = IF y = x /\ z = s THEN c ELSE t[z][y]

\* u is t with new in the place that old has below p.
SetsLink(t, u, p, old, new) ==
    /\ u \in Trees /\ u.color = t.color /\ u.parent = t.parent
    /\ u.root = IF p = Null THEN new ELSE t.root
    /\ \A y \in Node, z \in Side : u[z][y] = IF y = p /\ t[z][p] = old THEN new ELSE t[z][y]

\* u is t with color k on x.
SetsColor(t, u, x, k) ==
    /\ u \in Trees /\ u.root = t.root /\ u.parent = t.parent
    /\ \A z \in Side : u[z] = t[z]
    /\ \A y \in Node : u.color[y] = IF y = x THEN k ELSE t.color[y]

\* rb_set_parent() sets one parent; of the null pointer, nothing.
LEMMA ParentSet ==
    ASSUME NEW t \in Trees, NEW x \in Ref, NEW p \in Ref
    PROVE  SetsParent(t, rb_set_parent(t, x, p), x, p)
<1>1. CASE x = Null
  <2>1. \A y \in Node : y # x
    BY <1>1 DEF Node, Null
  <2>2. rb_set_parent(t, x, p) = t
    BY <1>1, Zenon DEF rb_set_parent
  <2> QED BY <2>1, <2>2 DEF SetsParent
<1>2. CASE x \in Node
  <2>1. x # Null
    BY <1>2 DEF Node, Null
  <2>2. rb_set_parent(t, x, p) = [t EXCEPT !.parent[x] = p]
    BY <2>1, Zenon DEF rb_set_parent
  <2> QED BY <1>2, <2>2 DEF Trees, SetsParent, Side
<1> QED BY <1>1, <1>2 DEF Ref

\* So does an assignment to a link down.
LEMMA ChildSet ==
    ASSUME NEW t \in Trees, NEW x \in Node, NEW s \in Side, NEW c \in Ref
    PROVE  SetsChild(t, [t EXCEPT ![s][x] = c], x, s, c)
<1>1. CASE s = "left"
  BY <1>1 DEF SetsChild, Trees, Side
<1>2. CASE s = "right"
  BY <1>2 DEF SetsChild, Trees, Side
<1> QED BY <1>1, <1>2 DEF Side

\* So does rb_set_color().
LEMMA ColorSet ==
    ASSUME NEW t \in Trees, NEW x \in Node, NEW k \in {RED, BLACK}
    PROVE  SetsColor(t, rb_set_color(t, x, k), x, k)
BY DEF rb_set_color, Trees, SetsColor, Side

\* p is the parent of x, on one side.
HasChild(t, p, x) == \E d \in Side : t[d][p] = x /\ t[Other(d)][p] # x

\* Relink() changes the one link to old, in its parent or in the root.
LEMMA LinkSet ==
    ASSUME NEW t \in Trees, NEW p \in Ref, NEW old \in Node, NEW new \in Ref,
           p # Null => HasChild(t, p, old)
    PROVE  SetsLink(t, Relink(t, p, old, new), p, old, new)
<1>1. CASE p = Null
  <2>1. Relink(t, p, old, new) = [t EXCEPT !.root = new]
    BY <1>1 DEF Relink
  <2>2. \A y \in Node : y # p
    BY <1>1 DEF Node, Null
  <2> QED BY <1>1, <2>1, <2>2 DEF SetsLink, Trees, Side
<1>2. CASE p \in Node
  <2>1. p # Null
    BY <1>2 DEF Node, Null
  <2>2. CASE t.left[p] = old
    <3>1. Relink(t, p, old, new) = [t EXCEPT !["left"][p] = new]
      BY <2>1, <2>2 DEF Relink
    <3>2. t["right"][p] # old /\ t["left"][p] = old
      BY <2>1, <2>2 DEF HasChild, Side, Other
    <3>3. SetsChild(t, Relink(t, p, old, new), p, "left", new)
      BY <1>2, <3>1, ChildSet DEF Side
    <3> QED BY <2>1, <3>2, <3>3 DEF SetsChild, SetsLink, Side
  <2>3. CASE t.left[p] # old
    <3>1. Relink(t, p, old, new) = [t EXCEPT !["right"][p] = new]
      BY <2>1, <2>3 DEF Relink
    <3>2. t["right"][p] = old /\ t["left"][p] # old
      BY <2>1, <2>3 DEF HasChild, Side, Other
    <3>3. SetsChild(t, Relink(t, p, old, new), p, "right", new)
      BY <1>2, <3>1, ChildSet DEF Side
    <3> QED BY <2>1, <3>2, <3>3 DEF SetsChild, SetsLink, Side
  <2> QED BY <2>2, <2>3
<1> QED BY <1>1, <1>2 DEF Ref

\* u is t with x turned down to side s and its child on the other side in its place.
Turned(t, u, x, s) ==
    LET o == Other(s)
        r == t[o][x]
        m == t[s][r]
        p == t.parent[x]
    IN  /\ u \in Trees /\ u.color = t.color
        /\ u.root = IF p = Null THEN r ELSE t.root
        /\ \A y \in Node : u.parent[y] = IF y = x THEN r ELSE IF y = r THEN p
                                         ELSE IF y = m THEN x ELSE t.parent[y]
        /\ \A y \in Node, z \in Side :
             u[z][y] = IF y = r THEN (IF z = s THEN x ELSE t[z][y])
                       ELSE IF y = x THEN (IF z = o THEN m ELSE t[z][y])
                       ELSE IF y = p /\ t[z][p] = x THEN r
                       ELSE t[z][y]

Turn(t, x, s) ==
    LET o == Other(s)
        p == t.parent[x]
        r == t[o][x]
        t1 == rb_set_parent([t EXCEPT ![o][x] = t[s][r]], t[s][r], x)
        t2 == rb_set_parent([t1 EXCEPT ![s][r] = x], r, p)
    IN  rb_set_parent(Relink(t2, p, x, r), x, r)

\* rb_rotate_left() and rb_rotate_right(), all six assignments of each.
LEMMA RotateIs ==
    ASSUME NEW t \in Trees, NEW x \in Node, NEW s \in Side, NEW r \in Node, NEW m \in Ref,
           NEW p \in Ref, r = t[Other(s)][x], m = t[s][r], p = t.parent[x],
           r # x, m # x, m # r, p # x, p # r, p # Null => p # m,
           p # Null => HasChild(t, p, x)
    PROVE  Turned(t, Rotate(t, x, s), x, s)
<1>1. Rotate(t, x, s) = Turn(t, x, s)
  <2>1. CASE s = "left"
    BY <2>1, Zenon DEF Turn, Rotate, rb_rotate_left, Other
  <2>2. CASE s = "right"
    BY <2>2, Zenon DEF Turn, Rotate, rb_rotate_right, Other
  <2> QED BY <2>1, <2>2 DEF Side
<1> DEFINE o == Other(s)
           a == [t EXCEPT ![o][x] = m]
           b == rb_set_parent(a, m, x)
           c == [b EXCEPT ![s][r] = x]
           d == rb_set_parent(c, r, p)
           e == Relink(d, p, x, r)
           u == rb_set_parent(e, x, r)
<1>2. Rotate(t, x, s) = u
  BY <1>1 DEF Turn
<1>3. o \in Side /\ o # s /\ \A z \in Side : z = s \/ z = o
  BY DEF Other, Side
<1>4. x \in Ref /\ r \in Ref
  BY DEF Ref
<1>5. SetsChild(t, a, x, o, m)
  BY <1>3, ChildSet
<1> HIDE DEF a
<1>6. SetsParent(a, b, m, x)
  BY <1>4, <1>5, ParentSet DEF SetsChild
<1> HIDE DEF b
<1>7. SetsChild(b, c, r, s, x)
  BY <1>4, <1>6, ChildSet DEF SetsParent
<1> HIDE DEF c
<1>8. SetsParent(c, d, r, p)
  BY <1>4, <1>7, ParentSet DEF SetsChild
<1> HIDE DEF d
<1>9. \A y \in Node, z \in Side : d[z][y] = IF y = r /\ z = s THEN x
                                  ELSE IF y = x /\ z = o THEN m ELSE t[z][y]
  <2> TAKE y \in Node, z \in Side
  <2>1. d[z][y] = IF y = r /\ z = s THEN x ELSE b[z][y]
    BY <1>7, <1>8 DEF SetsChild, SetsParent
  <2>2. b[z][y] = IF y = x /\ z = o THEN m ELSE t[z][y]
    BY <1>5, <1>6 DEF SetsChild, SetsParent
  <2> QED BY <2>1, <2>2
<1>10. p # Null => HasChild(d, p, x)
  <2> SUFFICES ASSUME p # Null PROVE HasChild(d, p, x)
    OBVIOUS
  <2>1. PICK z \in Side : t[z][p] = x /\ t[Other(z)][p] # x
    BY DEF HasChild
  <2>2. p \in Node /\ Other(z) \in Side
    BY DEF Ref, Other, Side
  <2>3. d[z][p] = t[z][p] /\ d[Other(z)][p] = t[Other(z)][p]
    BY <1>9, <2>2
  <2> QED BY <2>1, <2>3 DEF HasChild
<1>11. SetsLink(d, e, p, x, r)
  BY <1>4, <1>8, <1>10, LinkSet DEF SetsParent
<1> HIDE DEF e
<1>12. SetsParent(e, u, x, r)
  BY <1>4, <1>11, ParentSet DEF SetsLink
<1> HIDE DEF u
<1>13. \A y \in Node : u.parent[y] = IF y = x THEN r ELSE IF y = r THEN p
                                     ELSE IF y = m THEN x ELSE t.parent[y]
  <2> TAKE y \in Node
  <2>1. u.parent[y] = IF y = x THEN r ELSE d.parent[y]
    BY <1>11, <1>12 DEF SetsLink, SetsParent
  <2>2. d.parent[y] = IF y = r THEN p ELSE b.parent[y]
    BY <1>7, <1>8 DEF SetsChild, SetsParent
  <2>3. b.parent[y] = IF y = m THEN x ELSE t.parent[y]
    BY <1>5, <1>6 DEF SetsChild, SetsParent
  <2> QED BY <2>1, <2>2, <2>3
<1>14. \A y \in Node, z \in Side :
         u[z][y] = IF y = r THEN (IF z = s THEN x ELSE t[z][y])
                   ELSE IF y = x THEN (IF z = o THEN m ELSE t[z][y])
                   ELSE IF y = p /\ t[z][p] = x THEN r
                   ELSE t[z][y]
  <2> TAKE y \in Node, z \in Side
  <2>1. u[z][y] = IF y = p /\ d[z][p] = x THEN r ELSE d[z][y]
    BY <1>11, <1>12 DEF SetsLink, SetsParent
  <2>2. y = p => d[z][p] = t[z][p]
    BY <1>9
  <2> QED BY <1>9, <2>1, <2>2
<1>15. u \in Trees /\ u.root = (IF p = Null THEN r ELSE t.root) /\ u.color = t.color
  BY <1>5, <1>6, <1>7, <1>8, <1>11, <1>12 DEF SetsLink, SetsParent, SetsChild
<1> QED BY <1>2, <1>13, <1>14, <1>15 DEF Turned

-----------------------------------------------------------------------------
(* Order *)

\* y is on side s of x.
On(s, y, x) == IF s = "left" THEN y < x ELSE x < y

\* The bounds of every node: its subtree is between them.
Bounds == [Side -> [Node -> 0 .. N + 1]]

Rooted(t, S, b) ==
    /\ t.root \in S \cup {Null}
    /\ t.root = Null <=> S = {}
    /\ t.root # Null => /\ t.parent[t.root] = Null
                        /\ b["left"][t.root] = 0 /\ b["right"][t.root] = N + 1

\* A child's bounds are its parent's, but for the parent itself.
Children(t, S, b) ==
    \A x \in S, s \in Side :
        t[s][x] # Null => /\ t[s][x] \in S /\ t.parent[t[s][x]] = x
                          /\ b[s][t[s][x]] = b[s][x] /\ b[Other(s)][t[s][x]] = x

Parents(t, S) ==
    \A x \in S \ {t.root} : t.parent[x] \in S /\ \E s \in Side : t[s][t.parent[x]] = x

Within(S, b) ==
    \A x \in S : /\ b["left"][x] \in S \cup {0} /\ b["left"][x] < x
                 /\ b["right"][x] \in S \cup {N + 1} /\ x < b["right"][x]

\* Where a link is null, there is no node between the bounds on that side.
Void(t, S, b) ==
    \A x, y \in S, s \in Side : On(s, y, x) /\ On(s, b[s][x], y) => t[s][x] # Null

\* Two nodes are apart, or one is between the bounds of the other on one side.
Nested(S, b) ==
    \A x, y \in S : y < x => \/ b["right"][y] <= b["left"][x]
                             \/ y <= b["left"][x] /\ b["right"][x] <= b["right"][y]
                             \/ b["left"][x] <= b["left"][y] /\ b["right"][y] <= x

Shape(t, S, b) ==
    /\ t \in Trees /\ S \subseteq Node /\ b \in Bounds
    /\ Rooted(t, S, b) /\ Children(t, S, b) /\ Parents(t, S)
    /\ Within(S, b) /\ Void(t, S, b) /\ Nested(S, b)

\* A child is on its side, within the bounds.
LEMMA ChildIs ==
    ASSUME NEW t, NEW S, NEW b, Shape(t, S, b), NEW x \in S, NEW s \in Side, t[s][x] # Null
    PROVE  /\ t[s][x] \in S /\ t.parent[t[s][x]] = x
           /\ b[s][t[s][x]] = b[s][x] /\ b[Other(s)][t[s][x]] = x
           /\ On(s, t[s][x], x) /\ On(s, b[s][x], t[s][x])
<1> DEFINE c == t[s][x]
<1>1. c \in S /\ t.parent[c] = x /\ b[s][c] = b[s][x] /\ b[Other(s)][c] = x
  BY DEF Shape, Children
<1> HIDE DEF c
<1>2. /\ b["left"][c] < c /\ c < b["right"][c]
  BY <1>1 DEF Shape, Within
<1>3. On(s, c, x) /\ On(s, b[s][x], c)
  <2>1. CASE s = "left"
    BY <1>1, <1>2, <2>1 DEF On, Other
  <2>2. CASE s = "right"
    BY <1>1, <1>2, <2>2 DEF On, Other
  <2> QED BY <2>1, <2>2 DEF Side
<1> QED BY <1>1, <1>3 DEF c

\* So is a parent, which has a node on one side only.
LEMMA ParentIs ==
    ASSUME NEW t, NEW S, NEW b, Shape(t, S, b), NEW x \in S, t.parent[x] # Null
    PROVE  /\ t.parent[x] \in S /\ x # t.root
           /\ HasChild(t, t.parent[x], x)
           /\ \/ t.parent[x] = b["left"][x] \/ t.parent[x] = b["right"][x]
<1> DEFINE p == t.parent[x]
<1>1. x # t.root /\ S \subseteq Node
  BY DEF Shape, Rooted, Null, Node
<1>2. PICK s \in Side : p \in S /\ t[s][p] = x
  BY <1>1 DEF Shape, Parents
<1>3. x # Null
  BY <1>1 DEF Null, Node
<1> HIDE DEF p
<1>4. b[s][x] = b[s][p] /\ b[Other(s)][x] = p
  BY <1>2, <1>3, ChildIs
<1>5. b["left"][p] # p /\ b["right"][p] # p
  <2>1. p \in Int /\ b["left"][p] < p /\ p < b["right"][p] /\ b["left"][p] \in Int /\ b["right"][p] \in Int
    BY <1>1, <1>2, RbAssumption DEF Shape, Within, Node, Bounds, Side
  <2> QED BY <2>1
<1>6. b[s][p] # p
  BY <1>5 DEF Side
<1>7. Other(s) \in Side /\ Other(Other(s)) = s
  BY DEF Side, Other
<1>8. ASSUME t[Other(s)][p] = x PROVE FALSE
  <2>1. b[s][x] = p
    BY <1>2, <1>3, <1>7, <1>8, ChildIs
  <2> QED BY <1>4, <1>6, <2>1
<1>9. HasChild(t, p, x)
  BY <1>2, <1>8 DEF HasChild
<1>10. p = b["left"][x] \/ p = b["right"][x]
  BY <1>4, <1>7 DEF Side
<1> QED BY <1>1, <1>2, <1>9, <1>10 DEF p

-----------------------------------------------------------------------------
(* Rotations *)

\* What is known of numbers and sides everywhere.
LEMMA Numbers ==
    ASSUME NEW t, NEW S, NEW b, Shape(t, S, b)
    PROVE  /\ \A x \in S : /\ x \in Node /\ x \in Ref /\ x \in Int /\ x # Null
                           /\ \A s \in Side : b[s][x] \in Int /\ t[s][x] \in Ref
                           /\ t.parent[x] \in Ref
           /\ \A x \in S : b["left"][x] < x /\ x < b["right"][x]
           /\ \A x \in S, s \in Side : b[s][x] # x
<1>1. S \subseteq Node /\ b \in Bounds /\ t \in Trees
  BY DEF Shape
<1>2. \A x \in Node : x \in Ref /\ x \in Int /\ x # Null
  BY DEF Node, Ref, Null
<1>3. \A i \in 0 .. N + 1 : i \in Int
  OBVIOUS
<1>4. \A x \in S, s \in Side : b[s][x] \in Int
  BY <1>1, <1>3 DEF Bounds
<1>5. \A x \in S, s \in Side : t[s][x] \in Ref /\ t.parent[x] \in Ref
  <2>1. \A x \in S : t.left[x] \in Ref /\ t.right[x] \in Ref /\ t.parent[x] \in Ref
    BY <1>1 DEF Trees
  <2> QED BY <2>1 DEF Side
<1>6. \A x \in S : b["left"][x] < x /\ x < b["right"][x]
  BY DEF Shape, Within
<1>7. \A x \in S, s \in Side : b[s][x] # x
  BY <1>1, <1>2, <1>4, <1>6 DEF Side
<1> QED BY <1>1, <1>2, <1>4, <1>5, <1>6, <1>7 DEF Side

\* The two sides are opposites, and of two nodes each is on one side of the other.
LEMMA Sides ==
    ASSUME NEW s \in Side
    PROVE  /\ Other(s) \in Side /\ Other(s) # s /\ Other(Other(s)) = s
           /\ \A z \in Side : z = s \/ z = Other(s)
           /\ \A x, y \in Int : /\ On(s, x, y) <=> On(Other(s), y, x)
                                /\ ~ (On(s, x, y) /\ On(s, y, x))
                                /\ x # y => On(s, x, y) \/ On(s, y, x)
BY DEF Side, Other, On

\* The children of a node are different from it and from each other.
LEMMA OneSide ==
    ASSUME NEW t, NEW S, NEW b, Shape(t, S, b), NEW x \in S, NEW s \in Side, t[s][x] # Null
    PROVE  t[s][x] # x /\ t[s][x] # t[Other(s)][x]
<1> DEFINE c == t[s][x]
           o == Other(s)
<1>1. c \in S /\ On(s, c, x)
  BY ChildIs
<1>2. x \in Int /\ c \in Int
  BY <1>1, Numbers
<1>3. o \in Side
  BY Sides
<1>4. ASSUME t[o][x] = c PROVE FALSE
  <2>1. On(o, t[o][x], x)
    BY <1>3, <1>4, ChildIs
  <2>2. On(s, x, c)
    BY <1>2, <1>4, <2>1, Sides
  <2> QED BY <1>1, <1>2, <2>2, Sides
<1>5. c # x
  BY <1>1, <1>2 DEF On
<1> QED BY <1>4, <1>5

\* The bounds after x was turned down to side s.
TurnedBounds(b, x, r, s) ==
    [z \in Side |-> [y \in Node |->
        IF z = s /\ y = r THEN b[s][x] ELSE IF z # s /\ y = x THEN r ELSE b[z][y]]]

\* The nodes a rotation is about are different ones.
LEMMA TurnNodes ==
    ASSUME NEW t, NEW S, NEW b, Shape(t, S, b), NEW x \in S, NEW s \in Side,
           t[Other(s)][x] # Null
    PROVE  LET r == t[Other(s)][x]
               m == t[s][r]
               p == t.parent[x]
           IN  /\ r \in S /\ m \in S \cup {Null} /\ p \in S \cup {Null}
               /\ r # x /\ m # x /\ m # r /\ p # x /\ p # r /\ (p # Null => p # m)
               /\ p # Null => HasChild(t, p, x)
               /\ Turned(t, Rotate(t, x, s), x, s)
<1> DEFINE o == Other(s)
           r == t[o][x]
           m == t[s][r]
           p == t.parent[x]
<1>1. /\ o \in Side /\ o # s /\ Other(o) = s
      /\ \A z \in Side : z = s \/ z = o
  BY Sides
<1> HIDE DEF o
<1>2. /\ r \in S /\ t.parent[r] = x /\ b[o][r] = b[o][x] /\ b[s][r] = x
  BY <1>1, ChildIs DEF o
<1> HIDE DEF r
<1>3. r # x /\ x # Null /\ r # Null
  BY <1>1, <1>2, Numbers
<1>4. m # Null => /\ m \in S /\ t.parent[m] = r /\ b[s][m] = x /\ b[o][m] = r
  BY <1>2, ChildIs DEF o
<1>5. m \in S \cup {Null}
  BY <1>4
<1> HIDE DEF m
<1>6. m # x /\ m # r
  BY <1>1, <1>2, <1>3, <1>4, Numbers
<1>7. p # Null => /\ p \in S /\ HasChild(t, p, x) /\ (p = b["left"][x] \/ p = b["right"][x])
  BY ParentIs
<1>8. p \in S \cup {Null}
  BY <1>7
<1> HIDE DEF p
<1>9. b["left"][x] < r /\ r < b["right"][x]
  <2>1. b["left"][r] < r /\ r < b["right"][r] /\ x \in Int /\ r \in Int
        /\ b["left"][x] < x /\ x < b["right"][x] /\ b["left"][x] \in Int /\ b["right"][x] \in Int
    BY <1>2, Numbers DEF Side
  <2>2. CASE s = "left"
    BY <1>2, <2>1, <2>2 DEF o, Other
  <2>3. CASE s = "right"
    BY <1>2, <2>1, <2>3 DEF o, Other
  <2> QED BY <2>2, <2>3 DEF Side
<1>10. m # Null => b["left"][x] < m /\ m < b["right"][x]
  <2> SUFFICES ASSUME m # Null PROVE b["left"][x] < m /\ m < b["right"][x]
    OBVIOUS
  <2>1. b["left"][m] < m /\ m < b["right"][m] /\ x \in Int /\ r \in Int /\ m \in Int
        /\ b["left"][x] < x /\ x < b["right"][x] /\ b["left"][x] \in Int /\ b["right"][x] \in Int
    BY <1>2, <1>4, Numbers DEF Side
  <2>2. CASE s = "left"
    BY <1>4, <1>9, <2>1, <2>2 DEF o, Other
  <2>3. CASE s = "right"
    BY <1>4, <1>9, <2>1, <2>3 DEF o, Other
  <2> QED BY <2>2, <2>3 DEF Side
<1>11. p # x /\ p # r /\ (p # Null => p # m)
  <2>1. CASE p = Null
    BY <1>3, <2>1
  <2>2. CASE p # Null
    <3>1. \A y \in S : b["left"][x] < y /\ y < b["right"][x] => y # p
      <4>1. b["left"][x] \in Int /\ b["right"][x] \in Int /\ \A y \in S : y \in Int
        BY Numbers DEF Side
      <4> QED BY <1>7, <2>2, <4>1
    <3>2. b["left"][x] < x /\ x < b["right"][x]
      BY Numbers
    <3> QED BY <1>2, <1>4, <1>9, <1>10, <3>1, <3>2
  <2> QED BY <2>1, <2>2
<1>12. Turned(t, Rotate(t, x, s), x, s)
  <2>1. t \in Trees /\ x \in Node /\ r \in Node /\ m \in Ref /\ p \in Ref
    BY <1>2, <1>5, <1>8, Numbers DEF Shape, Ref
  <2>2. r = t[Other(s)][x] /\ m = t[s][r] /\ p = t.parent[x]
    BY DEF o, r, m, p
  <2>3. p # Null => HasChild(t, p, x)
    BY <1>7
  <2> QED BY <1>3, <1>6, <1>11, <2>1, <2>2, <2>3, RotateIs
<1>13. p # Null => HasChild(t, p, x)
  BY <1>7
<1> QED BY <1>2, <1>3, <1>5, <1>6, <1>8, <1>11, <1>12, <1>13 DEF m, p, r, o

\* A rotation keeps the tree a tree, in order.
LEMMA TurnShape ==
    ASSUME NEW t, NEW S, NEW b, Shape(t, S, b), NEW x \in S, NEW s \in Side,
           t[Other(s)][x] # Null
    PROVE  Shape(Rotate(t, x, s), S, TurnedBounds(b, x, t[Other(s)][x], s))
<1> DEFINE o == Other(s)
           r == t[o][x]
           m == t[s][r]
           p == t.parent[x]
           u == Rotate(t, x, s)
           b2 == TurnedBounds(b, x, r, s)
<1>1. /\ o \in Side /\ o # s /\ Other(o) = s
      /\ \A z \in Side : z = s \/ z = o
      /\ \A y, w \in Int : On(o, y, w) <=> On(s, w, y)
  BY Sides
<1>2. /\ r \in S /\ m \in S \cup {Null} /\ p \in S \cup {Null}
      /\ r # x /\ m # x /\ m # r /\ p # x /\ p # r /\ (p # Null => p # m)
      /\ p # Null => HasChild(t, p, x)
      /\ Turned(t, u, x, s)
  BY TurnNodes
<1>3. /\ u \in Trees /\ u.root = (IF p = Null THEN r ELSE t.root)
      /\ \A y \in Node : u.parent[y] = IF y = x THEN r ELSE IF y = r THEN p
                                       ELSE IF y = m THEN x ELSE t.parent[y]
      /\ \A y \in Node, z \in Side :
             u[z][y] = IF y = r THEN (IF z = s THEN x ELSE t[z][y])
                       ELSE IF y = x THEN (IF z = o THEN m ELSE t[z][y])
                       ELSE IF y = p /\ t[z][p] = x THEN r
                       ELSE t[z][y]
  BY <1>2 DEF Turned
<1>4. \A y \in Node, z \in Side :
        b2[z][y] = IF z = s /\ y = r THEN b[s][x] ELSE IF z # s /\ y = x THEN r ELSE b[z][y]
  BY DEF TurnedBounds
<1>5. /\ S \subseteq Node /\ t \in Trees
      /\ \A y \in S : /\ y \in Node /\ y \in Int /\ y # Null
                      /\ \A z \in Side : b[z][y] \in Int /\ b[z][y] # y
                      /\ b["left"][y] < y /\ y < b["right"][y]
  BY Numbers DEF Shape
<1>6. /\ t.parent[r] = x /\ b[o][r] = b[o][x] /\ b[s][r] = x
      /\ On(o, r, x) /\ On(o, b[o][x], r)
  BY <1>1, ChildIs
<1> HIDE DEF u, b2
<1>7. m # Null => /\ m \in S /\ t.parent[m] = r /\ b[s][m] = x /\ b[o][m] = r
                  /\ On(s, m, r) /\ On(s, x, m)
  BY <1>2, <1>6, ChildIs DEF o
<1> HIDE DEF o, r, m
<1>8. \A y \in S, z \in Side : t[z][y] # Null =>
        /\ t[z][y] \in S /\ t.parent[t[z][y]] = y
        /\ b[z][t[z][y]] = b[z][y] /\ b[Other(z)][t[z][y]] = y
        /\ On(z, t[z][y], y) /\ On(z, b[z][y], t[z][y])
  BY ChildIs
<1>9. \A y \in S : y # r /\ y # x => \A z \in Side : b2[z][y] = b[z][y]
  BY <1>4, <1>5
<1>10. b2[s][r] = b[s][x] /\ b2[o][r] = b[o][r] /\ b2[s][x] = b[s][x] /\ b2[o][x] = r
  BY <1>1, <1>2, <1>4, <1>5
<1>11. m = t[s][r] /\ r = t[o][x] /\ r # Null
  BY <1>2, <1>5 DEF m, r, o
<1>12. b2 \in Bounds
  <2>1. \A z \in Side, y \in Node : b[z][y] \in 0 .. N + 1
    BY DEF Shape, Bounds
  <2>2. r \in 0 .. N + 1
    BY <1>2, <1>5, RbAssumption DEF Node
  <2>3. x \in Node
    BY <1>5
  <2>4. \A z \in Side, y \in Node :
          (IF z = s /\ y = r THEN b[s][x] ELSE IF z # s /\ y = x THEN r ELSE b[z][y]) \in 0 .. N + 1
    BY <2>1, <2>2, <2>3
  <2> QED BY <2>4 DEF Bounds, TurnedBounds, b2
<1>13. Rooted(u, S, b2)
  <2>0. Rooted(t, S, b)
    BY DEF Shape
  <2>1. CASE p = Null
    <3>1. x = t.root
      BY <1>5, <2>1 DEF Shape, Parents, p
    <3>2. b["left"][x] = 0 /\ b["right"][x] = N + 1
      BY <1>11, <2>0, <3>1, <1>5 DEF Rooted
    <3>3. u.root = r /\ u.parent[r] = Null
      BY <1>2, <1>3, <1>5, <2>1
    <3>4. b2[s][r] = b[s][x] /\ b2[o][r] = b[o][x]
      BY <1>6, <1>10
    <3> QED BY <1>1, <1>2, <1>11, <3>2, <3>3, <3>4 DEF Rooted, Side
  <2>2. CASE p # Null
    <3>1. t.root \in S /\ t.parent[t.root] = Null /\ t.root # Null
      BY <1>2, <1>5, <2>0 DEF Rooted
    <3>2. t.root # x /\ t.root # r /\ t.root # m
      BY <1>5, <1>6, <1>7, <1>2, <2>2, <3>1 DEF p
    <3>3. u.root = t.root /\ u.parent[u.root] = Null
      BY <1>3, <1>5, <2>2, <3>1, <3>2
    <3>4. b2["left"][u.root] = b["left"][t.root] /\ b2["right"][u.root] = b["right"][t.root]
      BY <1>9, <3>1, <3>2, <3>3 DEF Side
    <3> QED BY <2>0, <3>1, <3>3, <3>4 DEF Rooted
  <2> QED BY <2>1, <2>2
<1>14. Children(u, S, b2)
  <2> SUFFICES ASSUME NEW y \in S, NEW z \in Side, u[z][y] # Null
               PROVE  /\ u[z][y] \in S /\ u.parent[u[z][y]] = y
                      /\ b2[z][u[z][y]] = b2[z][y] /\ b2[Other(z)][u[z][y]] = y
    BY DEF Children
  <2>0. Other(z) \in Side /\ Other(s) = o /\ (z = s => Other(z) = o) /\ (z = o => Other(z) = s)
    BY <1>1 DEF Side, Other, o
  <2>1. CASE y = r /\ z = s
    BY <1>3, <1>5, <1>10, <2>0, <2>1
  <2>2. CASE y = r /\ z = o
    <3> DEFINE c == t[o][r]
    <3>1. u[z][y] = c
      BY <1>1, <1>3, <1>5, <2>2
    <3>2. c \in S /\ t.parent[c] = r /\ b[o][c] = b[o][r] /\ b[s][c] = r /\ c # Null
      BY <1>1, <1>2, <1>8, <3>1
    <3> HIDE DEF c
    <3>3. c # x /\ c # r /\ c # m
      BY <1>1, <1>2, <1>5, <1>6, <1>7, <3>2
    <3> QED BY <1>3, <1>5, <1>9, <1>10, <2>0, <2>2, <3>1, <3>2, <3>3
  <2>3. CASE y = x /\ z = o
    BY <1>1, <1>2, <1>3, <1>5, <1>7, <1>9, <1>10, <2>0, <2>3
  <2>4. CASE y = x /\ z = s
    <3> DEFINE c == t[s][x]
    <3>1. u[z][y] = c
      BY <1>1, <1>2, <1>3, <1>5, <2>4
    <3>2. c \in S /\ t.parent[c] = x /\ b[s][c] = b[s][x] /\ b[o][c] = x /\ c # Null
      BY <1>8, <2>0, <3>1
    <3> HIDE DEF c
    <3>3. c # x /\ c # r /\ c # m
      BY <1>1, <1>2, <1>5, <1>6, <1>7, <3>2
    <3> QED BY <1>3, <1>5, <1>9, <1>10, <2>0, <2>4, <3>1, <3>2, <3>3
  <2>5. CASE y # r /\ y # x /\ y = p /\ t[z][p] = x
    <3>1. u[z][y] = r /\ u.parent[r] = p
      BY <1>2, <1>3, <1>5, <2>5
    <3>2. b[z][x] = b[z][p] /\ b[Other(z)][x] = p
      BY <1>5, <1>8, <2>5
    <3>3. b2[z][p] = b[z][p]
      BY <1>9, <2>5
    <3> QED BY <1>1, <1>2, <1>6, <1>10, <2>0, <2>5, <3>1, <3>2, <3>3
  <2>6. CASE y # r /\ y # x /\ ~ (y = p /\ t[z][p] = x)
    <3> DEFINE c == t[z][y]
    <3>1. u[z][y] = c
      BY <1>3, <1>5, <2>6
    <3>2. c \in S /\ t.parent[c] = y /\ b[z][c] = b[z][y] /\ b[Other(z)][c] = y /\ c # Null
      BY <1>8, <3>1
    <3>3. c # x
      BY <2>6, <3>2 DEF p
    <3> HIDE DEF c
    <3>4. c # r /\ c # m
      BY <1>6, <1>7, <2>6, <3>2
    <3> QED BY <1>3, <1>5, <1>9, <2>0, <2>6, <3>1, <3>2, <3>3, <3>4
  <2> QED BY <1>1, <2>1, <2>2, <2>3, <2>4, <2>5, <2>6
<1>15. Parents(u, S)
  <2> SUFFICES ASSUME NEW y \in S, y # u.root
               PROVE  u.parent[y] \in S /\ \E z \in Side : u[z][u.parent[y]] = y
    BY DEF Parents
  <2>1. CASE y = x
    BY <1>2, <1>3, <1>5, <2>1
  <2>2. CASE y = r
    <3>1. p # Null /\ p \in S /\ u.parent[y] = p
      BY <1>2, <1>3, <1>5, <2>2
    <3>2. PICK z \in Side : t[z][p] = x
      BY <1>2, <3>1 DEF HasChild
    <3>3. u[z][p] = r
      BY <1>2, <1>3, <1>5, <3>1, <3>2
    <3> QED BY <2>2, <3>1, <3>3
  <2>3. CASE y = m
    BY <1>1, <1>2, <1>3, <1>5, <2>3
  <2>4. CASE y # x /\ y # r /\ y # m
    <3>1. y # t.root
      BY <1>3, <1>5, <2>4 DEF Shape, Parents, p
    <3> DEFINE q == t.parent[y]
    <3>2. PICK d \in Side : q \in S /\ t[d][q] = y
      BY <3>1 DEF Shape, Parents
    <3>3. u.parent[y] = q
      BY <1>3, <1>5, <2>4
    <3> HIDE DEF q
    <3>4. u[d][q] = y
      BY <1>1, <1>3, <1>5, <1>11, <2>4, <3>2
    <3> QED BY <3>2, <3>3, <3>4
  <2> QED BY <2>1, <2>2, <2>3, <2>4
<1>16. Void(u, S, b2)
  <2> SUFFICES ASSUME NEW y \in S, NEW w \in S, NEW z \in Side, On(z, w, y), On(z, b2[z][y], w)
               PROVE  u[z][y] # Null
    BY DEF Void
  <2>0. \A y1, w1 \in S, z1 \in Side : On(z1, w1, y1) /\ On(z1, b[z1][y1], w1) => t[z1][y1] # Null
    BY DEF Shape, Void
  <2>1. CASE y = r /\ z = s
    BY <1>3, <1>5, <2>1
  <2>2. CASE y = r /\ z = o
    BY <1>1, <1>2, <1>3, <1>5, <1>10, <2>0, <2>2
  <2>3. CASE y = x /\ z = o
    <3>1. On(s, w, r) /\ On(s, b[s][r], w)
      BY <1>1, <1>2, <1>5, <1>6, <1>10, <2>3
    <3>2. m # Null
      BY <1>2, <1>11, <2>0, <3>1
    <3> QED BY <1>1, <1>2, <1>3, <1>5, <2>3, <3>2
  <2>4. CASE y = x /\ z = s
    BY <1>1, <1>2, <1>3, <1>5, <1>10, <2>0, <2>4
  <2>5. CASE y # x /\ y # r
    <3>1. t[z][y] # Null
      BY <1>9, <2>0, <2>5
    <3> QED BY <1>3, <1>5, <1>11, <2>5, <3>1
  <2> QED BY <1>1, <2>1, <2>2, <2>3, <2>4, <2>5
<1>17. Within(S, b2)
  <2>1. Within(S, b)
    BY DEF Shape
  <2>2. CASE s = "left"
    <3>1. o = "right"
      BY <2>2 DEF o, Other
    <3> QED BY <1>2, <1>5, <1>6, <1>9, <1>10, <2>1, <2>2, <3>1 DEF Within, On, Side
  <2>3. CASE s = "right"
    <3>1. o = "left"
      BY <2>3 DEF o, Other
    <3> QED BY <1>2, <1>5, <1>6, <1>9, <1>10, <2>1, <2>3, <3>1 DEF Within, On, Side
  <2> QED BY <2>2, <2>3 DEF Side
<1>18. Nested(S, b2)
  <2>1. Nested(S, b)
    BY DEF Shape
  <2>2. CASE s = "left"
    <3>1. o = "right"
      BY <2>2 DEF o, Other
    <3>2. /\ x < r /\ b["right"][r] = b["right"][x] /\ b["left"][r] = x
          /\ b2["left"][r] = b["left"][x] /\ b2["right"][r] = b["right"][r]
          /\ b2["left"][x] = b["left"][x] /\ b2["right"][x] = r
          /\ \A y \in S : y # r /\ y # x => b2["left"][y] = b["left"][y] /\ b2["right"][y] = b["right"][y]
      BY <1>6, <1>9, <1>10, <2>2, <3>1 DEF On, Side
    <3>3. \A y \in S : b["left"][y] \in Int /\ b["right"][y] \in Int
      BY <1>5 DEF Side
    <3> QED BY <1>2, <1>5, <2>1, <3>2, <3>3 DEF Nested
  <2>3. CASE s = "right"
    <3>1. o = "left"
      BY <2>3 DEF o, Other
    <3>2. /\ r < x /\ b["left"][r] = b["left"][x] /\ b["right"][r] = x
          /\ b2["right"][r] = b["right"][x] /\ b2["left"][r] = b["left"][r]
          /\ b2["right"][x] = b["right"][x] /\ b2["left"][x] = r
          /\ \A y \in S : y # r /\ y # x => b2["left"][y] = b["left"][y] /\ b2["right"][y] = b["right"][y]
      BY <1>6, <1>9, <1>10, <2>3, <3>1 DEF On, Side
    <3>3. \A y \in S : b["left"][y] \in Int /\ b["right"][y] \in Int
      BY <1>5 DEF Side
    <3> QED BY <1>2, <1>5, <2>1, <3>2, <3>3 DEF Nested
  <2> QED BY <2>2, <2>3 DEF Side
<1>19. Shape(u, S, b2)
  BY <1>3, <1>5, <1>12, <1>13, <1>14, <1>15, <1>16, <1>17, <1>18 DEF Shape
<1> QED BY <1>19 DEF u, b2, r, o

-----------------------------------------------------------------------------
(* Colors *)

Colors == {RED, BLACK}

\* u has the links of t; only colors may differ.
SameLinks(t, u) ==
    /\ u \in Trees /\ u.root = t.root /\ u.parent = t.parent
    /\ \A z \in Side : u[z] = t[z]

\* The order of a tree does not depend on colors.
LEMMA LinksShape ==
    ASSUME NEW t, NEW S, NEW b, Shape(t, S, b), NEW u, SameLinks(t, u)
    PROVE  Shape(u, S, b)
<1>1. u \in Trees /\ u.root = t.root /\ u.parent = t.parent /\ \A z \in Side : u[z] = t[z]
  BY DEF SameLinks
<1>2. Rooted(u, S, b)
  BY <1>1 DEF Shape, Rooted
<1>3. Children(u, S, b)
  BY <1>1 DEF Shape, Children
<1>4. Parents(u, S)
  BY <1>1 DEF Shape, Parents
<1>5. Void(u, S, b)
  BY <1>1 DEF Shape, Void
<1> QED BY <1>1, <1>2, <1>3, <1>4, <1>5 DEF Shape

\* rb_set_color() leaves the links alone.
LEMMA ColorLinks ==
    ASSUME NEW t, NEW u, NEW x, NEW k, SetsColor(t, u, x, k)
    PROVE  SameLinks(t, u)
BY DEF SetsColor, SameLinks

\* The black nodes on a way down from c, when h has those of nodes.
Depth(h, c) == IF c = Null THEN 0 ELSE h[c]
One(t, x) == IF t.color[x] = BLACK THEN 1 ELSE 0

Heights == [Node -> Nat]

\* All ways down from x have h[x] black nodes; only those below the pairs
\* <<x, z>> of D, from x to side z, have one less.
Balanced(t, S, h, D) ==
    /\ h \in Heights
    /\ \A x \in S, z \in Side :
         h[x] = Depth(h, t[z][x]) + One(t, x) + (IF <<x, z>> \in D THEN 1 ELSE 0)

\* u is t with the rotation of x to side s, and x and r exchange colors, r red.
Swapped(t, u, x, r) ==
    \A y \in Node : u.color[y] = IF y = x THEN RED ELSE IF y = r THEN t.color[x] ELSE t.color[y]

\* The links of u are those of t after a rotation.
TurnedLinks(t, u, x, s) ==
    LET o == Other(s)
        r == t[o][x]
        m == t[s][r]
        p == t.parent[x]
    IN  /\ u \in Trees
        /\ u.root = IF p = Null THEN r ELSE t.root
        /\ \A y \in Node : u.parent[y] = IF y = x THEN r ELSE IF y = r THEN p
                                         ELSE IF y = m THEN x ELSE t.parent[y]
        /\ \A y \in Node, z \in Side :
             u[z][y] = IF y = r THEN (IF z = s THEN x ELSE t[z][y])
                       ELSE IF y = x THEN (IF z = o THEN m ELSE t[z][y])
                       ELSE IF y = p /\ t[z][p] = x THEN r
                       ELSE t[z][y]

\* The heights after such a rotation.
SwappedHeights(h, x, r) ==
    [y \in Node |-> IF y = x THEN h[r] ELSE IF y = r THEN h[x] ELSE h[y]]

\* If the node that comes up is red, the exchange of colors keeps the balance,
\* a side of x that is short included.
LEMMA SwapBalanced ==
    ASSUME NEW t, NEW S, NEW b, Shape(t, S, b), NEW x \in S, NEW s \in Side, NEW r,
           r = t[Other(s)][x], r # Null, t.color[r] = RED,
           NEW u, TurnedLinks(t, u, x, s), Swapped(t, u, x, r),
           NEW h, NEW D, Balanced(t, S, h, D),
           <<x, Other(s)>> \notin D, \A z \in Side : <<r, z>> \notin D
    PROVE  Balanced(u, S, SwappedHeights(h, x, r), D)
<1> DEFINE o == Other(s)
           m == t[s][r]
           p == t.parent[x]
           g == SwappedHeights(h, x, r)
<1>1. /\ o \in Side /\ o # s /\ Other(o) = s
      /\ \A z \in Side : z = s \/ z = o
  BY Sides
<1>2. /\ r \in S /\ m \in S \cup {Null} /\ p \in S \cup {Null}
      /\ r # x /\ m # x /\ m # r /\ p # x /\ p # r
  BY TurnNodes
<1>3. \A y \in Node, z \in Side :
             u[z][y] = IF y = r THEN (IF z = s THEN x ELSE t[z][y])
                       ELSE IF y = x THEN (IF z = o THEN m ELSE t[z][y])
                       ELSE IF y = p /\ t[z][p] = x THEN r
                       ELSE t[z][y]
  BY DEF TurnedLinks
<1>4. /\ S \subseteq Node
      /\ \A y \in S : /\ y \in Node /\ y # Null
  BY Numbers DEF Shape
<1>5. \A y \in S, z \in Side : t[z][y] # Null => t[z][y] \in S /\ t.parent[t[z][y]] = y
  BY ChildIs
<1>6. /\ h \in Heights
      /\ \A y \in S, z \in Side :
           h[y] = Depth(h, t[z][y]) + One(t, y) + (IF <<y, z>> \in D THEN 1 ELSE 0)
  BY DEF Balanced
<1>7. \A y \in Node : h[y] \in Nat /\ g[y] = IF y = x THEN h[r] ELSE IF y = r THEN h[x] ELSE h[y]
  BY <1>6 DEF Heights, SwappedHeights
<1>8. g \in Heights
  BY <1>2, <1>4, <1>6 DEF Heights, SwappedHeights
<1> HIDE DEF g
<1>9. One(u, x) = 0 /\ One(u, r) = One(t, x) /\ One(t, r) = 0
      /\ \A y \in S : y # x /\ y # r => One(u, y) = One(t, y)
  BY <1>2, <1>4 DEF Swapped, One, RED, BLACK
<1>10. \A y \in S : One(t, y) \in Nat
  BY DEF One
<1>11. \A c \in S \cup {Null} : c # x /\ c # r => Depth(g, c) = Depth(h, c)
  BY <1>4, <1>7 DEF Depth
<1>12. Depth(g, x) = h[r] /\ Depth(g, r) = h[x] /\ Depth(h, x) = h[x] /\ Depth(h, r) = h[r]
  BY <1>2, <1>4, <1>7 DEF Depth
<1>13. t[o][r] \in S \cup {Null} /\ t[o][r] # x /\ t[o][r] # r
  <2>1. t[o][r] # Null => t[o][r] # r /\ t.parent[t[o][r]] = r /\ t[o][r] \in S
    BY <1>1, <1>2, <1>5, OneSide
  <2> QED BY <1>2, <1>4, <2>1
<1>14. t[s][x] \in S \cup {Null} /\ t[s][x] # x /\ t[s][x] # r
  <2>1. t[s][x] # Null => t[s][x] # x /\ t[s][x] # r /\ t[s][x] \in S
    BY <1>5, OneSide
  <2> QED BY <1>2, <1>4, <2>1
<1> DEFINE d == IF <<x, s>> \in D THEN 1 ELSE 0
<1>15. /\ h[x] = h[r] + One(t, x) /\ h[x] = Depth(h, t[s][x]) + One(t, x) + d
       /\ h[r] = Depth(h, m) /\ h[r] = Depth(h, t[o][r])
       /\ Depth(h, t[s][x]) \in Nat /\ h[r] \in Nat /\ h[x] \in Nat
  <2>1. \A c \in S \cup {Null} : Depth(h, c) \in Nat
    BY <1>4, <1>7 DEF Depth
  <2>2. h[x] = Depth(h, t[s][x]) + One(t, x) + d
    BY <1>6
  <2>3. h[x] = Depth(h, r) + One(t, x)
    <3>1. h[x] = Depth(h, t[o][x]) + One(t, x) + 0
      BY <1>1, <1>6
    <3> QED BY <1>2, <1>4, <1>10, <2>1, <3>1
  <2>4. h[r] = Depth(h, m) + One(t, r) + 0 /\ h[r] = Depth(h, t[o][r]) + One(t, r) + 0
    BY <1>1, <1>2, <1>6
  <2>5. x \in Node /\ r \in Node /\ m \in S \cup {Null}
    BY <1>2, <1>4
  <2> HIDE DEF m, o, d
  <2> QED BY <1>7, <1>9, <1>12, <1>13, <1>14, <2>1, <2>2, <2>3, <2>4, <2>5
<1> HIDE DEF o, m, p, d
<1> SUFFICES ASSUME NEW y \in S, NEW z \in Side
             PROVE  g[y] = Depth(g, u[z][y]) + One(u, y) + (IF <<y, z>> \in D THEN 1 ELSE 0)
  BY <1>8 DEF Balanced, g
<1>16. CASE y = r /\ z = s
  BY <1>3, <1>4, <1>7, <1>9, <1>12, <1>15, <1>10, <1>16
<1>17. CASE y = r /\ z = o
  BY <1>1, <1>3, <1>4, <1>7, <1>9, <1>11, <1>13, <1>15, <1>10, <1>17
<1>18. CASE y = x /\ z = o
  <2>1. u[z][y] = m
    BY <1>1, <1>2, <1>3, <1>4, <1>18
  <2>2. (IF <<y, z>> \in D THEN 1 ELSE 0) = 0
    BY <1>18 DEF o
  <2>3. Depth(g, u[z][y]) = Depth(h, m)
    BY <1>2, <1>11, <2>1
  <2>4. g[y] = h[r] /\ One(u, y) = 0
    BY <1>4, <1>7, <1>9, <1>18
  <2>5. Depth(g, u[z][y]) = h[r]
    BY <1>15, <2>3
  <2>6. g[y] = Depth(g, u[z][y]) + One(u, y) + 0
    <3>1. h[r] \in Nat
      BY <1>15
    <3> QED BY <2>4, <2>5, <3>1
  <2> QED BY <2>2, <2>6
<1>19. CASE y = x /\ z = s
  <2>1. u[z][y] = t[s][x]
    BY <1>1, <1>2, <1>3, <1>4, <1>19
  <2>2. (IF <<y, z>> \in D THEN 1 ELSE 0) = d
    BY <1>19 DEF d
  <2>3. Depth(g, u[z][y]) = Depth(h, t[s][x]) /\ g[y] = h[r] /\ One(u, y) = 0
    BY <1>4, <1>7, <1>9, <1>11, <1>14, <1>19, <2>1
  <2>4. d \in Nat
    BY DEF d
  <2> QED BY <1>10, <1>15, <2>2, <2>3, <2>4
<1>20. CASE y # r /\ y # x /\ y = p /\ t[z][p] = x
  BY <1>3, <1>4, <1>6, <1>7, <1>9, <1>10, <1>12, <1>20 DEF p
<1>21. CASE y # r /\ y # x /\ ~ (y = p /\ t[z][p] = x)
  <2>1. u[z][y] = t[z][y]
    BY <1>3, <1>4, <1>21
  <2>2. t[z][y] \in S \cup {Null}
    BY <1>5
  <2>3. t[z][y] # x
    BY <1>4, <1>5, <1>21 DEF p
  <2>4. t[z][y] # r
    <3>1. t.parent[r] = x
      BY Sides, ChildIs
    <3>2. t[z][y] # Null => t.parent[t[z][y]] = y
      BY <1>5
    <3> QED BY <1>4, <1>2, <1>21, <3>1, <3>2
  <2> QED BY <1>4, <1>6, <1>7, <1>9, <1>11, <1>21, <2>1, <2>2, <2>3, <2>4
<1> QED BY <1>1, <1>16, <1>17, <1>18, <1>19, <1>20, <1>21

\* Red with a red parent.
RedPair(t, y) == t.color[y] = RED /\ t.parent[y] # Null /\ t.color[t.parent[y]] = RED

\* Which nodes can have a red parent after such a rotation.
LEMMA SwapPairs ==
    ASSUME NEW t, NEW S, NEW b, Shape(t, S, b), NEW x \in S, NEW s \in Side, NEW r,
           r = t[Other(s)][x], r # Null, t.color[r] = RED,
           NEW u, TurnedLinks(t, u, x, s), Swapped(t, u, x, r),
           NEW y \in S, RedPair(u, y)
    PROVE  \/ t.color[x] = RED /\ y \in {x, r, t[Other(s)][r]}
           \/ t.color[y] = RED /\ y \in {t[s][r], t[s][x]}
           \/ RedPair(t, y) /\ t.parent[y] \notin {x, r}
<1> DEFINE o == Other(s)
           m == t[s][r]
           p == t.parent[x]
<1>1. /\ o \in Side /\ o # s
      /\ \A z \in Side : z = s \/ z = o
  BY Sides
<1>2. /\ r \in S /\ m \in S \cup {Null} /\ p \in S \cup {Null}
      /\ r # x /\ m # x /\ m # r /\ p # x /\ p # r
  BY TurnNodes
<1>3. \A w \in Node : u.parent[w] = IF w = x THEN r ELSE IF w = r THEN p
                                    ELSE IF w = m THEN x ELSE t.parent[w]
  BY DEF TurnedLinks
<1>4. \A w \in S : w \in Node /\ w # Null
  BY Numbers
<1>5. \A w \in Node : u.color[w] = IF w = x THEN RED ELSE IF w = r THEN t.color[x] ELSE t.color[w]
  BY DEF Swapped
<1> HIDE DEF m, p
<1>6. u.color[y] = RED /\ u.parent[y] # Null /\ u.color[u.parent[y]] = RED
  BY DEF RedPair
<1>7. RED # BLACK
  BY DEF RED, BLACK
<1>8. CASE y = x
  BY <1>2, <1>3, <1>4, <1>5, <1>6, <1>8
<1>9. CASE y = r
  BY <1>2, <1>4, <1>5, <1>6, <1>9
<1>10. CASE y = m
  BY <1>2, <1>4, <1>5, <1>6, <1>8, <1>10 DEF m
<1>11. CASE y # x /\ y # r /\ y # m
  <2> DEFINE q == t.parent[y]
  <2>1. u.parent[y] = q /\ t.color[y] = RED /\ q # Null
    BY <1>3, <1>4, <1>5, <1>6, <1>11
  <2>2. q \in S /\ HasChild(t, q, y)
    BY <2>1, ParentIs
  <2>3. PICK z \in Side : t[z][q] = y
    BY <2>2 DEF HasChild
  <2> HIDE DEF q
  <2>4. CASE q = x
    <3>1. z = s \/ z = o
      BY <1>1
    <3>2. y = t[s][x]
      BY <1>11, <2>3, <2>4, <3>1 DEF o
    <3> QED BY <2>1, <3>2
  <2>5. CASE q = r
    <3>1. t.color[x] = RED
      BY <1>2, <1>4, <1>5, <1>6, <2>1, <2>5
    <3>2. z = s \/ z = o
      BY <1>1
    <3>3. y = t[o][r]
      BY <1>11, <2>3, <2>5, <3>2 DEF m
    <3> QED BY <3>1, <3>3
  <2>6. CASE q # x /\ q # r
    <3>1. t.color[q] = RED
      BY <1>4, <1>5, <1>6, <2>1, <2>2, <2>6
    <3> QED BY <2>1, <2>6, <3>1 DEF RedPair, q
  <2> QED BY <2>4, <2>5, <2>6
<1> QED BY <1>8, <1>9, <1>10, <1>11

\* The parent of a node is neither its child nor a child of that.
LEMMA UpNotDown ==
    ASSUME NEW t, NEW S, NEW b, Shape(t, S, b), NEW x \in S, NEW s \in Side, NEW r, NEW f,
           r = t[s][x], r # Null, f = t[s][r], f # Null, t.parent[x] # Null
    PROVE  t.parent[x] # f
<1>1. r \in S /\ b[s][r] = b[s][x] /\ On(s, r, x)
  BY ChildIs
<1>2. f \in S /\ b[s][f] = b[s][r] /\ On(s, f, r)
  BY <1>1, ChildIs
<1>3. ASSUME t.parent[x] = f PROVE FALSE
  <2>1. f = b["left"][x] \/ f = b["right"][x]
    BY <1>3, ParentIs
  <2>2. f # b[s][x]
    BY <1>1, <1>2, Numbers
  <2>3. /\ f \in Int /\ r \in Int /\ x \in Int
        /\ b["left"][x] < x /\ x < b["right"][x] /\ b["left"][x] \in Int /\ b["right"][x] \in Int
    BY <1>1, <1>2, Numbers DEF Side
  <2>4. CASE s = "left"
    BY <1>1, <1>2, <2>1, <2>2, <2>3, <2>4 DEF On
  <2>5. CASE s = "right"
    BY <1>1, <1>2, <2>1, <2>2, <2>3, <2>5 DEF On
  <2> QED BY <2>4, <2>5 DEF Side
<1> QED BY <1>3

\* Nor is the parent of a node one of its grandchildren.
LEMMA UpNotChild ==
    ASSUME NEW t, NEW S, NEW b, Shape(t, S, b), NEW x \in S, NEW s \in Side,
           t[s][x] # Null, t.parent[x] # Null
    PROVE  t.parent[x] # t[s][x]
<1> DEFINE c == t[s][x]
<1>1. c \in S /\ b[s][c] = b[s][x] /\ On(s, c, x)
  BY ChildIs
<1> HIDE DEF c
<1>2. ASSUME t.parent[x] = c PROVE FALSE
  <2>1. c = b["left"][x] \/ c = b["right"][x]
    BY <1>2, ParentIs
  <2>2. c # b[s][x]
    BY <1>1, Numbers
  <2>3. /\ c \in Int /\ x \in Int
        /\ b["left"][x] < x /\ x < b["right"][x] /\ b["left"][x] \in Int /\ b["right"][x] \in Int
    BY <1>1, Numbers DEF Side
  <2>4. CASE s = "left"
    BY <1>1, <2>1, <2>2, <2>3, <2>4 DEF On
  <2>5. CASE s = "right"
    BY <1>1, <2>1, <2>2, <2>3, <2>5 DEF On
  <2> QED BY <2>4, <2>5 DEF Side
<1> QED BY <1>2 DEF c

\* The colors after the last rotation of rb_erase_fix().
Settled(t, u, x, r, f) ==
    \A y \in Node : u.color[y] = IF y = x \/ y = f THEN BLACK
                                 ELSE IF y = r THEN t.color[x] ELSE t.color[y]

SettledHeights(h, x, r, f) ==
    [y \in Node |-> IF y = x THEN h[r] ELSE IF y = r THEN h[x] ELSE IF y = f THEN h[f] + 1 ELSE h[y]]

\* It gives the short side the black node it misses, from a red one on the other.
LEMMA SettleBalanced ==
    ASSUME NEW t, NEW S, NEW b, Shape(t, S, b), NEW x \in S, NEW s \in Side, NEW r, NEW f,
           r = t[Other(s)][x], r # Null, t.color[r] = BLACK,
           f = t[Other(s)][r], f # Null, t.color[f] = RED,
           NEW u, TurnedLinks(t, u, x, s), Settled(t, u, x, r, f),
           NEW h, Balanced(t, S, h, {<<x, s>>})
    PROVE  Balanced(u, S, SettledHeights(h, x, r, f), {})
<1> DEFINE o == Other(s)
           m == t[s][r]
           p == t.parent[x]
           g == SettledHeights(h, x, r, f)
<1>1. /\ o \in Side /\ o # s /\ Other(o) = s
      /\ \A z \in Side : z = s \/ z = o
  BY Sides
<1>2. /\ r \in S /\ m \in S \cup {Null} /\ p \in S \cup {Null}
      /\ r # x /\ m # x /\ m # r /\ p # x /\ p # r
  BY TurnNodes
<1>3. \A y \in Node, z \in Side :
             u[z][y] = IF y = r THEN (IF z = s THEN x ELSE t[z][y])
                       ELSE IF y = x THEN (IF z = o THEN m ELSE t[z][y])
                       ELSE IF y = p /\ t[z][p] = x THEN r
                       ELSE t[z][y]
  BY DEF TurnedLinks
<1>4. /\ S \subseteq Node
      /\ \A y \in S : /\ y \in Node /\ y # Null
  BY Numbers DEF Shape
<1>5. \A y \in S, z \in Side : t[z][y] # Null => t[z][y] \in S /\ t.parent[t[z][y]] = y
  BY ChildIs
<1>6. /\ h \in Heights
      /\ \A y \in S, z \in Side : <<y, z>> # <<x, s>> => h[y] = Depth(h, t[z][y]) + One(t, y) + 0
      /\ h[x] = Depth(h, t[s][x]) + One(t, x) + 1
  BY DEF Balanced
<1>7. /\ f \in S /\ t.parent[f] = r /\ f # r /\ f # m
  BY <1>1, <1>2, <1>5, OneSide
<1>8. f # x
  BY <1>2, <1>7
<1>9. \A y \in Node : h[y] \in Nat /\ g[y] = IF y = x THEN h[r] ELSE IF y = r THEN h[x]
                                             ELSE IF y = f THEN h[f] + 1 ELSE h[y]
  BY <1>6 DEF Heights, SettledHeights
<1>10. g \in Heights
  BY <1>2, <1>4, <1>6, <1>7 DEF Heights, SettledHeights
<1> HIDE DEF g
<1>11. One(u, x) = 1 /\ One(u, f) = 1 /\ One(u, r) = One(t, x) /\ One(t, r) = 1 /\ One(t, f) = 0
       /\ \A y \in S : y # x /\ y # r /\ y # f => One(u, y) = One(t, y)
  BY <1>2, <1>4, <1>7, <1>8 DEF Settled, One, RED, BLACK
<1>12. \A y \in S : One(t, y) \in Nat
  BY DEF One
<1>13. \A c \in S \cup {Null} : c # x /\ c # r /\ c # f => Depth(g, c) = Depth(h, c)
  BY <1>4, <1>9 DEF Depth
<1>14. Depth(g, x) = h[r] /\ Depth(g, r) = h[x] /\ Depth(g, f) = h[f] + 1
       /\ Depth(h, x) = h[x] /\ Depth(h, r) = h[r] /\ Depth(h, f) = h[f]
  BY <1>2, <1>4, <1>7, <1>8, <1>9 DEF Depth
<1>15. t[s][x] \in S \cup {Null} /\ t[s][x] # x /\ t[s][x] # r /\ t[s][x] # f
  <2>1. t[s][x] # Null => t[s][x] # x /\ t[s][x] # r /\ t[s][x] \in S /\ t.parent[t[s][x]] = x
    BY <1>5, OneSide
  <2> QED BY <1>2, <1>4, <1>7, <2>1
<1>16. /\ h[x] = h[r] + One(t, x) /\ h[x] = Depth(h, t[s][x]) + One(t, x) + 1
       /\ h[r] = Depth(h, m) + 1 /\ h[r] = h[f] + 1
       /\ Depth(h, t[s][x]) \in Nat /\ h[r] \in Nat /\ h[x] \in Nat /\ h[f] \in Nat
       /\ Depth(h, m) \in Nat /\ One(t, x) \in Nat
  <2>1. \A c \in S \cup {Null} : Depth(h, c) \in Nat
    BY <1>4, <1>9 DEF Depth
  <2>2. h[x] = Depth(h, r) + One(t, x) + 0
    BY <1>1, <1>6
  <2>3. h[r] = Depth(h, m) + One(t, r) + 0 /\ h[r] = Depth(h, f) + One(t, r) + 0
    BY <1>1, <1>2, <1>6
  <2>4. x \in Node /\ r \in Node /\ f \in Node /\ m \in S \cup {Null}
    BY <1>2, <1>4, <1>7
  <2> HIDE DEF m, o
  <2> QED BY <1>6, <1>9, <1>11, <1>12, <1>14, <1>15, <2>1, <2>2, <2>3, <2>4
<1> HIDE DEF m, p
<1> SUFFICES ASSUME NEW y \in S, NEW z \in Side PROVE g[y] = Depth(g, u[z][y]) + One(u, y)
  <2>1. \A y \in S, z \in Side : g[y] = Depth(g, u[z][y]) + One(u, y) + 0
    <3>1. \A c : \A y \in S : g[y] = Depth(g, c) + One(u, y) => g[y] = Depth(g, c) + One(u, y) + 0
      <4>1. \A y \in S : g[y] \in Nat
        BY <1>4, <1>10 DEF Heights
      <4> QED BY <4>1
    <3> QED BY <3>1
  <2>2. \A y \in S, z \in Side : <<y, z>> \notin {}
    OBVIOUS
  <2> QED BY <1>10, <2>1, <2>2 DEF Balanced, g
<1>17. CASE y = r /\ z = s
  <2>1. u[z][y] = x /\ g[y] = h[x] /\ One(u, y) = One(t, x)
    BY <1>2, <1>3, <1>4, <1>9, <1>11, <1>17
  <2> QED BY <1>14, <1>16, <2>1
<1>18. CASE y = r /\ z = o
  <2>1. u[z][y] = f /\ g[y] = h[x] /\ One(u, y) = One(t, x)
    BY <1>1, <1>2, <1>3, <1>4, <1>9, <1>11, <1>18
  <2> QED BY <1>14, <1>16, <2>1
<1>19. CASE y = x /\ z = o
  <2>1. u[z][y] = m /\ g[y] = h[r] /\ One(u, y) = 1
    BY <1>1, <1>2, <1>3, <1>4, <1>9, <1>11, <1>19
  <2>2. Depth(g, m) = Depth(h, m)
    BY <1>2, <1>7, <1>13
  <2> QED BY <1>16, <2>1, <2>2
<1>20. CASE y = x /\ z = s
  <2>1. u[z][y] = t[s][x] /\ g[y] = h[r] /\ One(u, y) = 1
    BY <1>1, <1>2, <1>3, <1>4, <1>9, <1>11, <1>20
  <2>2. Depth(g, t[s][x]) = Depth(h, t[s][x])
    BY <1>13, <1>15
  <2> QED BY <1>16, <2>1, <2>2
<1>21. CASE y # r /\ y # x
  <2>1. h[y] = Depth(h, t[z][y]) + One(t, y) + 0
    BY <1>6, <1>21
  <2>2. t[z][y] \in S \cup {Null} /\ t[z][y] # r /\ t[z][y] # f
    <3>1. t.parent[r] = x
      BY <1>1, <1>2, Sides, ChildIs
    <3>2. t[z][y] # Null => t.parent[t[z][y]] = y /\ t[z][y] \in S
      BY <1>5
    <3> QED BY <1>2, <1>4, <1>7, <1>21, <3>1, <3>2
  <2>3. Depth(h, t[z][y]) \in Nat /\ One(t, y) \in Nat
    BY <1>4, <1>9, <1>12, <2>2 DEF Depth
  <2>4. CASE y = p /\ t[z][p] = x
    <3>1. u[z][y] = r
      BY <1>3, <1>4, <1>21, <2>4
    <3>2. Depth(g, u[z][y]) = Depth(h, t[z][y])
      BY <1>14, <2>4, <3>1
    <3>3. y # f
      <4>1. Other(s) \in Side /\ t.parent[x] # Null /\ t.parent[x] = y
        BY <1>4, <2>4, Sides DEF p
      <4>2. t.parent[x] # f
        BY <4>1, UpNotDown
      <4> QED BY <4>1, <4>2
    <3>4. g[y] = h[y] /\ One(u, y) = One(t, y)
      BY <1>4, <1>9, <1>11, <1>21, <3>3
    <3> QED BY <2>1, <2>3, <3>2, <3>4
  <2>5. CASE ~ (y = p /\ t[z][p] = x)
    <3>1. u[z][y] = t[z][y]
      BY <1>3, <1>4, <1>21, <2>5
    <3>2. t[z][y] # x
      BY <1>4, <1>5, <2>5 DEF p
    <3>3. Depth(g, u[z][y]) = Depth(h, t[z][y])
      BY <1>13, <2>2, <3>1, <3>2
    <3>4. CASE y = f
      <4>1. g[y] = h[f] + 1 /\ One(u, y) = 1 /\ One(t, y) = 0
        BY <1>4, <1>9, <1>11, <1>21, <3>4
      <4> QED BY <2>1, <2>3, <3>3, <3>4, <4>1
    <3>5. CASE y # f
      <4>1. g[y] = h[y] /\ One(u, y) = One(t, y)
        BY <1>4, <1>9, <1>11, <1>21, <3>5
      <4> QED BY <2>1, <2>3, <3>3, <4>1
    <3> QED BY <3>4, <3>5
  <2> QED BY <2>4, <2>5
<1> QED BY <1>1, <1>17, <1>18, <1>19, <1>20, <1>21

-----------------------------------------------------------------------------
(* The invariant *)

\* Only e may be a red node with a red parent, only e a red root.
NoRedPair(t, S, e) == \A x \in S : RedPair(t, x) => x = e
RootBlack(t, e) == t.root \notin {Null, e} => t.color[t.root] = BLACK

\* Between calls the tree is red-black.
Resting(t, S, h, a) ==
    /\ a = Idle
    /\ NoRedPair(t, S, Null) /\ RootBlack(t, Null)
    /\ Balanced(t, S, h, {})

\* In rb_insert() only the node it is at can have a red parent, or be a red root.
Inserting(t, S, h, a) ==
    /\ a = [op |-> "insert", node |-> a.node, parent |-> a.parent]
    /\ a.node \in S /\ t.color[a.node] = RED /\ a.parent = t.parent[a.node]
    /\ NoRedPair(t, S, a.node) /\ RootBlack(t, a.node)
    /\ Balanced(t, S, h, {})

\* In rb_erase_fix() the ways down through the node it is at miss a black node.
Erasing(t, S, h, a, z) ==
    /\ a = [op |-> "erase", node |-> a.node, parent |-> a.parent]
    /\ a.node \in S \cup {Null} /\ z \in Side
    /\ IF a.parent = Null THEN a.node = t.root ELSE a.parent \in S /\ t[z][a.parent] = a.node
    /\ \A x \in S : RedPair(t, x) => a.node \in {x, t.parent[x]}
    /\ RootBlack(t, a.node)
    /\ Balanced(t, S, h, IF a.parent = Null THEN {} ELSE {<<a.parent, z>>})

Valid(t, S, a) ==
    \E b, h : /\ Shape(t, S, b)
              /\ \/ Resting(t, S, h, a)
                 \/ Inserting(t, S, h, a)
                 \/ \E z \in Side : Erasing(t, S, h, a, z)

\* Links, order, colors and black nodes are right, but for what the loop that
\* runs has still to put right.
RbInv == Valid(tree, linked, at)

-----------------------------------------------------------------------------
(* Insertion *)

\* A rotation of x in a tree whose colors were changed before or are after.
LEMMA TurnedIs ==
    ASSUME NEW t, NEW S, NEW b, Shape(t, S, b), NEW x \in S, NEW s \in Side,
           t[Other(s)][x] # Null,
           NEW v, SameLinks(t, v), NEW u, SameLinks(Rotate(v, x, s), u)
    PROVE  /\ TurnedLinks(t, u, x, s)
           /\ Rotate(v, x, s).color = v.color /\ Rotate(v, x, s) \in Trees
           /\ \E b2 : Shape(u, S, b2)
<1> DEFINE w == Rotate(v, x, s)
<1>1. /\ v.root = t.root /\ v.parent = t.parent /\ \A z \in Side : v[z] = t[z]
  BY DEF SameLinks
<1>2. Other(s) \in Side
  BY Sides
<1>3. Shape(v, S, b) /\ v[Other(s)][x] # Null
  BY <1>1, <1>2, LinksShape
<1>4. Turned(v, w, x, s)
  BY <1>3, TurnNodes
<1>5. Shape(w, S, TurnedBounds(b, x, v[Other(s)][x], s))
  BY <1>3, TurnShape
<1> HIDE DEF w
<1>6. \E b2 : Shape(u, S, b2)
  BY <1>5, LinksShape DEF w
<1>7. /\ u \in Trees /\ u.root = w.root /\ u.parent = w.parent /\ \A z \in Side : u[z] = w[z]
  BY DEF SameLinks, w
<1>8. TurnedLinks(t, u, x, s)
  BY <1>1, <1>2, <1>4, <1>7 DEF Turned, TurnedLinks
<1>9. w.color = v.color /\ w \in Trees
  BY <1>4 DEF Turned
<1> QED BY <1>6, <1>8, <1>9 DEF w

\* A node becomes black that is the root, or red with a black node missing on
\* the ways through it.
LEMMA Blackened ==
    ASSUME NEW t, NEW S, NEW b, Shape(t, S, b), NEW h, NEW D, Balanced(t, S, h, D),
           NEW c \in S, NEW u, SetsColor(t, u, c, BLACK),
           \/ t.parent[c] = Null /\ D = {}
           \/ /\ t.parent[c] # Null /\ t.color[c] = RED
              /\ \E z \in Side : t[z][t.parent[c]] = c /\ D = {<<t.parent[c], z>>}
    PROVE  \E g : Balanced(u, S, g, {})
<1>1. /\ S \subseteq Node
      /\ \A y \in S : y \in Node /\ y # Null
  BY Numbers DEF Shape
<1>2. \A y \in S, z \in Side : t[z][y] # Null => t[z][y] \in S /\ t.parent[t[z][y]] = y
  BY ChildIs
<1>3. /\ h \in Heights
      /\ \A y \in S, z \in Side :
           h[y] = Depth(h, t[z][y]) + One(t, y) + (IF <<y, z>> \in D THEN 1 ELSE 0)
  BY DEF Balanced
<1>4. /\ \A z \in Side : u[z] = t[z]
      /\ \A y \in Node : u.color[y] = IF y = c THEN BLACK ELSE t.color[y]
  BY DEF SetsColor
<1>5. One(u, c) = 1 /\ \A y \in S : y # c => One(u, y) = One(t, y)
  BY <1>1, <1>4 DEF One
<1>6. \A y \in S, d \in S \cup {Null} : One(t, y) \in Nat /\ Depth(h, d) \in Nat /\ h[y] \in Nat
  BY <1>1, <1>3 DEF One, Depth, Heights
<1>7. CASE t.color[c] = BLACK
  <2>1. D = {}
    BY <1>7 DEF RED, BLACK
  <2>2. \A y \in S : One(u, y) = One(t, y)
    BY <1>1, <1>5, <1>7 DEF One
  <2>3. Balanced(u, S, h, {})
    BY <1>3, <1>4, <2>1, <2>2 DEF Balanced
  <2> QED BY <2>3
<1>8. CASE t.color[c] # BLACK
  <2> DEFINE g == [y \in Node |-> IF y = c THEN h[c] + 1 ELSE h[y]]
  <2>1. g \in Heights /\ \A y \in Node : g[y] = IF y = c THEN h[c] + 1 ELSE h[y]
    BY <1>1, <1>3, <1>6 DEF Heights
  <2> HIDE DEF g
  <2>2. One(t, c) = 0
    BY <1>8 DEF One
  <2> SUFFICES ASSUME NEW y \in S, NEW z \in Side
               PROVE  g[y] = Depth(g, t[z][y]) + One(u, y) + 0
    <3>1. \A y \in S, z \in Side : <<y, z>> \notin {}
      OBVIOUS
    <3>2. \A y \in S, z \in Side : g[y] = Depth(g, u[z][y]) + One(u, y) + 0 => 
            g[y] = Depth(g, u[z][y]) + One(u, y) + (IF <<y, z>> \in {} THEN 1 ELSE 0)
      OBVIOUS
    <3>3. (\A y \in S, z \in Side : g[y] = Depth(g, u[z][y]) + One(u, y) + 0) => Balanced(u, S, g, {})
      BY <2>1, <3>2 DEF Balanced
    <3> QED BY <1>4, <3>3
  <2> DEFINE e == t[z][y]
             d == IF <<y, z>> \in D THEN 1 ELSE 0
  <2>3. h[y] = Depth(h, e) + One(t, y) + d
    BY <1>3
  <2>4. e \in S \cup {Null} /\ d \in Nat /\ e # y
    <3>1. t[z][y] # Null => t[z][y] # y
      BY OneSide
    <3> QED BY <1>1, <1>2, <3>1
  <2>5. e = c => t.parent[c] = y
    BY <1>1, <1>2
  <2>6. d = IF e = c THEN 1 ELSE 0
    <3>1. CASE t.parent[c] = Null
      BY <1>1, <2>5, <3>1
    <3>2. CASE t.parent[c] # Null
      <4>1. PICK z0 \in Side : t[z0][t.parent[c]] = c /\ D = {<<t.parent[c], z0>>}
        BY <3>2
      <4>2. HasChild(t, t.parent[c], c)
        BY <3>2, ParentIs
      <4>3. <<y, z>> \in D <=> y = t.parent[c] /\ z = z0
        BY <4>1
      <4>4. e = c <=> y = t.parent[c] /\ z = z0
        <5>1. y = t.parent[c] /\ e = c => z = z0
          BY <4>1, <4>2 DEF HasChild, Side, Other
        <5> QED BY <2>5, <4>1, <5>1
      <4> QED BY <4>3, <4>4
    <3> QED BY <3>1, <3>2
  <2> HIDE DEF e, d
  <2>7. Depth(g, e) = Depth(h, e) + d
    BY <1>1, <1>6, <2>1, <2>4, <2>6 DEF Depth
  <2>8. g[y] = h[y] + (IF y = c THEN 1 ELSE 0) /\ One(u, y) = One(t, y) + (IF y = c THEN 1 ELSE 0)
    BY <1>1, <1>5, <1>6, <2>1, <2>2
  <2>9. Depth(h, e) \in Nat /\ One(t, y) \in Nat
    BY <1>6, <2>4
  <2>10. g[y] = Depth(g, e) + One(u, y) + 0
    BY <2>3, <2>4, <2>7, <2>8, <2>9
  <2> QED BY <2>10 DEF e
<1> QED BY <1>7, <1>8

\* The loops in the invariant are told apart by their names.
LEMMA InInsert ==
    ASSUME RbInv, at.op = "insert"
    PROVE  \E b, h : Shape(tree, linked, b) /\ Inserting(tree, linked, h, at)
<1>1. PICK b, h : /\ Shape(tree, linked, b)
                  /\ \/ Resting(tree, linked, h, at)
                     \/ Inserting(tree, linked, h, at)
                     \/ \E z \in Side : Erasing(tree, linked, h, at, z)
  BY DEF RbInv, Valid
<1>2. ~ Resting(tree, linked, h, at)
  BY DEF Resting, Idle
<1>3. \A z \in Side : ~ Erasing(tree, linked, h, at, z)
  BY DEF Erasing
<1> QED BY <1>1, <1>2, <1>3

\* The same for rb_erase_fix().
LEMMA InErase ==
    ASSUME RbInv, at.op = "erase"
    PROVE  \E b, h : Shape(tree, linked, b) /\ \E z \in Side : Erasing(tree, linked, h, at, z)
<1>1. PICK b, h : /\ Shape(tree, linked, b)
                  /\ \/ Resting(tree, linked, h, at)
                     \/ Inserting(tree, linked, h, at)
                     \/ \E z \in Side : Erasing(tree, linked, h, at, z)
  BY DEF RbInv, Valid
<1>2. ~ Resting(tree, linked, h, at)
  BY DEF Resting, Idle
<1>3. ~ Inserting(tree, linked, h, at)
  BY DEF Inserting
<1> QED BY <1>1, <1>2, <1>3

\* rb_insert() ends at a black parent, and the root becomes black.
LEMMA InsertDoneKept ==
    ASSUME RbInv, InsertDone PROVE RbInv'
<1> DEFINE t == tree
           S == linked
           c == t.root
           u == rb_set_color(t, c, BLACK)
           n == at.node
<1>1. at.op = "insert" /\ rb_black(t, at.parent) /\ tree' = u /\ at' = Idle /\ linked' = S
  BY DEF InsertDone
<1>2. PICK b, h : Shape(t, S, b) /\ Inserting(t, S, h, at)
  BY <1>1, InInsert
<1>3. /\ n \in S /\ t.color[n] = RED /\ at.parent = t.parent[n]
      /\ NoRedPair(t, S, n) /\ RootBlack(t, n) /\ Balanced(t, S, h, {})
  BY <1>2 DEF Inserting
<1>4. c \in S /\ t.parent[c] = Null /\ \A y \in S : y \in Node /\ y # Null
  BY <1>2, <1>3, Numbers DEF Shape, Rooted
<1>5. SetsColor(t, u, c, BLACK) /\ SameLinks(t, u)
  BY <1>2, <1>4, ColorSet, ColorLinks DEF Shape
<1> HIDE DEF u, t, S
<1>6. Shape(u, S, b)
  BY <1>2, <1>5, LinksShape
<1>7. \E g : Balanced(u, S, g, {})
  BY <1>2, <1>3, <1>4, <1>5, Blackened
<1>8. /\ u.root = c /\ u.parent = t.parent
      /\ \A y \in Node : u.color[y] = IF y = c THEN BLACK ELSE t.color[y]
  BY <1>5 DEF SetsColor
<1>9. RED # BLACK
  BY DEF RED, BLACK
<1>10. NoRedPair(u, S, Null)
  <2> SUFFICES ASSUME NEW y \in S, RedPair(u, y) PROVE FALSE
    BY DEF NoRedPair
  <2>1. u.color[y] = RED /\ u.parent[y] # Null /\ u.color[u.parent[y]] = RED
    BY DEF RedPair
  <2>2. t.parent[y] \in S
    BY <1>2, <1>8, <2>1, ParentIs
  <2>3. RedPair(t, y)
    BY <1>4, <1>8, <1>9, <2>1, <2>2 DEF RedPair
  <2>4. y = n
    BY <1>3, <2>3 DEF NoRedPair
  <2>5. t.color[at.parent] = RED /\ at.parent # Null
    BY <1>3, <2>3, <2>4 DEF RedPair
  <2> QED BY <1>1, <2>5 DEF rb_black, rb_red
<1>11. RootBlack(u, Null)
  BY <1>4, <1>8 DEF RootBlack
<1>12. Valid(u, S, Idle)
  BY <1>6, <1>7, <1>10, <1>11 DEF Valid, Resting
<1> QED BY <1>1, <1>12 DEF RbInv, S

\* Where the loop of rb_insert() has work to do, there is a grandparent.
LEMMA Grandparent ==
    ASSUME NEW t, NEW S, NEW b, Shape(t, S, b), NEW h, NEW a, Inserting(t, S, h, a),
           rb_red(t, a.parent)
    PROVE  LET p == a.parent
               g == t.parent[p]
           IN  /\ p \in S /\ HasChild(t, p, a.node) /\ p # t.root
               /\ g \in S /\ HasChild(t, g, p) /\ t.color[g] = BLACK
               /\ a.node # p /\ g # p /\ g # a.node /\ t.color[p] = RED
<1> DEFINE n == a.node
           p == a.parent
           g == t.parent[p]
<1>1. /\ n \in S /\ t.color[n] = RED /\ p = t.parent[n]
      /\ NoRedPair(t, S, n) /\ RootBlack(t, n)
  BY DEF Inserting
<1>2. p # Null /\ t.color[p] = RED
  BY DEF rb_red
<1>3. p \in S /\ HasChild(t, p, n) /\ n # t.root
  BY <1>1, <1>2, ParentIs
<1>4. t.root # Null /\ RED # BLACK
  BY <1>3, Numbers DEF Shape, Rooted, RED, BLACK
<1>5. p # t.root
  BY <1>1, <1>2, <1>3, <1>4 DEF RootBlack
<1>6. g \in S
  BY <1>3, <1>5 DEF Shape, Parents
<1>7. g # Null
  BY <1>6, Numbers
<1>8. HasChild(t, g, p)
  BY <1>3, <1>7, ParentIs
<1>9. n # p
  <2>1. PICK z \in Side : t[z][p] = n
    BY <1>3 DEF HasChild
  <2>2. n # Null
    BY <1>1, Numbers
  <2> QED BY <1>3, <2>1, <2>2, OneSide
<1>10. g # p /\ g # n
  <2>1. PICK z \in Side : t[z][g] = p
    BY <1>8 DEF HasChild
  <2>2. g # p
    BY <1>2, <1>6, <2>1, OneSide
  <2>3. PICK d \in Side : t[d][p] = n
    BY <1>3 DEF HasChild
  <2>4. g # n
    <3>1. n # Null
      BY <1>1, Numbers
    <3> QED BY <1>3, <1>7, <2>3, <3>1, UpNotChild
  <2> QED BY <2>2, <2>4
<1>11. t.color[g] = BLACK
  <2>1. ~ RedPair(t, p)
    BY <1>1, <1>3, <1>9 DEF NoRedPair
  <2>2. t.color[g] # RED
    BY <1>2, <1>7, <2>1 DEF RedPair
  <2>3. g \in Node /\ t \in Trees
    BY <1>6, Numbers DEF Shape
  <2>4. t.color[g] \in {RED, BLACK}
    BY <2>3 DEF Trees
  <2> QED BY <2>2, <2>4
<1> QED BY <1>2, <1>3, <1>5, <1>6, <1>8, <1>9, <1>10, <1>11

\* The loop goes on elsewhere.
Move(a, v, w) == [a EXCEPT !.node = v, !.parent = w]

\* Only the operation stays.
LEMMA MoveAt ==
    ASSUME NEW a, NEW o, NEW n, NEW p, a = [op |-> o, node |-> n, parent |-> p], NEW v, NEW w
    PROVE  Move(a, v, w) = [op |-> o, node |-> v, parent |-> w]
<1> DEFINE e == [a EXCEPT !.node = v, !.parent = w]
<1>1. a = [x \in {"op", "node", "parent"} |-> IF x = "op" THEN o ELSE IF x = "node" THEN n ELSE p]
  OBVIOUS
<1>2. e = [x \in {"op", "node", "parent"} |-> IF x = "op" THEN o ELSE IF x = "node" THEN v ELSE w]
  BY <1>1
<1> QED BY <1>2 DEF Move

\* A red uncle: the only red pair is now at the grandparent.
LEMMA InsertRecolorKept ==
    ASSUME RbInv, InsertRecolor PROVE RbInv'
<1> DEFINE t == tree
           S == linked
           n == at.node
           p == at.parent
           g == t.parent[p]
           q == IF p = t.left[g] THEN t.right[g] ELSE t.left[g]
           u == [t EXCEPT !.color = [@ EXCEPT ![g] = RED, ![p] = BLACK, ![q] = BLACK]]
           a == [at EXCEPT !.node = g, !.parent = t.parent[g]]
<1>1. at.op = "insert" /\ rb_red(t, p) /\ rb_red(t, q) /\ tree' = u /\ at' = a /\ linked' = S
  BY Zenon DEF InsertRecolor
<1>2. PICK b, h : Shape(t, S, b) /\ Inserting(t, S, h, at)
  BY <1>1, InInsert, Zenon
<1>3. /\ n \in S /\ NoRedPair(t, S, n) /\ RootBlack(t, n) /\ Balanced(t, S, h, {})
      /\ at = [op |-> "insert", node |-> n, parent |-> p]
  BY <1>1, <1>2, Zenon DEF Inserting
<1>4. /\ p \in S /\ HasChild(t, p, n) /\ p # t.root
      /\ g \in S /\ HasChild(t, g, p) /\ t.color[g] = BLACK
      /\ n # p /\ g # p /\ g # n /\ t.color[p] = RED
  BY <1>1, <1>2, Grandparent, Zenon
<1>5. PICK z \in Side : t[z][g] = p /\ t[Other(z)][g] = q
  <2>1. PICK z \in Side : t[z][g] = p /\ t[Other(z)][g] # p
    BY <1>4 DEF HasChild
  <2>2. t[Other(z)][g] = q
    <3>1. CASE z = "left"
      BY <2>1, <3>1 DEF Other
    <3>2. CASE z = "right"
      BY <2>1, <3>2 DEF Other
    <3> QED BY <3>1, <3>2 DEF Side
  <2> QED BY <2>1, <2>2
<1> HIDE DEF q
<1>6. q # Null /\ t.color[q] = RED
  BY <1>1 DEF rb_red
<1>7. q \in S /\ t.parent[q] = g /\ q # p /\ q # g
  <2>1. Other(z) \in Side /\ Other(Other(z)) = z
    BY Sides
  <2> QED BY <1>2, <1>4, <1>5, <1>6, <2>1, ChildIs, OneSide
<1>8. /\ S \subseteq Node /\ \A y \in S : y \in Node /\ y # Null
      /\ \A y \in S, s \in Side : t[s][y] # Null => t[s][y] \in S /\ t.parent[t[s][y]] = y
  BY <1>2, Numbers, ChildIs DEF Shape
<1>9. /\ SameLinks(t, u)
      /\ \A y \in Node : u.color[y] = IF y = g THEN RED ELSE IF y = p \/ y = q THEN BLACK ELSE t.color[y]
  <2>1. t \in Trees /\ g \in Node /\ p \in Node /\ q \in Node
    BY <1>2, <1>4, <1>7, <1>8 DEF Shape
  <2> HIDE DEF t, g, p
  <2>2. /\ u \in Trees /\ u.root = t.root /\ u.parent = t.parent /\ u.left = t.left /\ u.right = t.right
        /\ u.color = [t.color EXCEPT ![g] = RED, ![p] = BLACK, ![q] = BLACK]
    BY <2>1 DEF Trees
  <2>3. t.color \in [Node -> {RED, BLACK}]
    BY <2>1 DEF Trees
  <2>4. \A y \in Node : u.color[y] = IF y = g THEN RED ELSE IF y = p \/ y = q THEN BLACK ELSE t.color[y]
    BY <1>4, <1>7, <2>1, <2>2, <2>3 DEF g
  <2> QED BY <2>2, <2>4 DEF SameLinks, Side
<1> DEFINE k == [y \in Node |-> IF y = p \/ y = q THEN h[y] + 1 ELSE h[y]]
<1>10. h \in Heights /\ \A y \in S, s \in Side : h[y] = Depth(h, t[s][y]) + One(t, y) + 0
  BY <1>3 DEF Balanced
<1>11. k \in Heights /\ \A y \in Node : h[y] \in Nat /\ k[y] = IF y = p \/ y = q THEN h[y] + 1 ELSE h[y]
  BY <1>10 DEF Heights
<1> HIDE DEF u, k, g, p, t, S
<1>12. Balanced(u, S, k, {})
  <2>1. \A y \in S, s \in Side : k[y] = Depth(k, u[s][y]) + One(u, y) + 0
    <3> TAKE y \in S, s \in Side
    <3> DEFINE e == t[s][y]
    <3>1. u[s][y] = e /\ e \in S \cup {Null}
      BY <1>8, <1>9 DEF SameLinks
    <3>2. h[y] = Depth(h, e) + One(t, y) + 0
      BY <1>10
    <3>3. e \in {p, q} <=> y = g
      <4>1. s = z \/ s = Other(z)
        BY Sides
      <4>2. t.parent[p] = g
        BY DEF g
      <4> QED BY <1>4, <1>5, <1>7, <1>8, <4>1, <4>2
    <3>4. One(u, y) = One(t, y) + (IF y = p \/ y = q THEN 1 ELSE 0) - (IF y = g THEN 1 ELSE 0)
      BY <1>4, <1>6, <1>7, <1>8, <1>9 DEF One, RED, BLACK
    <3> HIDE DEF e
    <3>5. Depth(k, e) = Depth(h, e) + (IF e = p \/ e = q THEN 1 ELSE 0) /\ Depth(h, e) \in Nat
      BY <1>4, <1>7, <1>8, <1>11, <3>1 DEF Depth
    <3>6. k[y] = h[y] + (IF y = p \/ y = q THEN 1 ELSE 0) /\ One(t, y) \in Nat /\ h[y] \in Nat
      BY <1>8, <1>11 DEF One
    <3>7. k[y] = Depth(k, e) + One(u, y) + 0
      BY <1>4, <1>7, <3>2, <3>3, <3>4, <3>5, <3>6
    <3> QED BY <3>1, <3>7
  <2>2. \A y \in S, s \in Side : k[y] = Depth(k, u[s][y]) + One(u, y) + (IF <<y, s>> \in {} THEN 1 ELSE 0)
    BY <2>1
  <2> QED BY <1>11, <2>2 DEF Balanced
<1>13. Shape(u, S, b)
  BY <1>2, <1>9, LinksShape DEF t, S
<1>14. u.root = t.root /\ u.parent = t.parent
  BY <1>9 DEF SameLinks
<1>15. RED # BLACK
  BY DEF RED, BLACK
<1>16. NoRedPair(u, S, g)
  <2> SUFFICES ASSUME NEW y \in S, y # g, RedPair(u, y) PROVE FALSE
    BY DEF NoRedPair
  <2>1. u.color[y] = RED /\ t.parent[y] # Null /\ u.color[t.parent[y]] = RED
    BY <1>14 DEF RedPair
  <2>2. t.parent[y] \in S /\ HasChild(t, t.parent[y], y)
    BY <1>2, <2>1, ParentIs DEF t, S
  <2>3. y # p /\ y # q /\ t.color[y] = RED
    BY <1>8, <1>9, <1>15, <2>1
  <2>4. t.parent[y] # g
    <3>1. PICK s \in Side : t[s][t.parent[y]] = y
      BY <2>2 DEF HasChild
    <3>2. s = z \/ s = Other(z)
      BY Sides
    <3> QED BY <1>5, <2>3, <3>1, <3>2
  <2>5. t.color[t.parent[y]] = RED /\ t.parent[y] # p
    BY <1>8, <1>9, <1>15, <2>1, <2>2, <2>4
  <2>6. RedPair(t, y)
    BY <2>1, <2>3, <2>5 DEF RedPair
  <2>7. y = n
    BY <1>3, <2>6 DEF NoRedPair, t, S
  <2>8. t.parent[n] = p
    BY <1>2 DEF Inserting, t, p
  <2> QED BY <2>5, <2>7, <2>8
<1>17. RootBlack(u, g)
  <2> SUFFICES ASSUME t.root \notin {Null, g} PROVE u.color[t.root] = BLACK
    BY <1>14 DEF RootBlack
  <2>1. t.root \in S
    BY <1>2 DEF Shape, Rooted, t, S
  <2>2. t.root # n
    <3>1. t.parent[n] = p /\ p # Null
      BY <1>2, <1>4, <1>8 DEF Inserting, t, p
    <3>2. t.parent[t.root] = Null
      BY <1>2 DEF Shape, Rooted, t, S
    <3> QED BY <3>1, <3>2
  <2>3. t.color[t.root] = BLACK
    BY <1>3, <2>2 DEF RootBlack, t, S
  <2> QED BY <1>8, <1>9, <2>1, <2>3
<1>18. a = [op |-> "insert", node |-> g, parent |-> t.parent[g]]
  <2>1. a = Move(at, g, t.parent[g])
    BY DEF Move
  <2> HIDE DEF a, n
  <2> QED BY <1>3, <2>1, MoveAt
<1> HIDE DEF a
<1>19. Inserting(u, S, k, a)
  BY <1>4, <1>8, <1>9, <1>12, <1>14, <1>16, <1>17, <1>18 DEF Inserting, S, g, p
<1>20. Valid(u, S, a)
  BY <1>13, <1>19 DEF Valid
<1> QED BY <1>1, <1>20 DEF RbInv, S

\* The root becomes black in the end.
LEMMA RootDone ==
    ASSUME NEW t, NEW S, NEW b, Shape(t, S, b), S # {}, NEW h, Balanced(t, S, h, {}),
           NoRedPair(t, S, Null)
    PROVE  Valid(rb_set_color(t, t.root, BLACK), S, Idle)
<1> DEFINE c == t.root
           u == rb_set_color(t, c, BLACK)
<1>1. c \in S /\ t.parent[c] = Null /\ \A y \in S : y \in Node /\ y # Null
  BY Numbers DEF Shape, Rooted
<1>2. SetsColor(t, u, c, BLACK) /\ SameLinks(t, u)
  BY <1>1, ColorSet, ColorLinks DEF Shape
<1> HIDE DEF u
<1>3. Shape(u, S, b)
  BY <1>2, LinksShape
<1>4. \E g : Balanced(u, S, g, {})
  BY <1>1, <1>2, Blackened
<1>5. /\ u.root = c /\ u.parent = t.parent
      /\ \A y \in Node : u.color[y] = IF y = c THEN BLACK ELSE t.color[y]
  BY <1>2 DEF SetsColor
<1>6. NoRedPair(u, S, Null)
  <2> SUFFICES ASSUME NEW y \in S, RedPair(u, y) PROVE FALSE
    BY DEF NoRedPair
  <2>1. u.color[y] = RED /\ u.parent[y] # Null /\ u.color[u.parent[y]] = RED
    BY DEF RedPair
  <2>2. t.parent[y] \in S
    BY <1>5, <2>1, ParentIs
  <2>3. RedPair(t, y)
    BY <1>1, <1>5, <2>1, <2>2 DEF RedPair, RED, BLACK
  <2> QED BY <1>1, <2>3 DEF NoRedPair
<1>7. RootBlack(u, Null)
  BY <1>1, <1>5 DEF RootBlack
<1>8. Valid(u, S, Idle)
  BY <1>3, <1>4, <1>6, <1>7 DEF Valid, Resting
<1> QED BY <1>8 DEF u

\* The tree after the rotation of g and the colors that rb_insert() ends with.
Lifted(t, g, p, o) ==
    LET u == rb_set_color(rb_set_color(Rotate(t, g, o), p, BLACK), g, RED)
    IN  rb_set_color(u, u.root, BLACK)

\* A red p with a red child on its outer side, and a black brother.
LEMMA LiftedIs ==
    ASSUME NEW t, NEW S, NEW b, Shape(t, S, b), NEW h, Balanced(t, S, h, {}),
           NEW g \in S, NEW s \in Side, NEW p, p = t[s][g], p # Null,
           t.color[p] = RED, t.color[g] = BLACK,
           rb_black(t, t[Other(s)][g]), NoRedPair(t, S, t[s][p])
    PROVE  Valid(Lifted(t, g, p, Other(s)), S, Idle)
<1> DEFINE o == Other(s)
           v == Rotate(t, g, o)
           w == rb_set_color(v, p, BLACK)
           u == rb_set_color(w, g, RED)
<1>1. o \in Side /\ Other(o) = s
  BY Sides
<1>2. p \in S /\ p # g /\ t.parent[p] = g
  BY ChildIs, OneSide
<1>3. \A y \in S : y \in Node /\ y # Null
  BY Numbers
<1>4. p = t[Other(o)][g]
  BY <1>1
<1> HIDE DEF o
<1>5. SameLinks(t, t)
  BY DEF SameLinks, Shape
<1>6. v.color = t.color /\ v \in Trees
  <2>1. Turned(t, v, g, o)
    BY <1>1, <1>4, TurnNodes
  <2> QED BY <2>1 DEF Turned
<1> HIDE DEF v
<1>7. SetsColor(v, w, p, BLACK)
  BY <1>2, <1>3, <1>6, ColorSet
<1> HIDE DEF w
<1>8. SetsColor(w, u, g, RED)
  <2>1. w \in Trees /\ RED \in {RED, BLACK}
    BY <1>7 DEF SetsColor
  <2> QED BY <1>3, <2>1, ColorSet
<1> HIDE DEF u
<1>9. SameLinks(v, u)
  BY <1>7, <1>8 DEF SetsColor, SameLinks
<1>10. TurnedLinks(t, u, g, o) /\ \E b2 : Shape(u, S, b2)
  BY <1>1, <1>4, <1>5, <1>9, TurnedIs DEF v
<1>11. Swapped(t, u, g, p)
  BY <1>2, <1>3, <1>6, <1>7, <1>8 DEF Swapped, SetsColor
<1>12. Balanced(u, S, SwappedHeights(h, g, p), {})
  <2>1. \A x, z : <<x, z>> \notin {}
    OBVIOUS
  <2> QED BY <1>1, <1>4, <1>10, <1>11, <2>1, SwapBalanced
<1>13. NoRedPair(u, S, Null)
  <2> SUFFICES ASSUME NEW y \in S, RedPair(u, y) PROVE FALSE
    BY DEF NoRedPair
  <2>1. \/ t.color[g] = RED /\ y \in {g, p, t[s][p]}
        \/ t.color[y] = RED /\ y \in {t[o][p], t[o][g]}
        \/ RedPair(t, y) /\ t.parent[y] \notin {g, p}
    BY <1>1, <1>4, <1>10, <1>11, SwapPairs
  <2>2. t.color[g] # RED
    BY DEF RED, BLACK
  <2>3. CASE t.color[y] = RED /\ y = t[o][g]
    BY <1>3, <2>3 DEF rb_black, rb_red, o
  <2>4. CASE t.color[y] = RED /\ y = t[o][p]
    <3>1. t.parent[y] = p /\ y # t[s][p]
      BY <1>1, <1>2, <1>3, <2>4, ChildIs, OneSide
    <3>2. RedPair(t, y)
      BY <1>2, <1>3, <2>4, <3>1 DEF RedPair
    <3> QED BY <3>1, <3>2 DEF NoRedPair
  <2>5. CASE RedPair(t, y) /\ t.parent[y] \notin {g, p}
    <3>1. y = t[s][p]
      BY <2>5 DEF NoRedPair
    <3>2. t.parent[y] = p
      BY <1>2, <1>3, <3>1, ChildIs
    <3> QED BY <2>5, <3>2
  <2> QED BY <2>1, <2>2, <2>3, <2>4, <2>5
<1>14. Valid(rb_set_color(u, u.root, BLACK), S, Idle)
  BY <1>10, <1>12, <1>13, RootDone
<1> QED BY <1>14 DEF Lifted, u, w, v, o

\* The rotation of p that brings its inner red child n up.
LEMMA InnerTurned ==
    ASSUME NEW t, NEW S, NEW b, Shape(t, S, b), NEW h, Balanced(t, S, h, {}),
           NEW g \in S, NEW s \in Side, NEW p, p = t[s][g], p # Null,
           NEW n, n = t[Other(s)][p], n # Null, t.color[n] = RED,
           t.color[p] = RED, t.color[g] = BLACK,
           rb_black(t, t[Other(s)][g]), NoRedPair(t, S, n)
    PROVE  Valid(Lifted(Rotate(t, p, s), g, n, Other(s)), S, Idle)
<1> DEFINE o == Other(s)
           u == Rotate(t, p, s)
<1>1. o \in Side /\ Other(o) = s /\ o # s /\ \A z \in Side : z = s \/ z = o
  BY Sides
<1>2. p \in S /\ p # g /\ t.parent[p] = g
  BY ChildIs, OneSide
<1>3. \A y \in S : y \in Node /\ y # Null
  BY Numbers
<1>4. n \in S /\ t.parent[n] = p /\ n # t[s][p] /\ n # p
  BY <1>1, <1>2, ChildIs, OneSide
<1>5. n # g
  <2>1. t.parent[p] # t[o][p]
    BY <1>1, <1>2, <1>3, UpNotChild
  <2> QED BY <1>2, <2>1
<1>6. Turned(t, u, p, s) /\ Shape(u, S, TurnedBounds(b, p, n, s))
  BY <1>2, TurnNodes, TurnShape
<1> HIDE DEF u
<1>7. TurnedLinks(t, u, p, s) /\ u.color = t.color
  BY <1>6, Zenon DEF Turned, TurnedLinks
<1>8. Swapped(t, u, p, n)
  BY <1>7 DEF Swapped
<1>9. Balanced(u, S, SwappedHeights(h, p, n), {})
  <2>1. \A x, z : <<x, z>> \notin {}
    OBVIOUS
  <2> QED BY <1>2, <1>7, <1>8, <2>1, SwapBalanced
<1>10. /\ u[s][g] = n /\ u[s][n] = p /\ u[o][g] = t[o][g]
  <2>1. \A y \in Node, z \in Side :
             u[z][y] = IF y = n THEN (IF z = s THEN p ELSE t[z][y])
                       ELSE IF y = p THEN (IF z = o THEN t[s][n] ELSE t[z][y])
                       ELSE IF y = t.parent[p] /\ t[z][t.parent[p]] = p THEN n
                       ELSE t[z][y]
    BY <1>7 DEF TurnedLinks
  <2>2. t[o][g] # p
    BY OneSide
  <2>3. u[s][g] = n
    BY <1>2, <1>3, <1>5, <2>1
  <2>4. u[s][n] = p
    BY <1>3, <1>4, <2>1
  <2>5. u[o][g] = t[o][g]
    BY <1>1, <1>2, <1>3, <1>5, <2>1, <2>2
  <2> QED BY <2>3, <2>4, <2>5
<1>11. NoRedPair(u, S, p)
  <2> SUFFICES ASSUME NEW y \in S, RedPair(u, y), y # p PROVE FALSE
    BY DEF NoRedPair
  <2>1. \/ t.color[p] = RED /\ y \in {p, n, t[o][n]}
        \/ t.color[y] = RED /\ y \in {t[s][n], t[s][p]}
        \/ RedPair(t, y) /\ t.parent[y] \notin {p, n}
    BY <1>2, <1>7, <1>8, SwapPairs
  <2>2. ASSUME NEW z \in Side, y = t[z][n] PROVE FALSE
    <3>0. t[z][n] # Null
      BY <1>3, <2>2
    <3>1. t.parent[y] = n /\ y # n
      <4>1. \A x \in S : t[z][x] # Null => t.parent[t[z][x]] = x /\ t[z][x] # x
        BY <2>2, ChildIs, OneSide
      <4> QED BY <1>4, <2>2, <3>0, <4>1, Zenon
    <3>2. t.color[y] = RED
      BY <1>7 DEF RedPair
    <3>3. RedPair(t, y)
      BY <1>3, <1>4, <3>1, <3>2 DEF RedPair
    <3> QED BY <3>1, <3>3 DEF NoRedPair
  <2>3. ASSUME y = n PROVE FALSE
    <3>1. u.parent[n] = g
      BY <1>2, <1>3, <1>4, <1>7 DEF TurnedLinks
    <3>2. u.color[g] = RED
      BY <2>3, <3>1 DEF RedPair
    <3> QED BY <1>7, <3>2 DEF RED, BLACK
  <2>4. ASSUME y = t[s][p] PROVE FALSE
    <3>1. t.parent[y] = p
      BY <1>2, <1>3, <2>4, ChildIs
    <3>2. t.color[y] = RED
      BY <1>7 DEF RedPair
    <3>3. RedPair(t, y)
      BY <1>2, <1>3, <3>1, <3>2 DEF RedPair
    <3> QED BY <1>4, <2>4, <3>3 DEF NoRedPair
  <2>5. ASSUME RedPair(t, y), t.parent[y] \notin {p, n} PROVE FALSE
    BY <1>4, <2>5 DEF NoRedPair
  <2> QED BY <1>1, <2>1, <2>2, <2>3, <2>4, <2>5
<1>12. rb_black(u, u[o][g])
  BY <1>7, <1>10 DEF rb_black, rb_red
<1>13. Valid(Lifted(u, g, n, o), S, Idle)
  BY <1>3, <1>4, <1>6, <1>7, <1>9, <1>10, <1>11, <1>12, LiftedIs DEF o
<1> QED BY <1>13 DEF u, o

\* A black uncle: the rotations leave no red pair.
LEMMA InsertRotateKept ==
    ASSUME RbInv, InsertRotate PROVE RbInv'
<1> DEFINE t == tree
           S == linked
           n == at.node
           p == at.parent
           g == t.parent[p]
           s == IF p = t.left[g] THEN "left" ELSE "right"
           o == Other(s)
<1>1. /\ at.op = "insert" /\ rb_red(t, p) /\ rb_black(t, t[o][g])
      /\ at' = Idle /\ linked' = S
  BY Zenon DEF InsertRotate
<1>2. tree' = IF n = t[o][p] THEN Lifted(Rotate(t, p, s), g, n, o) ELSE Lifted(t, g, p, o)
  BY Zenon DEF InsertRotate, Lifted
<1>3. PICK b, h : Shape(t, S, b) /\ Inserting(t, S, h, at)
  BY <1>1, InInsert
<1>4. /\ n \in S /\ NoRedPair(t, S, n) /\ Balanced(t, S, h, {}) /\ t.color[n] = RED
  BY <1>3 DEF Inserting
<1>5. /\ p \in S /\ HasChild(t, p, n)
      /\ g \in S /\ HasChild(t, g, p) /\ t.color[g] = BLACK
      /\ n # p /\ g # p /\ g # n /\ t.color[p] = RED
  BY <1>1, <1>3, Grandparent, Zenon
<1>6. s \in Side /\ t[s][g] = p
  <2>1. t.left[g] = p \/ t.right[g] = p
    BY <1>5 DEF HasChild, Side
  <2> QED BY <2>1 DEF Side
<1>7. n # Null /\ p # Null
  BY <1>3, <1>4, <1>5, Numbers
<1> HIDE DEF g, s, t, S, p, n
<1>8. CASE n = t[o][p]
  <2>1. Valid(Lifted(Rotate(t, p, s), g, n, o), S, Idle)
    BY <1>1, <1>3, <1>4, <1>5, <1>6, <1>7, <1>8, InnerTurned
  <2> QED BY <1>1, <1>2, <1>8, <2>1 DEF RbInv, S
<1>9. CASE n # t[o][p]
  <2>1. n = t[s][p]
    BY <1>5, <1>6, <1>9 DEF HasChild, Side, Other
  <2>2. Valid(Lifted(t, g, p, o), S, Idle)
    BY <1>1, <1>3, <1>4, <1>5, <1>6, <1>7, <2>1, LiftedIs
  <2> QED BY <1>1, <1>2, <1>9, <2>2 DEF RbInv, S
<1> QED BY <1>8, <1>9

-----------------------------------------------------------------------------
(* Removal *)

\* Where the loop of rb_erase_fix() goes on: only the ways through the black
\* child of p on side z are short.
Short(t, S, h, p, z) ==
    /\ p \in S /\ z \in Side
    /\ NoRedPair(t, S, Null) /\ RootBlack(t, Null)
    /\ Balanced(t, S, h, {<<p, z>>})
    /\ rb_black(t, t[z][p])

\* It has a brother then.
LEMMA BrotherIs ==
    ASSUME NEW t, NEW S, NEW b, Shape(t, S, b), NEW h, NEW p \in S, NEW z \in Side,
           Balanced(t, S, h, {<<p, z>>})
    PROVE  t[Other(z)][p] # Null
<1> DEFINE o == Other(z)
           c == t[o][p]
           n == t[z][p]
<1>1. o \in Side /\ o # z
  BY Sides
<1>2. /\ h \in Heights
      /\ \A d \in Side : h[p] = Depth(h, t[d][p]) + One(t, p)
                                + (IF <<p, d>> \in {<<p, z>>} THEN 1 ELSE 0)
  BY DEF Balanced
<1>3. h[p] = Depth(h, n) + One(t, p) + 1 /\ h[p] = Depth(h, c) + One(t, p) + 0
  BY <1>1, <1>2
<1>4. n \in S \cup {Null} /\ One(t, p) \in Nat /\ \A y \in S : y \in Node
  BY ChildIs, Numbers DEF One
<1> HIDE DEF n, c, o
<1>5. Depth(h, n) \in Nat
  BY <1>2, <1>4 DEF Depth, Heights
<1>6. c = Null => Depth(h, c) = 0
  BY DEF Depth
<1>7. c # Null
  BY <1>3, <1>4, <1>5, <1>6
<1> QED BY <1>7 DEF c, o

\* While rb_erase_fix() goes on, one side of at.parent is short.
LEMMA FixingIs ==
    ASSUME RbInv, Fixing
    PROVE  \E b, h : /\ Shape(tree, linked, b)
                     /\ Short(tree, linked, h, at.parent, FixSide)
                     /\ at = [op |-> "erase", node |-> at.node, parent |-> at.parent]
<1> DEFINE t == tree
           S == linked
           n == at.node
           p == at.parent
<1>1. at.op = "erase" /\ rb_black(t, n) /\ n # t.root
  BY DEF Fixing
<1>2. PICK b, h : Shape(t, S, b) /\ \E z \in Side : Erasing(t, S, h, at, z)
  BY <1>1, InErase
<1>3. PICK z \in Side : Erasing(t, S, h, at, z)
  BY <1>2
<1>4. /\ at = [op |-> "erase", node |-> n, parent |-> p]
      /\ IF p = Null THEN n = t.root ELSE p \in S /\ t[z][p] = n
      /\ \A x \in S : RedPair(t, x) => n \in {x, t.parent[x]}
      /\ RootBlack(t, n)
      /\ Balanced(t, S, h, IF p = Null THEN {} ELSE {<<p, z>>})
  BY <1>3 DEF Erasing
<1>5. p # Null /\ p \in S /\ t[z][p] = n /\ Balanced(t, S, h, {<<p, z>>})
  BY <1>1, <1>4
<1>6. t[Other(z)][p] # Null
  BY <1>2, <1>5, BrotherIs
<1>7. FixSide = z
  <2>1. t[Other(z)][p] # n
    <3>1. Other(z) \in Side /\ Other(Other(z)) = z
      BY Sides
    <3> QED BY <1>2, <1>5, <1>6, <3>1, OneSide
  <2>2. CASE z = "left"
    BY <1>5, <2>1, <2>2 DEF FixSide
  <2>3. CASE z = "right"
    BY <1>5, <2>1, <2>3 DEF FixSide, Other
  <2> QED BY <2>2, <2>3 DEF Side
<1>8. NoRedPair(t, S, Null)
  <2> SUFFICES ASSUME NEW y \in S, RedPair(t, y) PROVE FALSE
    BY DEF NoRedPair
  <2>1. n \in {y, t.parent[y]}
    BY <1>4
  <2>2. y # Null
    BY <1>2, Numbers
  <2> QED BY <1>1, <2>1, <2>2 DEF RedPair, rb_black, rb_red
<1>9. RootBlack(t, Null)
  BY <1>1, <1>4 DEF RootBlack
<1>10. Short(t, S, h, p, z)
  BY <1>1, <1>5, <1>8, <1>9 DEF Short
<1> QED BY <1>2, <1>4, <1>7, <1>10

\* The tree in which the brother is black.
Blacken(t, p, z) ==
    LET c == t[Other(z)][p]
    IN  IF rb_red(t, c)
        THEN Rotate(rb_set_color(rb_set_color(t, c, BLACK), p, RED), p, z)
        ELSE t

\* What is known of it: the loop goes on where it was.
Blackens(t, u, S, p, z) ==
    /\ \E b, h : Shape(u, S, b) /\ Short(u, S, h, p, z)
    /\ rb_black(u, u[Other(z)][p])
    /\ u = t \/ u.color[p] = RED

\* The rotation of a red brother keeps the order, and what is short.
LEMMA BlackenIs ==
    ASSUME NEW t, NEW S, NEW b, Shape(t, S, b), NEW p, NEW z, NEW h, Short(t, S, h, p, z)
    PROVE  Blackens(t, Blacken(t, p, z), S, p, z)
<1> DEFINE o == Other(z)
           r == t[o][p]
           n == t[z][p]
           m == t[z][r]
           w == rb_set_color(t, r, BLACK)
           v == rb_set_color(w, p, RED)
           u == Rotate(v, p, z)
<1>1. /\ p \in S /\ z \in Side
      /\ NoRedPair(t, S, Null) /\ RootBlack(t, Null)
      /\ Balanced(t, S, h, {<<p, z>>})
      /\ rb_black(t, n)
  BY DEF Short
<1>2. CASE ~ rb_red(t, r)
  <2>1. Blacken(t, p, z) = t /\ rb_black(t, r)
    BY <1>2 DEF Blacken, rb_black
  <2> QED BY <2>1 DEF Blackens
<1>3. CASE rb_red(t, r)
  <2>1. o \in Side /\ Other(o) = z /\ o # z
    BY <1>1, Sides
  <2>2. r # Null /\ t.color[r] = RED
    BY <1>3 DEF rb_red
  <2>3. r \in S /\ r # p /\ r # n /\ t.parent[r] = p
    BY <1>1, <2>1, <2>2, ChildIs, OneSide
  <2>4. \A y \in S : y \in Node /\ y # Null
    BY Numbers
  <2>5. \A y \in S : ~ RedPair(t, y)
    BY <1>1, <2>4 DEF NoRedPair
  <2> HIDE DEF o
  <2>6. t.color[p] = BLACK
    <3>1. t.color[p] # RED
      BY <1>1, <2>2, <2>3, <2>4, <2>5 DEF RedPair
    <3>2. t.color[p] \in {RED, BLACK}
      BY <1>1, <2>4 DEF Shape, Trees
    <3> QED BY <3>1, <3>2
  <2>7. SetsColor(t, w, r, BLACK)
    BY <2>3, <2>4, ColorSet DEF Shape
  <2> HIDE DEF w
  <2>8. SetsColor(w, v, p, RED)
    <3>1. w \in Trees /\ RED \in {RED, BLACK}
      BY <2>7 DEF SetsColor
    <3> QED BY <1>1, <2>4, <3>1, ColorSet
  <2> HIDE DEF v
  <2>9. SameLinks(t, v)
    BY <2>7, <2>8 DEF SetsColor, SameLinks
  <2>10. Shape(v, S, b) /\ v[Other(z)][p] # Null
    <3>1. Shape(v, S, b)
      BY <2>9, LinksShape
    <3> QED BY <2>1, <2>2, <2>9, <3>1 DEF SameLinks, o
  <2>11. Turned(v, u, p, z)
    BY <1>1, <2>10, TurnNodes
  <2>12. SameLinks(u, u)
    BY <2>11 DEF Turned, SameLinks
  <2>13. TurnedLinks(t, u, p, z) /\ u.color = v.color /\ \E b2 : Shape(u, S, b2)
    BY <1>1, <2>2, <2>9, <2>12, TurnedIs DEF o
  <2> HIDE DEF u
  <2>14. /\ \A y \in Node : u.color[y] = IF y = p THEN RED ELSE IF y = r THEN BLACK ELSE t.color[y]
    BY <2>3, <2>7, <2>8, <2>13 DEF SetsColor
  <2>15. Swapped(t, u, p, r)
    BY <2>6, <2>14 DEF Swapped
  <2>16. Balanced(u, S, SwappedHeights(h, p, r), {<<p, z>>})
    <3>1. <<p, Other(z)>> \notin {<<p, z>>} /\ \A d \in Side : <<r, d>> \notin {<<p, z>>}
      BY <2>1, <2>3 DEF o
    <3>2. r = t[Other(z)][p]
      BY DEF o
    <3> QED BY <1>1, <2>2, <2>13, <2>15, <3>1, <3>2, SwapBalanced
  <2>17. m = Null \/ (m \in S /\ t.parent[m] = r)
    <3>1. \A y \in S : t[z][y] # Null => t[z][y] \in S /\ t.parent[t[z][y]] = y
      BY <1>1, ChildIs
    <3> HIDE DEF r
    <3> QED BY <2>3, <3>1
  <2>18. m = Null \/ t.color[m] # RED
    BY <2>2, <2>3, <2>4, <2>5, <2>17 DEF RedPair
  <2>19. NoRedPair(u, S, Null)
    <3> SUFFICES ASSUME NEW y \in S, RedPair(u, y) PROVE FALSE
      BY DEF NoRedPair
    <3>1. r = t[Other(z)][p]
      BY DEF o
    <3>2. \/ t.color[p] = RED /\ y \in {p, r, t[Other(z)][r]}
          \/ t.color[y] = RED /\ y \in {m, n}
          \/ RedPair(t, y) /\ t.parent[y] \notin {p, r}
      BY <1>1, <2>2, <2>13, <2>15, <3>1, SwapPairs
    <3>3. t.color[p] # RED
      BY <2>6 DEF RED, BLACK
    <3>4. n = Null \/ t.color[n] # RED
      BY <1>1 DEF rb_black, rb_red
    <3> QED BY <2>4, <2>5, <2>18, <3>2, <3>3, <3>4
  <2>20. /\ u.root = IF t.parent[p] = Null THEN r ELSE t.root
         /\ \A y \in Node, d \in Side :
             u[d][y] = IF y = r THEN (IF d = z THEN p ELSE t[d][y])
                       ELSE IF y = p THEN (IF d = o THEN m ELSE t[d][y])
                       ELSE IF y = t.parent[p] /\ t[d][t.parent[p]] = p THEN r
                       ELSE t[d][y]
    BY <2>13 DEF TurnedLinks, o
  <2> HIDE DEF r, m, n
  <2>21. u[z][p] = n /\ u[o][p] = m
    BY <1>1, <2>1, <2>3, <2>4, <2>20 DEF n
  <2>22. rb_black(u, n) /\ rb_black(u, m)
    <3>1. m # r /\ m # p /\ n # r /\ n # p
      <4>1. n # Null => n # p
        BY <1>1, OneSide DEF n
      <4>2. m # p /\ m # r
        BY <1>1, <2>2, TurnNodes DEF m, r, o
      <4> QED BY <2>3, <2>4, <1>1, <4>1, <4>2 DEF n
    <3>2. n \in S \cup {Null} /\ m \in S \cup {Null}
      BY <1>1, <2>17, ChildIs DEF n
    <3> QED BY <1>1, <2>4, <2>14, <2>18, <3>1, <3>2 DEF rb_black, rb_red
  <2>23. RootBlack(u, Null)
    <3>1. CASE t.parent[p] = Null
      BY <2>3, <2>4, <2>14, <2>20, <3>1 DEF RootBlack
    <3>2. CASE t.parent[p] # Null
      <4>1. t.root \in S /\ t.parent[t.root] = Null
        BY <1>1 DEF Shape, Rooted
      <4>2. t.root # p /\ t.root # r
        BY <1>1, <2>3, <2>4, <3>2, <4>1
      <4> QED BY <1>1, <2>4, <2>14, <2>20, <3>2, <4>1, <4>2 DEF RootBlack
    <3> QED BY <3>1, <3>2
  <2>24. Short(u, S, SwappedHeights(h, p, r), p, z)
    BY <1>1, <2>16, <2>19, <2>21, <2>22, <2>23 DEF Short
  <2>25. u.color[p] = RED
    BY <1>1, <2>4, <2>14
  <2>26. Blackens(t, u, S, p, z)
    BY <2>13, <2>21, <2>22, <2>24, <2>25 DEF Blackens, o
  <2>27. Blacken(t, p, z) = u
    BY <1>3 DEF Blacken, u, v, w, r, o
  <2> QED BY <2>26, <2>27
<1> QED BY <1>2, <1>3

\* Where the loop is after rb_erase_fix() blackened the brother.
LEMMA RoundIs ==
    ASSUME RbInv, Fixing
    PROVE  /\ Blackens(tree, BlackBrother, linked, at.parent, FixSide)
           /\ at = [op |-> "erase", node |-> at.node, parent |-> at.parent]
<1>1. PICK b, h : /\ Shape(tree, linked, b)
                  /\ Short(tree, linked, h, at.parent, FixSide)
                  /\ at = [op |-> "erase", node |-> at.node, parent |-> at.parent]
  BY FixingIs
<1>2. Blackens(tree, Blacken(tree, at.parent, FixSide), linked, at.parent, FixSide)
  BY <1>1, BlackenIs
<1>3. BlackBrother = Blacken(tree, at.parent, FixSide)
  BY DEF BlackBrother, Blacken
<1> QED BY <1>1, <1>2, <1>3

\* A red brother makes the ways through it as short as the others: the loop
\* goes on with the parent.
LEMMA ReddenedIs ==
    ASSUME NEW t, NEW S, NEW b, Shape(t, S, b), NEW p, NEW z, NEW h, Short(t, S, h, p, z),
           NEW r, r = t[Other(z)][p], rb_black(t, r),
           rb_black(t, t.left[r]), rb_black(t, t.right[r])
    PROVE  Valid(rb_set_color(t, r, RED), S,
                 [op |-> "erase", node |-> p, parent |-> t.parent[p]])
<1> DEFINE o == Other(z)
           n == t[z][p]
           q == t.parent[p]
           u == rb_set_color(t, r, RED)
           a == [op |-> "erase", node |-> p, parent |-> q]
<1>1. /\ p \in S /\ z \in Side
      /\ NoRedPair(t, S, Null) /\ RootBlack(t, Null)
      /\ Balanced(t, S, h, {<<p, z>>})
      /\ rb_black(t, n)
  BY DEF Short
<1>2. /\ o \in Side /\ Other(o) = z /\ o # z /\ \A d \in Side : d = z \/ d = o
  BY <1>1, Sides
<1>3. r # Null
  BY <1>1, BrotherIs
<1>4. r \in S /\ r # p /\ t.parent[r] = p /\ n # r
  BY <1>1, <1>2, <1>3, ChildIs, OneSide
<1>5. \A y \in S : y \in Node /\ y # Null
  BY Numbers
<1>6. \A y \in S, d \in Side : t[d][y] # Null => /\ t[d][y] \in S /\ t.parent[t[d][y]] = y
                                                 /\ t[d][y] # y
  BY ChildIs, OneSide
<1>7. t.color[r] = BLACK /\ \A d \in Side : rb_black(t, t[d][r])
  <2>1. t.color[r] # RED
    BY <1>3 DEF rb_black, rb_red
  <2>2. t.color[r] \in {RED, BLACK}
    BY <1>4, <1>5 DEF Shape, Trees
  <2> QED BY <2>1, <2>2 DEF Side
<1>8. SetsColor(t, u, r, RED)
  <2>1. t \in Trees /\ r \in Node /\ RED \in {RED, BLACK}
    BY <1>4, <1>5 DEF Shape
  <2> QED BY <2>1, ColorSet
<1> HIDE DEF u
<1>9. SameLinks(t, u) /\ Shape(u, S, b)
  BY <1>8, ColorLinks, LinksShape
<1>10. /\ u.root = t.root /\ u.parent = t.parent /\ \A d \in Side : u[d] = t[d]
       /\ \A y \in Node : u.color[y] = IF y = r THEN RED ELSE t.color[y]
  BY <1>8 DEF SetsColor
<1> HIDE DEF o, n, q
<1>11. q # Null => q \in S /\ HasChild(t, q, p)
  BY <1>1, ParentIs DEF q
<1>12. PICK e \in Side : q # Null => t[e][q] = p /\ t[Other(e)][q] # p
  BY <1>11 DEF HasChild, Side
<1> DEFINE D == IF q = Null THEN {} ELSE {<<q, e>>}
           k == [y \in Node |-> IF y = r \/ y = p THEN h[y] - 1 ELSE h[y]]
<1>13. /\ h \in Heights
       /\ \A y \in S, d \in Side : <<y, d>> # <<p, z>> => h[y] = Depth(h, t[d][y]) + One(t, y) + 0
       /\ h[p] = Depth(h, t[z][p]) + One(t, p) + 1
  BY <1>1 DEF Balanced
<1>14. \A y \in S, c \in S \cup {Null} : h[y] \in Nat /\ Depth(h, c) \in Nat /\ One(t, y) \in Nat
  BY <1>5, <1>13 DEF Heights, Depth, One
<1>15. \A y \in S, d \in Side : t[d][y] \in S \cup {Null}
  BY <1>6
<1>16. h[r] > 0 /\ h[p] > 0
  <2>1. One(t, r) = 1
    BY <1>7 DEF One
  <2>2. h[r] = Depth(h, t[z][r]) + 1 + 0
    BY <1>1, <1>4, <1>13, <2>1
  <2>3. Depth(h, t[z][r]) \in Nat /\ Depth(h, t[z][p]) \in Nat /\ One(t, p) \in Nat
    BY <1>1, <1>4, <1>14, <1>15
  <2> QED BY <1>13, <2>2, <2>3
<1>17. k \in Heights /\ \A y \in Node : k[y] = IF y = r \/ y = p THEN h[y] - 1 ELSE h[y]
  BY <1>1, <1>4, <1>5, <1>13, <1>14, <1>16 DEF Heights
<1> HIDE DEF k, D
<1>18. \A y \in S : One(u, y) = IF y = r THEN 0 ELSE One(t, y)
  BY <1>5, <1>10 DEF One, RED, BLACK
<1>19. \A c \in S \cup {Null} : Depth(k, c) = Depth(h, c) - (IF c = r \/ c = p THEN 1 ELSE 0)
  BY <1>1, <1>4, <1>5, <1>13, <1>17 DEF Depth, Heights
<1>20. Balanced(u, S, k, D)
  <2> SUFFICES ASSUME NEW y \in S, NEW d \in Side
               PROVE  k[y] = Depth(k, t[d][y]) + One(u, y) + (IF <<y, d>> \in D THEN 1 ELSE 0)
    BY <1>10, <1>17 DEF Balanced
  <2> DEFINE c == t[d][y]
             x == IF <<y, d>> \in D THEN 1 ELSE 0
  <2>1. c \in S \cup {Null}
    BY <1>15
  <2>2. c = r <=> y = p /\ d = o
    <3>1. t[o][p] = r
      BY DEF o
    <3> QED BY <1>1, <1>2, <1>3, <1>4, <1>6, <3>1, OneSide
  <2>3. x = IF c = p THEN 1 ELSE 0
    <3>1. <<y, d>> \in D <=> q # Null /\ y = q /\ d = e
      BY DEF D
    <3>2. c = p => y = q
      BY <1>1, <1>5, <1>6 DEF q
    <3>3. c = p /\ y = q => d = e
      BY <1>5, <1>12 DEF Side, Other
    <3>4. q # Null /\ y = q /\ d = e => c = p
      BY <1>12
    <3> QED BY <1>5, <3>1, <3>2, <3>3, <3>4
  <2>4. Depth(h, c) \in Nat /\ One(t, y) \in Nat /\ h[y] \in Nat /\ x \in Nat
    BY <1>14, <2>1
  <2>5. Depth(k, c) = Depth(h, c) - (IF c = r \/ c = p THEN 1 ELSE 0)
    BY <1>19, <2>1
  <2>6. k[y] = h[y] - (IF y = r \/ y = p THEN 1 ELSE 0)
    BY <1>5, <1>17, <2>4
  <2>7. c # y
    BY <1>5, <1>6
  <2>8. One(u, y) = IF y = r THEN 0 ELSE One(t, y)
    BY <1>18
  <2>9. y = r => One(t, y) = 1
    BY <1>7 DEF One
  <2>10. h[y] = Depth(h, c) + One(t, y) + (IF y = p /\ d = z THEN 1 ELSE 0)
    BY <1>13
  <2>11. y = r => c # p
    <3>1. y = r /\ c = p => p # Null /\ t.parent[p] = r
      BY <1>1, <1>5, <1>6
    <3>2. t.parent[p] # Null => t.parent[p] # r
      BY <1>1, <1>2, <1>3, UpNotChild DEF o
    <3> QED BY <1>3, <3>1, <3>2
  <2> HIDE DEF c, x
  <2>12. k[y] = Depth(k, c) + One(u, y) + x
    BY <1>2, <1>4, <2>2, <2>3, <2>4, <2>5, <2>6, <2>7, <2>8, <2>9, <2>10, <2>11
  <2> QED BY <2>12 DEF c, x
<1>21. \A y \in S : RedPair(u, y) => p \in {y, u.parent[y]}
  <2> SUFFICES ASSUME NEW y \in S, RedPair(u, y), u.parent[y] # p PROVE FALSE
    OBVIOUS
  <2>1. u.color[y] = RED /\ t.parent[y] # Null /\ u.color[t.parent[y]] = RED /\ t.parent[y] # p
    BY <1>10 DEF RedPair
  <2>2. y # r
    BY <1>4, <2>1
  <2>3. t.parent[y] \in S /\ HasChild(t, t.parent[y], y)
    BY <2>1, ParentIs
  <2>4. t.color[y] = RED
    BY <1>5, <1>10, <2>1, <2>2
  <2>5. t.parent[y] # r
    <3>1. ASSUME t.parent[y] = r PROVE FALSE
      <4>1. PICK d \in Side : t[d][r] = y
        BY <2>3, <3>1 DEF HasChild
      <4> QED BY <1>5, <1>7, <2>4, <4>1 DEF rb_black, rb_red
    <3> QED BY <3>1
  <2>6. RedPair(t, y)
    BY <1>5, <1>10, <2>1, <2>3, <2>4, <2>5 DEF RedPair
  <2> QED BY <1>1, <1>5, <2>6 DEF NoRedPair
<1>22. RootBlack(u, p)
  <2> SUFFICES ASSUME t.root # Null PROVE u.color[t.root] = BLACK
    BY <1>10 DEF RootBlack
  <2>1. t.root \in S /\ t.parent[t.root] = Null /\ t.color[t.root] = BLACK
    BY <1>1 DEF RootBlack, Shape, Rooted
  <2>2. t.root # r
    BY <1>1, <1>4, <1>5, <2>1
  <2> QED BY <1>5, <1>10, <2>1, <2>2
<1>23. IF q = Null THEN p = u.root ELSE q \in S /\ u[e][q] = p
  <2>1. q = Null => p = t.root
    BY <1>1, <1>5 DEF q, Shape, Parents
  <2> QED BY <1>10, <1>11, <1>12, <2>1
<1>24. a.node = p /\ a.parent = q /\ a = [op |-> "erase", node |-> a.node, parent |-> a.parent]
  OBVIOUS
<1> HIDE DEF a
<1>25. Erasing(u, S, k, a, e)
  BY <1>1, <1>20, <1>21, <1>22, <1>23, <1>24 DEF Erasing, D
<1>26. Valid(u, S, a)
  BY <1>9, <1>25 DEF Valid
<1> QED BY <1>26 DEF u, a, q

\* A brother with black children: the loop goes on above.
LEMMA FixRecolorKept ==
    ASSUME RbInv, FixRecolor PROVE RbInv'
<1> DEFINE t == BlackBrother
           S == linked
           p == at.parent
           z == FixSide
           r == t[Other(z)][p]
           a == [at EXCEPT !.node = p, !.parent = t.parent[p]]
<1>1. /\ Fixing /\ rb_black(t, t.left[r]) /\ rb_black(t, t.right[r])
      /\ tree' = rb_set_color(t, r, RED) /\ at' = a /\ linked' = S
  BY DEF FixRecolor
<1>2. /\ Blackens(tree, t, S, p, z)
      /\ at = [op |-> "erase", node |-> at.node, parent |-> p]
  BY <1>1, RoundIs
<1>3. a = [op |-> "erase", node |-> p, parent |-> t.parent[p]]
  <2>1. a = Move(at, p, t.parent[p])
    BY DEF Move
  <2> DEFINE n == at.node
  <2>2. at = [op |-> "erase", node |-> n, parent |-> p]
    BY <1>2
  <2> HIDE DEF a, n, p, t
  <2> QED BY <2>1, <2>2, MoveAt
<1> HIDE DEF a, t, z
<1>4. PICK b, h : Shape(t, S, b) /\ Short(t, S, h, p, z)
  BY <1>2 DEF Blackens
<1>5. rb_black(t, r)
  BY <1>2 DEF Blackens
<1>6. Valid(rb_set_color(t, r, RED), S, [op |-> "erase", node |-> p, parent |-> t.parent[p]])
  BY <1>1, <1>4, <1>5, ReddenedIs
<1> QED BY <1>1, <1>3, <1>6 DEF RbInv

\* The brother is black, its outer child red: one rotation is left.
Ready(t, S, p, z) ==
    /\ \E b, h : Shape(t, S, b) /\ Balanced(t, S, h, {<<p, z>>})
    /\ NoRedPair(t, S, Null)
    /\ rb_black(t, t[Other(z)][p])
    /\ rb_red(t, t[Other(z)][t[Other(z)][p]])

\* The rotation that brings the inner red child of the brother out.
Outward(t, p, z) ==
    LET r == t[Other(z)][p]
    IN  IF rb_black(t, t[Other(z)][r])
        THEN Rotate(rb_set_color(rb_set_color(t, t[z][r], BLACK), r, RED), r, Other(z))
        ELSE t

\* The rotation that puts a red child of the brother on the far side.
LEMMA OutwardIs ==
    ASSUME NEW t, NEW S, NEW b, Shape(t, S, b), NEW p, NEW z, NEW h, Short(t, S, h, p, z),
           NEW r, r = t[Other(z)][p], rb_black(t, r),
           rb_red(t, t.left[r]) \/ rb_red(t, t.right[r])
    PROVE  Ready(Outward(t, p, z), S, p, z)
<1> DEFINE o == Other(z)
           c == t[z][r]
           f == t[o][r]
           w == rb_set_color(t, c, BLACK)
           v == rb_set_color(w, r, RED)
           u == Rotate(v, r, o)
<1>1. /\ p \in S /\ z \in Side
      /\ NoRedPair(t, S, Null) /\ Balanced(t, S, h, {<<p, z>>})
  BY DEF Short
<1>2. /\ o \in Side /\ Other(o) = z /\ o # z /\ \A d \in Side : d = z \/ d = o
  BY <1>1, Sides
<1>3. r # Null
  BY <1>1, BrotherIs
<1>4. r \in S /\ r # p /\ t.parent[r] = p
  BY <1>1, <1>2, <1>3, ChildIs, OneSide
<1>5. \A y \in S : y \in Node /\ y # Null
  BY Numbers
<1>6. \A y \in S : ~ RedPair(t, y)
  BY <1>1, <1>5 DEF NoRedPair
<1>7. CASE ~ rb_black(t, f)
  <2>1. Outward(t, p, z) = t /\ rb_red(t, f)
    BY <1>7 DEF Outward, rb_black
  <2> QED BY <1>1, <2>1 DEF Ready
<1>8. CASE rb_black(t, f)
  <2>1. c # Null /\ t.color[c] = RED
    <3>1. rb_red(t, c)
      BY <1>2, <1>8 DEF rb_black, Side
    <3> QED BY <3>1 DEF rb_red
  <2>2. c \in S /\ c # r /\ c # p /\ t.parent[c] = r
    <3>1. c \in S /\ c # r /\ t.parent[c] = r
      BY <1>1, <1>4, <2>1, ChildIs, OneSide
    <3>2. c # p
      BY <1>1, <1>4, <1>5, <2>1, UpNotChild
    <3> QED BY <3>1, <3>2
  <2>3. t.color[r] = BLACK
    <3>1. t.color[r] # RED
      BY <1>3 DEF rb_black, rb_red
    <3>2. t.color[r] \in {RED, BLACK}
      BY <1>4, <1>5 DEF Shape, Trees
    <3> QED BY <3>1, <3>2
  <2> HIDE DEF c, o
  <2>4. SetsColor(t, w, c, BLACK)
    BY <1>5, <2>2, ColorSet DEF Shape
  <2> HIDE DEF w
  <2>5. SetsColor(w, v, r, RED)
    <3>1. w \in Trees /\ RED \in {RED, BLACK}
      BY <2>4 DEF SetsColor
    <3> QED BY <1>4, <1>5, <3>1, ColorSet
  <2> HIDE DEF v
  <2>6. SameLinks(t, v)
    BY <2>4, <2>5 DEF SetsColor, SameLinks
  <2>7. c = t[Other(o)][r]
    BY <1>2 DEF c
  <2>8. Shape(v, S, b) /\ v[Other(o)][r] # Null
    <3>1. Shape(v, S, b)
      BY <2>6, LinksShape
    <3> QED BY <1>1, <1>2, <2>1, <2>6, <2>7, <3>1 DEF SameLinks
  <2>9. Turned(v, u, r, o)
    BY <1>2, <1>4, <2>8, TurnNodes
  <2>10. SameLinks(u, u)
    BY <2>9 DEF Turned, SameLinks
  <2>11. TurnedLinks(t, u, r, o) /\ u.color = v.color /\ \E b2 : Shape(u, S, b2)
    BY <1>2, <1>4, <2>1, <2>6, <2>7, <2>10, TurnedIs
  <2> HIDE DEF u
  <2>12. \A y \in Node : u.color[y] = IF y = r THEN RED ELSE IF y = c THEN BLACK ELSE t.color[y]
    BY <2>2, <2>4, <2>5, <2>11 DEF SetsColor
  <2>13. Swapped(t, u, r, c)
    BY <2>3, <2>12 DEF Swapped
  <2>14. Balanced(u, S, SwappedHeights(h, r, c), {<<p, z>>})
    <3>1. <<r, Other(o)>> \notin {<<p, z>>} /\ \A d \in Side : <<c, d>> \notin {<<p, z>>}
      BY <1>4, <2>2
    <3> QED BY <1>1, <1>2, <1>4, <2>1, <2>7, <2>11, <2>13, <3>1, SwapBalanced
  <2>15. NoRedPair(u, S, Null)
    <3> SUFFICES ASSUME NEW y \in S, RedPair(u, y) PROVE FALSE
      BY DEF NoRedPair
    <3>1. \/ t.color[r] = RED /\ y \in {r, c, t[Other(o)][c]}
          \/ t.color[y] = RED /\ y \in {t[o][c], t[o][r]}
          \/ RedPair(t, y) /\ t.parent[y] \notin {r, c}
      BY <1>2, <1>4, <2>1, <2>7, <2>11, <2>13, SwapPairs
    <3>2. t.color[r] # RED
      BY <2>3 DEF RED, BLACK
    <3>3. ASSUME t.color[y] = RED, y = f PROVE FALSE
      BY <1>5, <1>8, <3>3 DEF rb_black, rb_red
    <3>4. ASSUME t.color[y] = RED, y = t[o][c] PROVE FALSE
      <4>1. \A x \in S : t[o][x] # Null => t.parent[t[o][x]] = x
        BY <1>2, ChildIs
      <4>2. t.parent[y] = c
        BY <1>5, <2>2, <3>4, <4>1
      <4> QED BY <1>6, <2>1, <3>4, <4>2 DEF RedPair
    <3> QED BY <1>6, <3>1, <3>2, <3>3, <3>4
  <2>16. \A y \in Node, d \in Side :
             u[d][y] = IF y = c THEN (IF d = o THEN r ELSE t[d][y])
                       ELSE IF y = r THEN (IF d = z THEN t[o][c] ELSE t[d][y])
                       ELSE IF y = t.parent[r] /\ t[d][t.parent[r]] = r THEN c
                       ELSE t[d][y]
    BY <1>2, <2>7, <2>11 DEF TurnedLinks
  <2>17. u[o][p] = c /\ u[o][c] = r
    <3>1. t[o][p] = r
      BY DEF o
    <3> QED BY <1>1, <1>2, <1>4, <1>5, <2>2, <2>16, <3>1
  <2>18. rb_black(u, c) /\ rb_red(u, r)
    BY <1>3, <1>4, <1>5, <2>1, <2>2, <2>12 DEF rb_black, rb_red, RED, BLACK
  <2>19. Ready(u, S, p, z)
    BY <2>11, <2>14, <2>15, <2>17, <2>18 DEF Ready, o
  <2>20. Outward(t, p, z) = u
    BY <1>8 DEF Outward, u, v, w, c, o
  <2> QED BY <2>19, <2>20
<1> QED BY <1>7, <1>8

\* The last rotation and its colors.
Settle(t, p, z) ==
    LET r == t[Other(z)][p]
        v == rb_set_color(rb_set_color(t, r, t.color[p]), p, BLACK)
        f == v[Other(z)][r]
        w == IF f = Null THEN v ELSE rb_set_color(v, f, BLACK)
        u == Rotate(w, p, z)
    IN  rb_set_color(u, u.root, BLACK)

\* The last rotation gives the short side the black node it misses.
LEMMA SettleIs ==
    ASSUME NEW t, NEW S, NEW p \in S, NEW z \in Side, Ready(t, S, p, z)
    PROVE  Valid(Settle(t, p, z), S, Idle)
<1> DEFINE o == Other(z)
           r == t[o][p]
           f == t[o][r]
           m == t[z][r]
           q == t.parent[p]
           x == rb_set_color(t, r, t.color[p])
           v == rb_set_color(x, p, BLACK)
           w == rb_set_color(v, f, BLACK)
           u == Rotate(w, p, z)
<1>1. PICK b, h : Shape(t, S, b) /\ Balanced(t, S, h, {<<p, z>>})
  BY DEF Ready
<1>2. NoRedPair(t, S, Null) /\ rb_black(t, r) /\ rb_red(t, f)
  BY DEF Ready
<1>3. /\ o \in Side /\ Other(o) = z /\ o # z /\ \A d \in Side : d = z \/ d = o
  BY Sides
<1>4. r # Null /\ f # Null /\ t.color[f] = RED /\ t.color[r] # RED
  <2>1. r # Null
    BY <1>1, BrotherIs
  <2> QED BY <1>2, <2>1 DEF rb_black, rb_red
<1>5. r \in S /\ r # p /\ t.parent[r] = p
  BY <1>1, <1>3, <1>4, ChildIs, OneSide
<1>6. f \in S /\ f # r /\ f # m /\ t.parent[f] = r
  BY <1>1, <1>3, <1>4, <1>5, ChildIs, OneSide
<1>7. \A y \in S : y \in Node /\ y # Null
  BY <1>1, Numbers
<1>8. \A y \in S : ~ RedPair(t, y)
  BY <1>2, <1>7 DEF NoRedPair
<1>9. f # p
  BY <1>1, <1>3, <1>4, <1>5, <1>6, <1>7, UpNotChild
<1> HIDE DEF o, f, q
<1>10. t.color[r] = BLACK /\ t.color[p] \in {RED, BLACK}
  BY <1>1, <1>4, <1>5, <1>7 DEF Shape, Trees
<1>11. SetsColor(t, x, r, t.color[p])
  BY <1>1, <1>5, <1>7, <1>10, ColorSet DEF Shape
<1> HIDE DEF x
<1>12. SetsColor(x, v, p, BLACK)
  <2>1. x \in Trees /\ BLACK \in {RED, BLACK}
    BY <1>11 DEF SetsColor
  <2> QED BY <1>7, <2>1, ColorSet
<1> HIDE DEF v
<1>13. SetsColor(v, w, f, BLACK)
  <2>1. v \in Trees /\ BLACK \in {RED, BLACK}
    BY <1>12 DEF SetsColor
  <2> QED BY <1>6, <1>7, <2>1, ColorSet
<1> HIDE DEF w
<1>14. SameLinks(t, v) /\ SameLinks(t, w)
  BY <1>11, <1>12, <1>13 DEF SetsColor, SameLinks
<1>15. Shape(w, S, b) /\ w[Other(z)][p] # Null
  <2>1. Shape(w, S, b)
    BY <1>1, <1>14, LinksShape
  <2> QED BY <1>3, <1>4, <1>14, <2>1 DEF SameLinks, o
<1>16. Turned(w, u, p, z)
  BY <1>15, TurnNodes
<1>17. SameLinks(u, u)
  BY <1>16 DEF Turned, SameLinks
<1>18. TurnedLinks(t, u, p, z) /\ u.color = w.color /\ \E b2 : Shape(u, S, b2)
  BY <1>1, <1>4, <1>14, <1>17, TurnedIs DEF o
<1> HIDE DEF u
<1>19. \A y \in Node : u.color[y] = IF y = p \/ y = f THEN BLACK
                                    ELSE IF y = r THEN t.color[p] ELSE t.color[y]
  <2> HIDE DEF r
  <2> QED BY <1>5, <1>6, <1>9, <1>11, <1>12, <1>13, <1>18 DEF SetsColor
<1>20. Settled(t, u, p, r, f)
  BY <1>19 DEF Settled
<1>21. \E g : Balanced(u, S, g, {})
  <2>1. r = t[Other(z)][p] /\ f = t[Other(z)][r]
    BY DEF o, f
  <2> QED BY <1>1, <1>4, <1>10, <1>18, <1>20, <2>1, SettleBalanced
<1>22. \A y \in Node : u.parent[y] = IF y = p THEN r ELSE IF y = r THEN q
                                    ELSE IF y = m THEN p ELSE t.parent[y]
  BY <1>18 DEF TurnedLinks, o, q
<1>23. NoRedPair(u, S, Null)
  <2> SUFFICES ASSUME NEW y \in S, RedPair(u, y) PROVE FALSE
    BY DEF NoRedPair
  <2>1. u.color[y] = RED /\ u.parent[y] # Null /\ u.color[u.parent[y]] = RED
    BY DEF RedPair
  <2>2. y # p /\ y # f
    BY <1>7, <1>19, <2>1 DEF RED, BLACK
  <2>3. u.color[p] # RED /\ u.color[f] # RED
    BY <1>6, <1>7, <1>19 DEF RED, BLACK
  <2> HIDE DEF r
  <2>4. CASE y = r
    <3>1. q # Null /\ u.color[q] = RED /\ t.color[p] = RED
      BY <1>5, <1>7, <1>19, <1>22, <2>1, <2>2, <2>4
    <3>2. q \in S /\ q # r
      <4>1. q \in S
        BY <1>1, <3>1, ParentIs DEF q
      <4>2. q # r
        BY <1>1, <1>3, <1>4, <3>1, UpNotChild DEF q, r
      <4> QED BY <4>1, <4>2
    <3>3. q # p /\ q # f
      BY <2>3, <3>1
    <3>4. t.color[q] = RED
      BY <1>7, <1>19, <3>1, <3>2, <3>3
    <3> QED BY <1>8, <3>1, <3>4 DEF RedPair, q
  <2>5. CASE y # r
    <3>1. t.color[y] = RED
      BY <1>7, <1>19, <2>1, <2>2, <2>5
    <3>2. y # m
      BY <1>7, <1>22, <2>1, <2>2, <2>3, <2>5
    <3>3. u.parent[y] = t.parent[y]
      BY <1>7, <1>22, <2>2, <2>5, <3>2
    <3>4. t.parent[y] \in S /\ HasChild(t, t.parent[y], y)
      BY <1>1, <2>1, <3>3, ParentIs
    <3>5. t.parent[y] # r
      <4>1. ASSUME t.parent[y] = r PROVE FALSE
        <5>1. PICK d \in Side : t[d][r] = y
          BY <3>4, <4>1 DEF HasChild
        <5> QED BY <1>3, <2>2, <3>2, <5>1 DEF f
      <4> QED BY <4>1
    <3>6. t.parent[y] # p /\ t.parent[y] # f
      BY <2>1, <2>3, <3>3
    <3>7. t.color[t.parent[y]] = RED
      BY <1>7, <1>19, <2>1, <3>3, <3>4, <3>5, <3>6
    <3> QED BY <1>7, <1>8, <3>1, <3>4, <3>7 DEF RedPair
  <2> QED BY <2>4, <2>5
<1>24. Valid(rb_set_color(u, u.root, BLACK), S, Idle)
  BY <1>18, <1>21, <1>23, RootDone
<1>25. Settle(t, p, z) = rb_set_color(u, u.root, BLACK)
  <2>1. v[o][r] = f
    BY <1>3, <1>14 DEF SameLinks, f
  <2> QED BY <1>4, <2>1 DEF Settle, u, w, v, x, o
<1> QED BY <1>24, <1>25

\* A brother with a red child: rb_erase_fix() ends with the tree red-black.
LEMMA FixRotateKept ==
    ASSUME RbInv, FixRotate PROVE RbInv'
<1> DEFINE t == BlackBrother
           S == linked
           p == at.parent
           z == FixSide
           r == t[Other(z)][p]
           u == Outward(t, p, z)
<1>1. /\ Fixing /\ (rb_red(t, t.left[r]) \/ rb_red(t, t.right[r]))
      /\ at' = Idle /\ linked' = S
  BY Zenon DEF FixRotate
<1>2. tree' = Settle(u, p, z)
  BY Zenon DEF FixRotate, Settle, Outward
<1>3. Blackens(tree, t, S, p, z)
  BY <1>1, RoundIs
<1> HIDE DEF t, z
<1>4. PICK b, h : Shape(t, S, b) /\ Short(t, S, h, p, z)
  BY <1>3 DEF Blackens
<1>5. rb_black(t, r)
  BY <1>3 DEF Blackens
<1>6. p \in S /\ z \in Side
  BY <1>4 DEF Short
<1>7. Ready(u, S, p, z)
  BY <1>1, <1>4, <1>5, OutwardIs
<1> HIDE DEF u
<1>8. Valid(Settle(u, p, z), S, Idle)
  BY <1>6, <1>7, SettleIs
<1> QED BY <1>1, <1>2, <1>8 DEF RbInv

\* rb_erase_fix() ends at a red node or at the root, which becomes black.
LEMMA FixDoneKept ==
    ASSUME RbInv, FixDone PROVE RbInv'
<1> DEFINE t == tree
           S == linked
           n == at.node
           p == at.parent
           u == rb_set_color(t, n, BLACK)
<1>1. /\ at.op = "erase" /\ (rb_red(t, n) \/ n = t.root)
      /\ tree' = (IF n = Null THEN t ELSE u) /\ at' = Idle /\ linked' = S
  BY DEF FixDone, Fixing, rb_black
<1>2. PICK b, h : Shape(t, S, b) /\ \E z \in Side : Erasing(t, S, h, at, z)
  BY <1>1, InErase DEF FixDone
<1>3. PICK z \in Side : Erasing(t, S, h, at, z)
  BY <1>2
<1>4. /\ n \in S \cup {Null}
      /\ IF p = Null THEN n = t.root ELSE p \in S /\ t[z][p] = n
      /\ \A x \in S : RedPair(t, x) => n \in {x, t.parent[x]}
      /\ RootBlack(t, n)
      /\ Balanced(t, S, h, IF p = Null THEN {} ELSE {<<p, z>>})
  BY <1>3 DEF Erasing
<1>5. \A y \in S : y \in Node /\ y # Null
  BY <1>2, Numbers
<1> HIDE DEF t, S, n, p
<1>6. CASE n = Null
  <2>1. t.root = Null /\ S = {}
    BY <1>1, <1>2, <1>6 DEF Shape, Rooted, rb_red
  <2>2. NoRedPair(t, S, Null) /\ RootBlack(t, Null)
    BY <2>1 DEF NoRedPair, RootBlack
  <2>3. Balanced(t, S, h, {})
    BY <1>4, <2>1 DEF Balanced
  <2>4. Valid(t, S, Idle)
    BY <1>2, <2>2, <2>3 DEF Valid, Resting
  <2> QED BY <1>1, <1>6, <2>4 DEF RbInv, S
<1>7. CASE n # Null
  <2>1. n \in S
    BY <1>4, <1>7
  <2>2. SetsColor(t, u, n, BLACK)
    BY <1>2, <1>5, <2>1, ColorSet DEF Shape
  <2> HIDE DEF u
  <2>3. Shape(u, S, b)
    BY <1>2, <2>2, ColorLinks, LinksShape
  <2>4. /\ u.root = t.root /\ u.parent = t.parent
        /\ \A y \in Node : u.color[y] = IF y = n THEN BLACK ELSE t.color[y]
    BY <2>2 DEF SetsColor
  <2>5. t.root # Null /\ t.parent[t.root] = Null
    BY <1>2, <2>1 DEF Shape, Rooted
  <2>6. \E g : Balanced(u, S, g, {})
    <3>1. CASE p = Null
      <4>1. t.parent[n] = Null /\ Balanced(t, S, h, {})
        BY <1>4, <2>5, <3>1
      <4> QED BY <1>2, <2>1, <2>2, <4>1, Blackened
    <3>2. CASE p # Null
      <4>1. p \in S /\ t[z][p] = n /\ Balanced(t, S, h, {<<p, z>>})
        BY <1>4, <3>2
      <4>2. t.parent[n] = p
        BY <1>2, <1>7, <4>1, ChildIs
      <4>3. t.color[n] = RED
        BY <1>1, <2>5, <3>2, <4>2 DEF rb_red
      <4> QED BY <1>2, <2>1, <2>2, <3>2, <4>1, <4>2, <4>3, Blackened
    <3> QED BY <3>1, <3>2
  <2>7. NoRedPair(u, S, Null)
    <3> SUFFICES ASSUME NEW y \in S, RedPair(u, y) PROVE FALSE
      BY DEF NoRedPair
    <3>1. u.color[y] = RED /\ u.parent[y] # Null /\ u.color[u.parent[y]] = RED
      BY DEF RedPair
    <3>2. t.parent[y] \in S
      BY <1>2, <2>4, <3>1, ParentIs
    <3>3. y # n /\ t.parent[y] # n
      BY <1>5, <2>1, <2>4, <3>1 DEF RED, BLACK
    <3>4. RedPair(t, y)
      BY <1>5, <2>4, <3>1, <3>2, <3>3 DEF RedPair
    <3> QED BY <1>4, <3>3, <3>4
  <2>8. RootBlack(u, Null)
    <3>1. t.root \in S
      BY <1>2, <2>5 DEF Shape, Rooted
    <3> QED BY <1>4, <1>5, <2>4, <3>1 DEF RootBlack
  <2>9. Valid(u, S, Idle)
    BY <2>3, <2>6, <2>7, <2>8 DEF Valid, Resting
  <2> QED BY <1>1, <1>7, <2>9 DEF RbInv, S
<1> QED BY <1>6, <1>7

-----------------------------------------------------------------------------
(* New nodes *)

\* u is t with x, a red node without children, as the child of p on side s.
Attached(t, u, x, p, s) ==
    /\ u \in Trees /\ u.root = t.root
    /\ \A y \in Node : /\ u.parent[y] = IF y = x THEN p ELSE t.parent[y]
                       /\ u.color[y] = IF y = x THEN RED ELSE t.color[y]
    /\ \A y \in Node, z \in Side :
         u[z][y] = IF y = p /\ z = s THEN x ELSE IF y = x THEN Null ELSE t[z][y]

AttachedBounds(b, x, p, s) ==
    [z \in Side |-> [y \in Node |->
        IF y = x THEN (IF z = s THEN b[s][p] ELSE p) ELSE b[z][y]]]

\* The place of x: next to p, where p has no child.
Vacant(t, S, x, p, s) ==
    /\ p \in S /\ s \in Side /\ t[s][p] = Null /\ On(s, x, p)
    /\ \A y \in S : ~ (On(s, x, y) /\ On(s, y, p))

\* A new leaf at its place keeps the order.
LEMMA AttachShape ==
    ASSUME NEW t, NEW S, NEW b, Shape(t, S, b), NEW x \in Node \ S, NEW p, NEW s,
           Vacant(t, S, x, p, s), NEW u, Attached(t, u, x, p, s)
    PROVE  Shape(u, S \cup {x}, AttachedBounds(b, x, p, s))
<1> DEFINE o == Other(s)
           V == S \cup {x}
           k == AttachedBounds(b, x, p, s)
<1>1. /\ p \in S /\ s \in Side /\ t[s][p] = Null /\ On(s, x, p)
      /\ \A y \in S : ~ (On(s, x, y) /\ On(s, y, p))
  BY DEF Vacant
<1>2. /\ o \in Side /\ o # s /\ Other(o) = s /\ \A z \in Side : z = s \/ z = o
      /\ \A y, w \in Int : On(o, y, w) <=> On(s, w, y)
  BY <1>1, Sides
<1>3. /\ \A y \in S : /\ y \in Node /\ y \in Int /\ y # Null /\ y # x
                      /\ \A z \in Side : b[z][y] \in Int /\ b[z][y] # y
                      /\ b["left"][y] < y /\ y < b["right"][y]
      /\ x \in Int /\ x # Null /\ 0 < x /\ x < N + 1
  BY Numbers, RbAssumption DEF Node, Null
<1>4. /\ u \in Trees /\ u.root = t.root
      /\ \A y \in Node : u.parent[y] = IF y = x THEN p ELSE t.parent[y]
      /\ \A y \in Node, z \in Side :
           u[z][y] = IF y = p /\ z = s THEN x ELSE IF y = x THEN Null ELSE t[z][y]
  BY DEF Attached
<1>5. \A y \in Node, z \in Side :
        k[z][y] = IF y = x THEN (IF z = s THEN b[s][p] ELSE p) ELSE b[z][y]
  BY DEF AttachedBounds
<1>6. \A y \in S, z \in Side : t[z][y] # Null =>
        /\ t[z][y] \in S /\ t.parent[t[z][y]] = y
        /\ b[z][t[z][y]] = b[z][y] /\ b[Other(z)][t[z][y]] = y
  BY ChildIs
<1>7. k \in Bounds
  <2>1. \A z \in Side, y \in Node : b[z][y] \in 0 .. N + 1
    BY DEF Shape, Bounds
  <2>2. p \in 0 .. N + 1 /\ p \in Node
    BY <1>1, <1>3, RbAssumption DEF Node
  <2>3. \A z \in Side, y \in Node :
          (IF y = x THEN (IF z = s THEN b[s][p] ELSE p) ELSE b[z][y]) \in 0 .. N + 1
    BY <1>1, <2>1, <2>2
  <2> QED BY <2>3 DEF Bounds, AttachedBounds
<1> HIDE DEF k, o
<1>8. \A y \in S, z \in Side : k[z][y] = b[z][y]
  BY <1>3, <1>5
<1>9. k[s][x] = b[s][p] /\ k[o][x] = p
  BY <1>2, <1>1, <1>5
<1>10. Rooted(u, V, k)
  <2>1. t.root \in S /\ t.root # Null /\ t.parent[t.root] = Null
        /\ b["left"][t.root] = 0 /\ b["right"][t.root] = N + 1
    BY <1>1 DEF Shape, Rooted
  <2>2. u.parent[t.root] = Null /\ k["left"][t.root] = 0 /\ k["right"][t.root] = N + 1
    BY <1>3, <1>4, <1>8, <2>1 DEF Side
  <2> QED BY <1>4, <2>1, <2>2 DEF Rooted
<1>11. Children(u, V, k)
  <2> SUFFICES ASSUME NEW y \in V, NEW z \in Side, u[z][y] # Null
               PROVE  /\ u[z][y] \in V /\ u.parent[u[z][y]] = y
                      /\ k[z][u[z][y]] = k[z][y] /\ k[Other(z)][u[z][y]] = y
    BY DEF Children
  <2>0. Other(z) \in Side
    BY Sides
  <2>1. CASE y = p /\ z = s
    BY <1>1, <1>3, <1>4, <1>8, <1>9, <2>1 DEF o
  <2>2. CASE ~ (y = p /\ z = s)
    <3>1. y # x
      BY <1>3, <1>4, <2>2
    <3>2. y \in S /\ u[z][y] = t[z][y]
      BY <1>3, <1>4, <2>2, <3>1
    <3>3. t[z][y] \in S /\ t[z][y] # x /\ t.parent[t[z][y]] = y
      BY <1>3, <1>6, <3>2
    <3>4. u.parent[t[z][y]] = y
      BY <1>3, <1>4, <3>3
    <3>5. k[z][t[z][y]] = k[z][y] /\ k[Other(z)][t[z][y]] = y
      BY <1>6, <1>8, <2>0, <3>2, <3>3
    <3> QED BY <3>2, <3>3, <3>4, <3>5
  <2> QED BY <2>1, <2>2
<1>12. Parents(u, V)
  <2> SUFFICES ASSUME NEW y \in V, y # u.root
               PROVE  u.parent[y] \in V /\ \E z \in Side : u[z][u.parent[y]] = y
    BY DEF Parents
  <2>1. CASE y = x
    BY <1>1, <1>3, <1>4, <2>1
  <2>2. CASE y # x
    <3>1. PICK z \in Side : t.parent[y] \in S /\ t[z][t.parent[y]] = y
      BY <1>4, <2>2 DEF Shape, Parents
    <3>2. u.parent[y] = t.parent[y]
      BY <1>3, <1>4, <2>2
    <3>3. u[z][t.parent[y]] = y
      BY <1>1, <1>3, <1>4, <2>2, <3>1
    <3> QED BY <3>1, <3>2, <3>3
  <2> QED BY <2>1, <2>2
<1>13. Within(V, k)
  <2>1. \A y \in S : /\ b["left"][y] \in S \cup {0} /\ b["right"][y] \in S \cup {N + 1}
    BY DEF Shape, Within
  <2>2. CASE s = "left"
    <3>1. /\ k["left"][x] = b["left"][p] /\ k["right"][x] = p /\ x < p
          /\ \A y \in S : ~ (x < y /\ y < p)
      BY <1>1, <1>9, <2>2 DEF On, o, Other
    <3>2. b["left"][p] < x
      BY <1>1, <1>3, <2>1, <3>1
    <3> QED BY <1>1, <1>3, <1>8, <2>1, <3>1, <3>2 DEF Within, Side
  <2>3. CASE s = "right"
    <3>1. /\ k["right"][x] = b["right"][p] /\ k["left"][x] = p /\ p < x
          /\ \A y \in S : ~ (p < y /\ y < x)
      BY <1>1, <1>9, <2>3 DEF On, o, Other
    <3>2. x < b["right"][p]
      BY <1>1, <1>3, <2>1, <3>1
    <3> QED BY <1>1, <1>3, <1>8, <2>1, <3>1, <3>2 DEF Within, Side
  <2> QED BY <1>1, <2>2, <2>3 DEF Side
<1>14. Void(t, S, b) /\ Nested(S, b)
  BY DEF Shape
<1>15. \A y \in S : b["left"][y] \in S \cup {0} /\ b["right"][y] \in S \cup {N + 1}
  BY DEF Shape, Within
<1>16. CASE s = "left"
  <2>1. /\ k["left"][x] = b["left"][p] /\ k["right"][x] = p /\ x < p
        /\ \A y \in S : ~ (x < y /\ y < p)
        /\ \A y \in S : k["left"][y] = b["left"][y] /\ k["right"][y] = b["right"][y]
    BY <1>1, <1>8, <1>9, <1>16 DEF On, o, Other, Side
  <2>2. \A y \in S : y < p => ~ (b["left"][p] < y)
    BY <1>1, <1>14, <1>16 DEF Void, On, Side
  <2>3. b["left"][p] < x
    BY <1>1, <1>3, <1>15, <2>1
  <2>4. \A y \in S : b["left"][y] \in Int /\ b["right"][y] \in Int
    BY <1>3 DEF Side
  <2>5. Nested(V, k)
    BY <1>1, <1>3, <1>14, <2>1, <2>2, <2>3, <2>4 DEF Nested
  <2>6. \A y \in S : b["left"][y] < x /\ x < y /\ y # p => t["left"][y] # Null
    BY <1>1, <1>3, <1>14, <2>1, <2>3, <2>4 DEF Void, On, Side
  <2>7. \A y \in S : ~ (y < x /\ x < b["right"][y] /\ t["right"][y] = Null)
    <3> SUFFICES ASSUME NEW y \in S, y < x, x < b["right"][y], t["right"][y] = Null PROVE FALSE
      OBVIOUS
    <3>1. y < p /\ y <= b["left"][p] /\ ~ (p < b["right"][y])
      BY <1>1, <1>3, <1>14, <2>1, <2>2, <2>4 DEF Void, On, Side
    <3>2. b["right"][y] <= b["left"][p] \/ b["right"][p] <= b["right"][y] \/ b["left"][p] <= b["left"][y]
      BY <1>1, <1>14, <3>1 DEF Nested
    <3> QED BY <1>1, <1>3, <2>3, <2>4, <3>1, <3>2
  <2>8. Void(u, V, k)
    <3> SUFFICES ASSUME NEW y \in V, NEW w \in V, NEW z \in Side, On(z, w, y), On(z, k[z][y], w)
                 PROVE  u[z][y] # Null
      BY DEF Void
    <3>1. CASE y = x
      <4>1. w \in S
        BY <1>3, <3>1 DEF On
      <4>2. CASE z = "left"
        BY <1>1, <1>3, <2>1, <2>2, <3>1, <4>1, <4>2 DEF On
      <4>3. CASE z = "right"
        BY <1>3, <2>1, <3>1, <4>1, <4>3 DEF On
      <4> QED BY <4>2, <4>3 DEF Side
    <3>2. CASE y \in S /\ w \in S
      BY <1>3, <1>4, <1>8, <1>14, <3>2 DEF Void
    <3>3. CASE y \in S /\ w = x
      <4>1. CASE z = "left"
        BY <1>3, <1>4, <1>16, <2>1, <2>6, <3>3, <4>1 DEF On
      <4>2. CASE z = "right"
        BY <2>1, <2>7, <1>3, <1>4, <3>3, <4>2 DEF On
      <4> QED BY <4>1, <4>2 DEF Side
    <3> QED BY <3>1, <3>2, <3>3
  <2> QED BY <1>4, <1>7, <1>10, <1>11, <1>12, <1>13, <2>5, <2>8 DEF Shape, k
<1>17. CASE s = "right"
  <2>1. /\ k["right"][x] = b["right"][p] /\ k["left"][x] = p /\ p < x
        /\ \A y \in S : ~ (p < y /\ y < x)
        /\ \A y \in S : k["left"][y] = b["left"][y] /\ k["right"][y] = b["right"][y]
    BY <1>1, <1>8, <1>9, <1>17 DEF On, o, Other, Side
  <2>2. \A y \in S : p < y => ~ (y < b["right"][p])
    BY <1>1, <1>14, <1>17 DEF Void, On, Side
  <2>3. x < b["right"][p]
    BY <1>1, <1>3, <1>15, <2>1
  <2>4. \A y \in S : b["left"][y] \in Int /\ b["right"][y] \in Int
    BY <1>3 DEF Side
  <2>5. Nested(V, k)
    BY <1>1, <1>3, <1>14, <2>1, <2>2, <2>3, <2>4 DEF Nested
  <2>6. \A y \in S : y < x /\ x < b["right"][y] /\ y # p => t["right"][y] # Null
    BY <1>1, <1>3, <1>14, <2>1, <2>3, <2>4 DEF Void, On, Side
  <2>7. \A y \in S : ~ (b["left"][y] < x /\ x < y /\ t["left"][y] = Null)
    <3> SUFFICES ASSUME NEW y \in S, b["left"][y] < x, x < y, t["left"][y] = Null PROVE FALSE
      OBVIOUS
    <3>1. p < y /\ b["right"][p] <= y /\ ~ (b["left"][y] < p)
      BY <1>1, <1>3, <1>14, <2>1, <2>2, <2>4 DEF Void, On, Side
    <3>2. b["right"][p] <= b["left"][y] \/ b["right"][y] <= b["right"][p] \/ b["left"][y] <= b["left"][p]
      BY <1>1, <1>14, <3>1 DEF Nested
    <3> QED BY <1>1, <1>3, <2>3, <2>4, <3>1, <3>2
  <2>8. Void(u, V, k)
    <3> SUFFICES ASSUME NEW y \in V, NEW w \in V, NEW z \in Side, On(z, w, y), On(z, k[z][y], w)
                 PROVE  u[z][y] # Null
      BY DEF Void
    <3>1. CASE y = x
      <4>1. w \in S
        BY <1>3, <3>1 DEF On
      <4>2. CASE z = "right"
        BY <1>1, <1>3, <2>1, <2>2, <3>1, <4>1, <4>2 DEF On
      <4>3. CASE z = "left"
        BY <1>3, <2>1, <3>1, <4>1, <4>3 DEF On
      <4> QED BY <4>2, <4>3 DEF Side
    <3>2. CASE y \in S /\ w \in S
      BY <1>3, <1>4, <1>8, <1>14, <3>2 DEF Void
    <3>3. CASE y \in S /\ w = x
      <4>1. CASE z = "right"
        BY <1>3, <1>4, <1>17, <2>1, <2>6, <3>3, <4>1 DEF On
      <4>2. CASE z = "left"
        BY <2>1, <2>7, <1>3, <1>4, <3>3, <4>2 DEF On
      <4> QED BY <4>1, <4>2 DEF Side
    <3> QED BY <3>1, <3>2, <3>3
  <2> QED BY <1>4, <1>7, <1>10, <1>11, <1>12, <1>13, <2>5, <2>8 DEF Shape, k
<1> QED BY <1>1, <1>16, <1>17 DEF Side

\* The nearest node on a side.
LEMMA Nearest ==
    ASSUME NEW S \in SUBSET Node, NEW x \in Int, NEW s \in Side, \E y \in S : On(s, y, x)
    PROVE  \E y \in S : On(s, y, x) /\ \A w \in S : ~ (On(s, y, w) /\ On(s, w, x))
<1>1. \A y \in S : y \in Nat /\ y <= N /\ N - y \in Nat
  <2> TAKE y \in S
  <2>1. y \in 1 .. N /\ N \in Nat
    BY RbAssumption DEF Node
  <2> QED BY <2>1
<1>2. CASE s = "left"
  <2> DEFINE T == {N - y : y \in {w \in S : w < x}}
  <2>1. T \in SUBSET Nat /\ T # {}
    BY <1>1, <1>2 DEF On
  <2> HIDE DEF T
  <2>2. Min(T) \in T /\ \A i \in T : Min(T) <= i
    BY <2>1, LeastOf
  <2>3. PICK y \in S : y < x /\ Min(T) = N - y
    BY <2>2 DEF T
  <2>4. \A w \in S : w < x => N - y <= N - w
    BY <2>2, <2>3 DEF T
  <2>5. \A w \in S : w < x => w <= y
    BY <1>1, <2>3, <2>4, RbAssumption
  <2> QED BY <1>1, <1>2, <2>3, <2>5 DEF On
<1>3. CASE s = "right"
  <2> DEFINE T == {w \in S : x < w}
  <2>1. T \in SUBSET Nat /\ T # {}
    BY <1>1, <1>3 DEF On
  <2> HIDE DEF T
  <2>2. Min(T) \in T /\ \A i \in T : Min(T) <= i
    BY <2>1, LeastOf
  <2>3. PICK y \in T : \A i \in T : y <= i
    BY <2>2
  <2> QED BY <1>1, <1>3, <2>3 DEF On, T
<1> QED BY <1>2, <1>3 DEF Side

\* There is a place for a new node, so that the search ends at one.
LEMMA VacantExists ==
    ASSUME NEW t, NEW S, NEW b, Shape(t, S, b), S # {}, NEW x \in Node \ S
    PROVE  \E p \in S, s \in Side : Vacant(t, S, x, p, s)
<1>1. /\ S \in SUBSET Node /\ x \in Int
      /\ \A y \in S : /\ y \in Int /\ y # x
                      /\ \A z \in Side : b[z][y] \in Int
                      /\ b["left"][y] < y /\ y < b["right"][y]
  <2>1. S \in SUBSET Node
    BY DEF Shape
  <2>2. x \in Int
    BY DEF Node
  <2>3. \A y \in S : /\ y \in Int /\ b["left"][y] < y /\ y < b["right"][y]
                     /\ \A z \in Side : b[z][y] \in Int
    BY Numbers
  <2>4. \A y \in S : y # x
    OBVIOUS
  <2> QED BY <2>1, <2>2, <2>3, <2>4
<1>2. \A y \in S, z \in Side : t[z][y] # Null =>
        t[z][y] \in S /\ On(z, t[z][y], y) /\ On(z, b[z][y], t[z][y])
  BY ChildIs
<1>3. Nested(S, b)
  BY DEF Shape
<1>4. ASSUME NEW s \in Side, \A y \in S : ~ On(Other(s), y, x), \E y \in S : On(s, y, x)
      PROVE  \E p \in S, z \in Side : Vacant(t, S, x, p, z)
  <2> DEFINE o == Other(s)
  <2>1. /\ o \in Side /\ \A y, w \in Int : On(o, y, w) <=> On(s, w, y)
        /\ \A y, w \in Int : y # w => On(s, y, w) \/ On(s, w, y)
    BY Sides
  <2>2. PICK p \in S : On(s, p, x) /\ \A w \in S : ~ (On(s, p, w) /\ On(s, w, x))
    BY <1>1, <1>4, Nearest
  <2>3. t[o][p] = Null
    <3>1. ASSUME t[o][p] # Null PROVE FALSE
      <4>1. t[o][p] \in S /\ On(o, t[o][p], p)
        BY <1>2, <2>1, <3>1
      <4>2. On(s, p, t[o][p]) /\ ~ On(s, x, t[o][p])
        BY <1>1, <1>4, <2>1, <4>1
      <4> QED BY <1>1, <2>1, <2>2, <4>1, <4>2
    <3> QED BY <3>1
  <2>4. On(o, x, p) /\ \A w \in S : ~ (On(o, x, w) /\ On(o, w, p))
    BY <1>1, <2>1, <2>2
  <2> QED BY <2>1, <2>3, <2>4 DEF Vacant
<1>5. ASSUME \E y \in S : y < x, \E y \in S : x < y
      PROVE  \E p \in S, z \in Side : Vacant(t, S, x, p, z)
  <2>1. PICK l \in S : l < x /\ \A w \in S : ~ (l < w /\ w < x)
    <3>1. \E y \in S : On("left", y, x)
      BY <1>5 DEF On
    <3>2. \E y \in S : On("left", y, x) /\ \A w \in S : ~ (On("left", y, w) /\ On("left", w, x))
      BY <1>1, <3>1, Nearest DEF Side
    <3> QED BY <3>2 DEF On
  <2>2. PICK r \in S : x < r /\ \A w \in S : ~ (w < r /\ x < w)
    <3>1. \E y \in S : On("right", y, x)
      BY <1>5 DEF On
    <3>2. \E y \in S : On("right", y, x) /\ \A w \in S : ~ (On("right", y, w) /\ On("right", w, x))
      BY <1>1, <3>1, Nearest DEF Side
    <3> QED BY <3>2 DEF On
  <2>3. CASE t["left"][r] = Null
    <3>1. Vacant(t, S, x, r, "left")
      BY <2>2, <2>3 DEF Vacant, On, Side
    <3> QED BY <3>1 DEF Side
  <2>4. CASE t["right"][l] = Null
    <3>1. Vacant(t, S, x, l, "right")
      BY <2>1, <2>4 DEF Vacant, On, Side
    <3> QED BY <3>1 DEF Side
  <2>5. ASSUME t["left"][r] # Null, t["right"][l] # Null PROVE FALSE
    <3> DEFINE c == t["left"][r]
               d == t["right"][l]
    <3>1. c \in S /\ c < r /\ b["left"][r] < c
      BY <1>2, <2>5 DEF On, Side
    <3>2. d \in S /\ l < d /\ d < b["right"][l]
      BY <1>2, <2>5 DEF On, Side
    <3> HIDE DEF c, d
    <3>3. c <= l /\ r <= d
      BY <1>1, <2>1, <2>2, <3>1, <3>2
    <3>4. l < r /\ b["left"][r] < l /\ r < b["right"][l]
      <4>1. b["left"][r] \in Int /\ b["right"][l] \in Int
        BY <1>1 DEF Side
      <4> QED BY <1>1, <2>1, <2>2, <3>1, <3>2, <3>3, <4>1
    <3>5. b["right"][l] <= b["left"][r] \/ l <= b["left"][r] \/ b["right"][l] <= r
      BY <1>3, <3>4 DEF Nested
    <3>6. b["left"][r] \in Int /\ b["right"][l] \in Int
      BY <1>1 DEF Side
    <3> QED BY <1>1, <3>4, <3>5, <3>6
  <2> QED BY <2>3, <2>4, <2>5
<1>6. CASE \A y \in S : ~ (y < x)
  <2>1. \E y \in S : On("right", y, x)
    BY <1>1, <1>6 DEF On
  <2>2. \A y \in S : ~ On(Other("right"), y, x)
    BY <1>6 DEF On, Other
  <2> QED BY <1>4, <2>1, <2>2 DEF Side
<1>7. CASE \A y \in S : ~ (x < y)
  <2>1. \E y \in S : On("left", y, x)
    BY <1>1, <1>7 DEF On
  <2>2. \A y \in S : ~ On(Other("left"), y, x)
    BY <1>7 DEF On, Other
  <2> QED BY <1>4, <2>1, <2>2 DEF Side
<1> QED BY <1>5, <1>6, <1>7

\* The search of a caller finds such a place.
LEMMA PlaceIs ==
    ASSUME NEW b, Shape(tree, linked, b), linked # {}, NEW x \in Node \ linked
    PROVE  Vacant(tree, linked, x, Place(tree, x), IF x < Place(tree, x) THEN "left" ELSE "right")
<1> DEFINE Q(p) == \E s \in Side :
              /\ tree[s][p] = Null
              /\ (s = "left") <=> x < p
              /\ \A y \in linked : ~ (x < y /\ y < p) /\ ~ (p < y /\ y < x)
           q == Place(tree, x)
<1>1. \A p \in linked : p \in Int /\ p # x /\ x \in Int
  BY Numbers DEF Node
<1>2. \E p \in linked : Q(p)
  <2>1. PICK p \in linked, s \in Side : Vacant(tree, linked, x, p, s)
    BY VacantExists
  <2>2. tree[s][p] = Null /\ On(s, x, p) /\ \A y \in linked : ~ (On(s, x, y) /\ On(s, y, p))
    BY <2>1 DEF Vacant
  <2>3. (s = "left") <=> x < p
    BY <1>1, <2>2 DEF On
  <2>4. \A y \in linked : ~ (x < y /\ y < p) /\ ~ (p < y /\ y < x)
    BY <1>1, <2>2 DEF On
  <2> QED BY <2>2, <2>3, <2>4
<1>3. q = CHOOSE p \in linked : Q(p)
  BY DEF Place
<1> HIDE DEF Q, q
<1>4. q \in linked /\ Q(q)
  BY <1>2, <1>3
<1>5. PICK s \in Side : /\ tree[s][q] = Null
                        /\ (s = "left") <=> x < q
                        /\ \A y \in linked : ~ (x < y /\ y < q) /\ ~ (q < y /\ y < x)
  BY <1>4 DEF Q
<1>6. s = IF x < q THEN "left" ELSE "right"
  BY <1>5 DEF Side
<1>7. On(s, x, q) /\ \A y \in linked : ~ (On(s, x, y) /\ On(s, y, q))
  BY <1>1, <1>4, <1>5 DEF On
<1>8. Vacant(tree, linked, x, q, s)
  BY <1>4, <1>5, <1>7 DEF Vacant
<1> QED BY <1>6, <1>8 DEF q

\* The first node of an empty tree.
LEMMA FirstShape ==
    ASSUME NEW u \in Trees, NEW x \in Node, u.root = x, u.parent[x] = Null,
           \A z \in Side : u[z][x] = Null
    PROVE  \E b : Shape(u, {x}, b)
<1> DEFINE b == [z \in Side |-> [y \in Node |-> IF z = "left" THEN 0 ELSE N + 1]]
<1>1. x \in Int /\ x # Null /\ 0 < x /\ x < N + 1
  BY RbAssumption DEF Node, Null
<1>2. b["left"][x] = 0 /\ b["right"][x] = N + 1 /\ "left" # "right"
  BY DEF Side
<1>3. b \in Bounds
  <2>1. 0 \in 0 .. N + 1 /\ N + 1 \in 0 .. N + 1
    BY RbAssumption
  <2> QED BY <2>1 DEF Bounds
<1> HIDE DEF b
<1>4. Rooted(u, {x}, b)
  BY <1>1, <1>2 DEF Rooted
<1>5. Children(u, {x}, b) /\ Parents(u, {x})
  BY DEF Children, Parents
<1>6. Within({x}, b)
  BY <1>1, <1>2 DEF Within
<1>7. Void(u, {x}, b) /\ Nested({x}, b)
  BY <1>1 DEF Void, Nested, On
<1>8. Shape(u, {x}, b)
  BY <1>3, <1>4, <1>5, <1>6, <1>7 DEF Shape
<1> QED BY <1>8

\* A new node has a red parent at most; no way down gets a black node more.
LEMMA AttachIs ==
    ASSUME NEW t, NEW S, NEW b, Shape(t, S, b), NEW h, Resting(t, S, h, Idle),
           NEW x \in Node \ S, NEW p, NEW s, Vacant(t, S, x, p, s),
           NEW u, Attached(t, u, x, p, s)
    PROVE  Valid(u, S \cup {x}, [op |-> "insert", node |-> x, parent |-> p])
<1> DEFINE V == S \cup {x}
           a == [op |-> "insert", node |-> x, parent |-> p]
           k == [y \in Node |-> IF y = x THEN 0 ELSE h[y]]
<1>1. /\ NoRedPair(t, S, Null) /\ RootBlack(t, Null) /\ Balanced(t, S, h, {})
      /\ p \in S /\ s \in Side /\ t[s][p] = Null
  BY DEF Resting, Vacant
<1>2. /\ \A y \in S : y \in Node /\ y # Null /\ y # x
      /\ x \in Node /\ x # Null
  BY Numbers DEF Node, Null
<1>3. /\ u \in Trees /\ u.root = t.root
      /\ \A y \in Node : /\ u.parent[y] = IF y = x THEN p ELSE t.parent[y]
                         /\ u.color[y] = IF y = x THEN RED ELSE t.color[y]
      /\ \A y \in Node, z \in Side :
           u[z][y] = IF y = p /\ z = s THEN x ELSE IF y = x THEN Null ELSE t[z][y]
  BY DEF Attached
<1>4. h \in Heights /\ \A y \in S, z \in Side : h[y] = Depth(h, t[z][y]) + One(t, y) + 0
  BY <1>1 DEF Balanced
<1>5. k \in Heights /\ k[x] = 0 /\ \A y \in S : k[y] = h[y]
  BY <1>2, <1>4 DEF Heights
<1> HIDE DEF k
<1>6. One(u, x) = 0 /\ \A y \in S : One(u, y) = One(t, y)
  BY <1>2, <1>3 DEF One, RED, BLACK
<1>7. \A y \in S, z \in Side : t[z][y] # Null => t[z][y] \in S
  BY ChildIs
<1>8. Balanced(u, V, k, {})
  <2>1. \A y \in V, z \in Side : k[y] = Depth(k, u[z][y]) + One(u, y) + 0
    <3> TAKE y \in V, z \in Side
    <3>1. CASE y = x
      <4>1. u[z][y] = Null
        BY <1>1, <1>2, <1>3, <3>1
      <4> QED BY <1>5, <1>6, <3>1, <4>1 DEF Depth
    <3>2. CASE y = p /\ z = s
      <4>1. h[y] = Depth(h, Null) + One(t, y) + 0 /\ u[z][y] = x
        BY <1>1, <1>2, <1>3, <1>4, <3>2
      <4>2. Depth(k, x) = 0 /\ Depth(h, Null) = 0
        BY <1>2, <1>5 DEF Depth
      <4> QED BY <1>1, <1>5, <1>6, <3>2, <4>1, <4>2
    <3>3. CASE y \in S /\ ~ (y = p /\ z = s)
      <4>1. u[z][y] = t[z][y]
        BY <1>2, <1>3, <3>3
      <4>2. Depth(k, t[z][y]) = Depth(h, t[z][y])
        BY <1>5, <1>7, <3>3 DEF Depth
      <4> QED BY <1>4, <1>5, <1>6, <3>3, <4>1, <4>2
    <3> QED BY <3>1, <3>2, <3>3
  <2>2. \A y \in V, z \in Side :
          k[y] = Depth(k, u[z][y]) + One(u, y) + (IF <<y, z>> \in {} THEN 1 ELSE 0)
    BY <2>1
  <2> QED BY <1>5, <2>2 DEF Balanced
<1>9. NoRedPair(u, V, x)
  <2> SUFFICES ASSUME NEW y \in S, RedPair(u, y) PROVE FALSE
    BY DEF NoRedPair
  <2>1. u.color[y] = RED /\ u.parent[y] # Null /\ u.color[u.parent[y]] = RED
    BY DEF RedPair
  <2>2. t.color[y] = RED /\ u.parent[y] = t.parent[y]
    BY <1>2, <1>3, <2>1
  <2>3. t.parent[y] \in S
    BY <2>1, <2>2, ParentIs
  <2>4. t.color[t.parent[y]] = RED
    BY <1>2, <1>3, <2>1, <2>2, <2>3
  <2>5. RedPair(t, y)
    BY <2>1, <2>2, <2>4 DEF RedPair
  <2> QED BY <1>1, <1>2, <2>5 DEF NoRedPair
<1>10. RootBlack(u, x)
  <2>1. t.root \in S
    BY <1>1 DEF Shape, Rooted
  <2> QED BY <1>1, <1>2, <1>3, <2>1 DEF RootBlack
<1>11. \E c : Shape(u, V, c)
  BY AttachShape
<1>12. u.color[x] = RED /\ u.parent[x] = p
  BY <1>2, <1>3
<1>13. a = [op |-> "insert", node |-> a.node, parent |-> a.parent] /\ a.node = x /\ a.parent = p
  OBVIOUS
<1> HIDE DEF a
<1>14. Inserting(u, V, k, a)
  BY <1>8, <1>9, <1>10, <1>12, <1>13 DEF Inserting
<1>15. Valid(u, V, a)
  BY <1>11, <1>14 DEF Valid
<1> QED BY <1>15 DEF a

\* Nothing but Resting is known between calls.
LEMMA InRest ==
    ASSUME RbInv, at = Idle
    PROVE  \E b, h : Shape(tree, linked, b) /\ Resting(tree, linked, h, Idle)
<1>1. PICK b, h : /\ Shape(tree, linked, b)
                  /\ \/ Resting(tree, linked, h, at)
                     \/ Inserting(tree, linked, h, at)
                     \/ \E z \in Side : Erasing(tree, linked, h, at, z)
  BY DEF RbInv, Valid
<1>2. at.op = "none"
  BY DEF Idle
<1>3. ~ Inserting(tree, linked, h, at)
  BY <1>2 DEF Inserting
<1>4. \A z \in Side : ~ Erasing(tree, linked, h, at, z)
  BY <1>2 DEF Erasing
<1> QED BY <1>1, <1>3, <1>4

\* rb_link(): only the new red node can have a red parent.
LEMMA LinkKept ==
    ASSUME RbInv, NEW x \in Node, rb_link(x) PROVE RbInv'
<1> DEFINE t == tree
           S == linked
           p == IF S = {} THEN Null ELSE Place(t, x)
           t1 == [t EXCEPT !.parent[x] = p, !.color[x] = RED, !.left[x] = Null, !.right[x] = Null]
           u == IF p = Null THEN [t1 EXCEPT !.root = x]
                ELSE IF x < p THEN [t1 EXCEPT !.left[p] = x]
                ELSE [t1 EXCEPT !.right[p] = x]
           s == IF x < p THEN "left" ELSE "right"
           a == [op |-> "insert", node |-> x, parent |-> p]
<1>1. /\ at = Idle /\ x \in Node \ S
      /\ linked' = S \cup {x} /\ tree' = u /\ at' = a
  BY DEF rb_link
<1>2. PICK b, h : Shape(t, S, b) /\ Resting(t, S, h, Idle)
  BY <1>1, InRest
<1>3. /\ NoRedPair(t, S, Null) /\ RootBlack(t, Null) /\ Balanced(t, S, h, {})
      /\ t \in Trees /\ h \in Heights
  BY <1>2 DEF Resting, Shape, Balanced
<1>4. /\ \A y \in S : y \in Node /\ y # Null /\ y # x
      /\ x \in Node /\ x # Null
  BY <1>1, <1>2, Numbers DEF Node, Null
<1>5. CASE S = {}
  <2>1. p = Null
    BY <1>5
  <2> HIDE DEF t, S, p
  <2>2. u = [t1 EXCEPT !.root = x]
    BY <2>1
  <2>3. /\ u \in Trees /\ u.root = x /\ u.parent[x] = Null /\ u.color[x] = RED
        /\ u.left[x] = Null /\ u.right[x] = Null
    BY <1>3, <1>4, <2>1, <2>2 DEF Trees, Ref
  <2> HIDE DEF u, t1
  <2>4. \E c : Shape(u, {x}, c)
    BY <1>4, <2>3, FirstShape DEF Side
  <2> DEFINE k == [y \in Node |-> 0]
  <2>5. k \in Heights /\ k[x] = 0
    BY <1>4 DEF Heights
  <2> HIDE DEF k
  <2>6. Balanced(u, {x}, k, {})
    <3>1. \A z \in Side : Depth(k, u[z][x]) = 0
      BY <2>3 DEF Side, Depth
    <3>2. One(u, x) = 0
      BY <2>3 DEF One, RED, BLACK
    <3>3. \A z \in Side : k[x] = Depth(k, u[z][x]) + One(u, x) + 0
      BY <2>5, <3>1, <3>2
    <3>4. \A z \in Side : k[x] = Depth(k, u[z][x]) + One(u, x) + (IF <<x, z>> \in {} THEN 1 ELSE 0)
      BY <3>3
    <3> QED BY <2>5, <3>4 DEF Balanced
  <2>7. NoRedPair(u, {x}, x) /\ RootBlack(u, x)
    BY <2>3 DEF NoRedPair, RootBlack
  <2>8. a = [op |-> "insert", node |-> a.node, parent |-> a.parent] /\ a.node = x /\ a.parent = p
    OBVIOUS
  <2> HIDE DEF a
  <2>9. Inserting(u, {x}, k, a)
    BY <2>1, <2>3, <2>6, <2>7, <2>8 DEF Inserting
  <2>10. Valid(u, {x}, a)
    BY <2>4, <2>9 DEF Valid
  <2>11. linked' = {x}
    BY <1>1, <1>5
  <2> QED BY <1>1, <2>10, <2>11 DEF RbInv
<1>6. CASE S # {}
  <2>1. p = Place(t, x)
    BY <1>6
  <2>2. Vacant(t, S, x, p, s)
    BY <1>1, <1>2, <1>6, <2>1, PlaceIs
  <2> HIDE DEF t, S, p
  <2>3. p \in S /\ s \in Side
    BY <2>2 DEF Vacant
  <2>4. t1 \in Trees /\ t1.root = t.root
        /\ \A y \in Node : /\ t1.parent[y] = IF y = x THEN p ELSE t.parent[y]
                           /\ t1.color[y] = IF y = x THEN RED ELSE t.color[y]
                           /\ t1.left[y] = IF y = x THEN Null ELSE t.left[y]
                           /\ t1.right[y] = IF y = x THEN Null ELSE t.right[y]
    BY <1>3, <1>4, <2>3 DEF Trees, Ref
  <2> HIDE DEF t1
  <2>5. u = [t1 EXCEPT ![s][p] = x]
    BY <1>4, <2>3
  <2>6. SetsChild(t1, u, p, s, x)
    BY <1>4, <2>3, <2>4, <2>5, ChildSet DEF Ref
  <2> HIDE DEF u, s
  <2>7. Attached(t, u, x, p, s)
    <3>1. \A y \in Node, z \in Side : t1[z][y] = IF y = x THEN Null ELSE t[z][y]
      BY <2>4 DEF Side
    <3>2. \A y \in Node, z \in Side : u[z][y] = IF y = p /\ z = s THEN x ELSE t1[z][y]
      BY <2>6 DEF SetsChild
    <3> QED BY <2>4, <2>6, <3>1, <3>2 DEF Attached, SetsChild
  <2>8. Valid(u, S \cup {x}, a)
    BY <1>1, <1>2, <2>2, <2>7, AttachIs
  <2> QED BY <1>1, <2>8 DEF RbInv
<1> QED BY <1>5, <1>6

-----------------------------------------------------------------------------
(* Nodes taken out *)

\* u is t without x, which has c as its only child, if any.
Spliced(t, u, S, x, c) ==
    /\ u \in Trees
    /\ u.root = IF t.parent[x] = Null THEN c ELSE t.root
    /\ \A y \in S \ {x} : /\ u.parent[y] = IF y = c THEN t.parent[x] ELSE t.parent[y]
                          /\ u.color[y] = t.color[y]
                          /\ \A z \in Side : u[z][y] = IF t[z][y] = x THEN c ELSE t[z][y]

SplicedBounds(b, x) ==
    [z \in Side |-> [y \in Node |-> IF b[z][y] = x THEN b[z][x] ELSE b[z][y]]]

\* No node is between x and its bound on a side without a child.
LEMMA Bare ==
    ASSUME NEW t, NEW S, NEW b, Shape(t, S, b), NEW x \in S, NEW d \in Side, t[d][x] = Null
    PROVE  /\ \A y \in S : On(d, y, x) => ~ On(d, b[d][x], y)
           /\ \A y \in S : b[Other(d)][y] # x
<1>1. \A y \in S : /\ y \in Int /\ b["left"][y] < y /\ y < b["right"][y]
                   /\ \A z \in Side : b[z][y] \in Int
  BY Numbers
<1>2. \A y \in S : On(d, y, x) => ~ On(d, b[d][x], y)
  BY DEF Shape, Void
<1>3. Nested(S, b)
  BY DEF Shape
<1>4. \A y \in S : b["left"][y] \in Int /\ b["right"][y] \in Int
  BY <1>1 DEF Side
<1>5. CASE d = "left"
  <2>1. \A y \in S : y < x => ~ (b["left"][x] < y)
    BY <1>2, <1>5 DEF On
  <2>2. \A y \in S : b["right"][y] # x
    BY <1>1, <1>3, <1>4, <2>1 DEF Nested
  <2> QED BY <1>2, <1>5, <2>2 DEF Other
<1>6. CASE d = "right"
  <2>1. \A y \in S : x < y => ~ (y < b["right"][x])
    BY <1>2, <1>6 DEF On
  <2>2. \A y \in S : b["left"][y] # x
    BY <1>1, <1>3, <1>4, <2>1 DEF Nested
  <2> QED BY <1>2, <1>6, <2>2 DEF Other
<1> QED BY <1>5, <1>6 DEF Side

\* A node with one child at most can be taken out.
LEMMA SpliceShape ==
    ASSUME NEW t, NEW S, NEW b, Shape(t, S, b), NEW x \in S, NEW d \in Side, t[d][x] = Null,
           NEW c, c = t[Other(d)][x], NEW u, Spliced(t, u, S, x, c)
    PROVE  Shape(u, S \ {x}, SplicedBounds(b, x))
<1> DEFINE o == Other(d)
           V == S \ {x}
           k == SplicedBounds(b, x)
           p == t.parent[x]
<1>1. /\ o \in Side /\ o # d /\ Other(o) = d /\ \A z \in Side : z = d \/ z = o
      /\ \A y, w \in Int : On(o, y, w) <=> On(d, w, y)
  BY Sides
<1>2. /\ \A y \in S : /\ y \in Node /\ y \in Int /\ y # Null
                      /\ \A z \in Side : b[z][y] \in Int /\ b[z][y] # y
                      /\ b["left"][y] < y /\ y < b["right"][y]
      /\ 0 < x /\ x < N + 1
  <2>1. 0 < x /\ x < N + 1
    <3>1. x \in 1 .. N /\ N \in Nat
      BY RbAssumption DEF Shape, Node
    <3> QED BY <3>1
  <2> QED BY <2>1, Numbers
<1>3. /\ u \in Trees
      /\ u.root = IF p = Null THEN c ELSE t.root
      /\ \A y \in V : /\ u.parent[y] = IF y = c THEN p ELSE t.parent[y]
                      /\ \A z \in Side : u[z][y] = IF t[z][y] = x THEN c ELSE t[z][y]
  BY DEF Spliced
<1>4. /\ \A y \in S : On(d, y, x) => ~ On(d, b[d][x], y)
      /\ \A y \in S : b[o][y] # x
  BY Bare
<1>5. \A y \in S, z \in Side : t[z][y] # Null =>
        /\ t[z][y] \in S /\ t.parent[t[z][y]] = y /\ t[z][y] # y
        /\ b[z][t[z][y]] = b[z][y] /\ b[Other(z)][t[z][y]] = y
  BY ChildIs, OneSide
<1> HIDE DEF o, p
<1>6. c # Null => c \in V /\ t.parent[c] = x /\ b[o][c] = b[o][x] /\ b[d][c] = x
  BY <1>1, <1>5 DEF o
<1>7. p # Null => p \in V /\ \E z \in Side : t[z][p] = x
  <2>1. p # Null => p \in S /\ HasChild(t, p, x)
    BY ParentIs DEF p
  <2> QED BY <1>2, <1>5, <2>1 DEF HasChild
<1>8. p = Null <=> x = t.root
  BY <1>2 DEF p, Shape, Rooted, Parents
<1>9. \A y \in Node, z \in Side : k[z][y] = IF b[z][y] = x THEN b[z][x] ELSE b[z][y]
  BY DEF SplicedBounds
<1>10. k \in Bounds
  <2>1. \A z \in Side, y \in Node : b[z][y] \in 0 .. N + 1
    BY DEF Shape, Bounds
  <2>2. \A z \in Side, y \in Node : (IF b[z][y] = x THEN b[z][x] ELSE b[z][y]) \in 0 .. N + 1
    BY <1>2, <2>1
  <2> QED BY <2>2 DEF Bounds, SplicedBounds
<1> HIDE DEF k
<1>11. \A y \in S : k[o][y] = b[o][y] /\ k[d][y] = IF b[d][y] = x THEN b[d][x] ELSE b[d][y]
  BY <1>1, <1>2, <1>4, <1>9
<1>12. \A y \in V, z \in Side : y # c => t[z][x] # y
  BY <1>1, <1>2 DEF o
<1>13. c # Null => k[o][c] = b[o][x] /\ k[d][c] = b[d][x]
  BY <1>6, <1>11
<1>14. Rooted(t, S, b)
  BY DEF Shape
<1>15. Rooted(u, V, k)
  <2>1. CASE p = Null
    <3>1. b["left"][x] = 0 /\ b["right"][x] = N + 1 /\ u.root = c
      BY <1>2, <1>3, <1>8, <1>14, <2>1 DEF Rooted
    <3>2. CASE c = Null
      <4>1. \A y \in V : FALSE
        <5> TAKE y \in V
        <5>1. b[d][x] \in {0, N + 1} /\ b[o][x] \in {0, N + 1}
          BY <1>1, <3>1 DEF Side
        <5>2. \A z \in Side : ~ (On(z, y, x) /\ On(z, b[z][x], y))
          BY <1>1, <3>2 DEF Shape, Void, o
        <5>3. 0 < y /\ y < N + 1 /\ y # x /\ y \in Int /\ x \in Int
          <6>1. y \in 1 .. N /\ N \in Nat
            BY <1>2, RbAssumption DEF Node
          <6> QED BY <1>2, <6>1
        <5>4. ~ (y < x) /\ ~ (x < y)
          BY <3>1, <5>2, <5>3 DEF On, Side
        <5> QED BY <5>3, <5>4
      <4>2. V = {}
        BY <4>1
      <4> QED BY <3>1, <3>2, <4>2 DEF Rooted
    <3>3. CASE c # Null
      <4>1. c \in V /\ u.parent[c] = Null
        BY <1>3, <1>6, <2>1, <3>3
      <4>2. k["left"][c] = 0 /\ k["right"][c] = N + 1
        BY <1>1, <1>13, <3>1, <3>3 DEF Side
      <4> QED BY <3>1, <3>3, <4>1, <4>2 DEF Rooted
    <3> QED BY <3>2, <3>3
  <2>2. CASE p # Null
    <3>1. t.root \in V /\ t.root # Null /\ u.root = t.root
      BY <1>2, <1>3, <1>8, <1>14, <2>2 DEF Rooted
    <3>2. t.parent[t.root] = Null /\ b["left"][t.root] = 0 /\ b["right"][t.root] = N + 1
      BY <1>14, <3>1 DEF Rooted
    <3>3. t.root # c
      BY <1>2, <1>6, <3>1, <3>2
    <3>4. u.parent[t.root] = Null
      BY <1>3, <3>1, <3>2, <3>3
    <3>5. k["left"][t.root] = 0 /\ k["right"][t.root] = N + 1
      BY <1>2, <1>9, <3>1, <3>2 DEF Side
    <3> QED BY <3>1, <3>4, <3>5 DEF Rooted
  <2> QED BY <2>1, <2>2
<1>16. Children(u, V, k)
  <2> SUFFICES ASSUME NEW y \in V, NEW z \in Side, u[z][y] # Null
               PROVE  /\ u[z][y] \in V /\ u.parent[u[z][y]] = y
                      /\ k[z][u[z][y]] = k[z][y] /\ k[Other(z)][u[z][y]] = y
    BY DEF Children
  <2>0. Other(z) \in Side /\ (z = d => Other(z) = o) /\ (z = o => Other(z) = d)
    BY <1>1, Sides DEF o
  <2>1. CASE t[z][y] = x
    <3>1. u[z][y] = c /\ c # Null
      BY <1>3, <2>1
    <3>2. y = p
      BY <1>2, <1>5, <2>1 DEF p
    <3>3. b[z][x] = b[z][y] /\ b[Other(z)][x] = y
      BY <1>2, <1>5, <2>1
    <3>4. k[z][c] = b[z][x] /\ k[Other(z)][c] = b[Other(z)][x]
      BY <1>1, <1>13, <2>0, <3>1
    <3>5. k[z][y] = b[z][y]
      BY <1>2, <1>9, <3>3
    <3> QED BY <1>3, <1>6, <3>1, <3>2, <3>3, <3>4, <3>5
  <2>2. CASE t[z][y] # x
    <3> DEFINE e == t[z][y]
    <3>1. u[z][y] = e /\ e # Null
      BY <1>3, <2>2
    <3>2. e \in V /\ t.parent[e] = y /\ b[z][e] = b[z][y] /\ b[Other(z)][e] = y
      BY <1>5, <2>2, <3>1
    <3> HIDE DEF e
    <3>3. u.parent[e] = y
      BY <1>2, <1>3, <1>6, <3>2
    <3>4. k[z][e] = k[z][y] /\ k[Other(z)][e] = y
      BY <1>2, <1>9, <2>0, <3>2
    <3> QED BY <3>1, <3>2, <3>3, <3>4
  <2> QED BY <2>1, <2>2
<1>17. Parents(u, V)
  <2> SUFFICES ASSUME NEW y \in V, y # u.root
               PROVE  u.parent[y] \in V /\ \E z \in Side : u[z][u.parent[y]] = y
    BY DEF Parents
  <2>1. CASE y = c
    <3>1. p # Null
      BY <1>3, <2>1
    <3>2. u.parent[y] = p
      BY <1>3, <2>1
    <3>3. PICK z \in Side : p \in V /\ t[z][p] = x
      BY <1>7, <3>1
    <3>4. u[z][p] = c
      BY <1>3, <3>3
    <3> QED BY <2>1, <3>2, <3>3, <3>4
  <2>2. CASE y # c
    <3>1. y # t.root
      BY <1>3, <1>8
    <3> DEFINE q == t.parent[y]
    <3>2. PICK z \in Side : q \in S /\ t[z][q] = y
      BY <3>1 DEF Shape, Parents
    <3>3. u.parent[y] = q
      BY <1>3, <2>2
    <3> HIDE DEF q
    <3>4. q \in V
      BY <1>12, <2>2, <3>2
    <3>5. u[z][q] = y
      BY <1>3, <3>2, <3>4
    <3> QED BY <3>3, <3>4, <3>5
  <2> QED BY <2>1, <2>2
<1>18. Within(V, k)
  <2>1. \A y \in S : b["left"][y] \in S \cup {0} /\ b["right"][y] \in S \cup {N + 1}
    BY DEF Shape, Within
  <2>2. \A y \in V : /\ k["left"][y] = IF b["left"][y] = x THEN b["left"][x] ELSE b["left"][y]
                     /\ k["right"][y] = IF b["right"][y] = x THEN b["right"][x] ELSE b["right"][y]
    BY <1>2, <1>9 DEF Side
  <2>3. b["left"][x] \in Int /\ b["right"][x] \in Int
    BY <1>2 DEF Side
  <2> QED BY <1>2, <2>1, <2>2, <2>3 DEF Within
<1>19. Void(u, V, k)
  <2> SUFFICES ASSUME NEW y \in V, NEW w \in V, NEW z \in Side, On(z, w, y), On(z, k[z][y], w)
               PROVE  u[z][y] # Null
    BY DEF Void
  <2>0. \A y1, w1 \in S, z1 \in Side : On(z1, w1, y1) /\ On(z1, b[z1][y1], w1) => t[z1][y1] # Null
    BY DEF Shape, Void
  <2>1. CASE b[z][y] # x
    <3>1. On(z, b[z][y], w)
      BY <1>2, <1>9, <2>1
    <3>2. t[z][y] # Null
      BY <2>0, <3>1
    <3>3. CASE t[z][y] = x
      <4>1. b[z][x] = b[z][y] /\ b[Other(z)][x] = y
        BY <1>2, <1>5, <3>2, <3>3
      <4>2. Other(z) \in Side /\ Other(Other(z)) = z /\ w \in Int /\ x \in Int /\ y \in Int /\ w # x
            /\ \A i, j \in Int : /\ On(z, i, j) <=> On(Other(z), j, i)
                                 /\ i # j => On(z, i, j) \/ On(z, j, i)
        BY <1>2, Sides
      <4>3. CASE On(z, w, x)
        BY <2>0, <3>1, <4>1, <4>3, <3>3, <1>1, <1>3 DEF o
      <4>4. CASE On(z, x, w)
        <5>1. On(Other(z), w, x) /\ On(Other(z), b[Other(z)][x], w)
          BY <4>1, <4>2, <4>4
        <5>2. t[Other(z)][x] # Null
          BY <2>0, <4>2, <5>1
        <5>3. c # Null
          BY <1>1, <4>2, <5>2 DEF o
        <5> QED BY <1>3, <3>3, <5>3
      <4> QED BY <4>2, <4>3, <4>4
    <3>4. CASE t[z][y] # x
      BY <1>3, <3>2, <3>4
    <3> QED BY <3>3, <3>4
  <2>2. CASE b[z][y] = x
    <3>1. z = d /\ k[z][y] = b[d][x]
      BY <1>1, <1>2, <1>4, <1>9, <2>2
    <3>2. On(d, w, y) /\ On(d, b[d][x], w) /\ w # x /\ w \in Int /\ x \in Int
      BY <1>2, <3>1
    <3>3. On(d, x, w)
      <4>1. ~ On(d, w, x)
        BY <1>4, <3>2
      <4> QED BY <3>2, <4>1, Sides
    <3>4. t[z][y] # Null
      BY <2>0, <2>2, <3>1, <3>2, <3>3
    <3>5. t[z][y] # x
      BY <1>2, <1>5, <2>2, <3>4
    <3> QED BY <1>3, <3>4, <3>5
  <2> QED BY <2>1, <2>2
<1>20. Nested(V, k)
  <2>1. Nested(S, b) /\ Within(S, b)
    BY DEF Shape
  <2>2. \A y \in S : b["left"][y] \in Int /\ b["right"][y] \in Int
    BY <1>2 DEF Side
  <2>3. 0 <= b["left"][x] /\ b["right"][x] <= N + 1
    <3>1. \A z \in Side : b[z][x] \in 0 .. N + 1
      BY <1>2 DEF Shape, Bounds
    <3> QED BY <3>1, RbAssumption DEF Side
  <2>4. \A y \in S : /\ b["left"][y] \in S \/ b["left"][y] <= b["left"][x]
                     /\ b["right"][y] \in S \/ b["right"][x] <= b["right"][y]
    BY <2>1, <2>3 DEF Within
  <2>5. CASE d = "left"
    <3>1. o = "right"
      BY <2>5 DEF o, Other
    <3>2. /\ \A y \in S : y < x => y <= b["left"][x]
          /\ \A y \in S : b["right"][y] # x
          /\ \A y \in S : /\ k["left"][y] = IF b["left"][y] = x THEN b["left"][x] ELSE b["left"][y]
                          /\ k["right"][y] = b["right"][y]
      <4>1. \A y \in S : y < x => y <= b["left"][x]
        BY <1>2, <1>4, <2>2, <2>5 DEF On
      <4>2. \A y \in S : b["right"][y] # x
        BY <1>4, <3>1
      <4>3. \A y \in S : /\ k["left"][y] = IF b["left"][y] = x THEN b["left"][x] ELSE b["left"][y]
                         /\ k["right"][y] = b["right"][y]
        BY <1>11, <2>5, <3>1
      <4> QED BY <4>1, <4>2, <4>3
    <3>3. \A y \in S : b["left"][y] < x => b["left"][y] <= b["left"][x]
      BY <2>4, <3>2
    <3> SUFFICES ASSUME NEW y \in V, NEW w \in V, y < w
                 PROVE  \/ k["right"][y] <= k["left"][w]
                        \/ y <= k["left"][w] /\ k["right"][w] <= k["right"][y]
                        \/ k["left"][w] <= k["left"][y] /\ k["right"][y] <= w
      BY DEF Nested
    <3>4. \/ b["right"][y] <= b["left"][w]
          \/ y <= b["left"][w] /\ b["right"][w] <= b["right"][y]
          \/ b["left"][w] <= b["left"][y] /\ b["right"][y] <= w
      BY <2>1 DEF Nested
    <3>5. y < x => \/ b["right"][y] <= b["left"][x]
                   \/ y <= b["left"][x] /\ b["right"][x] <= b["right"][y]
                   \/ b["left"][x] <= b["left"][y] /\ b["right"][y] <= x
      BY <2>1 DEF Nested
    <3> QED BY <1>2, <2>2, <3>2, <3>3, <3>4, <3>5
  <2>6. CASE d = "right"
    <3>1. o = "left"
      BY <2>6 DEF o, Other
    <3>2. /\ \A y \in S : x < y => b["right"][x] <= y
          /\ \A y \in S : b["left"][y] # x
          /\ \A y \in S : /\ k["right"][y] = IF b["right"][y] = x THEN b["right"][x] ELSE b["right"][y]
                          /\ k["left"][y] = b["left"][y]
      <4>1. \A y \in S : x < y => b["right"][x] <= y
        BY <1>2, <1>4, <2>2, <2>6 DEF On
      <4>2. \A y \in S : b["left"][y] # x
        BY <1>4, <3>1
      <4>3. \A y \in S : /\ k["right"][y] = IF b["right"][y] = x THEN b["right"][x] ELSE b["right"][y]
                         /\ k["left"][y] = b["left"][y]
        BY <1>11, <2>6, <3>1
      <4> QED BY <4>1, <4>2, <4>3
    <3>3. \A y \in S : x < b["right"][y] => b["right"][x] <= b["right"][y]
      BY <2>4, <3>2
    <3> SUFFICES ASSUME NEW y \in V, NEW w \in V, y < w
                 PROVE  \/ k["right"][y] <= k["left"][w]
                        \/ y <= k["left"][w] /\ k["right"][w] <= k["right"][y]
                        \/ k["left"][w] <= k["left"][y] /\ k["right"][y] <= w
      BY DEF Nested
    <3>4. \/ b["right"][y] <= b["left"][w]
          \/ y <= b["left"][w] /\ b["right"][w] <= b["right"][y]
          \/ b["left"][w] <= b["left"][y] /\ b["right"][y] <= w
      BY <2>1 DEF Nested
    <3>5. x < w => \/ b["right"][x] <= b["left"][w]
                   \/ x <= b["left"][w] /\ b["right"][w] <= b["right"][x]
                   \/ b["left"][w] <= b["left"][x] /\ b["right"][x] <= w
      BY <2>1 DEF Nested
    <3> QED BY <1>2, <2>2, <3>2, <3>3, <3>4, <3>5
  <2> QED BY <2>5, <2>6 DEF Side
<1> QED BY <1>2, <1>3, <1>10, <1>15, <1>16, <1>17, <1>18, <1>19, <1>20 DEF Shape, k

\* A tree that a node of color k was taken out of, with p above its child c.
Gone(u, S, h, c, p, k) ==
    /\ k = RED => NoRedPair(u, S, Null) /\ RootBlack(u, Null) /\ Balanced(u, S, h, {})
    /\ k # RED => \E z \in Side :
         /\ c \in S \cup {Null}
         /\ IF p = Null THEN c = u.root ELSE p \in S /\ u[z][p] = c
         /\ \A y \in S : RedPair(u, y) => c \in {y, u.parent[y]}
         /\ RootBlack(u, c)
         /\ Balanced(u, S, h, IF p = Null THEN {} ELSE {<<p, z>>})

\* Afterwards a black node is missing on one side, or nothing is.
LEMMA SpliceIs ==
    ASSUME NEW t, NEW S, NEW b, Shape(t, S, b), NEW h, Resting(t, S, h, Idle),
           NEW x \in S, NEW d \in Side, t[d][x] = Null,
           NEW c, c = t[Other(d)][x], NEW u, Spliced(t, u, S, x, c)
    PROVE  Gone(u, S \ {x}, h, c, t.parent[x], t.color[x])
<1> DEFINE o == Other(d)
           V == S \ {x}
           p == t.parent[x]
           k == t.color[x]
<1>1. NoRedPair(t, S, Null) /\ RootBlack(t, Null) /\ Balanced(t, S, h, {})
  BY DEF Resting
<1>2. o \in Side /\ o # d /\ \A z \in Side : z = d \/ z = o
  BY Sides
<1>3. \A y \in S : y \in Node /\ y # Null
  BY Numbers
<1>4. \A y \in S : ~ RedPair(t, y)
  BY <1>1, <1>3 DEF NoRedPair
<1>5. \A y \in S, z \in Side : t[z][y] # Null =>
        t[z][y] \in S /\ t.parent[t[z][y]] = y /\ t[z][y] # y
  BY ChildIs, OneSide
<1>6. /\ u.root = IF p = Null THEN c ELSE t.root
      /\ \A y \in V : /\ u.parent[y] = IF y = c THEN p ELSE t.parent[y]
                      /\ u.color[y] = t.color[y]
                      /\ \A z \in Side : u[z][y] = IF t[z][y] = x THEN c ELSE t[z][y]
  BY DEF Spliced
<1> HIDE DEF o, p, k
<1>7. c # Null => c \in V /\ t.parent[c] = x
  BY <1>2, <1>5 DEF o
<1>8. p = Null <=> x = t.root
  BY <1>3 DEF p, Shape, Rooted, Parents
<1>9. p # Null => p \in S /\ p # x /\ \E z \in Side : t[z][p] = x /\ t[Other(z)][p] # x
  <2>1. p # Null => p \in S /\ HasChild(t, p, x)
    BY ParentIs DEF p
  <2> QED BY <1>3, <1>5, <2>1 DEF HasChild
<1>10. k \in {RED, BLACK}
  BY <1>3 DEF k, Shape, Trees
<1>11. h \in Heights /\ \A y \in S, z \in Side : h[y] = Depth(h, t[z][y]) + One(t, y) + 0
  BY <1>1 DEF Balanced
<1>12. \A y \in S : h[y] \in Nat /\ One(t, y) \in Nat
  BY <1>3, <1>11 DEF Heights, One
<1>13. \A y \in V : One(u, y) = One(t, y)
  BY <1>6 DEF One
<1>14. \A y \in V, z \in Side :
         h[y] = Depth(h, u[z][y]) + One(u, y) + (IF t[z][y] = x /\ k # RED THEN 1 ELSE 0)
  <2> TAKE y \in V, z \in Side
  <2>1. h[y] = Depth(h, t[z][y]) + One(t, y) + 0
    BY <1>11
  <2>2. CASE t[z][y] = x
    <3>1. u[z][y] = c
      BY <1>6, <2>2
    <3>2. Depth(h, t[z][y]) = h[x]
      BY <1>3, <2>2 DEF Depth
    <3>3. h[x] = Depth(h, c) + One(t, x) + 0
      BY <1>2, <1>11 DEF o
    <3>4. Depth(h, c) \in Nat
      BY <1>7, <1>12 DEF Depth
    <3>5. One(t, x) = IF k # RED THEN 1 ELSE 0
      BY <1>10 DEF k, One, RED, BLACK
    <3> QED BY <1>12, <1>13, <2>1, <2>2, <3>1, <3>2, <3>3, <3>4, <3>5
  <2>3. CASE t[z][y] # x
    <3>1. u[z][y] = t[z][y]
      BY <1>6, <2>3
    <3> QED BY <1>13, <2>1, <2>3, <3>1
  <2> QED BY <2>2, <2>3
<1>15. \A y \in V, z \in Side : t[z][y] = x => y = p
  BY <1>3, <1>5 DEF p
<1>16. \A y \in V : RedPair(u, y) => y = c /\ p # Null /\ t.color[c] = RED /\ t.color[p] = RED
  <2> SUFFICES ASSUME NEW y \in V, RedPair(u, y)
               PROVE  y = c /\ p # Null /\ t.color[c] = RED /\ t.color[p] = RED
    OBVIOUS
  <2>1. u.color[y] = RED /\ u.parent[y] # Null /\ u.color[u.parent[y]] = RED /\ t.color[y] = RED
    BY <1>6 DEF RedPair
  <2>2. y = c
    <3>1. ASSUME y # c PROVE FALSE
      <4>1. u.parent[y] = t.parent[y]
        BY <1>6, <3>1
      <4>2. t.parent[y] \in S /\ HasChild(t, t.parent[y], y)
        BY <2>1, <4>1, ParentIs
      <4>3. t.parent[y] # x
        BY <1>2, <1>3, <3>1, <4>2 DEF HasChild, o
      <4>4. RedPair(t, y)
        BY <1>6, <2>1, <4>1, <4>2, <4>3 DEF RedPair
      <4> QED BY <1>4, <4>4
    <3> QED BY <3>1
  <2>3. u.parent[y] = p
    BY <1>6, <2>2
  <2> QED BY <1>6, <1>9, <2>1, <2>2, <2>3
<1>17. CASE k = RED
  <2>1. x # t.root
    BY <1>1, <1>3, <1>17 DEF k, RootBlack, RED, BLACK
  <2>2. u.root = t.root /\ t.root \in V
    BY <1>6, <1>8, <2>1, <1>3 DEF Shape, Rooted
  <2>3. RootBlack(u, Null)
    BY <1>1, <1>6, <2>2 DEF RootBlack
  <2>4. NoRedPair(u, V, Null)
    <3>1. \A y \in V : RedPair(u, y) => FALSE
      <4>1. ASSUME NEW y \in V, RedPair(u, y) PROVE FALSE
        <5>1. p # Null /\ t.color[p] = RED
          BY <1>16, <4>1
        <5>2. RedPair(t, x)
          BY <1>17, <5>1 DEF RedPair, p, k
        <5> QED BY <1>4, <5>2
      <4> QED BY <4>1
    <3> QED BY <3>1 DEF NoRedPair
  <2>5. Balanced(u, V, h, {})
    <3>1. \A y \in V, z \in Side : h[y] = Depth(h, u[z][y]) + One(u, y) + 0
      BY <1>14, <1>17
    <3>2. \A y \in V, z \in Side :
            h[y] = Depth(h, u[z][y]) + One(u, y) + (IF <<y, z>> \in {} THEN 1 ELSE 0)
      BY <3>1
    <3> QED BY <1>11, <3>2 DEF Balanced
  <2> QED BY <1>17, <2>3, <2>4, <2>5 DEF Gone, k
<1>18. CASE k # RED
  <2>1. PICK z \in Side : p # Null => t[z][p] = x /\ t[Other(z)][p] # x
    BY <1>9 DEF Side
  <2>2. c \in V \cup {Null}
    BY <1>7
  <2>3. IF p = Null THEN c = u.root ELSE p \in V /\ u[z][p] = c
    BY <1>6, <1>9, <2>1
  <2>4. \A y \in V : RedPair(u, y) => c \in {y, u.parent[y]}
    BY <1>16
  <2>5. RootBlack(u, c)
    <3> SUFFICES ASSUME u.root # Null, u.root # c PROVE u.color[u.root] = BLACK
      BY DEF RootBlack
    <3>1. u.root = t.root /\ t.root \in V
      BY <1>6, <1>8 DEF Shape, Rooted
    <3> QED BY <1>1, <1>6, <3>1 DEF RootBlack
  <2> DEFINE D == IF p = Null THEN {} ELSE {<<p, z>>}
  <2>6. \A y \in V, e \in Side : <<y, e>> \in D <=> t[e][y] = x
    <3> TAKE y \in V, e \in Side
    <3>1. <<y, e>> \in D <=> p # Null /\ y = p /\ e = z
      OBVIOUS
    <3>2. t[e][y] = x => y = p /\ p # Null
      BY <1>3, <1>15
    <3>3. t[e][y] = x /\ y = p => e = z
      BY <1>3, <2>1, Sides
    <3> QED BY <2>1, <3>1, <3>2, <3>3
  <2> HIDE DEF D
  <2>7. Balanced(u, V, h, D)
    <3>1. \A y \in V, e \in Side :
            h[y] = Depth(h, u[e][y]) + One(u, y) + (IF <<y, e>> \in D THEN 1 ELSE 0)
      BY <1>14, <1>18, <2>6
    <3> QED BY <1>11, <3>1 DEF Balanced
  <2> QED BY <1>18, <2>2, <2>3, <2>4, <2>5, <2>7 DEF Gone, D, k, p
<1> QED BY <1>17, <1>18

-----------------------------------------------------------------------------
(* Nodes in the place of others *)

Sub(n, x, y) == IF y = n THEN x ELSE y

\* u is t with x in the place of n.
Renamed(t, u, S, n, x) ==
    /\ u \in Trees /\ u.root = Sub(n, x, t.root)
    /\ \A y \in S : /\ u.parent[Sub(n, x, y)] = Sub(n, x, t.parent[y])
                    /\ u.color[Sub(n, x, y)] = t.color[y]
                    /\ \A z \in Side : u[z][Sub(n, x, y)] = Sub(n, x, t[z][y])

\* x is a new node, the next one after n.
Follows(S, n, x) ==
    /\ n \in S /\ x \in Node \ S /\ n < x
    /\ \A w \in S : w <= n \/ x < w

RenamedSet(S, n, x) == (S \ {n}) \cup {x}

RenamedBounds(b, n, x) ==
    [z \in Side |-> [y \in Node |-> Sub(n, x, b[z][Sub(x, n, y)])]]

\* The order of x among the others is that of n.
LEMMA SubOrder ==
    ASSUME NEW S, S \subseteq Node, NEW n, NEW x, Follows(S, n, x)
    PROVE  /\ \A y \in S : Sub(n, x, y) \in RenamedSet(S, n, x)
           /\ \A y \in RenamedSet(S, n, x) : Sub(x, n, y) \in S /\ Sub(n, x, Sub(x, n, y)) = y
           /\ \A y \in S : Sub(x, n, Sub(n, x, y)) = y
           /\ Sub(n, x, Null) = Null /\ Sub(n, x, 0) = 0 /\ Sub(n, x, N + 1) = N + 1
           /\ \A i, j \in S \cup {0, N + 1} : Sub(n, x, i) < Sub(n, x, j) <=> i < j
           /\ \A i, j \in S \cup {0, N + 1} : Sub(n, x, i) <= Sub(n, x, j) <=> i <= j
           /\ \A i, j \in S \cup {0, N + 1} : Sub(n, x, i) = Sub(n, x, j) <=> i = j
<1>1. n \in S /\ x \in Node /\ x \notin S /\ n < x /\ \A w \in S : w <= n \/ x < w
  BY DEF Follows
<1>2. N \in Nat /\ \A y \in Node : y \in Int /\ 0 < y /\ y < N + 1
  BY RbAssumption DEF Node
<1>3. /\ \A y \in S : Sub(n, x, y) \in RenamedSet(S, n, x)
      /\ \A y \in RenamedSet(S, n, x) : Sub(x, n, y) \in S /\ Sub(n, x, Sub(x, n, y)) = y
      /\ \A y \in S : Sub(x, n, Sub(n, x, y)) = y
  BY <1>1 DEF Sub, RenamedSet
<1>4. Sub(n, x, Null) = Null /\ Sub(n, x, 0) = 0 /\ Sub(n, x, N + 1) = N + 1
  BY <1>1, <1>2 DEF Sub, Null
<1> DEFINE U == S \cup {0, N + 1}
<1>5. \A i \in U : i \in Int /\ i # x /\ (i = n \/ i < n \/ x < i)
  BY <1>1, <1>2
<1>6. n \in Int /\ x \in Int
  BY <1>1, <1>2
<1> HIDE DEF U
<1>7. ASSUME NEW i \in U, NEW j \in U, i < j PROVE Sub(n, x, i) < Sub(n, x, j)
  <2>1. /\ i \in Int /\ i # x /\ (i = n \/ i < n \/ x < i)
        /\ j \in Int /\ j # x /\ (j = n \/ j < n \/ x < j)
    BY <1>5
  <2> QED BY <1>1, <1>6, <1>7, <2>1 DEF Sub
<1>8. \A i \in U : Sub(n, x, i) \in Int
  BY <1>5, <1>6 DEF Sub
<1>9. \A i, j \in U : /\ Sub(n, x, i) < Sub(n, x, j) <=> i < j
                      /\ Sub(n, x, i) <= Sub(n, x, j) <=> i <= j
                      /\ Sub(n, x, i) = Sub(n, x, j) <=> i = j
  BY <1>5, <1>7, <1>8
<1> QED BY <1>3, <1>4, <1>9 DEF U

\* x in the place of n keeps the order.
LEMMA RenameShape ==
    ASSUME NEW t, NEW S, NEW b, Shape(t, S, b), NEW n, NEW x, Follows(S, n, x),
           NEW u, Renamed(t, u, S, n, x)
    PROVE  Shape(u, RenamedSet(S, n, x), RenamedBounds(b, n, x))
<1> DEFINE V == RenamedSet(S, n, x)
           k == RenamedBounds(b, n, x)
           f(y) == Sub(n, x, y)
           g(y) == Sub(x, n, y)
           U == S \cup {0, N + 1}
<1>1. /\ S \subseteq Node /\ t \in Trees /\ b \in Bounds
      /\ Rooted(t, S, b) /\ Children(t, S, b) /\ Parents(t, S)
      /\ Within(S, b) /\ Void(t, S, b) /\ Nested(S, b)
  BY DEF Shape
<1>2. /\ \A y \in S : f(y) \in V /\ g(f(y)) = y
      /\ \A y \in V : g(y) \in S /\ f(g(y)) = y
      /\ f(Null) = Null /\ f(0) = 0 /\ f(N + 1) = N + 1
  <2>1. \A y \in S : f(y) \in V /\ g(f(y)) = y
    BY <1>1, SubOrder
  <2>2. \A y \in V : g(y) \in S /\ f(g(y)) = y
    BY <1>1, SubOrder, Zenon
  <2>3. f(Null) = Null /\ f(0) = 0 /\ f(N + 1) = N + 1
    BY <1>1, SubOrder
  <2> QED BY <2>1, <2>2, <2>3
<1>3. \A i, j \in U : /\ f(i) < f(j) <=> i < j
                      /\ f(i) <= f(j) <=> i <= j
                      /\ f(i) = f(j) <=> i = j
  BY <1>1, SubOrder
<1>4. /\ \A y \in S : y \in Node /\ y # Null /\ y # 0 /\ y # x
      /\ n \in S /\ x \in Node /\ x # Null
      /\ V \subseteq Node
  BY <1>1, Numbers DEF Follows, RenamedSet, Node, Null
<1>5. \A y \in S, z \in Side : b[z][y] \in U
  BY <1>1 DEF Within, Side
<1>6. /\ u \in Trees /\ u.root = f(t.root)
      /\ \A y \in S : /\ u.parent[f(y)] = f(t.parent[y])
                      /\ \A z \in Side : u[z][f(y)] = f(t[z][y])
  BY DEF Renamed
<1>7. k \in Bounds
  <2>1. \A y \in Node, z \in Side : b[z][Sub(x, n, y)] \in 0 .. N + 1
    BY <1>1, <1>4 DEF Bounds, Sub
  <2>2. x \in 0 .. N + 1
    BY <1>4, RbAssumption DEF Node
  <2>3. \A y \in Node, z \in Side : Sub(n, x, b[z][Sub(x, n, y)]) \in 0 .. N + 1
    BY <2>1, <2>2 DEF Sub
  <2> QED BY <2>3 DEF Bounds, RenamedBounds
<1>8. \A y \in S, z \in Side : k[z][f(y)] = f(b[z][y])
  <2>1. \A y \in Node, z \in Side : k[z][y] = f(b[z][g(y)])
    BY DEF RenamedBounds
  <2> QED BY <1>2, <1>4, <2>1
<1>9. \A y \in S \cup {Null} : f(y) = Null <=> y = Null
  <2>1. \A y \in S \cup {Null} : y \in U /\ Null \in U
    BY DEF Null
  <2> QED BY <1>2, <1>3, <2>1
<1>10. \A y, w \in U, z \in Side : On(z, f(y), f(w)) <=> On(z, y, w)
  BY <1>3 DEF On
<1>11. \A y \in S, z \in Side : t[z][y] \in S \cup {Null}
  BY ChildIs
<1>12. \A y \in V : \E w \in S : y = f(w)
  BY <1>2
<1> HIDE DEF f, g, V, k, U
<1>13. Rooted(u, V, k)
  <2>1. t.root \in S \cup {Null} /\ (t.root = Null <=> S = {})
        /\ (t.root # Null => /\ t.parent[t.root] = Null
                             /\ b["left"][t.root] = 0 /\ b["right"][t.root] = N + 1)
    BY <1>1 DEF Rooted
  <2>2. t.root \in S /\ t.root # Null
    BY <1>4, <2>1
  <2>3. u.root \in V /\ u.root # Null
    BY <1>2, <1>6, <1>9, <2>2
  <2>4. u.parent[u.root] = Null
    BY <1>2, <1>6, <2>1, <2>2
  <2>5. k["left"][u.root] = 0 /\ k["right"][u.root] = N + 1
    BY <1>2, <1>6, <1>8, <2>1, <2>2 DEF Side
  <2> QED BY <2>3, <2>4, <2>5 DEF Rooted
<1>14. Children(u, V, k)
  <2> SUFFICES ASSUME NEW y \in V, NEW z \in Side, u[z][y] # Null
               PROVE  /\ u[z][y] \in V /\ u.parent[u[z][y]] = y
                      /\ k[z][u[z][y]] = k[z][y] /\ k[Other(z)][u[z][y]] = y
    BY DEF Children
  <2>0. Other(z) \in Side
    BY Sides
  <2>1. PICK w \in S : y = f(w)
    BY <1>12
  <2>2. u[z][y] = f(t[z][w]) /\ t[z][w] # Null
    BY <1>2, <1>6, <2>1
  <2> DEFINE c == t[z][w]
  <2>3. c \in S /\ t.parent[c] = w /\ b[z][c] = b[z][w] /\ b[Other(z)][c] = w
    BY <2>2, ChildIs
  <2> HIDE DEF c
  <2>4. u[z][y] = f(c)
    BY <2>2 DEF c
  <2>5. u.parent[f(c)] = f(w) /\ f(c) \in V
    BY <1>2, <1>6, <2>3
  <2>6. k[z][f(c)] = f(b[z][w]) /\ k[z][f(w)] = f(b[z][w]) /\ k[Other(z)][f(c)] = f(w)
    BY <1>8, <2>0, <2>3
  <2> QED BY <2>1, <2>4, <2>5, <2>6
<1>15. Parents(u, V)
  <2> SUFFICES ASSUME NEW y \in V, y # u.root
               PROVE  u.parent[y] \in V /\ \E z \in Side : u[z][u.parent[y]] = y
    BY DEF Parents
  <2>1. PICK w \in S : y = f(w)
    BY <1>12
  <2>2. w # t.root
    BY <1>6, <2>1
  <2> DEFINE p == t.parent[w]
  <2>3. PICK z \in Side : p \in S /\ t[z][p] = w
    BY <1>1, <2>2 DEF Parents
  <2>4. u.parent[y] = f(p)
    BY <1>6, <2>1
  <2> HIDE DEF p
  <2>5. f(p) \in V /\ u[z][f(p)] = f(w)
    BY <1>2, <1>6, <2>3
  <2> QED BY <2>1, <2>4, <2>5
<1>16. Within(V, k)
  <2> SUFFICES ASSUME NEW y \in V
               PROVE  /\ k["left"][y] \in V \cup {0} /\ k["left"][y] < y
                      /\ k["right"][y] \in V \cup {N + 1} /\ y < k["right"][y]
    BY DEF Within
  <2>1. PICK w \in S : y = f(w)
    BY <1>12
  <2>2. /\ b["left"][w] \in S \cup {0} /\ b["left"][w] < w
        /\ b["right"][w] \in S \cup {N + 1} /\ w < b["right"][w]
    BY <1>1 DEF Within
  <2>3. k["left"][y] = f(b["left"][w]) /\ k["right"][y] = f(b["right"][w])
    BY <1>8, <2>1 DEF Side
  <2>4. f(b["left"][w]) \in V \cup {0} /\ f(b["right"][w]) \in V \cup {N + 1}
    BY <1>2, <2>2
  <2>5. b["left"][w] \in U /\ b["right"][w] \in U /\ w \in U
    BY <2>2 DEF U
  <2>6. f(b["left"][w]) < f(w) /\ f(w) < f(b["right"][w])
    BY <1>3, <2>2, <2>5
  <2> QED BY <2>1, <2>3, <2>4, <2>6
<1>17. Void(u, V, k)
  <2> SUFFICES ASSUME NEW y \in V, NEW y1 \in V, NEW z \in Side, On(z, y1, y), On(z, k[z][y], y1)
               PROVE  u[z][y] # Null
    BY DEF Void
  <2>1. PICK w \in S : y = f(w)
    BY <1>12
  <2>2. PICK w1 \in S : y1 = f(w1)
    BY <1>12
  <2>3. w \in U /\ w1 \in U /\ b[z][w] \in U
    BY <1>5 DEF U
  <2>4. k[z][y] = f(b[z][w])
    BY <1>8, <2>1
  <2>5. On(z, w1, w) /\ On(z, b[z][w], w1)
    BY <1>10, <2>1, <2>2, <2>3, <2>4
  <2>6. t[z][w] # Null
    BY <1>1, <2>5 DEF Void
  <2> QED BY <1>6, <1>9, <1>11, <2>1, <2>6
<1>18. Nested(V, k)
  <2> SUFFICES ASSUME NEW y \in V, NEW w \in V, y < w
               PROVE  \/ k["right"][y] <= k["left"][w]
                      \/ y <= k["left"][w] /\ k["right"][w] <= k["right"][y]
                      \/ k["left"][w] <= k["left"][y] /\ k["right"][y] <= w
    BY DEF Nested
  <2>1. PICK y1 \in S : y = f(y1)
    BY <1>12
  <2>2. PICK w1 \in S : w = f(w1)
    BY <1>12
  <2>3. y1 \in U /\ w1 \in U /\ "left" \in Side /\ "right" \in Side
    BY DEF U, Side
  <2>4. b["left"][y1] \in U /\ b["right"][y1] \in U /\ b["left"][w1] \in U /\ b["right"][w1] \in U
    BY <1>5, <2>3
  <2>5. /\ k["left"][y] = f(b["left"][y1]) /\ k["right"][y] = f(b["right"][y1])
        /\ k["left"][w] = f(b["left"][w1]) /\ k["right"][w] = f(b["right"][w1])
    BY <1>8, <2>1, <2>2, <2>3
  <2>6. y1 < w1
    BY <1>3, <2>1, <2>2, <2>3
  <2>7. \/ b["right"][y1] <= b["left"][w1]
        \/ y1 <= b["left"][w1] /\ b["right"][w1] <= b["right"][y1]
        \/ b["left"][w1] <= b["left"][y1] /\ b["right"][y1] <= w1
    BY <1>1, <2>6 DEF Nested
  <2>8. /\ b["right"][y1] <= b["left"][w1] <=> k["right"][y] <= k["left"][w]
        /\ y1 <= b["left"][w1] <=> y <= k["left"][w]
        /\ b["right"][w1] <= b["right"][y1] <=> k["right"][w] <= k["right"][y]
        /\ b["left"][w1] <= b["left"][y1] <=> k["left"][w] <= k["left"][y]
        /\ b["right"][y1] <= w1 <=> k["right"][y] <= w
    BY <1>3, <2>1, <2>2, <2>3, <2>4, <2>5
  <2> QED BY <2>7, <2>8
<1> QED BY <1>4, <1>6, <1>7, <1>13, <1>14, <1>15, <1>16, <1>17, <1>18 DEF Shape, V, k

RenamedHeights(h, n, x) == [y \in Node |-> h[Sub(x, n, y)]]

\* It keeps the balance too.
LEMMA RenameIs ==
    ASSUME NEW t, NEW S, NEW b, Shape(t, S, b), NEW n, NEW x, Follows(S, n, x),
           NEW u, Renamed(t, u, S, n, x),
           NEW h, NEW c \in S \cup {Null}, NEW p \in S \cup {Null}, NEW k, Gone(t, S, h, c, p, k)
    PROVE  Gone(u, RenamedSet(S, n, x), RenamedHeights(h, n, x), Sub(n, x, c), Sub(n, x, p), k)
<1> DEFINE V == RenamedSet(S, n, x)
           f(y) == Sub(n, x, y)
           l == RenamedHeights(h, n, x)
<1>1. S \subseteq Node
  BY DEF Shape
<1>2. /\ \A y \in S : f(y) \in V /\ Sub(x, n, f(y)) = y
      /\ \A y \in V : \E w \in S : y = f(w)
      /\ f(Null) = Null
  BY <1>1, SubOrder
<1>3. \A y, w \in S \cup {Null} : f(y) = f(w) <=> y = w
  BY <1>1, SubOrder DEF Null
<1>4. /\ \A y \in S : y \in Node /\ y # Null
      /\ n \in Node /\ x \in Node /\ V \subseteq Node
  BY <1>1, Numbers DEF Follows, RenamedSet
<1>5. /\ u \in Trees /\ u.root = f(t.root)
      /\ \A y \in S : /\ u.parent[f(y)] = f(t.parent[y])
                      /\ u.color[f(y)] = t.color[y]
                      /\ \A z \in Side : u[z][f(y)] = f(t[z][y])
  BY DEF Renamed
<1>6. /\ \A y \in S, z \in Side : t[z][y] \in S \cup {Null}
      /\ \A y \in S : t.parent[y] \in S \cup {Null}
      /\ t.root \in S \cup {Null}
  BY ChildIs, ParentIs DEF Shape, Rooted
<1>7. h \in Heights => /\ l \in Heights
                       /\ \A y \in S : l[f(y)] = h[y]
  <2>1. \A y \in Node : Sub(x, n, y) \in Node /\ l[y] = h[Sub(x, n, y)]
    BY <1>4 DEF Sub, RenamedHeights
  <2>2. h \in Heights => l \in Heights
    BY <2>1 DEF Heights, RenamedHeights
  <2>3. \A y \in S : l[f(y)] = h[y]
    BY <1>2, <1>4, <2>1
  <2> QED BY <2>2, <2>3
<1> HIDE DEF V, f, l
<1>8. \A y \in S \cup {Null} : f(y) = Null <=> y = Null
  BY <1>2, <1>3
<1>9. \A y \in S : One(u, f(y)) = One(t, y)
  BY <1>5 DEF One
<1>10. h \in Heights => \A y \in S \cup {Null} : Depth(l, f(y)) = Depth(h, y)
  BY <1>7, <1>8 DEF Depth
<1>11. \A y \in S : RedPair(u, f(y)) => RedPair(t, y)
  BY <1>5, <1>6, <1>8 DEF RedPair
<1>12. ASSUME NEW D, Balanced(t, S, h, D), NEW E,
              \A y \in S, z \in Side : <<f(y), z>> \in E <=> <<y, z>> \in D
       PROVE  Balanced(u, V, l, E)
  <2>1. h \in Heights /\ \A y \in S, z \in Side :
          h[y] = Depth(h, t[z][y]) + One(t, y) + (IF <<y, z>> \in D THEN 1 ELSE 0)
    BY <1>12 DEF Balanced
  <2>2. ASSUME NEW y \in S, NEW z \in Side
        PROVE  l[f(y)] = Depth(l, u[z][f(y)]) + One(u, f(y)) + (IF <<f(y), z>> \in E THEN 1 ELSE 0)
    <3>1. l[f(y)] = h[y] /\ One(u, f(y)) = One(t, y)
      BY <1>7, <1>9, <2>1
    <3>2. Depth(l, u[z][f(y)]) = Depth(h, t[z][y])
      BY <1>5, <1>6, <1>10, <2>1
    <3>3. (IF <<f(y), z>> \in E THEN 1 ELSE 0) = (IF <<y, z>> \in D THEN 1 ELSE 0)
      BY <1>12
    <3> QED BY <2>1, <3>1, <3>2, <3>3
  <2>3. \A y \in V, z \in Side :
          l[y] = Depth(l, u[z][y]) + One(u, y) + (IF <<y, z>> \in E THEN 1 ELSE 0)
    BY <1>2, <2>2
  <2>4. l \in Heights
    BY <1>7, <2>1
  <2> QED BY <2>3, <2>4 DEF Balanced
<1>13. ASSUME NEW e \in S \cup {Null}, RootBlack(t, e) PROVE RootBlack(u, f(e))
  <2> SUFFICES ASSUME u.root # Null, u.root # f(e) PROVE u.color[u.root] = BLACK
    BY DEF RootBlack
  <2>1. t.root \in S /\ t.root # Null /\ t.root # e
    BY <1>2, <1>5, <1>6
  <2>2. t.color[t.root] = BLACK
    BY <1>13, <2>1 DEF RootBlack
  <2> QED BY <1>5, <2>1, <2>2
<1>14. CASE k = RED
  <2>1. NoRedPair(t, S, Null) /\ RootBlack(t, Null) /\ Balanced(t, S, h, {})
    BY <1>14 DEF Gone
  <2>2. RootBlack(u, Null)
    BY <1>2, <1>13, <2>1
  <2>3. NoRedPair(u, V, Null)
    <3>1. \A y \in S : ~ RedPair(t, y)
      BY <1>4, <2>1 DEF NoRedPair
    <3>2. \A y \in V : ~ RedPair(u, y)
      BY <1>2, <1>11, <3>1
    <3> QED BY <3>2 DEF NoRedPair
  <2>4. Balanced(u, V, l, {})
    BY <1>12, <2>1
  <2> QED BY <1>14, <2>2, <2>3, <2>4 DEF Gone, V, l
<1>15. CASE k # RED
  <2>1. PICK z \in Side :
          /\ IF p = Null THEN c = t.root ELSE p \in S /\ t[z][p] = c
          /\ \A y \in S : RedPair(t, y) => c \in {y, t.parent[y]}
          /\ RootBlack(t, c)
          /\ Balanced(t, S, h, IF p = Null THEN {} ELSE {<<p, z>>})
    BY <1>15 DEF Gone
  <2>2. f(c) \in V \cup {Null}
    BY <1>2
  <2>3. IF f(p) = Null THEN f(c) = u.root ELSE f(p) \in V /\ u[z][f(p)] = f(c)
    BY <1>2, <1>5, <1>8, <2>1
  <2>4. \A y \in V : RedPair(u, y) => f(c) \in {y, u.parent[y]}
    <3> SUFFICES ASSUME NEW y \in V, RedPair(u, y) PROVE f(c) \in {y, u.parent[y]}
      OBVIOUS
    <3>1. PICK w \in S : y = f(w)
      BY <1>2
    <3>2. c \in {w, t.parent[w]}
      BY <1>11, <2>1, <3>1
    <3>3. u.parent[y] = f(t.parent[w])
      BY <1>5, <3>1
    <3> QED BY <3>1, <3>2, <3>3
  <2>5. RootBlack(u, f(c))
    BY <1>13, <2>1
  <2> DEFINE D == IF p = Null THEN {} ELSE {<<p, z>>}
             E == IF f(p) = Null THEN {} ELSE {<<f(p), z>>}
  <2>6. \A y \in S, e \in Side : <<f(y), e>> \in E <=> <<y, e>> \in D
    BY <1>3, <1>8
  <2>7. Balanced(u, V, l, E)
    BY <1>12, <2>1, <2>6
  <2> QED BY <1>15, <2>2, <2>3, <2>4, <2>5, <2>7 DEF Gone, V, l, f
<1> QED BY <1>14, <1>15

-----------------------------------------------------------------------------
(* Walks *)

\* f has the nodes of a walk from x along a link.
IsWalk(f, x, link) ==
    f = [i \in 0 .. N |-> IF i = 0 THEN x
                          ELSE LET y == f[i - 1] IN IF y = Null THEN Null ELSE link[y]]

Walk(x, link) == CHOOSE f : IsWalk(f, x, link)

\* The recursive function of a walk exists, and does what it says.
LEMMA WalkIs ==
    ASSUME NEW x \in Ref, NEW link \in [Node -> Ref]
    PROVE  /\ \A i \in 0 .. N : Walk(x, link)[i] \in Ref
           /\ Walk(x, link)[0] = x
           /\ \A i \in 1 .. N : /\ Walk(x, link)[i - 1] = Null => Walk(x, link)[i] = Null
                                /\ Walk(x, link)[i - 1] # Null =>
                                     Walk(x, link)[i] = link[Walk(x, link)[i - 1]]
<1> DEFINE next == [y \in Ref |-> IF y = Null THEN Null ELSE link[y]]
           step == [k \in Nat |-> next]
           w == Walk(x, link)
<1>1. N \in Nat
  BY RbAssumption
<1>2. next \in [Ref -> Ref]
  <2>1. \A y \in Ref : (IF y = Null THEN Null ELSE link[y]) \in Ref
    BY DEF Ref
  <2> QED BY <2>1
<1>3. step \in [Nat -> [Ref -> Ref]] /\ \A k \in Nat : step[k] = next
  <2> HIDE DEF next
  <2> QED BY <1>2
<1>4. \A y \in Ref : next[y] = IF y = Null THEN Null ELSE link[y]
  OBVIOUS
<1> HIDE DEF next, step
<1>5. PICK f : IsLoop(f, Ref, x, step, N)
  BY <1>1, <1>3, LoopExists
<1>6. f \in [0 .. N -> Ref] /\ f[0] = x /\ \A k \in 1 .. N : f[k] = next[f[k - 1]]
  <2>1. \A k \in 1 .. N : k \in Nat
    BY <1>1
  <2> QED BY <1>3, <1>5, <2>1 DEF IsLoop
<1>7. \A k \in 1 .. N : k - 1 \in 0 .. N /\ k \in 0 .. N /\ k # 0
  BY <1>1
<1>8. IsWalk(f, x, link)
  <2>1. \A k \in 0 .. N : f[k] = IF k = 0 THEN x
                                 ELSE LET y == f[k - 1] IN IF y = Null THEN Null ELSE link[y]
    <3> TAKE k \in 0 .. N
    <3>1. CASE k = 0
      BY <1>6, <3>1
    <3>2. CASE k # 0
      <4>1. k \in 1 .. N
        BY <1>1, <3>2
      <4>2. f[k - 1] \in Ref /\ f[k] = next[f[k - 1]]
        BY <1>6, <1>7, <4>1
      <4> QED BY <1>4, <3>2, <4>2
    <3> QED BY <3>1, <3>2
  <2> QED BY <1>6, <2>1 DEF IsWalk
<1>9. IsWalk(w, x, link)
  BY <1>8 DEF Walk
<1> HIDE DEF w
<1>10. \A k \in 0 .. N : w[k] = IF k = 0 THEN x
                                ELSE LET y == w[k - 1] IN IF y = Null THEN Null ELSE link[y]
  <2> DEFINE rhs(g) == [k \in 0 .. N |-> IF k = 0 THEN x
                          ELSE LET y == g[k - 1] IN IF y = Null THEN Null ELSE link[y]]
  <2>1. w = rhs(w)
    BY <1>9 DEF IsWalk
  <2>2. \A k \in 0 .. N : rhs(w)[k] = IF k = 0 THEN x
                            ELSE LET y == w[k - 1] IN IF y = Null THEN Null ELSE link[y]
    OBVIOUS
  <2> QED BY <2>1, <2>2
<1>11. w[0] = x /\ \A k \in 1 .. N : w[k] = IF w[k - 1] = Null THEN Null ELSE link[w[k - 1]]
  BY <1>1, <1>7, <1>10
<1>12. \A k \in 0 .. N : w[k] \in Ref
  <2>1. \A k \in 1 .. N : w[k - 1] \in Ref => w[k] \in Ref
    BY <1>11 DEF Ref
  <2> QED BY <1>1, <1>11, <2>1, StaysIn
<1> QED BY <1>11, <1>12 DEF w

\* What holds at the start and is kept by every round holds after n of them.
LEMMA Rounds ==
    ASSUME NEW n \in Nat, NEW T, 0 \in T, \A k \in 1 .. n : k - 1 \in T => k \in T
    PROVE  \A k \in 0 .. n : k \in T
<1> DEFINE f == [k \in 0 .. n |-> k]
<1>1. f[0] \in T
  OBVIOUS
<1>2. \A k \in 1 .. n : k - 1 \in 0 .. n /\ k \in 0 .. n
  OBVIOUS
<1>3. \A k \in 1 .. n : f[k - 1] \in T => f[k] \in T
  BY <1>2
<1>4. \A k \in 0 .. n : f[k] = k
  OBVIOUS
<1> HIDE DEF f
<1>5. \A k \in 0 .. n : f[k] \in T
  BY <1>1, <1>3, StaysIn
<1> QED BY <1>4, <1>5

\* i links from x on side s: y is in the tree, with the same bound on that
\* side, and farther from x than i links.
Down(S, b, x, s, i, y) ==
    /\ y \in S /\ b[s][y] = b[s][x]
    /\ IF s = "left" THEN y <= x - i ELSE x + i <= y

\* Every node of a walk down is.
LEMMA DownWalk ==
    ASSUME NEW t, NEW S, NEW b, Shape(t, S, b), NEW x \in S, NEW s \in Side
    PROVE  \A i \in 0 .. N : Walk(x, t[s])[i] # Null => Down(S, b, x, s, i, Walk(x, t[s])[i])
<1> DEFINE w == Walk(x, t[s])
           T == {i \in 0 .. N : w[i] # Null => Down(S, b, x, s, i, w[i])}
<1>1. N \in Nat
  BY RbAssumption
<1>2. x \in Ref /\ t[s] \in [Node -> Ref] /\ x \in Int
  BY Numbers DEF Shape, Trees, Side
<1>3. w[0] = x /\ \A i \in 1 .. N : /\ w[i - 1] = Null => w[i] = Null
                                    /\ w[i - 1] # Null => w[i] = t[s][w[i - 1]]
  BY <1>2, WalkIs
<1> HIDE DEF w
<1>4. 0 \in T
  BY <1>1, <1>2, <1>3 DEF Down
<1>5. ASSUME NEW k \in 1 .. N, k - 1 \in T PROVE k \in T
  <2> SUFFICES ASSUME w[k] # Null PROVE Down(S, b, x, s, k, w[k])
    OBVIOUS
  <2>1. w[k - 1] # Null /\ w[k] = t[s][w[k - 1]]
    BY <1>3
  <2> DEFINE y == w[k - 1]
             z == w[k]
  <2>2. Down(S, b, x, s, k - 1, y)
    BY <1>5, <2>1
  <2>3. z = t[s][y] /\ z # Null
    BY <2>1
  <2> HIDE DEF y, z
  <2>4. y \in S /\ b[s][y] = b[s][x] /\ (IF s = "left" THEN y <= x - (k - 1) ELSE x + (k - 1) <= y)
    BY <2>2 DEF Down
  <2>5. z \in S /\ b[s][z] = b[s][y] /\ On(s, z, y)
    BY <2>3, <2>4, ChildIs
  <2>6. y \in Int /\ z \in Int /\ k \in Int
    BY <2>4, <2>5, Numbers
  <2>7. IF s = "left" THEN z <= x - k ELSE x + k <= z
    BY <1>2, <2>4, <2>5, <2>6 DEF On
  <2>8. Down(S, b, x, s, k, z)
    BY <2>4, <2>5, <2>7 DEF Down
  <2> QED BY <2>8 DEF z
<1> HIDE DEF T
<1>6. \A k \in 0 .. N : k \in T
  BY <1>1, <1>4, <1>5, Rounds
<1> QED BY <1>6 DEF T, w

\* The end of a walk down on side s from x.
IsEnd(t, S, b, x, s, y) ==
    /\ y \in S /\ t[s][y] = Null /\ b[s][y] = b[s][x]
    /\ \/ y = x
       \/ t.parent[y] \in S /\ t[s][t.parent[y]] = y /\ b[s][t.parent[y]] = b[s][x]

\* __rb_leftmost() and __rb_rightmost() get there before N links are over.
LEMMA OutermostIs ==
    ASSUME NEW t, NEW S, NEW b, Shape(t, S, b), NEW x \in S, NEW s \in Side
    PROVE  IsEnd(t, S, b, x, s, Outermost(t, x, s))
<1> DEFINE w == Walk(x, t[s])
           P(i) == w[i] # Null /\ (i = N \/ w[i + 1] = Null)
<1>1. N \in Nat
  BY RbAssumption
<1>2. x \in Ref /\ t[s] \in [Node -> Ref] /\ x \in Int /\ x # Null /\ 1 <= x /\ x <= N
  <2>1. x \in Node /\ x \in Ref /\ x # Null
    BY Numbers
  <2>2. t[s] \in [Node -> Ref]
    BY DEF Shape, Trees, Side
  <2> QED BY <1>1, <2>1, <2>2 DEF Node
<1>3. /\ \A i \in 0 .. N : w[i] \in Ref
      /\ w[0] = x /\ \A i \in 1 .. N : /\ w[i - 1] = Null => w[i] = Null
                                       /\ w[i - 1] # Null => w[i] = t[s][w[i - 1]]
  BY <1>2, WalkIs
<1>4. Outermost(t, x, s) = w[CHOOSE i \in 0 .. N : P(i)]
  BY <1>2 DEF Outermost, Walk, IsWalk
<1>5. \A i \in 0 .. N : w[i] # Null => Down(S, b, x, s, i, w[i])
  BY DownWalk
<1> HIDE DEF w
<1>6. \A i \in 0 .. N : w[i] # Null => i # N
  <2> SUFFICES ASSUME w[N] # Null PROVE FALSE
    BY <1>1
  <2>1. w[N] \in S /\ (IF s = "left" THEN w[N] <= x - N ELSE x + N <= w[N])
    BY <1>1, <1>5 DEF Down
  <2>2. w[N] \in Node
    BY <2>1, Numbers
  <2>3. w[N] \in Int /\ 1 <= w[N] /\ w[N] <= N
    BY <1>1, <2>2 DEF Node
  <2> QED BY <1>1, <1>2, <2>1, <2>3
<1>7. \E i \in 0 .. N : P(i)
  <2> SUFFICES ASSUME \A i \in 0 .. N : ~ P(i) PROVE FALSE
    OBVIOUS
  <2> DEFINE T == {i \in 0 .. N : w[i] # Null}
  <2>1. 0 \in T
    BY <1>1, <1>2, <1>3
  <2>2. ASSUME NEW k \in 1 .. N, k - 1 \in T PROVE k \in T
    <3>1. k - 1 \in 0 .. N /\ k - 1 # N /\ (k - 1) + 1 = k
      BY <1>1
    <3> QED BY <2>2, <3>1
  <2> HIDE DEF T
  <2>3. N \in T
    BY <1>1, <2>1, <2>2, Rounds
  <2> QED BY <1>6, <2>3 DEF T
<1>8. PICK i \in 0 .. N : P(i) /\ Outermost(t, x, s) = w[i]
  BY <1>4, <1>7
<1> DEFINE y == w[i]
<1>9. y # Null /\ i # N /\ w[i + 1] = Null
  BY <1>6, <1>8
<1>10. y \in S /\ b[s][y] = b[s][x]
  BY <1>5, <1>9 DEF Down
<1>11. t[s][y] = Null
  <2>1. i + 1 \in 1 .. N /\ (i + 1) - 1 = i
    BY <1>1, <1>9
  <2>2. w[(i + 1) - 1] # Null => w[i + 1] = t[s][w[(i + 1) - 1]]
    BY <1>3, <2>1
  <2> QED BY <1>9, <2>1, <2>2
<1>12. ASSUME y # x PROVE t.parent[y] \in S /\ t[s][t.parent[y]] = y /\ b[s][t.parent[y]] = b[s][x]
  <2>1. i \in 1 .. N /\ i - 1 \in 0 .. N
    BY <1>1, <1>3, <1>12
  <2> DEFINE q == w[i - 1]
  <2>2. q # Null /\ y = t[s][q]
    BY <1>3, <1>9, <2>1
  <2>3. q \in S /\ b[s][q] = b[s][x]
    BY <1>5, <2>1, <2>2 DEF Down
  <2> HIDE DEF q, y
  <2>4. t.parent[y] = q
    BY <1>9, <2>2, <2>3, ChildIs
  <2> QED BY <2>2, <2>3, <2>4
<1> QED BY <1>8, <1>10, <1>11, <1>12 DEF IsEnd

-----------------------------------------------------------------------------
(* rb_erase() *)

\* The links of n are cleared.
Wipe(t, n) ==
    [t EXCEPT !.left[n] = Null, !.right[n] = Null, !.parent[n] = Null, !.color[n] = RED]

Wiped(t, u, n) ==
    /\ u \in Trees /\ u.root = t.root
    /\ \A y \in Node \ {n} : /\ u.parent[y] = t.parent[y] /\ u.color[y] = t.color[y]
                             /\ \A z \in Side : u[z][y] = t[z][y]

\* Clearing the links of n changes no other node.
LEMMA WipeIs ==
    ASSUME NEW t \in Trees, NEW n \in Node
    PROVE  Wiped(t, Wipe(t, n), n)
<1> DEFINE u == Wipe(t, n)
<1>1. /\ u \in Trees /\ u.root = t.root
      /\ \A y \in Node \ {n} : /\ u.parent[y] = t.parent[y] /\ u.color[y] = t.color[y]
                               /\ u.left[y] = t.left[y] /\ u.right[y] = t.right[y]
  BY DEF Wipe, Trees, Ref
<1> HIDE DEF u
<1>2. \A y \in Node \ {n}, z \in Side : u[z][y] = t[z][y]
  BY <1>1 DEF Side
<1>3. Wiped(t, u, n)
  BY <1>1, <1>2 DEF Wiped
<1> QED BY <1>3 DEF u

\* A node with one child at most.
LEMMA UnlinkOne ==
    ASSUME NEW t, NEW S, NEW b, Shape(t, S, b), NEW n \in S, NEW d \in Side, t[d][n] = Null,
           NEW c, c = t[Other(d)][n]
    PROVE  /\ Spliced(t, Unlink(t, n).tree, S, n, c)
           /\ Unlink(t, n).c = c /\ Unlink(t, n).p = t.parent[n]
           /\ Unlink(t, n).color = t.color[n]
<1> DEFINE p == t.parent[n]
           t1 == rb_set_parent(t, c, p)
           t2 == Relink(t1, p, n, c)
           u == Wipe(t2, n)
<1>1. ~ (t.left[n] # Null /\ t.right[n] # Null) /\ c = IF t.left[n] # Null THEN t.left[n] ELSE t.right[n]
  BY DEF Side, Other
<1>2. Unlink(t, n) = [tree |-> u, c |-> c, p |-> p, color |-> t.color[n]]
  <2>1. CASE t.left[n] = Null
    <3>1. Unlink(t, n) =
              [tree |-> Wipe(Relink(rb_set_parent(t, t.right[n], p), p, n, t.right[n]), n),
               c |-> t.right[n], p |-> p, color |-> t.color[n]]
      BY <2>1, ZenonT(60) DEF Unlink, Wipe
    <3>2. t.right[n] = c
      BY <1>1, <2>1
    <3> QED BY <3>1, <3>2, Zenon
  <2>2. CASE t.left[n] # Null
    <3>1. t.right[n] = Null /\ t.left[n] = c
      BY <1>1, <2>2
    <3>2. Unlink(t, n) =
              [tree |-> Wipe(Relink(rb_set_parent(t, t.left[n], p), p, n, t.left[n]), n),
               c |-> t.left[n], p |-> p, color |-> t.color[n]]
      BY <2>2, <3>1, ZenonT(60) DEF Unlink, Wipe
    <3> QED BY <3>1, <3>2, Zenon
  <2> QED BY <2>1, <2>2
<1>3. t \in Trees /\ n \in Node /\ n # Null /\ p \in Ref /\ c \in Ref /\ S \subseteq Node
  BY Numbers, Sides DEF Shape
<1>4. p # Null => p \in S /\ HasChild(t, p, n)
  BY ParentIs
<1>5. c # n
  BY <1>3, Sides, OneSide
<1> HIDE DEF p
<1>6. SetsParent(t, t1, c, p)
  BY <1>3, ParentSet
<1> HIDE DEF t1
<1>7. SetsLink(t1, t2, p, n, c)
  <2>1. t1 \in Trees /\ (p # Null => HasChild(t1, p, n))
    BY <1>4, <1>6, Sides DEF SetsParent, HasChild
  <2> QED BY <1>3, <2>1, LinkSet
<1> HIDE DEF t2
<1>8. Wiped(t2, u, n)
  BY <1>3, <1>7, WipeIs DEF SetsLink
<1> HIDE DEF u
<1>9. \A y \in S \ {n} : y \in Node \ {n}
  BY <1>3
<1>10. \A y \in S, z \in Side : t[z][y] = n => y = p
  BY <1>3, ChildIs DEF p
<1>11. \A y \in S \ {n}, z \in Side : u[z][y] = IF t[z][y] = n THEN c ELSE t[z][y]
  <2> TAKE y \in S \ {n}, z \in Side
  <2>1. u[z][y] = t2[z][y]
    BY <1>8, <1>9 DEF Wiped
  <2>2. t2[z][y] = IF y = p /\ t1[z][p] = n THEN c ELSE t1[z][y]
    BY <1>7, <1>9 DEF SetsLink
  <2>3. t1[z] = t[z]
    BY <1>6 DEF SetsParent
  <2> QED BY <1>10, <2>1, <2>2, <2>3
<1>12. \A y \in S \ {n} : /\ u.parent[y] = IF y = c THEN p ELSE t.parent[y]
                          /\ u.color[y] = t.color[y]
  BY <1>6, <1>7, <1>8, <1>9 DEF Wiped, SetsLink, SetsParent
<1>13. u \in Trees /\ u.root = IF p = Null THEN c ELSE t.root
  BY <1>6, <1>7, <1>8 DEF Wiped, SetsLink, SetsParent
<1>14. Spliced(t, u, S, n, c)
  BY <1>11, <1>12, <1>13 DEF Spliced, p
<1> QED BY <1>2, <1>14 DEF p

\* x is the next node after n, which has two children.
Successor(t, S, b, n, x) ==
    /\ n \in S /\ x \in S /\ t.left[n] # Null /\ t.right[n] # Null
    /\ t.left[x] = Null /\ b["left"][x] = n
    /\ x = t.right[n] \/ (t.parent[x] \in S /\ t.left[t.parent[x]] = x)

\* rb_next() of a node with two children, as rb_erase() uses it.
LEMMA SuccessorIs ==
    ASSUME NEW t, NEW S, NEW b, Shape(t, S, b), NEW n \in S, t.left[n] # Null, t.right[n] # Null
    PROVE  Successor(t, S, b, n, rb_next(t, n))
<1> DEFINE r == t.right[n]
           x == rb_next(t, n)
<1>1. x = Outermost(t, r, "left")
  BY DEF rb_next
<1>2. r \in S /\ b["left"][r] = n
  BY ChildIs DEF Side, Other
<1> HIDE DEF r, x
<1>3. IsEnd(t, S, b, r, "left", x)
  BY <1>1, <1>2, OutermostIs DEF Side
<1>4. Successor(t, S, b, n, x)
  BY <1>2, <1>3 DEF IsEnd, Successor, r
<1> QED BY <1>4 DEF x

\* u is t with x in the place of n, and c in that of x, below p.
Replaced(t, u, S, n, x, c, p) ==
    /\ u \in Trees
    /\ u.root = IF t.parent[n] = Null THEN x ELSE t.root
    /\ u.parent[x] = t.parent[n] /\ u.color[x] = t.color[n]
    /\ \A z \in Side : u[z][x] = IF t[z][n] = x THEN c ELSE t[z][n]
    /\ \A y \in S \ {n, x} :
         /\ u.parent[y] = IF y = c THEN p ELSE Sub(n, x, t.parent[y])
         /\ u.color[y] = t.color[y]
         /\ \A z \in Side : u[z][y] = IF t[z][y] = x THEN c ELSE Sub(n, x, t[z][y])

\* What is known of the nodes around n and x.
Around(t, S, n, x, c, q) ==
    /\ n \in Node /\ x \in Node /\ n < x /\ n # x /\ n # Null /\ x # Null
    /\ q \in Ref /\ q # x /\ q # n /\ (q # Null => q \in S /\ HasChild(t, q, n))
    /\ c \in S \cup {Null} /\ c # n /\ c # x /\ (c # Null => t.parent[c] = x)
    /\ t.parent[x] \in S /\ t.parent[x] # x
    /\ \A z \in Side : t[z][n] \in S /\ t.parent[t[z][n]] = n /\ t[z][n] # n /\ t[z][n] # c
    /\ \A y \in S, z \in Side : (t[z][y] = n => y = q) /\ (t[z][y] = x => y = t.parent[x])
    /\ \A y \in S : t.parent[y] = n => y \in {t.left[n], t.right[n]}
    /\ t.left[n] # x

\* It follows from the order of the tree.
LEMMA AroundIs ==
    ASSUME NEW t, NEW S, NEW b, Shape(t, S, b), NEW n, NEW x, Successor(t, S, b, n, x)
    PROVE  Around(t, S, n, x, t.right[x], t.parent[n])
<1> DEFINE q == t.parent[n]
           c == t.right[x]
<1>1. /\ n \in S /\ x \in S /\ t.left[n] # Null /\ t.right[n] # Null
      /\ t.left[x] = Null /\ b["left"][x] = n
      /\ x = t.right[n] \/ (t.parent[x] \in S /\ t.left[t.parent[x]] = x)
  BY DEF Successor
<1>2. \A y \in S : y \in Node /\ y \in Ref /\ y \in Int /\ y # Null /\ t.parent[y] \in Ref
  BY Numbers
<1>3. n < x /\ n # x
  <2>1. b["left"][x] < x
    BY <1>1, Numbers
  <2> QED BY <1>1, <1>2, <2>1
<1>4. \A y \in S, z \in Side : t[z][y] # Null =>
        t[z][y] \in S /\ t.parent[t[z][y]] = y /\ t[z][y] # y /\ On(z, t[z][y], y)
  BY ChildIs, OneSide
<1>5. \A y \in S : t.parent[y] # Null => t.parent[y] \in S /\ HasChild(t, t.parent[y], y)
  BY ParentIs
<1>6. \A y \in S : t.left[y] # Null => /\ t.left[y] \in S /\ t.parent[t.left[y]] = y
                                       /\ t.left[y] # y /\ t.left[y] < y
  BY <1>4 DEF Side, On
<1>7. \A y \in S : t.right[y] # Null => /\ t.right[y] \in S /\ t.parent[t.right[y]] = y
                                        /\ t.right[y] # y /\ y < t.right[y]
  BY <1>4 DEF Side, On
<1>8. \A y \in S : t.parent[y] # Null => y \in {t.left[t.parent[y]], t.right[t.parent[y]]}
  BY <1>5 DEF HasChild, Side
<1>9. q # x /\ q # n
  <2>1. ASSUME q = x PROVE FALSE
    <3>1. n = t.right[x]
      BY <1>1, <1>2, <1>8, <2>1
    <3>2. x < n
      BY <1>1, <1>2, <1>7, <3>1
    <3> QED BY <1>1, <1>2, <1>3, <3>2
  <2>2. ASSUME q = n PROVE FALSE
    <3>1. n \in {t.left[n], t.right[n]}
      BY <1>1, <1>2, <1>8, <2>2
    <3> QED BY <1>1, <1>2, <1>6, <1>7, <3>1
  <2> QED BY <2>1, <2>2
<1>10. t.parent[x] \in S /\ t.parent[x] # x
  <2>1. t.parent[x] \in S
    BY <1>1, <1>7
  <2>2. ASSUME t.parent[x] = x PROVE FALSE
    <3>1. x \in {t.left[x], t.right[x]}
      BY <1>1, <1>2, <1>8, <2>2
    <3> QED BY <1>1, <1>2, <1>7, <3>1
  <2> QED BY <2>1, <2>2
<1>11. c \in S \cup {Null} /\ (c # Null => t.parent[c] = x /\ c # x)
  BY <1>1, <1>7
<1>12. c # n /\ c # x
  BY <1>1, <1>2, <1>9, <1>11
<1>13. \A z \in Side : t[z][n] \in S /\ t.parent[t[z][n]] = n /\ t[z][n] # n /\ t[z][n] # c
  <2>1. \A z \in Side : t[z][n] # Null
    BY <1>1 DEF Side
  <2> QED BY <1>1, <1>3, <1>4, <1>11, <2>1
<1>14. \A y \in S, z \in Side : (t[z][y] = n => y = q) /\ (t[z][y] = x => y = t.parent[x])
  BY <1>1, <1>2, <1>4
<1>15. \A y \in S : t.parent[y] = n => y \in {t.left[n], t.right[n]}
  BY <1>1, <1>2, <1>8
<1>16. t.left[n] # x
  BY <1>1, <1>2, <1>3, <1>6
<1>17. q \in Ref /\ (q # Null => q \in S /\ HasChild(t, q, n))
  BY <1>1, <1>2, <1>5
<1> QED BY <1>1, <1>2, <1>3, <1>9, <1>10, <1>11, <1>12, <1>13, <1>14, <1>15, <1>16, <1>17 DEF Around

\* The parts of what Unlink makes.
LEMMA Fields ==
    ASSUME NEW r, NEW u, NEW c, NEW p, NEW k, r = [tree |-> u, c |-> c, p |-> p, color |-> k]
    PROVE  r.tree = u /\ r.c = c /\ r.p = p /\ r.color = k
OBVIOUS

\* Unlink() makes x, which p is above c for, take the place of n.
UnlinksTo(t, S, n, x, c, p) ==
    /\ Replaced(t, Unlink(t, n).tree, S, n, x, c, p)
    /\ Unlink(t, n).c = c /\ Unlink(t, n).p = p
    /\ Unlink(t, n).color = t.color[x]

\* The next node is the right child.
LEMMA UnlinkNear ==
    ASSUME NEW t, NEW S, NEW b, Shape(t, S, b), NEW n, NEW x, x = rb_next(t, n),
           NEW c, c = t.right[x], Successor(t, S, b, n, x), x = t.right[n]
    PROVE  UnlinksTo(t, S, n, x, c, x)
<1> DEFINE q == t.parent[n]
           l == t.left[n]
           a == [t EXCEPT !.left[x] = l, !.parent[x] = q, !.color[x] = t.color[n]]
           t1 == rb_set_parent(a, l, x)
           t2 == Relink(t1, q, n, x)
           u == Wipe(t2, n)
<1>1. l # Null /\ t.right[n] # Null /\ n \in S /\ x \in S /\ t.left[x] = Null
  BY DEF Successor
<1>2. Unlink(t, n) = [tree |-> u, c |-> c, p |-> x, color |-> t.color[x]]
  BY <1>1, ZenonT(60) DEF Unlink, Wipe
<1>3. Around(t, S, n, x, c, q)
  BY AroundIs
<1>4. /\ n \in Node /\ x \in Node /\ n # x /\ n # Null /\ x # Null
      /\ q \in Ref /\ q # x /\ q # n /\ (q # Null => q \in S /\ HasChild(t, q, n))
      /\ c \in S \cup {Null} /\ c # n /\ c # x /\ (c # Null => t.parent[c] = x)
      /\ \A y \in S, z \in Side : (t[z][y] = n => y = q) /\ (t[z][y] = x => y = t.parent[x])
      /\ \A y \in S : t.parent[y] = n => y \in {l, x}
      /\ l # x
  BY <1>3 DEF Around
<1>5. l \in S /\ t.parent[l] = n /\ l # n /\ l # c /\ t.parent[x] = n
  BY <1>3 DEF Around, Side
<1>6. t \in Trees /\ S \subseteq Node /\ l \in Ref /\ x \in Ref /\ l \in Node
  BY <1>4, <1>5 DEF Shape, Ref
<1> HIDE DEF q, l
<1>7. /\ a \in Trees /\ a.root = t.root
      /\ \A y \in Node : /\ a.parent[y] = IF y = x THEN q ELSE t.parent[y]
                         /\ a.color[y] = IF y = x THEN t.color[n] ELSE t.color[y]
                         /\ a.left[y] = IF y = x THEN l ELSE t.left[y]
                         /\ a.right[y] = t.right[y]
  BY <1>4, <1>6 DEF Trees
<1> HIDE DEF a
<1>8. SetsParent(a, t1, l, x)
  BY <1>6, <1>7, ParentSet
<1> HIDE DEF t1
<1>9. \A y \in Node, z \in Side : t1[z][y] = IF y = x /\ z = "left" THEN l ELSE t[z][y]
  <2>1. \A y \in Node, z \in Side : a[z][y] = IF y = x /\ z = "left" THEN l ELSE t[z][y]
    BY <1>7 DEF Side
  <2> QED BY <1>8, <2>1 DEF SetsParent
<1>10. q # Null => HasChild(t1, q, n)
  <2> SUFFICES ASSUME q # Null PROVE HasChild(t1, q, n)
    OBVIOUS
  <2>1. PICK z \in Side : t[z][q] = n /\ t[Other(z)][q] # n
    BY <1>4 DEF HasChild
  <2>2. q \in Node /\ Other(z) \in Side
    BY <1>4, <1>6, Sides
  <2>3. t1[z][q] = t[z][q] /\ t1[Other(z)][q] = t[Other(z)][q]
    BY <1>4, <1>9, <2>2
  <2> QED BY <2>1, <2>3 DEF HasChild
<1>11. SetsLink(t1, t2, q, n, x)
  BY <1>4, <1>6, <1>8, <1>10, LinkSet DEF SetsParent
<1> HIDE DEF t2
<1>12. Wiped(t2, u, n)
  BY <1>4, <1>11, WipeIs DEF SetsLink
<1> HIDE DEF u
<1>13. \A y \in Node \ {n} :
         /\ u.parent[y] = IF y = l THEN x ELSE IF y = x THEN q ELSE t.parent[y]
         /\ u.color[y] = IF y = x THEN t.color[n] ELSE t.color[y]
  BY <1>7, <1>8, <1>11, <1>12 DEF Wiped, SetsLink, SetsParent
<1>14. \A y \in Node \ {n}, z \in Side :
         u[z][y] = IF y = q /\ t[z][q] = n THEN x
                   ELSE IF y = x /\ z = "left" THEN l ELSE t[z][y]
  <2> TAKE y \in Node \ {n}, z \in Side
  <2>1. u[z][y] = t2[z][y]
    BY <1>12 DEF Wiped
  <2>2. t2[z][y] = IF y = q /\ t1[z][q] = n THEN x ELSE t1[z][y]
    BY <1>11 DEF SetsLink
  <2> QED BY <1>4, <1>9, <2>1, <2>2
<1>15. u \in Trees /\ u.root = IF q = Null THEN x ELSE t.root
  BY <1>7, <1>8, <1>11, <1>12 DEF Wiped, SetsLink, SetsParent
<1>16. u.parent[x] = q /\ u.color[x] = t.color[n]
  BY <1>4, <1>13
<1>17. \A z \in Side : u[z][x] = IF t[z][n] = x THEN c ELSE t[z][n]
  <2>1. u["left"][x] = l /\ u["right"][x] = c
    BY <1>4, <1>14 DEF Side
  <2>2. t["left"][n] = l /\ t["right"][n] = x
    BY DEF l
  <2> QED BY <1>4, <2>1, <2>2 DEF Side
<1>18. \A y \in S \ {n, x} : u.parent[y] = IF y = c THEN x ELSE Sub(n, x, t.parent[y])
  <2> TAKE y \in S \ {n, x}
  <2>1. y \in Node \ {n} /\ y # Null
    BY <1>6, Numbers
  <2> QED BY <1>4, <1>5, <1>13, <2>1 DEF Sub
<1>19. \A y \in S \ {n, x}, z \in Side : u[z][y] = IF t[z][y] = x THEN c ELSE Sub(n, x, t[z][y])
  <2> TAKE y \in S \ {n, x}, z \in Side
  <2>1. y \in Node \ {n}
    BY <1>6
  <2>2. t[z][y] # x
    BY <1>4, <1>5
  <2> QED BY <1>4, <1>14, <2>1, <2>2 DEF Sub
<1>20. \A y \in S \ {n, x} : u.color[y] = t.color[y]
  BY <1>6, <1>13
<1>21. Replaced(t, u, S, n, x, c, x)
  BY <1>15, <1>16, <1>17, <1>18, <1>19, <1>20 DEF Replaced, q
<1>22. /\ Unlink(t, n).tree = u /\ Unlink(t, n).c = c /\ Unlink(t, n).p = x
       /\ Unlink(t, n).color = t.color[x]
  <2> DEFINE w == Unlink(t, n)
             k == t.color[x]
  <2>1. w = [tree |-> u, c |-> c, p |-> x, color |-> k]
    BY <1>2
  <2> HIDE DEF w, k
  <2>2. w.tree = u /\ w.c = c /\ w.p = x /\ w.color = k
    BY <2>1, Fields
  <2> QED BY <2>2 DEF w, k
<1> QED BY <1>21, <1>22 DEF UnlinksTo

\* The next node is farther down.
LEMMA UnlinkFar ==
    ASSUME NEW t, NEW S, NEW b, Shape(t, S, b), NEW n, NEW x, x = rb_next(t, n),
           NEW c, c = t.right[x], Successor(t, S, b, n, x), x # t.right[n]
    PROVE  UnlinksTo(t, S, n, x, c, t.parent[x]) /\ t.parent[x] # n
<1> DEFINE q == t.parent[n]
           p == t.parent[x]
           l == t.left[n]
           r == t.right[n]
           a == [t EXCEPT !.left[x] = l, !.right[x] = r, !.parent[x] = q, !.color[x] = t.color[n]]
           d == [a EXCEPT !["left"][p] = c]
           e == rb_set_parent(d, c, p)
           g == rb_set_parent(e, l, x)
           t1 == rb_set_parent(g, r, x)
           t2 == Relink(t1, q, n, x)
           u == Wipe(t2, n)
<1>1. /\ l # Null /\ r # Null /\ n \in S /\ x \in S /\ t.left[x] = Null
      /\ p \in S /\ t.left[p] = x
  BY DEF Successor
<1>3. Around(t, S, n, x, c, q)
  BY AroundIs
<1>4. /\ n \in Node /\ x \in Node /\ n # x /\ n # Null /\ x # Null
      /\ q \in Ref /\ q # x /\ q # n /\ (q # Null => q \in S /\ HasChild(t, q, n))
      /\ c \in S \cup {Null} /\ c # n /\ c # x /\ (c # Null => t.parent[c] = x)
      /\ p # x /\ l # x
      /\ \A y \in S, z \in Side : (t[z][y] = n => y = q) /\ (t[z][y] = x => y = p)
      /\ \A y \in S : t.parent[y] = n => y \in {l, r}
  BY <1>3 DEF Around
<1>5. /\ l \in S /\ t.parent[l] = n /\ l # n /\ l # c
      /\ r \in S /\ t.parent[r] = n /\ r # n /\ r # c
  BY <1>3 DEF Around, Side
<1>6. /\ t \in Trees /\ S \subseteq Node /\ l \in Ref /\ r \in Ref /\ x \in Ref
      /\ p \in Node /\ p \in Ref /\ c \in Ref
  BY <1>1, <1>4, <1>5 DEF Shape, Ref
<1>7. t.right[p] # x /\ p # n
  <2>1. t["left"][p] # t[Other("left")][p]
    BY <1>1, <1>4, OneSide DEF Side
  <2> QED BY <1>1, <1>4, <2>1 DEF Other
<1>8. /\ a \in Trees /\ a.root = t.root
      /\ \A y \in Node : /\ a.parent[y] = IF y = x THEN q ELSE t.parent[y]
                         /\ a.color[y] = IF y = x THEN t.color[n] ELSE t.color[y]
                         /\ a.left[y] = IF y = x THEN l ELSE t.left[y]
                         /\ a.right[y] = IF y = x THEN r ELSE t.right[y]
  <2> HIDE DEF l, r, q
  <2> QED BY <1>4, <1>6 DEF Trees
<1>9. SetsChild(a, d, p, "left", c)
  <2> HIDE DEF a, p
  <2> QED BY <1>6, <1>8, ChildSet DEF Side
<1>10. SetsParent(d, e, c, p)
  <2> HIDE DEF a, p, d
  <2> QED BY <1>6, <1>9, ParentSet DEF SetsChild
<1>11. e.left[x] = l /\ e.right[x] = r
  <2>1. e["left"][x] = d["left"][x] /\ e["right"][x] = d["right"][x]
    BY <1>10, Zenon DEF SetsParent, Side
  <2>2. d["left"][x] = a["left"][x] /\ d["right"][x] = a["right"][x]
    <3> HIDE DEF a, d, e, p
    <3> QED BY <1>4, <1>9 DEF SetsChild, Side
  <2> HIDE DEF a, d, e
  <2> QED BY <1>4, <1>8, <2>1, <2>2
<1>12. Unlink(t, n) = [tree |-> u, c |-> c, p |-> p, color |-> t.color[x]]
  <2> DEFINE moved == rb_set_parent([a EXCEPT !.left[p] = c], c, p)
             s1 == rb_set_parent(rb_set_parent(moved, moved.left[x], x), moved.right[x], x)
  <2>1. Unlink(t, n) = [tree |-> Wipe(Relink(s1, q, n, x), n), c |-> c, p |-> p, color |-> t.color[x]]
    BY <1>1, ZenonT(60) DEF Unlink, Wipe
  <2>2. moved = e
    OBVIOUS
  <2> HIDE DEF moved, e, a
  <2>3. s1 = t1
    BY <1>11, <2>2
  <2> HIDE DEF s1, t1
  <2> QED BY <2>1, <2>3
<1> HIDE DEF q, l, r, p, a, d, e
<1>13. SetsParent(e, g, l, x)
  <2>1. e \in Trees
    BY <1>10 DEF SetsParent
  <2> QED BY <1>6, <2>1, ParentSet
<1> HIDE DEF g
<1>14. SetsParent(g, t1, r, x)
  <2>1. g \in Trees
    BY <1>13 DEF SetsParent
  <2> QED BY <1>6, <2>1, ParentSet
<1> HIDE DEF t1
<1>15. \A y \in Node, z \in Side :
         t1[z][y] = IF y = p /\ z = "left" THEN c ELSE IF y = x THEN t[z][n] ELSE t[z][y]
  <2>1. \A y \in Node, z \in Side : a[z][y] = IF y = x THEN t[z][n] ELSE t[z][y]
    BY <1>8 DEF Side, l, r
  <2>2. \A y \in Node, z \in Side : d[z][y] = IF y = p /\ z = "left" THEN c ELSE a[z][y]
    BY <1>9 DEF SetsChild
  <2>3. \A z \in Side : t1[z] = d[z]
    BY <1>10, <1>13, <1>14 DEF SetsParent
  <2> QED BY <2>1, <2>2, <2>3
<1>16. q # Null => HasChild(t1, q, n)
  <2> SUFFICES ASSUME q # Null PROVE HasChild(t1, q, n)
    OBVIOUS
  <2>1. PICK z \in Side : t[z][q] = n /\ t[Other(z)][q] # n
    BY <1>4 DEF HasChild
  <2>2. q \in Node /\ Other(z) \in Side
    BY <1>4, <1>6, Sides
  <2>3. t1[z][q] = n
    <3>1. ~ (q = p /\ z = "left")
      BY <1>1, <1>4, <2>1
    <3> QED BY <1>4, <1>15, <2>1, <2>2, <3>1
  <2>4. t1[Other(z)][q] # n
    <3>1. t1[Other(z)][q] = c \/ t1[Other(z)][q] = t[Other(z)][q]
      BY <1>4, <1>15, <2>2
    <3> QED BY <1>4, <2>1, <3>1
  <2> QED BY <2>3, <2>4 DEF HasChild
<1>17. SetsLink(t1, t2, q, n, x)
  BY <1>4, <1>6, <1>14, <1>16, LinkSet DEF SetsParent
<1> HIDE DEF t2
<1>18. Wiped(t2, u, n)
  BY <1>4, <1>17, WipeIs DEF SetsLink
<1> HIDE DEF u
<1>19. \A y \in Node \ {n} :
         /\ u.parent[y] = IF y = r THEN x ELSE IF y = l THEN x ELSE IF y = c THEN p
                          ELSE IF y = x THEN q ELSE t.parent[y]
         /\ u.color[y] = IF y = x THEN t.color[n] ELSE t.color[y]
  <2> TAKE y \in Node \ {n}
  <2>1. u.parent[y] = t1.parent[y] /\ u.color[y] = t1.color[y]
    BY <1>17, <1>18 DEF Wiped, SetsLink
  <2>2. t1.parent[y] = IF y = r THEN x ELSE IF y = l THEN x ELSE e.parent[y]
    BY <1>13, <1>14 DEF SetsParent
  <2>3. e.parent[y] = IF y = c THEN p ELSE a.parent[y]
    BY <1>9, <1>10 DEF SetsParent, SetsChild
  <2>4. t1.color = a.color
    BY <1>9, <1>10, <1>13, <1>14 DEF SetsParent, SetsChild
  <2>5. a.parent[y] = (IF y = x THEN q ELSE t.parent[y]) /\ a.color[y] = IF y = x THEN t.color[n] ELSE t.color[y]
    BY <1>8
  <2> QED BY <2>1, <2>2, <2>3, <2>4, <2>5
<1>20. \A y \in Node \ {n}, z \in Side :
         u[z][y] = IF y = q /\ t1[z][q] = n THEN x ELSE t1[z][y]
  BY <1>17, <1>18 DEF Wiped, SetsLink
<1>21. u \in Trees /\ u.root = IF q = Null THEN x ELSE t.root
  BY <1>8, <1>9, <1>10, <1>13, <1>14, <1>17, <1>18 DEF Wiped, SetsLink, SetsParent, SetsChild
<1>22. u.parent[x] = q /\ u.color[x] = t.color[n]
  <2>1. x # r
    BY DEF r
  <2> QED BY <1>4, <1>19, <2>1
<1>23. \A z \in Side : u[z][x] = IF t[z][n] = x THEN c ELSE t[z][n]
  <2> TAKE z \in Side
  <2>1. t[z][n] # x
    BY <1>4 DEF l, r, Side
  <2>2. u[z][x] = t1[z][x]
    BY <1>4, <1>20
  <2>3. t1[z][x] = t[z][n]
    BY <1>4, <1>15
  <2> QED BY <2>1, <2>2, <2>3
<1>24. \A y \in S \ {n, x} : u.parent[y] = IF y = c THEN p ELSE Sub(n, x, t.parent[y])
  <2> TAKE y \in S \ {n, x}
  <2>1. y \in Node \ {n} /\ y # Null
    BY <1>6, Numbers
  <2> QED BY <1>4, <1>5, <1>19, <2>1 DEF Sub
<1>25. \A y \in S \ {n, x}, z \in Side : u[z][y] = IF t[z][y] = x THEN c ELSE Sub(n, x, t[z][y])
  <2> TAKE y \in S \ {n, x}, z \in Side
  <2>1. y \in Node \ {n}
    BY <1>6
  <2>2. u[z][y] = IF y = q /\ t1[z][q] = n THEN x ELSE t1[z][y]
    BY <1>20, <2>1
  <2>3. t1[z][y] = IF y = p /\ z = "left" THEN c ELSE t[z][y]
    BY <1>15, <2>1
  <2>4. (y = p /\ z = "left") <=> t[z][y] = x
    BY <1>1, <1>4, <1>7 DEF Side
  <2>5. CASE t[z][y] = x
    BY <1>4, <2>2, <2>3, <2>4, <2>5
  <2>6. CASE t[z][y] # x
    BY <1>4, <2>2, <2>3, <2>4, <2>6 DEF Sub
  <2> QED BY <2>5, <2>6
<1>26. \A y \in S \ {n, x} : u.color[y] = t.color[y]
  BY <1>6, <1>19
<1>27. Replaced(t, u, S, n, x, c, p)
  BY <1>21, <1>22, <1>23, <1>24, <1>25, <1>26 DEF Replaced, q
<1>28. /\ Unlink(t, n).tree = u /\ Unlink(t, n).c = c /\ Unlink(t, n).p = p
       /\ Unlink(t, n).color = t.color[x]
  BY <1>12, Fields
<1> QED BY <1>7, <1>27, <1>28 DEF UnlinksTo, p

\* A tree with a node less, in the middle of rb_erase() or after it.
LEMMA GoneValid ==
    ASSUME NEW u, NEW S, NEW b, Shape(u, S, b), NEW h, NEW c, NEW p, NEW k, k \in {RED, BLACK},
           Gone(u, S, h, c, p, k)
    PROVE  Valid(u, S, IF k = BLACK THEN [op |-> "erase", node |-> c, parent |-> p] ELSE Idle)
<1> DEFINE a == [op |-> "erase", node |-> c, parent |-> p]
<1>1. CASE k = BLACK
  <2>1. k # RED
    BY <1>1 DEF RED, BLACK
  <2>2. PICK z \in Side :
          /\ c \in S \cup {Null}
          /\ IF p = Null THEN c = u.root ELSE p \in S /\ u[z][p] = c
          /\ \A y \in S : RedPair(u, y) => c \in {y, u.parent[y]}
          /\ RootBlack(u, c)
          /\ Balanced(u, S, h, IF p = Null THEN {} ELSE {<<p, z>>})
    BY <2>1 DEF Gone
  <2>3. a = [op |-> "erase", node |-> a.node, parent |-> a.parent] /\ a.node = c /\ a.parent = p
    OBVIOUS
  <2> HIDE DEF a
  <2>4. Erasing(u, S, h, a, z)
    BY <2>2, <2>3 DEF Erasing
  <2>5. Valid(u, S, a)
    BY <2>4 DEF Valid
  <2> QED BY <1>1, <2>5 DEF a
<1>2. CASE k = RED
  <2>1. k # BLACK
    BY <1>2 DEF RED, BLACK
  <2>2. Resting(u, S, h, Idle)
    BY <1>2 DEF Gone, Resting
  <2>3. Valid(u, S, Idle)
    BY <2>2 DEF Valid
  <2> QED BY <2>1, <2>3
<1> QED BY <1>1, <1>2

\* t without x, which has no left child.
Splice(t, x) ==
    LET c == t.right[x]
    IN  [root |-> IF t.parent[x] = Null THEN c ELSE t.root,
         left |-> [y \in Node |-> IF t.left[y] = x THEN c ELSE t.left[y]],
         right |-> [y \in Node |-> IF t.right[y] = x THEN c ELSE t.right[y]],
         parent |-> [y \in Node |-> IF y = c THEN t.parent[x] ELSE t.parent[y]],
         color |-> t.color]

\* It is one that x is taken out of.
LEMMA SpliceExists ==
    ASSUME NEW t \in Trees, NEW S, S \subseteq Node, NEW x \in Node
    PROVE  Spliced(t, Splice(t, x), S, x, t.right[x])
<1> DEFINE c == t.right[x]
           p == t.parent[x]
           v == Splice(t, x)
<1>1. c \in Ref /\ p \in Ref /\ t.root \in Ref
  BY DEF Trees
<1>2. v \in Trees
  <2>1. v.left \in [Node -> Ref] /\ v.right \in [Node -> Ref] /\ v.parent \in [Node -> Ref]
        /\ v.color \in [Node -> {RED, BLACK}] /\ v.root \in Ref
    BY <1>1 DEF Splice, Trees
  <2> QED BY <1>1 DEF Splice, Trees
<1>3. /\ v.root = IF p = Null THEN c ELSE t.root
      /\ \A y \in Node : /\ v.left[y] = IF t.left[y] = x THEN c ELSE t.left[y]
                         /\ v.right[y] = IF t.right[y] = x THEN c ELSE t.right[y]
                         /\ v.parent[y] = IF y = c THEN p ELSE t.parent[y]
                         /\ v.color[y] = t.color[y]
  BY DEF Splice
<1> HIDE DEF v, c, p
<1>4. \A y \in Node, z \in Side : v[z][y] = IF t[z][y] = x THEN c ELSE t[z][y]
  BY <1>3 DEF Side
<1>5. Spliced(t, v, S, x, c)
  BY <1>2, <1>3, <1>4 DEF Spliced, p
<1> QED BY <1>5 DEF v, c

\* The next node in the place of n is as good as n, and the next node gone.
LEMMA ReplaceIs ==
    ASSUME NEW t, NEW S, NEW b, Shape(t, S, b), NEW h, Resting(t, S, h, Idle),
           NEW n, NEW x, Successor(t, S, b, n, x), NEW c, c = t.right[x],
           NEW u, NEW p, p = Sub(n, x, t.parent[x]), Replaced(t, u, S, n, x, c, p)
    PROVE  \E k, l : /\ Shape(u, S \ {n}, k)
                     /\ Gone(u, S \ {n}, l, c, p, t.color[x])
<1> DEFINE v == Splice(t, x)
           V == S \ {x}
           q == t.parent[n]
           g == t.parent[x]
<1>1. n \in S /\ x \in S /\ t.left[x] = Null /\ b["left"][x] = n
  BY DEF Successor
<1>2. t \in Trees /\ S \subseteq Node
  BY DEF Shape
<1>3. Around(t, S, n, x, c, q)
  BY AroundIs
<1>4. /\ n \in Node /\ x \in Node /\ n # x /\ n # Null /\ x # Null /\ n < x
      /\ q \in Ref /\ q # x /\ q # n
      /\ c \in S \cup {Null} /\ c # n /\ c # x /\ (c # Null => t.parent[c] = x)
      /\ g \in S /\ g # x
      /\ \A y \in S, z \in Side : (t[z][y] = n => y = q) /\ (t[z][y] = x => y = g)
      /\ \A z \in Side : t[z][n] # n /\ t[z][n] # c
  BY <1>3 DEF Around
<1>5. Spliced(t, v, S, x, c)
  BY <1>1, <1>2, <1>4, SpliceExists
<1> HIDE DEF v
<1>6. c = t[Other("left")][x] /\ "left" \in Side /\ t["left"][x] = Null
  BY <1>1 DEF Side, Other
<1>7. Shape(v, V, SplicedBounds(b, x))
  BY <1>1, <1>5, <1>6, SpliceShape
<1>8. Gone(v, V, h, c, g, t.color[x])
  BY <1>1, <1>5, <1>6, SpliceIs
<1>9. Follows(V, n, x)
  <2>1. \A y \in S : On("left", y, x) => ~ On("left", b["left"][x], y)
    BY <1>1, <1>6, Bare
  <2>2. \A y \in S : y < x => ~ (n < y)
    BY <1>1, <2>1 DEF On
  <2>3. \A y \in S : y \in Int
    BY Numbers
  <2>4. \A y \in V : y <= n \/ x < y
    BY <1>1, <2>2, <2>3
  <2> QED BY <1>1, <1>4, <2>4 DEF Follows
<1>10. /\ v.root = t.root
       /\ \A y \in V : /\ v.parent[y] = IF y = c THEN g ELSE t.parent[y]
                       /\ v.color[y] = t.color[y]
                       /\ \A z \in Side : v[z][y] = IF t[z][y] = x THEN c ELSE t[z][y]
  <2>1. g # Null
    BY <1>4, Numbers
  <2> QED BY <1>5, <2>1 DEF Spliced
<1>11. /\ u \in Trees
       /\ u.root = IF q = Null THEN x ELSE t.root
       /\ u.parent[x] = q /\ u.color[x] = t.color[n]
       /\ \A z \in Side : u[z][x] = IF t[z][n] = x THEN c ELSE t[z][n]
       /\ \A y \in S \ {n, x} :
            /\ u.parent[y] = IF y = c THEN p ELSE Sub(n, x, t.parent[y])
            /\ u.color[y] = t.color[y]
            /\ \A z \in Side : u[z][y] = IF t[z][y] = x THEN c ELSE Sub(n, x, t[z][y])
  BY DEF Replaced
<1>12. Renamed(v, u, V, n, x)
  <2>1. u.root = Sub(n, x, v.root)
    <3>1. q = Null <=> n = t.root
      BY <1>1, Numbers DEF Shape, Rooted, Parents
    <3> QED BY <1>10, <1>11, <3>1 DEF Sub
  <2>2. ASSUME NEW y \in V
        PROVE  /\ u.parent[Sub(n, x, y)] = Sub(n, x, v.parent[y])
               /\ u.color[Sub(n, x, y)] = v.color[y]
               /\ \A z \in Side : u[z][Sub(n, x, y)] = Sub(n, x, v[z][y])
    <3>1. CASE y = n
      <4>1. Sub(n, x, y) = x /\ v.parent[y] = q /\ v.color[y] = t.color[n]
        BY <1>4, <1>10, <3>1 DEF Sub
      <4>2. Sub(n, x, q) = q
        BY <1>4 DEF Sub
      <4>3. \A z \in Side : u[z][x] = Sub(n, x, v[z][n])
        <5> TAKE z \in Side
        <5>1. v[z][n] = IF t[z][n] = x THEN c ELSE t[z][n]
          BY <1>10, <2>2, <3>1
        <5> QED BY <1>4, <1>11, <5>1 DEF Sub
      <4> QED BY <1>11, <3>1, <4>1, <4>2, <4>3
    <3>2. CASE y # n
      <4>1. Sub(n, x, y) = y /\ y \in S \ {n, x}
        BY <3>2 DEF Sub
      <4>2. u.parent[y] = Sub(n, x, v.parent[y])
        <5>1. v.parent[y] = IF y = c THEN g ELSE t.parent[y]
          BY <1>10
        <5>2. u.parent[y] = IF y = c THEN Sub(n, x, g) ELSE Sub(n, x, t.parent[y])
          BY <1>11, <4>1
        <5> QED BY <5>1, <5>2
      <4>3. \A z \in Side : u[z][y] = Sub(n, x, v[z][y])
        <5> TAKE z \in Side
        <5>1. v[z][y] = IF t[z][y] = x THEN c ELSE t[z][y]
          BY <1>10
        <5>2. u[z][y] = IF t[z][y] = x THEN c ELSE Sub(n, x, t[z][y])
          BY <1>11, <4>1
        <5>3. Sub(n, x, c) = c
          BY <1>4 DEF Sub
        <5> QED BY <5>1, <5>2, <5>3
      <4> QED BY <1>10, <1>11, <4>1, <4>2, <4>3
    <3> QED BY <3>1, <3>2
  <2> QED BY <1>11, <2>1, <2>2 DEF Renamed
<1> DEFINE W == RenamedSet(V, n, x)
<1>13. W = S \ {n}
  BY <1>1, <1>4 DEF RenamedSet
<1>14. Shape(u, W, RenamedBounds(SplicedBounds(b, x), n, x))
  BY <1>7, <1>9, <1>12, RenameShape
<1>15. c \in V \cup {Null} /\ g \in V \cup {Null}
  BY <1>4
<1>16. Sub(n, x, c) = c
  BY <1>4 DEF Sub
<1>17. Gone(u, W, RenamedHeights(h, n, x), Sub(n, x, c), Sub(n, x, g), t.color[x])
  BY <1>7, <1>8, <1>9, <1>12, <1>15, RenameIs
<1>18. Gone(u, W, RenamedHeights(h, n, x), c, p, t.color[x])
  BY <1>16, <1>17
<1> QED BY <1>13, <1>14, <1>18

\* rb_erase(), with all three ways to unlink a node.
LEMMA EraseKept ==
    ASSUME RbInv, NEW n \in Node, rb_erase(n) PROVE RbInv'
<1> DEFINE t == tree
           S == linked
           w == Unlink(t, n)
           a == IF w.color = BLACK THEN [op |-> "erase", node |-> w.c, parent |-> w.p] ELSE Idle
<1>1. at = Idle /\ n \in S /\ linked' = S \ {n} /\ tree' = w.tree /\ at' = a
  BY DEF rb_erase
<1>2. PICK b, h : Shape(t, S, b) /\ Resting(t, S, h, Idle)
  BY <1>1, InRest
<1>3. \A y \in S : t.color[y] \in {RED, BLACK}
  BY <1>2 DEF Shape, Trees
<1> HIDE DEF t, S
<1>4. CASE t.left[n] = Null \/ t.right[n] = Null
  <2>1. PICK d \in Side : t[d][n] = Null
    BY <1>4 DEF Side
  <2> DEFINE c == t[Other(d)][n]
  <2>2. /\ Spliced(t, w.tree, S, n, c) /\ w.c = c /\ w.p = t.parent[n] /\ w.color = t.color[n]
    BY <1>1, <1>2, <2>1, UnlinkOne
  <2> HIDE DEF w, c
  <2>3. c = t[Other(d)][n]
    BY DEF c
  <2>4. Shape(w.tree, S \ {n}, SplicedBounds(b, n))
    BY <1>1, <1>2, <2>1, <2>2, <2>3, SpliceShape
  <2>5. Gone(w.tree, S \ {n}, h, w.c, w.p, w.color)
    BY <1>1, <1>2, <2>1, <2>2, <2>3, SpliceIs
  <2>6. w.color \in {RED, BLACK}
    BY <1>1, <1>3, <2>2
  <2>7. Valid(w.tree, S \ {n}, a)
    BY <2>4, <2>5, <2>6, GoneValid
  <2> QED BY <1>1, <2>7 DEF RbInv, S
<1>5. CASE t.left[n] # Null /\ t.right[n] # Null
  <2> DEFINE x == rb_next(t, n)
             c == t.right[x]
  <2>1. Successor(t, S, b, n, x)
    BY <1>1, <1>2, <1>5, SuccessorIs
  <2>2. x = rb_next(t, n) /\ c = t.right[x]
    OBVIOUS
  <2> HIDE DEF x, c
  <2>3. /\ Replaced(t, w.tree, S, n, x, c, w.p) /\ w.c = c
        /\ w.p = Sub(n, x, t.parent[x]) /\ w.color = t.color[x]
    <3>1. CASE x = t.right[n]
      <4>1. UnlinksTo(t, S, n, x, c, x)
        BY <1>2, <2>1, <2>2, <3>1, UnlinkNear
      <4>2. t.parent[x] = n
        BY <1>1, <1>2, <1>5, <3>1, ChildIs DEF Side
      <4>3. Replaced(t, w.tree, S, n, x, c, x) /\ w.c = c /\ w.p = x /\ w.color = t.color[x]
        BY <4>1 DEF UnlinksTo
      <4> HIDE DEF w
      <4> QED BY <4>2, <4>3 DEF Sub
    <3>2. CASE x # t.right[n]
      <4>1. UnlinksTo(t, S, n, x, c, t.parent[x]) /\ t.parent[x] # n
        BY <1>2, <2>1, <2>2, <3>2, UnlinkFar
      <4>2. /\ Replaced(t, w.tree, S, n, x, c, t.parent[x]) /\ w.c = c /\ w.p = t.parent[x]
            /\ w.color = t.color[x]
        BY <4>1 DEF UnlinksTo
      <4> HIDE DEF w
      <4> QED BY <4>1, <4>2 DEF Sub
    <3> QED BY <3>1, <3>2
  <2> HIDE DEF w
  <2>4. PICK k, l : Shape(w.tree, S \ {n}, k) /\ Gone(w.tree, S \ {n}, l, c, w.p, t.color[x])
    BY <1>2, <2>1, <2>2, <2>3, ReplaceIs
  <2>5. Gone(w.tree, S \ {n}, l, w.c, w.p, w.color)
    BY <2>3, <2>4
  <2>6. w.color \in {RED, BLACK}
    BY <1>3, <2>1, <2>3 DEF Successor
  <2>7. Valid(w.tree, S \ {n}, a)
    BY <2>4, <2>5, <2>6, GoneValid
  <2> QED BY <1>1, <2>7 DEF RbInv, S
<1> QED BY <1>4, <1>5

\* The empty tree.
LEMMA RbInitInv == RbInit => RbInv
<1> SUFFICES ASSUME RbInit PROVE Valid(tree, {}, Idle)
  BY DEF RbInit, RbInv
<1> DEFINE b == [z \in Side |-> [y \in Node |-> 0]]
           h == [y \in Node |-> 0]
<1>1. tree = EmptyTree
  BY DEF RbInit
<1>2. tree \in Trees /\ tree.root = Null
  BY <1>1 DEF EmptyTree, Trees, Ref
<1>3. b \in Bounds /\ h \in Heights
  BY RbAssumption DEF Bounds, Heights
<1> HIDE DEF b, h
<1>4. Shape(tree, {}, b)
  BY <1>2, <1>3 DEF Shape, Rooted, Children, Parents, Within, Void, Nested
<1>5. Resting(tree, {}, h, Idle)
  BY <1>2, <1>3 DEF Resting, NoRedPair, RootBlack, Balanced
<1> QED BY <1>4, <1>5 DEF Valid

\* Every operation and every round keeps the invariant.
LEMMA RbStepKept == RbInv /\ [RbNext]_rbVars => RbInv'
<1> SUFFICES ASSUME RbInv, [RbNext]_rbVars PROVE RbInv'
  OBVIOUS
<1>1. CASE InsertRecolor
  BY <1>1, InsertRecolorKept
<1>2. CASE InsertRotate
  BY <1>2, InsertRotateKept
<1>3. CASE InsertDone
  BY <1>3, InsertDoneKept
<1>4. CASE FixRecolor
  BY <1>4, FixRecolorKept
<1>5. CASE FixRotate
  BY <1>5, FixRotateKept
<1>6. CASE FixDone
  BY <1>6, FixDoneKept
<1>7. ASSUME NEW x \in Node, rb_link(x) PROVE RbInv'
  BY <1>7, LinkKept
<1>8. ASSUME NEW x \in Node, rb_erase(x) PROVE RbInv'
  BY <1>8, EraseKept
<1>9. CASE UNCHANGED rbVars
  BY <1>9 DEF rbVars, RbInv
<1> QED BY <1>1, <1>2, <1>3, <1>4, <1>5, <1>6, <1>7, <1>8, <1>9 DEF RbNext, Loop

\* At every step the links form one tree in order, and it is red-black but for
\* the one place that the loop of rb_insert() or rb_erase_fix() is at.
THEOREM TreeInvariant == RbSpec => []RbInv
<1>1. RbInit => RbInv
  BY RbInitInv
<1>2. RbInv /\ [RbNext]_rbVars => RbInv'
  BY RbStepKept
<1> QED BY <1>1, <1>2, PTL DEF RbSpec

-----------------------------------------------------------------------------
(* Ways up *)

\* The numbers between the bounds of a node.
Width(b, x) == b["right"][x] - b["left"][x]

\* y has wider bounds than x, by k at least.
Wider(b, x, y, k) ==
    /\ b["left"][y] <= b["left"][x] /\ b["right"][x] <= b["right"][y]
    /\ Width(b, x) + k <= Width(b, y)

\* A parent has wider bounds.
LEMMA ParentWider ==
    ASSUME NEW t, NEW S, NEW b, Shape(t, S, b), NEW x \in S, t.parent[x] # Null
    PROVE  t.parent[x] \in S /\ Wider(b, x, t.parent[x], 1)
<1> DEFINE p == t.parent[x]
<1>1. p \in S /\ HasChild(t, p, x)
  BY ParentIs
<1> HIDE DEF p
<1>2. PICK z \in Side : t[z][p] = x
  BY <1>1 DEF HasChild
<1>3. b[z][x] = b[z][p] /\ b[Other(z)][x] = p
  <2>1. x # Null
    BY Numbers
  <2> QED BY <1>1, <1>2, <2>1, ChildIs
<1>4. /\ b["left"][p] < p /\ p < b["right"][p] /\ p \in Int
      /\ b["left"][p] \in Int /\ b["right"][p] \in Int
  BY <1>1, Numbers DEF Side
<1>5. CASE z = "left"
  BY <1>1, <1>3, <1>4, <1>5 DEF Wider, Width, Other, p
<1>6. CASE z = "right"
  BY <1>1, <1>3, <1>4, <1>6 DEF Wider, Width, Other, p
<1> QED BY <1>5, <1>6 DEF Side

\* Ancestor() is the walk along the parents.
LEMMA AncestorIs ==
    ASSUME NEW t, NEW x
    PROVE  Ancestor(t, x) = Walk(x, t.parent)
BY DEF Ancestor, Walk, IsWalk

\* The way up from x: parents, then null.
Upward(t, x, w) ==
    /\ \A i \in 0 .. N : w[i] \in Ref
    /\ w[0] = x
    /\ \A i \in 1 .. N : /\ w[i - 1] = Null => w[i] = Null
                         /\ w[i - 1] # Null => w[i] = t.parent[w[i - 1]]

\* Ancestor() has the way up.
LEMMA UpwardIs ==
    ASSUME NEW t \in Trees, NEW x \in Ref
    PROVE  Upward(t, x, Ancestor(t, x))
<1>1. t.parent \in [Node -> Ref]
  BY DEF Trees
<1>2. Upward(t, x, Walk(x, t.parent))
  BY <1>1, WalkIs DEF Upward
<1> QED BY <1>2, AncestorIs

\* The nodes on it are in the tree, with wider and wider bounds, and it ends.
LEMMA UpWalk ==
    ASSUME NEW t, NEW S, NEW b, Shape(t, S, b), NEW x \in S
    PROVE  /\ \A i \in 0 .. N : Ancestor(t, x)[i] # Null =>
                Ancestor(t, x)[i] \in S /\ Wider(b, x, Ancestor(t, x)[i], i)
           /\ Ancestor(t, x)[N] = Null
<1> DEFINE w == Ancestor(t, x)
           T == {i \in 0 .. N : w[i] # Null => w[i] \in S /\ Wider(b, x, w[i], i)}
<1>1. N \in Nat
  BY RbAssumption
<1>2. Upward(t, x, w)
  BY Numbers, UpwardIs DEF Shape
<1> HIDE DEF w
<1>3. /\ \A y \in S : b["left"][y] \in Int /\ b["right"][y] \in Int
      /\ \A y \in S : 0 <= b["left"][y] /\ b["right"][y] <= N + 1
      /\ b["left"][x] < x /\ x < b["right"][x] /\ x \in Int
  <2>1. \A y \in S : b["left"][y] \in 0 .. N + 1 /\ b["right"][y] \in 0 .. N + 1
    BY DEF Shape, Bounds, Side
  <2>2. b["left"][x] < x /\ x < b["right"][x] /\ x \in Int
    BY Numbers
  <2> QED BY <1>1, <2>1, <2>2
<1>4. 0 \in T
  BY <1>1, <1>2, <1>3 DEF Upward, Wider, Width
<1>5. ASSUME NEW k \in 1 .. N, k - 1 \in T PROVE k \in T
  <2> SUFFICES ASSUME w[k] # Null PROVE w[k] \in S /\ Wider(b, x, w[k], k)
    OBVIOUS
  <2> DEFINE y == w[k - 1]
             p == w[k]
  <2>1. y # Null /\ p = t.parent[y]
    BY <1>2 DEF Upward
  <2>2. y \in S /\ Wider(b, x, y, k - 1)
    BY <1>5, <2>1
  <2> HIDE DEF y, p
  <2>3. p # Null
    BY DEF p
  <2>4. p \in S /\ Wider(b, y, p, 1)
    BY <2>1, <2>2, <2>3, ParentWider
  <2>5. Wider(b, x, p, k)
    BY <1>3, <2>2, <2>4 DEF Wider, Width
  <2> QED BY <2>4, <2>5 DEF p
<1> HIDE DEF T
<1>6. \A k \in 0 .. N : k \in T
  BY <1>1, <1>4, <1>5, Rounds
<1>7. \A i \in 0 .. N : w[i] # Null => w[i] \in S /\ Wider(b, x, w[i], i)
  BY <1>6 DEF T
<1>8. ASSUME w[N] # Null PROVE FALSE
  <2>1. w[N] \in S /\ Wider(b, x, w[N], N)
    BY <1>1, <1>7, <1>8
  <2> DEFINE y == w[N]
  <2>2. /\ b["left"][y] \in Int /\ b["right"][y] \in Int /\ 0 <= b["left"][y] /\ b["right"][y] <= N + 1
        /\ b["left"][x] \in Int /\ b["right"][x] \in Int
    BY <1>3, <2>1
  <2>3. (b["right"][x] - b["left"][x]) + N <= b["right"][y] - b["left"][y]
    BY <2>1 DEF Wider, Width
  <2> HIDE DEF y
  <2> QED BY <1>1, <1>3, <2>2, <2>3
<1> QED BY <1>7, <1>8 DEF w

\* Above(x), of any tree.
Over(t, x) == {Ancestor(t, x)[i] : i \in 0 .. N} \ {Null}

\* The nodes above x are x and those above its parent.
LEMMA OverIs ==
    ASSUME NEW t, NEW S, NEW b, Shape(t, S, b), NEW x \in S
    PROVE  /\ Over(t, x) \subseteq S /\ x \in Over(t, x)
           /\ \A y \in Over(t, x) : Wider(b, x, y, 0)
           /\ \A y \in Over(t, x) \ {x} : \E c \in Over(t, x), z \in Side : t[z][y] = c
           /\ t.parent[x] = Null => Over(t, x) = {x}
           /\ t.parent[x] # Null => Over(t, x) = Over(t, t.parent[x]) \cup {x}
           /\ t.parent[x] # Null => x \notin Over(t, t.parent[x])
<1> DEFINE w == Ancestor(t, x)
           p == t.parent[x]
<1>1. N \in Nat /\ x \in Ref /\ x # Null /\ x \in Int /\ 1 <= x /\ x <= N
  <2>1. x \in Ref /\ x # Null /\ x \in Node
    BY Numbers
  <2> QED BY <2>1, RbAssumption DEF Node
<1>2. t \in Trees
  BY DEF Shape
<1>3. Upward(t, x, w)
  BY <1>1, <1>2, UpwardIs
<1>4. \A i \in 0 .. N : w[i] # Null => w[i] \in S /\ Wider(b, x, w[i], i)
  BY UpWalk
<1>5. w[N] = Null
  BY UpWalk
<1>6. Over(t, x) = {w[i] : i \in 0 .. N} \ {Null}
  BY DEF Over
<1> HIDE DEF w
<1>7. \A y \in Over(t, x) : \E i \in 0 .. N : y = w[i] /\ w[i] # Null
  BY <1>6
<1>8. Over(t, x) \subseteq S
  BY <1>4, <1>7
<1>9. x \in Over(t, x)
  BY <1>1, <1>3, <1>6 DEF Upward
<1>10. \A y \in S : b["left"][y] \in Int /\ b["right"][y] \in Int
  BY Numbers DEF Side
<1>11. \A y \in Over(t, x) : Wider(b, x, y, 0)
  <2> TAKE y \in Over(t, x)
  <2>1. PICK i \in 0 .. N : y = w[i] /\ w[i] # Null
    BY <1>7
  <2>2. y \in S /\ Wider(b, x, y, i)
    BY <1>4, <2>1
  <2> HIDE DEF w
  <2> QED BY <1>10, <2>2 DEF Wider, Width
<1>12. \A y \in Over(t, x) \ {x} : \E c \in Over(t, x), z \in Side : t[z][y] = c
  <2> TAKE y \in Over(t, x) \ {x}
  <2>1. PICK i \in 0 .. N : y = w[i] /\ w[i] # Null
    BY <1>7
  <2>2. i \in 1 .. N /\ i - 1 \in 0 .. N
    BY <1>1, <1>3, <2>1 DEF Upward
  <2> DEFINE c == w[i - 1]
  <2>3. c # Null /\ y = t.parent[c]
    BY <1>3, <2>1, <2>2 DEF Upward
  <2>4. c \in S /\ c \in Over(t, x)
    BY <1>4, <1>6, <2>2, <2>3
  <2> HIDE DEF c
  <2>5. HasChild(t, y, c)
    BY <2>1, <2>3, <2>4, ParentIs
  <2> QED BY <2>4, <2>5 DEF HasChild
<1>13. ASSUME p = Null PROVE Over(t, x) = {x}
  <2> DEFINE T == {i \in 0 .. N : i = 0 \/ w[i] = Null}
  <2>1. 0 \in T
    BY <1>1
  <2>2. ASSUME NEW k \in 1 .. N, k - 1 \in T PROVE k \in T
    <3>1. CASE k - 1 = 0
      <4>1. w[k - 1] = x /\ w[k] = t.parent[x]
        BY <1>1, <1>3, <3>1 DEF Upward
      <4> QED BY <1>1, <1>13, <4>1
    <3>2. CASE w[k - 1] = Null
      BY <1>1, <1>3, <3>2 DEF Upward
    <3> QED BY <2>2, <3>1, <3>2
  <2> HIDE DEF T
  <2>3. \A k \in 0 .. N : k \in T
    BY <1>1, <2>1, <2>2, Rounds
  <2>4. \A i \in 0 .. N : w[i] # Null => w[i] = x
    BY <1>3, <2>3 DEF T, Upward
  <2> QED BY <1>7, <1>9, <2>4
<1>14. ASSUME p # Null PROVE Over(t, x) = Over(t, p) \cup {x} /\ x \notin Over(t, p)
  <2> DEFINE v == Ancestor(t, p)
  <2>1. p \in S /\ p \in Ref /\ Wider(b, x, p, 1)
    BY <1>14, ParentWider, Numbers
  <2> HIDE DEF p
  <2>2. Upward(t, p, v)
    BY <1>2, <2>1, UpwardIs
  <2>3. \A i \in 0 .. N : v[i] # Null => v[i] \in S /\ Wider(b, p, v[i], i)
    BY <2>1, UpWalk
  <2>4. v[N] = Null
    BY <2>1, UpWalk
  <2>5. Over(t, p) = {v[i] : i \in 0 .. N} \ {Null}
    BY DEF Over
  <2> HIDE DEF v
  <2> DEFINE T == {i \in 0 .. N - 1 : v[i] = w[i + 1]}
  <2>6. 0 \in T
    <3>1. 0 \in 0 .. N /\ 1 \in 1 .. N /\ 1 - 1 = 0 /\ 0 + 1 = 1 /\ 0 \in 0 .. N - 1
      BY <1>1
    <3>2. v[0] = p /\ w[0] = x /\ (w[1 - 1] # Null => w[1] = t.parent[w[1 - 1]])
      BY <1>3, <2>2, <3>1 DEF Upward
    <3>3. w[1] = p
      BY <1>1, <3>1, <3>2 DEF p
    <3> QED BY <3>1, <3>2, <3>3
  <2>7. ASSUME NEW k \in 1 .. N - 1, k - 1 \in T PROVE k \in T
    <3>1. /\ k \in 1 .. N /\ k + 1 \in 1 .. N /\ (k + 1) - 1 = k /\ (k - 1) + 1 = k
          /\ k \in 0 .. N - 1
      BY <1>1
    <3>2. v[k - 1] = w[k]
      BY <2>7, <3>1
    <3>3. /\ v[k - 1] = Null => v[k] = Null
          /\ v[k - 1] # Null => v[k] = t.parent[v[k - 1]]
      BY <2>2, <3>1 DEF Upward
    <3>4. /\ w[(k + 1) - 1] = Null => w[k + 1] = Null
          /\ w[(k + 1) - 1] # Null => w[k + 1] = t.parent[w[(k + 1) - 1]]
      BY <1>3, <3>1 DEF Upward
    <3> QED BY <3>1, <3>2, <3>3, <3>4
  <2> HIDE DEF T
  <2>8. \A k \in 0 .. N - 1 : k \in T
    <3>1. N - 1 \in Nat
      BY <1>1
    <3> QED BY <2>6, <2>7, <3>1, Rounds
  <2>9. \A k \in 0 .. N - 1 : v[k] = w[k + 1]
    BY <2>8 DEF T
  <2>10. Over(t, p) \subseteq Over(t, x)
    <3> SUFFICES ASSUME NEW i \in 0 .. N, v[i] # Null PROVE v[i] \in Over(t, x)
      BY <2>5
    <3>1. i \in 0 .. N - 1 /\ i + 1 \in 0 .. N
      BY <1>1, <2>4
    <3> QED BY <1>6, <2>9, <3>1
  <2>11. Over(t, x) \subseteq Over(t, p) \cup {x}
    <3> SUFFICES ASSUME NEW i \in 0 .. N, w[i] # Null, w[i] # x PROVE w[i] \in Over(t, p)
      BY <1>6
    <3>1. i - 1 \in 0 .. N - 1 /\ (i - 1) + 1 = i /\ i - 1 \in 0 .. N
      BY <1>1, <1>3 DEF Upward
    <3>2. v[i - 1] = w[i]
      BY <2>9, <3>1
    <3> QED BY <2>5, <3>1, <3>2
  <2>12. ASSUME x \in Over(t, p) PROVE FALSE
    <3>1. PICK i \in 0 .. N : x = v[i]
      BY <2>5, <2>12
    <3>2. Wider(b, p, x, i)
      BY <1>1, <2>3, <3>1
    <3> QED BY <1>1, <1>10, <2>1, <3>2 DEF Wider, Width
  <2> QED BY <1>9, <2>10, <2>11, <2>12
<1> QED BY <1>8, <1>9, <1>11, <1>12, <1>13, <1>14

-----------------------------------------------------------------------------
(* What the invariant says of the way up from every node *)

\* Above() is Over() of the tree.
LEMMA OverAbove == \A x : Above(x) = Over(tree, x)
BY DEF Above, Over

\* For a tree of the invariant the root is above every node.
LEMMA RootOver ==
    ASSUME NEW t, NEW S, NEW b, Shape(t, S, b), NEW x \in S
    PROVE  t.root \in Over(t, x)
<1> DEFINE T == {m \in Nat : \E y \in S : m = (N + 1) - Width(b, y) /\ t.root \notin Over(t, y)}
<1>1. N \in Nat
  BY RbAssumption
<1>2. \A y \in S : /\ Width(b, y) \in Int /\ (N + 1) - Width(b, y) \in Nat
                   /\ b["left"][y] \in Int /\ b["right"][y] \in Int
  <2>1. \A y \in S : b["left"][y] \in 0 .. N + 1 /\ b["right"][y] \in 0 .. N + 1
    BY DEF Shape, Bounds, Side
  <2> QED BY <1>1, <2>1 DEF Width
<1>3. ASSUME T # {} PROVE FALSE
  <2>1. T \in SUBSET Nat
    OBVIOUS
  <2>2. PICK m \in T : \A j \in T : m <= j
    BY <1>3, <2>1, LeastOf
  <2>3. PICK y \in S : m = (N + 1) - Width(b, y) /\ t.root \notin Over(t, y)
    BY <2>2
  <2> DEFINE p == t.parent[y]
  <2>4. p # Null
    <3>1. ASSUME p = Null PROVE FALSE
      <4>1. y = t.root
        BY <3>1, Numbers DEF Shape, Parents
      <4> QED BY <2>3, <4>1, OverIs
    <3> QED BY <3>1
  <2>5. p \in S /\ Wider(b, y, p, 1) /\ Over(t, y) = Over(t, p) \cup {y}
    BY <2>4, ParentWider, OverIs
  <2> HIDE DEF p
  <2>6. (N + 1) - Width(b, p) \in T
    BY <1>2, <2>3, <2>5
  <2>7. m <= (N + 1) - Width(b, p)
    BY <2>2, <2>6
  <2> QED BY <1>1, <1>2, <2>3, <2>5, <2>7 DEF Wider
<1>4. (N + 1) - Width(b, x) \notin T
  BY <1>3
<1> QED BY <1>2, <1>4

\* The tree, whatever the loops are at.
LEMMA InvShape ==
    ASSUME RbInv
    PROVE  \E b : Shape(tree, linked, b)
BY DEF RbInv, Valid

\* The loops are at nodes of the tree, or at the null pointer.
LEMMA InvType ==
    ASSUME RbInv
    PROVE  at.node \in linked \cup {Null} /\ at.parent \in linked \cup {Null}
<1>1. PICK b, h : /\ Shape(tree, linked, b)
                  /\ \/ Resting(tree, linked, h, at)
                     \/ Inserting(tree, linked, h, at)
                     \/ \E z \in Side : Erasing(tree, linked, h, at, z)
  BY DEF RbInv, Valid
<1>2. CASE Resting(tree, linked, h, at)
  BY <1>2 DEF Resting, Idle
<1>3. CASE Inserting(tree, linked, h, at)
  <2>1. at.node \in linked /\ at.parent = tree.parent[at.node]
    BY <1>3 DEF Inserting
  <2> DEFINE x == at.node
  <2>2. tree.parent[x] # Null => tree.parent[x] \in linked
    <3> HIDE DEF x
    <3>1. x \in linked
      BY <2>1 DEF x
    <3> QED BY <1>1, <3>1, ParentIs
  <2> QED BY <2>1, <2>2
<1>4. CASE \E z \in Side : Erasing(tree, linked, h, at, z)
  BY <1>4 DEF Erasing
<1> QED BY <1>1, <1>2, <1>3, <1>4

\* The invariant has the links of TreeInOrder.
LEMMA InvTreeInOrder == RbInv => TreeInOrder
<1> SUFFICES ASSUME RbInv PROVE TreeInOrder
  OBVIOUS
<1> DEFINE t == tree
           S == linked
<1>1. PICK b : Shape(t, S, b)
  BY InvShape
<1>2. RbTypeOK
  <2>1. t \in Trees /\ S \subseteq Node
    BY <1>1 DEF Shape
  <2> QED BY <2>1, InvType DEF RbTypeOK, Trees, Ref
<1>3. /\ t.root = Null <=> S = {}
      /\ t.root # Null => t.root \in S /\ t.parent[t.root] = Null
  BY <1>1 DEF Shape, Rooted
<1>4. \A x \in S : t.root \in Over(t, x)
  BY <1>1, RootOver
<1>5. \A x \in S, side \in Side : t[side][x] # Null =>
        t[side][x] \in S /\ t.parent[t[side][x]] = x /\ t[side][x] # t[Other(side)][x]
  BY <1>1, ChildIs, OneSide
<1>6. \A x \in S \ {t.root} : \E side \in Side : t[side][t.parent[x]] = x
  BY <1>1 DEF Shape, Parents
<1>7. ASSUME NEW x \in S, NEW y \in Over(t, x) \ {x}
      PROVE  (x < y) <=> (t.left[y] \in Over(t, x))
  <2>1. PICK c \in Over(t, x), z \in Side : t[z][y] = c
    BY <1>1, <1>7, OverIs
  <2>2. c \in S /\ y \in S /\ c # Null
    BY <1>1, <2>1, OverIs DEF Over
  <2>3. b[Other(z)][c] = y
    BY <1>1, <2>1, <2>2, ChildIs
  <2>4. /\ x \in Int /\ y \in Int /\ b["left"][x] < x /\ x < b["right"][x]
        /\ \A e \in S : b["left"][e] \in Int /\ b["right"][e] \in Int
    BY <1>1, <2>2, Numbers DEF Side
  <2>5. \A e \in Over(t, x) : e \in S /\ b["left"][e] <= b["left"][x] /\ b["right"][x] <= b["right"][e]
    BY <1>1, OverIs DEF Wider
  <2>6. CASE z = "left"
    <3>1. b["right"][c] = y
      BY <2>3, <2>6 DEF Other
    <3>2. x < y
      BY <2>2, <2>4, <2>5, <3>1
    <3> QED BY <2>1, <2>6, <3>2
  <2>7. CASE z = "right"
    <3>1. b["left"][c] = y
      BY <2>3, <2>7 DEF Other
    <3>2. ~ (x < y)
      BY <2>2, <2>4, <2>5, <3>1
    <3>3. ASSUME t.left[y] \in Over(t, x) PROVE FALSE
      <4> DEFINE e == t["left"][y]
      <4>1. e \in Over(t, x) /\ e # Null
        BY <3>3 DEF Over
      <4>2. b["right"][e] = y
        BY <1>1, <2>2, <4>1, ChildIs DEF Other, Side
      <4> HIDE DEF e
      <4>3. b["right"][x] <= b["right"][e] /\ b["right"][x] \in Int
        BY <2>4, <2>5, <4>1
      <4>4. x < y
        BY <2>4, <4>2, <4>3
      <4> QED BY <3>2, <4>4
    <3> QED BY <3>2, <3>3
  <2> QED BY <2>6, <2>7 DEF Side
<1> HIDE DEF t, S
<1>8. \A x \in S : \A y \in Over(t, x) \ {x} : (x < y) <=> (t.left[y] \in Over(t, x))
  BY <1>7
<1>9. \A x : Above(x) = Over(t, x)
  BY OverAbove DEF t
<1> QED BY <1>2, <1>3, <1>4, <1>5, <1>6, <1>8, <1>9 DEF TreeInOrder, t, S

\* The links form one tree, in order, of the nodes that callers put in and did
\* not take out, at every step of rb_insert(), rb_erase() and their loops.
THEOREM LinksFormTree == RbSpec => []TreeInOrder
<1>1. RbInv => TreeInOrder
  BY InvTreeInOrder
<1> QED BY <1>1, TreeInvariant, PTL

-----------------------------------------------------------------------------
(* Black nodes *)

BlackOver(t, x) == {y \in Over(t, x) : t.color[y] = BLACK}

\* There are finitely many nodes above x.
LEMMA OverFinite ==
    ASSUME NEW t, NEW S, NEW b, Shape(t, S, b), NEW x \in S
    PROVE  IsFiniteSet(Over(t, x)) /\ IsFiniteSet(BlackOver(t, x))
<1>1. Over(t, x) \subseteq Node
  BY OverIs DEF Shape
<1>2. IsFiniteSet(Node)
  BY RbAssumption, FS_Interval DEF Node
<1>3. IsFiniteSet(Over(t, x))
  BY <1>1, <1>2, FS_Subset
<1>4. BlackOver(t, x) \in SUBSET Over(t, x)
  BY DEF BlackOver
<1> QED BY <1>3, <1>4, FS_Subset

\* The black nodes above x, x itself left out, are those that the ways down
\* from the root have more than those from x.
BlackCount(t, h, x) == Cardinality(BlackOver(t, x)) + h[x] = h[t.root] + One(t, x)

\* If that is so for the parent, it is so for x.
LEMMA BlackRound ==
    ASSUME NEW t, NEW S, NEW b, Shape(t, S, b), NEW h, Balanced(t, S, h, {}), NEW x \in S,
           t.parent[x] # Null, BlackCount(t, h, t.parent[x])
    PROVE  BlackCount(t, h, x)
<1> DEFINE p == t.parent[x]
<1>1. p \in S /\ HasChild(t, p, x)
  BY ParentIs
<1>2. Over(t, x) = Over(t, p) \cup {x} /\ x \notin Over(t, p)
  BY OverIs
<1>3. Cardinality(BlackOver(t, p)) + h[p] = h[t.root] + One(t, p)
  BY DEF BlackCount
<1> HIDE DEF p
<1>4. PICK z \in Side : t[z][p] = x
  BY <1>1 DEF HasChild
<1>5. h \in Heights /\ \A y \in S, e \in Side : h[y] = Depth(h, t[e][y]) + One(t, y) + 0
  BY DEF Balanced
<1>6. h[p] = h[x] + One(t, p) + 0
  <2>1. x # Null
    BY Numbers
  <2>2. h[p] = Depth(h, t[z][p]) + One(t, p) + 0
    BY <1>1, <1>5
  <2> QED BY <1>4, <2>1, <2>2 DEF Depth
<1>7. \A y \in S : h[y] \in Nat /\ One(t, y) \in Nat
  BY <1>5, Numbers DEF Heights, One
<1>8. t.root \in S
  BY DEF Shape, Rooted
<1>9. IsFiniteSet(BlackOver(t, p)) /\ Cardinality(BlackOver(t, p)) \in Nat
  BY <1>1, OverFinite, FS_CardinalityType
<1>10. CASE t.color[x] = BLACK
  <2>1. BlackOver(t, x) = BlackOver(t, p) \cup {x} /\ x \notin BlackOver(t, p)
    BY <1>2, <1>10 DEF BlackOver
  <2>2. Cardinality(BlackOver(t, x)) = Cardinality(BlackOver(t, p)) + 1
    BY <1>9, <2>1, FS_AddElement
  <2>3. One(t, x) = 1
    BY <1>10 DEF One
  <2> QED BY <1>1, <1>3, <1>6, <1>7, <1>8, <1>9, <2>2, <2>3 DEF BlackCount
<1>11. CASE t.color[x] # BLACK
  <2>1. BlackOver(t, x) = BlackOver(t, p)
    BY <1>2, <1>11 DEF BlackOver
  <2>2. One(t, x) = 0
    BY <1>11 DEF One
  <2> QED BY <1>1, <1>3, <1>6, <1>7, <1>8, <1>9, <2>1, <2>2 DEF BlackCount
<1> QED BY <1>10, <1>11

\* It is so for every node: by the widths of bounds, from the root down.
LEMMA BlackIs ==
    ASSUME NEW t, NEW S, NEW b, Shape(t, S, b), NEW h, Balanced(t, S, h, {}), NEW x \in S
    PROVE  BlackCount(t, h, x)
<1> DEFINE T == {m \in Nat : \E y \in S : m = (N + 1) - Width(b, y) /\ ~ BlackCount(t, h, y)}
<1>1. N \in Nat
  BY RbAssumption
<1>2. \A y \in S : /\ Width(b, y) \in Int /\ (N + 1) - Width(b, y) \in Nat
                   /\ b["left"][y] \in Int /\ b["right"][y] \in Int
  <2>1. \A y \in S : b["left"][y] \in 0 .. N + 1 /\ b["right"][y] \in 0 .. N + 1
    BY DEF Shape, Bounds, Side
  <2>2. \A y \in S : Width(b, y) = b["right"][y] - b["left"][y]
    BY DEF Width
  <2>3. \A i, j \in 0 .. N + 1 : i - j \in Int /\ (N + 1) - (i - j) \in Nat
    BY <1>1
  <2> QED BY <1>1, <2>1, <2>2, <2>3
<1>3. ASSUME T # {} PROVE FALSE
  <2>1. T \in SUBSET Nat
    OBVIOUS
  <2>2. PICK m \in T : \A j \in T : m <= j
    BY <1>3, <2>1, LeastOf
  <2>3. PICK y \in S : m = (N + 1) - Width(b, y) /\ ~ BlackCount(t, h, y)
    BY <2>2
  <2> DEFINE p == t.parent[y]
  <2>4. p # Null
    <3>1. ASSUME p = Null PROVE FALSE
      <4>1. y = t.root
        BY <3>1, Numbers DEF Shape, Parents
      <4>2. Over(t, y) = {y}
        BY <3>1, OverIs
      <4>3. h[y] \in Nat
        BY Numbers DEF Balanced, Heights
      <4>4. Cardinality(BlackOver(t, y)) = One(t, y) /\ One(t, y) \in Nat
        <5>1. CASE t.color[y] = BLACK
          <6>1. BlackOver(t, y) = {y}
            BY <4>2, <5>1 DEF BlackOver
          <6> QED BY <5>1, <6>1, FS_Singleton DEF One
        <5>2. CASE t.color[y] # BLACK
          <6>1. BlackOver(t, y) = {}
            BY <4>2, <5>2 DEF BlackOver
          <6> QED BY <5>2, <6>1, FS_EmptySet DEF One
        <5> QED BY <5>1, <5>2
      <4>5. BlackCount(t, h, y)
        BY <4>1, <4>3, <4>4 DEF BlackCount
      <4> QED BY <2>3, <4>5
    <3> QED BY <3>1
  <2>5. p \in S /\ Wider(b, y, p, 1)
    BY <2>4, ParentWider
  <2>6. ~ BlackCount(t, h, p)
    BY <2>3, <2>4, BlackRound
  <2> HIDE DEF p
  <2>7. (N + 1) - Width(b, p) \in T
    BY <1>2, <2>5, <2>6
  <2>8. m <= (N + 1) - Width(b, p)
    BY <2>2, <2>7
  <2> QED BY <1>1, <1>2, <2>3, <2>5, <2>8 DEF Wider
<1>4. (N + 1) - Width(b, x) \notin T
  BY <1>3
<1> QED BY <1>2, <1>4

\* Between calls the invariant is that of a red-black tree.
LEMMA InvRedBlack == RbInv => RedBlack
<1> SUFFICES ASSUME RbInv, at = Idle
             PROVE  /\ rb_black(tree, tree.root)
                    /\ \A x \in linked : rb_red(tree, x) => rb_black(tree, tree.parent[x])
                    /\ \A x, y \in Leafward : Blacks(x) = Blacks(y)
  BY DEF RedBlack
<1> DEFINE t == tree
           S == linked
<1>1. PICK b, h : Shape(t, S, b) /\ Resting(t, S, h, Idle)
  BY InRest
<1>2. NoRedPair(t, S, Null) /\ RootBlack(t, Null) /\ Balanced(t, S, h, {})
  BY <1>1 DEF Resting
<1>3. rb_black(t, t.root)
  BY <1>2 DEF RootBlack, rb_black, rb_red, RED, BLACK
<1>4. \A x \in S : rb_red(t, x) => rb_black(t, t.parent[x])
  <2>1. \A x \in S : x # Null
    BY <1>1, Numbers
  <2> QED BY <1>2, <2>1 DEF NoRedPair, RedPair, rb_red, rb_black
<1>5. ASSUME NEW x \in Leafward PROVE Blacks(x) = h[t.root]
  <2>1. x \in S /\ \E z \in Side : t[z][x] = Null
    BY DEF Leafward, Side
  <2>2. BlackCount(t, h, x)
    BY <1>1, <1>2, <2>1, BlackIs
  <2>3. h \in Heights /\ \A z \in Side : h[x] = Depth(h, t[z][x]) + One(t, x) + 0
    BY <1>2, <2>1 DEF Balanced
  <2>4. h[x] = 0 + One(t, x) + 0
    BY <2>1, <2>3 DEF Depth
  <2>5. Blacks(x) = Cardinality(BlackOver(t, x))
    BY OverAbove DEF Blacks, BlackOver
  <2>6. Cardinality(BlackOver(t, x)) \in Nat
    BY <1>1, <2>1, OverFinite, FS_CardinalityType
  <2>7. t.root \in S /\ \A y \in S : y \in Node
    BY <1>1, <2>1, Numbers DEF Shape, Rooted
  <2>8. h[t.root] \in Nat /\ One(t, x) \in Nat
    BY <2>3, <2>7 DEF Heights, One
  <2> QED BY <2>2, <2>4, <2>5, <2>6, <2>8 DEF BlackCount
<1> QED BY <1>3, <1>4, <1>5

\* Whenever rb_insert() or rb_erase() is back the tree is red-black, so that
\* its height is logarithmic in the number of ranges.
THEOREM TreeBalanced == RbSpec => []RedBlack
<1>1. RbInv => RedBlack
  BY InvRedBlack
<1> QED BY <1>1, TreeInvariant, PTL

-----------------------------------------------------------------------------
(* Neighbours *)

\* rb_next() is this on the right, rb_prev() on the left.
Neighbour(t, x, s) ==
    IF t[s][x] # Null THEN Outermost(t, t[s][x], Other(s)) ELSE FirstTurn(t, x, s)

\* y is the node next to x on side s, or null where there is none.
NextTo(S, x, s, y) ==
    /\ y = Null => \A v \in S : ~ On(s, v, x)
    /\ y # Null => y \in S /\ On(s, y, x) /\ \A v \in S : ~ (On(s, v, x) /\ On(s, y, v))

\* i is the first link up from x that is not one from side s.
IsFirstTurn(t, w, s, i) ==
    /\ i \in 0 .. N - 1 /\ w[i] # Null
    /\ w[i + 1] = Null \/ t[s][w[i + 1]] # w[i]
    /\ \A j \in 0 .. N - 1 : j < i /\ w[j] # Null => w[j + 1] # Null /\ t[s][w[j + 1]] = w[j]

\* The loop of rb_next() finds one before it runs out of links.
LEMMA TurnExists ==
    ASSUME NEW t, NEW S, NEW b, Shape(t, S, b), NEW x \in S, NEW s \in Side
    PROVE  \E i : /\ IsFirstTurn(t, Ancestor(t, x), s, i)
                  /\ FirstTurn(t, x, s) = Ancestor(t, x)[1 + i]
<1> DEFINE w == Ancestor(t, x)
           turns == {i \in 0 .. N - 1 : w[i] # Null /\ (w[i + 1] = Null \/ t[s][w[i + 1]] # w[i])}
           Q(i) == \A j \in turns : i <= j
<1>1. N \in Nat
  BY RbAssumption
<1>2. Upward(t, x, w)
  BY Numbers, UpwardIs DEF Shape
<1>3. w[N] = Null
  BY UpWalk
<1>4. FirstTurn(t, x, s) = w[1 + CHOOSE i \in turns : Q(i)]
  BY DEF FirstTurn
<1> HIDE DEF w
<1>5. turns # {}
  <2> SUFFICES ASSUME turns = {} PROVE FALSE
    OBVIOUS
  <2> DEFINE T == {i \in 0 .. N : w[i] # Null}
  <2>1. 0 \in T
    BY <1>1, <1>2, Numbers DEF Upward
  <2>2. ASSUME NEW k \in 1 .. N, k - 1 \in T PROVE k \in T
    <3>1. k - 1 \in 0 .. N - 1 /\ (k - 1) + 1 = k /\ k \in 0 .. N
      BY <1>1
    <3>2. w[k - 1] # Null /\ k - 1 \notin turns
      BY <2>2
    <3>3. w[k] # Null
      BY <3>1, <3>2
    <3> QED BY <3>1, <3>3
  <2> HIDE DEF T
  <2>3. N \in T
    BY <1>1, <2>1, <2>2, Rounds
  <2> QED BY <1>3, <2>3 DEF T
<1>6. turns \in SUBSET Nat
  BY <1>1
<1>7. \E i \in turns : Q(i)
  <2> HIDE DEF turns
  <2> QED BY <1>5, <1>6, LeastOf
<1>8. PICK i \in turns : Q(i) /\ FirstTurn(t, x, s) = w[1 + i]
  <2> HIDE DEF turns, Q
  <2> QED BY <1>4, <1>7
<1>9. \A j \in 0 .. N - 1 : j < i => j \notin turns
  BY <1>1, <1>8
<1>10. IsFirstTurn(t, w, s, i)
  BY <1>8, <1>9 DEF IsFirstTurn
<1> QED BY <1>8, <1>10 DEF w

\* Without a child on side s, the first turn is the bound on that side.
LEMMA FirstTurnIs ==
    ASSUME NEW t, NEW S, NEW b, Shape(t, S, b), NEW x \in S, NEW s \in Side
    PROVE  IF FirstTurn(t, x, s) = Null THEN b[s][x] \in {0, N + 1}
           ELSE FirstTurn(t, x, s) \in S /\ FirstTurn(t, x, s) = b[s][x]
<1> DEFINE w == Ancestor(t, x)
           y == FirstTurn(t, x, s)
<1>1. N \in Nat
  BY RbAssumption
<1>2. Upward(t, x, w)
  BY Numbers, UpwardIs DEF Shape
<1>3. \A j \in 0 .. N : w[j] # Null => w[j] \in S
  BY UpWalk
<1>4. PICK i : IsFirstTurn(t, w, s, i) /\ y = w[1 + i]
  BY TurnExists
<1>5. /\ i \in 0 .. N - 1 /\ w[i] # Null
      /\ w[i + 1] = Null \/ t[s][w[i + 1]] # w[i]
      /\ \A j \in 0 .. N - 1 : j < i /\ w[j] # Null => w[j + 1] # Null /\ t[s][w[j + 1]] = w[j]
  BY <1>4 DEF IsFirstTurn
<1> HIDE DEF w, y
<1> DEFINE T == {j \in 0 .. i : w[j] # Null /\ b[s][w[j]] = b[s][x]}
<1>6. 0 \in T
  <2>1. 0 \in 0 .. i /\ 0 \in 0 .. N
    BY <1>1, <1>5
  <2> QED BY <1>2, <2>1, Numbers DEF Upward
<1>7. ASSUME NEW k \in 1 .. i, k - 1 \in T PROVE k \in T
  <2>1. /\ k - 1 \in 0 .. N - 1 /\ k - 1 < i /\ (k - 1) + 1 = k /\ k \in 0 .. N /\ k \in 0 .. i
        /\ k - 1 \in 0 .. N
    BY <1>1, <1>5
  <2> DEFINE c == w[k - 1]
             p == w[k]
  <2>2. c # Null /\ b[s][c] = b[s][x]
    BY <1>7
  <2>3. p # Null /\ t[s][p] = c
    BY <1>5, <2>1, <2>2
  <2>4. p \in S
    BY <1>3, <2>1, <2>3
  <2> HIDE DEF p, c
  <2>5. b[s][c] = b[s][p]
    BY <2>2, <2>3, <2>4, ChildIs
  <2>6. p # Null /\ b[s][p] = b[s][x]
    BY <2>2, <2>3, <2>5
  <2> QED BY <2>1, <2>6 DEF p
<1> HIDE DEF T
<1>8. i \in T
  <2>1. i \in Nat
    BY <1>5
  <2> QED BY <1>6, <1>7, <2>1, Rounds
<1> DEFINE z == w[i]
<1>9. z # Null /\ b[s][z] = b[s][x] /\ z \in S
  <2>1. i \in 0 .. N
    BY <1>1, <1>5
  <2> QED BY <1>3, <1>8, <2>1 DEF T
<1>10. y = t.parent[z]
  <2>1. i + 1 \in 1 .. N /\ (i + 1) - 1 = i /\ 1 + i = i + 1
    BY <1>1, <1>5
  <2>2. w[(i + 1) - 1] # Null => w[i + 1] = t.parent[w[(i + 1) - 1]]
    BY <1>2, <2>1 DEF Upward
  <2>3. w[i + 1] = t.parent[w[i]]
    BY <1>5, <2>1, <2>2
  <2> QED BY <1>4, <2>1, <2>3
<1>11. y = Null \/ t[s][y] # z
  <2>1. 1 + i = i + 1
    BY <1>5
  <2> QED BY <1>4, <1>5, <2>1
<1> HIDE DEF z
<1>12. CASE y = Null
  <2>1. z = t.root
    <3>1. \A v \in S \ {t.root} : t.parent[v] \in S
      BY DEF Shape, Parents
    <3>2. Null \notin S
      BY Numbers
    <3> QED BY <1>9, <1>10, <1>12, <3>1, <3>2
  <2>2. b[s][z] \in {0, N + 1}
    BY <1>9, <2>1 DEF Shape, Rooted, Side
  <2> QED BY <1>9, <1>12, <2>2 DEF y
<1>13. CASE y # Null
  <2>1. y \in S /\ HasChild(t, y, z)
    BY <1>9, <1>10, <1>13, ParentIs
  <2>2. t[Other(s)][y] = z /\ Other(s) \in Side /\ Other(Other(s)) = s
    BY <1>11, <1>13, <2>1, Sides DEF HasChild
  <2>3. b[s][z] = y
    BY <1>9, <2>1, <2>2, ChildIs
  <2> QED BY <1>9, <1>13, <2>1, <2>3 DEF y
<1> QED BY <1>12, <1>13

\* Whether the walk goes down or up, it ends at the next node.
LEMMA NeighbourIs ==
    ASSUME NEW t, NEW S, NEW b, Shape(t, S, b), NEW x \in S, NEW s \in Side
    PROVE  NextTo(S, x, s, Neighbour(t, x, s))
<1> DEFINE y == Neighbour(t, x, s)
           o == Other(s)
<1>1. /\ o \in Side /\ Other(o) = s
      /\ \A i, j \in Int : On(s, i, j) <=> On(o, j, i)
  BY Sides
<1>2. \A v \in S : /\ v \in Int /\ v # Null /\ \A z \in Side : b[z][v] \in Int
                   /\ b["left"][v] < v /\ v < b["right"][v]
                   /\ 0 < v /\ v < N + 1
  <2>1. \A v \in S : v \in Node
    BY Numbers
  <2>2. \A v \in Node : 0 < v /\ v < N + 1
    BY RbAssumption DEF Node
  <2> QED BY <2>1, <2>2, Numbers
<1>3. \A v \in S, z \in Side : On(z, b[z][v], v)
  BY <1>2 DEF On, Side
<1>4. CASE t[s][x] # Null
  <2> DEFINE c == t[s][x]
  <2>1. y = Outermost(t, c, o)
    BY <1>4 DEF Neighbour
  <2>2. c \in S /\ b[o][c] = x
    BY <1>4, ChildIs
  <2> HIDE DEF c, y
  <2>3. IsEnd(t, S, b, c, o, y)
    BY <1>1, <2>1, <2>2, OutermostIs
  <2>4. y \in S /\ t[o][y] = Null /\ b[o][y] = x
    BY <2>2, <2>3 DEF IsEnd
  <2>5. On(o, x, y)
    BY <1>1, <1>3, <2>4
  <2>6. \A v \in S : On(o, v, y) => ~ On(o, b[o][y], v)
    BY <1>1, <2>4, Bare
  <2>7. On(s, y, x)
    BY <1>1, <1>2, <2>4, <2>5
  <2>8. \A v \in S : ~ (On(s, v, x) /\ On(s, y, v))
    BY <1>1, <1>2, <2>4, <2>6
  <2>9. NextTo(S, x, s, y)
    BY <1>2, <2>4, <2>7, <2>8 DEF NextTo
  <2> QED BY <2>9 DEF y
<1>5. CASE t[s][x] = Null
  <2>1. y = FirstTurn(t, x, s)
    BY <1>5 DEF Neighbour
  <2>2. IF y = Null THEN b[s][x] \in {0, N + 1} ELSE y \in S /\ y = b[s][x]
    BY <2>1, FirstTurnIs
  <2> HIDE DEF y
  <2>3. \A v \in S : On(s, v, x) => ~ On(s, b[s][x], v)
    BY <1>5, Bare
  <2>4. CASE y = Null
    <3>1. On(s, b[s][x], x) /\ b[s][x] \in {0, N + 1}
      BY <1>3, <2>2, <2>4
    <3>2. \A v \in S : On(s, b[s][x], v)
      BY <1>2, <3>1, RbAssumption DEF On
    <3>3. \A v \in S : ~ On(s, v, x)
      BY <2>3, <3>2
    <3>4. NextTo(S, x, s, y)
      BY <2>4, <3>3 DEF NextTo
    <3> QED BY <3>4 DEF y
  <2>5. CASE y # Null
    <3>1. y \in S /\ y = b[s][x] /\ On(s, y, x)
      BY <1>3, <2>2, <2>5
    <3>2. NextTo(S, x, s, y)
      BY <2>3, <2>5, <3>1 DEF NextTo
    <3> QED BY <3>2 DEF y
  <2> QED BY <2>4, <2>5
<1> QED BY <1>4, <1>5

\* The invariant makes rb_next() and rb_prev() right.
LEMMA InvNeighbours == RbInv => NeighboursRight
<1> SUFFICES ASSUME RbInv, at = Idle, NEW x \in linked
             PROVE  /\ rb_next(tree, x) = Null => \A y \in linked : y <= x
                    /\ rb_next(tree, x) # Null =>
                         rb_next(tree, x) > x /\ \A y \in linked : y <= x \/ y >= rb_next(tree, x)
                    /\ rb_prev(tree, x) = Null => \A y \in linked : y >= x
                    /\ rb_prev(tree, x) # Null =>
                         rb_prev(tree, x) < x /\ \A y \in linked : y >= x \/ y <= rb_prev(tree, x)
  BY DEF NeighboursRight
<1> DEFINE t == tree
           S == linked
           n == rb_next(t, x)
           p == rb_prev(t, x)
<1>1. PICK b : Shape(t, S, b)
  BY InvShape
<1>2. n = Neighbour(t, x, "right") /\ p = Neighbour(t, x, "left")
  BY DEF rb_next, rb_prev, Neighbour, Other
<1>3. \A v \in S : v \in Int
  BY <1>1, Numbers
<1> HIDE DEF n, p, t, S
<1>4. NextTo(S, x, "right", n) /\ NextTo(S, x, "left", p)
  <2>1. x \in S
    BY DEF S
  <2> QED BY <1>1, <1>2, <2>1, NeighbourIs DEF Side
<1>5. /\ n = Null => \A v \in S : ~ (x < v)
      /\ n # Null => n \in S /\ x < n /\ \A v \in S : ~ (x < v /\ v < n)
  BY <1>4 DEF NextTo, On
<1>6. /\ p = Null => \A v \in S : ~ (v < x)
      /\ p # Null => p \in S /\ p < x /\ \A v \in S : ~ (v < x /\ p < v)
  BY <1>4 DEF NextTo, On
<1>7. x \in Int
  BY <1>3 DEF S
<1>8. /\ n = Null => \A v \in S : v <= x
      /\ n # Null => n > x /\ \A v \in S : v <= x \/ v >= n
  BY <1>3, <1>5, <1>7
<1>9. /\ p = Null => \A v \in S : v >= x
      /\ p # Null => p < x /\ \A v \in S : v >= x \/ v <= p
  BY <1>3, <1>6, <1>7
<1> QED BY <1>8, <1>9 DEF n, p, t, S

\* rb_next() and rb_prev() go over the ranges in order and leave none out.
THEOREM WalksInOrder == RbSpec => []NeighboursRight
<1>1. RbInv => NeighboursRight
  BY InvNeighbours
<1> QED BY <1>1, TreeInvariant, PTL

-----------------------------------------------------------------------------
(* The loops end *)

\* Level, of any tree and place.
Rank(t, p) == IF p = Null THEN 0 ELSE Cardinality(Over(t, p))

\* A parent is nearer to the root.
LEMMA RankParent ==
    ASSUME NEW t, NEW S, NEW b, Shape(t, S, b), NEW x \in S
    PROVE  Rank(t, x) \in Nat /\ Rank(t, t.parent[x]) \in Nat /\ Rank(t, t.parent[x]) < Rank(t, x)
<1> DEFINE p == t.parent[x]
<1>1. x # Null
  BY Numbers
<1>2. IsFiniteSet(Over(t, x)) /\ Rank(t, x) = Cardinality(Over(t, x))
  BY <1>1, OverFinite DEF Rank
<1>3. CASE p = Null
  <2>1. Over(t, x) = {x}
    BY <1>3, OverIs
  <2>2. Cardinality({x}) = 1
    BY FS_Singleton
  <2>3. Rank(t, x) = 1
    BY <1>2, <2>1, <2>2
  <2> QED BY <1>3, <2>3 DEF Rank
<1>4. CASE p # Null
  <2>1. p \in S /\ Over(t, x) = Over(t, p) \cup {x} /\ x \notin Over(t, p)
    BY <1>4, ParentIs, OverIs
  <2> HIDE DEF p
  <2>2. IsFiniteSet(Over(t, p)) /\ Cardinality(Over(t, p)) \in Nat
    BY <2>1, OverFinite, FS_CardinalityType
  <2>3. Cardinality(Over(t, x)) = Cardinality(Over(t, p)) + 1
    BY <2>1, <2>2, FS_AddElement
  <2>4. Rank(t, p) = Cardinality(Over(t, p))
    BY <1>4 DEF Rank
  <2>5. Rank(t, x) \in Nat /\ Rank(t, p) \in Nat /\ Rank(t, p) < Rank(t, x)
    BY <1>2, <2>2, <2>3, <2>4
  <2> QED BY <2>5 DEF p
<1> QED BY <1>3, <1>4

\* Colors do not matter for that.
LEMMA RankSame ==
    ASSUME NEW t, NEW u, u.parent = t.parent
    PROVE  \A x : Rank(u, x) = Rank(t, x)
<1>1. \A x : Ancestor(u, x) = Ancestor(t, x)
  BY AncestorIs
<1> QED BY <1>1 DEF Rank, Over

\* Level is such a rank, before and after a step.
LEMMA LevelIs == Level = Rank(tree, at.parent) /\ Level' = Rank(tree', at'.parent)
BY DEF Level, Above, Rank, Over

\* A round of rb_insert() goes up two links.
LEMMA RecolorClimbs ==
    ASSUME RbInv, InsertRecolor PROVE Level' < Level
<1> DEFINE t == tree
           S == linked
           p == at.parent
           g == t.parent[p]
           q == IF p = t.left[g] THEN t.right[g] ELSE t.left[g]
           a == [at EXCEPT !.node = g, !.parent = t.parent[g]]
<1>1. /\ at.op = "insert" /\ rb_red(t, p) /\ at' = a
      /\ tree' = [t EXCEPT !.color = [@ EXCEPT ![g] = RED, ![p] = BLACK, ![q] = BLACK]]
  BY Zenon DEF InsertRecolor
<1>2. PICK b, h : Shape(t, S, b) /\ Inserting(t, S, h, at)
  BY <1>1, InInsert
<1>3. p \in S /\ g \in S
  BY <1>1, <1>2, Grandparent
<1>4. tree'.parent = t.parent
  BY <1>1, <1>2 DEF Shape, Trees
<1>5. at'.parent = t.parent[g]
  <2>1. a = Move(at, g, t.parent[g])
    BY DEF Move
  <2> DEFINE n == at.node
  <2>2. at = [op |-> "insert", node |-> n, parent |-> p]
    BY <1>2 DEF Inserting
  <2> HIDE DEF a, n, p, g, t
  <2>3. a = [op |-> "insert", node |-> g, parent |-> t.parent[g]]
    BY <2>1, <2>2, MoveAt
  <2> QED BY <1>1, <2>3
<1> HIDE DEF t, p, g
<1>6. Level = Rank(t, p) /\ Level' = Rank(t, t.parent[g])
  BY <1>4, <1>5, LevelIs, RankSame DEF t, p
<1>7. Rank(t, t.parent[g]) < Rank(t, g) /\ Rank(t, g) \in Nat /\ Rank(t, t.parent[g]) \in Nat
  BY <1>2, <1>3, RankParent
<1>8. Rank(t, g) < Rank(t, p) /\ Rank(t, p) \in Nat
  BY <1>2, <1>3, RankParent DEF g
<1>9. Rank(t, t.parent[g]) < Rank(t, p)
  BY <1>7, <1>8
<1> QED BY <1>6, <1>9

\* A round of rb_erase_fix() goes up one, or stops at a red node next.
LEMMA FixClimbs ==
    ASSUME RbInv, FixRecolor
    PROVE  Level' < Level \/ (at'.op = "erase" /\ rb_red(tree', at'.node))
<1> DEFINE t == BlackBrother
           S == linked
           p == at.parent
           z == FixSide
           r == t[Other(z)][p]
           a == [at EXCEPT !.node = p, !.parent = t.parent[p]]
<1>1. Fixing /\ tree' = rb_set_color(t, r, RED) /\ at' = a
  BY DEF FixRecolor
<1>2. /\ Blackens(tree, t, S, p, z)
      /\ at = [op |-> "erase", node |-> at.node, parent |-> p]
  BY <1>1, RoundIs
<1>3. a = [op |-> "erase", node |-> p, parent |-> t.parent[p]]
  <2>1. a = Move(at, p, t.parent[p])
    BY DEF Move
  <2> DEFINE n == at.node
  <2>2. at = [op |-> "erase", node |-> n, parent |-> p]
    BY <1>2
  <2> HIDE DEF a, n, p, t
  <2> QED BY <2>1, <2>2, MoveAt
<1>4. PICK b, h : Shape(t, S, b) /\ Short(t, S, h, p, z)
  BY <1>2 DEF Blackens
<1> HIDE DEF a, t, z
<1>5. p \in S /\ z \in Side /\ Balanced(t, S, h, {<<p, z>>})
  BY <1>4 DEF Short
<1>6. r # Null
  BY <1>4, <1>5, BrotherIs
<1>7. r \in Node /\ p # Null /\ p \in Node
  <2>1. r \in Ref /\ p # Null /\ p \in Node
    BY <1>4, <1>5, Numbers, Sides
  <2> QED BY <1>6, <2>1 DEF Ref
<1> HIDE DEF r
<1>8. SetsColor(t, tree', r, RED)
  BY <1>1, <1>4, <1>7, ColorSet DEF Shape
<1>9. at'.op = "erase" /\ at'.node = p /\ at'.parent = t.parent[p]
  BY <1>1, <1>3
<1>10. CASE t = tree
  <2>1. tree'.parent = tree.parent
    BY <1>8, <1>10 DEF SetsColor
  <2>2. Level = Rank(tree, p) /\ Level' = Rank(tree', tree.parent[p])
    BY <1>9, <1>10, LevelIs
  <2>3. Level' = Rank(tree, tree.parent[p])
    BY <2>1, <2>2, RankSame
  <2>4. Rank(tree, tree.parent[p]) < Rank(tree, p)
    BY <1>4, <1>5, <1>10, RankParent
  <2> QED BY <2>2, <2>3, <2>4
<1>11. CASE t.color[p] = RED
  <2>1. tree'.color[p] = RED
    BY <1>7, <1>8, <1>11 DEF SetsColor
  <2> QED BY <1>7, <1>9, <2>1 DEF rb_red
<1>12. t = tree \/ t.color[p] = RED
  BY <1>2 DEF Blackens
<1> QED BY <1>10, <1>11, <1>12

\* A round of rb_insert() or of rb_erase_fix() is the last one, is nearer to the
\* root than the one before, or has found the red node it stops at.
THEOREM LoopsEnd == RbSpec => RoundsClimb
<1> DEFINE Climbs == at # Idle => \/ at' = Idle
                                  \/ Level' < Level
                                  \/ at'.op = "erase" /\ rb_red(tree', at'.node)
<1>1. ASSUME RbInv, RbNext PROVE Climbs
  <2>1. CASE InsertRecolor
    <3>1. Level' < Level
      BY <1>1, <2>1, RecolorClimbs
    <3> QED BY <3>1, Zenon
  <2>2. CASE InsertRotate \/ InsertDone \/ FixRotate \/ FixDone
    <3>1. at' = Idle
      BY <2>2, Zenon DEF InsertRotate, InsertDone, FixRotate, FixDone
    <3> QED BY <3>1, Zenon
  <2>3. CASE FixRecolor
    <3>1. Level' < Level \/ (at'.op = "erase" /\ rb_red(tree', at'.node))
      BY <1>1, <2>3, FixClimbs
    <3> QED BY <3>1, Zenon
  <2>4. ASSUME NEW x \in Node, rb_link(x) \/ rb_erase(x) PROVE at = Idle
    BY <2>4 DEF rb_link, rb_erase
  <2> QED BY <1>1, <2>1, <2>2, <2>3, <2>4 DEF RbNext, Loop
<1>2. RbInv /\ [RbNext]_rbVars => [Climbs]_rbVars
  BY <1>1
<1> QED BY <1>2, TreeInvariant, PTL DEF RbSpec, RoundsClimb

=============================================================================
