------------------------------- MODULE RbTree -------------------------------
(***************************************************************************)
(* The red-black tree of rbtree.c, which balloc.c keeps its ranges in.     *)
(* The nodes and their links are those of the code; a node is also its     *)
(* key, so a tree is in order when nodes grow from left to right.  One     *)
(* round of the loop of rb_insert() or rb_erase_fix() is one step.         *)
(***************************************************************************)
EXTENDS Integers, FiniteSets

CONSTANT N          \* nodes are 1 .. N, 0 is the null pointer

ASSUME RbAssumption == N \in Nat

VARIABLES tree,     \* root, left, right, parent and color of the nodes
          at,       \* what the loop works on: the operation, a node, its parent
          linked    \* nodes that callers put in and did not take out

rbVars == <<tree, at, linked>>

Node == 1 .. N
Null == 0
RED == 0
BLACK == 1
Idle == [op |-> "none", node |-> Null, parent |-> Null]

\* rb_red() and rb_black(): the null pointer is black.
rb_red(t, x) == x # Null /\ t.color[x] = RED
rb_black(t, x) == ~rb_red(t, x)

\* rb_set_color() and rb_set_parent() of a node that exists.
rb_set_color(t, x, c) == [t EXCEPT !.color[x] = c]
rb_set_parent(t, x, p) == IF x = Null THEN t ELSE [t EXCEPT !.parent[x] = p]

\* The link to old, in its parent p or in the root, is made one to new.
Relink(t, p, old, new) ==
    IF p = Null THEN [t EXCEPT !.root = new]
    ELSE IF t.left[p] = old THEN [t EXCEPT !.left[p] = new]
    ELSE [t EXCEPT !.right[p] = new]

rb_rotate_left(t, x) ==
    LET p == t.parent[x]
        r == t.right[x]
        t1 == rb_set_parent([t EXCEPT !.right[x] = t.left[r]], t.left[r], x)
        t2 == rb_set_parent([t1 EXCEPT !.left[r] = x], r, p)
    IN  rb_set_parent(Relink(t2, p, x, r), x, r)

\* Wrong: the inner subtree keeps its parent (mutant).
rb_rotate_right_orphan(t, x) ==
    LET p == t.parent[x]
        l == t.left[x]
        t1 == [t EXCEPT !.left[x] = t.right[l]]
        t2 == rb_set_parent([t1 EXCEPT !.right[l] = x], l, p)
    IN  rb_set_parent(Relink(t2, p, x, l), x, l)

rb_rotate_right(t, x) ==
    LET p == t.parent[x]
        l == t.left[x]
        t1 == rb_set_parent([t EXCEPT !.left[x] = t.right[l]], t.right[l], x)
        t2 == rb_set_parent([t1 EXCEPT !.right[l] = x], l, p)
    IN  rb_set_parent(Relink(t2, p, x, l), x, l)

\* The loops of rbtree.c treat the two sides alike: what they do on the left
\* with the right brother they do on the right with the left one.
Side == {"left", "right"}
Other(side) == IF side = "left" THEN "right" ELSE "left"
Rotate(t, x, side) == IF side = "left" THEN rb_rotate_left(t, x) ELSE rb_rotate_right(t, x)

-----------------------------------------------------------------------------
(* Walking the tree *)

\* The nodes i links up from x; above the root there is only Null.
Ancestor(t, x) ==
    LET up[i \in 0 .. N] ==
          IF i = 0 THEN x
          ELSE LET y == up[i - 1] IN IF y = Null THEN Null ELSE t.parent[y]
    IN  up

\* __rb_leftmost() and __rb_rightmost() of a subtree.
Outermost(t, x, side) ==
    LET down[i \in 0 .. N] ==
          IF i = 0 THEN x
          ELSE LET y == down[i - 1] IN IF y = Null THEN Null ELSE t[side][y]
    IN  IF x = Null THEN Null
        ELSE down[CHOOSE i \in 0 .. N : down[i] # Null /\ (i = N \/ down[i + 1] = Null)]

\* Wrong: the walk goes up one link only (mutant).
FirstTurnParent(t, x, side) == t.parent[x]

\* The first ancestor that x is not on the given side of: the loops of
\* rb_next() and rb_prev().
FirstTurn(t, x, side) ==
    LET up == Ancestor(t, x)
        turns == {i \in 0 .. N - 1 : up[i] # Null /\
                    (up[i + 1] = Null \/ t[side][up[i + 1]] # up[i])}
    IN  up[1 + CHOOSE i \in turns : \A j \in turns : i <= j]

rb_next(t, x) ==
    IF t.right[x] # Null THEN Outermost(t, t.right[x], "left") ELSE FirstTurn(t, x, "right")

rb_prev(t, x) ==
    IF t.left[x] # Null THEN Outermost(t, t.left[x], "right") ELSE FirstTurn(t, x, "left")

-----------------------------------------------------------------------------
(* Insertion *)

EmptyTree == [root |-> Null,
              left |-> [x \in Node |-> Null], right |-> [x \in Node |-> Null],
              parent |-> [x \in Node |-> Null], color |-> [x \in Node |-> RED]]

RbInit == tree = EmptyTree /\ at = Idle /\ linked = {}

\* The search of a caller (balloc.c): the leaf link a new node goes to.
Place(t, x) ==
    CHOOSE p \in linked : \E side \in Side :
        /\ t[side][p] = Null
        /\ (side = "left") <=> x < p
        /\ \A y \in linked : ~ (x < y /\ y < p) /\ ~ (p < y /\ y < x)

\* rb_link() puts a red node below its place; the caller then calls rb_insert().
rb_link(x) ==
    /\ at = Idle /\ x \notin linked
    /\ linked' = linked \cup {x}
    /\ LET p == IF linked = {} THEN Null ELSE Place(tree, x)
           t1 == [tree EXCEPT !.parent[x] = p, !.color[x] = RED,
                              !.left[x] = Null, !.right[x] = Null]
       IN  /\ tree' = IF p = Null THEN [t1 EXCEPT !.root = x]
                      ELSE IF x < p THEN [t1 EXCEPT !.left[p] = x]
                      ELSE [t1 EXCEPT !.right[p] = x]
           /\ at' = [op |-> "insert", node |-> x, parent |-> p]

\* A red uncle: both it and the parent become black, and the loop goes on
\* with the grandparent.
InsertRecolor ==
    LET p == at.parent
        g == tree.parent[p]
        uncle == IF p = tree.left[g] THEN tree.right[g] ELSE tree.left[g]
    IN  /\ at.op = "insert" /\ rb_red(tree, p) /\ rb_red(tree, uncle)
        /\ tree' = [tree EXCEPT !.color = [@ EXCEPT ![g] = RED, ![p] = BLACK, ![uncle] = BLACK]]
        /\ at' = [at EXCEPT !.node = g, !.parent = tree.parent[g]]
        /\ UNCHANGED linked

\* Wrong: a node on the inner side is not rotated out first (mutant).
InsertRotateOnce ==
    LET p == at.parent
        g == tree.parent[p]
        side == IF p = tree.left[g] THEN "left" ELSE "right"
        t1 == Rotate(tree, g, Other(side))
    IN  /\ at.op = "insert" /\ rb_red(tree, p)
        /\ rb_black(tree, tree[Other(side)][g])
        /\ tree' = LET t2 == rb_set_color(rb_set_color(t1, p, BLACK), g, RED)
                   IN  rb_set_color(t2, t2.root, BLACK)
        /\ at' = Idle
        /\ UNCHANGED linked

\* A black uncle: one or two rotations, and the loop ends.
InsertRotate ==
    LET p == at.parent
        g == tree.parent[p]
        side == IF p = tree.left[g] THEN "left" ELSE "right"
        inner == at.node = tree[Other(side)][p]
        top == IF inner THEN at.node ELSE p
        t1 == Rotate(IF inner THEN Rotate(tree, p, side) ELSE tree, g, Other(side))
    IN  /\ at.op = "insert" /\ rb_red(tree, p)
        /\ rb_black(tree, tree[Other(side)][g])
        /\ tree' = LET t2 == rb_set_color(rb_set_color(t1, top, BLACK), g, RED)
                   IN  rb_set_color(t2, t2.root, BLACK)
        /\ at' = Idle
        /\ UNCHANGED linked

\* A black parent, or none: nothing is left to do.
InsertDone ==
    /\ at.op = "insert" /\ rb_black(tree, at.parent)
    /\ tree' = rb_set_color(tree, tree.root, BLACK)
    /\ at' = Idle
    /\ UNCHANGED linked

-----------------------------------------------------------------------------
(* Removal *)

\* What rb_erase() does before rb_erase_fix(): x takes the place of the node,
\* c that of x, p is above c, and color is the color that is gone.  Nothing
\* reads the links of an erased node, so they are cleared here.
Unlink(t, n) ==
    LET two == t.left[n] # Null /\ t.right[n] # Null
        only == IF t.left[n] # Null THEN t.left[n] ELSE t.right[n]
        x == IF two THEN rb_next(t, n) ELSE only
        c == IF two THEN t.right[x] ELSE only
        near == two /\ x = t.right[n]
        p == IF near THEN x ELSE IF two THEN t.parent[x] ELSE t.parent[n]
        color == IF two THEN t.color[x] ELSE t.color[n]
        t1 == IF near
              THEN rb_set_parent([t EXCEPT !.left[x] = t.left[n], !.parent[x] = t.parent[n],
                                           !.color[x] = t.color[n]], t.left[n], x)
              ELSE IF two
              THEN LET copied == [t EXCEPT !.left[x] = t.left[n], !.right[x] = t.right[n],
                                           !.parent[x] = t.parent[n], !.color[x] = t.color[n]]
                       moved == rb_set_parent([copied EXCEPT !.left[p] = c], c, p)
                   IN  rb_set_parent(rb_set_parent(moved, moved.left[x], x), moved.right[x], x)
              ELSE rb_set_parent(t, c, p)
        t2 == Relink(t1, t.parent[n], n, x)
    IN  [tree |-> [t2 EXCEPT !.left[n] = Null, !.right[n] = Null,
                             !.parent[n] = Null, !.color[n] = RED],
         c |-> c, p |-> p, color |-> color]

rb_erase(n) ==
    LET u == Unlink(tree, n)
    IN  /\ at = Idle /\ n \in linked
        /\ linked' = linked \ {n}
        /\ tree' = u.tree
        /\ at' = IF u.color = BLACK THEN [op |-> "erase", node |-> u.c, parent |-> u.p]
                 ELSE Idle

\* Where the loop of rb_erase_fix() is: the side of the node, and its brother
\* after a red one was rotated away.
FixSide == IF at.node = tree.left[at.parent] THEN "left" ELSE "right"
Fixing == at.op = "erase" /\ rb_black(tree, at.node) /\ at.node # tree.root

BlackBrother ==
    LET b == tree[Other(FixSide)][at.parent]
    IN  IF rb_red(tree, b)
        THEN Rotate(rb_set_color(rb_set_color(tree, b, BLACK), at.parent, RED),
                    at.parent, FixSide)
        ELSE tree

\* Wrong: the loop goes on where it is (mutant).
FixRecolorStay ==
    LET t == BlackBrother
        b == t[Other(FixSide)][at.parent]
    IN  /\ Fixing
        /\ rb_black(t, t.left[b]) /\ rb_black(t, t.right[b])
        /\ tree' = rb_set_color(t, b, RED)
        /\ UNCHANGED <<at, linked>>

\* A brother with black children becomes red, and the loop goes on above.
FixRecolor ==
    LET t == BlackBrother
        b == t[Other(FixSide)][at.parent]
    IN  /\ Fixing
        /\ rb_black(t, t.left[b]) /\ rb_black(t, t.right[b])
        /\ tree' = rb_set_color(t, b, RED)
        /\ at' = [at EXCEPT !.node = at.parent, !.parent = t.parent[at.parent]]
        /\ UNCHANGED linked

\* Otherwise one or two rotations end the loop; the root is made black.
FixRotate ==
    LET t == BlackBrother
        side == FixSide
        far == Other(side)
        b0 == t[far][at.parent]
        t1 == IF rb_black(t, t[far][b0])
              THEN Rotate(rb_set_color(rb_set_color(t, t[side][b0], BLACK), b0, RED), b0, far)
              ELSE t
        b == t1[far][at.parent]
        t2 == rb_set_color(rb_set_color(t1, b, t1.color[at.parent]), at.parent, BLACK)
        t3 == IF t2[far][b] = Null THEN t2 ELSE rb_set_color(t2, t2[far][b], BLACK)
        t4 == Rotate(t3, at.parent, side)
    IN  /\ Fixing
        /\ rb_red(t, t.left[b0]) \/ rb_red(t, t.right[b0])
        /\ tree' = rb_set_color(t4, t4.root, BLACK)
        /\ at' = Idle
        /\ UNCHANGED linked

\* The loop ends at a red node or at the root, which becomes black.
FixDone ==
    /\ at.op = "erase" /\ ~Fixing
    /\ tree' = IF at.node = Null THEN tree ELSE rb_set_color(tree, at.node, BLACK)
    /\ at' = Idle
    /\ UNCHANGED linked

-----------------------------------------------------------------------------
Loop == InsertRecolor \/ InsertRotate \/ InsertDone \/ FixRecolor \/ FixRotate \/ FixDone

RbNext == Loop \/ \E x \in Node : rb_link(x) \/ rb_erase(x)

RbSpec == RbInit /\ [][RbNext]_rbVars

-----------------------------------------------------------------------------
(* Properties *)

\* Nodes, or null, in every link; the loops work on nodes of the tree.
RbTypeOK ==
    /\ tree.root \in Node \cup {Null}
    /\ tree.left \in [Node -> Node \cup {Null}]
    /\ tree.right \in [Node -> Node \cup {Null}]
    /\ tree.parent \in [Node -> Node \cup {Null}]
    /\ tree.color \in [Node -> {RED, BLACK}]
    /\ linked \subseteq Node
    /\ at.node \in linked \cup {Null} /\ at.parent \in linked \cup {Null}

\* The ancestors of a node, and itself.
Above(x) == {Ancestor(tree, x)[i] : i \in 0 .. N} \ {Null}

(***************************************************************************)
(* At every step, in the middle of a loop too, the links form one tree of  *)
(* exactly the nodes that were put in and not taken out, parents and       *)
(* children agree, and it is in order: no rotation and no rb_erase() loses *)
(* a subtree or moves it to the wrong side.                                *)
(***************************************************************************)
TreeInOrder ==
    /\ RbTypeOK
    /\ tree.root = Null <=> linked = {}
    /\ tree.root # Null => tree.root \in linked /\ tree.parent[tree.root] = Null
    /\ \A x \in linked : tree.root \in Above(x)
    /\ \A x \in linked, side \in Side :
         LET c == tree[side][x]
         IN  c # Null => c \in linked /\ tree.parent[c] = x /\ c # tree[Other(side)][x]
    /\ \A x \in linked \ {tree.root} : \E side \in Side : tree[side][tree.parent[x]] = x
    /\ \A x \in linked : \A y \in Above(x) \ {x} :
         (x < y) <=> (tree.left[y] \in Above(x))

Blacks(x) == Cardinality({y \in Above(x) : tree.color[y] = BLACK})
Leafward == {x \in linked : tree.left[x] = Null \/ tree.right[x] = Null}

(***************************************************************************)
(* Whenever rb_insert() or rb_erase() is back, the tree is red-black: the  *)
(* root is black, no red node has a red child, and every way down passes   *)
(* the same number of black nodes.  Its height stays logarithmic then,     *)
(* which balloc.c, searching on every allocation, relies on.               *)
(***************************************************************************)
RedBlack ==
    at = Idle =>
        /\ rb_black(tree, tree.root)
        /\ \A x \in linked : rb_red(tree, x) => rb_black(tree, tree.parent[x])
        /\ \A x, y \in Leafward : Blacks(x) = Blacks(y)

(***************************************************************************)
(* rb_next() and rb_prev() visit the nodes in order, none left out: what   *)
(* __balloc_alloc() and balloc_parse_mmap() go over the ranges with.       *)
(***************************************************************************)
NeighboursRight ==
    at = Idle => \A x \in linked :
        LET next == rb_next(tree, x)
            prev == rb_prev(tree, x)
        IN  /\ next = Null => \A y \in linked : y <= x
            /\ next # Null => next > x /\ \A y \in linked : y <= x \/ y >= next
            /\ prev = Null => \A y \in linked : y >= x
            /\ prev # Null => prev < x /\ \A y \in linked : y >= x \/ y <= prev

\* How far from the root the loops are: the nodes from at.parent upwards.
Level == IF at.parent = Null THEN 0 ELSE Cardinality(Above(at.parent))

(***************************************************************************)
(* Both loops end: a round is the last one, or goes on nearer to the root, *)
(* or has a red node to stop at, which a red brother that was rotated away *)
(* leaves (rbtree.c:142, 187 and 196).  The loops have no other bound.     *)
(***************************************************************************)
RoundsClimb ==
    [][at # Idle => \/ at' = Idle
                    \/ Level' < Level
                    \/ at'.op = "erase" /\ rb_red(tree', at'.node)]_rbVars
=============================================================================
