-------------------------- MODULE FileSystemProofs --------------------------
(***************************************************************************)
(* Proofs about the file system: the nodes stay a tree whatever callers    *)
(* look up, create, write and close, and while callers keep to what the    *)
(* code handles, it runs out of space only when every block is in use.     *)
(* They hold for any names, also where some are prefixes of others, and    *)
(* any number and size of blocks.                                          *)
(***************************************************************************)
EXTENDS FileSystem, QueueTheorems

-----------------------------------------------------------------------------
(* Numbers *)

\* The larger and the smaller of two numbers, as the macros of the code have them.
LEMMA LargerOf ==
    ASSUME NEW a \in Int, NEW b \in Int
    PROVE  Max({a, b}) = IF a >= b THEN a ELSE b
BY DEF Max

LEMMA SmallerOf ==
    ASSUME NEW a \in Int, NEW b \in Int
    PROVE  Min({a, b}) = IF a <= b THEN a ELSE b
BY DEF Min

-----------------------------------------------------------------------------
(* Looking up names *)

\* What is known of a node of a tree.
LEMMA NodeOf ==
    ASSUME NEW t, IsTree(t), NEW n \in DOMAIN t
    PROVE  /\ DOMAIN t = 1 .. Len(t) /\ Len(t) \in Nat /\ 1 \in DOMAIN t
           /\ t[n] \in Node
           /\ DOMAIN t[n].children = 1 .. Len(t[n].children)
           /\ \A j \in DOMAIN t[n].children : t[n].children[j] \in DOMAIN t
<1>1. t \in Seq(Node) /\ t # <<>> /\ t[n].children \in Seq(DOMAIN t)
  BY DEF IsTree
<1>2. DOMAIN t = 1 .. Len(t) /\ Len(t) \in Nat /\ Len(t) # 0
  BY <1>1, LenProperties, EmptySeq
<1>3. t[n] \in Node
  BY <1>1, <1>2, ElementOfSeq
<1>4. /\ DOMAIN t[n].children = 1 .. Len(t[n].children)
      /\ \A j \in 1 .. Len(t[n].children) : t[n].children[j] \in DOMAIN t
  BY <1>1, LenProperties, ElementOfSeq
<1> QED BY <1>2, <1>3, <1>4

\* The loop over children ends at one that answers to the name, or there is none.
LEMMA ChildFound ==
    ASSUME IsTree(nodes), NEW n \in DOMAIN nodes, NEW name
    PROVE  /\ Child(n, name) \in {0} \cup DOMAIN nodes
           /\ Child(n, name) = 0 =>
                \A m : Contains(nodes[n].children, m) => ~ streq(name, Last(nodes[m].path))
<1> DEFINE kids == nodes[n].children
           hits == {j \in DOMAIN kids : streq(name, Last(nodes[kids[j]].path))}
<1>1. /\ DOMAIN kids = 1 .. Len(kids) /\ DOMAIN nodes = 1 .. Len(nodes)
      /\ \A j \in DOMAIN kids : kids[j] \in DOMAIN nodes
  BY NodeOf
<1>2. Child(n, name) = IF hits = {} THEN 0 ELSE kids[Min(hits)]
  BY DEF Child
<1>3. hits # {} => Min(hits) \in hits
  <2>1. hits \in SUBSET Nat
    BY <1>1
  <2> HIDE DEF hits
  <2> QED BY <2>1, LeastOf
<1>4. hits # {} => kids[Min(hits)] \in DOMAIN nodes
  BY <1>1, <1>3
<1>5. ASSUME hits = {}, NEW m, Contains(kids, m) PROVE ~ streq(name, Last(nodes[m].path))
  <2>1. PICK j \in DOMAIN kids : kids[j] = m
    BY <1>1, <1>5 DEF Contains
  <2> QED BY <1>5, <2>1
<1>6. 0 \notin DOMAIN nodes
  BY <1>1
<1> HIDE DEF hits
<1> QED BY <1>2, <1>4, <1>5, <1>6

\* The walk over the components of a path ends at a directory, or in a BUG_ON.
Walks(f, p) ==
    f = [i \in 0 .. Len(p) - 1 |->
           LET n == IF i = 0 THEN 1 ELSE f[i - 1]
               m == IF i = 0 \/ n = 0 THEN n ELSE Child(n, p[i])
           IN  IF m = 0 \/ nodes[m].type # "DIR" THEN 0 ELSE m]

LEMMA ParentFound ==
    ASSUME IsTree(nodes), NEW S, NEW p \in Seq(S), p # <<>>
    PROVE  Parent(p) \in {0} \cup {n \in DOMAIN nodes : nodes[n].type = "DIR"}
<1> DEFINE D == {0} \cup {n \in DOMAIN nodes : nodes[n].type = "DIR"}
           If(m) == IF m = 0 \/ nodes[m].type # "DIR" THEN 0 ELSE m
           top == If(1)
           step == [i \in Nat |-> [n \in D |-> If(IF n = 0 THEN 0 ELSE Child(n, p[i]))]]
           k == Len(p) - 1
<1>1. DOMAIN nodes = 1 .. Len(nodes) /\ Len(nodes) \in Nat /\ 1 \in DOMAIN nodes
  <2>1. nodes \in Seq(Node) /\ nodes # <<>>
    BY DEF IsTree
  <2> QED BY <2>1, LenProperties, EmptySeq
<1>2. k \in Nat
  <2>1. Len(p) \in Nat /\ Len(p) # 0
    BY LenProperties, EmptySeq
  <2> QED BY <2>1
<1>3. \A m \in {0} \cup DOMAIN nodes : If(m) \in D
  OBVIOUS
<1>4. top \in D
  BY <1>1, <1>3
<1>5. ASSUME NEW i \in Nat, NEW n \in D PROVE step[i][n] \in D /\ step[i] \in [D -> D]
  <2>1. ASSUME NEW q \in D PROVE (IF q = 0 THEN 0 ELSE Child(q, p[i])) \in {0} \cup DOMAIN nodes
    BY <2>1, ChildFound
  <2> QED BY <1>3, <2>1
<1>6. step \in [Nat -> [D -> D]]
  BY <1>4, <1>5
<1> HIDE DEF D, step, top, k
<1>7. PICK f : /\ f \in [0 .. k -> D]
               /\ f[0] = top /\ \A i \in 1 .. k : f[i] = step[i][f[i - 1]]
  <2>1. \E f : IsLoop(f, D, top, step, k)
    BY <1>2, <1>4, <1>6, LoopExists
  <2> QED BY <2>1 DEF IsLoop
<1> DEFINE Body(g, i) ==
             LET n == IF i = 0 THEN 1 ELSE g[i - 1]
                 m == IF i = 0 \/ n = 0 THEN n ELSE Child(n, p[i])
             IN  IF m = 0 \/ nodes[m].type # "DIR" THEN 0 ELSE m
<1>8. ASSUME NEW i \in 0 .. k PROVE f[i] = Body(f, i)
  <2>1. CASE i = 0
    BY <1>7, <2>1 DEF top
  <2>2. CASE i # 0
    <3>1. i \in 1 .. k /\ i - 1 \in 0 .. k /\ i \in Nat
      BY <1>2, <2>2
    <3>2. f[i] = step[i][f[i - 1]] /\ f[i - 1] \in D
      BY <1>7, <3>1
    <3>3. f[i] = If(IF f[i - 1] = 0 THEN 0 ELSE Child(f[i - 1], p[i]))
      BY <3>1, <3>2 DEF step
    <3> QED BY <2>2, <3>3
  <2> QED BY <2>1, <2>2
<1>9. f = [i \in 0 .. k |-> Body(f, i)]
  <2> HIDE DEF Body
  <2> QED BY <1>7, <1>8
<1>10. Walks(f, p)
  BY <1>9 DEF Walks, k
<1>11. PICK g : Walks(g, p) /\ Parent(p) = g[k]
  <2> DEFINE g == CHOOSE h : Walks(h, p)
  <2>1. Walks(g, p)
    BY <1>10
  <2>2. Parent(p) = g[k]
    BY DEF Parent, Walks, k
  <2> QED BY <2>1, <2>2
<1>12. \A i \in 0 .. k : g[i] = Body(g, i)
  BY <1>11 DEF Walks, k
<1>13. g[0] \in D
  BY <1>2, <1>4, <1>12 DEF top
<1>14. ASSUME NEW i \in 1 .. k, g[i - 1] \in D PROVE g[i] \in D
  <2>1. i \in Nat /\ i # 0 /\ i \in 0 .. k
    BY <1>2
  <2>2. g[i] = If(IF g[i - 1] = 0 THEN 0 ELSE Child(g[i - 1], p[i]))
    BY <1>12, <2>1
  <2>3. g[i] = step[i][g[i - 1]]
    BY <1>14, <2>1, <2>2 DEF step
  <2> QED BY <1>5, <1>14, <2>1, <2>3
<1>15. \A i \in 0 .. k : g[i] \in D
  BY <1>2, <1>13, <1>14, StaysIn
<1> QED BY <1>2, <1>11, <1>15 DEF D

-----------------------------------------------------------------------------
(* What changes the tree *)

\* The nodes of u have the first blocks that those of t have.
SameHeads(t, u) ==
    /\ DOMAIN t \subseteq DOMAIN u
    /\ \A n \in DOMAIN t : u[n].list_head = t[n].list_head
    /\ \A n \in DOMAIN u \ DOMAIN t : u[n].list_head = 0

\* A node created in a directory where none has its name: no other has its path.
LEMMA TreeGrows ==
    ASSUME NEW t, IsTree(t), NEW d \in DOMAIN t, t[d].type = "DIR",
           NEW name \in Name \cup {NoName}, NEW type \in {"FILE", "DIR"},
           \A m : Contains(t[d].children, m) => Last(t[m].path) # name,
           NEW u,
           u = Append([t EXCEPT ![d].children = Append(@, Len(t) + 1)],
                      init_fs_node(Append(t[d].path, name), type))
    PROVE  IsTree(u) /\ Len(u) = Len(t) + 1 /\ SameHeads(t, u)
<1> DEFINE C == Name \cup {NoName}
           n == Len(t) + 1
           v == [t EXCEPT ![d].children = Append(@, n)]
           q == Append(t[d].path, name)
           x == init_fs_node(q, type)
<1>1. /\ t \in Seq(Node) /\ DOMAIN t = 1 .. Len(t) /\ Len(t) \in Nat /\ 1 \in DOMAIN t
      /\ t[d] \in Node /\ t[d].path \in Seq(C) /\ t[d].children \in Seq(DOMAIN t)
  <2>1. t \in Seq(Node) /\ t[d].children \in Seq(DOMAIN t)
    BY DEF IsTree
  <2>2. DOMAIN t = 1 .. Len(t) /\ Len(t) \in Nat /\ 1 \in DOMAIN t /\ t[d] \in Node
    BY NodeOf
  <2> QED BY <2>1, <2>2 DEF Node
<1>2. /\ n \in Nat /\ n \notin DOMAIN t
      /\ DOMAIN t \subseteq 1 .. n /\ 1 .. n = DOMAIN t \cup {n}
  BY <1>1
<1>3. /\ q \in Seq(C) /\ q # <<>> /\ Front(q) = t[d].path /\ Last(q) = name
  <2>1. t[d].path \in Seq(C) /\ name \in C
    BY <1>1
  <2> HIDE DEF C
  <2> QED BY <2>1, AppendMembers, FrontOfAppend
<1>4. /\ Append(t[d].children, n) \in Seq(1 .. n)
      /\ \A y : Contains(Append(t[d].children, n), y) <=> Contains(t[d].children, y) \/ y = n
  <2>1. t[d].children \in Seq(1 .. n) /\ n \in 1 .. n
    BY <1>1, <1>2, SeqMonotonic
  <2> QED BY <2>1, AppendMembers
<1>5. x \in Node /\ x.path = q /\ x.type = type /\ x.children = <<>> /\ x.list_head = 0
  <2>1. 0 \in 0 .. BLOCKS
    BY FsAssumption
  <2> QED BY <1>3, <2>1 DEF init_fs_node, Node
<1>6. /\ v \in Seq(Node) /\ Len(v) = Len(t)
      /\ \A m \in DOMAIN t : v[m] = IF m = d THEN [t[d] EXCEPT !.children = Append(@, n)] ELSE t[m]
  <2>1. [t[d] EXCEPT !.children = Append(@, n)] \in Node
    <3>1. 1 .. n \subseteq Nat
      OBVIOUS
    <3>2. Append(t[d].children, n) \in Seq(Nat)
      BY <1>4, <3>1, SeqMonotonic
    <3> HIDE DEF n
    <3> QED BY <1>1, <3>2 DEF Node
  <2>2. v = [t EXCEPT ![d] = [t[d] EXCEPT !.children = Append(@, n)]]
    OBVIOUS
  <2> QED BY <1>1, <2>1, <2>2, ExceptSeq
<1>7. /\ u \in Seq(Node) /\ u # <<>> /\ Len(u) = n /\ DOMAIN u = 1 .. n
      /\ u[n] = x
      /\ \A m \in DOMAIN t : u[m] = v[m]
  <2>1. u = Append(v, x)
    OBVIOUS
  <2> HIDE DEF v, x
  <2>2. /\ u \in Seq(Node) /\ Len(u) = Len(t) + 1 /\ u[Len(t) + 1] = x
        /\ \A m \in 1 .. Len(t) : u[m] = v[m]
    <3>1. v \in Seq(Node) /\ x \in Node /\ Len(v) = Len(t)
      BY <1>5, <1>6
    <3>2. /\ Append(v, x) \in Seq(Node) /\ Len(Append(v, x)) = Len(v) + 1
          /\ \A m \in 1 .. Len(v) : Append(v, x)[m] = v[m]
          /\ Append(v, x)[Len(v) + 1] = x
      BY <3>1, AppendProperties
    <3> QED BY <2>1, <3>1, <3>2
  <2>3. DOMAIN u = 1 .. Len(u) /\ u # <<>>
    BY <1>5, <1>6, <2>1, <2>2, LenProperties, AppendMembers
  <2> QED BY <1>1, <2>2, <2>3
<1>8. \A m \in DOMAIN t :
        /\ u[m].path = t[m].path /\ u[m].type = t[m].type
        /\ u[m].list_head = t[m].list_head
        /\ u[m].children = IF m = d THEN Append(t[d].children, n) ELSE t[m].children
  <2> SUFFICES ASSUME NEW m \in DOMAIN t
               PROVE  /\ u[m].path = t[m].path /\ u[m].type = t[m].type
                      /\ u[m].list_head = t[m].list_head
                      /\ u[m].children = IF m = d THEN Append(t[d].children, n) ELSE t[m].children
    OBVIOUS
  <2>1. u[m] = IF m = d THEN [t[d] EXCEPT !.children = Append(@, n)] ELSE t[m]
    BY <1>6, <1>7
  <2>2. t[m] \in Node
    BY NodeOf
  <2> HIDE DEF n
  <2> QED BY <2>1, <2>2 DEF Node
<1> HIDE DEF n, v, q, x
<1>9. u[1].path = <<>>
  BY <1>1, <1>8 DEF IsTree
<1>10. ASSUME NEW m \in DOMAIN u PROVE u[m].children \in Seq(DOMAIN u)
  <2>1. CASE m = n
    <3>1. u[m].children = <<>>
      BY <1>5, <1>7, <2>1
    <3>2. <<>> \in Seq(DOMAIN u)
      BY EmptySeq
    <3> QED BY <3>1, <3>2
  <2>2. CASE m \in DOMAIN t /\ m = d
    BY <1>4, <1>7, <1>8, <2>2
  <2>3. CASE m \in DOMAIN t /\ m # d
    <3>1. t[m].children \in Seq(DOMAIN t)
      BY <2>3 DEF IsTree
    <3> QED BY <1>2, <1>7, <1>8, <2>3, <3>1, SeqMonotonic
  <2> QED BY <1>2, <1>7, <2>1, <2>2, <2>3
<1>11. ASSUME NEW m \in DOMAIN t, t[m].path = q PROVE FALSE
  <2>1. m # 1
    BY <1>3, <1>11 DEF IsTree
  <2>2. PICK e \in DOMAIN t : t[e].path = Front(q) /\ Contains(t[e].children, m)
    BY <1>11, <2>1 DEF IsTree
  <2>3. e = d
    BY <1>3, <2>2 DEF IsTree
  <2> QED BY <1>3, <1>11, <2>2, <2>3
<1>12. ASSUME NEW m \in DOMAIN u, NEW k \in DOMAIN u, u[m].path = u[k].path PROVE m = k
  <2>1. u[n].path = q
    BY <1>5, <1>7
  <2>2. CASE m = n \/ k = n
    BY <1>2, <1>7, <1>8, <1>11, <1>12, <2>1, <2>2
  <2>3. CASE m \in DOMAIN t /\ k \in DOMAIN t
    BY <1>8, <1>12, <2>3 DEF IsTree
  <2> QED BY <1>2, <1>7, <2>2, <2>3
<1>13. ASSUME NEW m \in DOMAIN u \ {1}
       PROVE  \E e \in DOMAIN u : /\ u[e].type = "DIR" /\ u[e].path = Front(u[m].path)
                                  /\ Contains(u[e].children, m)
  <2>1. CASE m = n
    <3>1. u[m].path = q /\ d \in DOMAIN u
      BY <1>2, <1>5, <1>7, <2>1
    <3>2. u[d].type = "DIR" /\ u[d].path = Front(q)
      BY <1>3, <1>8
    <3>3. u[d].children = Append(t[d].children, n)
      BY <1>8
    <3>4. Contains(u[d].children, m)
      BY <1>4, <2>1, <3>3
    <3> QED BY <3>1, <3>2, <3>4
  <2>2. CASE m \in DOMAIN t
    <3>1. PICK e \in DOMAIN t : /\ t[e].type = "DIR" /\ t[e].path = Front(t[m].path)
                                /\ Contains(t[e].children, m)
      BY <2>2 DEF IsTree
    <3>2. /\ e \in DOMAIN u /\ u[e].type = "DIR" /\ u[e].path = Front(u[m].path)
          /\ Contains(u[e].children, m)
      BY <1>2, <1>4, <1>7, <1>8, <2>2, <3>1
    <3> QED BY <3>2
  <2> QED BY <1>2, <1>7, <2>1, <2>2
<1>14. IsTree(u)
  BY <1>7, <1>9, <1>10, <1>12, <1>13 DEF IsTree
<1>15. SameHeads(t, u)
  BY <1>2, <1>5, <1>7, <1>8 DEF SameHeads
<1> QED BY <1>7, <1>14, <1>15 DEF n

\* A change that leaves paths, types and children alone leaves the tree alone.
LEMMA TreeKept ==
    ASSUME NEW t, IsTree(t), NEW u \in Seq(Node), DOMAIN u = DOMAIN t,
           \A n \in DOMAIN t : /\ u[n].path = t[n].path /\ u[n].type = t[n].type
                               /\ u[n].children = t[n].children
    PROVE  IsTree(u)
<1>1. u # <<>> /\ 1 \in DOMAIN t
  <2>1. 1 \in DOMAIN t
    <3>1. t \in Seq(Node) /\ t # <<>>
      BY DEF IsTree
    <3> QED BY <3>1, LenProperties, EmptySeq
  <2>2. u # <<>>
    BY <2>1
  <2> QED BY <2>1, <2>2
<1>2. \A n \in DOMAIN u \ {1} :
        \E d \in DOMAIN u : /\ u[d].type = "DIR" /\ u[d].path = Front(u[n].path)
                            /\ Contains(u[d].children, n)
  BY DEF IsTree
<1>3. /\ u[1].path = <<>>
      /\ \A n \in DOMAIN u : u[n].children \in Seq(DOMAIN u)
      /\ \A m, n \in DOMAIN u : u[m].path = u[n].path => m = n
  BY <1>1 DEF IsTree
<1> QED BY <1>1, <1>2, <1>3 DEF IsTree

\* find_node() finds or creates: the tree stays one, and no block changes hands.
LEMMA FindNode ==
    ASSUME IsTree(nodes), NEW p \in Path, NEW type \in {"FILE", "DIR"},
           find_node(p, type).node # 0
    PROVE  /\ IsTree(find_node(p, type).tree)
           /\ find_node(p, type).node \in DOMAIN find_node(p, type).tree
           /\ SameHeads(nodes, find_node(p, type).tree)
<1> DEFINE C == Name \cup {NoName}
           r == find_node(p, type)
           dir == IF BadName(p) THEN 0 ELSE Parent(p)
           hit == IF dir = 0 THEN 0 ELSE Child(dir, Last(p))
           new == Len(nodes) + 1
           made == Append([nodes EXCEPT ![dir].children = Append(@, new)],
                          init_fs_node(Append(nodes[dir].path, Last(p)), type))
<1>1. p \in Seq(C) /\ p # <<>> /\ Last(p) \in C
  <2>1. p \in Seq(C) /\ p # <<>>
    BY FsAssumption
  <2> HIDE DEF C
  <2> QED BY <2>1, FrontAndLast
<1>2. dir \in {0} \cup {n \in DOMAIN nodes : nodes[n].type = "DIR"}
  <2> HIDE DEF C
  <2> QED BY <1>1, ParentFound
<1>3. r = IF dir = 0 THEN [node |-> 0, tree |-> nodes]
          ELSE IF hit # 0 THEN [node |-> hit, tree |-> nodes]
          ELSE IF Len(nodes[dir].children) > MAX_FILES THEN [node |-> 0, tree |-> nodes]
          ELSE [node |-> new, tree |-> made]
  BY DEF find_node
<1> HIDE DEF r, made, dir
<1>4. dir # 0
  BY <1>3 DEF r
<1>5. CASE hit # 0
  <2>1. r.node = hit /\ r.tree = nodes /\ hit \in DOMAIN nodes
    BY <1>2, <1>3, <1>4, <1>5, ChildFound
  <2>2. SameHeads(nodes, nodes)
    BY DEF SameHeads
  <2> QED BY <2>1, <2>2 DEF r
<1>6. CASE hit = 0
  <2>1. r.node = new /\ r.tree = made
    BY <1>3, <1>4, <1>6 DEF r
  <2>2. \A m : Contains(nodes[dir].children, m) => Last(nodes[m].path) # Last(p)
    BY <1>2, <1>4, <1>6, ChildFound DEF streq
  <2>3. IsTree(made) /\ Len(made) = Len(nodes) + 1 /\ SameHeads(nodes, made)
    BY <1>1, <1>2, <1>4, <2>2, TreeGrows DEF made
  <2>4. new \in DOMAIN made
    <3>1. made \in Seq(Node) /\ made # <<>>
      BY <2>3 DEF IsTree
    <3>2. DOMAIN made = 1 .. Len(made) /\ Len(made) \in Nat \ {0}
      BY <3>1, LenProperties, EmptySeq
    <3> QED BY <2>3, <3>2
  <2> QED BY <2>1, <2>3, <2>4 DEF r
<1> QED BY <1>5, <1>6

\* u is t with new values in fields of node n that are not about the tree.
FieldsSet(t, n, o, size, head, u) ==
    /\ u = [m \in DOMAIN t |-> u[m]]
    /\ u[n] = [t[n] EXCEPT !.opened = o, !.size = size, !.list_head = head]
    /\ \A m \in DOMAIN t \ {n} : u[m] = t[m]

\* A node whose flag, size or first block is set stays a node.
LEMMA NodeSet ==
    ASSUME NEW t, IsTree(t), NEW n \in DOMAIN t, NEW o \in BOOLEAN,
           NEW size \in Nat, NEW head \in 0 .. BLOCKS,
           NEW u, FieldsSet(t, n, o, size, head, u)
    PROVE  IsTree(u)
<1> USE DEF FieldsSet
<1>1. t \in Seq(Node) /\ DOMAIN t = 1 .. Len(t) /\ Len(t) \in Nat
  BY LenProperties DEF IsTree
<1>2. \A m \in DOMAIN t : t[m] \in Node
  BY NodeOf
<1>3. /\ u[n] \in Node /\ u[n].path = t[n].path /\ u[n].type = t[n].type
      /\ u[n].children = t[n].children
  BY <1>2 DEF Node
<1>4. u \in Seq(Node)
  <2>1. \A m \in DOMAIN t : u[m] \in Node
    BY <1>2, <1>3
  <2>2. u \in [1 .. Len(t) -> Node]
    BY <1>1, <2>1
  <2> QED BY <1>1, <2>2, SeqDef
<1>5. \A m \in DOMAIN t : /\ u[m].path = t[m].path /\ u[m].type = t[m].type
                          /\ u[m].children = t[m].children
  BY <1>3
<1> QED BY <1>4, <1>5, TreeKept

-----------------------------------------------------------------------------
(* Writing *)

\* A pending call of write_to_block(), and what the calls work on.
Call == [block : Block, offset : Nat, from : Nat, size : Int]
Writing == [bug : BOOLEAN, todo : Seq(Call), free : 0 .. BLOCKS,
            next : [Block -> 0 .. BLOCKS], data : [Block -> [0 .. BS - 1 -> Byte]]]

\* A call works on a block there is, and so do the calls it makes.
LEMMA WriteRound ==
    ASSUME NEW s \in Writing, s.todo # <<>>, NEW buf \in Buffer
    PROVE  write_to_block(s, buf) \in Writing
<1> DEFINE f == Head(s.todo)
           n == Max({0, Min({f.size, BS - f.offset})})
           calls == f.offset > BS \/ n < f.size
           grow == calls /\ s.next[f.block] = 0
           nxt == IF grow THEN s.free ELSE s.next[f.block]
           past == [block |-> nxt, offset |-> f.offset - BS, from |-> f.from, size |-> f.size]
           tail == [block |-> nxt, offset |-> 0, from |-> f.from + n, size |-> f.size - BS]
           todo == (IF f.offset > BS THEN <<past>> ELSE <<>>)
                     \o (IF n < f.size THEN <<tail>> ELSE <<>>) \o Tail(s.todo)
           bytes == [i \in 0 .. BS - 1 |->
                       IF i \in f.offset .. f.offset + n - 1
                       THEN <<buf, f.from + i - f.offset>> ELSE s.data[f.block][i]]
<1>1. /\ s.todo \in Seq(Call) /\ s.free \in 0 .. BLOCKS /\ s.bug \in BOOLEAN
      /\ s.next \in [Block -> 0 .. BLOCKS] /\ s.data \in [Block -> [0 .. BS - 1 -> Byte]]
  BY DEF Writing
<1>2. f \in Call /\ Tail(s.todo) \in Seq(Call)
  BY <1>1, TailMembers
<1>3. /\ f.block \in Block /\ f.offset \in Nat /\ f.from \in Nat /\ f.size \in Int
      /\ BS \in Nat /\ BLOCKS \in Nat
  BY <1>2, FsAssumption DEF Call
<1> HIDE DEF f
<1>4. n \in Nat
  <2>1. BS - f.offset \in Int
    BY <1>3
  <2>2. PICK m \in Int : m = Min({f.size, BS - f.offset})
    BY <1>3, <2>1, SmallerOf
  <2>3. Max({0, m}) \in Nat
    BY LargerOf
  <2> QED BY <2>2, <2>3
<1> HIDE DEF n
<1>5. bytes \in [0 .. BS - 1 -> Byte]
  <2> SUFFICES ASSUME NEW i \in 0 .. BS - 1 PROVE bytes[i] \in Byte
    OBVIOUS
  <2>1. CASE i \in f.offset .. f.offset + n - 1
    <3>1. f.from + i - f.offset \in Nat
      BY <1>3, <1>4, <2>1
    <3> QED BY <2>1, <3>1 DEF Byte
  <2>2. CASE i \notin f.offset .. f.offset + n - 1
    BY <1>1, <1>3, <2>2
  <2> QED BY <2>1, <2>2
<1>6. CASE grow /\ s.free = 0
  <2>1. write_to_block(s, buf) = [s EXCEPT !.bug = TRUE]
    BY <1>6 DEF write_to_block, f, n
  <2> QED BY <2>1 DEF Writing
<1>7. CASE ~ (grow /\ s.free = 0)
  <2>1. nxt \in 0 .. BLOCKS /\ (calls => nxt \in Block)
    BY <1>1, <1>3, <1>7 DEF Block
  <2>2. f.offset > BS => past \in Call
    BY <1>3, <2>1 DEF Call
  <2>3. n < f.size => tail \in Call
    BY <1>3, <1>4, <2>1 DEF Call
  <2>4. todo \in Seq(Call)
    <3> HIDE DEF past, tail
    <3> DEFINE a == IF f.offset > BS THEN <<past>> ELSE <<>>
               b == IF n < f.size THEN <<tail>> ELSE <<>>
    <3>1. a \in Seq(Call) /\ b \in Seq(Call)
      BY <2>2, <2>3
    <3> HIDE DEF a, b
    <3>2. a \o b \in Seq(Call)
      BY <3>1, ConcatProperties
    <3>3. (a \o b) \o Tail(s.todo) \in Seq(Call)
      BY <1>2, <3>2, ConcatProperties
    <3> QED BY <3>3 DEF a, b
  <2> DEFINE free2 == IF grow THEN s.next[s.free] ELSE s.free
             next2 == IF grow THEN [s.next EXCEPT ![f.block] = s.free] ELSE s.next
             data2 == [s.data EXCEPT ![f.block] = bytes]
  <2>5. free2 \in 0 .. BLOCKS
    <3>1. grow => s.free \in Block
      BY <1>1, <1>3, <1>7 DEF Block
    <3> HIDE DEF grow
    <3> QED BY <1>1, <3>1
  <2>6. next2 \in [Block -> 0 .. BLOCKS]
    BY <1>1, <1>3
  <2>7. data2 \in [Block -> [0 .. BS - 1 -> Byte]]
    <3> HIDE DEF bytes
    <3> QED BY <1>1, <1>3, <1>5
  <2>8. write_to_block(s, buf) =
          [bug |-> FALSE, todo |-> todo, free |-> free2, next |-> next2, data |-> data2]
    BY <1>7 DEF write_to_block, get_fs_block, f, n
  <2> HIDE DEF todo, free2, next2, data2
  <2> QED BY <2>4, <2>5, <2>6, <2>7, <2>8 DEF Writing
<1> QED BY <1>6, <1>7

\* f is what the first n calls make of s.
IsRun(f, s, buf, n) ==
    f = [k \in 0 .. n |->
           LET r == IF k = 0 THEN s ELSE f[k - 1]
           IN  IF k = 0 \/ r.todo = <<>> \/ r.bug THEN r ELSE write_to_block(r, buf)]

\* What every call keeps, they keep together.
LEMMA RunWriteIn ==
    ASSUME NEW W, NEW s \in W, NEW buf,
           \A x \in W : x.todo # <<>> /\ ~ x.bug => write_to_block(x, buf) \in W
    PROVE  RunWrite(s, buf) \in W
<1> DEFINE Round(x) == IF x.todo = <<>> \/ x.bug THEN x ELSE write_to_block(x, buf)
           step == [k \in Nat |-> [x \in W |-> Round(x)]]
<1>1. \A x \in W : Round(x) \in W
  OBVIOUS
<1> HIDE DEF Round
<1>2. step \in [Nat -> [W -> W]]
  BY <1>1
<1>3. MaxCalls \in Nat
  BY FsAssumption
<1> HIDE DEF step
<1>4. PICK f : IsLoop(f, W, s, step, MaxCalls)
  BY <1>2, <1>3, LoopExists
<1>5. /\ f \in [0 .. MaxCalls -> W] /\ f[0] = s
      /\ \A k \in 1 .. MaxCalls : f[k] = step[k][f[k - 1]]
  BY <1>4 DEF IsLoop
<1> DEFINE Body(g, k) ==
             LET r == IF k = 0 THEN s ELSE g[k - 1]
             IN  IF k = 0 \/ r.todo = <<>> \/ r.bug THEN r ELSE write_to_block(r, buf)
<1>6. ASSUME NEW k \in 0 .. MaxCalls PROVE f[k] = Body(f, k)
  <2>1. CASE k = 0
    BY <1>5, <2>1
  <2>2. CASE k # 0
    <3>1. k \in 1 .. MaxCalls /\ k - 1 \in 0 .. MaxCalls /\ k \in Nat
      BY <1>3, <2>2
    <3>2. f[k] = step[k][f[k - 1]] /\ f[k - 1] \in W
      BY <1>5, <3>1
    <3>3. f[k] = Round(f[k - 1])
      BY <3>1, <3>2 DEF step
    <3> QED BY <2>2, <3>3 DEF Round
  <2> QED BY <2>1, <2>2
<1>7. f = [k \in 0 .. MaxCalls |-> Body(f, k)]
  <2> HIDE DEF Body
  <2> QED BY <1>5, <1>6
<1>8. IsRun(f, s, buf, MaxCalls)
  BY <1>7 DEF IsRun
<1>9. PICK g : IsRun(g, s, buf, MaxCalls) /\ RunWrite(s, buf) = g[MaxCalls]
  <2> DEFINE g == CHOOSE h : IsRun(h, s, buf, MaxCalls)
  <2>1. IsRun(g, s, buf, MaxCalls)
    BY <1>8
  <2>2. RunWrite(s, buf) = g[MaxCalls]
    BY DEF RunWrite, IsRun
  <2> QED BY <2>1, <2>2
<1>10. \A k \in 0 .. MaxCalls : g[k] = Body(g, k)
  BY <1>9 DEF IsRun
<1>11. g[0] \in W
  BY <1>3, <1>10
<1>12. ASSUME NEW k \in 1 .. MaxCalls, g[k - 1] \in W PROVE g[k] \in W
  <2>1. k # 0 /\ k \in 0 .. MaxCalls
    BY <1>3
  <2>2. g[k] = Round(g[k - 1])
    BY <1>10, <2>1 DEF Round
  <2> QED BY <1>1, <1>12, <2>2
<1>13. \A k \in 0 .. MaxCalls : g[k] \in W
  BY <1>3, <1>11, <1>12, StaysIn
<1> QED BY <1>3, <1>9, <1>13

\* What lies inside block k of b bytes: in the first, or behind the first and
\* at the same place of block k - 1 of what follows.
LEMMA InsideOf ==
    ASSUME NEW k \in Nat, NEW b \in Nat \ {0}, NEW offset \in Nat, NEW size \in Nat,
           k * b < offset, offset + size <= (k + 1) * b
    PROVE  /\ size < b /\ offset > 0
           /\ k = 0 => offset <= b /\ size <= b - offset
           /\ k > 0 => /\ offset > b
                       /\ (k - 1) * b < offset - b
                       /\ offset - b + size <= ((k - 1) + 1) * b
<1> DEFINE x == k * b
           y == (k + 1) * b
           z == (k - 1) * b
<1>1. x \in Nat /\ y = x + b /\ z = x - b /\ (k = 0 => x = 0)
  OBVIOUS
<1>2. k > 0 => z \in Nat
  <2> SUFFICES ASSUME k > 0 PROVE z \in Nat
    OBVIOUS
  <2>1. k - 1 \in Nat
    OBVIOUS
  <2> QED BY <2>1
<1>3. x < offset /\ offset + size <= y /\ ((k - 1) + 1) * b = x
  <2>1. (k - 1) + 1 = k
    OBVIOUS
  <2> QED BY <2>1
<1> SUFFICES /\ size < b /\ offset > 0
             /\ k = 0 => offset <= b /\ size <= b - offset
             /\ k > 0 => offset > b /\ z < offset - b /\ offset - b + size <= x
  BY <1>3
<1> HIDE DEF x, y, z
<1> QED BY <1>1, <1>2, <1>3

\* A call lies inside a block, and the chain of links reaches that far, or it
\* begins with its block and ends before the links do.  A call with nothing
\* left to write is one of the second kind.
Fits(f) ==
    \/ f.offset = 0 /\ f.size <= f.block * BS
    \/ /\ f.size >= 0
       /\ \E k \in 0 .. f.block - 1 :
            k * BS < f.offset /\ f.offset + f.size <= (k + 1) * BS

FittingCall == {f \in Call : Fits(f)}

\* A write that has taken no block of its own and changed no link.
NoBlockTaken(s, head) ==
    /\ ~ s.bug
    /\ s.free = head
    /\ s.next = [b \in Block |-> b - 1]
    /\ s.todo \in Seq(FittingCall)

\* Such a write goes on to the blocks the links it finds lead to.
LEMMA FittingRound ==
    ASSUME NEW s \in Writing, NEW head, NoBlockTaken(s, head), s.todo # <<>>, NEW buf
    PROVE  NoBlockTaken(write_to_block(s, buf), head)
<1> DEFINE f == Head(s.todo)
           n == Max({0, Min({f.size, BS - f.offset})})
           calls == f.offset > BS \/ n < f.size
           nxt == s.next[f.block]
           past == [block |-> nxt, offset |-> f.offset - BS, from |-> f.from, size |-> f.size]
           tail == [block |-> nxt, offset |-> 0, from |-> f.from + n, size |-> f.size - BS]
           w == write_to_block(s, buf)
<1>1. f \in FittingCall /\ Tail(s.todo) \in Seq(FittingCall)
  <2>1. s.todo \in Seq(FittingCall)
    BY DEF NoBlockTaken
  <2> QED BY <2>1, TailMembers
<1>2. /\ f.block \in 1 .. BLOCKS /\ f.offset \in Nat /\ f.from \in Nat /\ f.size \in Int
      /\ BS \in Nat /\ BS > 0 /\ BLOCKS \in Nat /\ Fits(f)
  BY <1>1, FsAssumption DEF FittingCall, Call, Block
<1> HIDE DEF f
<1>3. nxt = f.block - 1
  BY <1>2 DEF NoBlockTaken, Block
<1>4. n = IF f.size <= BS - f.offset /\ f.size >= 0 THEN f.size
          ELSE IF f.size > BS - f.offset /\ f.offset <= BS THEN BS - f.offset ELSE 0
  <2>1. BS - f.offset \in Int
    BY <1>2
  <2>2. PICK m \in Int : /\ m = Min({f.size, BS - f.offset})
                          /\ m = IF f.size <= BS - f.offset THEN f.size ELSE BS - f.offset
    BY <1>2, <2>1, SmallerOf
  <2>3. n = IF 0 >= m THEN 0 ELSE m
    <3>1. n = Max({0, m})
      BY <2>2
    <3>2. Max({0, m}) = IF 0 >= m THEN 0 ELSE m
      BY LargerOf
    <3> QED BY <3>1, <3>2
  <2> HIDE DEF n
  <2> QED BY <1>2, <2>1, <2>2, <2>3
<1> HIDE DEF n
<1>5. \/ f.offset = 0 /\ f.size <= f.block * BS
      \/ /\ f.size >= 0 /\ f.offset > 0 /\ f.offset <= BS /\ f.size <= BS - f.offset
      \/ /\ f.size >= 0 /\ f.size < BS /\ f.offset > BS /\ f.block > 1
         /\ \E k \in 0 .. f.block - 2 :
              k * BS < f.offset - BS /\ f.offset - BS + f.size <= (k + 1) * BS
  <2>1. CASE f.offset = 0 /\ f.size <= f.block * BS
    BY <2>1
  <2>2. CASE f.size >= 0 /\ \E k \in 0 .. f.block - 1 :
               k * BS < f.offset /\ f.offset + f.size <= (k + 1) * BS
    <3>1. PICK k \in 0 .. f.block - 1 :
               k * BS < f.offset /\ f.offset + f.size <= (k + 1) * BS
      BY <2>2
    <3>2. k \in Nat /\ BS \in Nat \ {0} /\ f.size \in Nat
      BY <1>2, <2>2, <3>1
    <3> HIDE DEF past, tail, calls, nxt, w
    <3>3. /\ f.size < BS /\ f.offset > 0
          /\ k = 0 => f.offset <= BS /\ f.size <= BS - f.offset
          /\ k > 0 => /\ f.offset > BS
                      /\ (k - 1) * BS < f.offset - BS
                      /\ f.offset - BS + f.size <= ((k - 1) + 1) * BS
      BY <1>2, <3>1, <3>2, InsideOf
    <3>4. CASE k = 0
      BY <2>2, <3>3, <3>4
    <3>5. CASE k > 0
      <4>1. k - 1 \in 0 .. f.block - 2 /\ f.block > 1
        BY <1>2, <3>1, <3>2, <3>5
      <4> QED BY <2>2, <3>3, <3>5, <4>1
    <3> QED BY <3>2, <3>4, <3>5
  <2> QED BY <1>2, <2>1, <2>2 DEF Fits
<1>6. f.offset > BS => f.block > 1 /\ past \in FittingCall
  <2> SUFFICES ASSUME f.offset > BS PROVE f.block > 1 /\ past \in FittingCall
    OBVIOUS
  <2>1. f.block > 1 /\ f.size >= 0 /\ \E k \in 0 .. f.block - 2 :
          k * BS < f.offset - BS /\ f.offset - BS + f.size <= (k + 1) * BS
    BY <1>2, <1>5
  <2>2. past \in Call
    <3>1. nxt \in Block /\ f.offset - BS \in Nat
      <4>1. f.block > 1
        BY <2>1
      <4> HIDE DEF nxt
      <4> QED BY <1>2, <1>3, <4>1 DEF Block
    <3> HIDE DEF nxt
    <3> QED BY <1>2, <3>1 DEF Call
  <2>3. past.block - 1 = f.block - 2 /\ past.offset = f.offset - BS /\ past.size = f.size
    BY <1>2, <1>3
  <2> HIDE DEF past
  <2>4. Fits(past)
    BY <2>1, <2>3 DEF Fits
  <2> QED BY <2>1, <2>2, <2>4 DEF FittingCall
<1>7. n < f.size => f.block > 1 /\ tail \in FittingCall
  <2> SUFFICES ASSUME n < f.size PROVE f.block > 1 /\ tail \in FittingCall
    OBVIOUS
  <2>1. n \in Nat
    <3>1. BS - f.offset \in Int /\ (f.offset <= BS => BS - f.offset \in Nat)
      BY <1>2
    <3> QED BY <1>2, <1>4, <3>1
  <2>2. f.block > 1 /\ f.size - BS <= (f.block - 1) * BS
    <3>1. f.block * BS = (f.block - 1) * BS + BS /\ (f.block - 1) * BS \in Nat
      BY <1>2
    <3>2. CASE f.offset = 0 /\ f.size <= f.block * BS
      <4>1. f.size > BS
        BY <1>2, <1>4, <3>2
      <4>2. f.block # 1
        BY <1>2, <3>2, <4>1
      <4> QED BY <1>2, <3>1, <3>2, <4>2
    <3>3. CASE f.size <= BS - f.offset /\ f.size >= 0
      BY <1>2, <1>4, <3>3
    <3>4. CASE f.size < BS /\ f.block > 1
      BY <1>2, <3>1, <3>4
    <3> QED BY <1>5, <3>2, <3>3, <3>4
  <2>3. tail \in Call
    BY <1>2, <1>3, <2>1, <2>2 DEF Call, Block
  <2>4. tail.block = f.block - 1 /\ tail.offset = 0 /\ tail.size = f.size - BS
    BY <1>3
  <2> HIDE DEF tail
  <2>5. Fits(tail)
    BY <2>2, <2>4 DEF Fits
  <2> QED BY <2>2, <2>3, <2>5 DEF FittingCall
<1>8. ~ (calls /\ s.next[f.block] = 0)
  BY <1>2, <1>3, <1>6, <1>7
<1>9. /\ w.bug = FALSE /\ w.free = s.free /\ w.next = s.next
      /\ w.todo = (IF f.offset > BS THEN <<past>> ELSE <<>>)
                     \o (IF n < f.size THEN <<tail>> ELSE <<>>) \o Tail(s.todo)
  BY <1>8 DEF write_to_block, f, n
<1>10. w.todo \in Seq(FittingCall)
  <2> HIDE DEF past, tail, w
  <2> DEFINE a == IF f.offset > BS THEN <<past>> ELSE <<>>
             b == IF n < f.size THEN <<tail>> ELSE <<>>
  <2>1. a \in Seq(FittingCall) /\ b \in Seq(FittingCall)
    BY <1>6, <1>7
  <2>2. w.todo = (a \o b) \o Tail(s.todo)
    BY <1>9
  <2> HIDE DEF a, b
  <2>3. a \o b \in Seq(FittingCall)
    BY <2>1, ConcatProperties
  <2> QED BY <1>1, <2>2, <2>3, ConcatProperties
<1> QED BY <1>9, <1>10 DEF NoBlockTaken

-----------------------------------------------------------------------------
(* The invariant, step by step *)

\* A step that takes no block and does not run out of space.
LEMMA SpaceStays ==
    ASSUME SpaceKept, SameHeads(nodes, nodes'), next' = next, free' = free,
           last'.op = "bug" => halted' /\ last'.why # "space"
    PROVE  SpaceKept'
<1>1. ASSUME NEW b \in free + 1 .. BLOCKS PROVE \E n \in DOMAIN nodes' : nodes'[n].list_head = b
  <2>1. PICK n \in DOMAIN nodes : nodes[n].list_head = b
    BY DEF SpaceKept
  <2> QED BY <2>1 DEF SameHeads
<1>2. \A n \in DOMAIN nodes' : nodes'[n].list_head = 0 \/ nodes'[n].list_head > free
  BY DEF SpaceKept, SameHeads
<1> QED BY <1>1, <1>2 DEF SpaceKept

\* A BUG() leaves everything as it is, and nothing comes after it.
LEMMA BugInv ==
    ASSUME FsInv, NEW why, Bug(why), Contract => why # "space" \/ free = 0
    PROVE  FsInv'
<1>1. nodes' = nodes /\ next' = next /\ free' = free /\ data' = data /\ halted' = TRUE
  BY DEF Bug
<1>2. last'.op = "bug" /\ last'.why = why
  BY DEF Bug
<1>3. ASSUME Contract PROVE SpaceKept'
  BY <1>1, <1>2, <1>3 DEF FsInv, SpaceKept
<1> QED BY <1>1, <1>3 DEF FsInv, BlocksTyped

\* A step that only changes the tree.
LEMMA TreeStepInv ==
    ASSUME FsInv, IsTree(nodes'), SameHeads(nodes, nodes'), last'.op # "bug",
           UNCHANGED <<next, free, data, halted>>
    PROVE  FsInv'
<1>1. ASSUME Contract PROVE SpaceKept'
  BY <1>1, SpaceStays DEF FsInv
<1> QED BY <1>1 DEF FsInv, BlocksTyped

\* Setting opened_ is such a step.
LEMMA SetOpened ==
    ASSUME NEW t, IsTree(t), NEW n \in DOMAIN t, NEW o \in BOOLEAN,
           NEW u, u = [t EXCEPT ![n].opened = o]
    PROVE  IsTree(u) /\ SameHeads(t, u)
<1>1. t[n] \in Node
  BY NodeOf
<1>2. /\ DOMAIN u = DOMAIN t /\ u = [m \in DOMAIN t |-> u[m]]
      /\ \A m \in DOMAIN t \ {n} : u[m] = t[m]
      /\ u[n] = [t[n] EXCEPT !.opened = o]
  <2>1. t = [m \in DOMAIN t |-> t[m]]
    <3>1. t \in Seq(Node)
      BY DEF IsTree
    <3> QED BY <3>1, LenProperties
  <2> QED BY <2>1
<1>3. t[n].size \in Nat /\ t[n].list_head \in 0 .. BLOCKS
  BY <1>1 DEF Node
<1>4. u[n] = [t[n] EXCEPT !.opened = o, !.size = t[n].size, !.list_head = t[n].list_head]
  BY <1>1, <1>2 DEF Node
<1>5. IsTree(u)
  <2>1. FieldsSet(t, n, o, t[n].size, t[n].list_head, u)
    BY <1>2, <1>4 DEF FieldsSet
  <2> QED BY <1>3, <2>1, NodeSet
<1>6. u[n].list_head = t[n].list_head
  BY <1>1, <1>2 DEF Node
<1> QED BY <1>2, <1>5, <1>6 DEF SameHeads

\* Two changes of the tree one after the other.
LEMMA SameHeadsTwice ==
    ASSUME NEW t, NEW u, NEW v, SameHeads(t, u), SameHeads(u, v), DOMAIN u = DOMAIN v
    PROVE  SameHeads(t, v)
BY DEF SameHeads

\* open(), mkdir() and readdir().
LEMMA LookupInv ==
    ASSUME FsInv, NEW p \in Path, open(p) \/ mkdir(p) \/ readdir(p)
    PROVE  FsInv'
<1> USE DEF Done
<1>1. IsTree(nodes)
  BY DEF FsInv
<1>2. CASE open(p)
  <2> DEFINE r == find_node(p, "FILE")
  <2>1. CASE r.node = 0 \/ r.tree[r.node].opened
    <3>1. Bug("open")
      BY <1>2, <2>1 DEF open
    <3> QED BY <3>1, BugInv
  <2>2. CASE ~ (r.node = 0 \/ r.tree[r.node].opened)
    <3>1. IsTree(r.tree) /\ r.node \in DOMAIN r.tree /\ SameHeads(nodes, r.tree)
      BY <1>1, <2>2, FindNode
    <3>2. /\ nodes' = [r.tree EXCEPT ![r.node].opened = TRUE] /\ last' = Done
          /\ UNCHANGED <<next, free, data, halted>>
      BY <1>2, <2>2 DEF open
    <3> HIDE DEF r
    <3>3. IsTree(nodes') /\ SameHeads(r.tree, nodes')
      BY <3>1, <3>2, SetOpened
    <3>4. SameHeads(nodes, nodes')
      BY <3>1, <3>2, <3>3, SameHeadsTwice
    <3> QED BY <3>2, <3>3, <3>4, TreeStepInv
  <2> QED BY <2>1, <2>2
<1>3. CASE mkdir(p)
  <2> DEFINE r == find_node(p, "DIR")
  <2>1. CASE r.node = 0
    <3>1. Bug("mkdir")
      BY <1>3, <2>1 DEF mkdir
    <3> QED BY <3>1, BugInv
  <2>2. CASE r.node # 0
    <3>1. IsTree(r.tree) /\ SameHeads(nodes, r.tree)
      BY <1>1, <2>2, FindNode
    <3>2. nodes' = r.tree /\ last' = Done /\ UNCHANGED <<next, free, data, halted>>
      BY <1>3, <2>2 DEF mkdir
    <3> QED BY <3>1, <3>2, TreeStepInv
  <2> QED BY <2>1, <2>2
<1>4. CASE readdir(p)
  <2> DEFINE r == find_node(p, "DIR")
  <2>1. CASE r.node = 0
    <3>1. Bug("readdir")
      BY <1>4, <2>1 DEF readdir
    <3> QED BY <3>1, BugInv
  <2>2. CASE r.node # 0
    <3>1. IsTree(r.tree) /\ SameHeads(nodes, r.tree)
      BY <1>1, <2>2, FindNode
    <3>2. nodes' = r.tree /\ last'.op = "readdir" /\ UNCHANGED <<next, free, data, halted>>
      <4>1. /\ nodes' = r.tree /\ UNCHANGED <<next, free, data, halted>>
            /\ \E names : last' = [op |-> "readdir", names |-> names]
        BY <1>4, <2>2 DEF readdir
      <4> QED BY <4>1
    <3> QED BY <3>1, <3>2, TreeStepInv
  <2> QED BY <2>1, <2>2
<1> QED BY <1>2, <1>3, <1>4

\* close() clears opened_ of one node.
LEMMA CloseInv ==
    ASSUME FsInv, NEW n \in Handle, close(n)
    PROVE  FsInv'
<1>1. IsTree(nodes) /\ n \in DOMAIN nodes
  BY DEF FsInv, Handle
<1>2. /\ nodes' = [nodes EXCEPT ![n].opened = FALSE] /\ last'.op = "done"
      /\ UNCHANGED <<next, free, data, halted>>
  BY DEF close, Done
<1>3. IsTree(nodes') /\ SameHeads(nodes, nodes')
  BY <1>1, <1>2, SetOpened
<1> QED BY <1>2, <1>3, TreeStepInv

\* read() changes nothing.
LEMMA ReadInv ==
    ASSUME FsInv, NEW n \in Handle, NEW offset, NEW size, read(n, offset, size)
    PROVE  FsInv'
<1>1. CASE ~ nodes[n].opened
  <2>1. Bug("read")
    BY <1>1 DEF read
  <2> QED BY <2>1, BugInv
<1>2. CASE nodes[n].opened
  <2>1. last'.op = "read" /\ UNCHANGED <<nodes, next, free, data, halted>>
    BY <1>2 DEF read
  <2>2. IsTree(nodes') /\ SameHeads(nodes, nodes')
    BY <2>1 DEF FsInv, SameHeads
  <2> QED BY <2>1, <2>2, TreeStepInv
<1> QED BY <1>1, <1>2

\* A write the code handles fits where it begins: a file of several blocks is
\* the only one, so its first block is the first that was ever taken.
LEMMA HandledFits ==
    ASSUME IsTree(nodes), free \in 0 .. BLOCKS, SpaceKept, NEW n \in DOMAIN nodes,
           NEW offset \in Nat, NEW size \in Nat, HandledWrite(n, offset, size),
           NEW block \in Block, NEW f \in Call,
           f.block = block /\ f.offset = offset /\ f.size = size,
           block = IF nodes[n].list_head = 0 THEN free ELSE nodes[n].list_head
    PROVE  Fits(f)
<1>1. f.block = block /\ f.offset = offset /\ f.size = size
  OBVIOUS
<1>2. BS \in Nat /\ BLOCKS \in Nat /\ block \in 1 .. BLOCKS
  BY FsAssumption DEF Block
<1>3. CASE offset + size <= BS
  <2>1. CASE offset = 0
    <3>1. block * BS = (block - 1) * BS + BS /\ (block - 1) * BS \in Nat
      BY <1>2
    <3> QED BY <1>1, <1>2, <1>3, <2>1, <3>1 DEF Fits
  <2>2. CASE offset # 0
    <3>1. 0 \in 0 .. block - 1 /\ 0 * BS = 0 /\ (0 + 1) * BS = BS
      BY <1>2
    <3>2. 0 * BS < offset /\ offset + size <= (0 + 1) * BS /\ size >= 0
      BY <1>2, <1>3, <2>2, <3>1
    <3> QED BY <1>1, <3>1, <3>2 DEF Fits
  <2> QED BY <2>1, <2>2
<1>4. CASE /\ (offset = 0 /\ size <= BS * BLOCKS) \/ InsideBlock(offset, size)
           /\ \A m \in DOMAIN nodes \ {n} : nodes[m].list_head = 0
  <2>1. block = BLOCKS
    <3>1. CASE free = BLOCKS
      <4>1. nodes[n].list_head \in 0 .. BLOCKS
        <5>1. nodes[n] \in Node
          BY NodeOf
        <5> QED BY <5>1 DEF Node
      <4>2. nodes[n].list_head = 0 \/ nodes[n].list_head > free
        BY DEF SpaceKept
      <4>3. nodes[n].list_head = 0
        BY <1>2, <3>1, <4>1, <4>2
      <4> QED BY <3>1, <4>3
    <3>2. CASE free # BLOCKS
      <4>1. BLOCKS \in free + 1 .. BLOCKS /\ BLOCKS # 0
        BY <1>2, <3>2
      <4>2. PICK m \in DOMAIN nodes : nodes[m].list_head = BLOCKS
        BY <4>1 DEF SpaceKept
      <4>3. m = n
        BY <1>4, <4>1, <4>2
      <4> QED BY <4>1, <4>2, <4>3
    <3> QED BY <3>1, <3>2
  <2>2. BS * BLOCKS = BLOCKS * BS
    BY <1>2
  <2> QED BY <1>1, <1>4, <2>1, <2>2 DEF Fits, InsideBlock
<1> QED BY <1>3, <1>4 DEF HandledWrite

\* write(), with every call of write_to_block() it makes.
LEMMA WriteInv ==
    ASSUME FsInv, NEW n \in Handle, NEW offset \in Nat, NEW size \in Nat,
           NEW buf \in Buffer, Contract => HandledWrite(n, offset, size),
           write(n, offset, size, buf)
    PROVE  FsInv'
<1> DEFINE first == nodes[n].list_head = 0
           block == IF first THEN free ELSE nodes[n].list_head
           f == [block |-> block, offset |-> offset, from |-> 0, size |-> size]
           rest == IF first THEN next[free] ELSE free
           s == [todo |-> <<f>>, next |-> next, data |-> data, bug |-> FALSE, free |-> rest]
           r == RunWrite(s, buf)
<1>1. /\ IsTree(nodes) /\ n \in DOMAIN nodes /\ BLOCKS \in Nat
      /\ next \in [Block -> 0 .. BLOCKS] /\ free \in 0 .. BLOCKS
      /\ data \in [Block -> [0 .. BS - 1 -> Byte]] /\ Contract \in BOOLEAN
  BY FsAssumption DEF FsInv, BlocksTyped, Handle
<1>2. /\ nodes[n] \in Node /\ nodes[n].list_head \in 0 .. BLOCKS /\ nodes[n].size \in Nat
      /\ nodes[n].opened \in BOOLEAN
  <2>1. nodes[n] \in Node
    BY <1>1, NodeOf
  <2> QED BY <2>1 DEF Node
<1>3. CASE ~ nodes[n].opened
  <2>1. Bug("write")
    BY <1>3 DEF write
  <2> QED BY <2>1, BugInv
<1>4. CASE nodes[n].opened /\ first /\ free = 0
  <2>1. Bug("space")
    BY <1>4 DEF write
  <2> QED BY <1>4, <2>1, BugInv
<1>5. CASE nodes[n].opened /\ ~ (first /\ free = 0)
  <2>1. block \in Block
    BY <1>1, <1>2, <1>5 DEF Block
  <2>2. rest \in 0 .. BLOCKS
    <3>1. first => free \in Block
      BY <2>1
    <3> QED BY <1>1, <3>1
  <2>3. f \in Call
    <3> HIDE DEF block
    <3> QED BY <2>1 DEF Call
  <2> HIDE DEF f, rest
  <2>4. s \in Writing
    <3>1. <<f>> \in Seq(Call)
      BY <2>3
    <3> QED BY <1>1, <2>2, <3>1 DEF Writing
  <2>5. r \in Writing
    <3> HIDE DEF s
    <3>1. \A x \in Writing : x.todo # <<>> /\ ~ x.bug => write_to_block(x, buf) \in Writing
      BY WriteRound
    <3> QED BY <2>4, <3>1, RunWriteIn
  <2>6. ASSUME Contract
        PROVE  ~ r.bug /\ r.free = rest /\ r.next = [b \in Block |-> b - 1]
    <3> DEFINE W == {x \in Writing : NoBlockTaken(x, rest)}
    <3>1. SpaceKept /\ HandledWrite(n, offset, size)
      BY <2>6 DEF FsInv
    <3>2. Fits(f)
      <4>1. f.block = block /\ f.offset = offset /\ f.size = size
        BY DEF f
      <4> QED BY <1>1, <2>1, <2>3, <3>1, <4>1, HandledFits
    <3>3. s \in W
      <4>1. /\ s.bug = FALSE /\ s.free = rest /\ s.next = next /\ s.todo = <<f>>
        OBVIOUS
      <4> HIDE DEF s
      <4>2. s.next = [b \in Block |-> b - 1]
        BY <3>1, <4>1 DEF SpaceKept
      <4>3. <<f>> \in Seq(FittingCall)
        BY <2>3, <3>2 DEF FittingCall
      <4> QED BY <2>4, <4>1, <4>2, <4>3 DEF NoBlockTaken
    <3>4. ASSUME NEW x \in W, x.todo # <<>> PROVE write_to_block(x, buf) \in W
      BY <3>4, WriteRound, FittingRound
    <3> HIDE DEF s, W
    <3>5. r \in W
      BY <3>3, <3>4, RunWriteIn
    <3> QED BY <3>5 DEF W, NoBlockTaken
  <2>7. /\ r = RunWrite(s, buf)
        /\ write(n, offset, size, buf) =>
             IF r.bug THEN Bug("space")
             ELSE /\ nodes' = [nodes EXCEPT ![n].size = Max({@, offset + size}),
                                            ![n].list_head = block]
                  /\ next' = r.next /\ free' = r.free /\ data' = r.data
                  /\ last' = Done /\ UNCHANGED halted
    BY <1>5 DEF write, get_fs_block, f, rest
  <2> HIDE DEF r, s
  <2>8. CASE r.bug
    <3>1. ~ Contract
      BY <2>6, <2>8
    <3>2. Bug("space")
      BY <2>7, <2>8
    <3> QED BY <3>1, <3>2, BugInv
  <2>9. CASE ~ r.bug
    <3>1. PICK big \in Nat : big = Max({nodes[n].size, offset + size})
      BY <1>2, LargerOf
    <3>2. /\ nodes' = [nodes EXCEPT ![n].size = big, ![n].list_head = block]
          /\ next' = r.next /\ free' = r.free /\ data' = r.data
          /\ last' = Done /\ halted' = halted
      <4>1. /\ nodes' = [nodes EXCEPT ![n].size = Max({@, offset + size}),
                                      ![n].list_head = block]
            /\ next' = r.next /\ free' = r.free /\ data' = r.data
            /\ last' = Done /\ halted' = halted
        BY <2>7, <2>9
      <4> HIDE DEF block
      <4> QED BY <3>1, <4>1
    <3>3. BlocksTyped'
      BY <2>5, <3>2 DEF BlocksTyped, Writing
    <3> HIDE DEF block
    <3>4. /\ nodes' = [m \in DOMAIN nodes |-> nodes'[m]] /\ DOMAIN nodes' = DOMAIN nodes
          /\ nodes'[n] = [nodes[n] EXCEPT !.size = big, !.list_head = block]
          /\ \A m \in DOMAIN nodes \ {n} : nodes'[m] = nodes[m]
      <4>1. nodes = [m \in DOMAIN nodes |-> nodes[m]]
        <5>1. nodes \in Seq(Node)
          BY <1>1 DEF IsTree
        <5> QED BY <5>1, LenProperties
      <4> QED BY <1>1, <3>2, <4>1
    <3>5. IsTree(nodes')
      <4>1. nodes'[n] = [nodes[n] EXCEPT !.opened = nodes[n].opened, !.size = big,
                                         !.list_head = block]
        BY <1>2, <3>4 DEF Node
      <4>2. FieldsSet(nodes, n, nodes[n].opened, big, block, nodes')
        BY <3>4, <4>1 DEF FieldsSet
      <4>3. block \in 0 .. BLOCKS
        BY <1>1, <2>1 DEF Block
      <4> QED BY <1>1, <1>2, <3>1, <4>2, <4>3, NodeSet
    <3>6. nodes'[n].list_head = block
      BY <1>2, <3>4 DEF Node
    <3>7. ASSUME Contract PROVE SpaceKept'
      <4>1. SpaceKept /\ free' = rest /\ next' = [b \in Block |-> b - 1]
        BY <2>6, <3>2, <3>7 DEF FsInv
      <4>2. CASE first
        <5>1. free \in Block /\ block = free /\ free' = free - 1
          <6>1. free \in Block /\ block = free
            BY <2>1, <4>2 DEF block
          <6>2. rest = next[free] /\ next = [b \in Block |-> b - 1]
            BY <4>1, <4>2 DEF rest, SpaceKept
          <6> QED BY <4>1, <6>1, <6>2
        <5>2. free \in Nat /\ free > 0
          BY <1>1, <5>1 DEF Block
        <5>3. ASSUME NEW b \in free' + 1 .. BLOCKS
              PROVE  \E m \in DOMAIN nodes' : nodes'[m].list_head = b
          <6>1. CASE b = free
            BY <1>1, <3>4, <3>6, <5>1, <6>1
          <6>2. CASE b # free
            <7>1. b \in free + 1 .. BLOCKS /\ b # 0
              BY <1>1, <5>1, <5>2, <6>2
            <7>2. PICK m \in DOMAIN nodes : nodes[m].list_head = b
              BY <4>1, <7>1 DEF SpaceKept
            <7>3. m # n
              BY <4>2, <7>1, <7>2
            <7> QED BY <3>4, <7>2, <7>3
          <6> QED BY <6>1, <6>2
        <5>4. ASSUME NEW m \in DOMAIN nodes'
              PROVE  nodes'[m].list_head = 0 \/ nodes'[m].list_head > free'
          <6>1. CASE m = n
            BY <3>6, <5>1, <5>2, <6>1
          <6>2. CASE m # n
            <7>1. nodes'[m] = nodes[m] /\ nodes[m] \in Node
              BY <1>1, <3>4, <6>2, NodeOf
            <7>2. nodes[m].list_head \in 0 .. BLOCKS
              BY <7>1 DEF Node
            <7>3. nodes[m].list_head = 0 \/ nodes[m].list_head > free
              BY <3>4, <4>1 DEF SpaceKept
            <7> QED BY <5>1, <5>2, <7>1, <7>2, <7>3
          <6> QED BY <6>1, <6>2
        <5>5. last'.op # "bug"
          BY <3>2 DEF Done
        <5> QED BY <4>1, <5>3, <5>4, <5>5 DEF SpaceKept
      <4>3. CASE ~ first
        <5>1. SameHeads(nodes, nodes')
          BY <3>4, <3>6, <4>3 DEF SameHeads, block
        <5>2. next' = next /\ free' = free
          BY <4>1, <4>3 DEF SpaceKept, rest
        <5>3. last'.op # "bug"
          BY <3>2 DEF Done
        <5> QED BY <4>1, <5>1, <5>2, <5>3, SpaceStays
      <4> QED BY <4>2, <4>3
    <3> QED BY <3>2, <3>3, <3>5, <3>7 DEF FsInv
  <2> QED BY <2>7, <2>8, <2>9
<1> QED BY <1>2, <1>3, <1>4, <1>5

\* init_file_system().
LEMMA FsInitInv == FsInit => FsInv
<1> SUFFICES ASSUME FsInit PROVE FsInv
  OBVIOUS
<1> USE FsAssumption
<1>1. /\ next = [b \in Block |-> b - 1] /\ free = BLOCKS /\ halted = FALSE /\ last = Done
      /\ data = [b \in Block |-> [i \in 0 .. BS - 1 |-> Junk]]
  BY DEF FsInit
<1> DEFINE x == init_fs_node(<<>>, "DIR")
<1>2. /\ nodes = <<x>> /\ x \in Node /\ x.path = <<>> /\ x.children = <<>>
      /\ x.list_head = 0
  <2>1. <<>> \in Seq(Name \cup {NoName}) /\ <<>> \in Seq(Nat) /\ 0 \in 0 .. BLOCKS
    BY EmptySeq
  <2> QED BY <2>1 DEF FsInit, init_fs_node, Node
<1> HIDE DEF x
<1>3. nodes \in Seq(Node) /\ nodes # <<>> /\ DOMAIN nodes = {1} /\ nodes[1] = x
  BY <1>2
<1>4. IsTree(nodes)
  <2>1. <<>> \in Seq({1})
    BY EmptySeq
  <2> QED BY <1>2, <1>3, <2>1 DEF IsTree
<1>5. BlocksTyped
  BY <1>1 DEF BlocksTyped, Block, Byte
<1>6. SpaceKept
  <2>1. \A b : b \notin BLOCKS + 1 .. BLOCKS
    OBVIOUS
  <2> QED BY <1>1, <1>2, <1>3, <2>1 DEF SpaceKept, Done
<1> QED BY <1>1, <1>4, <1>5, <1>6 DEF FsInv

\* Every call keeps the invariant.
LEMMA FsNextInv == FsInv /\ [FsNext]_fsVars => FsInv'
<1> SUFFICES ASSUME FsInv, [FsNext]_fsVars PROVE FsInv'
  OBVIOUS
<1>1. CASE \E p \in Path : open(p) \/ mkdir(p) \/ readdir(p)
  BY <1>1, LookupInv
<1>2. CASE \E n \in Handle : close(n)
  BY <1>2, CloseInv
<1>3. CASE \E n \in Handle, w \in WriteRange, buf \in Buffer :
             (Contract => HandledWrite(n, w[1], w[2])) /\ write(n, w[1], w[2], buf)
  <2>1. PICK n \in Handle, w \in WriteRange, buf \in Buffer :
             (Contract => HandledWrite(n, w[1], w[2])) /\ write(n, w[1], w[2], buf)
    BY <1>3
  <2>2. w[1] \in Nat /\ w[2] \in Nat
    BY <2>1, FsAssumption
  <2> QED BY <2>1, <2>2, WriteInv
<1>4. CASE \E n \in Handle, r \in ReadRange :
             (Contract => HandledRead(n, r[1], r[2])) /\ read(n, r[1], r[2])
  BY <1>4, ReadInv
<1>5. CASE UNCHANGED fsVars
  <2>1. /\ nodes' = nodes /\ next' = next /\ free' = free /\ data' = data
        /\ halted' = halted /\ last' = last
    BY <1>5 DEF fsVars
  <2> QED BY <2>1 DEF FsInv, BlocksTyped, SpaceKept
<1> QED BY <1>1, <1>2, <1>3, <1>4, <1>5 DEF FsNext

(***************************************************************************)
(* The invariant of file_system.c holds after any calls of open, close,    *)
(* mkdir, readdir, read and write, those the code does not handle well     *)
(* included; what it says of space holds if callers keep to HandledWrite.  *)
(***************************************************************************)
THEOREM FsInvariant == FsSpec => []FsInv
<1> QED BY FsInitInv, FsNextInv, PTL DEF FsSpec

(***************************************************************************)
(* The tree is a tree whatever was looked up or created: find_node() never *)
(* adds a second node for a path, also where names are prefixes of others  *)
(* (file_system.c:14, 175-187).                                            *)
(***************************************************************************)
THEOREM TreeStaysWellFormed == FsSpec => []TreeWellFormed
<1>1. ASSUME FsInv PROVE TreeWellFormed
  <2>1. IsTree(nodes)
    BY <1>1 DEF FsInv
  <2>2. \A n \in DOMAIN nodes : nodes[n] \in Node /\ nodes[n].children \in Seq(DOMAIN nodes)
    BY <2>1, NodeOf DEF IsTree
  <2>3. FsTypeOK
    BY <1>1, <2>2 DEF FsInv, BlocksTyped, FsTypeOK, Node
  <2> QED BY <2>1, <2>3 DEF TreeWellFormed, IsTree
<1> QED BY <1>1, FsInvariant, PTL

-----------------------------------------------------------------------------
(* Space *)

IsChain(f, b, k) ==
    f = [i \in 0 .. k |-> IF i = 0 THEN b ELSE IF f[i - 1] = 0 THEN 0 ELSE next[f[i - 1]]]

\* Along next_ there are blocks up to the end of the chain.
LEMMA AfterIs ==
    ASSUME next \in [Block -> 0 .. BLOCKS], NEW b \in 0 .. BLOCKS, NEW k \in Nat
    PROVE  After(b, k) \in 0 .. BLOCKS /\ (k = 0 => After(b, k) = b)
<1> DEFINE S == 0 .. BLOCKS
           Link(x) == IF x = 0 THEN 0 ELSE next[x]
           step == [i \in Nat |-> [x \in S |-> Link(x)]]
<1>1. \A x \in S : Link(x) \in S
  BY FsAssumption DEF Block
<1>2. step \in [Nat -> [S -> S]] /\ b \in S
  BY <1>1
<1> HIDE DEF S, step
<1>3. PICK f : IsLoop(f, S, b, step, k)
  BY <1>2, LoopExists
<1>4. f \in [0 .. k -> S] /\ f[0] = b /\ \A i \in 1 .. k : f[i] = step[i][f[i - 1]]
  BY <1>3 DEF IsLoop
<1> DEFINE Body(g, i) == IF i = 0 THEN b ELSE IF g[i - 1] = 0 THEN 0 ELSE next[g[i - 1]]
<1>5. ASSUME NEW i \in 0 .. k PROVE f[i] = Body(f, i)
  <2>1. CASE i = 0
    BY <1>4, <2>1
  <2>2. CASE i # 0
    <3>1. i \in 1 .. k /\ i - 1 \in 0 .. k /\ i \in Nat
      BY <2>2
    <3>2. f[i] = step[i][f[i - 1]] /\ f[i - 1] \in S
      BY <1>4, <3>1
    <3> QED BY <2>2, <3>1, <3>2 DEF step
  <2> QED BY <2>1, <2>2
<1>6. f = [i \in 0 .. k |-> Body(f, i)]
  <2> HIDE DEF Body
  <2> QED BY <1>4, <1>5
<1>7. IsChain(f, b, k)
  BY <1>6 DEF IsChain
<1>8. PICK g : IsChain(g, b, k) /\ After(b, k) = g[k]
  <2> DEFINE g == CHOOSE h : IsChain(h, b, k)
  <2>1. IsChain(g, b, k)
    BY <1>7
  <2>2. After(b, k) = g[k]
    BY DEF After, IsChain
  <2> QED BY <2>1, <2>2
<1>9. \A i \in 0 .. k : g[i] = Body(g, i)
  BY <1>8 DEF IsChain
<1>10. g[0] = b
  BY <1>9
<1>11. ASSUME NEW i \in 1 .. k, g[i - 1] \in S PROVE g[i] \in S
  <2>1. i # 0 /\ i \in 0 .. k
    OBVIOUS
  <2> QED BY <1>1, <1>9, <1>11, <2>1
<1>12. \A i \in 0 .. k : g[i] \in S
  BY <1>2, <1>10, <1>11, StaysIn
<1> QED BY <1>8, <1>10, <1>12 DEF S

(***************************************************************************)
(* "no filesystem free blocks left" (file_system.c:58) comes only when     *)
(* every block belongs to a file, as long as callers write what the code   *)
(* handles: files of at most a block, or one file of more, from its start  *)
(* or inside one of its blocks.                                            *)
(***************************************************************************)
THEOREM SpaceIsUsedUp ==
    ASSUME Contract
    PROVE  FsSpec => []OutOfSpaceMeansFull
<1>1. ASSUME FsInv PROVE OutOfSpaceMeansFull
  <2> SUFFICES ASSUME last.op = "bug", last.why = "space"
               PROVE  UNION {BlocksOf(n) : n \in {m \in DOMAIN nodes : nodes[m].list_head # 0}}
                        = Block
    BY DEF OutOfSpaceMeansFull
  <2>1. /\ IsTree(nodes) /\ SpaceKept /\ free = 0 /\ BLOCKS \in Nat /\ BS \in Nat \ {0}
        /\ next \in [Block -> 0 .. BLOCKS]
    BY <1>1, FsAssumption DEF FsInv, SpaceKept, BlocksTyped
  <2>2. \A n \in DOMAIN nodes : nodes[n].list_head \in 0 .. BLOCKS /\ nodes[n].size \in Nat
    BY <2>1, NodeOf DEF Node
  <2> DEFINE Indices(n) == 0 .. Max({0, nodes[n].size - 1}) \div BS
  <2>3. ASSUME NEW n \in DOMAIN nodes
        PROVE  Indices(n) \subseteq Nat /\ 0 \in Indices(n)
    <3>1. PICK m \in Nat : m = Max({0, nodes[n].size - 1})
      BY <2>2, LargerOf
    <3>2. m \div BS \in Nat
      BY <2>1
    <3> QED BY <3>1, <3>2
  <2>4. ASSUME NEW n \in DOMAIN nodes, NEW b \in BlocksOf(n) PROVE b \in Block
    <3>1. PICK k \in Indices(n) : b = After(nodes[n].list_head, k) /\ b # 0
      BY DEF BlocksOf
    <3>2. b \in 0 .. BLOCKS
      BY <2>1, <2>2, <2>3, <3>1, AfterIs
    <3> QED BY <2>1, <3>1, <3>2 DEF Block
  <2>5. ASSUME NEW b \in Block
        PROVE  \E n \in DOMAIN nodes : nodes[n].list_head # 0 /\ b \in BlocksOf(n)
    <3>1. b \in free + 1 .. BLOCKS /\ b # 0 /\ b \in 0 .. BLOCKS
      BY <2>1 DEF Block
    <3>2. PICK n \in DOMAIN nodes : nodes[n].list_head = b
      BY <2>1, <3>1 DEF SpaceKept
    <3>3. After(nodes[n].list_head, 0) = b
      BY <2>1, <3>1, <3>2, AfterIs
    <3>4. b \in BlocksOf(n)
      BY <2>3, <3>1, <3>2, <3>3 DEF BlocksOf
    <3> QED BY <3>1, <3>2, <3>4
  <2> QED BY <2>4, <2>5
<1> QED BY <1>1, FsInvariant, PTL
=============================================================================
