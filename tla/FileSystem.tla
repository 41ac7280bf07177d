----------------------------- MODULE FileSystem -----------------------------
(***************************************************************************)
(* The in-memory file system of file_system.c.                             *)
(*                                                                         *)
(* Every operation holds fs_spinlock from its first to its last line, and  *)
(* no interrupt handler uses the file system, so an operation is one step  *)
(* (LockKeepsCPU in Threads.tla).  A name is a model value; the one fact   *)
(* about its characters that matters, which names are prefixes of which,   *)
(* is the relation PrefixOf.  A byte is the pair of the buffer it came     *)
(* from and its index in it, so a byte that lands in the wrong place is    *)
(* told apart from the right one.  Blocks are numbered, 0 is NULL; prev_   *)
(* is written and never read, and left out.                                *)
(***************************************************************************)
EXTENDS Integers, Sequences, SequencesExt

CONSTANTS Name,        \* names of files and directories
          NoName,      \* the empty component of a path such as "/a//b"
          PrefixOf,    \* pairs of names, the first a proper prefix of the second
          Path,        \* paths callers use: sequences of components
          BLOCKS,      \* blocks_num of init_file_system()
          BS,          \* FS_BLOCK_SIZE
          MAX_FILES,   \* MAX_FILES_IN_DIR, and the literal 256 of find_node()
          Buffer,      \* data callers write
          WriteRange,  \* <<offset, size>> pairs callers write
          ReadRange,   \* <<offset, size>> pairs callers read
          Contract,    \* whether callers keep to HandledWrite and HandledRead
          MaxNodes,    \* bound: nodes in the tree
          MaxCalls     \* bound: nested block accesses in one read or write

ASSUME FsAssumption ==
    /\ BLOCKS \in Nat /\ BS \in Nat \ {0} /\ MAX_FILES \in Nat
    /\ MaxNodes \in Nat \ {0} /\ MaxCalls \in Nat
    /\ Path \subseteq Seq(Name \cup {NoName}) \ {<<>>}
    /\ WriteRange \subseteq Nat \X Nat /\ ReadRange \subseteq Nat \X Nat
    /\ Contract \in BOOLEAN

VARIABLES nodes,    \* fs_node structures in the order they were set up, 1 is "/"
          next,     \* block->next_
          free,     \* fs_descriptors_head
          data,     \* the bytes of each block
          halted,   \* a BUG() was hit
          last      \* what the last call returned

fsVars == <<nodes, next, free, data, halted, last>>

Block == 1 .. BLOCKS
Junk == <<"junk">>
Done == [op |-> "done"]   \* a call that has nothing to tell

\* init_fs_node(); path ends in name_.
init_fs_node(p, type) ==
    [path |-> p, type |-> type, children |-> <<>>, list_head |-> 0, size |-> 0,
     opened |-> FALSE]

\* init_file_system(): each new descriptor is pushed in front of the others.
FsInit ==
    /\ nodes = <<init_fs_node(<<>>, "DIR")>>
    /\ next = [b \in Block |-> b - 1]
    /\ free = BLOCKS
    /\ data = [b \in Block |-> [i \in 0 .. BS - 1 |-> Junk]]
    /\ halted = FALSE
    /\ last = Done

-----------------------------------------------------------------------------
(* Names *)

\* streq() compares up to the end of its first argument only.
streq(from, to) == from = to \/ <<from, to>> \in PrefixOf

\* The first child that answers to a name, 0 if there is none.
Child(n, name) ==
    LET kids == nodes[n].children
        hits == {j \in DOMAIN kids : streq(name, Last(nodes[kids[j]].path))}
    IN  IF hits = {} THEN 0 ELSE kids[Min(hits)]

\* name_to_levels_array() hits a BUG_ON on an empty component.
BadName(p) == Contains(p, NoName)

\* Wrong: files are walked through as directories are (mutant).
ParentOfAnyType(p) ==
    LET walk[i \in 0 .. Len(p) - 1] ==
          IF i = 0 THEN 1 ELSE IF walk[i - 1] = 0 THEN 0 ELSE Child(walk[i - 1], p[i])
    IN  walk[Len(p) - 1]

\* The directory of the last component, 0 where find_node() hits a BUG_ON.
Parent(p) ==
    LET walk[i \in 0 .. Len(p) - 1] ==
          LET n == IF i = 0 THEN 1 ELSE walk[i - 1]
              m == IF i = 0 \/ n = 0 THEN n ELSE Child(n, p[i])
          IN  IF m = 0 \/ nodes[m].type # "DIR" THEN 0 ELSE m
    IN  walk[Len(p) - 1]

\* find_node(): the node and the tree it is in, created when it is missing.
\* `node` is 0 where a BUG_ON is hit.
find_node(p, type) ==
    LET dir == IF BadName(p) THEN 0 ELSE Parent(p)
        hit == IF dir = 0 THEN 0 ELSE Child(dir, Last(p))
        new == Len(nodes) + 1
    IN  IF dir = 0 THEN [node |-> 0, tree |-> nodes]
        ELSE IF hit # 0 THEN [node |-> hit, tree |-> nodes]
        ELSE IF Len(nodes[dir].children) > MAX_FILES
             THEN [node |-> 0, tree |-> nodes]
        ELSE [node |-> new,
              tree |-> Append([nodes EXCEPT ![dir].children = Append(@, new)],
                              init_fs_node(Append(nodes[dir].path, Last(p)), type))]

-----------------------------------------------------------------------------
(* Blocks *)

\* Wrong: a block is skipped (mutant).
get_fs_block_skip(head, links) ==
    IF links[head] = 0 THEN 0 ELSE links[links[head]]

\* get_fs_block() returns the head; what the list begins with afterwards.
\* The block keeps its next_, which still leads into the free list.
get_fs_block(head, links) == links[head]

(***************************************************************************)
(* One invocation of write_to_block().  s.todo holds the pending calls,    *)
(* innermost first.  Sizes are signed here: data_size - FS_BLOCK_SIZE      *)
(* wraps around in the code, and data_begin plus it compares below         *)
(* data_begin, as a negative size does.                                    *)
(***************************************************************************)
write_to_block(s, buf) ==
    LET f == Head(s.todo)
        n == Max({0, Min({f.size, BS - f.offset})})
        calls == f.offset > BS \/ n < f.size
        grow == calls /\ s.next[f.block] = 0
        nxt == IF grow THEN s.free ELSE s.next[f.block]
        past == [block |-> nxt, offset |-> f.offset - BS, from |-> f.from,
                 size |-> f.size]
        tail == [block |-> nxt, offset |-> 0, from |-> f.from + n,
                 size |-> f.size - BS]
    IN  IF grow /\ s.free = 0 THEN [s EXCEPT !.bug = TRUE]
        ELSE [bug |-> FALSE,
              todo |-> (IF f.offset > BS THEN <<past>> ELSE <<>>)
                         \o (IF n < f.size THEN <<tail>> ELSE <<>>)
                         \o Tail(s.todo),
              free |-> IF grow THEN get_fs_block(s.free, s.next) ELSE s.free,
              next |-> IF grow THEN [s.next EXCEPT ![f.block] = s.free] ELSE s.next,
              data |-> [s.data EXCEPT ![f.block] =
                         [i \in 0 .. BS - 1 |->
                            IF i \in f.offset .. f.offset + n - 1
                            THEN <<buf, f.from + i - f.offset>> ELSE @[i]]]]

RunWrite(s, buf) ==
    LET run[k \in 0 .. MaxCalls] ==
          LET r == IF k = 0 THEN s ELSE run[k - 1]
          IN  IF k = 0 \/ r.todo = <<>> \/ r.bug THEN r
                                                ELSE write_to_block(r, buf)
    IN  run[MaxCalls]

\* Wrong: in the next block the offset is forgotten (mutant).
read_from_block_past(r) ==
    LET n == Max({0, Min({r.size, BS - r.offset, r.left})})
    IN  IF r.offset > BS
        THEN [r EXCEPT !.block = next[@], !.offset = 0, !.left = @ - BS]
        ELSE [block |-> IF n < r.size THEN next[r.block] ELSE 0,
              offset |-> 0, size |-> r.size - BS, left |-> r.left - BS,
              bytes |-> r.bytes \o
                          [i \in 1 .. n |-> data[r.block][r.offset + i - 1]]]

\* One invocation of read_from_block(); file_size_left is signed as above.
read_from_block(r) ==
    LET n == Max({0, Min({r.size, BS - r.offset, r.left})})
    IN  IF r.offset > BS
        THEN [r EXCEPT !.block = next[@], !.offset = @ - BS, !.left = @ - BS]
        ELSE [block |-> IF n < r.size THEN next[r.block] ELSE 0,
              offset |-> 0, size |-> r.size - BS, left |-> r.left - BS,
              bytes |-> r.bytes \o
                          [i \in 1 .. n |-> data[r.block][r.offset + i - 1]]]

RunRead(r) ==
    LET run[k \in 0 .. MaxCalls] ==
          LET q == IF k = 0 THEN r ELSE run[k - 1]
          IN  IF k = 0 \/ q.block = 0 THEN q ELSE read_from_block(q)
    IN  run[MaxCalls].bytes

-----------------------------------------------------------------------------
(* Operations *)

Bug(why) ==
    /\ halted' = TRUE
    /\ last' = [op |-> "bug", why |-> why]
    /\ UNCHANGED <<nodes, next, free, data>>

Room == Len(nodes) < MaxNodes

open(p) ==
    LET r == find_node(p, "FILE")
    IN  /\ ~ halted /\ (Room \/ r.tree = nodes)
        /\ IF r.node = 0 \/ r.tree[r.node].opened
           THEN Bug("open")
           ELSE /\ nodes' = [r.tree EXCEPT ![r.node].opened = TRUE]
                /\ last' = Done
                /\ UNCHANGED <<next, free, data, halted>>

close(n) ==
    /\ ~ halted
    /\ nodes' = [nodes EXCEPT ![n].opened = FALSE]
    /\ last' = Done
    /\ UNCHANGED <<next, free, data, halted>>

mkdir(p) ==
    LET r == find_node(p, "DIR")
    IN  /\ ~ halted /\ (Room \/ r.tree = nodes)
        /\ IF r.node = 0
           THEN Bug("mkdir")
           ELSE /\ nodes' = r.tree
                /\ last' = Done
                /\ UNCHANGED <<next, free, data, halted>>

\* readdir() creates a missing directory.  For an empty one it returns the
\* next_ field of an uninitialised local, whatever that holds.
readdir(p) ==
    LET r == find_node(p, "DIR")
        kids == r.tree[r.node].children
    IN  /\ ~ halted /\ (Room \/ r.tree = nodes)
        /\ IF r.node = 0
           THEN Bug("readdir")
           ELSE /\ nodes' = r.tree
                /\ \E wild \in {<<>>, <<Junk>>} :
                     last' = [op |-> "readdir",
                              names |-> IF kids = <<>> THEN wild
                                        ELSE [j \in DOMAIN kids |->
                                               Last(r.tree[kids[j]].path)]]
                /\ UNCHANGED <<next, free, data, halted>>

write(n, offset, size, buf) ==
    LET first == nodes[n].list_head = 0
        block == IF first THEN free ELSE nodes[n].list_head
        r == RunWrite([todo |-> <<[block |-> block, offset |-> offset,
                                   from |-> 0, size |-> size]>>,
                       next |-> next, data |-> data, bug |-> FALSE,
                       free |-> IF first THEN get_fs_block(free, next) ELSE free], buf)
    IN  /\ ~ halted
        /\ IF ~ nodes[n].opened THEN Bug("write")
           ELSE IF first /\ free = 0 THEN Bug("space")
           ELSE IF r.bug THEN Bug("space")
           ELSE /\ nodes' = [nodes EXCEPT ![n].size = Max({@, offset + size}),
                                          ![n].list_head = block]
                /\ next' = r.next
                /\ free' = r.free
                /\ data' = r.data
                /\ last' = Done
                /\ UNCHANGED halted

read(n, offset, size) ==
    LET bytes == RunRead([block |-> nodes[n].list_head, offset |-> offset,
                          size |-> size, left |-> nodes[n].size, bytes |-> <<>>])
    IN  /\ ~ halted
        /\ IF ~ nodes[n].opened THEN Bug("read")
           ELSE /\ last' = [op |-> "read", node |-> n, offset |-> offset,
                            size |-> size, bytes |-> bytes]
                /\ UNCHANGED <<nodes, next, free, data, halted>>

\* Callers use a node once open() has returned it.
Handle == {n \in DOMAIN nodes : n # 1}

\* An access that stays in one block and does not begin where a block does.
InsideBlock(offset, size) ==
    \E k \in 0 .. BLOCKS - 1 : k * BS < offset /\ offset + size <= (k + 1) * BS

\* What the code writes to the right place: anything in files of at most one
\* block; of a single file that takes more, what begins at its start, or lies
\* inside a block.  At a later multiple of the block size it writes behind the
\* end of a block (line 231 has > for >=), and what crosses from one block to
\* the next elsewhere is cut short (line 254 takes a whole block off the size).
HandledWrite(n, offset, size) ==
    \/ offset + size <= BS /\ \A m \in DOMAIN nodes : nodes[m].size <= BS
    \/ /\ (offset = 0 /\ size <= BS * BLOCKS) \/ InsideBlock(offset, size)
       /\ \A m \in DOMAIN nodes \ {n} : nodes[m].list_head = 0

\* What it reads right: the same places, but only up to the end of the file,
\* which is compared with the size and not with the sum (line 310).
HandledRead(n, offset, size) ==
    offset = 0 \/ (InsideBlock(offset, size) /\ offset + size <= nodes[n].size)

FsNext ==
    \/ \E p \in Path : open(p) \/ mkdir(p) \/ readdir(p)
    \/ \E n \in Handle :
         \/ close(n)
         \/ \E w \in WriteRange, buf \in Buffer :
              /\ Contract => HandledWrite(n, w[1], w[2])
              /\ write(n, w[1], w[2], buf)
         \/ \E r \in ReadRange :
              /\ Contract => HandledRead(n, r[1], r[2])
              /\ read(n, r[1], r[2])

FsSpec == FsInit /\ [][FsNext]_fsVars

-----------------------------------------------------------------------------
(* Properties *)

\* The k-th block after b along next_, 0 past the end of the chain.
After(b, k) ==
    LET walk[i \in 0 .. k] ==
          IF i = 0 THEN b ELSE IF walk[i - 1] = 0 THEN 0 ELSE next[walk[i - 1]]
    IN  walk[k]

\* An empty file that was written to has its first block, too.
BlocksOf(n) ==
    {After(nodes[n].list_head, k) : k \in 0 .. Max({0, nodes[n].size - 1}) \div BS} \ {0}

\* The bytes of a file, as its size_ and its chain of blocks define them.
FileBytes(n) ==
    [i \in 1 .. nodes[n].size |->
       LET b == After(nodes[n].list_head, (i - 1) \div BS)
       IN  IF b = 0 THEN Junk ELSE data[b][(i - 1) % BS]]

FreeBlocks == {After(free, k) : k \in 0 .. BLOCKS} \ {0}

Byte == {Junk} \cup ((Buffer \cup Nat) \X Nat)

\* Nodes have a type, blocks are blocks there are, and bytes are bytes.
FsTypeOK ==
    /\ \A n \in DOMAIN nodes :
         /\ nodes[n].type \in {"FILE", "DIR"} /\ nodes[n].opened \in BOOLEAN
         /\ nodes[n].list_head \in 0 .. BLOCKS /\ nodes[n].size \in Nat
         /\ nodes[n].children \in Seq(DOMAIN nodes)
    /\ next \in [Block -> 0 .. BLOCKS]
    /\ free \in 0 .. BLOCKS
    /\ data \in [Block -> [0 .. BS - 1 -> Byte]]
    /\ halted \in BOOLEAN

(***************************************************************************)
(* A block holds the data of one file only, and no block that holds data   *)
(* is on the free list, where the next get_fs_block() would hand it out    *)
(* once more (file_system.c:56-66).                                        *)
(***************************************************************************)
BlocksNotShared ==
    \A m, n \in DOMAIN nodes :
        nodes[n].list_head # 0 =>
            /\ BlocksOf(n) \cap FreeBlocks = {}
            /\ m # n => BlocksOf(n) \cap BlocksOf(m) = {}

(***************************************************************************)
(* "no filesystem free blocks left" (file_system.c:58) is reported only    *)
(* when every block holds data of some file: none has leaked.              *)
(***************************************************************************)
OutOfSpaceMeansFull ==
    last.op = "bug" /\ last.why = "space" =>
        UNION {BlocksOf(n) : n \in {m \in DOMAIN nodes : nodes[m].list_head # 0}}
            = Block

(***************************************************************************)
(* The tree is a tree: every node but the root is the child of one         *)
(* directory, under a path no other node has, whatever was looked up or    *)
(* created before (file_system.c:175-187).                                 *)
(***************************************************************************)
TreeWellFormed ==
    /\ FsTypeOK
    /\ \A m, n \in DOMAIN nodes : nodes[m].path = nodes[n].path => m = n
    /\ \A n \in DOMAIN nodes \ {1} :
         \E d \in DOMAIN nodes :
             /\ nodes[d].type = "DIR" /\ nodes[d].path = Front(nodes[n].path)
             /\ Contains(nodes[d].children, n)

\* The refinement mapping to FileStore.tla, used in Initramfs.tla.
StoreTree ==
    [p \in {nodes[n].path : n \in DOMAIN nodes} |->
       LET n == CHOOSE m \in DOMAIN nodes : nodes[m].path = p
       IN  [type |-> nodes[n].type, bytes |-> FileBytes(n), opened |-> nodes[n].opened]]
StoreAnswer ==
    [bytes |-> IF last.op = "read" THEN last.bytes ELSE <<>>,
     names |-> IF last.op = "readdir" THEN ToSet(last.names) ELSE {}]

-----------------------------------------------------------------------------
(* The inductive invariant *)

Node == [path : Seq(Name \cup {NoName}), type : {"FILE", "DIR"}, children : Seq(Nat),
         list_head : 0 .. BLOCKS, size : Nat, opened : BOOLEAN]

\* The nodes t form a tree under the first.
IsTree(t) ==
    /\ t \in Seq(Node) /\ t # <<>>
    /\ t[1].path = <<>>
    /\ \A n \in DOMAIN t : t[n].children \in Seq(DOMAIN t)
    /\ \A m, n \in DOMAIN t : t[m].path = t[n].path => m = n
    /\ \A n \in DOMAIN t \ {1} :
         \E d \in DOMAIN t : /\ t[d].type = "DIR" /\ t[d].path = Front(t[n].path)
                             /\ Contains(t[d].children, n)

BlocksTyped ==
    /\ next \in [Block -> 0 .. BLOCKS]
    /\ free \in 0 .. BLOCKS
    /\ data \in [Block -> [0 .. BS - 1 -> Byte]]

\* While callers keep to HandledWrite no link changes: a file that grows finds the
\* links the blocks had at boot, and the blocks taken from the free list are
\* the first blocks of files.
SpaceKept ==
    /\ next = [b \in Block |-> b - 1]
    /\ \A b \in free + 1 .. BLOCKS : \E n \in DOMAIN nodes : nodes[n].list_head = b
    /\ \A n \in DOMAIN nodes : nodes[n].list_head = 0 \/ nodes[n].list_head > free
    /\ last.op = "bug" => halted /\ (last.why = "space" => free = 0)

FsInv ==
    /\ IsTree(nodes)
    /\ BlocksTyped
    /\ halted \in BOOLEAN
    /\ Contract => SpaceKept
=============================================================================
