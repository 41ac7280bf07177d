----------------------------- MODULE FileStore -----------------------------
(***************************************************************************)
(* What a file system promises: a tree of named files and directories in   *)
(* which a file is a sequence of bytes of its own.  Writing changes the    *)
(* bytes of one file and no other, reading returns the bytes there are,    *)
(* and at most one user has a file open.  Nothing is said of blocks.       *)
(***************************************************************************)
EXTENDS Integers, Sequences, SequencesExt

CONSTANTS Path, WriteRange, ReadRange, Buffer, Junk

VARIABLES tree,      \* from paths to what is there
          answer,    \* the bytes or names the last call returned
          stopped    \* the kernel halted on a BUG

storeVars == <<tree, answer, stopped>>

NoAnswer == [bytes |-> <<>>, names |-> {}]

Item(type) == [type |-> type, bytes |-> <<>>, opened |-> FALSE]

StoreInit ==
    /\ tree = (<<>> :> Item("DIR"))
    /\ answer = NoAnswer
    /\ stopped = FALSE

\* The tree with p in it; its parent must be a directory of the tree.
InDirectory(p) == Front(p) \in DOMAIN tree /\ tree[Front(p)].type = "DIR"
Ensured(p, type) == IF p \in DOMAIN tree THEN tree ELSE (p :> Item(type)) @@ tree

Open(p) ==
    /\ answer' = NoAnswer
    /\ InDirectory(p)
    /\ p \in DOMAIN tree => ~ tree[p].opened
    /\ tree' = [Ensured(p, "FILE") EXCEPT ![p].opened = TRUE]

MakeDirectory(p) ==
    /\ answer' = NoAnswer
    /\ InDirectory(p)
    /\ tree' = Ensured(p, "DIR")

\* The names of what is in a directory; of an empty one nothing is promised.
ListDirectory(p) ==
    LET now == Ensured(p, "DIR")
        names == {Last(q) : q \in {r \in DOMAIN now \ {<<>>} : Front(r) = p}}
    IN  /\ InDirectory(p)
        /\ tree' = now
        /\ \E list \in {names} \cup IF names = {} THEN {{Junk}} ELSE {} :
             answer' = [NoAnswer EXCEPT !.names = list]

Close(p) ==
    /\ answer' = NoAnswer
    /\ tree' = [tree EXCEPT ![p].opened = FALSE]

\* A gap between the old end and the offset holds unspecified bytes.
Write(p, offset, size, buf) ==
    /\ answer' = NoAnswer
    /\ tree' = [tree EXCEPT ![p].bytes =
                  [i \in 1 .. Max({Len(@), offset + size}) |->
                     IF i - 1 \in offset .. offset + size - 1
                     THEN <<buf, i - 1 - offset>>
                     ELSE IF i <= Len(@) THEN @[i] ELSE Junk]]

Read(p, offset, size) ==
    /\ answer' = [NoAnswer EXCEPT !.bytes =
                    SubSeq(tree[p].bytes, offset + 1,
                           Min({offset + size, Len(tree[p].bytes)}))]
    /\ UNCHANGED tree

StoreNext ==
    \/ stopped' = TRUE /\ UNCHANGED tree /\ answer' = NoAnswer
    \/ /\ UNCHANGED stopped
       /\ \/ \E p \in DOMAIN tree :
               \/ Close(p)
               \/ tree[p].opened /\ \E r \in ReadRange : Read(p, r[1], r[2])
          \/ \E p \in Path : Open(p) \/ MakeDirectory(p) \/ ListDirectory(p)
          \/ \E p \in DOMAIN tree, w \in WriteRange, b \in Buffer :
               tree[p].opened /\ Write(p, w[1], w[2], b)

StoreSpec == StoreInit /\ [][~ stopped /\ StoreNext]_storeVars
=============================================================================
