--------------------------- MODULE MCFileSystem ---------------------------
(* Instances of FileSystem and Initramfs for TLC. *)
EXTENDS Initramfs, TLC

CONSTANTS Dir, FileA, FileB, Long, Empty

\* A directory, a file in it and one beside it, and a path with an empty part.
SmallTree == {<<Dir>>, <<Dir, FileA>>, <<FileB>>, <<Dir, Empty, FileA>>}
Flat == {<<FileA>>, <<FileB>>}

NoPrefixes == {}

\* Offsets and sizes of calls, with blocks of two bytes.
Writes == {<<0, 0>>, <<0, 3>>, <<1, 1>>, <<3, 1>>}
Reads == {<<0, 6>>, <<1, 1>>, <<3, 1>>}
ThreeBytes == {<<0, 1>>, <<0, 3>>}
NoReads == {}

\* Objects of archives: a directory, files in it and beside it, a link.
DirMode == 16877
FileMode == 33188
LinkMode == 41471
Object(path, slash, mode, size) ==
    [path |-> path, slash |-> slash, mode |-> mode, size |-> size]
D(slash) == Object(<<Dir>>, slash, DirMode, 0)
A(size) == Object(<<Dir, FileA>>, FALSE, FileMode, size)
B(size) == Object(<<FileB>>, FALSE, FileMode, size)
L(size) == Object(<<Long>>, FALSE, FileMode, size)
Link == Object(<<FileB>>, FALSE, LinkMode, 2)

\* Files of every remainder by four, before and after the directory; a name
\* as long as the trailer's; a file before its directory; a link; three files.
Contents ==
    {<<A(1)>>, <<B(1), Link>>, <<A(1), D(FALSE)>>, <<D(FALSE), A(1), B(1), L(1)>>}
    \cup {<<B(s), D(slash)>> : s \in 0 .. 4, slash \in BOOLEAN}
    \cup {<<D(slash), A(s), B(t)>> : slash \in BOOLEAN, s, t \in 0 .. 2}
    \cup {<<L(s), D(TRUE), A(t)>> : s, t \in 0 .. 2}

\* The archive is the only module, or comes after one that is too short or has
\* none of the magic bytes, or after one that has some.
Modules ==
    {<<>>, <<[size |-> 6, magic |-> {1, 2}], [size |-> 8, magic |-> {}]>>,
     <<[size |-> 8, magic |-> {3}]>>}

\* The trailer is there, with or without padding behind it, or it is cut off.
Ends == {<<TRUE, 0>>, <<TRUE, 5>>, <<FALSE, 0>>}

EmptyArchive == {[objects |-> <<>>, trailer |-> TRUE, pad |-> 0, before |-> <<>>]}

MCArchive ==
    {[objects |-> c, trailer |-> e[1], pad |-> e[2], before |-> <<>>] :
       c \in Contents, e \in Ends}
    \cup {[objects |-> <<B(1)>>, trailer |-> TRUE, pad |-> 0, before |-> m] : m \in Modules}
    \cup EmptyArchive

MCLetters == Dir :> 3 @@ FileA :> 1 @@ FileB :> 6 @@ Long :> 10
MCPaths == {<<Dir>>, <<Dir, FileA>>, <<FileB>>, <<Long>>}
=============================================================================
