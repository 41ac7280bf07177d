------------------------------ MODULE Initramfs ------------------------------
(***************************************************************************)
(* Loading the initial file system (initramfs.c): the boot loader leaves   *)
(* a cpio archive in memory, load_cpio() walks it header by header, and    *)
(* every object becomes a directory or a file of FileSystem.tla; main()    *)
(* then looks at what is there (check_cpio).                               *)
(*                                                                         *)
(* Addresses are bytes.  The archive is given by its objects and the       *)
(* places the cpio tool puts them at; what the walk finds at an address    *)
(* is the header that was put there, if one was.  A number in a header is  *)
(* eight hexadecimal digits.  A byte of the archive is known by its object *)
(* and its index in that object's data.                                    *)
(***************************************************************************)
EXTENDS FileSystem, Folds

CONSTANTS Archive,   \* archives a boot loader may leave: see ArchiveAssumption
          Letters,   \* the length of each name
          START,     \* where the boot loader puts the archive
          HEADER,    \* sizeof(cpio_header_t)
          PATHS, SIZES   \* the paths and sizes in the archives

\* objects: path, whether the name ends in '/', mode and size of each;
\* trailer: whether the last header is there; pad: bytes behind that header;
\* before: other modules, with their sizes and the magic bytes they match.
ASSUME ArchiveAssumption ==
    /\ START % 4 = 0 /\ HEADER \in Nat
    /\ \A a \in Archive :
         /\ \A i \in DOMAIN a.objects :
              a.objects[i].path \in PATHS /\ a.objects[i].size \in SIZES
         /\ a.trailer \in BOOLEAN /\ a.pad \in Nat /\ (a.trailer \/ a.pad = 0)

VARIABLES archive,   \* what the boot loader left
          object,    \* load_cpio(): the address it is at
          stage,     \* how far main() and load_cpio() are
          entry      \* the object handle_one_cpio_object() is at, with its data

initVars == <<fsVars, archive, object, stage, entry>>

-----------------------------------------------------------------------------
(* The archive in memory *)

align4(a) == ((a + 3) \div 4) * 4

Trailer == [path |-> <<"TRAILER!!!">>, slash |-> FALSE, mode |-> 0, size |-> 0]
Objects(a) == a.objects \o (IF a.trailer THEN <<Trailer>> ELSE <<>>)

\* The bytes of an object's name, its terminating zero included.
NameSize(o) ==
    IF o = Trailer THEN 11
    ELSE FoldLeft(LAMBDA n, c : n + Letters[c] + 1, 0, o.path) + (IF o.slash THEN 1 ELSE 0)

\* Where the cpio tool puts the headers and the data behind them.
HeaderAt(a) ==
    LET at[i \in 1 .. Len(Objects(a)) + 1] ==
          IF i = 1 THEN START
          ELSE LET o == Objects(a)[i - 1]
               IN  align4(align4(at[i - 1] + HEADER + NameSize(o)) + o.size)
    IN  at
DataAt(a, i) == align4(HeaderAt(a)[i] + HEADER + NameSize(Objects(a)[i]))

\* Without padding the archive ends with its last byte, wherever that is.
End(a) ==
    LET n == Len(Objects(a))
        o == Objects(a)[n]
    IN  IF n = 0 THEN START
        ELSE a.pad + IF o.size > 0 THEN DataAt(a, n) + o.size
                                   ELSE HeaderAt(a)[n] + HEADER + NameSize(o)

\* A number as the cpio tool writes it.
Digits(n) == [i \in 1 .. 8 |-> (n \div 16^(8 - i)) % 16]

parse_str_to_hex(digits) ==
    LET res[i \in 0 .. 8] ==
          IF i = 0 THEN 0 ELSE res[i - 1] + digits[i] * 16^(8 - i)
    IN  res[8]

S_ISDIR(mode) == (mode \div 4096) % 16 = 4
S_ISREG(mode) == (mode \div 4096) % 16 = 8

-----------------------------------------------------------------------------
(* Loading *)

\* initramfs() takes the first module of seven bytes or more that has any of
\* the six bytes of the magic number in its place.
FindsArchive(a) ==
    \A i \in DOMAIN a.before : a.before[i].size < 7 \/ a.before[i].magic = {}

initramfs ==
    /\ stage = "find"
    /\ stage' = "load"
    /\ object' = START
    /\ IF FindsArchive(archive) THEN UNCHANGED fsVars ELSE Bug("initramfs")
    /\ UNCHANGED <<archive, entry>>

IsTrailer(o) == parse_str_to_hex(Digits(NameSize(o))) = 11 /\ o.path = Trailer.path

\* Wrong: the data is taken to follow the name at once (mutant).
DataStartUnaligned(header, name_size) == header + HEADER + name_size

DataStart(header, name_size) == align4(header + HEADER + name_size)

\* Wrong: behind a directory the walk stays where it is (mutant).
NextObjectStuck(header, type, name_size, size) ==
    IF S_ISREG(type) THEN DataStart(header, name_size) + size ELSE header

\* The address behind an object, which need not be aligned.
NextObject(header, type, name_size, size) ==
    IF S_ISREG(type) THEN DataStart(header, name_size) + size
                     ELSE header + HEADER + name_size

\* The path of an object: a '/' in front, and none at the end of a directory.
ObjectPath(o, type) ==
    o.path \o (IF o.slash /\ ~ S_ISDIR(type) THEN <<NoName>> ELSE <<>>)

\* handle_one_cpio_object() up to its calls of the file system.
handle_one_cpio_object ==
    LET header == align4(object)
        found == {i \in DOMAIN Objects(archive) : HeaderAt(archive)[i] = header}
    IN  /\ stage = "load" /\ ~ halted /\ object # End(archive)
        /\ \/ /\ header >= End(archive)
              /\ object' = End(archive)
              /\ UNCHANGED <<fsVars, stage, entry>>
           \/ /\ header < End(archive) /\ found = {}
              /\ Bug("header")
              /\ UNCHANGED <<object, stage, entry>>
           \/ /\ header < End(archive)
              /\ \E i \in found :
                   LET o == Objects(archive)[i]
                       type == parse_str_to_hex(Digits(o.mode))
                       size == parse_str_to_hex(Digits(o.size))
                       name_size == parse_str_to_hex(Digits(NameSize(o)))
                   IN  IF IsTrailer(o)
                       THEN /\ object' = End(archive)
                            /\ UNCHANGED <<fsVars, stage, entry>>
                       ELSE IF ~ S_ISREG(type) /\ ~ S_ISDIR(type)
                       THEN Bug("type") /\ UNCHANGED <<object, stage, entry>>
                       ELSE /\ stage' = IF S_ISREG(type) THEN "open" ELSE "mkdir"
                            /\ entry' = [path |-> ObjectPath(o, type), size |-> size,
                                         data |-> DataStart(header, name_size)]
                            /\ object' = NextObject(header, type, name_size, size)
                            /\ UNCHANGED fsVars
        /\ UNCHANGED archive

\* What the memory at an address holds: the data of an object, or something else.
Source(addr) ==
    LET hits == {i \in DOMAIN archive.objects : DataAt(archive, i) = addr}
    IN  IF hits = {} THEN 0 ELSE CHOOSE i \in hits : TRUE

\* The node open() returned for the object.
Opened == find_node(entry.path, "FILE").node

MkdirObject ==
    /\ stage = "mkdir" /\ mkdir(entry.path)
    /\ stage' = "load" /\ UNCHANGED <<archive, object, entry>>

OpenObject ==
    /\ stage = "open" /\ open(entry.path)
    /\ stage' = "write" /\ UNCHANGED <<archive, object, entry>>

WriteObject ==
    /\ stage = "write"
    /\ \E n \in {Opened}, buf \in {Source(entry.data)} : write(n, 0, entry.size, buf)
    /\ stage' = "close" /\ UNCHANGED <<archive, object, entry>>

CloseObject ==
    /\ stage = "close"
    /\ \E n \in {Opened} : close(n)
    /\ stage' = "load" /\ UNCHANGED <<archive, object, entry>>

\* The loop of load_cpio() is over.
LoadDone ==
    /\ stage = "load" /\ ~ halted /\ object = End(archive)
    /\ stage' = IF archive.objects = <<>> THEN "use" ELSE "check"
    /\ UNCHANGED <<fsVars, archive, object, entry>>

Load == \/ initramfs \/ handle_one_cpio_object \/ MkdirObject
        \/ OpenObject \/ WriteObject \/ CloseObject \/ LoadDone

-----------------------------------------------------------------------------
\* check_cpio() of main.c: what was loaded is listed and read.
CheckCpio ==
    /\ stage = "check"
    /\ \/ \E i \in DOMAIN archive.objects :
            LET p == archive.objects[i].path
            IN  IF S_ISDIR(archive.objects[i].mode) THEN readdir(p) ELSE open(p)
       \/ \E n \in Handle :
            \/ close(n)
            \/ \E r \in ReadRange : HandledRead(n, r[1], r[2]) /\ read(n, r[1], r[2])
    /\ UNCHANGED <<archive, object, stage, entry>>

\* With an archive that holds nothing the file system is used freely, as
\* test_file_system() of main.c does.
Use == stage = "use" /\ FsNext /\ UNCHANGED <<archive, object, stage, entry>>

InitramfsInit ==
    /\ FsInit
    /\ archive \in Archive
    /\ object = START
    /\ stage = "find"
    /\ entry = [path |-> <<>>, size |-> 0, data |-> 0]

InitramfsNext == Load \/ CheckCpio \/ Use

\* The boot thread goes on with its loop.
InitramfsSpec == InitramfsInit /\ [][InitramfsNext]_initVars /\ WF_initVars(Load)

-----------------------------------------------------------------------------
(* Properties *)

\* What the objects of an archive say should be there, and whether they can be
\* loaded: plain files and directories, each after its directory, in blocks
\* that suffice, and in the first module that looks like an archive.
FileObjects(a) == {i \in DOMAIN a.objects : S_ISREG(a.objects[i].mode)}
BlocksNeeded(size) == Max({1, (size + BS - 1) \div BS})

Loadable(a) ==
    /\ FindsArchive(a)
    /\ \A i \in DOMAIN a.objects :
         /\ S_ISREG(a.objects[i].mode) \/ S_ISDIR(a.objects[i].mode)
         /\ Len(a.objects[i].path) > 1 =>
              \E j \in 1 .. i - 1 : /\ a.objects[j].path = Front(a.objects[i].path)
                                    /\ S_ISDIR(a.objects[j].mode)
    /\ MapThenSumSet(LAMBDA i : BlocksNeeded(a.objects[i].size), FileObjects(a)) <= BLOCKS

(***************************************************************************)
(* The walk loads the archive: when it ends, the tree holds the objects    *)
(* of the archive and nothing else, and the bytes of each file are its     *)
(* data, wherever alignment puts headers and data and wherever the archive *)
(* ends (initramfs.c:105, 142, 170).  It halts only for an archive that    *)
(* cannot be loaded, never because it took something else for a header.    *)
(***************************************************************************)
ArchiveLoaded ==
    /\ stage = "check" =>
         /\ Loadable(archive)
         /\ {nodes[n].path : n \in DOMAIN nodes}
              = {<<>>} \cup {archive.objects[i].path : i \in DOMAIN archive.objects}
         /\ \A i \in FileObjects(archive) :
              \E n \in DOMAIN nodes :
                  /\ nodes[n].path = archive.objects[i].path
                  /\ nodes[n].type = "FILE"
                  /\ FileBytes(n) = [k \in 1 .. archive.objects[i].size |-> <<i, k - 1>>]
    /\ halted /\ stage \notin {"check", "use"} => ~ Loadable(archive)

(***************************************************************************)
(* load_cpio() ends: its loop stops only at initramfs_end itself           *)
(* (initramfs.c:170), which an object's size may step over.                *)
(***************************************************************************)
LoadEnds == <>(halted \/ stage \in {"check", "use"})

LoadedStore == INSTANCE FileStore WITH
    Path <- Path \cup PATHS,
    WriteRange <- WriteRange \cup ({0} \X SIZES),
    Buffer <- Buffer \cup {0} \cup UNION {DOMAIN a.objects : a \in Archive},
    tree <- StoreTree, answer <- StoreAnswer, stopped <- halted

(***************************************************************************)
(* file_system.c implements FileStore, while the archive is loaded and     *)
(* after it: files are independent sequences of bytes, what was written    *)
(* or came with the archive is what is read, a directory lists what was    *)
(* created in it, and one user has a file open.  With Contract this is     *)
(* said of accesses as HandledWrite and HandledRead describe them: from    *)
(* the start of a file across blocks, and inside any block of it, before   *)
(* and after the file grew to it.  Of the others, which the code gets      *)
(* wrong (file_system.c:231, 254, 298, 310), it says nothing.              *)
(***************************************************************************)
ImplementsFileStore == LoadedStore!StoreSpec
=============================================================================
