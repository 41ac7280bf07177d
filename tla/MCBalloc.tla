------------------------------ MODULE MCBalloc ------------------------------
(* Instances of Balloc for TLC. *)
EXTENDS Balloc

CONSTANT Top   \* the end of memory

Entry == {[begin |-> b, end |-> e, type |-> t] :
            b \in 0 .. Top - 1, e \in 1 .. Top, t \in {1, 2}}

Entries == {r \in Entry : r.begin < r.end}

Overlap(r, q) == r.begin < q.end /\ q.begin < r.end

\* Usable memory holds the kernel and the module.
Loaded(m) ==
    \A r \in {Kernel, Module} : \E i \in DOMAIN m :
        m[i].type = 1 /\ m[i].begin <= r.begin /\ r.end <= m[i].end

\* Up to three entries, in any order, none of which overlaps another.
DisjointMaps ==
    {m \in UNION {[1 .. k -> Entries] : k \in 1 .. 3} :
       /\ \A i, j \in DOMAIN m : i # j => ~ Overlap(m[i], m[j])
       /\ Loaded(m)}

\* Or two entries that overlap as they please.
SomeMaps == DisjointMaps \cup {m \in [1 .. 2 -> Entries] : Loaded(m)}

TheKernel == [begin |-> 2, end |-> 3]
TheModule == [begin |-> 4, end |-> 5]

SomeRequests == {<<1, 0, Top>>, <<2, 0, Top>>, <<1, 3, Top - 1>>, <<3, 0, Top>>}
=============================================================================
