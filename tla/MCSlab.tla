------------------------------- MODULE MCSlab -------------------------------
(* Instances of Slab for TLC. *)
EXTENDS SlabLists, TLC

\* Blocks are interchangeable, and so are threads.
SlabSymmetry == Permutations(Pool) \cup Permutations(Thread)

\* mem_pool_size[] of alloc.c.
MemPoolSize ==
    {64 * i : i \in 1 .. 16} \cup {1024 + 128 * i : i \in 1 .. 8}
    \cup {2048 + 256 * i : i \in 1 .. 4} \cup {3584, 4096, 5120, 6144, 7168, 8192}

\* Every small size, those around a page, and the ones of mem_alloc().
MCSize == 1 .. 520 \cup 4090 .. 4100 \cup MemPoolSize
=============================================================================
