# FILES-CO in TLA+

FILES-CO is a small x86-64 kernel in C with preemptive threads on one processor,
mutexes and condition variables, four layers of memory allocation and an in-memory
file system that is filled from an initramfs. This directory holds TLA+ models of
its parts, TLC configurations that check them, and TLAPS proofs about eight of them.
Paths such as `threads.c:189` are relative to `src/src` (`src/inc` for headers).

## The system

| Part | State | Operations | Talks to |
|---|---|---|---|
| Scheduler (`threads.c`) | `current`, `runqueue`, `idle_thread`, `preempt_cnt`, per thread state and slice start | create, activate, exit, join, destroy, `schedule`, `force_schedule`, `idle` | timer tick calls `schedule`; everything that blocks calls it |
| Spin locks (`spinlock.c`) | `preempt_cnt`, the interrupt flag | lock, unlock, with and without irqsave | scheduler |
| Mutexes, conditions | `locked`, wait queues of nodes on the waiters' stacks | lock, unlock, wait, signal, broadcast | `thread_activate`, `schedule` |
| File system (`file_system.c`) | tree of nodes, chains of blocks, free list of blocks | open, close, mkdir, readdir, read, write | `mem_alloc`, `fs_spinlock` |
| Boot allocator (`balloc.c`) | `memory_map`, `free_ranges`, a fixed pool of nodes | parse the memory map, alloc, free | red-black tree |
| Page allocator (`memory.c`) | zones, lists by order, page flags | alloc, free | takes over from `balloc` |
| Slab allocator (`alloc.c`) | caches with three lists of pools, marks on pages | `mem_alloc`, `mem_realloc`, `mem_free`, shrink, release | page allocator |
| Kernel mappings (`paging.c`) | ranges with boundary tags, page table, TLB | `kmap`, `kunmap` | page tables |
| Page tables (`paging.c`) | four levels of tables | `paging_setup`, `pt_map_pages`, `pt_populate_pages` | `balloc`, page allocator |
| `rbtree.c`, `list.c` | links | insert, erase, walk; add, delete, splice | used by the above |
| Initramfs (`initramfs.c`) | bounds of the archive | find the module, walk the objects | opens, writes and closes files, makes directories |
| Interrupts (`ints.c`, `i8259a.c`, `time.c`) | handlers, `pic_irq_mask`, the controllers' registers, the interrupt flag | dispatch, acknowledge, mask, unmask, register | the tick calls `schedule` |
| `main.c` | | the order of set-up, tests | all of the above |
| Console, strings, boot code | | | |

What is hard here: a thread can be preempted between any two steps outside a spin
lock, also between marking itself blocked and giving up the CPU; a context switch is
finished by the thread that is switched to; wait nodes live on stacks; wake-ups race
with going to sleep; data structures trust tags, flags and links that earlier users of
the same memory wrote; sizes and orders sit at boundaries; the timer is active long before
there is a thread, and its handler leaves the interrupt it is in by switching threads;
the archive, the page tables and the lists are walked by what is stored in them. `PROJECT.json` lists each
such place ("hazards") with the properties that watch it.

## Modules

| Module | Models | State and actions |
|---|---|---|
| `Threads` | `threads.c`, `spinlock.c`, the tick of `time.c` | one variable per global of the code, `pc` for how far a thread is; one action per function or per stretch between two points where an interrupt may come |
| `Sync` | `mutex.c`, `condition.c` over `Threads` | extends `Threads`; `op` is the place of each thread in an operation, every statement on shared state is a step |
| `Monitor` | what mutexes and conditions promise | owners, queues, atomic hand-over; `Sync` refines it |
| `FileSystem` | `file_system.c` | one action per call, all of it under `fs_spinlock`; the recursion over blocks is unrolled in one step |
| `FileStore` | a store of independent files | `FileSystem` refines it within limits |
| `Initramfs` | `initramfs.c`, `check_cpio` over `FileSystem` | extends `FileSystem`; `object` is the address `load_cpio` is at, every call of the file system is a step |
| `PageAlloc` | `memory.c` | at boot each round that cuts a free range into blocks is a step; then the walk over zones is several steps, each zone's work one |
| `Balloc` | `balloc.c` | parsing in steps; trees as ordered sequences |
| `Slab` | `alloc.c` | set-up of a cache, then operations; work under a cache's lock is one step; destruction after it, and the two halves of `mem_realloc`, are steps of their own |
| `SlabLayout` | `mem_cache_layout_setup`, the bitmask | operators that `Slab` extends; the loop over `objs` is the largest number that fits |
| `List` | `list.c` | operators from the links of all nodes to the links after a call |
| `SlabLists` | `alloc.c` over `list.c` | every action of `Slab` with the calls of `list.c` it makes, and the pointer of the loop in `mem_cache_shrink` |
| `RbTree` | `rbtree.c` | links and colours; a loop round is a step |
| `Kmap` | `kmap`, `kunmap` | slots, tags, lists; under `kmap_lock` |
| `PageTables` | `paging.c` up to `paging_setup`, the entries `kmap` and `kunmap` write | nested tables; `pt_map_pages` and what the CPU finds are recursive operators |
| `Ints` | `ints.c`, `i8259a.c`, the interrupt flag in `time.c`, `threads.c`, `spinlock.c` | masks, requests and service of both controllers, the flag, where each thread is; the calls of `main()` in their order |
| `Boot` | `main()` with the three above | `Kmap`, `PageTables` and `Ints` composed: set-up in the order of `main()`, then mappings with page tables and TLB, and interrupts |
| `SyncProofs` | theorems about `Threads` and, on top of it, `Sync` | |
| `SlabProofs`, `PageAllocProofs`, `BallocProofs`, `RbTreeProofs`, `FileSystemProofs` | theorems about the modules they are named for | |
| `BootProofs` | theorems about the two parts of `Boot` that are proved, `Kmap` and `Ints` | |
| `QueueTheorems` | lemmas about sequences and least numbers that these share | |

`MC*` modules give the constants their values. Abstractions used throughout: names,
objects, pages and threads are model values or small numbers; messages that are only
printed are left out; `BUG_ON` is a `halted` flag or an invariant that it cannot fire.
The clients of `Threads` and `Sync` are external: nothing in `main()` uses mutexes or threads
(the tests that did, `main.c:140-258`, are commented out), so clients make every call the
interfaces allow, in any order.
`Sync` uses the actions of `Threads` and checks, as `KeepsSchedulerContract`, that every
step of mutexes and conditions is a step the scheduler allows its clients. `Slab` uses
the page allocator as a set of blocks; that blocks are disjoint and conserved is what
`PageAlloc` shows; `mem_cache_release`, which takes no lock (`alloc.c:186-191`), is one step, so a
caller that releases a cache others still use is left out. Modules use sequences for lists, which `SlabLists` justifies with the
links themselves (`LinksExact`, which is proved); where `Balloc` uses ordered sequences for trees, `RbTree`
shows order, reachability and `rb_next`/`rb_prev` (`LinksFormTree` and `WalksInOrder`, for any
number of nodes).

In `Initramfs` a header is found at the address the cpio tool put it at, or not at all; a
number in it is eight hexadecimal digits; a byte of data is known by its object and index.
Padding is taken to follow the trailer only. In `PageTables` addresses are page numbers,
`FANOUT` stands for 512 and the address space has no hole in its middle; a table holds the
tables below it. A BUG_ON or a missing pool makes the entry a "bug", which `MappingExact`
excludes. The TLB of `Boot` caches every translation of the mapping area at once and drops
it only when it is flushed: a processor that caches less has fewer stale entries, so
`TlbFresh` covers it. In `Ints` the code between an interrupt and the next place where
another thread may be switched to is one or two steps, as interrupts are off there: the
processor takes the interrupt (`Interrupt`), then `__int_handler` runs up to the handler. The kernel itself
registers a handler for the timer only; the second line stands for a driver that uses
`ints.h` as its interface says: handler first, then `activate_irq`.

`pic_mask` and `pic_unmask` (`i8259a.c:37-53`) are not atomic: they change `pic_irq_mask` and
then write it to a controller, with no lock and with interrupts as the caller has them.
The kernel is built without optimisation, so a call loads the variable, stores it, loads it
again and writes the port. `Ints` has these as four steps (`activate_irq` or `deactivate_irq`,
`MaskStore`, `MaskReload`, `MaskOut`), any thread may be in them, and ticks, other threads and
their updates come in between. Two updates that overlap may lose each other, and a controller
may be left with a mask that is not `pic_irq_mask`; TLC reaches such states. What is claimed is
what remains true (`LinesOpenWhenEnabled`): no such race closes the timer or opens a line
without a handler, and a line is open just as `pic_irq_mask` says if it is `Settled`: no thread
is updating it, and its controller was last written by an update that ran alone. The history
variables `overlap` and `stale` record this. The only call in the repository is that of
`time_setup`, before interrupts are on, so it cannot race and is one step; updates from a handler
or inside a critical section are not modelled.

`kmap` and `kunmap` run with interrupts off and share no variable with interrupts, so their
steps commute. `Boot` therefore follows mappings on the machine with most memory and
interrupts on the one with least, and not every pair of the two; the junk in the array
of ranges likewise varies per slot only where mappings are followed, and is one and the same
elsewhere. `FreeBefore` does not follow
a length that leads out of the area, where the code would read what is there: with `TagsTruthful`
the slot before a range is the end of another and leads to its first slot, so there is none.

Definitions marked "Wrong: ... (mutant)" are plausible mistakes in the code: dropped
guards, missing resets, swapped order. No specification uses them. For each property a
mutant, put in place of the definition it is named for, makes the property fail; the
list is in `PROJECT.json`.

## Runs that pass

| Run | Bounds | Shows |
|---|---|---|
| `Threads` | boot thread and two workers, slices of two ticks, two nested locks, with interrupts on or off under them | `ThreadsInv` (the inductive invariant): the run queue holds each runnable thread once and no other, no thread runs on a freed stack, a caller that blocked never runs on; somebody is always there to run; a held spin lock keeps the CPU; only others wake a blocked thread; queued threads run, joins of exiting threads return |
| `Sync_safety` | three clients on one mutex and one condition, with interrupts on or off under spin locks | the mutex is locked exactly when owned and has one owner, wait nodes are live when walked, no wake-up is lost, refinement of `Monitor`, the scheduler's contract |
| `Sync_liveness` | two workers | each `mutex_lock` returns if holders unlock |
| `FileSystem` | archives of up to four objects with names and data of every remainder by four, with the trailer, with padding behind it or cut off, alone or behind other modules; four nodes besides the root, two blocks of two bytes; with the empty archive any calls that `HandledWrite` and `HandledRead` describe: writes of nothing, over the boundary from offset 0, inside the first and inside the second block; reads past the end from offset 0, and inside either block | the tree and the bytes of an archive are loaded, the loop of `load_cpio` ends, the tree is well formed, space runs out only when every block is in use, refinement of `FileStore` |
| `PageAlloc` | two zones with unaligned ends, two callers | blocks are disjoint, nothing leaks, buddies always merge and flags tell the truth where they are read (`FullyMerged`) |
| `Balloc` | maps of up to three entries that are apart or touch, or two that overlap; two allocations; six nodes, so that some maps use them up | reserved memory is never free, memory is handed out once and none is lost while entries are apart, ranges are apart and nodes conserved |
| `Slab` | set-up for every size to 520, around a page, and those of `mem_alloc`, with three alignments; then two caches of three objects, three blocks, two threads | the layout fits, pools hold two objects at least, the bitmask is exact; objects handed out once, pools on the right list, marks right, blocks conserved; the links of `list.c` are the lists, also for a loop without the lock |
| `RbTree` | nine nodes | order, balance, neighbours, no null link followed (TLC would stop on one); each loop round climbs or is the last |
| `Boot` | seven slots, three lists, uninitialised tags; tables of three entries, every size of memory to two pages more than is mapped; the timer and a line of the second controller, two threads, both in the middle of an update of the mask at any time | ranges partition the area and are joined, tags are truthful where they are read, the search is complete; page tables and TLB say what was asked for; no unexpected interrupt, nothing in service while interrupts are on, the timer and every settled line pass as they should, ticks go on |

Why the bounds are enough to be of use: three threads are the least for a thread that
wakes another while a third competes (the safety parts of `Threads` and `Sync` are also proved for
any number, and `Sync_safety` has four threads on the same scheduler); two zones for a walk that passes one; two blocks of
two bytes for a file that crosses a boundary and for an offset inside a later block; nine nodes for fix-ups that
climb two levels and then rotate; seven slots for ranges with free neighbours on both
sides and for lengths above and below each order; tables of three entries on four levels
for large pages of two sizes, ranges that start or end inside one, and the end of the
address space; a line on each controller for priorities across them. Archives with a
file larger than a block hold no second file: that is what `FileSystem_shared` shows to go
wrong. `Slab` takes two objects as the least
a pool holds from `LayoutFits` and three as the least with a pool that
is partial before and after. `CHECK_DEADLOCK FALSE` is set where a sequence of calls may
just end; `Threads`, `Sync` and `RbTree` are checked for deadlock.

### Fairness

`ThreadsFairness`: the interrupt controller keeps a timer interrupt pending while
interrupts are off, so a tick that is possible again and again happens (strong
fairness); the running thread executes its next statement (weak fairness of entry, exit,
unlock and the idle loop; strong for the return of a join, which competes with ticks).
Nothing is assumed of clients except that they leave spin locks: a section under an outer
lock is finite, however often locks are taken and released inside it (strong fairness of
the unlock that ends it). `SyncFairness` adds
that a thread inside a mutex or condition operation goes on with it and that holders
unlock; `LockEventuallyReturns` would be false without the latter. `InitramfsSpec`: the boot
thread goes on with its loop (weak fairness of `Load`), which ends because every object
moves it on. `BootSpec`: `main()`, handlers and critical sections go on (weak fairness); a
timer request that stays pending is taken if the flag is set again and again (strong
fairness, for the same reason as above). `RbTree` needs no
fairness: that loops end is stated as a step property (`RoundsClimb`), with the deadlock
check for a round that could not go on.

## Runs that find a violation

Each states what a comment, an assertion or a test of the repository says, and TLC
finds a behaviour of the code against it. `PROJECT.json` ("findings") quotes the lines.

| Run | What happens |
|---|---|
| `Sync_boot` | the boot thread blocks before `idle()`; with nobody to run, `schedule()` returns to it (`threads.c:189`) and it goes on without the mutex. The tests whose expectations are quoted are commented out in `main()` and always have another thread queued, so they would not hit it |
| `FileSystem_shared` | a block keeps its link into the free list (`file_system.c:61`) and a growing file follows it: already with one file, its second block is still on the free list and can be handed out again |
| `PageAlloc_flags` | the page array is not cleared (`memory.c:78`), stale flags let a block merge with reserved memory. The model takes such a buddy off a list it is not on as no change (`FreeZone`), where the code follows links it never wrote (`memory.c:341`): the code does no better |

`FileSystem` shows where the file system is right: while files fit into one block, or
there is one file, written and read from its start or inside one of its blocks (`HandledWrite`), and reads
from an offset end with the file (`HandledRead`). Outside these limits nothing is claimed, and the
definitions, which follow the code, also show: at an offset that is a multiple of the block size,
but 0, it writes and reads behind the end of a block, as the test is `>` and not `>=`
(`file_system.c:231`, `280`), memory the model leaves out; a call over a block boundary from an
offset is cut short, as `data_size - FS_BLOCK_SIZE` is passed on (`file_system.c:254`, `298`); a read from an offset
passes the end of the file, as its whole size is passed (`file_system.c:310`); a name
finds a longer one it is a prefix of (`streq`, `file_system.c:14`); a directory takes one
child more than its array has room for (`file_system.c:181`); `readdir` of an empty
directory returns an uninitialised pointer (`file_system.c:224`), which `FileStore` allows
for. `Balloc` loses memory when an entry of the memory map covers a later one entirely
(`balloc.c:84`), which is why `FreeMemoryExact` asks for entries that are apart.

`Initramfs` follows the test of `initramfs.c:58-64`, which joins the bytes of the magic number
with `||`: another module with one matching byte is taken for the archive, and the walk
halts at its first header. The test of `mbt->flags` before it uses the decimal constant
1000 (`initramfs.c:48`).

Also noted, with no text to hold the code to: `MIN_POOL_OBJS` is 8 but pools of some
sizes hold as few as 4 objects, as `alloc.c:77` rounds down; `kmap` of 2^16 or more pages
always fails (`paging.c:297`), though the area has 2^19. The comment of `spinlock.h:14-16`,
that the irqsave variants are not needed, is confirmed in the sense that `Threads` and
`Sync` are checked with both.

## Proofs

The theorems hold for every value of the constants that the named ASSUMEs allow; every
run on a module evaluates its ASSUMEs. Each `XProofs` module extends the module it is
about, has lemmas for its operators, one lemma per action or kind of step, and then the
theorems. The inductive invariants are conjunctions of named parts. Most stand at the end
of the modules they belong to, and TLC checks them on the instances of the runs; `PageInv`,
`LinksInv` and `RbInv`, which need notions of the proofs, stand in `PageAllocProofs`, `SlabProofs`
and `RbTreeProofs`.

| Module | Theorem | States |
|---|---|---|
| `SyncProofs` | `SchedulerInvariant` | `ThreadsSpec => []ThreadsInv` |
| | `AlwaysSomebodyToRun`, `NoBugOn` | a thread that gives up the CPU has a successor; no `BUG_ON` of `threads.c` is reachable |
| | `SpinLockKeepsCPU`, `BlockedUntilActivated` | the action properties `LockKeepsCPU` and `WokenByOthers` |
| | `SyncInvariant` | `Spec => []SyncInv` |
| | `MutexHasOneOwner`, `LinkedNodesAreLive`, `WakeupsAreNotLost` | `LockedIffOwned`, `WaitNodesLive`, `NoLostWakeup` |
| | `SchedulerContractKept` | every behaviour of `Sync` is one of `Threads` |
| | `MonitorImplemented` | every behaviour of `Sync` is, under its mapping, one of `Monitor` |
| `BootProofs` | `InterruptInvariant` | `IntsSpec => []IntsInv` |
| | `NoInterruptIsUnexpected`, `EnabledMeansOpen` | `NoUnexpectedInterrupt`, `LinesOpenWhenEnabled`, with updates of the mask that race |
| | `KmapInvariant` | `KmapSpec => []KmapInv` |
| | `AreaStaysPartitioned`, `TagsStayTruthful`, `SearchIsComplete` | `AreaPartitioned`, `TagsTruthful`, `SearchComplete` |
| `PageAllocProofs` | `PageInvariant` | `PageSpec => []PageInv`, if no page flag is set before boot |
| | `NoPageTwice`, `NoPageLost`, `MergingComplete` | `BlocksDisjoint`, `PagesConserved`, `FullyMerged`, under the same hypothesis |
| `SlabProofs` | `SlabInvariant` | `SlabSpec => []SlabInv` |
| | `ObjectsHandedOutOnce`, `PointersGoBack`, `PoolsAreWhereTheyBelong` | `ObjectsExact`, `TagsRight`, `ListsExact`, for `LinkedSpec` |
| | `PoolsAreLaidOut` | `LayoutFits`, for every size and alignment |
| | `ListsAreTheirLinks` | `LinksExact`: the links of `list.c` are the lists, for any number of pools and threads |
| `BallocProofs` | `BallocInvariant` | `BallocSpec => []BallocInv` |
| | `TreesStayApart`, `ReservedIsNotHandedOut`, `MemoryHandedOutOnce` | `RangesApart`, `ReservedNotFree`, `FreeMemoryExact` |
| `RbTreeProofs` | `TreeInvariant` | `RbSpec => []RbInv` |
| | `LinksFormTree`, `TreeBalanced`, `WalksInOrder` | `TreeInOrder`, `RedBlack`, `NeighboursRight` |
| | `LoopsEnd` | the action property `RoundsClimb` |
| `FileSystemProofs` | `FsInvariant` | `FsSpec => []FsInv` |
| | `TreeStaysWellFormed`, `SpaceIsUsedUp` | `TreeWellFormed`; `OutOfSpaceMeansFull` where callers keep to `HandledWrite` |

`QueueTheorems` has what these need of sequences and of sets of numbers: what `Append`,
`Tail`, concatenation and removal do to the members of a list without duplicates, where the
places of its entries are after a removal, and that
a set of natural numbers with a member has a least one (from well-foundedness, `WFMin`).
The last is the substitute for induction over data: where a loop of the code is a
recursive function, the proof takes the least round at which the claim would fail
(`StaysIn`), once it is known that such a function exists (`LoopExists`).

### The arguments

*Scheduler.* Exactness of the run queue alone is not inductive: `__schedule()` drops a
popped idle thread and returns to the caller when there is nobody else, so one needs that
only `idle()` sets `idle_thread`, that the boot thread is always runnable
(`MainRunnable`), that a thread's place in the code and its state agree
(`PcMatchesState`), what a join waits for (`JoinTarget`) and that spin locks are held by
the running thread only (`LocksInClient`). One lemma describes a call of `__schedule()`
and serves every action that ends in one. Assumed: `MainNeverBlocks`, the boot thread is
not a client that blocks; `Sync_boot` shows what happens otherwise.

*Mutexes and conditions.* `SyncInv` contains `ThreadsInv`, since whether a wake-up can be
lost depends on who can run between queueing a node and `schedule()`. `OpsMatchScheduler`
ties the place in an operation to the spin locks held and to the scheduler's state,
`ArgsMatchOps` to the mutex and condition it is about; `QueuesMatchOps` says which places
have a node linked on which list and that its owner is `BLOCKED`, `QueuesSound` that nobody
is queued twice or for a mutex that is free. `OutsideInv` covers steps outside operations,
`MoveInv` those that only move on, and a lemma each the steps that change ownership,
queue a node, hand over, signal or broadcast. `ClientStepIsThreadStep` shows that every
step is one the scheduler permits. For the refinement the owner is computed from the
places (`InvOwnerExact`); `MonitorSteps` has the steps that are steps of `Monitor`,
`QuietSteps` the ones that stutter. Assumed: `MainNeverBlocks`, and room for two nested
spin locks, as `condition_wait` calls `mutex_unlock` under its own lock.

*Interrupts.* `NoUnexpectedInterrupt` and the masks say nothing about the next interrupt
unless it is known what `main()` has set up by each stage (`BootOrder`), that the flag
is clear wherever handlers run (`FlagMatchesCode`), and that nothing is in service but an
interrupt on its way to its handler. As updates of the mask race, `LinesHandled` says of every mask there is, the
variable's, the controllers' and those in threads' registers, that it is sound (`MaskSound`):
only lines with a handler are open in it and the timer is not masked; an update changes one
bit of a sound mask, so whichever is written last is sound. `MasksAgree` says what remains of
agreement: a controller has the bit of the variable for every line that is `Settled`, since a
thread whose update overlaps with no other holds the variable's mask up to its own line.

*Slabs.* `SlabInv` says of every pointer that its block is tagged with its cache
(`HeldTagged`), of every block of the page allocator that it has no tag, of every pool
that its bits are the slots callers hold (`SlotsMarked`), and of every list which pools
are on it (`CacheLists`, `SplicedUnused` for what `mem_cache_shrink` took off). A pool
moves between lists in one step of `mem_cache_alloc` or `mem_cache_free`; `PoolMoves` and
`OtherPools` are what these have in common. `LinkedIsSlab` carries the theorems over to
the allocator on top of `list.c`. Assumed: pools of two objects or more, which is what
`PoolsAreLaidOut` proves of the layout. That proof needs of the rounding only that a pool is a
power of two times a page (`ShlIs`, `PageBytes`) and of the division only that what is left
over is less than an object (`ObjCountIs`); `BitmapIs` is the word in which the bitmask ends.

*Lists.* `Agree` says what the lists of `Slab` look like in memory: each is a ring through
its head (`Ring`), and the pools a thread in `mem_cache_shrink` has still to give back are a
path that ends at its head (`Path`). It says nothing of what lies behind them: the loop runs
without the lock, the pool before may be memory of another cache by then, so no ring holds
there. `RingDel`, `RingAdd` and `RingSplice` are the calls of `list.c` on one ring;
`OtherRings` and `OtherPath` show that they do not reach into another, as no pool is on two
lists (`ListsSeparate`, from `SlabInv`). `MoveKept`, `AddKept`, `ShrinkKept`, `DestroyKept`
and `ReleaseKept` put these together for the actions. Two facts about callers are in
`LinksInv` as well: a cache that was released has no object outside (`NoneReleased`), or a
`mem_free` would link a pool to a head that is gone, and `mem_realloc` moves one object at a
time (`MovesOne`). `WalkIs` shows that following `next` from the head meets the list: the walk of the
model is a recursive function, so the proof is by the least round that meets something
else. Assumed: pools, heads and stacks are at different addresses, and there are finitely many blocks.

*Page allocator.* What must hold of blocks is in `Sound`: they begin at multiples of their
sizes, lie in one zone each and share no page. Two such blocks are nested or apart (`Nested`),
so a pair of halves is determined by its place (`IsHalf`, `FloorUnique`) and neither
splitting nor merging needs more than `HalvesUnion`: a block is its two halves. `Truthful` is
why `__page_free_zone()` may trust what it reads of a buddy: the head of a
free block has its flag and its order, and a page with a set flag is in a block, heads none
in use and is aligned to the order it has. A stale flag, from an earlier merging, is hence
inside a larger block, where no buddy of a block in use can be (`BuddyFree`). `Merged` says no two free blocks
are halves of one, which merging keeps because it stops only when a buddy is not free
(`MergeMerged`) and splitting because every upper half it frees has its lower half in use
(`SplitMerged`). The rounds of the code's two loops are a set of orders in the model, so
each is one exchange of blocks (`Exchange`, `MergeReplaces`, `SplitPieces`) and the proof
takes them by the least order at which the claim would fail. While the free ranges are cut
(`Cutting`) only blocks of the current range could yet get a buddy, and `Final` says
why they do not: the block is as large as it can be, its buddy lies below it, or ends
beyond the range. `Taken` is how much of the ranges is in blocks so far. Assumed: ranges of
`memory_map` are apart, so are those of `free_ranges`, and what is free is memory (of `Balloc`,
`RangesApart` says the first two and `FreeMemoryExact` the third, if entries are apart); and `BootFree = {}`, as the flags are not cleared at
boot: `PageAlloc_flags` shows what happens otherwise.

*Kernel mappings.* `kmap` and `kunmap` pass through states in which one range is neither
free nor used; `Sound` therefore has the hole as a parameter, and unlinking, claiming,
joining and linking a range each map `Sound` to `Sound`. Its parts: free ranges are on the
list of their order (`Filed`), both ends of a range tell its length and a range is linked
exactly if it is free (`Tagged`), the ranges tile the area but for the hole
(`Tiled`), no two free ones touch (`Joined`). `BeforeFound` and `AfterFound` are the core:
what `kunmap` reads next to its range leads to a free neighbour exactly if there is one,
because the ranges tile the area; the slots inside a range may hold anything. The area may have any size.

*Red-black tree.* Order and black height are properties of whole subtrees, and the prover has
no induction over them. `RbInv` makes them local: there are bounds `b`, for each node the
nearest nodes above it on either side, and heights `h`, how many black nodes every way down
from it has, such that each node agrees with its own children (`Shape`, `Balanced`). That
such `b` and `h` exist is the invariant. A rotation then changes the bounds of two nodes
(`TurnShape`) and the heights of two (`SwapBalanced`, `SettleBalanced`); a new leaf halves the
gap it is put in (`AttachShape`); a node with one child is replaced by it (`SpliceShape`),
and one with two by the next in order, which takes over its bounds (`RenameShape`,
`UnlinkNear`, `UnlinkFar`). In the middle of a call `Inserting` says that only the node
`rb_insert()` is at may be red below a red parent or at the root, `Erasing` that only the ways
through the node `rb_erase_fix()` is at have a black node too few; from that follows that the
brother and its children that the code reads without a test are there (`Grandparent`,
`BrotherIs`). Each round is then a composition of the lemmas above. Three arguments take the
place of induction: bounds get strictly wider on the way up (`ParentWider`), so a walk along
parents ends at the root within `N` links (`UpWalk`, `RootOver`) and one down ends too
(`DownWalk`); that the black nodes on the way to a node are the height of the root less that
of the node is shown for the node with the widest bounds for which it would fail (`BlackIs`); and
`rb_next()` finds the end of its climb at the node that is the bound (`FirstTurnIs`).
`LoopsEnd` counts the nodes above the place of the loop (`Rank`). Assumed: nothing but that
`N` is a natural number. Null links that the code would follow are excluded by the same
invariant.

*Boot allocator.* `BallocInv` follows `balloc_parse_mmap()`: while entries are added
(`Adding`) the trees hold what the entries so far list, while they are removed
(`Removing`) free memory is that less the reserved entries so far; then come the two
properties themselves. `Ordered` and `NodesConserved` hold throughout. `AddEffect` says what
adding a range does to the order and the bytes of a tree, also when it joins neighbours on
both sides; `CutOutEffect` and `CutOutBytes` the same for one range cut; `RemoveEffect`
puts the rounds of a removal together, by the least round that would be wrong. Assumed: no
entry of the memory map is empty or reversed and no request is for zero bytes, as
`balloc.c` has no test for either.

*File system.* `find_node` adds a node only where no child answers to the name. That no
other node has its path follows only if every node is a child of the directory its path
names (`IsTree`): the node with that path would be in the very list that was searched.
`ParentFound` shows that the walk over a path ends at a directory or in a BUG_ON, and
`WriteRound`, `RunWriteIn` that nested calls of `write_to_block` stay among the blocks,
also for the calls the code gets wrong. `OutOfSpaceMeansFull` needs more than the free
list: `SpaceKept` says that while callers keep to `HandledWrite` no link is ever changed, that
the blocks off the free list are the first blocks of files, and hence that a file of
several blocks, which is then the only one, finds the links of boot under it: every nested
call lies inside a block the links reach, or begins with one and ends before they do (`Fits`,
`HandledFits`, `FittingRound`). An empty file that was written to counts with its block
(`BlocksOf`). Assumed: the constant `Contract`, under which callers do keep to `HandledWrite`;
`FileSystem_shared` shows the file system without it.

The theorems about `FileSystem`, `Kmap` and `Ints` are about their own specifications,
in which calls come in any order; `Initramfs` and `Boot` use their actions.

### Only model-checked

- Liveness, everywhere: fairness and ENABLED are beyond the prover.
- What recursive definitions compute: `PageTables`, hence `MappingExact` and `TlbFresh` of
  `Boot`. The parts of `Boot` about ranges and interrupts are proved in `Kmap` and `Ints`.
- `Initramfs` (`ArchiveLoaded`) and the refinement of `FileStore`: the bytes of a file are
  defined by a walk along links while the archive is read by computed addresses, and the
  refinement holds within the limits of `HandledWrite` and `HandledRead` only.

## Not modelled

- Console output, string helpers, formatting and back traces (`print.c`, `serial.c`,
  `string.c`, `stdlib.c`, `ctype.c`, `backtrace.c`): pure functions and port output without
  state another part reads.
- The assembly that boots the processor or saves registers, and generated interrupt entries.
- The encoding of IDT entries, handlers of CPU exceptions (none is registered), spurious
  requests of the controllers and the programming of the timer's frequency.
- `pt_count_pages` (`paging.c:48-83`), which nothing calls: it takes the end as excluded and
  looks at alignment once per table, where the mapping takes it as included and looks once
  per entry, so its count is not the number of tables a mapping uses.
- The memory behind a directory's array of children when it is one over its limit
  (`file_system.c:181`): the model halts where the code does.
- The tests of the allocators in `main.c`: their modules allow every sequence of calls.

## Plan

Done: scheduler, synchronisation, file system and initramfs, the allocators, tree and
lists, mappings and page tables, interrupts and the start-up order; the safety theorems
of scheduler, synchronisation with its refinement of `Monitor`, interrupts, slabs with their
layout and the links of their lists, kernel mappings, the page allocator, the boot
allocator, the red-black tree and the file system.

Next, in this order:

1. `FileStore`: the refinement under `HandledWrite` and `HandledRead`, with the files of one block first.
2. Composition of `Slab` with `PageAlloc` in place of the set of blocks, and of `Balloc`
   with `RbTree`.
