# simpledb: TLA+ models

TLA+ specifications of the storage layer of simpledb, checked with TLC.
`PROJECT.json` is the machine-readable index: components, runs, the mutant of
every property, the source lines every definition models, findings, hazards.

## 1. The system

| part | source | state | operations |
|---|---|---|---|
| buffer manager | `src/buffer_manager.cc`, `buffer_manager.h` | page table `pid -> BufferFrame` (state, dirty bit, data, page latch, loading latch), FIFO list, LRU list, three container latches, segment files | `fix_page`, `unfix_page`, `getBufferFrame`, `loadPage`, `insertBufferFrame`, `lockEvictableFrame`, `updateLru`, `flushPage`, `getSegmentData`, constructor, destructor |
| B+tree nodes | `btree.h` 15-242 | `level`, `count`, sorted `keys`, `values` or `children` | `lower_bound`, leaf `insert`, `erase`, `split`, inner `insert_split`, `split` |
| B+tree | `btree.h` 244-498 | `root`, `nodeCount`, `treeHeight`, the node pages | `lookup`, `insert`, `erase`, `grow_root`, `create_new_node`, constructor |
| branchless lower bound | `binary_search.h` | loop variables `l`, `i` | `lower_bound_branchless` |
| segment files | `src/buffer_manager.cc` 91-128, 278-291 | per segment a file (open or not, its size) and a latch | `getSegmentData`, `flushPage` |
| slotted page | `src/slotted_page.cc` | header (slot count, first free slot, data start, free space), slots | `allocate`, `relocate`, `erase`, `compactify` |
| free-space inventory | `src/fsi_segment.cc` | 4-bit entries per page, `free_cache[16]` | `encode_free_space`, `decode_free_space`, `update`, `find`, `update_free_cache` |
| slotted-page segment | `src/sp_segment.cc` | pages of records, redirect slots | `allocate`, `read`, `write`, `resize`, `erase` |
| schema, database | `schema.h`, `database.h` | table descriptions | none that changes shared state |
| tests | `test/btree_test.cc` | | drive the tree with 1 and 36 threads over a buffer of 100 pages |

How the parts interact. Every page access of the tree and of the segments goes
through `fix_page` / `unfix_page`: `fix_page` returns a frame with its page
latch held (shared or exclusive) and the page in memory, `unfix_page` sets the
dirty bit and releases the latch. The tree descends with latch coupling: it
fixes a child while the parent is still fixed. The slotted-page segment asks
the free-space inventory for a page, fixes it and works on the slotted page
inside the frame; one call changes up to three slotted pages and tells the
inventory of each. Threads meet in three places only: the buffer manager's
containers and latches, the segment files below it, and the tree's `root`,
`treeHeight`, `nodeCount`. The segments have no latch of their own
(`free_cache` and `allocated_pages` are plain members) and nothing in the
repository calls them from two threads: they are modelled with one caller.

What is hard. (a) In the buffer manager, several threads load, promote and
evict at once; decisions are taken on state read before the latch that protects
it is held (the page table between the shared and the exclusive lookup, the
frame state before the list latches); eviction runs with the victim already
out of the lists and the new frame already in; a load may fail while others
wait for it. (b) In the tree, a descent reads `root` and `treeHeight` without a
latch, upgrades from an optimistic shared descent to an exclusive one by
restarting, splits nodes while readers are on their way down, and keeps no
record of what to release when `fix_page` throws. (c) In the pure code, index
arithmetic at the boundaries (empty node, one key, full node, the last child;
the seam between the logarithmic and the linear half of the free-space
encoding; a page whose free space is exactly what is asked for). (d) In the
segments, state kept twice: the free space of a page is in its header, in
four bits of the inventory and behind `free_cache`, a record is where its TID
says or where a redirect says, and one call must leave all of them agreeing.
(e) `getSegmentData` tests the file without its latch and again under it.

What must hold.

* Buffer manager: the queues and the frame states agree; never more than
  `pageCount` pages resident; a fixed page stays resident; an evicted dirty
  page is written back and a reload sees the last write; latches are held
  exactly by the code paths that hold them and none is leaked; calls complete.
* Tree: it behaves as a map from keys to values (an insert is visible to every
  later lookup, an erase removes, nothing else changes); keys are sorted in
  every node and the separators bound the subtrees; `root` changes only by
  growing and `treeHeight` is the root's level plus one; a finished operation
  holds no latch.
* `lower_bound_branchless` returns the first index whose element is not less
  than the value, for every sorted input.
* Segment files: a block is read or written inside an open file that covers it.
* Slotted page: `free_space` is what is free, records do not overlap each
  other or the slot array, `first_free_slot` is the first empty slot.
* Inventory: four bits never promise more than a page has; `free_cache` names
  the earliest page of every encoding; `find` misses no page.
* SP segment: the inventory is true of the pages after every call; `allocate`
  never picks a page that is too full; every record is found behind its TID
  with its length; every fixed page is unfixed; every call returns.

## 2. Modules

| module | models | checked by |
|---|---|---|
| `Latch` | `std::shared_mutex` as a value: its writer and its readers | used by the two below |
| `BufferManager` | the buffer manager, thread by thread and latch by latch | `buffer_*` |
| `MCBufferManager` | its instance for TLC (symmetry of the threads) | `buffer_progress` |
| `MCBufferFile` | `BufferManager` and `SegmentFile`, each on its own, in one run | `buffer_safety` |
| `BinarySearch` | `lower_bound_branchless` as a recursive operator | through `LowerBound`, `BTree` |
| `LowerBound` | the same loop as a state machine, one step per iteration | `btree_sequential` |
| `BTreeNode` | the node operations as operators on records of sequences | through `BTree` |
| `BTree` | `lookup`, `insert`, `erase`, `grow_root` of several threads | `btree_*` |
| `KVMap` | the abstract map the tree promises | `ImplementsMap` |
| `MCBTree` | the instance of `BTree` for TLC (symmetry of threads and values) | `btree_safety`, `btree_progress`, `btree_throw_*` |
| `MCBTreeSearch` | `BTree` of one thread and `LowerBound`, each on its own, in one run | `btree_sequential` |
| `SegmentFile` | `getSegmentData` and `flushPage` on one segment, test by test | `buffer_safety` |
| `SlottedPage` | the page operations as functions from page to page, and one page under any calls | `pages`, through `SPSegment` |
| `FSISegment` | the encoding, the nibbles, `free_cache`, and the inventory under any updates | `pages`, through `SPSegment` |
| `MCPages` | `FSISegment` and `SlottedPage` each on its own, in one run | `pages` |
| `SPSegment` | `allocate`, `read`, `write`, `resize`, `erase` over the two | `sps_*` |
| `MCSPSegment` | its instance for TLC | |

`MCBufferFile`, `MCBTreeSearch` and `MCPages` each check two modules in one
run. The two do not share state: `BufferManager` takes the read and the
write-back of a page as one step on `disk`, and `SegmentFile` is what happens
inside that step; `BTreeNode` takes the search as one operator, and
`LowerBound` is the loop inside it. A variable `part` chooses in the initial
state which of the two runs, the other stays at rest, and the states of the
run are the sum of the two (`buffer_safety`: 1,171,679 of the pool and
144,290 of the file; `btree_sequential`: 486,092 of the tree and 7,556 of the
search). Every property is about one part.

Definitions named `...` with a comment `fault:` are not part of any
specification. Each is a definition as a plausible mistake would have written
it; the properties are tested against them (section 3, "Mutants").

### BufferManager

State. `frame` is the page table; a frame is a record of `pageState`,
`isDirty`, `data`, `pageLatch` (a record of the writer and the set of readers
of a `std::shared_mutex`) and `loadingLatch` (the owner of the `std::mutex`).
`fifoList`, `lruList` are sequences of page ids with their latches. `disk` is
the content of the segment files. `pc[t]`, `call[t]`, `victim[t]`, `scan[t]`
are the program counter and the locals of thread `t` inside `fix_page`;
`fixed[t]` are the frames it got from `fix_page` and has not unfixed.

Data abstraction. A copy of a page (in a frame or on disk) is `"fresh"` if it
holds the last write made under an exclusive fix and `"stale"` if not; a write
makes every other copy stale. `data` is `"nullptr"`, a content, or `"freed"`
(the dangling pointer eviction leaves).

Actions. One action per latch acquisition and per critical section of
`fix_page` (`FixPage`, `InsertFrame`, `LockPage`, `ReadState`,
`PromoteLockFifo`, `Promote`, `TouchLru`, `LoadPage`, `InsertLockFifo`,
`CheckSpace`, `ScanFifo`, `ScanFifoEnd`, `ScanLru`, `LoadFailed`, `Evict`
(with `EvictedFrame` for the victim of either queue),
`ReadPage`, `WaitLoading`, `CheckLoaded`), `UnfixPage`, the caller's
`WritePage`, `Construct` and `Destroy`. A step that takes a latch is enabled
only if the latch is free, so a blocked thread is a disabled action. Each
`try_lock` of `lockEvictableFrame` is a step of its own, since other threads
release page latches between two of them. Code that runs under one latch and
blocks on nothing is one step. The two critical sections of the page table
latch are such steps, which is why that latch is not a variable.

Callers. A thread keeps at most `MaxFixed` pages fixed and fixes pages in
increasing page id order, the order of a tree descent (parent before child).
Without an order two callers can wait for each other's page latch; that is a
property of the callers, not of the buffer manager.

Latch semantics. `unlock()` on a shared hold (`unfix_page`, the error paths of
`fix_page`) is modelled as releasing the caller's hold, the behaviour of
`pthread_rwlock_unlock` under libstdc++.

### LowerBound and BinarySearch

`LowerBound` runs the loop of `binary_search.h` on `a` (a sorted sequence), and
`val`: `Enter` is lines 9-12 (the length and the early return for an empty
range), `Iterate` one pass of the `while` (the probe of `a[i + half]`, the
update of `i`, `l -= half`), `Exit` the last comparison. Positions count from
0 as in the code, so element `i` of the code is `a[i + 1]`. `BinarySearch`
gives the same computation as the operator `LowerBoundBranchless`, built from
the same `Continues`, `Probed`, `Rest` and `Finished`; the node operations
call it. `probes` counts the iterations; it is a history variable that no
action reads. `Returned` is the call that has returned: a step that changes
nothing, so that the end of a call is not taken for a deadlock.

### BTreeNode

A node is a record: `[level, keys, values]` for a leaf, `[level, keys,
children]` for an inner node. The arrays of the page are sequences of the
entries in use, so `count` is `Len(values)` or `Len(children)`; what the code
leaves behind the count (stale keys after a split or an erase) is not kept,
because no code path reads it. `LeafInsert`, `LeafErase`, `InsertSplit`,
`LeafSplit`, `InnerSplit` return the node (or the two halves and the
separator) that the `memmove`s and loops of the code produce.

### BTree

State. `page[p]` is the node in page `p`, `latch[p]` its page latch,
`disk[p]` the copy it would be reloaded from. `root`, `treeHeight`,
`nodeCount` are the tree's members. Per thread: `pc`, the operation `op`,
insert's `exclusive`, the `mode` of the `fix_page` it is about to call,
`parentFrame`, `currentFrame`, `rightFrame`, and the `result` of its last
lookup.

The buffer manager below the tree. The tree uses `fix_page` and `unfix_page`
only. `BufferManager` establishes that a fixed page stays resident, that a
fixer sees the last write, and that latches are held by exactly the fixers; so
here a fixed page is a held latch and `page[p]` is what was last written.
What the tree owes the buffer manager is the dirty flag: `unfix_page(frame,
true)` copies the page to `disk`, `unfix_page(frame, false)` does not, as if
every page were evicted the moment it is unfixed.

Steps. A step of a thread ends where another thread can make a difference:

| action | code |
|---|---|
| `Call` | entry of `lookup`, `insert`, `erase` |
| `ReadRoot` | `rootPid = root` (no latch held) |
| `ReadHeight` | the read of `treeHeight` in the root's mode (insert, erase; skipped when `exclusive`) |
| `FixRoot` | `fix_page(rootPid, mode)` and the `root != rootPid` restart |
| `Descend` | `lower_bound`, unfix of the grandparent, the child's mode |
| `FixChild` | `fix_page(child, mode)` |
| `FullNode` | a full node met by insert: `RestartExclusive`, `SplitBelowParent`, or `SplitRoot` (the split and `grow_root` up to `root = pid`) |
| `PublishHeight` | `++treeHeight`, the three unfixes, restart |
| `Leaf` | `LookupLeaf`, `EraseLeaf`, `InsertLeaf`, the unfixes, return |
| `DescentThrows`, `SplitThrows`, `GrowRootThrows` | a `fix_page` throws `buffer_full_error` (only in `SpecWithThrow`) |

The page of a split's right half and the page of a new root are fixed inside
the step that creates them: nobody else knows their ids, so their `fix_page`
cannot block. `root = pid` and `++treeHeight` are two steps because both are
read without a latch.

`root` is a plain `uint64_t` read and written concurrently. The targets of the
build store an aligned 8-byte word whole, and every read is separated from the
next by a call into the buffer manager, so a read returns the old or the new
root; this is the choice `ReadRoot` has.

### KVMap

`map` (a function from keys to values or `None`), `pending[t]`, `ret[t]`;
`Call` records an operation and `Return` performs it in one step. `BTree`
instantiates it with `map <- Contents` (the entries of the leaves reachable
from `root`, found by walking the children, not by searching), `pending <-
op`, `ret <- result`. The step of the tree that is the operation is `Leaf`;
every other step must leave `Contents` unchanged.

### SegmentFile

`file` is `seg.first` (open or not, size in pages), `latch` is `seg.second`.
`getSegmentData` is the steps `CheckOpen` and `CheckSize` (the two tests made
without the latch), `Lock` / `LockShared`, `Open` and `Resize` (the second
test and the change, under the exclusive latch), `ReadBlock`; `flushPage` is
`LockShared` and `WriteBlock`. `loaded` is the set of pages that have been
read, since only a loaded page is ever flushed. The unlatched read of the
`unique_ptr` is a data race in the code; the model reads it whole, which is
what the builds in use do with a pointer.

### SlottedPage

A page is a record of the header's fields and the slot array; a slot is a
record `[kind, offset, size, tid]`. `Slot` is declared in `slotted_page.h`,
which is not among the sources, so the slot operations are modelled from the
calls made on them. `allocate`, `relocate`, `erase`, `compactify` are
operators that return the page the code leaves (`allocate` also the slot),
including the compaction `allocate` and `relocate` run first when the gap
below `data_start` is too small, and the trimming of empty slots at the end
by `erase`. The asserts of the code are the guards `CanAllocate` and
`CanRelocate` of the actions. Bytes of records are not kept.

### FSISegment

`fsi` is the byte array of the FSI pages (two pages to a byte), `free_cache`
the sixteen cached page ids, `reported` what the owner of the pages last
passed to `update`. The float arithmetic of `encode_free_space` and
`decode_free_space` depends on seven numbers only, `ceil(2^(i * log_factor))`
for `i` in 1..7; they are the constant `PowTable`. `encode_free_space(0)`
casts minus infinity to `uint8_t`, which is undefined; it is taken as 0, the
low byte the conversion instructions of x86-64 and AArch64 leave. `Init` is
the constructor run over any inventory of up to `MaxPages` pages, `update`
and `NewPage` are the two ways `SPSegment` calls `update` (`NewPage` after
`++allocated_pages`).

### SPSegment

State. `pages`, the inventory (`fsi`, `free_cache`, `allocated_pages`),
`records` (what the caller knows: TID to length), `fixed` (pages the caller
has left fixed) and `blocked`.

An operation is one step: there is one caller, and nothing else runs. The
operators `Allocation`, `Resizing` and `Erasing` compute the segment a call
leaves, with the pages it fixes on the way. `Allocation` is `find`, the look
at the page found, the second `find` with the next encoding when that page is
too full (the four bits round down), a new page when there is none.
`Resizing` grows or shrinks the record where it is, or allocates a redirect
target and turns the slot into a redirect, or moves an existing target.
`Erasing` erases the record and the slot in front of it.

What is kept of the buffer manager is which pages are fixed. A call that
fixes a page that is already fixed exclusively (by an earlier call that
returned without `unfix_page`, or by the call itself) does not come back:
`std::shared_mutex` blocks or throws, and `blocked` becomes true. `resize`
keeps the pages of the record fixed exclusively while it calls `allocate`
(`own` in `Resizing`).

`NextCareful` is every call a caller makes with the TIDs it holds. `Next`
adds the two calls whose early return leaves a page fixed: `read` of an
erased TID (line 86) and `resize` to the length the record has (line 149).

`Evicted` is what line 235 of `erase` may read: `page->get_free_space()`
there is a read through a frame that was unfixed at line 223, with two
`fix_page` calls in between. While the pool holds the frame it reads the
header; once the frame was evicted it reads freed memory. `Evicted = {}` is
a pool that never evicts the frame; a member of `Evicted` is a value freed
memory may hold.

A redirect slot is taken to report size 0 (`Slot` is not among the sources);
with any other size the free space `resize` and `erase` add would be wrong.

## 3. Runs

| run | cfg | result | shows |
|---|---|---|---|
| `buffer_safety` | `MCBufferFile.cfg` | pass, 1,315,969 states | the invariants below, the action property, no deadlock; blocks are read and written inside the file |
| `buffer_progress` | `MCBufferManagerLive.cfg` | pass, 37,092 states | `SomeCallCompletes` |
| `btree_safety` | `MCBTree.cfg` | pass, 781,350 states | structure, latches, dirty flags, refinement of `KVMap`, no deadlock; two threads |
| `btree_sequential` | `MCBTreeSearch.cfg` | pass, 493,648 states | structure and refinement with leaves of 3 entries, through inner splits below a parent; one thread. The search of a node: its result is the lower bound, after the probes of a binary search |
| `btree_progress` | `MCBTreeLive.cfg` | pass, 349,392 states | `SomeOperationCompletes`, through splits below a parent; two threads |
| `btree_throw_latches` | `MCBTreeThrowLatch.cfg` | violation | a throw leaves latches held |
| `btree_throw_lost` | `MCBTreeThrowLost.cfg` | violation | a throw in `grow_root` loses the upper half of the root |
| `pages` | `MCPages.cfg` | pass, 240,812 states | the inventory and the slotted page, each on its own |
| `sps_segment` | `MCSPSegment.cfg` | pass, 161,478 states | inventory, pages and records agree after every call |
| `sps_fix_balance` | `MCSPSegmentFixed.cfg` | violation | `resize` to the same length returns with the page fixed |
| `sps_self_deadlock` | `MCSPSegmentBlocked.cfg` | violation | `resize` waits for a page it holds itself |
| `sps_stale_read` | `MCSPSegmentStale.cfg` | violation | `erase` reads a page header after the page was unfixed |

Further configurations, kept beside the runs and run the same way
(`tlc -config X.cfg M`); what they show is under "Further observations":

| cfg | module | result |
|---|---|---|
| `MCBufferManagerNull.cfg` | `MCBufferManager` | `DataNullUnlessLoaded` violated |
| `MCLowerBound.cfg` | `LowerBound` | pass, 7,556 states: the four properties of the search and `Returns` under `FairSpec` |
| `MCBTreeEven.cfg` | `MCBTree` | pass, 455,608 states: `TreeWellFormed`, `ImplementsMap` with inner nodes of 4 children, one thread |
| `MCBTreeThrow.cfg` | `MCBTree` | pass, 1,667,510 states: `TreeWellFormed` under `SpecWithThrow` |
| `MCBTreeRootLast.cfg` | `MCBTree` | `RootPublishedLast` violated |
| `MCSPSegmentEarly.cfg` | `MCSPSegment` | pass, 4,847 states: `InventoryMatchesPages`, `RecordsKept` under `Spec`, two records |

### Buffer manager

Properties of `buffer_safety`:

* `QueuesConsistent`: no frame queued twice; a frame in a list has that list's
  state (or is being loaded); a frame with a list's state is in the list or in
  the hands of its evictor; exactly the loaded frames own a buffer.
* `ResidentWithinCapacity`: list sizes and live buffers never exceed `pageCount`.
* `FixedPagesResident`: a frame returned by `fix_page` stays loaded until unfixed.
* `NoLostUpdate`: what a fixer would see of a page is the last write, across
  eviction, reload and destructor/constructor.
* `LatchesAccounted`: every latch is held by exactly the threads whose program
  counter or fixed set says so, and writers exclude everybody else.
* `NoInvalidLoadingState`: `loadPage` cannot meet `LOADING` with a free latch.
* `DirtyUntilFlushed` (action property): a step clears a dirty bit only if it
  writes the page back.
* `PartsTypeOK`: the types of both parts of the run.
* `BlocksInsideFile`: see "Segment file" below.

Bounds. `Threads = {t1, t2}`, `NumPages = 3`, `PageCount = 2`, `MaxFixed = 2`:
three pages compete for two frames, so that the buffer is full, both lists are
scanned, a thread holding two pages makes another thread's load fail, and two
threads load, wait for and promote the same page. `buffer_progress` uses two
pages and one frame, the smallest buffer in which scans, evictions and failed
loads all occur; the large configuration also passes but takes over four
minutes. Threads are a symmetry set in the safety runs (they are
interchangeable; pages are not, because they are fixed in order).
`buffer_safety` has the segment file as its second part, with threads and
pages of its own (`FileThreads`, `FilePages`); the threads of the file are not
a symmetry set.

Fairness. `FairSpec` assumes weak fairness of `Step(t)` for every thread: a
thread that can run inside `fix_page` eventually runs. This is what an
operating-system scheduler gives. Nothing is assumed of the order in which
waiters get a latch (`std::shared_mutex` and `std::mutex` promise none), so
the property is that *some* call completes, not that every call does; and
nothing is assumed of the callers, who may keep pages fixed for ever.

### Lower bound

* `AnswerInWindow`: in the loop, the window `[i, i + l]` lies inside the array
  and holds the answer, and the element at `i`, unless `i` is 0, is less than
  `val`.
* `ResultIsLowerBound`: at the return, `i` is the first index whose element is
  not less than `val` (`FirstNotLess`, the definition, found by `CHOOSE`).
* `TypeOK`: besides the types, `i` is an index of the array whenever the loop
  is about to read `a[i + half]`.
* `ProbesAreLogarithmic`: on a range of `n > 0` elements the loop has run
  fewer than `log2 n + 1` times at every state and at least `log2 n` times
  when the call returns (`2^probes < 2n`, and `2^probes >= n` at the end): the
  window is halved, rounded up, by every iteration, and the loop neither
  stops early nor runs on. A loop that never ends breaks the first half.

These are properties of `btree_sequential`, whose second part is the search.
`Returns` (`pc = "entry" ~> pc = "done"` under weak fairness of `Next`, a
running function keeps running) is checked by `MCLowerBound.cfg` on
`LowerBound` alone: TLC checks liveness without symmetry, which the tree of
`btree_sequential` needs.

Bounds. Arrays of length 0 to 7 over 4 keys: all lengths at which `l / 2`
rounds differently along the way (1, 2, 3, 5, 6, 7 and the power of two 4),
duplicates, and keys below, between and above the elements. The nodes of the
tree's instances hold at most 3 keys, which is why the search is also run on
its own.

### B+tree

* `TreeWellFormed`: every node reachable from `root` is an allocated page, is
  within capacity, has strictly increasing keys, one key fewer than children
  if inner, children one level below, and all keys of child `i` between the
  separators around it.
* `HeightTracksRoot`: `treeHeight` is the root's level plus one, except
  between the two stores of `grow_root`.
* `LatchesMatchDescent`: each page latch is held by exactly the threads whose
  program counter and frame variables say so: current node and parent, three
  pages in a root growth, none at a return or a restart.
* `WritesUnderExclusiveLatch` (action property): no step changes a page whose
  latch has no writer, new pages excepted.
* `WritesReachDisk`: a page whose latch is free equals its disk copy, i.e.
  every write was unfixed dirty.
* `ImplementsMap`: `KV!Spec`, the refinement of `KVMap`.
* `SomeOperationCompletes`: from a state in which all threads are inside an
  operation, one of them returns.
* `FailureChangesNothing` (action property, violated): the step in which
  `fix_page` throws leaves the entries of the tree as they were.
* `NoLatchAfterThrow` (violated): a thread that an exception has left holds
  no latch.
* `TypeOK` (`PartsTypeOK` in `btree_sequential`, with the types of the
  search).

Bounds. Leaves of 2 entries and inner nodes of 3 children are the smallest
capacities at which a split leaves both halves non-empty and a new root is not
full again. `Keys` are integers because the tree orders them. No page is ever
freed and a leaf splits only while its range holds enough keys to fill it, so
the tree is bounded by the keys, and `MaxNodes` is chosen above what they
reach, so that the guard `nodeCount < MaxNodes` of the splits never decides
anything.

* `btree_safety`: two threads, keys 1..3, leaves of 2, inner nodes of 3. The
  tree reaches 6 pages and height 3: root growth from a leaf and from an inner
  node, a leaf split below a parent. One value; with two, the two threads
  reach several million states.
* `btree_sequential`: one thread, keys 1..5, two values, leaves of 3, inner
  nodes of 3. `split` gives `count / 2` entries to the new node, so a leaf of
  3 splits into 2 and 1 where a leaf of 2 splits into 1 and 1, and an inner
  node of 3 children leaves a right node of one child and no key; both
  parities are met. The tree reaches 10 pages and height 4, through splits of
  inner nodes below a parent, and entries are overwritten with another value.
* `btree_progress`: two threads, keys 1..3, leaves of 2, inner nodes of 3,
  and the calls `ProgressOperations`: every lookup, every insert, and the
  erase of the smallest key. With two keys a tree never has a full node below
  a parent, and progress through `SplitBelowParent` would not be checked;
  with three keys and every erase the liveness check takes over three
  minutes. One erased key is enough to empty leaves and to fill them again
  while the other thread descends.

Inner nodes of an even capacity are in `MCBTreeEven.cfg` (one thread, keys
1..5, leaves of 2, inner nodes of 4): the root is split with 4 children and
the tree reaches height 3. An inner node of 4 children below a parent is not
reached with five keys, and with six the run does not end within five
minutes.
Threads and values are symmetry sets in the safety runs; the liveness run
uses none.

Deadlock is checked in `btree_safety`, `btree_sequential` and
`btree_progress`. In the runs of `SpecWithThrow` a thread that an exception
has left is never heard of again and the other may wait for its latches for
ever, so these runs do not check deadlock.

Fairness. As for the buffer manager: weak fairness of each thread's `Step`,
nothing about which waiter gets a latch. A thread that waits for a latch other
threads take again and again may starve, in the model as with
`std::shared_mutex`; the property is therefore about some operation.

### Segment file

* `BlocksInsideFile`: when `read_block` or `write_block` runs, the file is
  open and covers the page, whatever other threads did between the unlatched
  tests and the block operation.

It is a property of `buffer_safety`, whose second part is the segment file;
the types of the file (with them: the file never grows past the pages asked
for) are in `PartsTypeOK`.

Bounds. Three threads and three pages: one thread opens the file while a
second has seen it missing and a third resizes it; a thread that saw the file
too short for page 0 resizes after another grew it for page 2. Deadlock is
checked: a thread takes one latch at a time.

### Inventory and slotted page (`pages`)

* `CacheIsEarliest`: `free_cache[e]` is the earliest page whose four bits are
  `e`, and `invalidPid` exactly when there is none. `update_free_cache` looks
  only at the pages after the one that changed.
* `EncodingBracketsSpace`: `decode(e) <= free space < decode(e + 1)` for the
  four bits `e` of every page.
* `FindIsComplete`: `find` returns no page only when no page has an encoding
  at or above the one required.
* `PageFreeSpaceAccounted`: `free_space` is the page less header, slots and
  records.
* `PageDataDisjoint`: records lie between `data_start` and the end of the
  page, share no byte, and the slot array ends at or below `data_start`.
* `PageFirstFreeSlotIsFree`: `first_free_slot` is the first empty slot or
  `slot_count`, and no empty slot is the last one.
* `TypeOK` of both.

Bounds. Pages of 1024 bytes, the size `Database` uses, with the header of 12
and the slot of 8 bytes. Inventory: 4 pages (both nibbles of two bytes) and
13 free spaces, the two sides of every boundary where the encoding could be
off by one: 0 to 3, 430 and 431 (the last power), 511 and 512 (the seam of
the two halves), 519 and 520 (8 * 65), 974 and 975 (15 * 65), 1012 (an empty
page). Every inventory over these is an initial state, since the constructor
may meet any. Slotted page: 3 slots and record sizes 0, 100, 300 and 500, so
that a page fills up, a record grows into a hole that only compaction makes,
a slot in the middle is reused and slots at the end are given back. The two
parts do not interact here; a behaviour is one of the inventory or one of the
page (`part`), and the states are the sum of the two.

### SP segment

* `InventoryMatchesPages`: the four bits of every allocated page encode the
  `free_space` of its header, and `free_cache` is right, after every call.
* `AllocateFits`: the page `allocate` would choose has room, for every size:
  the assert of `SlottedPage::allocate` cannot fail.
* `RecordsKept`: the caller's TIDs are exactly the record and redirect slots;
  behind each there is a record of the length last asked for; every redirect
  leads to a redirect target and every target has exactly one redirect.
* `PagesWellFormed`: the three page properties above, for every page of the
  segment, also where `SPSegment` writes header and slot itself.
* `TypeOK`.
* `NoPageLeftFixed` (violated): the caller has no page fixed between calls.
* `NeverBlocked` (violated): no call waits for ever.
* `InventoryMatchesPages` with `Evicted = {0}` (violated, `sps_stale_read`):
  the same invariant when the frame read at line 235 may have been evicted.

Bounds. 3 pages of 1024 bytes with 2 slots each, records of 200 and 600
bytes, at most 3 records. A page takes a 600 and a 200 but not two 600s, so
a record that grows from 200 to 600 beside a 600 moves to another page
(redirect), grows again there or moves on (the redirect is retargeted and
the old target erased), and shrinks back; a page with two records of 200 has 596
bytes left, which has the encoding of the 608 bytes a record of 600 needs:
the case the retry of `allocate` is for. `MaxSlots` cuts off the fourth record of 200 on one page; it bounds
the pages, not the calls. Three records are needed for a redirect to be
retargeted while another record takes the room it left.

`sps_segment` and `sps_self_deadlock` run `SpecCareful` with `Evicted = {}`.
`sps_stale_read` runs `SpecCareful` with two records and `Evicted = {0}`.
`sps_fix_balance` runs `Spec`, with two records. Under `Spec` with three records the same five
invariants hold (about 1.2 million states, four minutes); `MCSPSegmentEarly.cfg` is
the instance with two records.

Deadlock is not checked: a blocked caller is a state without successor, and
so is a segment whose pages are full. No liveness is claimed; the only thing
a call waits for is a page latch, and `NeverBlocked` says it never should.

### Mutants

`PROJECT.json` names, for every property of every passing run, a definition
and its faulty form; TLC finds the property violated when the one is replaced
by the other. Examples: without the second look at `root` (`RootTrusted`) an
insert lands in the lower half of a root split under it and `ImplementsMap`
fails; a restart that keeps the parent fixed (`RestartKeepsParent`) breaks
`LatchesMatchDescent`; a restart that forgets `exclusive = true`
(`RestartShared`) breaks `SomeOperationCompletes`; `ProbedEarly` (probing
`a[i + half - 1]`) breaks `AnswerInWindow`; a loop that runs while anything
is left of the range (`ContinuesWhileNonEmpty`) breaks `ProbesAreLogarithmic`;
a resize to what the caller needs without the second test
(`ResizedUnchecked`) breaks `BlocksInsideFile`; a divisor of `page_size / 16`
without the `+ 1` (`EncodeLinearTight`) breaks `EncodingBracketsSpace` at 512;
a second search from the same encoding (`SameEncoding`) breaks `AllocateFits`;
a retargeted redirect whose old target stays (`RetargetedKeepsOld`) breaks
`RecordsKept`.

## 4. Findings

Findings of the runs:

* `btree.h:320, 367, 419, 448, 470`: the tree operations have no handler
  around `fix_page`. When it throws `buffer_full_error` while a parent (or a
  node being split) is fixed, the latch is never released
  (`btree_throw_latches`), against "the tree holds no latches on exit". Every
  later descent through that page blocks.
* `btree.h:276`: `insert` splits a full root in place before `grow_root`
  fixes the page of the new root. If that `fix_page` throws, `root` still
  names the old root, the upper half is in a page nothing points to and its
  entries are gone (`btree_throw_lost`), against "partial tree operations ...
  leave the tree logically unchanged". The tree that remains is well formed
  (`MCBTreeThrow.cfg`).
* `sp_segment.cc:149` (and `:86`): `resize` to the length the record already
  has returns without `unfix_page`, the page fixed exclusively; `read` of an
  erased TID returns 0 with the page fixed shared (`sps_fix_balance`, 2
  calls). The next exclusive fix of that page, by any call, does not return.
* `sp_segment.cc:159, 190`: `resize` calls `allocate` while it holds the page
  of the slot (and the page of the old target) exclusively, and `allocate`
  fixes whatever page the inventory names. `sps_self_deadlock` (7 calls):
  records A (200) and B (600) share page 0; A grows to 600 and moves to page
  1 behind a redirect; A shrinks to 200; C (600) is allocated and lands on
  page 1; B is erased; A grows to 600 again: page 1 is full, `allocate` asks
  the inventory, which names page 0, the page `resize` holds.
* `sp_segment.cc:235`: `erase` of a redirected record passes
  `page->get_free_space()` to the inventory after the page was unfixed (line
  223) and the page of the target and an FSI page were fixed. `Database` has
  a pool of 10 pages; when the frame of `page` was evicted by the `fix_page`
  calls in between, the read is of freed memory, and the inventory records
  whatever it finds (`sps_stale_read`: with 0 found, `InventoryMatchesPages`
  fails after 4 calls). Line 234 reads `rPage` after its unfix too, but
  before anything else is fixed.

### Further observations

Shown by the further configurations of section 3:

* `buffer_manager.cc:204, 235`: eviction frees `bf->data` and leaves the
  pointer; the frame invariant "data is null unless the frame is loaded" does
  not hold (`MCBufferManagerNull.cfg`). The pointer is not dereferenced
  afterwards: `FixedPagesResident` shows that every returned frame is loaded.
* `btree.h:286-287`: `grow_root` assigns `root` and then increments
  `treeHeight`; the specification has the height first and the root last
  (`MCBTreeRootLast.cfg`). With the code's order a thread can pair the new
  root with the old height; it then fixes the new root exclusively where
  shared would do, which `btree_safety` shows to be harmless.
* `fsi_segment.cc:167`: "found page with enough free space" holds of the
  encoding, not of the bytes: `find` starts at the encoding of the request,
  and a page of that encoding may have less (a page with 596 bytes free and
  a request of 608 both encode as 9). `SPSegment::allocate` looks at the
  page and searches once more from the next encoding; `AllocateFits` shows
  that this is enough.

Not a finding, but worth knowing: the specification's "at most two page
latches at once" is about descents. A split holds three (node, new page,
parent or new root).

Likewise: eviction frees the buffer of a frame and keeps the frame, so the
page table holds a frame for every page ever fixed until the destructor runs
(`frame` of `BufferManager` only grows). `ResidentWithinCapacity` bounds the
buffers, not the frames.

## 5. Not modelled

* The bytes of a page and of a record, `malloc`/`memcpy`, file I/O (`File` is
  not part of the sources): contents are fresh or stale in `BufferManager`,
  nodes in `BTree`, lengths in `SPSegment`. `read` and `write` of the segment
  therefore change nothing but the fixes.
* `get_fifo_list`, `get_lru_list`, `get_key_vector`, `get_value_vector`: they
  change nothing.
* The segment id / page id split of a page id (`get_segment_id`,
  `create_new_node`'s shift, `TID::get_page_id`): one segment, pages numbered
  from 0.
* The tree and the segments over a buffer smaller than what they touch:
  `BTree` takes residence and write-back from `BufferManager`'s properties
  and lets `fix_page` throw at any fix instead of computing when the buffer
  is full; `SPSegment` keeps of the buffer manager which pages are fixed, and
  `FSISegment` nothing (its pages are one array).
* A crash between the write-back of a slotted page and of the FSI page that
  describes it: the constructor of `FSISegment` trusts the nibbles it finds
  (its assert is commented out, `fsi_segment.cc:26`). The specification names
  crash recovery and write-ahead logging as non-goals and promises of the
  buffer manager only that dirty pages are flushed before their frame is
  reused or the manager is torn down, which `DirtyUntilFlushed` and `Destroy`
  cover. `FSISegment` starts from every inventory the constructor can scan, so
  reopening a table after an orderly shutdown is an initial state.
* A replacement-policy property ("a frame of the LRU queue is evicted only
  when no frame of the FIFO queue can be"): the scan of the FIFO queue uses
  `try_lock` while other threads unfix without any list latch, so a frame
  skipped by the scan may be free again when the LRU victim is latched. What
  holds of the queues at every state is `QueuesConsistent`.
* That each single call returns: a thread waiting for a latch the others take
  again and again may wait for ever with `std::shared_mutex`, and the
  specification does not promise otherwise. The liveness properties are about
  some call.
* A latch whose `unlock()` on a shared hold is not `unlock_shared()` (the
  standard leaves it undefined): the model takes the behaviour of libstdc++.
* Node capacities of 1 (leaf) and 2 (inner), at which `insert` splits for
  ever; the specification requires at least 4.
* `schema.h`, `database.h`: declarations; the implementation of `Database`
  and of the schema segment is not among the sources. `Database` gives the
  page size (1024) and the pool size (10) the runs and observations refer to.

## 6. Plan

Done: `Latch`, `BufferManager`, `SegmentFile`, `BinarySearch` and
`LowerBound`, `BTreeNode`, `BTree` with `KVMap`, `SlottedPage`, `FSISegment`,
`SPSegment`. Every operation of the sources that changes state is an action
or an operator of one of them.

Considered and left out, with the reason:

1. The tree and `SPSegment` over `BufferManager` itself, with a pool smaller
   than what they touch. `BTree` writes a dirty page back at every unfix,
   which is the earliest any pool can, and lets `fix_page` throw at every
   fix, which contains every state in which a real pool is full; the read
   after unfix of `SPSegment::erase` is given by `Evicted`. The product of
   the two state spaces would show nothing these do not.
2. An abstract record store that `SPSegment` implements. `RecordsKept`
   compares the pages, through redirects, with the lengths the calls have
   asked for, at every state; the calls of the segment return nothing else
   that a step-by-step refinement would add.
3. `BufferManager` with `ReadPage` and the write-back of `Evict` replaced by
   the steps of `SegmentFile`. A load runs under the loading latch of its
   frame and a write-back under the exclusive page latch of the victim, so
   the steps in between are seen by no other thread of the pool; and `SegmentFile` lets any thread ask for any page at
   any time, which contains every order in which the pool calls it.
4. A latch whose `unlock()` on a shared hold is not `unlock_shared()`. The
   repository builds with libstdc++ on Linux, where both are
   `pthread_rwlock_unlock`.
5. The degenerate node capacities, which the specification excludes.

Open: the split of an inner node of even capacity below a parent (section 3,
Bounds).
