--------------------------- MODULE BufferManager ---------------------------
(***************************************************************************)
(* The buffer manager of src/src/buffer_manager.cc: a page table of        *)
(* frames, a FIFO and an LRU queue of resident frames, loading, eviction   *)
(* with write-back, and fix_page / unfix_page called by several threads.   *)
(*                                                                         *)
(* A thread inside fix_page advances one latch acquisition or one          *)
(* critical section per step; pc[t] names the statement it is about to     *)
(* execute.  A step that takes a latch is enabled only when the latch can  *)
(* be taken, so a blocked thread is a disabled action.  The page table     *)
(* latch protects two short critical sections that block on nothing else   *)
(* and is therefore not a variable: each section is one step.              *)
(*                                                                         *)
(* Page contents are abstracted to what a lost update tells apart: a copy  *)
(* of a page, in memory or on disk, is "fresh" when it holds the last      *)
(* write made under an exclusive fix and "stale" otherwise.                *)
(***************************************************************************)
EXTENDS Integers, Sequences, FiniteSets, SequencesExt, TLC, Latch

CONSTANTS
    Threads,    \* the threads calling fix_page / unfix_page
    NumPages,   \* page ids are 1..NumPages
    PageCount,  \* BufferManager::pageCount, the number of resident pages
    MaxFixed    \* bound: frames one thread keeps fixed at the same time

ASSUME /\ NumPages \in Nat \ {0}
       /\ PageCount \in Nat \ {0}
       /\ MaxFixed \in Nat \ {0}
       /\ None \notin Threads

Pages == 1..NumPages
Contents == {"fresh", "stale"}
Loaded == {"IN_FIFO", "IN_LRU"}
PageState == Loaded \cup {"NOT_LOADED", "LOADING"}

VARIABLES
    alive,          \* a BufferManager object exists
    frame,          \* pageTable: pid -> BufferFrame
    fifoList,       \* sequence of pids
    lruList,        \* sequence of pids
    fifoListLatch,
    lruListLatch,
    disk,           \* the segment files: pid -> contents
    pc,             \* per thread: the statement of fix_page it is at
    call,           \* per thread: arguments of the running fix_page
    victim,         \* per thread: the frame `bf` it evicts
    scan,           \* per thread: loop index of lockEvictableFrame
    fixed           \* per thread: frames returned by fix_page, not yet unfixed

queues == <<fifoList, lruList, fifoListLatch, lruListLatch>>
locals == <<victim, scan>>
vars == <<alive, frame, queues, disk, pc, call, locals, fixed>>

-----------------------------------------------------------------------------
NewFrame == [pageState |-> "NOT_LOADED", isDirty |-> FALSE, data |-> "nullptr",
             pageLatch |-> FreeLatch, loadingLatch |-> None]

UpdateLru(list, p) == Append(Remove(list, p), p)

\* fault: the dirty test of the write-back is lost, nothing is flushed
FlushedNothing(P) == disk

\* flushPage applied to the dirty frames among P
Flushed(P) == [p \in Pages |-> IF p \in P /\ frame[p].isDirty
                               THEN frame[p].data ELSE disk[p]]

Goto(t, label) == pc' = [pc EXCEPT ![t] = label] /\ UNCHANGED <<call, fixed>>

\* fix_page returns the frame, page latch held
Return(t) ==
    /\ pc' = [pc EXCEPT ![t] = "idle"]
    /\ call' = [call EXCEPT ![t] = None]
    /\ fixed' = [fixed EXCEPT ![t] = @ \cup {call[t] @@ [wrote |-> FALSE]}]

\* fix_page throws buffer_full_error
Throw(t) ==
    /\ pc' = [pc EXCEPT ![t] = "idle"]
    /\ call' = [call EXCEPT ![t] = None]
    /\ UNCHANGED fixed

-----------------------------------------------------------------------------
Init ==
    /\ alive = TRUE
    /\ frame = <<>>
    /\ fifoList = <<>> /\ lruList = <<>>
    /\ fifoListLatch = FreeLatch /\ lruListLatch = FreeLatch
    /\ disk = [p \in Pages |-> "fresh"]
    /\ pc = [t \in Threads |-> "idle"]
    /\ call = [t \in Threads |-> None]
    /\ victim = [t \in Threads |-> None]
    /\ scan = [t \in Threads |-> 0]
    /\ fixed = [t \in Threads |-> {}]

Quiescent == \A t \in Threads : pc[t] = "idle" /\ fixed[t] = {}

Construct ==
    /\ ~alive
    /\ alive' = TRUE
    /\ UNCHANGED <<frame, queues, disk, pc, call, locals, fixed>>

\* ~BufferManager: called with no frame fixed
Destroy ==
    /\ alive /\ Quiescent
    /\ disk' = Flushed(ToSet(fifoList) \cup ToSet(lruList))
    /\ alive' = FALSE
    /\ frame' = <<>>
    /\ fifoList' = <<>> /\ lruList' = <<>>
    /\ UNCHANGED <<fifoListLatch, lruListLatch, pc, call, locals, fixed>>

-----------------------------------------------------------------------------
(* fix_page.  A thread fixes pages in increasing pid order, the way a      *)
(* tree descent fixes a child after its parent; this is the discipline     *)
(* that keeps callers from waiting on each other in a cycle.               *)
FixPage(t, p, x) ==
    /\ alive /\ pc[t] = "idle"
    /\ Cardinality(fixed[t]) < MaxFixed
    /\ \A f \in fixed[t] : f.page < p
    /\ call' = [call EXCEPT ![t] = [page |-> p, exclusive |-> x]]
    /\ pc' = [pc EXCEPT ![t] = IF p \in DOMAIN frame THEN "lockPage" ELSE "insertFrame"]
    /\ UNCHANGED <<alive, frame, queues, disk, locals, fixed>>

\* fault: no second lookup under the exclusive latch, the frame is made anew
InsertFrameNoRecheck(t) ==
    /\ pc[t] = "insertFrame"
    /\ frame' = [p \in DOMAIN frame \cup {call[t].page} |->
                    IF p = call[t].page THEN NewFrame ELSE frame[p]]
    /\ Goto(t, "lockPage")
    /\ UNCHANGED <<alive, queues, disk, locals>>

\* getBufferFrame, after the shared lookup missed
InsertFrame(t) ==
    /\ pc[t] = "insertFrame"
    /\ frame' = IF call[t].page \in DOMAIN frame THEN frame
                ELSE frame @@ (call[t].page :> NewFrame)
    /\ Goto(t, "lockPage")
    /\ UNCHANGED <<alive, queues, disk, locals>>

LockPage(t) ==
    LET p == call[t].page IN
    /\ pc[t] = "lockPage"
    /\ CanFix(frame[p].pageLatch, call[t].exclusive)
    /\ frame' = [frame EXCEPT ![p].pageLatch = Fixed(@, t, call[t].exclusive)]
    /\ Goto(t, "readState")
    /\ UNCHANGED <<alive, queues, disk, locals>>

SwitchTarget == [IN_FIFO |-> "promoteLockFifo", IN_LRU |-> "touchLru",
                 NOT_LOADED |-> "loadPage", LOADING |-> "waitLoading"]

\* switch (frame->pageState)
ReadState(t) ==
    /\ pc[t] = "readState"
    /\ Goto(t, SwitchTarget[frame[call[t].page].pageState])
    /\ UNCHANGED <<alive, frame, queues, disk, locals>>

PromoteLockFifo(t) ==
    /\ pc[t] = "promoteLockFifo"
    /\ CanLock(fifoListLatch)
    /\ fifoListLatch' = Locked(fifoListLatch, t)
    /\ Goto(t, "promote")
    /\ UNCHANGED <<alive, frame, fifoList, lruList, lruListLatch, disk, locals>>

\* fault: the state is not looked at again under the list latches
PromotedNotRechecked(p) == FALSE

\* another thread moved the frame between the switch and the list latches
PromotedMeanwhile(p) == frame[p].pageState = "IN_LRU"

\* case IN_FIFO with both list latches: move to the LRU list
Promote(t) ==
    LET p == call[t].page IN
    /\ pc[t] = "promote"
    /\ CanLock(lruListLatch)
    /\ \/ /\ PromotedMeanwhile(p)
          /\ lruList' = UpdateLru(lruList, p)
          /\ UNCHANGED <<frame, fifoList>>
       \/ /\ ~PromotedMeanwhile(p)
          /\ fifoList' = Remove(fifoList, p)
          /\ lruList' = Append(lruList, p)
          /\ frame' = [frame EXCEPT ![p].pageState = "IN_LRU"]
    /\ fifoListLatch' = Unlocked(fifoListLatch, t)
    /\ Return(t)
    /\ UNCHANGED <<alive, lruListLatch, disk, locals>>

\* case IN_LRU
TouchLru(t) ==
    /\ pc[t] = "touchLru"
    /\ CanLock(lruListLatch)
    /\ lruList' = UpdateLru(lruList, call[t].page)
    /\ Return(t)
    /\ UNCHANGED <<alive, frame, fifoList, fifoListLatch, lruListLatch, disk, locals>>

\* loadPage up to the call of insertBufferFrame
LoadPage(t) ==
    LET p == call[t].page IN
    /\ pc[t] = "loadPage"
    /\ frame[p].loadingLatch = None
    /\ \/ /\ frame[p].pageState \in Loaded
          /\ Return(t)
          /\ UNCHANGED frame
       \/ /\ frame[p].pageState = "NOT_LOADED"
          /\ frame' = [frame EXCEPT ![p].pageState = "LOADING", ![p].loadingLatch = t]
          /\ Goto(t, "insertLockFifo")
    /\ UNCHANGED <<alive, queues, disk, locals>>

InsertLockFifo(t) ==
    /\ pc[t] = "insertLockFifo"
    /\ CanLock(fifoListLatch)
    /\ fifoListLatch' = Locked(fifoListLatch, t)
    /\ Goto(t, "checkSpace")
    /\ UNCHANGED <<alive, frame, fifoList, lruList, lruListLatch, disk, locals>>

\* fault: <= for <
HasSpaceOffByOne == Len(fifoList) + Len(lruList) <= PageCount

\* fault: the LRU list is left out of the sum
HasSpaceFifoOnly == Len(fifoList) < PageCount

HasSpace == Len(fifoList) + Len(lruList) < PageCount

\* insertBufferFrame: the free-space check under the shared LRU latch
CheckSpace(t) ==
    /\ pc[t] = "checkSpace"
    /\ CanLockShared(lruListLatch)
    /\ \/ /\ HasSpace
          /\ fifoList' = Append(fifoList, call[t].page)
          /\ fifoListLatch' = Unlocked(fifoListLatch, t)
          /\ Goto(t, "readPage")
          /\ UNCHANGED scan
       \/ /\ ~HasSpace
          /\ scan' = [scan EXCEPT ![t] = 1]
          /\ Goto(t, "scanFifo")
          /\ UNCHANGED <<fifoList, fifoListLatch>>
    /\ UNCHANGED <<alive, frame, lruList, lruListLatch, disk, victim>>

\* lockEvictableFrame: try_lock succeeded on frame bf
LockVictim(t, bf) ==
    /\ CanLock(frame[bf].pageLatch)
    /\ frame' = [frame EXCEPT ![bf].pageLatch = Locked(@, t)]
    /\ victim' = [victim EXCEPT ![t] = bf]
    /\ scan' = [scan EXCEPT ![t] = 0]
    /\ Goto(t, "evict")

\* fault: the loop index is not advanced
SkipFrameStuck(t, bf) ==
    /\ ~CanLock(frame[bf].pageLatch)
    /\ UNCHANGED <<frame, victim, scan, pc, call, fixed>>

\* lockEvictableFrame: try_lock failed on frame bf, go on with the next one
SkipFrame(t, bf) ==
    /\ ~CanLock(frame[bf].pageLatch)
    /\ scan' = [scan EXCEPT ![t] = @ + 1]
    /\ UNCHANGED <<frame, victim, pc, call, fixed>>

\* evict from the FIFO list: erase the victim, append the new frame
ScanFifo(t) ==
    LET bf == fifoList[scan[t]] IN
    /\ pc[t] = "scanFifo"
    /\ scan[t] <= Len(fifoList)
    /\ \/ /\ LockVictim(t, bf)
          /\ fifoList' = Append(RemoveAt(fifoList, scan[t]), call[t].page)
          /\ fifoListLatch' = Unlocked(fifoListLatch, t)
       \/ /\ SkipFrame(t, bf)
          /\ UNCHANGED <<fifoList, fifoListLatch>>
    /\ UNCHANGED <<alive, lruList, lruListLatch, disk>>

\* lockEvictableFrame(fifoList) returned -1: take the LRU latch
ScanFifoEnd(t) ==
    /\ pc[t] = "scanFifo"
    /\ scan[t] > Len(fifoList)
    /\ CanLock(lruListLatch)
    /\ lruListLatch' = Locked(lruListLatch, t)
    /\ scan' = [scan EXCEPT ![t] = 1]
    /\ Goto(t, "scanLru")
    /\ UNCHANGED <<alive, frame, fifoList, lruList, fifoListLatch, disk, victim>>

\* evict from the LRU list
ScanLru(t) ==
    LET bf == lruList[scan[t]] IN
    /\ pc[t] = "scanLru"
    /\ scan[t] <= Len(lruList)
    /\ \/ /\ LockVictim(t, bf)
          /\ lruList' = RemoveAt(lruList, scan[t])
          /\ fifoList' = Append(fifoList, call[t].page)
          /\ lruListLatch' = Unlocked(lruListLatch, t)
          /\ fifoListLatch' = Unlocked(fifoListLatch, t)
       \/ /\ SkipFrame(t, bf)
          /\ UNCHANGED <<fifoList, lruList, fifoListLatch, lruListLatch>>
    /\ UNCHANGED <<alive, disk>>

\* fault: the state stays LOADING when the load failed
StateKept(state) == state

\* loadPage: bf.pageState = NOT_LOADED before it returns false
StateReset(state) == "NOT_LOADED"

(* No frame could be latched: insertBufferFrame returns false, loadPage    *)
(* resets the state and returns false, fix_page releases the page latch    *)
(* and throws.                                                             *)
LoadFailed(t) ==
    LET p == call[t].page IN
    /\ pc[t] = "scanLru"
    /\ scan[t] > Len(lruList)
    /\ lruListLatch' = Unlocked(lruListLatch, t)
    /\ fifoListLatch' = Unlocked(fifoListLatch, t)
    /\ frame' = [frame EXCEPT ![p].pageState = StateReset(@),
                              ![p].loadingLatch = None,
                              ![p].pageLatch = Unlocked(@, t)]
    /\ scan' = [scan EXCEPT ![t] = 0]
    /\ Throw(t)
    /\ UNCHANGED <<alive, fifoList, lruList, disk, victim>>

\* a victim of either queue once flushed: marked, its buffer freed, unlatched
EvictedFrame(f, t) ==
    [f EXCEPT !.isDirty = FALSE, !.pageState = "NOT_LOADED", !.data = "freed",
              !.pageLatch = Unlocked(@, t)]

\* the evicted frame after the list latches are released: flush, mark, free
Evict(t) ==
    LET bf == victim[t] IN
    /\ pc[t] = "evict"
    /\ disk' = Flushed({bf})
    /\ frame' = [frame EXCEPT ![bf] = EvictedFrame(@, t)]
    /\ victim' = [victim EXCEPT ![t] = None]
    /\ Goto(t, "readPage")
    /\ UNCHANGED <<alive, queues, scan>>

\* loadPage after insertBufferFrame succeeded: getSegmentData, malloc, memcpy
ReadPage(t) ==
    LET p == call[t].page IN
    /\ pc[t] = "readPage"
    /\ frame' = [frame EXCEPT ![p].data = disk[p],
                              ![p].pageState = "IN_FIFO",
                              ![p].loadingLatch = None]
    /\ Return(t)
    /\ UNCHANGED <<alive, queues, disk, locals>>

\* case LOADING: loadingLatch.lock(); loadingLatch.unlock()
WaitLoading(t) ==
    /\ pc[t] = "waitLoading"
    /\ frame[call[t].page].loadingLatch = None
    /\ Goto(t, "checkLoaded")
    /\ UNCHANGED <<alive, frame, queues, disk, locals>>

\* fault: the frame is returned whatever became of the other thread's load
LoadAssumed(p) == TRUE

\* case LOADING, after the wait: did the other thread's load succeed?
LoadSucceeded(p) == frame[p].pageState \in Loaded

CheckLoaded(t) ==
    LET p == call[t].page IN
    /\ pc[t] = "checkLoaded"
    /\ \/ /\ LoadSucceeded(p)
          /\ Return(t)
          /\ UNCHANGED frame
       \/ /\ ~LoadSucceeded(p)
          /\ frame' = [frame EXCEPT ![p].pageLatch = Unlocked(@, t)]
          /\ Throw(t)
    /\ UNCHANGED <<alive, queues, disk, locals>>

-----------------------------------------------------------------------------
(* The caller between fix_page and unfix_page.  It writes the page only    *)
(* under an exclusive fix and then unfixes it as dirty.                    *)
WritePage(t, f) ==
    /\ pc[t] = "idle"
    /\ f \in fixed[t] /\ f.exclusive /\ ~f.wrote
    /\ disk' = [disk EXCEPT ![f.page] = "stale"]
    /\ fixed' = [fixed EXCEPT ![t] = (@ \ {f}) \cup {[f EXCEPT !.wrote = TRUE]}]
    /\ UNCHANGED <<alive, frame, queues, pc, call, locals>>

\* fault: isDirty = is_dirty, a clean unfix forgets an earlier write
DirtyOverwritten(was_dirty, is_dirty) == is_dirty

\* unfix_page: isDirty = isDirty || is_dirty
DirtyAfterUnfix(was_dirty, is_dirty) == was_dirty \/ is_dirty

UnfixPage(t, f, is_dirty) ==
    /\ pc[t] = "idle"
    /\ f \in fixed[t]
    /\ is_dirty => f.exclusive
    /\ f.wrote => is_dirty
    /\ frame' = [frame EXCEPT ![f.page].isDirty = DirtyAfterUnfix(@, is_dirty),
                              ![f.page].pageLatch = Unlocked(@, t)]
    /\ fixed' = [fixed EXCEPT ![t] = @ \ {f}]
    /\ UNCHANGED <<alive, queues, disk, pc, call, locals>>

-----------------------------------------------------------------------------
\* the steps of thread t inside fix_page
Step(t) ==
    \/ InsertFrame(t) \/ LockPage(t) \/ ReadState(t)
    \/ PromoteLockFifo(t) \/ Promote(t) \/ TouchLru(t)
    \/ LoadPage(t) \/ InsertLockFifo(t) \/ CheckSpace(t)
    \/ ScanFifo(t) \/ ScanFifoEnd(t) \/ ScanLru(t) \/ LoadFailed(t)
    \/ Evict(t) \/ ReadPage(t) \/ WaitLoading(t) \/ CheckLoaded(t)

Next ==
    \/ Construct
    \/ Destroy
    \/ \E t \in Threads :
        \/ \E p \in Pages, x \in BOOLEAN : FixPage(t, p, x)
        \/ Step(t)
        \/ \E f \in fixed[t] : WritePage(t, f)
        \/ \E f \in fixed[t], d \in BOOLEAN : UnfixPage(t, f, d)

Spec == Init /\ [][Next]_vars

(* Every thread that can take a step of fix_page eventually takes one: the *)
(* scheduler runs every runnable thread.  Nothing is assumed about which   *)
(* of several waiters gets a latch, and nothing about the callers.         *)
FairSpec == Spec /\ \A t \in Threads : WF_vars(Step(t))

-----------------------------------------------------------------------------
Labels == Range(SwitchTarget) \cup
    {"idle", "insertFrame", "lockPage", "readState", "promote", "insertLockFifo",
     "checkSpace", "scanFifo", "scanLru", "evict", "readPage", "checkLoaded"}

LatchType == [writer : Threads \cup {None}, readers : SUBSET Threads]

TypeOK ==
    /\ alive \in BOOLEAN
    /\ DOMAIN frame \subseteq Pages
    /\ \A p \in DOMAIN frame :
         frame[p] \in [pageState : PageState, isDirty : BOOLEAN,
                       data : Contents \cup {"nullptr", "freed"},
                       pageLatch : LatchType, loadingLatch : Threads \cup {None}]
    /\ fifoList \in Seq(Pages) /\ Len(fifoList) <= PageCount
    /\ lruList \in Seq(Pages) /\ Len(lruList) <= PageCount
    /\ fifoListLatch \in LatchType /\ lruListLatch \in LatchType
    /\ disk \in [Pages -> Contents]
    /\ pc \in [Threads -> Labels]
    /\ call \in [Threads -> [page : Pages, exclusive : BOOLEAN] \cup {None}]
    /\ victim \in [Threads -> Pages \cup {None}]
    /\ scan \in [Threads -> 0..PageCount + 1]
    /\ fixed \in [Threads -> SUBSET [page : Pages, exclusive : BOOLEAN, wrote : BOOLEAN]]

-----------------------------------------------------------------------------
IsVictim(p) == \E t \in Threads : victim[t] = p
Resident(p) == p \in DOMAIN frame /\ frame[p].data \in Contents

(* The queues and the frames' states agree (spec 3, and the asserts of     *)
(* fix_page, insertBufferFrame and the destructor): no frame is queued     *)
(* twice, a queued frame has the state of its queue or is being loaded, a  *)
(* frame with a queue's state is in that queue unless some thread has      *)
(* taken it out to evict it, and exactly the loaded frames own a buffer.   *)
QueuesConsistent ==
    LET fifo == ToSet(fifoList)
        lru == ToSet(lruList)
    IN  /\ Len(fifoList) + Len(lruList) = Cardinality(fifo \cup lru)
        /\ \A p \in lru : frame[p].pageState = "IN_LRU"
        /\ \A p \in fifo : frame[p].pageState \in {"IN_FIFO", "LOADING"}
        /\ \A p \in DOMAIN frame :
             /\ frame[p].pageState = "IN_FIFO" => p \in fifo \/ IsVictim(p)
             /\ frame[p].pageState = "IN_LRU" => p \in lru \/ IsVictim(p)
             /\ frame[p].pageState \in Loaded <=> Resident(p)

(* Never more than pageCount pages in memory: neither the queues nor the   *)
(* buffers malloc'ed by loadPage and not yet freed by an eviction exceed   *)
(* it, whatever threads load and evict at the same time.                   *)
ResidentWithinCapacity ==
    /\ Len(fifoList) + Len(lruList) <= PageCount
    /\ Cardinality({p \in Pages : Resident(p)}) <= PageCount

(* A frame fix_page has returned stays loaded until it is unfixed: no      *)
(* eviction by another thread and no failed load of a concurrent fixer     *)
(* takes its buffer away (get_data's assert).                              *)
FixedPagesResident ==
    \A t \in Threads : \A f \in fixed[t] :
        frame[f.page].pageState \in Loaded /\ Resident(f.page)

(* Eviction freshness: the copy of a page a fixer would see, the buffer if *)
(* the page is resident and the segment file otherwise, holds the last     *)
(* write made under an exclusive fix, across evictions, reloads and the    *)
(* destruction of the manager.                                             *)
NoLostUpdate ==
    \A p \in Pages : IF Resident(p) THEN frame[p].data = "fresh" ELSE disk[p] = "fresh"

(* Every latch is held by exactly the threads whose code path holds it:    *)
(* none is leaked on a return or on buffer_full_error, and an exclusive    *)
(* page latch (a writer's or an evictor's) excludes every other holder.    *)
PageLatchPcs == Labels \ {"idle", "insertFrame", "lockPage"}
LoadingLatchPcs == {"insertLockFifo", "checkSpace", "scanFifo", "scanLru", "evict", "readPage"}
FifoLatchPcs == {"promote", "checkSpace", "scanFifo", "scanLru"}

HeldBy(p, x) ==
    {t \in Threads : \/ \E f \in fixed[t] : f.page = p /\ f.exclusive = x
                     \/ pc[t] \in PageLatchPcs /\ call[t] = [page |-> p, exclusive |-> x]
                     \/ x /\ victim[t] = p}

ExactlyHeld(latch, writers, readers) ==
    /\ latch.readers = readers
    /\ writers = IF latch.writer = None THEN {} ELSE {latch.writer}
    /\ writers = {} \/ readers = {}

LatchesAccounted ==
    /\ \A p \in DOMAIN frame :
         /\ ExactlyHeld(frame[p].pageLatch, HeldBy(p, TRUE), HeldBy(p, FALSE))
         /\ \A t \in Threads :
              frame[p].loadingLatch = t <=> pc[t] \in LoadingLatchPcs /\ call[t].page = p
    /\ ExactlyHeld(fifoListLatch, {t \in Threads : pc[t] \in FifoLatchPcs}, {})
    /\ ExactlyHeld(lruListLatch, {t \in Threads : pc[t] = "scanLru"}, {})

(* loadPage never throws "Frame in invalid state": whoever takes the       *)
(* loading latch finds the frame NOT_LOADED or loaded, also after another  *)
(* thread's load failed.                                                   *)
NoInvalidLoadingState ==
    \A p \in DOMAIN frame :
        frame[p].pageState = "LOADING" => frame[p].loadingLatch # None

(* The dirty bit is sticky until a write-back: a step clears it, or drops  *)
(* the frame, only if the same step leaves the page's buffer in the        *)
(* segment file (unfix_page's `isDirty || is_dirty`, flushPage).           *)
DirtyUntilFlushed ==
    [][\A p \in DOMAIN frame :
          frame[p].isDirty /\ (p \in DOMAIN frame' => ~frame'[p].isDirty)
              => disk'[p] = frame[p].data]_vars

(* Some call always completes: when every thread is inside fix_page, one   *)
(* of them returns or throws.  Threads waiting for latches and scanning    *)
(* the queues neither deadlock nor keep each other busy for ever.          *)
AllBusy == \A t \in Threads : pc[t] # "idle"
SomeCallCompletes == AllBusy ~> ~AllBusy

(* Spec 3: "a frame in InFifo or InLru has a non-null data; otherwise      *)
(* data is null".  Eviction frees the buffer and leaves the pointer.       *)
DataNullUnlessLoaded ==
    \A p \in DOMAIN frame :
        frame[p].pageState \in Loaded <=> frame[p].data # "nullptr"

=============================================================================
