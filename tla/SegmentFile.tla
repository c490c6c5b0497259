---------------------------- MODULE SegmentFile ----------------------------
(***************************************************************************)
(* One entry of BufferManager::segments, a pair of a file (seg.first) and  *)
(* its latch (seg.second), as getSegmentData and flushPage use it          *)
(* (src/src/buffer_manager.cc).  getSegmentData tests the file pointer and *)
(* the file size WITHOUT the latch and tests again under it, so each test  *)
(* is a step of its own and other threads run between a test and the use   *)
(* of its answer.  Sizes are counted in pages: minSize is segPageId + 1.   *)
(* The unlatched read of seg.first races with its assignment; it is        *)
(* modelled as an atomic read, which is what a pointer-sized load gives.   *)
(***************************************************************************)
EXTENDS Naturals, Latch

CONSTANTS Threads,    \* threads calling into the buffer manager
          NumPages    \* pages of the segment that are ever asked for

VARIABLES file,       \* seg.first: is it open, and its size in pages
          latch,      \* seg.second
          pc,         \* where each thread is in getSegmentData / flushPage
          segPageId,  \* the page each thread reads or writes
          loaded      \* pages getSegmentData has returned: flushPage's inputs

vars == <<file, latch, pc, segPageId, loaded>>

Pages == 0..NumPages - 1

Init ==
    /\ file = [open |-> FALSE, size |-> 0]
    /\ latch = FreeLatch
    /\ pc = [t \in Threads |-> "idle"]
    /\ segPageId = [t \in Threads |-> 0]
    /\ loaded = {}

Goto(t, label) == pc' = [pc EXCEPT ![t] = label]

getSegmentData(t, p) ==
    /\ pc[t] = "idle"
    /\ segPageId' = [segPageId EXCEPT ![t] = p]
    /\ Goto(t, "check_open")
    /\ UNCHANGED <<file, latch, loaded>>

\* if (!seg.first), read without the latch
CheckOpen(t) ==
    /\ pc[t] = "check_open"
    /\ Goto(t, IF file.open THEN "check_size" ELSE "lock_open")
    /\ UNCHANGED <<file, latch, segPageId, loaded>>

\* if (seg.first->size() < minSize), read without the latch
CheckSize(t) ==
    /\ pc[t] = "check_size"
    /\ Goto(t, IF file.size < segPageId[t] + 1 THEN "lock_resize" ELSE "lock_read")
    /\ UNCHANGED <<file, latch, segPageId, loaded>>

\* seg.second.lock(), before the file is created or resized
Lock(t) ==
    /\ pc[t] \in {"lock_open", "lock_resize"}
    /\ CanLock(latch)
    /\ latch' = Locked(latch, t)
    /\ Goto(t, IF pc[t] = "lock_open" THEN "open" ELSE "resize")
    /\ UNCHANGED <<file, segPageId, loaded>>

\* seg.second.lock_shared(), before a block is read or written
LockShared(t) ==
    /\ pc[t] \in {"lock_read", "lock_write"}
    /\ CanLockShared(latch)
    /\ latch' = LockedShared(latch, t)
    /\ Goto(t, IF pc[t] = "lock_read" THEN "read" ELSE "write")
    /\ UNCHANGED <<file, segPageId, loaded>>

\* fault: the file is resized to what this caller needs, whatever its size
ResizedUnchecked(minSize) == [file EXCEPT !.size = minSize]

\* fault: minSize counts one page too many
ResizedTooFar(minSize) == [file EXCEPT !.size = minSize + 1]

\* the second test and resize(minSize)
Resized(minSize) == [file EXCEPT !.size = IF @ < minSize THEN minSize ELSE @]

\* the second test of seg.first, open_file (a new file is empty), unlock
Open(t) ==
    /\ pc[t] = "open"
    /\ file' = IF file.open THEN file ELSE [open |-> TRUE, size |-> 0]
    /\ latch' = Unlocked(latch, t)
    /\ Goto(t, "check_size")
    /\ UNCHANGED <<segPageId, loaded>>

Resize(t) ==
    /\ pc[t] = "resize"
    /\ file' = Resized(segPageId[t] + 1)
    /\ latch' = Unlocked(latch, t)
    /\ Goto(t, "lock_read")
    /\ UNCHANGED <<segPageId, loaded>>

\* read_block, unlock_shared, return
ReadBlock(t) ==
    /\ pc[t] = "read"
    /\ loaded' = loaded \cup {segPageId[t]}
    /\ latch' = Unlocked(latch, t)
    /\ Goto(t, "idle")
    /\ UNCHANGED <<file, segPageId>>

\* flushPage writes a page that was loaded before
flushPage(t, p) ==
    /\ pc[t] = "idle"
    /\ p \in loaded
    /\ segPageId' = [segPageId EXCEPT ![t] = p]
    /\ Goto(t, "lock_write")
    /\ UNCHANGED <<file, latch, loaded>>

\* write_block, unlock_shared
WriteBlock(t) ==
    /\ pc[t] = "write"
    /\ latch' = Unlocked(latch, t)
    /\ Goto(t, "idle")
    /\ UNCHANGED <<file, segPageId, loaded>>

Next ==
    \E t \in Threads :
        \/ \E p \in Pages : getSegmentData(t, p) \/ flushPage(t, p)
        \/ CheckOpen(t) \/ CheckSize(t) \/ Lock(t) \/ LockShared(t)
        \/ Open(t) \/ Resize(t) \/ ReadBlock(t) \/ WriteBlock(t)

Spec == Init /\ [][Next]_vars

-----------------------------------------------------------------------------
TypeOK ==
    /\ file \in [open : BOOLEAN, size : 0..NumPages]
    /\ latch \in [writer : Threads \cup {None}, readers : SUBSET Threads]
    /\ pc \in [Threads -> {"idle", "check_open", "lock_open", "open",
                           "check_size", "lock_resize", "resize",
                           "lock_read", "read", "lock_write", "write"}]
    /\ segPageId \in [Threads -> Pages]
    /\ loaded \subseteq Pages

(***************************************************************************)
(* A block is read or written inside an open file: when read_block or      *)
(* write_block runs, the file exists and covers the page, although the     *)
(* tests that decided so were made without the latch and the file may have *)
(* been resized by another thread since.                                   *)
(***************************************************************************)
BlocksInsideFile ==
    \A t \in Threads :
        pc[t] \in {"read", "write"} => file.open /\ segPageId[t] < file.size
=============================================================================
