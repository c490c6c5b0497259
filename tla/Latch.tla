------------------------------- MODULE Latch -------------------------------
(***************************************************************************)
(* `Latch`, the std::shared_mutex of src/include/simpledb/buffer_manager.h *)
(* as a value: its writer and the set of its readers.  An action that      *)
(* takes a latch has CanLock or CanLockShared as a guard, so a thread that *)
(* would block is a thread whose action is disabled.                       *)
(*                                                                         *)
(* unfix_page and the error paths of fix_page release a shared hold with   *)
(* unlock(); Unlocked releases whichever hold the thread has, as           *)
(* pthread_rwlock_unlock does.                                             *)
(***************************************************************************)
CONSTANT None   \* no thread

FreeLatch == [writer |-> None, readers |-> {}]

CanLock(l) == l = FreeLatch
CanLockShared(l) == l.writer = None

Locked(l, t) == [l EXCEPT !.writer = t]
LockedShared(l, t) == [l EXCEPT !.readers = @ \cup {t}]

\* lock() if exclusive, lock_shared() if not
CanFix(l, exclusive) == IF exclusive THEN CanLock(l) ELSE CanLockShared(l)
Fixed(l, t, exclusive) == IF exclusive THEN Locked(l, t) ELSE LockedShared(l, t)

Unlocked(l, t) == [writer |-> IF l.writer = t THEN None ELSE l.writer,
                   readers |-> l.readers \ {t}]

Holds(l, t) == l.writer = t \/ t \in l.readers

=============================================================================
