------------------------------ MODULE MCBTree ------------------------------
(* BTree instantiated for TLC. *)
EXTENDS BTree, TLC

\* Threads are interchangeable, and so are values; keys are ordered.
Symmetry == Permutations(Threads) \cup Permutations(Values)

(* The calls of the progress run: every lookup and insert, and the erase   *)
(* of the smallest key, which keeps three keys, the splits below a parent  *)
(* and the split of an inner root within reach of a liveness check.        *)
ProgressOperations ==
    [type : {"lookup"}, key : Keys] \cup [type : {"erase"}, key : {Min(Keys)}]
        \cup [type : {"insert"}, key : Keys, value : Values]
=============================================================================
