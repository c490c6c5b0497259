------------------------------- MODULE KVMap -------------------------------
(***************************************************************************)
(* What the B+tree promises its callers: a map from keys to values whose   *)
(* operations take effect one at a time.  A thread calls an operation and  *)
(* the operation happens, in one step, when it returns.                    *)
(***************************************************************************)
CONSTANTS
    Threads,
    Keys,
    Values,
    None        \* no value / no operation

VARIABLES
    map,        \* Keys -> Values or None
    pending,    \* per thread: the operation it has called, or None
    ret         \* per thread: what its last lookup returned

vars == <<pending, ret, map>>

Operations ==
    [type : {"lookup", "erase"}, key : Keys] \cup
    [type : {"insert"}, key : Keys, value : Values]

Init ==
    /\ map = [k \in Keys |-> None]
    /\ pending = [t \in Threads |-> None]
    /\ ret = [t \in Threads |-> None]

Call(t, o) ==
    /\ pending[t] = None
    /\ pending' = [pending EXCEPT ![t] = o]
    /\ UNCHANGED <<map, ret>>

Applied(o) ==
    CASE o.type = "insert" -> [map EXCEPT ![o.key] = o.value]
      [] o.type = "erase" -> [map EXCEPT ![o.key] = None]
      [] o.type = "lookup" -> map

Return(t) ==
    /\ pending[t] # None
    /\ pending' = [pending EXCEPT ![t] = None]
    /\ map' = Applied(pending[t])
    /\ ret' = [ret EXCEPT ![t] = IF pending[t].type = "lookup"
                                 THEN map[pending[t].key] ELSE @]

Next == \E t \in Threads : Return(t) \/ \E o \in Operations : Call(t, o)

Spec == Init /\ [][Next]_vars

=============================================================================
