----------------------------- MODULE LowerBound -----------------------------
(***************************************************************************)
(* One call of lower_bound_branchless, an iteration of its loop per step,  *)
(* on every sorted range of at most MaxLen keys.  `probes` counts the      *)
(* iterations: it is history, nothing reads it.                            *)
(***************************************************************************)
EXTENDS BinarySearch

CONSTANTS
    MaxLen,     \* bound: length of the range
    MaxKey      \* keys are 1..MaxKey

VARIABLES
    a, val,     \* the arguments: the range and the value searched
    l, i,       \* the locals of the loop
    pc,         \* "entry", "loop" or "done"; when "done", i is the result
    probes      \* history: the iterations of the loop so far

vars == <<a, val, l, i, pc, probes>>

Keys == 1..MaxKey
Sorted(s) == \A j, k \in DOMAIN s : j < k => s[j] <= s[k]
Ranges == {s \in UNION {[1..n -> Keys] : n \in 0..MaxLen} : Sorted(s)}

Init ==
    /\ a \in Ranges /\ val \in Keys
    /\ l = 0 /\ i = 0
    /\ pc = "entry"
    /\ probes = 0

\* fault: the empty range is not returned early
EnterWithoutEmptyCheck ==
    /\ pc = "entry"
    /\ l' = Len(a)
    /\ pc' = "loop"
    /\ UNCHANGED <<a, val, i, probes>>

\* size_t l = up - low; if (l == 0) return 0
Enter ==
    /\ pc = "entry"
    /\ l' = Len(a)
    /\ pc' = IF Len(a) = 0 THEN "done" ELSE "loop"
    /\ UNCHANGED <<a, val, i, probes>>

Iterate ==
    /\ pc = "loop" /\ Continues(l)
    /\ i' = Probed(a, val, i, l \div 2)
    /\ l' = Rest(l)
    /\ probes' = probes + 1
    /\ UNCHANGED <<a, val, pc>>

Exit ==
    /\ pc = "loop" /\ ~Continues(l)
    /\ i' = Finished(a, val, i)
    /\ pc' = "done"
    /\ UNCHANGED <<a, val, l, probes>>

\* the call has returned
Returned == pc = "done" /\ UNCHANGED vars

Next == Enter \/ Iterate \/ Exit \/ Returned

Spec == Init /\ [][Next]_vars
\* the calling thread keeps running
FairSpec == Spec /\ WF_vars(Next)

-----------------------------------------------------------------------------
\* i is an index of the range while the loop runs, and at most its end after
TypeOK ==
    /\ a \in Seq(Keys) /\ Len(a) <= MaxLen /\ Sorted(a)
    /\ val \in Keys
    /\ l \in 0..Len(a) /\ i \in 0..Len(a)
    /\ pc \in {"entry", "loop", "done"}
    /\ pc = "loop" => i < Len(a)
    /\ probes \in 0..MaxLen

\* std::lower_bound: the number of elements less than val
FirstNotLess(s, v) == CHOOSE n \in 0..Len(s) :
    /\ \A k \in 1..n : s[k] < v
    /\ n < Len(s) => s[n + 1] >= v

(* The loop keeps the answer inside the window of l elements from i that   *)
(* it still looks at, and the window inside the range: the element at i,   *)
(* unless i is 0, is less than val, and no element from i + l on is (the   *)
(* `mid` of the next iteration and the last read *(low + i) rely on it).   *)
AnswerInWindow ==
    pc = "loop" =>
        /\ l >= 1 /\ i + l <= Len(a)
        /\ FirstNotLess(a, val) \in i..i + l
        /\ i > 0 => a[i + 1] < val

(* The result is the lower bound of val, computed step by step or by the   *)
(* operator the tree's nodes use.                                          *)
ResultIsLowerBound ==
    /\ pc = "done" => i = FirstNotLess(a, val)
    /\ LowerBoundBranchless(a, val) = FirstNotLess(a, val)

(* The loop ends after the probes a binary search needs and no more: the   *)
(* window halves, rounded up, with every iteration of `while (auto half =  *)
(* l / 2)`, so a range of n elements is probed fewer than log2 n + 1       *)
(* times, and no fewer than log2 n times when the call returns.            *)
ProbesAreLogarithmic ==
    Len(a) > 0 =>
        /\ 2 ^ probes < 2 * Len(a)
        /\ pc = "done" => 2 ^ probes >= Len(a)

\* The loop terminates: every call returns.
Returns == pc = "entry" ~> pc = "done"

=============================================================================
