---------------------------- MODULE BinarySearch ----------------------------
(***************************************************************************)
(* lower_bound_branchless of src/include/simpledb/binary_search.h as an    *)
(* operator.  The range [low, up) is a sequence a: the element *(low + k)  *)
(* is a[k + 1].  Indices and the result are counted from 0 as in the code. *)
(***************************************************************************)
EXTENDS Integers, Sequences

\* fault: the loop runs while anything is left of the range
ContinuesWhileNonEmpty(l) == l > 0

\* while (auto half = l / 2)
Continues(l) == l \div 2 > 0

\* fault: the probe is one element early
ProbedEarly(a, val, i, half) == IF a[i + half] < val THEN i + half ELSE i

\* mid = low + i + half; i = cmp(*mid, val) ? i + half : i
Probed(a, val, i, half) == IF a[i + half + 1] < val THEN i + half ELSE i

\* fault: the rest of the range is taken to be the half
RestIsHalf(l) == l \div 2

\* l -= half
Rest(l) == l - l \div 2

\* if (cmp(*(low + i), val)) ++i
Finished(a, val, i) == IF a[i + 1] < val THEN i + 1 ELSE i

RECURSIVE Loop(_, _, _, _)
Loop(a, val, l, i) ==
    IF Continues(l) THEN Loop(a, val, Rest(l), Probed(a, val, i, l \div 2))
    ELSE Finished(a, val, i)

LowerBoundBranchless(a, val) == IF Len(a) = 0 THEN 0 ELSE Loop(a, val, Len(a), 0)

=============================================================================
