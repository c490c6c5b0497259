---------------------------- MODULE MCBTreeSearch ----------------------------
(***************************************************************************)
(* The tree of one thread together with the search its nodes use.          *)
(* BTreeNode takes lower_bound_branchless as one operator on the keys of a *)
(* node; LowerBound is the loop inside it, an iteration per step, on       *)
(* ranges longer than a node of this instance holds.  A behaviour is one   *)
(* of the two, chosen by `part`, with the other at rest.                   *)
(***************************************************************************)
EXTENDS MCBTree

CONSTANTS MaxLen,   \* bound: length of the range searched
          MaxKey    \* the range holds keys 1..MaxKey

VARIABLES part, a, val, l, i, at, probes

Search == INSTANCE LowerBound WITH pc <- at

searchVars == <<a, val, l, i, at, probes>>

Parts == {"tree", "search"}

\* no search is running: the last one, of an empty range, has returned
SearchAtRest ==
    /\ a = <<>> /\ val = 1
    /\ l = 0 /\ i = 0 /\ probes = 0
    /\ at = "done"

PartsInit ==
    /\ part \in Parts
    /\ Init
    /\ IF part = "search" THEN Search!Init ELSE SearchAtRest

PartsNext ==
    \/ part = "tree" /\ Next /\ UNCHANGED <<part, searchVars>>
    \/ part = "search" /\ Search!Next /\ UNCHANGED <<part, vars>>

PartsSpec == PartsInit /\ [][PartsNext]_<<part, vars, searchVars>>

PartsTypeOK == part \in Parts /\ TypeOK /\ Search!TypeOK

AnswerInWindow == Search!AnswerInWindow
ResultIsLowerBound == Search!ResultIsLowerBound
ProbesAreLogarithmic == Search!ProbesAreLogarithmic
=============================================================================
