-------------------------- MODULE MCBufferManager --------------------------
(* BufferManager instantiated for TLC. *)
EXTENDS BufferManager

\* Threads are interchangeable; pages are not (they are fixed in pid order).
Symmetry == Permutations(Threads)
=============================================================================
