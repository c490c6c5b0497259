---------------------------- MODULE MCBufferFile ----------------------------
(***************************************************************************)
(* The buffer manager together with the file of a segment.  BufferManager  *)
(* takes the read and the write-back of a page as one step on `disk`;      *)
(* SegmentFile is what getSegmentData and flushPage do inside that step,   *)
(* under more threads than the pool's instance has.  A behaviour is one of *)
(* the two, chosen by `part`, with the other at rest.                      *)
(***************************************************************************)
EXTENDS BufferManager

CONSTANTS FileThreads,  \* threads inside getSegmentData / flushPage
          FilePages     \* pages of the segment that are ever asked for

VARIABLES part, file, latch, at, segPageId, loaded

Segment == INSTANCE SegmentFile
               WITH Threads <- FileThreads, NumPages <- FilePages, pc <- at

fileVars == <<file, latch, at, segPageId, loaded>>

Parts == {"pool", "file"}

\* The threads of the pool are interchangeable.
Symmetry == Permutations(Threads)

PartsInit == part \in Parts /\ Init /\ Segment!Init

PartsNext ==
    \/ part = "pool" /\ Next /\ UNCHANGED <<part, fileVars>>
    \/ part = "file" /\ Segment!Next /\ UNCHANGED <<part, vars>>

PartsSpec == PartsInit /\ [][PartsNext]_<<part, vars, fileVars>>

PartsTypeOK == part \in Parts /\ TypeOK /\ Segment!TypeOK

BlocksInsideFile == Segment!BlocksInsideFile
=============================================================================
