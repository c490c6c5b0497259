---------------------------- MODULE MCSPSegment ----------------------------
(* SPSegment instantiated for TLC: pages of 1024 bytes, as Database uses. *)
EXTENDS SPSegment

\* ceil(2^(1.25 * i)) for i = 1..7
Pow1024 == <<3, 6, 14, 32, 77, 182, 431>>
=============================================================================
