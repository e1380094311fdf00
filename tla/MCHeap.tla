------------------------------- MODULE MCHeap -------------------------------
(***************************************************************************)
(* Heap and its inductive invariant for TLC: a header of two bytes, so     *)
(* that byte counts round up, and a heap of a few units.                   *)
(***************************************************************************)
EXTENDS HeapProofs

(* 1, 2, 3 and 5 units: less than NALLOC, exactly it, and more.            *)
MCRequests == {0, 1, 4, 7}
=============================================================================
