---------------------------- MODULE AbstractHeap ----------------------------
(***************************************************************************)
(* What malloc() and free() of libc/stdlib.c promise to the program that   *)
(* calls them, with no free list: a set of blocks the program owns inside  *)
(* the memory below the program break, and at most one request under way.  *)
(*                                                                         *)
(*   - a block handed out is long enough for the bytes asked for and lies  *)
(*     in memory no other block uses;                                      *)
(*   - the system is asked for more memory only when no run of contiguous  *)
(*     free units is long enough, however the memory was freed before;     *)
(*   - NULL is returned only while brk() has not been called.              *)
(***************************************************************************)
EXTENDS Integers

CONSTANTS
  HDR,         \* sizeof(Header): the bytes in one allocation unit
  HeapStart    \* the unit brk() sets the program break to

VARIABLES
  blocks,      \* blocks the program owns: [at: first unit, len: units]
  want,        \* bytes of the request under way, or NoRequest
  top          \* the program break, in units

vars == <<blocks, want, top>>

NoRequest == -1

UnitsOf(b) == b.at .. (b.at + b.len - 1)

OwnedUnits == UNION {UnitsOf(b) : b \in blocks}

(* A block of len units, its header counted, has room for nbytes bytes.    *)
HasRoom(len, nbytes) == (len - 1) * HDR >= nbytes

(* The units at .. at+len-1 are memory of the heap that no block uses.     *)
FreeRun(at, len) ==
  /\ at >= HeapStart
  /\ at + len <= top
  /\ \A u \in at .. (at + len - 1) : u \notin OwnedUnits

Init ==
  /\ blocks = {}
  /\ want = NoRequest
  /\ top < HeapStart

(* brk(): the heap starts to exist.                                        *)
SetBreak ==
  /\ want = NoRequest
  /\ top < HeapStart
  /\ top' = HeapStart
  /\ UNCHANGED <<blocks, want>>

Request ==
  /\ want = NoRequest
  /\ want' >= 0
  /\ UNCHANGED <<blocks, top>>

(* The break moves by enough for the request, and only when nothing fits.  *)
Grow ==
  /\ want # NoRequest
  /\ top >= HeapStart
  /\ \A at \in HeapStart .. top : \A len \in 1 .. (top - at) :
        HasRoom(len, want) => ~FreeRun(at, len)
  /\ HasRoom(top' - top, want)
  /\ UNCHANGED <<blocks, want>>

(* malloc() returns a block.                                               *)
Serve ==
  /\ want # NoRequest
  /\ \E b \in blocks' :
        /\ blocks' = blocks \cup {b}
        /\ HasRoom(b.len, want)
        /\ FreeRun(b.at, b.len)
  /\ want' = NoRequest
  /\ UNCHANGED top

(* malloc() returns NULL: the heap does not exist yet.                     *)
Refuse ==
  /\ want # NoRequest
  /\ top < HeapStart
  /\ want' = NoRequest
  /\ UNCHANGED blocks
  /\ top' < HeapStart

(* free()                                                                  *)
Release ==
  /\ want = NoRequest
  /\ \E b \in blocks : blocks' = blocks \ {b}
  /\ UNCHANGED <<want, top>>

Next == SetBreak \/ Request \/ Grow \/ Serve \/ Refuse \/ Release

Spec == Init /\ [][Next]_vars
=============================================================================
