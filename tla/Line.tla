-------------------------------- MODULE Line --------------------------------
(***************************************************************************)
(* DrawLine() of libsys/vgadraw.c and LFB_DrawLine() of libsys/lfbdraw.c:  *)
(* the midpoint algorithm, the same in both, which decides every pixel     *)
(* from the sign of an integer it only adds to.  Each iteration of a loop  *)
(* is a step; a step sets the pixel (x, y).                                *)
(***************************************************************************)
EXTENDS Integers

CONSTANT MaxCoord   \* of a uint16_t: 65535 in the code

Coord == 0 .. MaxCoord

ASSUME LineAssumption == MaxCoord \in Nat

VARIABLES
  pc,              \* "idle" or "draw"
  x0, y0, x1, y1,  \* the arguments
  x, y, d          \* locals

args == <<x0, y0, x1, y1>>
vars == <<pc, args, x, y, d>>

ABS(n) == IF n >= 0 THEN n ELSE -n
dx == x1 - x0
dy == y1 - y0
(* Mutant of incx: no step for a line to the left.                         *)
incxZero == IF x1 > x0 THEN 1 ELSE 0

incx == IF x1 > x0 THEN 1 ELSE -1
incy == IF y1 > y0 THEN 1 ELSE -1

Flat == ABS(dx) > ABS(dy)

Init ==
  /\ pc = "idle"
  /\ x0 = 0 /\ y0 = 0 /\ x1 = 0 /\ y1 = 0
  /\ x = 0 /\ y = 0 /\ d = 0

(* The first pixel, and the decision for the second.                       *)
DrawLine ==
  /\ pc = "idle"
  /\ pc' = "draw"
  /\ x0' \in Coord /\ y0' \in Coord /\ x1' \in Coord /\ y1' \in Coord
  /\ x' = x0' /\ y' = y0'
  /\ d' = IF Flat' THEN 2 * ABS(dy)' - ABS(dx)' ELSE 2 * ABS(dx)' - ABS(dy)'

(* Mutant of StepX: the increment of the other loop.                       *)
StepXWrongIncrement ==
  /\ pc = "draw" /\ Flat /\ x # x1
  /\ x' = x + incx
  /\ IF d <= 0 THEN y' = y /\ d' = d + 2 * ABS(dx)
     ELSE y' = y + incy /\ d' = d + 2 * (ABS(dy) - ABS(dx))
  /\ UNCHANGED <<pc, args>>

(* The loop for lines nearer the horizontal: east, or south-east.          *)
StepX ==
  /\ pc = "draw" /\ Flat /\ x # x1
  /\ x' = x + incx
  /\ IF d <= 0 THEN y' = y /\ d' = d + 2 * ABS(dy)
     ELSE y' = y + incy /\ d' = d + 2 * (ABS(dy) - ABS(dx))
  /\ UNCHANGED <<pc, args>>

(* Mutant of StepY: the line always leans to the right.                    *)
StepYRight ==
  /\ pc = "draw" /\ ~Flat /\ y # y1
  /\ y' = y + incy
  /\ IF d <= 0 THEN x' = x /\ d' = d + 2 * ABS(dx)
     ELSE x' = x + 1 /\ d' = d + 2 * (ABS(dx) - ABS(dy))
  /\ UNCHANGED <<pc, args>>

(* The loop for the others: south, or south-east.                          *)
StepY ==
  /\ pc = "draw" /\ ~Flat /\ y # y1
  /\ y' = y + incy
  /\ IF d <= 0 THEN x' = x /\ d' = d + 2 * ABS(dx)
     ELSE x' = x + incx /\ d' = d + 2 * (ABS(dx) - ABS(dy))
  /\ UNCHANGED <<pc, args>>

Done == IF Flat THEN x = x1 ELSE y = y1

(* The arguments and locals are gone.                                      *)
Return ==
  /\ pc = "draw" /\ Done
  /\ pc' = "idle"
  /\ x0' = 0 /\ y0' = 0 /\ x1' = 0 /\ y1' = 0
  /\ x' = 0 /\ y' = 0 /\ d' = 0

Next == DrawLine \/ StepX \/ StepY \/ Return

Spec == Init /\ [][Next]_vars /\ WF_vars(StepX \/ StepY \/ Return)

-----------------------------------------------------------------------------
(* Every coordinate stays one of a uint16_t.                               *)
TypeOK ==
  /\ pc \in {"idle", "draw"}
  /\ x0 \in Coord /\ y0 \in Coord /\ x1 \in Coord /\ y1 \in Coord
  /\ x \in Coord /\ y \in Coord
  /\ d \in Int

(* Columns and rows drawn so far, in the direction of the line.            *)
Across == incx * (x - x0)
Down == incy * (y - y0)

(* No pixel is further than half a pixel from the line, measured along the *)
(* minor axis, although the loop never multiplies or divides.              *)
NearLine ==
  LET off == 2 * (ABS(dy) * Across - ABS(dx) * Down)
  IN  pc = "draw" =>
        IF Flat THEN ABS(off) <= ABS(dx) ELSE ABS(off) <= ABS(dy)

(* The line ends at (x1, y1) though each loop tests one coordinate only,   *)
(* and until then no pixel is outside the box of the two end points.       *)
EndsAtTarget ==
  pc = "draw" =>
    /\ Across \in 0 .. ABS(dx) /\ Down \in 0 .. ABS(dy)
    /\ Done => x = x1 /\ y = y1

(* The loop tests for equality and ends nevertheless.                      *)
LineEnds == pc = "draw" ~> pc = "idle"
=============================================================================
