--------------------------- MODULE DrawingProofs ---------------------------
(***************************************************************************)
(* The midpoint algorithm is right for every pair of points, and no pixel  *)
(* is stored outside video memory, whatever the sizes.                     *)
(*                                                                         *)
(* The invariant of a line says what the decision variable stands for:     *)
(* twice the signed area between the line and the middle of the next two   *)
(* candidate pixels.  Its bounds are what keeps the pixels near the line,  *)
(* and near the line at the last column (or row) leaves only the second    *)
(* point.                                                                  *)
(*                                                                         *)
(* Of what is stored, a point rests on the largest result of rand_r()      *)
(* being RAND_MAX, a line on the box of its end points, which it never     *)
(* leaves.                                                                 *)
(***************************************************************************)
EXTENDS Drawing, TLAPS

-----------------------------------------------------------------------------
(* The line (_draw_line).                                                  *)

(* i of a steps were made along the line's major axis and j along its      *)
(* minor axis, whose length is b, and the decision variable is e.          *)
Track(a, b, i, j, e) ==
  /\ i \in 0 .. a
  /\ j \in 0 .. i
  /\ e = 2 * (b * i) - 2 * (a * j) + 2 * b - a
  /\ 2 * b - 2 * a <= e
  /\ e <= 2 * b

IInv ==
  /\ pc \in {"idle", "draw"}
  /\ x0 \in Coord /\ y0 \in Coord /\ x1 \in Coord /\ y1 \in Coord
  /\ x \in Int /\ y \in Int /\ d \in Int
  /\ pc = "idle" => x = 0 /\ y = 0
  /\ pc = "draw" => IF Flat THEN Track(ABS(dx), ABS(dy), Across, Down, d)
                    ELSE Track(ABS(dy), ABS(dx), Down, Across, d)

(* One step along the major axis keeps the decision variable's meaning and *)
(* its bounds.                                                             *)
LEMMA TrackStep ==
  ASSUME NEW a \in Nat, NEW b \in Nat, b <= a,
         NEW i \in Int, NEW j \in Int, NEW e \in Int,
         Track(a, b, i, j, e), i # a
  PROVE  /\ e <= 0 => Track(a, b, i + 1, j, e + 2 * b)
         /\ e > 0 => Track(a, b, i + 1, j + 1, e + 2 * (b - a))
<1>1. i \in Nat /\ j \in Nat /\ i + 1 \in 0 .. a /\ j <= i
  BY DEF Track
<1>2. b * (i + 1) = b * i + b /\ a * (j + 1) = a * j + a
  BY <1>1
<1>3. b * i \in Int /\ a * j \in Int
  BY <1>1
<1>4. ASSUME e <= 0 PROVE Track(a, b, i + 1, j, e + 2 * b)
  BY <1>1, <1>2, <1>3, <1>4 DEF Track
<1>5. ASSUME e > 0 PROVE Track(a, b, i + 1, j + 1, e + 2 * (b - a))
  BY <1>1, <1>2, <1>3, <1>5 DEF Track
<1> QED
  BY <1>4, <1>5

(* The pixel is within half a pixel, never past the end of the minor axis, *)
(* and at its end when the major axis is.                                  *)
LEMMA TrackMeans ==
  ASSUME NEW a \in Nat, NEW b \in Nat, b <= a,
         NEW i \in Int, NEW j \in Int, NEW e \in Int,
         Track(a, b, i, j, e)
  PROVE  /\ ABS(2 * (b * i - a * j)) <= a
         /\ j \in 0 .. b
         /\ i = a => j = b
<1>1. i \in 0 .. a /\ j \in 0 .. i
  BY DEF Track
<1>2. b * i \in Int /\ a * j \in Int
  BY <1>1
<1>3. -a <= 2 * (b * i) - 2 * (a * j) /\ 2 * (b * i) - 2 * (a * j) <= a
  BY <1>2 DEF Track
<1>4. ABS(2 * (b * i - a * j)) <= a
  BY <1>2, <1>3 DEF ABS
<1>5. PICK k \in Nat : a = i + k
  <2>1. a - i \in Nat
    BY <1>1
  <2> QED
    BY <2>1, <1>1
<1>6. b * a = b * i + b * k /\ b * k \in Nat /\ b * a = a * b
  BY <1>1, <1>5
<1>7. CASE a = 0
  BY <1>1, <1>4, <1>7
<1>8. CASE a > 0
  <2>1. j <= b
    <3> SUFFICES ASSUME j >= b + 1 PROVE FALSE
      BY <1>1
    <3>1. PICK m \in Nat : j = b + 1 + m
      <4>1. j - (b + 1) \in Nat
        BY <1>1
      <4> QED
        BY <4>1, <1>1
    <3>2. a * j = a * b + a + a * m /\ a * m \in Nat
      BY <3>1
    <3> QED
      BY <3>2, <1>2, <1>3, <1>6, <1>8
  <2>2. ASSUME i = a, j < b PROVE FALSE
    <3>1. PICK m \in Nat : b = j + 1 + m
      <4>1. b - (j + 1) \in Nat
        BY <1>1, <2>2
      <4> QED
        BY <4>1, <1>1
    <3>2. a * b = a * j + a + a * m /\ a * m \in Nat
      BY <3>1, <1>1
    <3>3. b * i = a * b
      BY <2>2
    <3> QED
      BY <3>2, <3>3, <1>2, <1>3, <1>8
  <2> QED
    BY <1>1, <1>4, <2>1, <2>2
<1> QED
  BY <1>7, <1>8

(* The lengths of the two axes.                                            *)
LEMMA Lengths ==
  ASSUME IInv
  PROVE  /\ dx \in Int /\ dy \in Int
         /\ ABS(dx) \in Nat /\ ABS(dy) \in Nat
         /\ Across \in Int /\ Down \in Int
         /\ Flat => ABS(dy) <= ABS(dx)
         /\ ~Flat => ABS(dx) <= ABS(dy)
<1> USE LineAssumption
<1>1. x0 \in Int /\ x1 \in Int /\ y0 \in Int /\ y1 \in Int /\ x \in Int /\ y \in Int
  BY DEF IInv, Coord
<1>2. dx \in Int /\ dy \in Int
  BY <1>1 DEF dx, dy
<1>3. ABS(dx) \in Nat /\ ABS(dy) \in Nat
  BY <1>2 DEF ABS
<1>4. Across \in Int /\ Down \in Int
  BY <1>1 DEF Across, Down, incx, incy
<1> QED
  BY <1>2, <1>3, <1>4 DEF Flat

(* A coordinate within its axis is between the end points, and at the      *)
(* second when the axis ends.                                              *)
LEMMA AxisX ==
  ASSUME IInv, Across \in 0 .. ABS(dx)
  PROVE  x \in Coord /\ (x = x1 <=> Across = ABS(dx))
<1> USE LineAssumption
<1>1. x0 \in Coord /\ x1 \in Coord /\ x \in Int
  BY DEF IInv
<1>2. CASE x1 > x0
  BY <1>1, <1>2 DEF Across, incx, dx, ABS, Coord
<1>3. CASE ~(x1 > x0)
  BY <1>1, <1>3 DEF Across, incx, dx, ABS, Coord
<1> QED
  BY <1>2, <1>3

LEMMA AxisY ==
  ASSUME IInv, Down \in 0 .. ABS(dy)
  PROVE  y \in Coord /\ (y = y1 <=> Down = ABS(dy))
<1> USE LineAssumption
<1>1. y0 \in Coord /\ y1 \in Coord /\ y \in Int
  BY DEF IInv
<1>2. CASE y1 > y0
  BY <1>1, <1>2 DEF Down, incy, dy, ABS, Coord
<1>3. CASE ~(y1 > y0)
  BY <1>1, <1>3 DEF Down, incy, dy, ABS, Coord
<1> QED
  BY <1>2, <1>3

(* What the bounds mean for the pixel being set.                           *)
LEMMA DrawMeans ==
  ASSUME IInv, pc = "draw"
  PROVE  /\ Across \in 0 .. ABS(dx) /\ Down \in 0 .. ABS(dy)
         /\ Flat /\ Across = ABS(dx) => Down = ABS(dy)
         /\ ~Flat /\ Down = ABS(dy) => Across = ABS(dx)
         /\ Flat => ABS(2 * (ABS(dy) * Across - ABS(dx) * Down)) <= ABS(dx)
         /\ ~Flat => ABS(2 * (ABS(dx) * Down - ABS(dy) * Across)) <= ABS(dy)
<1> DEFINE a == ABS(dx)
           b == ABS(dy)
<1>1. a \in Nat /\ b \in Nat /\ Across \in Int /\ Down \in Int /\ d \in Int
  BY Lengths DEF IInv
<1>2. CASE Flat
  <2>1. b <= a /\ Track(a, b, Across, Down, d)
    BY <1>2, Lengths DEF IInv
  <2> HIDE DEF a, b
  <2>2. Across \in 0 .. a
    BY <2>1 DEF Track
  <2>3. /\ ABS(2 * (b * Across - a * Down)) <= a
        /\ Down \in 0 .. b
        /\ Across = a => Down = b
    BY <1>1, <2>1, TrackMeans
  <2> QED
    BY <1>2, <2>2, <2>3 DEF a, b
<1>3. CASE ~Flat
  <2>1. a <= b /\ Track(b, a, Down, Across, d)
    BY <1>3, Lengths DEF IInv
  <2> HIDE DEF a, b
  <2>2. Down \in 0 .. b
    BY <2>1 DEF Track
  <2>3. /\ ABS(2 * (a * Down - b * Across)) <= b
        /\ Across \in 0 .. a
        /\ Down = b => Across = a
    BY <1>1, <2>1, TrackMeans
  <2> QED
    BY <1>3, <2>2, <2>3 DEF a, b
<1> QED
  BY <1>2, <1>3

LEMMA DrawLineInductive ==
  ASSUME IInv, DrawLine
  PROVE  IInv'
<1> USE LineAssumption
<1>1. /\ x0' \in Coord /\ y0' \in Coord /\ x1' \in Coord /\ y1' \in Coord
      /\ x' = x0' /\ y' = y0' /\ pc' = "draw"
  BY DEF DrawLine
<1>2. ABS(dx)' \in Nat /\ ABS(dy)' \in Nat
  <2>1. PICK p \in Coord, q \in Coord, r \in Coord, s \in Coord :
          x0' = p /\ y0' = q /\ x1' = r /\ y1' = s
    BY <1>1
  <2>2. r - p \in Int /\ s - q \in Int
    BY DEF Coord
  <2> QED
    BY <2>1, <2>2 DEF dx, dy, ABS
<1>3. incx' \in {1, -1} /\ incy' \in {1, -1}
  BY DEF incx, incy
<1>4. Across' = 0 /\ Down' = 0
  <2>1. PICK p \in Coord, q \in Coord : x0' = p /\ y0' = q /\ x' = p /\ y' = q
    BY <1>1
  <2>2. p - p = 0 /\ q - q = 0
    BY DEF Coord
  <2> QED
    BY <1>3, <2>1, <2>2 DEF Across, Down
<1>5. CASE Flat'
  <2>1. d' = 2 * ABS(dy)' - ABS(dx)' /\ ABS(dy)' <= ABS(dx)'
    BY <1>2, <1>5 DEF DrawLine, Flat
  <2>2. Track(ABS(dx)', ABS(dy)', Across', Down', d')
    BY <2>1, <1>2, <1>4 DEF Track
  <2> QED
    BY <1>1, <1>2, <1>5, <2>1, <2>2 DEF IInv, Coord
<1>6. CASE ~Flat'
  <2>1. d' = 2 * ABS(dx)' - ABS(dy)' /\ ABS(dx)' <= ABS(dy)'
    BY <1>2, <1>6 DEF DrawLine, Flat
  <2>2. Track(ABS(dy)', ABS(dx)', Down', Across', d')
    BY <2>1, <1>2, <1>4 DEF Track
  <2> QED
    BY <1>1, <1>2, <1>6, <2>1, <2>2 DEF IInv, Coord
<1> QED
  BY <1>5, <1>6

(* A step along an axis counts one more, whatever its direction.           *)
LEMMA Moves ==
  ASSUME IInv, UNCHANGED args
  PROVE  /\ dx' = dx /\ dy' = dy /\ (Flat' <=> Flat)
         /\ x' = x => Across' = Across
         /\ y' = y => Down' = Down
         /\ x' = x + incx => x' \in Int /\ Across' = Across + 1
         /\ y' = y + incy => y' \in Int /\ Down' = Down + 1
<1>1. x0 \in Int /\ y0 \in Int /\ x \in Int /\ y \in Int
  BY LineAssumption DEF IInv, Coord
<1>2. dx' = dx /\ dy' = dy /\ incx' = incx /\ incy' = incy
  BY DEF args, dx, dy, incx, incy
<1>3. incx \in {1, -1} /\ incy \in {1, -1}
  BY DEF incx, incy
<1> QED
  BY <1>1, <1>2, <1>3 DEF args, Across, Down, Flat

LEMMA StepXInductive ==
  ASSUME IInv, StepX
  PROVE  IInv'
<1> DEFINE a == ABS(dx)
           b == ABS(dy)
<1>1. pc = "draw" /\ Flat /\ x # x1 /\ x' = x + incx /\ UNCHANGED <<pc, args>>
  BY DEF StepX
<1>2. a \in Nat /\ b \in Nat /\ b <= a /\ Across \in Int /\ Down \in Int /\ d \in Int
  BY <1>1, Lengths DEF IInv
<1>3. Track(a, b, Across, Down, d) /\ Across # a
  BY <1>1, DrawMeans, AxisX DEF IInv
<1>4. a' = a /\ b' = b /\ Flat' /\ x' \in Int /\ Across' = Across + 1
  BY <1>1, Moves
<1>5. UNCHANGED <<x0, y0, x1, y1>>
  BY <1>1 DEF args
<1>6. y \in Int /\ y + incy \in Int
  BY DEF IInv, incy
<1>7. CASE d <= 0
  <2>1. y' = y /\ d' = d + 2 * b
    BY <1>7 DEF StepX
  <2>2. Down' = Down
    BY <1>1, <2>1, Moves
  <2>3. Track(a, b, Across + 1, Down, d + 2 * b)
    <3> HIDE DEF a, b
    <3> QED
      BY <1>2, <1>3, <1>7, TrackStep
  <2>4. Track(a', b', Across', Down', d') /\ d' \in Int
    <3>1. d' \in Int
      <4> HIDE DEF a, b
      <4> QED
        BY <1>2, <2>1
    <3> QED
      BY <1>4, <2>1, <2>2, <2>3, <3>1
  <2> QED
    BY <1>1, <1>4, <1>5, <1>6, <2>1, <2>4 DEF IInv
<1>8. CASE d > 0
  <2>1. y' = y + incy /\ d' = d + 2 * (b - a)
    BY <1>2, <1>8 DEF StepX
  <2>2. Down' = Down + 1
    BY <1>1, <2>1, Moves
  <2>3. Track(a, b, Across + 1, Down + 1, d + 2 * (b - a))
    <3> HIDE DEF a, b
    <3> QED
      BY <1>2, <1>3, <1>8, TrackStep
  <2>4. Track(a', b', Across', Down', d') /\ d' \in Int
    <3>1. d' \in Int
      <4> HIDE DEF a, b
      <4> QED
        BY <1>2, <2>1
    <3> QED
      BY <1>4, <2>1, <2>2, <2>3, <3>1
  <2> QED
    BY <1>1, <1>4, <1>5, <1>6, <2>1, <2>4 DEF IInv
<1> QED
  BY <1>2, <1>7, <1>8

LEMMA StepYInductive ==
  ASSUME IInv, StepY
  PROVE  IInv'
<1> DEFINE a == ABS(dy)
           b == ABS(dx)
<1>1. pc = "draw" /\ ~Flat /\ y # y1 /\ y' = y + incy /\ UNCHANGED <<pc, args>>
  BY DEF StepY
<1>2. a \in Nat /\ b \in Nat /\ b <= a /\ Across \in Int /\ Down \in Int /\ d \in Int
  BY <1>1, Lengths DEF IInv
<1>3. Track(a, b, Down, Across, d) /\ Down # a
  BY <1>1, DrawMeans, AxisY DEF IInv
<1>4. a' = a /\ b' = b /\ ~Flat' /\ y' \in Int /\ Down' = Down + 1
  BY <1>1, Moves
<1>5. UNCHANGED <<x0, y0, x1, y1>>
  BY <1>1 DEF args
<1>6. x \in Int /\ x + incx \in Int
  BY DEF IInv, incx
<1>7. CASE d <= 0
  <2>1. x' = x /\ d' = d + 2 * b
    BY <1>7 DEF StepY
  <2>2. Across' = Across
    BY <1>1, <2>1, Moves
  <2>3. Track(a, b, Down + 1, Across, d + 2 * b)
    <3> HIDE DEF a, b
    <3> QED
      BY <1>2, <1>3, <1>7, TrackStep
  <2>4. Track(a', b', Down', Across', d') /\ d' \in Int
    <3>1. d' \in Int
      <4> HIDE DEF a, b
      <4> QED
        BY <1>2, <2>1
    <3> QED
      BY <1>4, <2>1, <2>2, <2>3, <3>1
  <2> QED
    BY <1>1, <1>4, <1>5, <1>6, <2>1, <2>4 DEF IInv
<1>8. CASE d > 0
  <2>1. x' = x + incx /\ d' = d + 2 * (b - a)
    BY <1>2, <1>8 DEF StepY
  <2>2. Across' = Across + 1
    BY <1>1, <2>1, Moves
  <2>3. Track(a, b, Down + 1, Across + 1, d + 2 * (b - a))
    <3> HIDE DEF a, b
    <3> QED
      BY <1>2, <1>3, <1>8, TrackStep
  <2>4. Track(a', b', Down', Across', d') /\ d' \in Int
    <3>1. d' \in Int
      <4> HIDE DEF a, b
      <4> QED
        BY <1>2, <2>1
    <3> QED
      BY <1>4, <2>1, <2>2, <2>3, <3>1
  <2> QED
    BY <1>1, <1>4, <1>5, <1>6, <2>1, <2>4 DEF IInv
<1> QED
  BY <1>2, <1>7, <1>8

LEMMA ReturnInductive ==
  ASSUME IInv, Return
  PROVE  IInv'
  BY LineAssumption DEF IInv, Return, Coord

(* The invariant holds before the first call.                              *)
LEMMA LineInit == Init => IInv
  BY LineAssumption DEF Init, IInv, Coord

(* Every step keeps the inductive invariant.                               *)
LEMMA LineStep == IInv /\ [Next]_vars => IInv'
<1> SUFFICES ASSUME IInv, [Next]_vars PROVE IInv'
  OBVIOUS
<1>1. CASE DrawLine
  BY <1>1, DrawLineInductive
<1>2. CASE StepX
  BY <1>2, StepXInductive
<1>3. CASE StepY
  BY <1>3, StepYInductive
<1>4. CASE Return
  BY <1>4, ReturnInductive
<1>5. CASE UNCHANGED vars
  <2>1. UNCHANGED <<pc, x0, y0, x1, y1, x, y, d>>
    BY <1>5 DEF vars, args
  <2>2. dx' = dx /\ dy' = dy /\ (Flat' <=> Flat) /\ Across' = Across /\ Down' = Down
    BY <2>1 DEF dx, dy, Flat, Across, Down, incx, incy
  <2> QED
    BY <2>1, <2>2 DEF IInv
<1> QED
  BY <1>1, <1>2, <1>3, <1>4, <1>5 DEF Next

(* Every reachable state satisfies the inductive invariant.                *)
THEOREM LineInductive == Spec => []IInv
  BY LineInit, LineStep, PTL DEF Spec

(* Every coordinate stays one of a uint16_t.                               *)
THEOREM LineTypeCorrect == Spec => []TypeOK
<1>1. IInv => TypeOK
  <2> SUFFICES ASSUME IInv PROVE TypeOK
    OBVIOUS
  <2>1. x \in Coord /\ y \in Coord
    <3>1. CASE pc = "draw"
      BY <3>1, DrawMeans, AxisX, AxisY
    <3>2. CASE pc = "idle"
      BY <3>2, LineAssumption DEF IInv, Coord
    <3> QED
      BY <3>1, <3>2 DEF IInv
  <2> QED
    BY <2>1 DEF IInv, TypeOK
<1> QED
  BY <1>1, LineInductive, PTL

(* The invariant keeps the pixels near the line.                           *)
LEMMA Near == IInv => NearLine
<1> SUFFICES ASSUME IInv, pc = "draw"
             PROVE  LET off == 2 * (ABS(dy) * Across - ABS(dx) * Down)
                    IN  IF Flat THEN ABS(off) <= ABS(dx) ELSE ABS(off) <= ABS(dy)
  BY DEF NearLine
<1>1. CASE Flat
  BY <1>1, DrawMeans
<1>2. CASE ~Flat
  <2>1. ABS(2 * (ABS(dx) * Down - ABS(dy) * Across)) <= ABS(dy)
    BY <1>2, DrawMeans
  <2>2. /\ ABS(dx) * Down \in Int /\ ABS(dy) * Across \in Int
    BY Lengths
  <2>3. ABS(2 * (ABS(dy) * Across - ABS(dx) * Down))
          = ABS(2 * (ABS(dx) * Down - ABS(dy) * Across))
    <3>1. ASSUME NEW p \in Int, NEW q \in Int
          PROVE  ABS(2 * (p - q)) = ABS(2 * (q - p))
      BY DEF ABS
    <3> QED
      BY <2>2, <3>1
  <2> QED
    BY <1>2, <2>1, <2>3
<1> QED
  BY <1>1, <1>2

(* No pixel of any line is further than half a pixel from it.              *)
THEOREM LineIsNear == Spec => []NearLine
  BY Near, LineInductive, PTL

(* The invariant keeps a line in the box of its end points.                *)
LEMMA InBox == IInv => EndsAtTarget
<1> SUFFICES ASSUME IInv, pc = "draw"
             PROVE  /\ Across \in 0 .. ABS(dx) /\ Down \in 0 .. ABS(dy)
                    /\ Done => x = x1 /\ y = y1
  BY DEF EndsAtTarget
<1> QED
  BY DrawMeans, AxisX, AxisY DEF Done

(* Every line stays in the box of its end points and ends at the second.   *)
THEOREM LineEndsAtTarget == Spec => []EndsAtTarget
  BY InBox, LineInductive, PTL

-----------------------------------------------------------------------------
(* What is stored where (SetPixel, LFB_DrawLine and the two demos).        *)
DInv ==
  /\ IInv
  /\ build \in {"vga", "vesa"}
  /\ build = "vga" => width = WIDTH
  /\ build = "vesa" => width \in {0, XRES}
  /\ pc = "draw" =>
       /\ build = "vesa" /\ width = XRES
       /\ x0 \in 0 .. XRES /\ x1 \in 0 .. XRES
       /\ y0 \in 0 .. YRES /\ y1 \in 0 .. YRES
  /\ StoresInVideoMemory

-----------------------------------------------------------------------------
(* Three draws put together stay below the product of their ranges.        *)
LEMMA Mixed ==
  ASSUME NEW h \in Nat, NEW l \in Nat, NEW a \in Nat, NEW b \in Nat, NEW c \in Nat,
         a <= h - 1, b <= l - 1, c <= l - 1
  PROVE  (a * l + b) * l + c \in 0 .. h * (l * l) - 1
<1>1. a * l <= (h - 1) * l /\ a * l \in Nat
  OBVIOUS
<1> DEFINE m == a * l + b
<1>2. m \in Nat /\ m <= h * l - 1
  BY <1>1
<1> HIDE DEF m
<1>3. m * l <= (h * l - 1) * l /\ m * l \in Nat
  <2>1. h * l \in Nat
    OBVIOUS
  <2>2. ASSUME NEW k \in Nat, m <= k - 1 PROVE m * l <= (k - 1) * l /\ m * l \in Nat
    BY <1>2, <2>2
  <2> QED
    BY <1>2, <2>1, <2>2
<1>4. (h * l - 1) * l = h * (l * l) - l
  OBVIOUS
<1>5. m * l + c \in 0 .. h * (l * l) - 1
  BY <1>3, <1>4
<1> QED
  BY <1>5 DEF m

(* The draws fill the bits of a nonnegative int, and no more.              *)
LEMMA RandInRange == RAND_MAX \in Nat \ {0} /\ rand_r \subseteq 0 .. RAND_MAX
<1> USE DrawingAssumption
<1>1. RAND_MAX \in Nat \ {0}
  <2>1. Low * Low \in Nat /\ Low * Low >= 1
    OBVIOUS
  <2>2. ASSUME NEW k \in Nat, k >= 1 PROVE High * k - 1 \in Nat \ {0}
    BY <2>2
  <2> QED
    BY <2>1, <2>2 DEF RAND_MAX
<1>2. ASSUME NEW a \in 0 .. High - 1, NEW b \in 0 .. Low - 1, NEW c \in 0 .. Low - 1
      PROVE  AsInt((a * Low + b) * Low + c) \in 0 .. RAND_MAX
  <2>1. (a * Low + b) * Low + c \in 0 .. RAND_MAX
    BY Mixed DEF RAND_MAX
  <2> QED
    BY <1>1, <2>1 DEF AsInt
<1>3. ASSUME NEW n \in rand_r PROVE n \in 0 .. RAND_MAX
  <2>1. PICK a \in 0 .. High - 1, b \in 0 .. Low - 1, c \in 0 .. Low - 1 :
          n = AsInt((a * Low + b) * Low + c)
    BY DEF rand_r
  <2> QED
    BY <1>2, <2>1
<1> QED
  BY <1>1, <1>3

(* A fraction of n is at most n.                                           *)
LEMMA ScaledInside ==
  ASSUME NEW n \in Nat, NEW r \in 0 .. RAND_MAX
  PROVE  Scaled(n, r) \in 0 .. n
<1>1. PICK m \in Nat \ {0} : m = RAND_MAX
  BY RandInRange
<1>2. n * r <= n * m /\ n * r \in Nat
  BY <1>1
<1> DEFINE p == n * r
           q == p \div m
<1>3. p \in Nat /\ q \in Nat /\ m * q <= p
  BY <1>1, <1>2
<1>4. q <= n
  <2>1. SUFFICES ASSUME q >= n + 1 PROVE FALSE
    BY <1>3
  <2>2. m * q >= m * (n + 1)
    BY <1>1, <1>3, <2>1
  <2> QED
    BY <1>1, <1>2, <1>3, <2>2
<1> QED
  BY <1>1, <1>3, <1>4 DEF Scaled

(* The last index of a rectangle is that of its last corner.               *)
LEMMA IndexInside ==
  ASSUME NEW w \in Nat, NEW h \in Nat, NEW px \in 0 .. w, NEW py \in 0 .. h, NEW k \in Nat
  PROVE  py * k + px \in 0 .. h * k + w
<1>1. py * k <= h * k /\ py * k \in Nat /\ h * k \in Nat
  OBVIOUS
<1> QED
  BY <1>1

-----------------------------------------------------------------------------
LEMMA SetPixelInductive ==
  ASSUME DInv, SetPixel
  PROVE  DInv'
<1> USE DrawingAssumption
<1>1. PICK r \in rand_r, i \in rand_r :
        store' = Index(Scaled(WIDTH - 1, r), Scaled(HEIGHT - 1, i))
  BY DEF SetPixel
<1>2. PICK px \in 0 .. WIDTH - 1, py \in 0 .. HEIGHT - 1 : store' = py * WIDTH + px
  <2>1. WIDTH - 1 \in Nat /\ HEIGHT - 1 \in Nat
    OBVIOUS
  <2>2. width = WIDTH
    BY DEF DInv, SetPixel
  <2> QED
    BY <1>1, <2>1, <2>2, RandInRange, ScaledInside DEF Index
<1>3. store' \in 0 .. WIDTH * HEIGHT - 1
  <2>1. store' \in 0 .. (HEIGHT - 1) * WIDTH + (WIDTH - 1)
    BY <1>2, IndexInside
  <2>2. (HEIGHT - 1) * WIDTH + (WIDTH - 1) = WIDTH * HEIGHT - 1
    OBVIOUS
  <2> QED
    BY <2>1, <2>2
<1>4. UNCHANGED <<pc, x0, y0, x1, y1, x, y, d, build, width>>
  BY DEF SetPixel, vars, args
<1>5. IInv'
  BY LineStep DEF DInv, SetPixel
<1> QED
  BY <1>3, <1>4, <1>5 DEF DInv, StoresInVideoMemory, SetPixel

(* A pixel of a line is in the box, and the box is in the window.          *)
LEMMA LinePixel ==
  ASSUME IInv', pc' = "draw", build = "vesa", build' = build, width = XRES,
         x0' \in 0 .. XRES, x1' \in 0 .. XRES, y0' \in 0 .. YRES, y1' \in 0 .. YRES,
         store' = Index(x', y')
  PROVE  StoresInVideoMemory'
<1> USE DrawingAssumption
<1>1. EndsAtTarget'
  BY InBox, PTL
<1>2. x' \in 0 .. XRES /\ y' \in 0 .. YRES
  <2>1. PICK p \in 0 .. XRES, q \in 0 .. XRES, r \in 0 .. YRES, s \in 0 .. YRES,
             u \in Int, v \in Int :
          p = x0' /\ q = x1' /\ r = y0' /\ s = y1' /\ u = x' /\ v = y'
    BY DEF IInv
  <2>2. /\ (IF q > p THEN 1 ELSE -1) * (u - p) \in 0 .. ABS(q - p)
        /\ (IF s > r THEN 1 ELSE -1) * (v - r) \in 0 .. ABS(s - r)
    BY <1>1, <2>1 DEF EndsAtTarget, Across, Down, incx, incy, dx, dy, ABS
  <2>3. u \in 0 .. XRES /\ v \in 0 .. YRES
    BY <2>2 DEF ABS
  <2> QED
    BY <2>1, <2>3
<1>3. store' \in 0 .. YRES * XRES + XRES
  BY <1>2, IndexInside DEF Index
<1>4. YRES * XRES + XRES <= WINDOW - 1 /\ YRES * XRES + XRES \in Nat
  OBVIOUS
<1> QED
  BY <1>3, <1>4 DEF StoresInVideoMemory

(* Every reachable state satisfies the invariant.                          *)
THEOREM DrawingInductive == DrawingSpec => []DInv
<1> USE DrawingAssumption
<1>1. DrawingInit => DInv
  BY LineInit DEF DrawingInit, DInv, Init, StoresInVideoMemory
<1>2. DInv /\ [DrawingNext]_drawingVars => DInv'
  <2> SUFFICES ASSUME DInv, [DrawingNext]_drawingVars PROVE DInv'
    OBVIOUS
  <2>1. CASE SetPixel
    BY <2>1, SetPixelInductive
  <2>2. CASE LFB_Init
    <3>1. IInv'
      BY <2>2, LineStep DEF DInv, LFB_Init
    <3>2. UNCHANGED <<pc, x0, y0, x1, y1, build, store>>
      BY <2>2 DEF LFB_Init, vars, args
    <3> QED
      BY <2>2, <3>1, <3>2 DEF DInv, LFB_Init, StoresInVideoMemory
  <2>3. CASE LFB_DrawLine
    <3>1. IInv'
      BY <2>3, LineStep DEF DInv, LFB_DrawLine, Next
    <3>2. /\ pc' = "draw" /\ UNCHANGED <<build, width>> /\ store' = Index(x', y')
          /\ build = "vesa" /\ width = XRES
          /\ x0' \in 0 .. XRES /\ x1' \in 0 .. XRES
          /\ y0' \in 0 .. YRES /\ y1' \in 0 .. YRES
      BY <2>3 DEF LFB_DrawLine, DrawLine
    <3>3. StoresInVideoMemory'
      BY <3>1, <3>2, LinePixel
    <3> QED
      BY <3>1, <3>2, <3>3 DEF DInv
  <2>4. CASE Step
    <3>1. IInv'
      BY <2>4, LineStep DEF DInv, Step, Next
    <3>2. /\ pc = "draw" /\ UNCHANGED <<pc, x0, y0, x1, y1, build, width>>
          /\ store' = Index(x', y')
      BY <2>4 DEF Step, StepX, StepY, args
    <3>3. StoresInVideoMemory'
      BY <3>1, <3>2, LinePixel DEF DInv
    <3> QED
      BY <3>1, <3>2, <3>3 DEF DInv
  <2>5. CASE Finish
    <3>1. IInv'
      BY <2>5, LineStep DEF DInv, Finish, Next
    <3>2. pc' = "idle" /\ store' = NONE /\ UNCHANGED <<build, width>>
      BY <2>5 DEF Finish, Return
    <3> QED
      BY <3>1, <3>2 DEF DInv, StoresInVideoMemory
  <2>6. CASE UNCHANGED drawingVars
    <3>1. IInv'
      BY <2>6, LineStep DEF DInv, drawingVars
    <3>2. UNCHANGED <<pc, x0, y0, x1, y1, build, width, store>>
      BY <2>6 DEF drawingVars, vars, args
    <3> QED
      BY <3>1, <3>2 DEF DInv, StoresInVideoMemory
  <2> QED
    BY <2>1, <2>2, <2>3, <2>4, <2>5, <2>6 DEF DrawingNext
<1> QED
  BY <1>1, <1>2, PTL DEF DrawingSpec

(* The points and the lines stay in video memory.                          *)
THEOREM DrawingStaysInVideoMemory == DrawingSpec => []StoresInVideoMemory
<1>1. DInv => StoresInVideoMemory
  BY DEF DInv
<1> QED
  BY <1>1, DrawingInductive, PTL

(* The lines drawn are lines: every pixel is near, none is outside the box *)
(* of the end points, and the last is the second of them.                  *)
THEOREM DrawnLinesAreNear == DrawingSpec => []NearLine
<1>1. DInv => NearLine
  BY Near DEF DInv
<1> QED
  BY <1>1, DrawingInductive, PTL

(* The lines drawn end where they should.                                  *)
THEOREM DrawnLinesEndAtTarget == DrawingSpec => []EndsAtTarget
<1>1. DInv => EndsAtTarget
  BY InBox DEF DInv
<1> QED
  BY <1>1, DrawingInductive, PTL
=============================================================================
