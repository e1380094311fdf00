------------------------------ MODULE Drawing ------------------------------
(***************************************************************************)
(* Where the pixels go: the stores of SetPixel() and LFB_DrawLine(), which *)
(* no one checks against the size of the screen, for the points the vga    *)
(* demo scatters with rand_r() and lines like those the vesa demo draws.   *)
(***************************************************************************)
EXTENDS Line

CONSTANTS
  WIDTH, HEIGHT,   \* of mode 13h: 320 and 200
  XRES, YRES,      \* of the mode the vesa boot loader sets: 1024 and 768
  WINDOW,          \* pixels mapped at the frame buffer's address: 4 M
  High, Low        \* draws in rand_r(): 2048 and twice 1024

ASSUME DrawingAssumption ==
  /\ WIDTH \in Nat \ {0} /\ HEIGHT \in Nat \ {0}
  /\ XRES \in Nat \ {0} /\ YRES \in Nat \ {0}
  /\ WINDOW \in Nat /\ WINDOW > YRES * XRES + XRES
  /\ High \in Nat /\ High > 1 /\ Low \in Nat \ {0}
  /\ {WIDTH, HEIGHT, XRES, YRES} \subseteq Coord

VARIABLES
  build,    \* "vga" or "vesa"
  width,    \* SCREEN_WIDTH, or fb_xres
  store     \* the index of the call's last store to video memory

NONE == -1

drawingVars == <<vars, build, width, store>>

Index(px, py) == py * width + px

DrawingInit ==
  /\ Init
  /\ build \in {"vga", "vesa"}
  /\ width = IF build = "vga" THEN WIDTH ELSE 0
  /\ store = NONE

-----------------------------------------------------------------------------
(* rand_r(): the bits of three draws, whatever the seed.  The result is an *)
(* int, RAND_MAX the largest of them.                                      *)
RAND_MAX == High * (Low * Low) - 1

AsInt(n) == IF n <= RAND_MAX THEN n ELSE n - 2 * (RAND_MAX + 1)

(* Mutant of rand_r: the first draw keeps a bit too many.                  *)
rand_rWide ==
  {AsInt((a * Low + b) * Low + c) :
     a \in 0 .. 2 * High - 1, b \in 0 .. Low - 1, c \in 0 .. Low - 1}

rand_r ==
  {AsInt((a * Low + b) * Low + c) :
     a \in 0 .. High - 1, b \in 0 .. Low - 1, c \in 0 .. Low - 1}

(* n times a fraction of RAND_MAX, cut to an integer.                      *)
Scaled(n, r) == (n * r) \div RAND_MAX

-----------------------------------------------------------------------------
SetPixel ==
  /\ build = "vga" /\ pc = "idle"
  /\ \E r \in rand_r, i \in rand_r :
       store' = Index(Scaled(WIDTH - 1, r), Scaled(HEIGHT - 1, i))
  /\ UNCHANGED <<vars, build, width>>

LFB_Init ==
  /\ build = "vesa" /\ width = 0
  /\ width' = XRES
  /\ UNCHANGED <<vars, build, store>>

(* Lines within the screen or one column and one row beyond it.            *)
LFB_DrawLine ==
  /\ build = "vesa" /\ width = XRES
  /\ DrawLine
  /\ {x0', x1'} \subseteq 0 .. XRES /\ {y0', y1'} \subseteq 0 .. YRES
  /\ store' = Index(x', y')
  /\ UNCHANGED <<build, width>>

Step ==
  /\ StepX \/ StepY
  /\ store' = Index(x', y')
  /\ UNCHANGED <<build, width>>

Finish == Return /\ store' = NONE /\ UNCHANGED <<build, width>>

DrawingNext == SetPixel \/ LFB_Init \/ LFB_DrawLine \/ Step \/ Finish

DrawingSpec ==
  /\ DrawingInit /\ [][DrawingNext]_drawingVars
  /\ WF_drawingVars(Step \/ Finish)

-----------------------------------------------------------------------------
(* Every store is to video memory: the points are on the screen whatever   *)
(* rand_r() returns, and the lines, which leave the screen of the vesa     *)
(* demo at its right and bottom edge, do not leave the memory mapped.      *)
StoresInVideoMemory ==
  store # NONE =>
    store \in 0 .. (IF build = "vga" THEN WIDTH * HEIGHT ELSE WINDOW) - 1
=============================================================================
