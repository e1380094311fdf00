------------------------------ MODULE Console ------------------------------
(***************************************************************************)
(* The text console of libsys/conio.c: WriteText(), which fputs(), fputc() *)
(* and the keyboard handler call, with ScrollText() and the cursor         *)
(* registers, and ClearText().  Each character of a string is a step.      *)
(*                                                                         *)
(* The display is an array of cells, of which only the character is        *)
(* modelled: the attributes stay what ClearText() made them.               *)
(***************************************************************************)
EXTENDS Integers, Sequences

CONSTANTS
  TEXT_COLS,   \* 80 in the code
  TEXT_ROWS,   \* 25 in the code
  Printable,   \* the characters 32 < ch < 127 of the model
  Strings,     \* the strings the program writes
  MaxPage      \* bound of the model: cells written when a call begins

BLANK == " "
LF == "LF"     \* character 10
BEL == "BEL"   \* any other character that is not printable
NUL == "NUL"   \* the end of a string
Char == Printable \cup {BLANK, LF, BEL}
Cells == 0 .. TEXT_COLS * TEXT_ROWS - 1

ASSUME ConsoleAssumption ==
  /\ TEXT_COLS \in Nat \ {0}
  /\ TEXT_ROWS \in Nat \ {0}
  /\ {LF, BEL, NUL} \cap (Printable \cup {BLANK}) = {}
  /\ Strings \subseteq Seq(Char)
  /\ MaxPage \in Nat

VARIABLES
  vga_text,    \* the cells of the display
  cursor,      \* CRT controller: the cursor location
  pc,          \* "idle" or, inside WriteText(), "write"
  str,         \* WriteText(): what is left of the string
  x, y,        \* WriteText(): locals
  page,        \* history: the endless page all that was written lies on
  last         \* history: the last character written

history == <<page, last>>
vars == <<vga_text, cursor, pc, str, x, y, history>>

IsPrinted(ch) == ch \in Printable \cup {BLANK}

(***************************************************************************)
(* What was written, without a screen: a page as wide as the display and   *)
(* without an end, cell after cell up to the place of the next character.  *)
(* A printed character takes that place.  A line feed leaves the rest of   *)
(* the line blank, or does nothing when the character just before it, in   *)
(* the same string, has filled the line.                                   *)
(***************************************************************************)
FilledLine == IsPrinted(last) /\ Len(page) % TEXT_COLS = 0

Blanks(n) == [i \in 1 .. n |-> BLANK]

Written(ch) ==
  IF IsPrinted(ch) THEN Append(page, ch)
  ELSE IF ch = LF /\ ~FilledLine
         THEN page \o Blanks(TEXT_COLS - (Len(page) % TEXT_COLS))
         ELSE page

(* The BIOS leaves the cursor at the start of a line, nothing below it;    *)
(* what is above is taken for blank.                                       *)
Init ==
  /\ vga_text = [i \in Cells |-> BLANK]
  /\ cursor \in {TEXT_COLS * r : r \in 0 .. TEXT_ROWS - 1}
  /\ pc = "idle"
  /\ str = <<>>
  /\ x = 0 /\ y = 0
  /\ page = Blanks(cursor)
  /\ last = NUL

(* Mutant of ScrollText: the new line is not blanked.                      *)
ScrollTextDirty(cells) ==
  [i \in Cells |-> IF i + TEXT_COLS \in Cells THEN cells[i + TEXT_COLS]
                   ELSE cells[i]]

(* memcpy() moves all lines up by one: it copies upwards from the lower    *)
(* address, so that the overlap does no harm.  The last line is blanked.   *)
ScrollText(cells) ==
  [i \in Cells |-> IF i + TEXT_COLS \in Cells THEN cells[i + TEXT_COLS]
                   ELSE BLANK]

(* WriteText(s): GetTextCursor().                                          *)
WriteText(s) ==
  /\ pc = "idle"
  /\ Len(page) <= MaxPage
  /\ pc' = "write"
  /\ str' = s
  /\ y' = cursor \div TEXT_COLS
  /\ x' = cursor % TEXT_COLS
  /\ UNCHANGED <<vga_text, cursor, history>>

(* Mutants of EndsLine: a full line never ends by itself; it ends one      *)
(* character late.                                                         *)
EndsLineNever(ch, column, rest) == ch = LF
EndsLineLate(ch, column, rest) ==
  \/ ch = LF
  \/ column > TEXT_COLS /\ (rest = <<>> \/ Head(rest) # LF)

(* A line ends at a line feed, and when it is full unless a line feed is   *)
(* the next character of the same string.                                  *)
EndsLine(ch, column, rest) ==
  \/ ch = LF
  \/ column > TEXT_COLS - 1 /\ (rest = <<>> \/ Head(rest) # LF)

(* One character: it is put in its cell, the line may end, and the screen  *)
(* scrolls if that was the last one (the loop of the code that scrolls     *)
(* runs at most once, as y is on the screen before).                       *)
PutChar ==
  LET ch == Head(str)
      column == IF IsPrinted(ch) THEN x + 1 ELSE x
      ends == EndsLine(ch, column, Tail(str))
      line == IF ends THEN y + 1 ELSE y
      put == IF IsPrinted(ch) THEN [vga_text EXCEPT ![TEXT_COLS * y + x] = ch]
             ELSE vga_text
  IN
  /\ pc = "write"
  /\ str # <<>>
  /\ x' = IF ends THEN 0 ELSE column
  /\ IF line > TEXT_ROWS - 1
       THEN y' = line - 1 /\ vga_text' = ScrollText(put)
       ELSE y' = line /\ vga_text' = put
  /\ str' = Tail(str)
  /\ page' = Written(ch)
  /\ last' = ch
  /\ UNCHANGED <<cursor, pc>>

(* WriteText() returns: SetTextCursor().                                   *)
Return ==
  /\ pc = "write"
  /\ str = <<>>
  /\ cursor' = TEXT_COLS * y + x
  /\ pc' = "idle"
  /\ x' = 0 /\ y' = 0
  /\ last' = NUL
  /\ UNCHANGED <<vga_text, str, page>>

(* The model clears a screen that holds something.                         *)
ClearText ==
  /\ pc = "idle"
  /\ page # <<>>
  /\ vga_text' = [i \in Cells |-> BLANK]
  /\ cursor' = 0
  /\ page' = <<>>
  /\ UNCHANGED <<pc, str, x, y, last>>

Next == PutChar \/ Return \/ ClearText \/ \E s \in Strings : WriteText(s)

Spec == Init /\ [][Next]_vars

-----------------------------------------------------------------------------
(* The value of every variable is one the code can store there.            *)
TypeOK ==
  /\ vga_text \in [Cells -> Printable \cup {BLANK}]
  /\ cursor \in Cells
  /\ pc \in {"idle", "write"}
  /\ str \in Seq(Char)
  /\ x \in 0 .. TEXT_COLS
  /\ y \in 0 .. TEXT_ROWS - 1
  /\ page \in Seq(Printable \cup {BLANK})
  /\ last \in Char \cup {NUL}

(* A line is full in the middle of a string only when the next character   *)
(* is the line feed that ends it.                                          *)
FullBeforeLineFeed == x = TEXT_COLS => str # <<>> /\ Head(str) = LF

(* Every printable character is stored in a cell of the line the cursor is *)
(* on: no store reaches the next line or the memory after the screen.      *)
StaysOnScreen ==
  pc = "write" /\ str # <<>> /\ IsPrinted(Head(str)) =>
    x < TEXT_COLS /\ TEXT_COLS * y + x \in Cells

(* The cells of the page, counted from 0; the last line that is written on *)
(* is the last of the display, once there are lines above.                 *)
PageAt(i) == IF i < Len(page) THEN page[i + 1] ELSE BLANK

Above ==
  LET line == Len(page) \div TEXT_COLS
  IN  IF line < TEXT_ROWS THEN 0 ELSE line - (TEXT_ROWS - 1)

(* Between calls the display is the end of the page, and the cursor is     *)
(* where the next character goes, whatever strings and scrolling there     *)
(* were.                                                                   *)
DisplayShowsPage ==
  pc = "idle" =>
    /\ cursor = Len(page) - TEXT_COLS * Above
    /\ \A i \in Cells : vga_text[i] = PageAt(TEXT_COLS * Above + i)
=============================================================================
