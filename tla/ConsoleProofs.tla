--------------------------- MODULE ConsoleProofs ---------------------------
(***************************************************************************)
(* WriteText() never stores outside the display, and between calls the     *)
(* display shows the end of what was written: proved for every size of     *)
(* display and every set of strings.                                       *)
(*                                                                         *)
(* StaysOnScreen is not inductive by itself: it says nothing of a column   *)
(* past the end of the line.  IInv adds that this column is reached only   *)
(* before a line feed, which is not stored.  DisplayShowsPage speaks of    *)
(* the states between calls only; ShowsPage adds what holds in the middle  *)
(* of a string, where the lines above the display cannot be told from the  *)
(* page alone: a full line whose line feed is still to come is on the      *)
(* display, though the page's next character goes below it.                *)
(***************************************************************************)
EXTENDS Console, SequenceTheorems, TLAPS

Row == IF pc = "write" THEN y ELSE cursor \div TEXT_COLS
Place == IF pc = "write" THEN TEXT_COLS * y + x ELSE cursor

(* The display shows the page from its line n on.                          *)
ShowsFrom(n) ==
  /\ Len(page) = TEXT_COLS * n + Place
  /\ n > 0 => Row = TEXT_ROWS - 1
  /\ \A i \in Cells : vga_text[i] = PageAt(TEXT_COLS * n + i)

ShowsPage == \E n \in 0 .. Len(page) : ShowsFrom(n)

(* The page and the code agree on which line feed ends a full line.        *)
FullAgrees ==
  IF pc = "write"
    THEN x = TEXT_COLS <=> FilledLine /\ str # <<>> /\ Head(str) = LF
    ELSE last = NUL

IInv ==
  /\ TypeOK
  /\ FullBeforeLineFeed
  /\ pc = "idle" => x = 0
  /\ FullAgrees
  /\ ShowsPage

(* A column and a line make a cell.                                        *)
LEMMA CellInRange ==
  ASSUME NEW C \in Nat \ {0}, NEW R \in Nat \ {0},
         NEW col \in 0 .. C - 1, NEW row \in 0 .. R - 1
  PROVE  C * row + col \in 0 .. C * R - 1
<1>1. row + 1 <= R
  OBVIOUS
<1>2. PICK k \in Nat : R = (row + 1) + k
  <2>1. R - (row + 1) \in Nat
    BY <1>1
  <2> QED
    BY <2>1
<1>3. C * R = C * row + C + C * k
  BY <1>2
<1>4. C * row \in Nat /\ C * k \in Nat
  BY <1>2
<1> QED
  BY <1>3, <1>4

(* A cell has a column and a line.                                         *)
LEMMA CellHasPlace ==
  ASSUME NEW C \in Nat \ {0}, NEW R \in Nat \ {0}, NEW c \in 0 .. C * R - 1
  PROVE  c % C \in 0 .. C - 1 /\ c \div C \in 0 .. R - 1
<1>1. c \in Nat /\ c < C * R
  <2>1. C * R \in Nat
    OBVIOUS
  <2> QED
    BY <2>1
<1> DEFINE q == c \div C
<1>2. q \in Int /\ c % C \in 0 .. C - 1 /\ c = C * q + (c % C)
  BY <1>1
<1> HIDE DEF q
<1>3. q >= 0
  <2> SUFFICES ASSUME q <= -1 PROVE FALSE
    BY <1>2
  <2>1. PICK k \in Nat : q = -1 - k
    <3>1. -1 - q \in Nat
      BY <1>2
    <3> QED
      BY <3>1, <1>2
  <2>2. C * q = -C - C * k
    BY <2>1
  <2>3. C * k \in Nat
    BY <2>1
  <2> QED
    BY <2>2, <2>3, <1>1, <1>2
<1>4. q < R
  <2> SUFFICES ASSUME q >= R PROVE FALSE
    BY <1>2
  <2>1. PICK k \in Nat : q = R + k
    <3>1. q - R \in Nat
      BY <1>2
    <3> QED
      BY <3>1, <1>2
  <2>2. C * q = C * R + C * k
    BY <2>1
  <2>3. C * k \in Nat /\ C * R \in Nat
    BY <2>1
  <2> QED
    BY <2>2, <2>3, <1>1, <1>2
<1> QED
  BY <1>2, <1>3, <1>4 DEF q

(* The quotient and the remainder of a division are unique.                *)
LEMMA DivMod ==
  ASSUME NEW C \in Nat \ {0}, NEW q \in Int, NEW r \in 0 .. C - 1
  PROVE  (C * q + r) \div C = q /\ (C * q + r) % C = r
<1> DEFINE v == C * q + r
           p == v \div C
           m == v % C
<1>1. v \in Int /\ v = C * q + r
  OBVIOUS
<1>2. p \in Int /\ m \in 0 .. C - 1 /\ v = C * p + m
  BY <1>1
<1> HIDE DEF p, m
<1>3. ASSUME NEW a \in Int, NEW b \in Int, a < b
      PROVE  C * a + C <= C * b
  <2>1. PICK k \in Nat : b = a + 1 + k
    <3>1. b - a - 1 \in Nat
      BY <1>3
    <3> QED
      BY <3>1
  <2>2. C * b = C * a + C + C * k
    BY <2>1
  <2>3. C * k \in Nat
    BY <2>1
  <2> QED
    BY <2>2, <2>3
<1>4. C * p + m = C * q + r
  BY <1>1, <1>2
<1>5. C * p \in Int /\ C * q \in Int
  BY <1>2
<1>6. ~(p < q)
  <2> SUFFICES ASSUME p < q PROVE FALSE
    OBVIOUS
  <2>1. C * p + C <= C * q
    BY <1>2, <1>3
  <2> QED
    BY <2>1, <1>2, <1>4, <1>5
<1>7. ~(q < p)
  <2> SUFFICES ASSUME q < p PROVE FALSE
    OBVIOUS
  <2>1. C * q + C <= C * p
    BY <1>2, <1>3
  <2> QED
    BY <2>1, <1>2, <1>4, <1>5
<1>8. p = q
  BY <1>2, <1>6, <1>7
<1>9. m = r
  BY <1>2, <1>4, <1>5, <1>8
<1> QED
  BY <1>8, <1>9 DEF p, m

(* A page has no more lines than cells.                                    *)
LEMMA LinesOfPage ==
  ASSUME NEW C \in Nat \ {0}, NEW n \in Nat, NEW k \in Nat
  PROVE  n \in 0 .. C * n + k
<1>1. PICK d \in Nat : C = d + 1
  <2>1. C - 1 \in Nat
    OBVIOUS
  <2> QED
    BY <2>1
<1>2. C * n = d * n + n
  BY <1>1
<1>3. d * n \in Nat
  BY <1>1
<1> QED
  BY <1>2, <1>3

(* A line feed ends the line: the page has whole lines afterwards.         *)
LEMMA NextLine ==
  ASSUME NEW C \in Nat \ {0}, NEW q \in Nat, NEW r \in 0 .. C - 1
  PROVE  /\ C - ((C * q + r) % C) \in Nat
         /\ (C * q + r) + (C - ((C * q + r) % C)) = C * (q + 1)
<1>1. (C * q + r) % C = r
  BY DivMod
<1>2. C * (q + 1) = C * q + C
  OBVIOUS
<1>3. C * q \in Nat
  OBVIOUS
<1> QED
  BY <1>1, <1>2, <1>3

(* Adding blank cells to a page makes it longer and shows nothing more.    *)
LEMMA BlanksAdded ==
  ASSUME NEW p \in Seq(Printable \cup {BLANK}), NEW k \in Nat
  PROVE  /\ p \o Blanks(k) \in Seq(Printable \cup {BLANK})
         /\ Len(p \o Blanks(k)) = Len(p) + k
         /\ \A i \in Nat : i < Len(p) + k =>
              (p \o Blanks(k))[i + 1] = IF i < Len(p) THEN p[i + 1] ELSE BLANK
<1>1. Blanks(k) \in Seq(Printable \cup {BLANK})
  BY DEF Blanks
<1>2. Len(Blanks(k)) = k /\ \A i \in 1 .. k : Blanks(k)[i] = BLANK
  BY DEF Blanks
<1> HIDE DEF Blanks
<1>3. p \o Blanks(k) \in Seq(Printable \cup {BLANK}) /\ Len(p \o Blanks(k)) = Len(p) + k
  BY <1>1, <1>2
<1>4. ASSUME NEW i \in Nat, i < Len(p) + k
      PROVE  (p \o Blanks(k))[i + 1] = IF i < Len(p) THEN p[i + 1] ELSE BLANK
  <2>1. CASE i < Len(p)
    BY <2>1, <1>1, <1>2
  <2>2. CASE ~(i < Len(p))
    <3>1. (p \o Blanks(k))[i + 1] = Blanks(k)[i + 1 - Len(p)]
      BY <2>2, <1>1, <1>2, <1>4
    <3>2. i + 1 - Len(p) \in 1 .. k
      BY <2>2, <1>4
    <3> QED
      BY <2>2, <3>1, <3>2, <1>2
  <2> QED
    BY <2>1, <2>2
<1> QED
  BY <1>3, <1>4

LEMMA InitInductive == Init => IInv
<1> SUFFICES ASSUME Init PROVE IInv
  OBVIOUS
<1> USE ConsoleAssumption
<1>1. PICK r \in 0 .. TEXT_ROWS - 1 : cursor = TEXT_COLS * r
  BY DEF Init
<1>2. cursor \in Cells /\ cursor \in Nat
  BY <1>1, CellInRange, 0 \in 0 .. TEXT_COLS - 1, TEXT_COLS * r + 0 = TEXT_COLS * r
  DEF Cells
<1>3. page = Blanks(cursor)
  BY DEF Init
<1>4. page \in Seq(Printable \cup {BLANK}) /\ Len(page) = cursor
      /\ \A i \in 1 .. cursor : page[i] = BLANK
  BY <1>2, <1>3 DEF Blanks
<1>5. TypeOK
  BY <1>2, <1>4 DEF Init, TypeOK
<1>6. \A i \in Nat : PageAt(i) = BLANK
  BY <1>2, <1>4 DEF PageAt
<1>7. TEXT_COLS * 0 = 0 /\ Cells \subseteq Nat
  BY DEF Cells
<1>8. ShowsFrom(0)
  BY <1>2, <1>4, <1>6, <1>7 DEF Init, ShowsFrom, Place
<1>9. ShowsPage
  BY <1>2, <1>4, <1>8 DEF ShowsPage
<1>10. FullAgrees
  BY DEF Init, FullAgrees
<1> QED
  BY <1>5, <1>9, <1>10 DEF Init, IInv, FullBeforeLineFeed

LEMMA WriteTextInductive ==
  ASSUME IInv, NEW s \in Strings, WriteText(s)
  PROVE  IInv'
<1> USE ConsoleAssumption
<1>1. cursor \in 0 .. TEXT_COLS * TEXT_ROWS - 1 /\ cursor \in Int
  BY DEF IInv, TypeOK, Cells
<1>2. x' \in 0 .. TEXT_COLS - 1 /\ y' \in 0 .. TEXT_ROWS - 1
  BY <1>1, CellHasPlace DEF WriteText
<1>3. s \in Seq(Char)
  OBVIOUS
<1>4. UNCHANGED <<vga_text, cursor, page, last>> /\ pc = "idle" /\ pc' = "write"
  BY DEF WriteText, history
<1>5. TypeOK'
  BY <1>2, <1>3, <1>4 DEF IInv, TypeOK, WriteText
<1>6. cursor = TEXT_COLS * (cursor \div TEXT_COLS) + (cursor % TEXT_COLS)
  BY <1>1
<1>7. y' = Row /\ Row' = Row /\ Place' = Place
  BY <1>4, <1>6 DEF WriteText, Row, Place
<1>8. ShowsPage'
  <2>1. PICK n \in 0 .. Len(page) : ShowsFrom(n)
    BY DEF IInv, ShowsPage
  <2>2. \A i : PageAt(i)' = PageAt(i)
    BY <1>4 DEF PageAt
  <2>3. ShowsFrom(n)'
    BY <1>4, <1>7, <2>1, <2>2 DEF ShowsFrom
  <2> QED
    BY <1>4, <2>3 DEF ShowsPage
<1>9. FullAgrees'
  <2>1. last' = NUL
    BY <1>4 DEF IInv, FullAgrees
  <2>2. ~IsPrinted(NUL)
    BY DEF IsPrinted
  <2> QED
    BY <1>2, <1>4, <2>1, <2>2 DEF FullAgrees, FilledLine, IsPrinted
<1> QED
  BY <1>2, <1>4, <1>5, <1>8, <1>9 DEF IInv, FullBeforeLineFeed

(* The first case split is whether the character is printed, the second    *)
(* whether the line ends.                                                  *)
LEMMA PutCharInductive ==
  ASSUME IInv, PutChar
  PROVE  IInv'
<1> USE ConsoleAssumption
<1> DEFINE ch == Head(str)
           rest == Tail(str)
           column == IF IsPrinted(ch) THEN x + 1 ELSE x
           ends == EndsLine(ch, column, rest)
           line == IF ends THEN y + 1 ELSE y
           put == IF IsPrinted(ch) THEN [vga_text EXCEPT ![TEXT_COLS * y + x] = ch]
                  ELSE vga_text
<1>1. str \in Seq(Char) /\ str # <<>>
  BY DEF IInv, TypeOK, PutChar
<1>2. ch \in Char /\ rest \in Seq(Char)
  BY <1>1
<1>3. x \in 0 .. TEXT_COLS /\ y \in 0 .. TEXT_ROWS - 1
  BY DEF IInv, TypeOK
<1>4. x = TEXT_COLS => ch = LF
  BY DEF IInv, FullBeforeLineFeed
<1>5. ~IsPrinted(LF)
  BY DEF IsPrinted
<1>6. column \in 0 .. TEXT_COLS
  BY <1>3, <1>4, <1>5
<1>7. ~ends => ch # LF /\ (column = TEXT_COLS => rest # <<>> /\ Head(rest) = LF)
  BY <1>6 DEF EndsLine
<1>8. x' = (IF ends THEN 0 ELSE column) /\ str' = rest
  BY DEF PutChar
<1>9. FullBeforeLineFeed'
  BY <1>7, <1>8 DEF FullBeforeLineFeed
<1>10. x' \in 0 .. TEXT_COLS
  BY <1>6, <1>8
<1>11. put \in [Cells -> Printable \cup {BLANK}]
  BY DEF IInv, TypeOK, IsPrinted
<1>12. ScrollText(put) \in [Cells -> Printable \cup {BLANK}]
  BY <1>11 DEF ScrollText
<1>13. line \in 0 .. TEXT_ROWS
  BY <1>3
<1>14. /\ y' \in 0 .. TEXT_ROWS - 1
       /\ vga_text' \in [Cells -> Printable \cup {BLANK}]
  <2>1. IF line > TEXT_ROWS - 1
          THEN y' = line - 1 /\ vga_text' = ScrollText(put)
          ELSE y' = line /\ vga_text' = put
    BY DEF PutChar
  <2> HIDE DEF line, put
  <2> QED
    BY <2>1, <1>11, <1>12, <1>13
<1>15. UNCHANGED <<cursor, pc>> /\ pc = "write" /\ last' = ch /\ page' = Written(ch)
  BY DEF PutChar
<1>16. page \in Seq(Printable \cup {BLANK}) /\ Len(page) \in Nat
  BY DEF IInv, TypeOK
<1>17. PICK n \in 0 .. Len(page) : ShowsFrom(n)
  BY DEF IInv, ShowsPage
<1>18. /\ Len(page) = TEXT_COLS * n + TEXT_COLS * y + x
       /\ n > 0 => y = TEXT_ROWS - 1
       /\ \A i \in Cells : vga_text[i] = PageAt(TEXT_COLS * n + i)
  <2>1. TEXT_COLS * n \in Nat /\ TEXT_COLS * y \in Nat
    BY <1>3
  <2>2. Row = y /\ Place = TEXT_COLS * y + x
    BY <1>15 DEF Row, Place
  <2>3. /\ Len(page) = TEXT_COLS * n + Place
        /\ n > 0 => Row = TEXT_ROWS - 1
        /\ \A i \in Cells : vga_text[i] = PageAt(TEXT_COLS * n + i)
    BY <1>17 DEF ShowsFrom
  <2> QED
    BY <2>1, <2>2, <2>3, <1>3
<1>19. TEXT_COLS * n \in Nat /\ TEXT_COLS * y \in Nat
       /\ TEXT_COLS * (n + y) = TEXT_COLS * n + TEXT_COLS * y
       /\ TEXT_COLS * (n + y + 1) = TEXT_COLS * n + TEXT_COLS * y + TEXT_COLS
       /\ TEXT_COLS * (y + 1) = TEXT_COLS * y + TEXT_COLS
       /\ n + y \in Nat
  BY <1>3
<1>20. x = TEXT_COLS <=> (FilledLine /\ ch = LF)
  BY <1>1, <1>15 DEF IInv, FullAgrees
<1>21. ends => ch = LF \/ (column = TEXT_COLS /\ (rest = <<>> \/ Head(rest) # LF))
  BY <1>6 DEF EndsLine
<1> HIDE DEF put, ends, line, column
(* What the three kinds of characters have in common: the page grows by    *)
(* what was put on the display, up to the place the code computes.         *)
<1>22. /\ page' \in Seq(Printable \cup {BLANK})
       /\ Len(page') = TEXT_COLS * n + TEXT_COLS * line + x'
       /\ \A i \in Cells : put[i] = PageAt(TEXT_COLS * n + i)'
       /\ FullAgrees'
  <2> USE DEF column
  <2>1. CASE IsPrinted(ch)
    <3>1. page' = Append(page, ch) /\ ch \in Printable \cup {BLANK}
      BY <2>1, <1>15 DEF Written, IsPrinted
    <3>2. /\ page' \in Seq(Printable \cup {BLANK}) /\ Len(page') = Len(page) + 1
          /\ page'[Len(page) + 1] = ch
          /\ \A k \in 1 .. Len(page) : page'[k] = page[k]
      BY <3>1, <1>16
    <3>3. ch # LF /\ x \in 0 .. TEXT_COLS - 1 /\ column = x + 1
      BY <2>1, <1>3, <1>4, <1>5
    <3>4. Len(page') = TEXT_COLS * n + TEXT_COLS * line + x'
      <4>1. CASE ends
        <5>1. column = TEXT_COLS /\ line = y + 1 /\ x' = 0
          BY <4>1, <3>3, <1>21, <1>8 DEF line
        <5>2. TEXT_COLS * line = TEXT_COLS * y + TEXT_COLS
          BY <5>1, <1>19
        <5>3. x = TEXT_COLS - 1
          BY <5>1, <3>3
        <5> QED
          <6>1. x' = 0 /\ Len(page') = Len(page) + 1
            BY <5>1, <3>2
          <6>2. Len(page) = TEXT_COLS * n + TEXT_COLS * y + (TEXT_COLS - 1)
            BY <5>3, <1>18
          <6>3. TEXT_COLS * n \in Nat /\ TEXT_COLS * y \in Nat
            BY <1>19
          <6>4. TEXT_COLS * n + (TEXT_COLS * y + TEXT_COLS) + 0
                  = TEXT_COLS * n + TEXT_COLS * y + (TEXT_COLS - 1) + 1
            BY <6>3
          <6> QED
            BY <5>2, <6>1, <6>2, <6>4
      <4>2. CASE ~ends
        <5>1. line = y /\ x' = x + 1
          BY <4>2, <3>3, <1>8 DEF line
        <5> QED
          BY <5>1, <3>2, <3>3, <1>3, <1>16, <1>18, <1>19
      <4> QED
        BY <4>1, <4>2
    <3>5. ASSUME NEW i \in Cells PROVE put[i] = PageAt(TEXT_COLS * n + i)'
      <4>1. put = [vga_text EXCEPT ![TEXT_COLS * y + x] = ch]
        BY <2>1 DEF put
      <4>2. vga_text \in [Cells -> Printable \cup {BLANK}]
        BY DEF IInv, TypeOK
      <4>3. put[i] = IF i = TEXT_COLS * y + x THEN ch ELSE vga_text[i]
        BY <4>1, <4>2
      <4>4. i \in Nat
        BY DEF Cells
      <4>5. CASE i = TEXT_COLS * y + x
        <5>1. TEXT_COLS * n + i = Len(page)
          BY <4>5, <1>3, <1>18, <1>19
        <5>2. PageAt(TEXT_COLS * n + i)' = ch
          BY <5>1, <3>2, <1>16 DEF PageAt
        <5> QED
          BY <5>2, <4>3, <4>5
      <4>6. CASE i # TEXT_COLS * y + x
        <5>1. TEXT_COLS * n + i # Len(page) /\ TEXT_COLS * n + i \in Nat
          BY <4>6, <4>4, <1>3, <1>18, <1>19
        <5>2. PageAt(TEXT_COLS * n + i)' = PageAt(TEXT_COLS * n + i)
          BY <5>1, <3>2, <1>16 DEF PageAt
        <5> QED
          BY <5>2, <4>3, <4>6, <1>18
      <4> QED
        BY <4>5, <4>6
    <3>6. FullAgrees'
      <4>1. IsPrinted(last') /\ last' = ch
        BY <2>1, <1>15 DEF IsPrinted
      <4>2. Len(page') = TEXT_COLS * (n + y) + (x + 1)
        BY <3>2, <1>18, <1>19, <1>3
      <4>3. CASE x + 1 = TEXT_COLS
        <5>1. Len(page') = TEXT_COLS * (n + y + 1) + 0
          BY <4>2, <4>3, <1>19
        <5>2. Len(page') % TEXT_COLS = 0
          BY <5>1, <1>19, DivMod, 0 \in 0 .. TEXT_COLS - 1, n + y + 1 \in Int
        <5>3. FilledLine'
          BY <4>1, <5>2 DEF FilledLine, IsPrinted
        <5>4. x' = TEXT_COLS <=> (rest # <<>> /\ Head(rest) = LF)
          BY <4>3, <3>3, <1>7, <1>8, <1>21
        <5> QED
          BY <5>3, <5>4, <1>8, <1>15 DEF FullAgrees
      <4>4. CASE x + 1 # TEXT_COLS
        <5>1. x + 1 \in 1 .. TEXT_COLS - 1
          BY <4>4, <3>3
        <5>2. Len(page') % TEXT_COLS = x + 1
          <6>1. x + 1 \in 0 .. TEXT_COLS - 1 /\ n + y \in Int
            BY <5>1, <1>19
          <6> QED
            BY <4>2, <6>1, DivMod
        <5>3. ~FilledLine'
          BY <5>1, <5>2 DEF FilledLine
        <5>4. x' # TEXT_COLS
          BY <4>4, <3>3, <1>8
        <5> QED
          BY <5>3, <5>4, <1>15 DEF FullAgrees
      <4> QED
        BY <4>3, <4>4
    <3> QED
      BY <3>2, <3>4, <3>5, <3>6
  <2>2. CASE ch = LF
    <3>1. ~IsPrinted(ch) /\ put = vga_text
      BY <2>2, <1>5 DEF put
    <3>2. ends /\ line = y + 1 /\ x' = 0
      BY <2>2, <1>8 DEF ends, line, EndsLine
    <3>3. /\ page' \in Seq(Printable \cup {BLANK})
          /\ Len(page') = TEXT_COLS * (n + y + 1)
          /\ \A i \in Nat : PageAt(i)' = PageAt(i)
      <4>1. CASE x = TEXT_COLS
        <5>1. page' = page
          BY <4>1, <2>2, <3>1, <1>15, <1>20 DEF Written
        <5> QED
          BY <4>1, <5>1, <1>16, <1>18, <1>19 DEF PageAt
      <4>2. CASE x # TEXT_COLS
        <5> DEFINE k == TEXT_COLS - (Len(page) % TEXT_COLS)
        <5>1. page' = page \o Blanks(k)
          BY <4>2, <2>2, <3>1, <1>15, <1>20 DEF Written
        <5>2. x \in 0 .. TEXT_COLS - 1 /\ Len(page) = TEXT_COLS * (n + y) + x
          BY <4>2, <1>3, <1>18, <1>19
        <5>3. k \in Nat /\ Len(page) + k = TEXT_COLS * (n + y + 1)
          <6>1. n + y \in Nat
            BY <1>19
          <6>2. /\ TEXT_COLS - ((TEXT_COLS * (n + y) + x) % TEXT_COLS) \in Nat
                /\ (TEXT_COLS * (n + y) + x)
                     + (TEXT_COLS - ((TEXT_COLS * (n + y) + x) % TEXT_COLS))
                     = TEXT_COLS * ((n + y) + 1)
            BY <5>2, <6>1, NextLine
          <6>3. (n + y) + 1 = n + y + 1
            BY <1>3
          <6> QED
            BY <5>2, <6>2, <6>3
        <5> HIDE DEF k
        <5>4. /\ page' \in Seq(Printable \cup {BLANK}) /\ Len(page') = Len(page) + k
              /\ \A i \in Nat : i < Len(page) + k =>
                   page'[i + 1] = IF i < Len(page) THEN page[i + 1] ELSE BLANK
          BY <5>1, <5>3, <1>16, BlanksAdded
        <5>5. ASSUME NEW i \in Nat PROVE PageAt(i)' = PageAt(i)
          BY <5>3, <5>4, <1>16 DEF PageAt
        <5> QED
          BY <5>3, <5>4, <5>5
      <4> QED
        BY <4>1, <4>2
    <3>4. Len(page') = TEXT_COLS * n + TEXT_COLS * line + x'
      BY <3>2, <3>3, <1>19
    <3>5. ASSUME NEW i \in Cells PROVE put[i] = PageAt(TEXT_COLS * n + i)'
      <4>1. i \in Nat /\ TEXT_COLS * n + i \in Nat
        BY <1>19 DEF Cells
      <4> QED
        BY <4>1, <3>1, <3>3, <1>18
    <3>6. FullAgrees'
      <4>1. ~FilledLine'
        BY <2>2, <1>5, <1>15 DEF FilledLine, IsPrinted
      <4> QED
        BY <4>1, <3>2, <1>15 DEF FullAgrees
    <3> QED
      BY <3>3, <3>4, <3>5, <3>6
  <2>3. CASE ~IsPrinted(ch) /\ ch # LF
    <3>1. page' = page /\ put = vga_text
      BY <2>3, <1>15 DEF put, Written
    <3>2. x \in 0 .. TEXT_COLS - 1 /\ column = x
      BY <2>3, <1>3, <1>4
    <3>3. ~ends /\ line = y /\ x' = x
      BY <2>3, <3>2, <1>8, <1>21 DEF line
    <3>4. \A i : PageAt(i)' = PageAt(i)
      BY <3>1 DEF PageAt
    <3>5. ~FilledLine' /\ x' # TEXT_COLS
      BY <2>3, <3>2, <3>3, <1>15 DEF FilledLine, IsPrinted
    <3>6. FullAgrees'
      BY <3>5, <1>15 DEF FullAgrees
    <3> QED
      BY <3>1, <3>3, <3>4, <3>6, <1>16, <1>18
  <2> QED
    BY <2>1, <2>2, <2>3
<1>23. ShowsPage'
  <2>1. Row' = y' /\ Place' = TEXT_COLS * y' + x' /\ pc' = "write"
    BY <1>15 DEF Row, Place
  <2>2. IF line > TEXT_ROWS - 1
          THEN y' = line - 1 /\ vga_text' = ScrollText(put)
          ELSE y' = line /\ vga_text' = put
    BY DEF PutChar, line, put, column, ends
  <2>3. line = y \/ line = y + 1
    BY DEF line
  <2>4. x' \in Nat
    BY <1>10
  <2>5. CASE line > TEXT_ROWS - 1
    <3>1. y = TEXT_ROWS - 1 /\ line = TEXT_ROWS /\ y' = TEXT_ROWS - 1
      BY <2>2, <2>3, <2>5, <1>3
    <3>2. TEXT_COLS * (n + 1) = TEXT_COLS * n + TEXT_COLS
          /\ TEXT_COLS * TEXT_ROWS = TEXT_COLS * (TEXT_ROWS - 1) + TEXT_COLS
          /\ TEXT_COLS * TEXT_ROWS \in Nat /\ TEXT_COLS * (TEXT_ROWS - 1) \in Nat
      OBVIOUS
    <3>3. Len(page') = TEXT_COLS * (n + 1) + Place'
      BY <3>1, <3>2, <2>1, <2>4, <1>19, <1>22
    <3>4. x' = 0
      BY <3>1, <1>3, <1>8 DEF line
    <3>5. ASSUME NEW i \in Cells
          PROVE  vga_text'[i] = PageAt(TEXT_COLS * (n + 1) + i)'
      <4>1. i \in Nat /\ i < TEXT_COLS * TEXT_ROWS
        BY <3>2 DEF Cells
      <4>2. vga_text'[i] = IF i + TEXT_COLS \in Cells THEN put[i + TEXT_COLS] ELSE BLANK
        BY <2>2, <2>5 DEF ScrollText
      <4>3. TEXT_COLS * (n + 1) + i = TEXT_COLS * n + (i + TEXT_COLS)
        BY <4>1, <3>2, <1>19
      <4>4. CASE i + TEXT_COLS \in Cells
        BY <4>2, <4>3, <4>4, <1>22
      <4>5. CASE i + TEXT_COLS \notin Cells
        <5>1. i + TEXT_COLS >= TEXT_COLS * TEXT_ROWS
          BY <4>1, <4>5, <3>2 DEF Cells
        <5>2. ~(TEXT_COLS * (n + 1) + i < Len(page'))
          BY <5>1, <4>1, <3>1, <3>2, <3>4, <1>19, <1>22
        <5> QED
          BY <5>2, <4>2, <4>5 DEF PageAt
      <4> QED
        BY <4>4, <4>5
    <3>6. ShowsFrom(n + 1)'
      BY <3>1, <3>3, <3>5, <2>1 DEF ShowsFrom
    <3>7. n + 1 \in 0 .. Len(page')
      <4>1. Place' = TEXT_COLS * y + x'
        BY <2>1, <3>1
      <4>2. Place' \in Nat
        BY <4>1, <2>4, <1>19
      <4>3. n + 1 \in Nat
        BY <1>19
      <4>4. n + 1 \in 0 .. TEXT_COLS * (n + 1) + Place'
        BY <4>2, <4>3, LinesOfPage
      <4> QED
        BY <4>4, <3>3
    <3> QED
      BY <3>6, <3>7 DEF ShowsPage
  <2>6. CASE ~(line > TEXT_ROWS - 1)
    <3>1. y' = line /\ vga_text' = put
      BY <2>2, <2>6
    <3>2. n > 0 => y' = TEXT_ROWS - 1
      BY <3>1, <2>3, <2>6, <1>3, <1>18
    <3>3. TEXT_COLS * line \in Nat
      BY <1>13
    <3>4. Len(page') = TEXT_COLS * n + Place'
      BY <3>1, <3>3, <2>1, <2>4, <1>19, <1>22
    <3>5. ShowsFrom(n)'
      BY <3>1, <3>2, <3>4, <2>1, <1>22 DEF ShowsFrom
    <3>6. n \in 0 .. Len(page')
      <4>1. Place' \in Nat
        BY <2>1, <2>4, <3>1, <3>3
      <4>2. n \in Nat
        BY <1>16
      <4> QED
        BY <4>1, <4>2, <3>4, LinesOfPage
    <3> QED
      BY <3>5, <3>6 DEF ShowsPage
  <2> QED
    BY <2>5, <2>6
<1>24. TypeOK'
  BY <1>2, <1>8, <1>10, <1>14, <1>15, <1>22 DEF IInv, TypeOK
<1> QED
  BY <1>9, <1>15, <1>22, <1>23, <1>24 DEF IInv

LEMMA ReturnInductive ==
  ASSUME IInv, Return
  PROVE  IInv'
<1> USE ConsoleAssumption
<1>1. x \in 0 .. TEXT_COLS - 1 /\ y \in 0 .. TEXT_ROWS - 1
  BY DEF IInv, TypeOK, FullBeforeLineFeed, Return
<1>2. cursor' \in Cells
  BY <1>1, CellInRange DEF Return, Cells
<1>3. UNCHANGED <<vga_text, page>> /\ pc' = "idle" /\ last' = NUL
  BY DEF Return
<1>4. TypeOK'
  BY <1>2, <1>3 DEF IInv, TypeOK, Return
<1>5. Place' = Place /\ Row' = Row
  <2>1. cursor' = TEXT_COLS * y + x /\ pc = "write"
    BY DEF Return
  <2>2. cursor' \div TEXT_COLS = y
    BY <2>1, <1>1, DivMod
  <2> QED
    BY <2>1, <2>2, <1>3 DEF Place, Row
<1>6. ShowsPage'
  <2>1. PICK n \in 0 .. Len(page) : ShowsFrom(n)
    BY DEF IInv, ShowsPage
  <2>2. \A i : PageAt(i)' = PageAt(i)
    BY <1>3 DEF PageAt
  <2>3. ShowsFrom(n)'
    BY <1>3, <1>5, <2>1, <2>2 DEF ShowsFrom
  <2> QED
    BY <1>3, <2>3 DEF ShowsPage
<1>7. FullAgrees'
  BY <1>3 DEF FullAgrees
<1> QED
  BY <1>4, <1>6, <1>7 DEF IInv, FullBeforeLineFeed, Return

LEMMA ClearTextInductive ==
  ASSUME IInv, ClearText
  PROVE  IInv'
<1> USE ConsoleAssumption
<1>1. 0 \in Cells
  BY CellInRange, 0 \in 0 .. TEXT_COLS - 1, 0 \in 0 .. TEXT_ROWS - 1,
     TEXT_COLS * 0 + 0 = 0
  DEF Cells
<1>2. /\ pc = "idle" /\ pc' = "idle" /\ cursor' = 0 /\ page' = <<>>
      /\ vga_text' = [i \in Cells |-> BLANK] /\ UNCHANGED <<str, x, y, last>>
  BY DEF ClearText
<1>3. TypeOK'
  BY <1>1, <1>2 DEF IInv, TypeOK
<1>4. FullAgrees'
  BY <1>2 DEF IInv, FullAgrees
<1>5. Len(page') = 0 /\ TEXT_COLS * 0 = 0 /\ Cells \subseteq Nat
  BY <1>2 DEF Cells
<1>6. \A i \in Nat : PageAt(i)' = BLANK
  BY <1>5 DEF PageAt
<1>7. ShowsFrom(0)'
  BY <1>2, <1>5, <1>6 DEF ShowsFrom, Place
<1>8. ShowsPage'
  BY <1>5, <1>7 DEF ShowsPage
<1> QED
  BY <1>2, <1>3, <1>4, <1>8 DEF IInv, FullBeforeLineFeed

(* Every reachable state satisfies the inductive invariant.                *)
THEOREM ConsoleInductive == Spec => []IInv
<1>1. Init => IInv
  BY InitInductive
<1>2. IInv /\ [Next]_vars => IInv'
  <2> SUFFICES ASSUME IInv, [Next]_vars PROVE IInv'
    OBVIOUS
  <2>1. CASE PutChar
    BY <2>1, PutCharInductive
  <2>2. CASE Return
    BY <2>2, ReturnInductive
  <2>3. CASE ClearText
    BY <2>3, ClearTextInductive
  <2>4. CASE \E s \in Strings : WriteText(s)
    BY <2>4, WriteTextInductive
  <2>5. CASE UNCHANGED vars
    BY <2>5 DEF vars, history, IInv, TypeOK, FullBeforeLineFeed, FullAgrees, FilledLine,
                ShowsPage, ShowsFrom, PageAt, Row, Place
  <2> QED
    BY <2>1, <2>2, <2>3, <2>4, <2>5 DEF Next
<1> QED
  BY <1>1, <1>2, PTL DEF Spec

(* Every variable keeps to the values the code can store there.            *)
THEOREM ConsoleTypeCorrect == Spec => []TypeOK
<1>1. IInv => TypeOK
  BY DEF IInv
<1> QED
  BY <1>1, ConsoleInductive, PTL

(* WriteText() stores every printable character in its own cell, for every *)
(* string and every size of display.                                       *)
THEOREM WriteStaysOnScreen == Spec => []StaysOnScreen
<1>1. IInv => StaysOnScreen
  <2> USE ConsoleAssumption
  <2> SUFFICES ASSUME IInv, pc = "write", str # <<>>, IsPrinted(Head(str))
               PROVE  x < TEXT_COLS /\ TEXT_COLS * y + x \in Cells
    BY DEF StaysOnScreen
  <2>1. ~IsPrinted(LF)
    BY DEF IsPrinted
  <2>2. x \in 0 .. TEXT_COLS - 1 /\ y \in 0 .. TEXT_ROWS - 1
    BY <2>1 DEF IInv, TypeOK, FullBeforeLineFeed
  <2> QED
    BY <2>2, CellInRange DEF Cells
<1> QED
  BY <1>1, ConsoleInductive, PTL

(* Between calls the display is the end of what was written and the cursor *)
(* is where the next character goes, for every sequence of strings.        *)
THEOREM DisplayIsEndOfPage == Spec => []DisplayShowsPage
<1>1. IInv => DisplayShowsPage
  <2> USE ConsoleAssumption
  <2> SUFFICES ASSUME IInv, pc = "idle"
               PROVE  /\ cursor = Len(page) - TEXT_COLS * Above
                      /\ \A i \in Cells : vga_text[i] = PageAt(TEXT_COLS * Above + i)
    BY DEF DisplayShowsPage
  <2>1. PICK n \in 0 .. Len(page) : ShowsFrom(n)
    BY DEF IInv, ShowsPage
  <2>2. page \in Seq(Printable \cup {BLANK}) /\ cursor \in 0 .. TEXT_COLS * TEXT_ROWS - 1
    BY DEF IInv, TypeOK, Cells
  <2>3. /\ Len(page) = TEXT_COLS * n + cursor
        /\ n > 0 => cursor \div TEXT_COLS = TEXT_ROWS - 1
        /\ \A i \in Cells : vga_text[i] = PageAt(TEXT_COLS * n + i)
    BY <2>1 DEF ShowsFrom, Row, Place
  <2> DEFINE q == cursor \div TEXT_COLS
             r == cursor % TEXT_COLS
  <2>4. q \in 0 .. TEXT_ROWS - 1 /\ r \in 0 .. TEXT_COLS - 1
    BY <2>2, CellHasPlace
  <2>5. cursor = TEXT_COLS * q + r
    BY <2>2
  <2>6. n > 0 => q = TEXT_ROWS - 1
    BY <2>3
  <2> HIDE DEF q, r
  <2>7. n \in Nat
    BY <2>2, <2>1
  <2>8. Len(page) = TEXT_COLS * (n + q) + r
    BY <2>3, <2>4, <2>5, <2>7
  <2>9. Len(page) \div TEXT_COLS = n + q
    BY <2>4, <2>7, <2>8, DivMod, n + q \in Int
  <2>10. Above = n
    BY <2>4, <2>6, <2>7, <2>9 DEF Above
  <2>11. TEXT_COLS * n \in Nat /\ cursor \in Nat
    BY <2>2, <2>7
  <2> QED
    BY <2>3, <2>10, <2>11
<1> QED
  BY <1>1, ConsoleInductive, PTL
=============================================================================
