--------------------------- MODULE KeyboardProofs ---------------------------
(***************************************************************************)
(* The driver follows the keys for ever: however many events there are,    *)
(* the bits it keeps are the keys held and the locks, and the ring buffer, *)
(* whatever its length, ends with the last characters typed.               *)
(***************************************************************************)
EXTENDS Keyboard, TLAPS

VirtualKeyboard ==
  [lshft : BOOLEAN, rshft : BOOLEAN, lctrl : BOOLEAN, rctrl : BOOLEAN,
   lalt : BOOLEAN, ralt : BOOLEAN, numlock : BOOLEAN, capslock : BOOLEAN,
   state : 0 .. 3]

(* What can be on the wire: a code of one byte, a pair with its prefix,    *)
(* and what is left of the codes of Pause.                                 *)
Second == {29, 157, 56, 184, 72, 200}
Single == Second \cup {42, 54, 58, 69, 30, 2, 71, 28,
                       170, 182, 186, 197, 158, 130, 199, 156}
OneByte(w) == \E b \in Single : w = <<b>>
Pair(w) == \E b \in Second : w = <<224, b>>
Pause(w) == w \in {<<225, 29, 69, 225, 157, 197>>, <<29, 69, 225, 157, 197>>,
                   <<69, 225, 157, 197>>, <<225, 157, 197>>, <<157, 197>>}
PauseEnds(w) == w = <<197>>

(* A bit follows a key, but for the code that is on the wire.              *)
Held(bit, key, held, w, on, off) ==
  IF w = <<on>> THEN key \in held
  ELSE IF w = <<off>> THEN key \notin held
  ELSE bit <=> key \in held

Locked(bit, key, locked, w, code) ==
  IF w = <<code>> THEN ~(bit <=> key \in locked) ELSE bit <=> key \in locked

WireOK ==
  /\ vkbd \in VirtualKeyboard
  /\ wire = <<>> \/ OneByte(wire) \/ Pair(wire) \/ Pause(wire)
  /\ extended \in BOOLEAN /\ "Pause" \notin down
  /\ Pair(wire) \/ wire \in {<<72>>, <<200>>} => extended

ShiftOK ==
  /\ Held(vkbd.lshft, "LShift", down, wire, 42, 170)
  /\ Held(vkbd.rshft, "RShift", down, wire, 54, 182)
  /\ Locked(vkbd.capslock, "CapsLock", locks, wire, 58)

(* The prefix state says how much of the codes of Pause was taken.         *)
StateOK ==
  IF wire \in {<<29, 69, 225, 157, 197>>, <<157, 197>>} THEN vkbd.state = 2
  ELSE IF wire = <<69, 225, 157, 197>> THEN vkbd.state = 3
  ELSE IF wire = <<197>> THEN vkbd.state \in {0, 3}
  ELSE vkbd.state = 0

UnprefixedOK ==
  ~extended =>
    /\ Held(vkbd.lctrl, "LCtrl", down, wire, 29, 157)
    /\ Held(vkbd.lalt, "LAlt", down, wire, 56, 184)
    /\ Locked(vkbd.numlock, "NumLock", locks, wire, 69)
    /\ ~vkbd.rctrl /\ ~vkbd.ralt
    /\ "RCtrl" \notin down
    /\ StateOK

KInv == WireOK /\ ShiftOK /\ UnprefixedOK

(* The code of a character on the wire is the last of the text, and not    *)
(* yet in the buffer.                                                      *)
CharCodes == {30, 2, 71, 28}
Pending == \E c \in CharCodes : wire = <<c>>
Shown(chars, ch) == IF ch = 0 THEN chars ELSE Append(chars, ch)

BufferTyped ==
  /\ keyboard_buffer \in [0 .. BufSize - 1 -> Int]
  /\ kbbuf_in \in 0 .. BufSize - 1
  /\ text \in Seq(Int) /\ visible \in Seq(Int) /\ echo \in Seq(Int)

TextOK ==
  ~extended =>
    IF Pending
    THEN LET ch == ScanCodeToASCII(Head(wire))
         IN  /\ Len(text) > 0 /\ text[Len(text)] = ch
             /\ BufferEnds(Len(text) - 1)
             /\ visible = Shown(echo, ch)
    ELSE BufferEnds(Len(text)) /\ echo = visible

TInv == KInv /\ BufferTyped /\ TextOK

-----------------------------------------------------------------------------
(* A byte moves one of the driver's fields at most.                        *)
Others(v, w, field) ==
  /\ field # "lshft" => w.lshft = v.lshft
  /\ field # "rshft" => w.rshft = v.rshft
  /\ field # "lctrl" => w.lctrl = v.lctrl
  /\ field # "rctrl" => w.rctrl = v.rctrl
  /\ field # "lalt" => w.lalt = v.lalt
  /\ field # "ralt" => w.ralt = v.ralt
  /\ field # "numlock" => w.numlock = v.numlock
  /\ field # "capslock" => w.capslock = v.capslock
  /\ field # "state" => w.state = v.state

LEMMA OneMoves ==
  ASSUME NEW v \in VirtualKeyboard, NEW q
  PROVE  /\ [v EXCEPT !.lshft = q].lshft = q /\ Others(v, [v EXCEPT !.lshft = q], "lshft")
         /\ [v EXCEPT !.rshft = q].rshft = q /\ Others(v, [v EXCEPT !.rshft = q], "rshft")
         /\ [v EXCEPT !.lctrl = q].lctrl = q /\ Others(v, [v EXCEPT !.lctrl = q], "lctrl")
         /\ [v EXCEPT !.rctrl = q].rctrl = q /\ Others(v, [v EXCEPT !.rctrl = q], "rctrl")
         /\ [v EXCEPT !.lalt = q].lalt = q /\ Others(v, [v EXCEPT !.lalt = q], "lalt")
         /\ [v EXCEPT !.capslock = q].capslock = q /\ Others(v, [v EXCEPT !.capslock = q], "capslock")
         /\ [v EXCEPT !.numlock = q].numlock = q /\ Others(v, [v EXCEPT !.numlock = q], "numlock")
         /\ [v EXCEPT !.state = q].state = q /\ Others(v, [v EXCEPT !.state = q], "state")
<1>1. [v EXCEPT !.lshft = q].lshft = q /\ Others(v, [v EXCEPT !.lshft = q], "lshft")
  BY DEF VirtualKeyboard, Others
<1>2. [v EXCEPT !.rshft = q].rshft = q /\ Others(v, [v EXCEPT !.rshft = q], "rshft")
  BY DEF VirtualKeyboard, Others
<1>3. [v EXCEPT !.lctrl = q].lctrl = q /\ Others(v, [v EXCEPT !.lctrl = q], "lctrl")
  BY DEF VirtualKeyboard, Others
<1>4. [v EXCEPT !.rctrl = q].rctrl = q /\ Others(v, [v EXCEPT !.rctrl = q], "rctrl")
  BY DEF VirtualKeyboard, Others
<1>5. [v EXCEPT !.lalt = q].lalt = q /\ Others(v, [v EXCEPT !.lalt = q], "lalt")
  BY DEF VirtualKeyboard, Others
<1>6. [v EXCEPT !.capslock = q].capslock = q /\ Others(v, [v EXCEPT !.capslock = q], "capslock")
  BY DEF VirtualKeyboard, Others
<1>7. [v EXCEPT !.numlock = q].numlock = q /\ Others(v, [v EXCEPT !.numlock = q], "numlock")
  BY DEF VirtualKeyboard, Others
<1>8. [v EXCEPT !.state = q].state = q /\ Others(v, [v EXCEPT !.state = q], "state")
  BY DEF VirtualKeyboard, Others
<1> QED
  BY <1>1, <1>2, <1>3, <1>4, <1>5, <1>6, <1>7, <1>8, Zenon

LEMMA BooleanBits ==
  vkbd \in VirtualKeyboard => vkbd.capslock \in BOOLEAN /\ vkbd.numlock \in BOOLEAN
BY DEF VirtualKeyboard

LEMMA Followed ==
  ASSUME vkbd \in VirtualKeyboard, NEW b \in Int
  PROVE  /\ Follow(b).lshft <=> (b = 42 \/ (b # 170 /\ vkbd.lshft))
         /\ Follow(b).rshft <=> (b = 54 \/ (b # 182 /\ vkbd.rshft))
         /\ Follow(b).capslock <=> ~(b = 58 <=> vkbd.capslock)
         /\ Follow(b).lctrl <=>
              IF vkbd.state = 0 THEN b = 29 \/ (b # 157 /\ vkbd.lctrl) ELSE vkbd.lctrl
         /\ Follow(b).lalt <=> (b = 56 \/ (b # 184 /\ vkbd.lalt))
         /\ Follow(b).numlock <=> ~((b = 69 /\ vkbd.state = 0) <=> vkbd.numlock)
         /\ Follow(b).rctrl <=> (vkbd.rctrl \/ (b = 29 /\ vkbd.state = 1))
         /\ Follow(b).ralt <=> vkbd.ralt
         /\ Follow(b).state = IF b = 224 THEN 1
                              ELSE IF b = 225 THEN 2
                              ELSE IF b \in {29, 157} /\ vkbd.state = 2 THEN 3
                              ELSE IF b \in {69, 197} /\ vkbd.state = 3 THEN 0
                              ELSE vkbd.state
<1> DEFINE w == Follow(b)
<1> HIDE DEF w
<1>1. CASE b = 42
  <2>1. w = [vkbd EXCEPT !.lshft = TRUE]
    BY <1>1 DEF Follow, w
  <2>2. w.lshft = TRUE /\ Others(vkbd, w, "lshft")
    BY <2>1, OneMoves, Zenon
  <2> QED
    BY <1>1, <2>2 DEF Others, w
<1>2. CASE b = 170
  <2>1. w = [vkbd EXCEPT !.lshft = FALSE]
    BY <1>2 DEF Follow, w
  <2>2. w.lshft = FALSE /\ Others(vkbd, w, "lshft")
    BY <2>1, OneMoves, Zenon
  <2> QED
    BY <1>2, <2>2 DEF Others, w
<1>3. CASE b = 54
  <2>1. w = [vkbd EXCEPT !.rshft = TRUE]
    BY <1>3 DEF Follow, w
  <2>2. w.rshft = TRUE /\ Others(vkbd, w, "rshft")
    BY <2>1, OneMoves, Zenon
  <2> QED
    BY <1>3, <2>2 DEF Others, w
<1>4. CASE b = 182
  <2>1. w = [vkbd EXCEPT !.rshft = FALSE]
    BY <1>4 DEF Follow, w
  <2>2. w.rshft = FALSE /\ Others(vkbd, w, "rshft")
    BY <2>1, OneMoves, Zenon
  <2> QED
    BY <1>4, <2>2 DEF Others, w
<1>5. CASE b = 29 /\ vkbd.state = 0
  <2>1. w = [vkbd EXCEPT !.lctrl = TRUE]
    BY <1>5 DEF Follow, w
  <2>2. w.lctrl = TRUE /\ Others(vkbd, w, "lctrl")
    BY <2>1, OneMoves, Zenon
  <2> QED
    BY <1>5, <2>2 DEF Others, w
<1>6. CASE b = 29 /\ vkbd.state = 1
  <2>1. w = [vkbd EXCEPT !.rctrl = TRUE]
    BY <1>6 DEF Follow, w
  <2>2. w.rctrl = TRUE /\ Others(vkbd, w, "rctrl")
    BY <2>1, OneMoves, Zenon
  <2> QED
    BY <1>6, <2>2 DEF Others, w
<1>7. CASE b \in {29, 157} /\ vkbd.state = 2
  <2>1. w = [vkbd EXCEPT !.state = 3]
    BY <1>7 DEF Follow, w
  <2>2. w.state = 3 /\ Others(vkbd, w, "state")
    BY <2>1 DEF VirtualKeyboard, Others
  <2> QED
    BY <1>7, <2>2 DEF Others, w
<1>8. CASE b = 157 /\ vkbd.state = 0
  <2>1. w = [vkbd EXCEPT !.lctrl = FALSE]
    BY <1>8 DEF Follow, w
  <2>2. w.lctrl = FALSE /\ Others(vkbd, w, "lctrl")
    BY <2>1, OneMoves, Zenon
  <2> QED
    BY <1>8, <2>2 DEF Others, w
<1>9. CASE b = 56
  <2>1. w = [vkbd EXCEPT !.lalt = TRUE]
    BY <1>9 DEF Follow, w
  <2>2. w.lalt = TRUE /\ Others(vkbd, w, "lalt")
    BY <2>1, OneMoves, Zenon
  <2> QED
    BY <1>9, <2>2 DEF Others, w
<1>10. CASE b = 184
  <2>1. w = [vkbd EXCEPT !.lalt = FALSE]
    BY <1>10 DEF Follow, w
  <2>2. w.lalt = FALSE /\ Others(vkbd, w, "lalt")
    BY <2>1, OneMoves, Zenon
  <2> QED
    BY <1>10, <2>2 DEF Others, w
<1>11. CASE b = 58
  <2>1. w = [vkbd EXCEPT !.capslock = ~vkbd.capslock]
    BY <1>11 DEF Follow, w
  <2>2. w.capslock <=> ~vkbd.capslock
    BY <2>1 DEF VirtualKeyboard
  <2>3. Others(vkbd, w, "capslock")
    BY <2>1, OneMoves, Zenon
  <2> QED
    BY <1>11, <2>2, <2>3 DEF Others, w
<1>12. CASE b = 224
  <2>1. w = [vkbd EXCEPT !.state = 1]
    BY <1>12 DEF Follow, w
  <2>2. w.state = 1 /\ Others(vkbd, w, "state")
    BY <2>1 DEF VirtualKeyboard, Others
  <2> QED
    BY <1>12, <2>2 DEF Others, w
<1>13. CASE b = 225
  <2>1. w = [vkbd EXCEPT !.state = 2]
    BY <1>13 DEF Follow, w
  <2>2. w.state = 2 /\ Others(vkbd, w, "state")
    BY <2>1 DEF VirtualKeyboard, Others
  <2> QED
    BY <1>13, <2>2 DEF Others, w
<1>14. CASE b = 69 /\ vkbd.state = 0
  <2>1. w = [vkbd EXCEPT !.numlock = ~vkbd.numlock]
    BY <1>14 DEF Follow, w
  <2>2. w.numlock <=> ~vkbd.numlock
    BY <2>1 DEF VirtualKeyboard
  <2>3. Others(vkbd, w, "numlock")
    BY <2>1, OneMoves, Zenon
  <2> QED
    BY <1>14, <2>2, <2>3 DEF Others, w
<1>15. CASE b \in {69, 197} /\ vkbd.state = 3
  <2>1. w = [vkbd EXCEPT !.state = 0]
    BY <1>15 DEF Follow, w
  <2>2. w.state = 0 /\ Others(vkbd, w, "state")
    BY <2>1 DEF VirtualKeyboard, Others
  <2> QED
    BY <1>15, <2>2 DEF Others, w
<1>16. CASE /\ b \notin {42, 170, 54, 182, 56, 184, 58, 224, 225}
            /\ b = 29 => vkbd.state = 3
            /\ b = 157 => vkbd.state \in {1, 3}
            /\ b = 69 => vkbd.state \in {1, 2}
            /\ b = 197 => vkbd.state # 3
  <2>1. w = vkbd
    BY <1>16 DEF Follow, w
  <2> QED
    BY <1>16, <2>1 DEF VirtualKeyboard, w
<1>17. vkbd.state \in 0 .. 3
  BY DEF VirtualKeyboard
<1> QED
  BY <1>1, <1>2, <1>3, <1>4, <1>5, <1>6, <1>7, <1>8, <1>9, <1>10, <1>11, <1>12, <1>13, <1>14, <1>15, <1>16, <1>17

LEMMA OneTyped ==
  ASSUME NEW v \in VirtualKeyboard
  PROVE  \A q \in BOOLEAN :
           /\ [v EXCEPT !.lshft = q] \in VirtualKeyboard
           /\ [v EXCEPT !.rshft = q] \in VirtualKeyboard
           /\ [v EXCEPT !.lctrl = q] \in VirtualKeyboard
           /\ [v EXCEPT !.rctrl = q] \in VirtualKeyboard
           /\ [v EXCEPT !.lalt = q] \in VirtualKeyboard
           /\ [v EXCEPT !.capslock = q] \in VirtualKeyboard
           /\ [v EXCEPT !.numlock = q] \in VirtualKeyboard
<1>1. ASSUME NEW q \in BOOLEAN PROVE [v EXCEPT !.lshft = q] \in VirtualKeyboard
  BY DEF VirtualKeyboard
<1>2. ASSUME NEW q \in BOOLEAN PROVE [v EXCEPT !.rshft = q] \in VirtualKeyboard
  BY DEF VirtualKeyboard
<1>3. ASSUME NEW q \in BOOLEAN PROVE [v EXCEPT !.lctrl = q] \in VirtualKeyboard
  BY DEF VirtualKeyboard
<1>4. ASSUME NEW q \in BOOLEAN PROVE [v EXCEPT !.rctrl = q] \in VirtualKeyboard
  BY DEF VirtualKeyboard
<1>5. ASSUME NEW q \in BOOLEAN PROVE [v EXCEPT !.lalt = q] \in VirtualKeyboard
  BY DEF VirtualKeyboard
<1>6. ASSUME NEW q \in BOOLEAN PROVE [v EXCEPT !.capslock = q] \in VirtualKeyboard
  BY DEF VirtualKeyboard
<1>7. ASSUME NEW q \in BOOLEAN PROVE [v EXCEPT !.numlock = q] \in VirtualKeyboard
  BY DEF VirtualKeyboard
<1> QED
  BY <1>1, <1>2, <1>3, <1>4, <1>5, <1>6, <1>7, Zenon

LEMMA FollowedType ==
  ASSUME vkbd \in VirtualKeyboard, NEW b
  PROVE  Follow(b) \in VirtualKeyboard
<1>1. TRUE \in BOOLEAN /\ FALSE \in BOOLEAN
  OBVIOUS
<1>2. (~vkbd.capslock) \in BOOLEAN /\ (~vkbd.numlock) \in BOOLEAN
  OBVIOUS
<1>3. [vkbd EXCEPT !.lshft = TRUE] \in VirtualKeyboard
  BY <1>1, <1>2, OneTyped, Zenon
<1>4. [vkbd EXCEPT !.lshft = FALSE] \in VirtualKeyboard
  BY <1>1, <1>2, OneTyped, Zenon
<1>5. [vkbd EXCEPT !.rshft = TRUE] \in VirtualKeyboard
  BY <1>1, <1>2, OneTyped, Zenon
<1>6. [vkbd EXCEPT !.rshft = FALSE] \in VirtualKeyboard
  BY <1>1, <1>2, OneTyped, Zenon
<1>7. [vkbd EXCEPT !.lctrl = TRUE] \in VirtualKeyboard
  BY <1>1, <1>2, OneTyped, Zenon
<1>8. [vkbd EXCEPT !.rctrl = TRUE] \in VirtualKeyboard
  BY <1>1, <1>2, OneTyped, Zenon
<1>9. [vkbd EXCEPT !.state = 3] \in VirtualKeyboard
  BY DEF VirtualKeyboard
<1>10. [vkbd EXCEPT !.lctrl = FALSE] \in VirtualKeyboard
  BY <1>1, <1>2, OneTyped, Zenon
<1>11. [vkbd EXCEPT !.lalt = TRUE] \in VirtualKeyboard
  BY <1>1, <1>2, OneTyped, Zenon
<1>12. [vkbd EXCEPT !.lalt = FALSE] \in VirtualKeyboard
  BY <1>1, <1>2, OneTyped, Zenon
<1>13. [vkbd EXCEPT !.capslock = ~vkbd.capslock] \in VirtualKeyboard
  BY <1>1, <1>2, OneTyped, Zenon
<1>14. [vkbd EXCEPT !.state = 1] \in VirtualKeyboard
  BY DEF VirtualKeyboard
<1>15. [vkbd EXCEPT !.state = 2] \in VirtualKeyboard
  BY DEF VirtualKeyboard
<1>16. [vkbd EXCEPT !.numlock = ~vkbd.numlock] \in VirtualKeyboard
  BY <1>1, <1>2, OneTyped, Zenon
<1>17. [vkbd EXCEPT !.state = 0] \in VirtualKeyboard
  BY DEF VirtualKeyboard
<1> HIDE DEF VirtualKeyboard
<1> QED
  BY <1>3, <1>4, <1>5, <1>6, <1>7, <1>8, <1>9, <1>10, <1>11, <1>12, <1>13, <1>14, <1>15, <1>16, <1>17, Zenon DEF Follow

LEMMA Taken ==
  KeyboardHandlerM =>
    /\ wire # <<>> /\ wire' = Tail(wire) /\ vkbd' = Follow(Head(wire))
    /\ UNCHANGED <<down, locks, extended, text, visible>>
<1>1. \A b : ~IsHandled(b) => Follow(b) = vkbd
  BY DEF IsHandled, Follow
<1>2. TakeControl => /\ wire # <<>> /\ wire' = Tail(wire) /\ vkbd' = Follow(Head(wire))
                     /\ UNCHANGED <<down, locks, text, visible>>
  BY DEF TakeControl
<1>3. TakeChar => /\ wire # <<>> /\ wire' = Tail(wire) /\ vkbd' = Follow(Head(wire))
                  /\ UNCHANGED <<down, locks, text, visible>>
  BY <1>1 DEF TakeChar
<1>4. KeyboardHandlerM => extended' = extended
  BY Zenon DEF KeyboardHandlerM, TakeControl, TakeChar
<1> QED
  BY <1>2, <1>3, <1>4, Zenon DEF KeyboardHandlerM

-----------------------------------------------------------------------------
(* The codes of the keys.                                                  *)
LEMMA KeyCodes ==
  /\ MakeCodes("LShift") = <<42>> /\ BreakCodes("LShift") = <<170>>
  /\ MakeCodes("RShift") = <<54>> /\ BreakCodes("RShift") = <<182>>
  /\ MakeCodes("LCtrl") = <<29>> /\ BreakCodes("LCtrl") = <<157>>
  /\ MakeCodes("RCtrl") = <<224, 29>> /\ BreakCodes("RCtrl") = <<224, 157>>
  /\ MakeCodes("LAlt") = <<56>> /\ BreakCodes("LAlt") = <<184>>
  /\ MakeCodes("RAlt") = <<224, 56>> /\ BreakCodes("RAlt") = <<224, 184>>
  /\ MakeCodes("CapsLock") = <<58>> /\ BreakCodes("CapsLock") = <<186>>
  /\ MakeCodes("NumLock") = <<69>> /\ BreakCodes("NumLock") = <<197>>
  /\ MakeCodes("A") = <<30>> /\ BreakCodes("A") = <<158>>
  /\ MakeCodes("One") = <<2>> /\ BreakCodes("One") = <<130>>
  /\ MakeCodes("Keypad7") = <<71>> /\ BreakCodes("Keypad7") = <<199>>
  /\ MakeCodes("Enter") = <<28>> /\ BreakCodes("Enter") = <<156>>
  /\ MakeCodes("Up") = <<224, 72>> /\ BreakCodes("Up") = <<224, 200>>
  /\ MakeCodes("Pause") = <<225, 29, 69, 225, 157, 197>>
<1>1. MakeCodes("LShift") = <<42>>
  BY DEF MakeCodes
<1>2. BreakCodes("LShift") = <<170>>
  BY <1>1 DEF BreakCodes
<1>3. MakeCodes("RShift") = <<54>>
  BY DEF MakeCodes
<1>4. BreakCodes("RShift") = <<182>>
  BY <1>3 DEF BreakCodes
<1>5. MakeCodes("LCtrl") = <<29>>
  BY DEF MakeCodes
<1>6. BreakCodes("LCtrl") = <<157>>
  BY <1>5 DEF BreakCodes
<1>7. MakeCodes("RCtrl") = <<224, 29>>
  BY DEF MakeCodes
<1>8. BreakCodes("RCtrl") = <<224, 157>>
  BY <1>7 DEF BreakCodes
<1>9. MakeCodes("LAlt") = <<56>>
  BY DEF MakeCodes
<1>10. BreakCodes("LAlt") = <<184>>
  BY <1>9 DEF BreakCodes
<1>11. MakeCodes("RAlt") = <<224, 56>>
  BY DEF MakeCodes
<1>12. BreakCodes("RAlt") = <<224, 184>>
  BY <1>11 DEF BreakCodes
<1>13. MakeCodes("CapsLock") = <<58>>
  BY DEF MakeCodes
<1>14. BreakCodes("CapsLock") = <<186>>
  BY <1>13 DEF BreakCodes
<1>15. MakeCodes("NumLock") = <<69>>
  BY DEF MakeCodes
<1>16. BreakCodes("NumLock") = <<197>>
  BY <1>15 DEF BreakCodes
<1>17. MakeCodes("A") = <<30>>
  BY DEF MakeCodes
<1>18. BreakCodes("A") = <<158>>
  BY <1>17 DEF BreakCodes
<1>19. MakeCodes("One") = <<2>>
  BY DEF MakeCodes
<1>20. BreakCodes("One") = <<130>>
  BY <1>19 DEF BreakCodes
<1>21. MakeCodes("Keypad7") = <<71>>
  BY DEF MakeCodes
<1>22. BreakCodes("Keypad7") = <<199>>
  BY <1>21 DEF BreakCodes
<1>23. MakeCodes("Enter") = <<28>>
  BY DEF MakeCodes
<1>24. BreakCodes("Enter") = <<156>>
  BY <1>23 DEF BreakCodes
<1>25. MakeCodes("Up") = <<224, 72>>
  BY DEF MakeCodes
<1>26. BreakCodes("Up") = <<224, 200>>
  BY <1>25 DEF BreakCodes
<1>27. MakeCodes("Pause") = <<225, 29, 69, 225, 157, 197>>
  BY DEF MakeCodes
<1> QED
  BY <1>1, <1>2, <1>3, <1>4, <1>5, <1>6, <1>7, <1>8, <1>9, <1>10, <1>11, <1>12, <1>13, <1>14, <1>15, <1>16, <1>17, <1>18, <1>19, <1>20, <1>21, <1>22, <1>23, <1>24, <1>25, <1>26, <1>27

(* A whole code, of a press and of a release.                              *)
Code(w) ==
  /\ w # <<>> /\ (OneByte(w) \/ Pair(w) \/ Pause(w))
  /\ (Pair(w) <=> w[1] = 224)
  /\ w \notin {<<72>>, <<200>>, <<29, 69, 225, 157, 197>>, <<157, 197>>, <<69, 225, 157, 197>>}

CharOf(k, c) ==
  \/ k = "A" /\ c = 30
  \/ k = "One" /\ c = 2
  \/ k = "Keypad7" /\ c = 71
  \/ k = "Enter" /\ c = 28
CharCode(k, w) == \A c \in CharCodes : (w = <<c>>) <=> CharOf(k, c)

LEMMA Tuples ==
  /\ \A b, c : (<<b>> = <<c>>) <=> (b = c)
  /\ \A a, b, c : <<a, b>> # <<c>>
  /\ \A a, b : <<a>>[1] = a /\ <<a, b>>[1] = a
  OBVIOUS

LEMMA SingleCode ==
  ASSUME NEW b \in Single \ {72, 200}
  PROVE  Code(<<b>>) /\ ~Pause(<<b>>)
<1>1. ~Pair(<<b>>) /\ b # 224 /\ <<b>>[1] # 224
  BY DEF Pair, Single, Second
<1>2. ~Pause(<<b>>)
  BY DEF Pause
<1>3. OneByte(<<b>>)
  BY DEF OneByte
<1> QED
  BY <1>1, <1>2, <1>3 DEF Code

LEMMA PairCode ==
  ASSUME NEW b \in Second
  PROVE  Code(<<224, b>>) /\ ~Pause(<<224, b>>)
<1>1. Pair(<<224, b>>) /\ <<224, b>>[1] = 224
  BY DEF Pair
<1>2. <<224, b>> # <<157, 197>>
  OBVIOUS
<1>3. ~Pause(<<224, b>>)
  BY <1>2 DEF Pause
<1> QED
  BY <1>1, <1>2, <1>3 DEF Code

LEMMA PauseCode ==
  Code(<<225, 29, 69, 225, 157, 197>>)
<1> DEFINE w == <<225, 29, 69, 225, 157, 197>>
<1>1. ~Pair(w) /\ w[1] # 224
  BY DEF Pair
<1> QED
  BY <1>1 DEF Code, Pause

LEMMA PressCodes ==
  ASSUME NEW k \in Modifiers \cup Locks \cup Ordinary \cup {"Pause"}
  PROVE  LET w == MakeCodes(k)
         IN  /\ Code(w)
             /\ (w = <<42>> <=> k = "LShift")
             /\ (w = <<54>> <=> k = "RShift")
             /\ (w = <<29>> <=> k = "LCtrl")
             /\ (w = <<56>> <=> k = "LAlt")
             /\ (w = <<58>> <=> k = "CapsLock")
             /\ (w = <<69>> <=> k = "NumLock")
             /\ w \notin {<<170>>, <<182>>, <<157>>, <<184>>, <<197>>}
             /\ (w[1] = 224 <=> k \in {"RCtrl", "RAlt", "Up"})
             /\ CharCode(k, w)
<1>1. CASE k = "LShift"
  <2>1. MakeCodes(k) = <<42>>
    BY <1>1, KeyCodes, Zenon
  <2>2. 42 \in Single \ {72, 200}
    BY DEF Single, Second
  <2>3. Code(MakeCodes(k)) /\ ~Pause(MakeCodes(k))
    BY <2>1, <2>2, SingleCode
  <2>4. MakeCodes(k)[1] = 42 /\ \A c : (MakeCodes(k) = <<c>>) <=> (c = 42)
    BY <2>1, Tuples
  <2>6. CharCode(k, MakeCodes(k))
    BY <1>1, <2>4 DEF CharCodes, CharOf, CharCode
  <2> QED
    BY <1>1, <2>3, <2>4, <2>6
<1>2. CASE k = "RShift"
  <2>1. MakeCodes(k) = <<54>>
    BY <1>2, KeyCodes, Zenon
  <2>2. 54 \in Single \ {72, 200}
    BY DEF Single, Second
  <2>3. Code(MakeCodes(k)) /\ ~Pause(MakeCodes(k))
    BY <2>1, <2>2, SingleCode
  <2>4. MakeCodes(k)[1] = 54 /\ \A c : (MakeCodes(k) = <<c>>) <=> (c = 54)
    BY <2>1, Tuples
  <2>6. CharCode(k, MakeCodes(k))
    BY <1>2, <2>4 DEF CharCodes, CharOf, CharCode
  <2> QED
    BY <1>2, <2>3, <2>4, <2>6
<1>3. CASE k = "LCtrl"
  <2>1. MakeCodes(k) = <<29>>
    BY <1>3, KeyCodes, Zenon
  <2>2. 29 \in Single \ {72, 200}
    BY DEF Single, Second
  <2>3. Code(MakeCodes(k)) /\ ~Pause(MakeCodes(k))
    BY <2>1, <2>2, SingleCode
  <2>4. MakeCodes(k)[1] = 29 /\ \A c : (MakeCodes(k) = <<c>>) <=> (c = 29)
    BY <2>1, Tuples
  <2>6. CharCode(k, MakeCodes(k))
    BY <1>3, <2>4 DEF CharCodes, CharOf, CharCode
  <2> QED
    BY <1>3, <2>3, <2>4, <2>6
<1>4. CASE k = "RCtrl"
  <2>1. MakeCodes(k) = <<224, 29>>
    BY <1>4, KeyCodes, Zenon
  <2>2. 29 \in Second
    BY DEF Second
  <2>3. Code(MakeCodes(k)) /\ ~Pause(MakeCodes(k))
    BY <2>1, <2>2, PairCode
  <2>4. MakeCodes(k)[1] = 224 /\ \A c : MakeCodes(k) # <<c>>
    BY <2>1, Tuples
  <2> QED
    BY <1>4, <2>3, <2>4 DEF CharCodes, CharCode, CharOf
<1>5. CASE k = "LAlt"
  <2>1. MakeCodes(k) = <<56>>
    BY <1>5, KeyCodes, Zenon
  <2>2. 56 \in Single \ {72, 200}
    BY DEF Single, Second
  <2>3. Code(MakeCodes(k)) /\ ~Pause(MakeCodes(k))
    BY <2>1, <2>2, SingleCode
  <2>4. MakeCodes(k)[1] = 56 /\ \A c : (MakeCodes(k) = <<c>>) <=> (c = 56)
    BY <2>1, Tuples
  <2>6. CharCode(k, MakeCodes(k))
    BY <1>5, <2>4 DEF CharCodes, CharOf, CharCode
  <2> QED
    BY <1>5, <2>3, <2>4, <2>6
<1>6. CASE k = "RAlt"
  <2>1. MakeCodes(k) = <<224, 56>>
    BY <1>6, KeyCodes, Zenon
  <2>2. 56 \in Second
    BY DEF Second
  <2>3. Code(MakeCodes(k)) /\ ~Pause(MakeCodes(k))
    BY <2>1, <2>2, PairCode
  <2>4. MakeCodes(k)[1] = 224 /\ \A c : MakeCodes(k) # <<c>>
    BY <2>1, Tuples
  <2> QED
    BY <1>6, <2>3, <2>4 DEF CharCodes, CharCode, CharOf
<1>7. CASE k = "CapsLock"
  <2>1. MakeCodes(k) = <<58>>
    BY <1>7, KeyCodes, Zenon
  <2>2. 58 \in Single \ {72, 200}
    BY DEF Single, Second
  <2>3. Code(MakeCodes(k)) /\ ~Pause(MakeCodes(k))
    BY <2>1, <2>2, SingleCode
  <2>4. MakeCodes(k)[1] = 58 /\ \A c : (MakeCodes(k) = <<c>>) <=> (c = 58)
    BY <2>1, Tuples
  <2>6. CharCode(k, MakeCodes(k))
    BY <1>7, <2>4 DEF CharCodes, CharOf, CharCode
  <2> QED
    BY <1>7, <2>3, <2>4, <2>6
<1>8. CASE k = "NumLock"
  <2>1. MakeCodes(k) = <<69>>
    BY <1>8, KeyCodes, Zenon
  <2>2. 69 \in Single \ {72, 200}
    BY DEF Single, Second
  <2>3. Code(MakeCodes(k)) /\ ~Pause(MakeCodes(k))
    BY <2>1, <2>2, SingleCode
  <2>4. MakeCodes(k)[1] = 69 /\ \A c : (MakeCodes(k) = <<c>>) <=> (c = 69)
    BY <2>1, Tuples
  <2>6. CharCode(k, MakeCodes(k))
    BY <1>8, <2>4 DEF CharCodes, CharOf, CharCode
  <2> QED
    BY <1>8, <2>3, <2>4, <2>6
<1>9. CASE k = "A"
  <2>1. MakeCodes(k) = <<30>>
    BY <1>9, KeyCodes, Zenon
  <2>2. 30 \in Single \ {72, 200}
    BY DEF Single, Second
  <2>3. Code(MakeCodes(k)) /\ ~Pause(MakeCodes(k))
    BY <2>1, <2>2, SingleCode
  <2>4. MakeCodes(k)[1] = 30 /\ \A c : (MakeCodes(k) = <<c>>) <=> (c = 30)
    BY <2>1, Tuples
  <2>5. \A d : CharOf(k, d) <=> (d = 30)
    BY <1>9 DEF CharOf
  <2>6. CharCode(k, MakeCodes(k))
    BY <2>4, <2>5, Zenon DEF CharCode
  <2> QED
    BY <1>9, <2>3, <2>4, <2>6
<1>10. CASE k = "One"
  <2>1. MakeCodes(k) = <<2>>
    BY <1>10, KeyCodes, Zenon
  <2>2. 2 \in Single \ {72, 200}
    BY DEF Single, Second
  <2>3. Code(MakeCodes(k)) /\ ~Pause(MakeCodes(k))
    BY <2>1, <2>2, SingleCode
  <2>4. MakeCodes(k)[1] = 2 /\ \A c : (MakeCodes(k) = <<c>>) <=> (c = 2)
    BY <2>1, Tuples
  <2>5. \A d : CharOf(k, d) <=> (d = 2)
    BY <1>10 DEF CharOf
  <2>6. CharCode(k, MakeCodes(k))
    BY <2>4, <2>5, Zenon DEF CharCode
  <2> QED
    BY <1>10, <2>3, <2>4, <2>6
<1>11. CASE k = "Keypad7"
  <2>1. MakeCodes(k) = <<71>>
    BY <1>11, KeyCodes, Zenon
  <2>2. 71 \in Single \ {72, 200}
    BY DEF Single, Second
  <2>3. Code(MakeCodes(k)) /\ ~Pause(MakeCodes(k))
    BY <2>1, <2>2, SingleCode
  <2>4. MakeCodes(k)[1] = 71 /\ \A c : (MakeCodes(k) = <<c>>) <=> (c = 71)
    BY <2>1, Tuples
  <2>5. \A d : CharOf(k, d) <=> (d = 71)
    BY <1>11 DEF CharOf
  <2>6. CharCode(k, MakeCodes(k))
    BY <2>4, <2>5, Zenon DEF CharCode
  <2> QED
    BY <1>11, <2>3, <2>4, <2>6
<1>12. CASE k = "Enter"
  <2>1. MakeCodes(k) = <<28>>
    BY <1>12, KeyCodes, Zenon
  <2>2. 28 \in Single \ {72, 200}
    BY DEF Single, Second
  <2>3. Code(MakeCodes(k)) /\ ~Pause(MakeCodes(k))
    BY <2>1, <2>2, SingleCode
  <2>4. MakeCodes(k)[1] = 28 /\ \A c : (MakeCodes(k) = <<c>>) <=> (c = 28)
    BY <2>1, Tuples
  <2>5. \A d : CharOf(k, d) <=> (d = 28)
    BY <1>12 DEF CharOf
  <2>6. CharCode(k, MakeCodes(k))
    BY <2>4, <2>5, Zenon DEF CharCode
  <2> QED
    BY <1>12, <2>3, <2>4, <2>6
<1>13. CASE k = "Up"
  <2>1. MakeCodes(k) = <<224, 72>>
    BY <1>13, KeyCodes, Zenon
  <2>2. 72 \in Second
    BY DEF Second
  <2>3. Code(MakeCodes(k)) /\ ~Pause(MakeCodes(k))
    BY <2>1, <2>2, PairCode
  <2>4. MakeCodes(k)[1] = 224 /\ \A c : MakeCodes(k) # <<c>>
    BY <2>1, Tuples
  <2> QED
    BY <1>13, <2>3, <2>4 DEF CharCodes, CharCode, CharOf
<1>14. CASE k = "Pause"
  <2>1. MakeCodes(k) = <<225, 29, 69, 225, 157, 197>>
    BY <1>14, KeyCodes, Zenon
  <2>2. \A c : MakeCodes(k) # <<c>>
    BY <2>1
  <2>3. MakeCodes(k)[1] # 224
    BY <2>1
  <2> QED
    BY <1>14, <2>1, <2>2, <2>3, PauseCode DEF CharCodes, CharCode, CharOf
<1> QED
  BY <1>1, <1>2, <1>3, <1>4, <1>5, <1>6, <1>7, <1>8, <1>9, <1>10, <1>11, <1>12, <1>13, <1>14 DEF Modifiers, Locks, Ordinary

LEMMA ReleaseCodes ==
  ASSUME NEW k \in Modifiers \cup Locks \cup Ordinary
  PROVE  LET w == BreakCodes(k)
         IN  /\ Code(w) /\ ~Pause(w)
             /\ (w = <<170>> <=> k = "LShift")
             /\ (w = <<182>> <=> k = "RShift")
             /\ (w = <<157>> <=> k = "LCtrl")
             /\ (w = <<184>> <=> k = "LAlt")
             /\ w \notin {<<42>>, <<54>>, <<29>>, <<56>>, <<58>>, <<69>>}
             /\ \A c \in CharCodes : w # <<c>>
<1>1. CASE k = "LShift"
  <2>1. BreakCodes(k) = <<170>>
    BY <1>1, KeyCodes, Zenon
  <2>2. 170 \in Single \ {72, 200}
    BY DEF Single, Second
  <2>3. Code(BreakCodes(k)) /\ ~Pause(BreakCodes(k))
    BY <2>1, <2>2, SingleCode
  <2>4. BreakCodes(k)[1] = 170 /\ \A c : (BreakCodes(k) = <<c>>) <=> (c = 170)
    BY <2>1, Tuples
  <2> QED
    BY <1>1, <2>3, <2>4 DEF CharCodes
<1>2. CASE k = "RShift"
  <2>1. BreakCodes(k) = <<182>>
    BY <1>2, KeyCodes, Zenon
  <2>2. 182 \in Single \ {72, 200}
    BY DEF Single, Second
  <2>3. Code(BreakCodes(k)) /\ ~Pause(BreakCodes(k))
    BY <2>1, <2>2, SingleCode
  <2>4. BreakCodes(k)[1] = 182 /\ \A c : (BreakCodes(k) = <<c>>) <=> (c = 182)
    BY <2>1, Tuples
  <2> QED
    BY <1>2, <2>3, <2>4 DEF CharCodes
<1>3. CASE k = "LCtrl"
  <2>1. BreakCodes(k) = <<157>>
    BY <1>3, KeyCodes, Zenon
  <2>2. 157 \in Single \ {72, 200}
    BY DEF Single, Second
  <2>3. Code(BreakCodes(k)) /\ ~Pause(BreakCodes(k))
    BY <2>1, <2>2, SingleCode
  <2>4. BreakCodes(k)[1] = 157 /\ \A c : (BreakCodes(k) = <<c>>) <=> (c = 157)
    BY <2>1, Tuples
  <2> QED
    BY <1>3, <2>3, <2>4 DEF CharCodes
<1>4. CASE k = "RCtrl"
  <2>1. BreakCodes(k) = <<224, 157>>
    BY <1>4, KeyCodes, Zenon
  <2>2. 157 \in Second
    BY DEF Second
  <2>3. Code(BreakCodes(k)) /\ ~Pause(BreakCodes(k))
    BY <2>1, <2>2, PairCode
  <2>4. BreakCodes(k)[1] = 224 /\ \A c : BreakCodes(k) # <<c>>
    BY <2>1, Tuples
  <2> QED
    BY <1>4, <2>3, <2>4 DEF CharCodes, CharCode, CharOf
<1>5. CASE k = "LAlt"
  <2>1. BreakCodes(k) = <<184>>
    BY <1>5, KeyCodes, Zenon
  <2>2. 184 \in Single \ {72, 200}
    BY DEF Single, Second
  <2>3. Code(BreakCodes(k)) /\ ~Pause(BreakCodes(k))
    BY <2>1, <2>2, SingleCode
  <2>4. BreakCodes(k)[1] = 184 /\ \A c : (BreakCodes(k) = <<c>>) <=> (c = 184)
    BY <2>1, Tuples
  <2> QED
    BY <1>5, <2>3, <2>4 DEF CharCodes
<1>6. CASE k = "RAlt"
  <2>1. BreakCodes(k) = <<224, 184>>
    BY <1>6, KeyCodes, Zenon
  <2>2. 184 \in Second
    BY DEF Second
  <2>3. Code(BreakCodes(k)) /\ ~Pause(BreakCodes(k))
    BY <2>1, <2>2, PairCode
  <2>4. BreakCodes(k)[1] = 224 /\ \A c : BreakCodes(k) # <<c>>
    BY <2>1, Tuples
  <2> QED
    BY <1>6, <2>3, <2>4 DEF CharCodes, CharCode, CharOf
<1>7. CASE k = "CapsLock"
  <2>1. BreakCodes(k) = <<186>>
    BY <1>7, KeyCodes, Zenon
  <2>2. 186 \in Single \ {72, 200}
    BY DEF Single, Second
  <2>3. Code(BreakCodes(k)) /\ ~Pause(BreakCodes(k))
    BY <2>1, <2>2, SingleCode
  <2>4. BreakCodes(k)[1] = 186 /\ \A c : (BreakCodes(k) = <<c>>) <=> (c = 186)
    BY <2>1, Tuples
  <2> QED
    BY <1>7, <2>3, <2>4 DEF CharCodes
<1>8. CASE k = "NumLock"
  <2>1. BreakCodes(k) = <<197>>
    BY <1>8, KeyCodes, Zenon
  <2>2. 197 \in Single \ {72, 200}
    BY DEF Single, Second
  <2>3. Code(BreakCodes(k)) /\ ~Pause(BreakCodes(k))
    BY <2>1, <2>2, SingleCode
  <2>4. BreakCodes(k)[1] = 197 /\ \A c : (BreakCodes(k) = <<c>>) <=> (c = 197)
    BY <2>1, Tuples
  <2> QED
    BY <1>8, <2>3, <2>4 DEF CharCodes
<1>9. CASE k = "A"
  <2>1. BreakCodes(k) = <<158>>
    BY <1>9, KeyCodes, Zenon
  <2>2. 158 \in Single \ {72, 200}
    BY DEF Single, Second
  <2>3. Code(BreakCodes(k)) /\ ~Pause(BreakCodes(k))
    BY <2>1, <2>2, SingleCode
  <2>4. BreakCodes(k)[1] = 158 /\ \A c : (BreakCodes(k) = <<c>>) <=> (c = 158)
    BY <2>1, Tuples
  <2> QED
    BY <1>9, <2>3, <2>4 DEF CharCodes
<1>10. CASE k = "One"
  <2>1. BreakCodes(k) = <<130>>
    BY <1>10, KeyCodes, Zenon
  <2>2. 130 \in Single \ {72, 200}
    BY DEF Single, Second
  <2>3. Code(BreakCodes(k)) /\ ~Pause(BreakCodes(k))
    BY <2>1, <2>2, SingleCode
  <2>4. BreakCodes(k)[1] = 130 /\ \A c : (BreakCodes(k) = <<c>>) <=> (c = 130)
    BY <2>1, Tuples
  <2> QED
    BY <1>10, <2>3, <2>4 DEF CharCodes
<1>11. CASE k = "Keypad7"
  <2>1. BreakCodes(k) = <<199>>
    BY <1>11, KeyCodes, Zenon
  <2>2. 199 \in Single \ {72, 200}
    BY DEF Single, Second
  <2>3. Code(BreakCodes(k)) /\ ~Pause(BreakCodes(k))
    BY <2>1, <2>2, SingleCode
  <2>4. BreakCodes(k)[1] = 199 /\ \A c : (BreakCodes(k) = <<c>>) <=> (c = 199)
    BY <2>1, Tuples
  <2> QED
    BY <1>11, <2>3, <2>4 DEF CharCodes
<1>12. CASE k = "Enter"
  <2>1. BreakCodes(k) = <<156>>
    BY <1>12, KeyCodes, Zenon
  <2>2. 156 \in Single \ {72, 200}
    BY DEF Single, Second
  <2>3. Code(BreakCodes(k)) /\ ~Pause(BreakCodes(k))
    BY <2>1, <2>2, SingleCode
  <2>4. BreakCodes(k)[1] = 156 /\ \A c : (BreakCodes(k) = <<c>>) <=> (c = 156)
    BY <2>1, Tuples
  <2> QED
    BY <1>12, <2>3, <2>4 DEF CharCodes
<1>13. CASE k = "Up"
  <2>1. BreakCodes(k) = <<224, 200>>
    BY <1>13, KeyCodes, Zenon
  <2>2. 200 \in Second
    BY DEF Second
  <2>3. Code(BreakCodes(k)) /\ ~Pause(BreakCodes(k))
    BY <2>1, <2>2, PairCode
  <2>4. BreakCodes(k)[1] = 224 /\ \A c : BreakCodes(k) # <<c>>
    BY <2>1, Tuples
  <2> QED
    BY <1>13, <2>3, <2>4 DEF CharCodes, CharCode, CharOf
<1> QED
  BY <1>1, <1>2, <1>3, <1>4, <1>5, <1>6, <1>7, <1>8, <1>9, <1>10, <1>11, <1>12, <1>13 DEF Modifiers, Locks, Ordinary

-----------------------------------------------------------------------------
(* The bits of the driver when a code goes on the wire and when a byte is  *)
(* taken from it.                                                          *)
LEMMA HeldAfterKey ==
  ASSUME NEW bit, NEW key, NEW held, NEW then, NEW w, NEW on, NEW off,
         Held(bit, key, held, <<>>, on, off),
         w = <<on>> => key \in then,
         w = <<off>> => key \notin then,
         w # <<on>> /\ w # <<off>> => (key \in then <=> key \in held)
  PROVE  Held(bit, key, then, w, on, off)
<1>1. \A x : <<>> # <<x>>
  OBVIOUS
<1> QED
  BY <1>1, Zenon DEF Held

LEMMA HeldAfterByte ==
  ASSUME NEW bit, NEW key, NEW held, NEW b, NEW on, NEW off, NEW then,
         Held(bit, key, held, <<b>>, on, off), on # off,
         then <=> (b = on \/ (b # off /\ bit))
  PROVE  Held(then, key, held, <<>>, on, off)
<1>1. \A x : <<>> # <<x>>
  OBVIOUS
<1> QED
  BY <1>1, Tuples, Zenon DEF Held

LEMMA HeldOtherwise ==
  ASSUME NEW bit, NEW key, NEW held, NEW w, NEW w2, NEW on, NEW off, NEW then,
         Held(bit, key, held, w, on, off), then <=> bit,
         w # <<on>> /\ w # <<off>> /\ w2 # <<on>> /\ w2 # <<off>>
  PROVE  Held(then, key, held, w2, on, off)
BY Zenon DEF Held

LEMMA LockedAfterKey ==
  ASSUME NEW bit, NEW key, NEW locked, NEW then, NEW w, NEW code,
         Locked(bit, key, locked, <<>>, code),
         w = <<code>> => (key \in then <=> key \notin locked),
         w # <<code>> => (key \in then <=> key \in locked)
  PROVE  Locked(bit, key, then, w, code)
<1>1. \A x : <<>> # <<x>>
  OBVIOUS
<1> QED
  BY <1>1, Zenon DEF Locked

LEMMA LockedAfterByte ==
  ASSUME NEW bit, NEW key, NEW locked, NEW b, NEW code, NEW then,
         Locked(bit, key, locked, <<b>>, code),
         then <=> ~(b = code <=> bit)
  PROVE  Locked(then, key, locked, <<>>, code)
<1>1. \A x : <<>> # <<x>>
  OBVIOUS
<1> QED
  BY <1>1, Tuples, Zenon DEF Locked

LEMMA LockedOtherwise ==
  ASSUME NEW bit, NEW key, NEW locked, NEW w, NEW w2, NEW code, NEW then,
         Locked(bit, key, locked, w, code), then <=> bit,
         w # <<code>> /\ w2 # <<code>>
  PROVE  Locked(then, key, locked, w2, code)
BY Zenon DEF Locked

LEMMA WholeCodeKeepsState ==
  ASSUME wire = <<>>, Code(wire'), vkbd' = vkbd, StateOK
  PROVE  StateOK'
<1>1. vkbd.state = 0
  BY DEF StateOK
<1> QED
  BY <1>1 DEF StateOK, Code

LEMMA WholeCodeOnWire ==
  ASSUME WireOK, Event, Code(wire'), "Pause" \notin down'
  PROVE  WireOK'
BY DEF WireOK, Event, Code, driver

(* A code goes on the wire and the key goes down or up, or the lock turns. *)
KeySent(key, on, off) ==
  /\ wire' = <<on>> => key \in down'
  /\ wire' = <<off>> => key \notin down'
  /\ wire' # <<on>> /\ wire' # <<off>> => (key \in down' <=> key \in down)

LockSent(key, code) ==
  /\ wire' = <<code>> => (key \in locks' <=> key \notin locks)
  /\ wire' # <<code>> => (key \in locks' <=> key \in locks)

LEMMA CodeSent ==
  ASSUME KInv, Event, Code(wire'), "Pause" \notin down',
         KeySent("LShift", 42, 170), KeySent("RShift", 54, 182),
         KeySent("LCtrl", 29, 157), KeySent("LAlt", 56, 184),
         LockSent("CapsLock", 58), LockSent("NumLock", 69),
         wire'[1] # 224 => ("RCtrl" \in down' => "RCtrl" \in down)
  PROVE  KInv'
<1>1. wire = <<>> /\ vkbd' = vkbd
  BY DEF Event, driver
<1>2. extended' <=> (extended \/ wire'[1] = 224)
  BY Zenon DEF Event
<1>3. WireOK'
  BY WholeCodeOnWire DEF KInv
<1>4. ShiftOK'
  <2>1. /\ Held(vkbd.lshft, "LShift", down, <<>>, 42, 170)
        /\ Held(vkbd.rshft, "RShift", down, <<>>, 54, 182)
        /\ Locked(vkbd.capslock, "CapsLock", locks, <<>>, 58)
    BY <1>1, Zenon DEF KInv, ShiftOK
  <2>2. /\ Held(vkbd.lshft, "LShift", down', wire', 42, 170)
        /\ Held(vkbd.rshft, "RShift", down', wire', 54, 182)
        /\ Locked(vkbd.capslock, "CapsLock", locks', wire', 58)
    <3>1. Held(vkbd.lshft, "LShift", down', wire', 42, 170)
      BY <2>1, HeldAfterKey, SMTT(30) DEF KeySent
    <3>2. Held(vkbd.rshft, "RShift", down', wire', 54, 182)
      BY <2>1, HeldAfterKey, SMTT(30) DEF KeySent
    <3>3. Locked(vkbd.capslock, "CapsLock", locks', wire', 58)
      BY <2>1, LockedAfterKey, SMTT(30) DEF LockSent
    <3> QED
      BY <3>1, <3>2, <3>3
  <2> QED
    BY <1>1, <2>2, Zenon DEF ShiftOK
<1>5. UnprefixedOK'
  <2> SUFFICES ASSUME ~extended'
               PROVE  /\ Held(vkbd.lctrl, "LCtrl", down, wire, 29, 157)'
                      /\ Held(vkbd.lalt, "LAlt", down, wire, 56, 184)'
                      /\ Locked(vkbd.numlock, "NumLock", locks, wire, 69)'
                      /\ (~vkbd.rctrl)' /\ (~vkbd.ralt)'
                      /\ ("RCtrl" \notin down)'
                      /\ StateOK'
    BY Zenon DEF UnprefixedOK
  <2>1. ~extended /\ wire'[1] # 224
    BY <1>2, Zenon
  <2>2. /\ Held(vkbd.lctrl, "LCtrl", down, <<>>, 29, 157)
        /\ Held(vkbd.lalt, "LAlt", down, <<>>, 56, 184)
        /\ Locked(vkbd.numlock, "NumLock", locks, <<>>, 69)
        /\ ~vkbd.rctrl /\ ~vkbd.ralt
        /\ "RCtrl" \notin down
        /\ StateOK
    BY <1>1, <2>1, Zenon DEF KInv, UnprefixedOK
  <2>3. /\ Held(vkbd.lctrl, "LCtrl", down', wire', 29, 157)
        /\ Held(vkbd.lalt, "LAlt", down', wire', 56, 184)
        /\ Locked(vkbd.numlock, "NumLock", locks', wire', 69)
    <3>1. Held(vkbd.lctrl, "LCtrl", down', wire', 29, 157)
      BY <2>2, HeldAfterKey, SMTT(30) DEF KeySent
    <3>2. Held(vkbd.lalt, "LAlt", down', wire', 56, 184)
      BY <2>2, HeldAfterKey, SMTT(30) DEF KeySent
    <3>3. Locked(vkbd.numlock, "NumLock", locks', wire', 69)
      BY <2>2, LockedAfterKey, SMTT(30) DEF LockSent
    <3> QED
      BY <3>1, <3>2, <3>3
  <2>4. "RCtrl" \notin down'
    BY <2>1, <2>2, Zenon
  <2>5. StateOK'
    BY <1>1, <2>2, WholeCodeKeepsState
  <2> QED
    BY <1>1, <2>2, <2>3, <2>4, <2>5, Zenon
<1> QED
  BY <1>3, <1>4, <1>5, Zenon DEF KInv

LEMMA PressKeeps ==
  ASSUME KInv, NEW k \in Keys, Press(k)
  PROVE  KInv'
<1>1. k \in Modifiers \cup Locks \cup Ordinary \cup {"Pause"}
  BY KeyboardAssumption
<1>2. /\ wire' = MakeCodes(k)
      /\ down' = IF k = "Pause" THEN down ELSE down \cup {k}
      /\ locks' = IF k \notin Locks THEN locks
                  ELSE IF k \in locks THEN locks \ {k} ELSE locks \cup {k}
  BY DEF Press
<1>3. /\ Code(wire')
      /\ (wire' = <<42>> <=> k = "LShift")
      /\ (wire' = <<54>> <=> k = "RShift")
      /\ (wire' = <<29>> <=> k = "LCtrl")
      /\ (wire' = <<56>> <=> k = "LAlt")
      /\ (wire' = <<58>> <=> k = "CapsLock")
      /\ (wire' = <<69>> <=> k = "NumLock")
      /\ wire' # <<170>> /\ wire' # <<182>> /\ wire' # <<157>> /\ wire' # <<184>>
      /\ (wire'[1] = 224 <=> k \in {"RCtrl", "RAlt", "Up"})
  BY <1>1, <1>2, PressCodes
<1>4. \A x : x # "Pause" => (x \in down' <=> (x = k \/ x \in down))
  BY <1>2
<1>5. /\ KeySent("LShift", 42, 170) /\ KeySent("RShift", 54, 182)
      /\ KeySent("LCtrl", 29, 157) /\ KeySent("LAlt", 56, 184)
  BY <1>3, <1>4 DEF KeySent
<1>6. \A x \in Locks : x \in locks' <=> ~((x = k) <=> (x \in locks))
  BY <1>2 DEF Locks
<1>7. LockSent("CapsLock", 58) /\ LockSent("NumLock", 69)
  BY <1>3, <1>6 DEF LockSent, Locks
<1>8. "Pause" \notin down'
  BY <1>2 DEF KInv, WireOK
<1>9. wire'[1] # 224 => ("RCtrl" \in down' => "RCtrl" \in down)
  BY <1>3, <1>4
<1>10. Event
  BY DEF Press
<1> QED
  BY <1>3, <1>5, <1>7, <1>8, <1>9, <1>10, CodeSent, Zenon

LEMMA ReleaseKeeps ==
  ASSUME KInv, NEW k \in Keys, Release(k)
  PROVE  KInv'
<1>1. k \in Modifiers \cup Locks \cup Ordinary
  BY KeyboardAssumption DEF Release, KInv, WireOK
<1>2. wire' = BreakCodes(k) /\ down' = down \ {k} /\ locks' = locks
  BY DEF Release
<1>3. /\ Code(wire')
      /\ (wire' = <<170>> <=> k = "LShift")
      /\ (wire' = <<182>> <=> k = "RShift")
      /\ (wire' = <<157>> <=> k = "LCtrl")
      /\ (wire' = <<184>> <=> k = "LAlt")
      /\ wire' # <<42>> /\ wire' # <<54>> /\ wire' # <<29>> /\ wire' # <<56>>
      /\ wire' # <<58>> /\ wire' # <<69>>
  BY <1>1, <1>2, ReleaseCodes
<1>4. \A x : x \in down' <=> (x # k /\ x \in down)
  BY <1>2
<1>5. /\ KeySent("LShift", 42, 170) /\ KeySent("RShift", 54, 182)
      /\ KeySent("LCtrl", 29, 157) /\ KeySent("LAlt", 56, 184)
  BY <1>3, <1>4 DEF KeySent
<1>6. LockSent("CapsLock", 58) /\ LockSent("NumLock", 69)
  BY <1>2, <1>3 DEF LockSent
<1>7. "Pause" \notin down' /\ ("RCtrl" \in down' => "RCtrl" \in down)
  BY <1>4 DEF KInv, WireOK
<1>8. Event
  BY DEF Release
<1> QED
  BY <1>3, <1>5, <1>6, <1>7, <1>8, CodeSent, Zenon

-----------------------------------------------------------------------------
(* A byte is taken.                                                        *)
LEMMA SingleTaken ==
  ASSUME KInv, KeyboardHandlerM, NEW b \in Single, wire = <<b>>
  PROVE  KInv'
<1> DEFINE v == Follow(b)
<1>1. wire' = <<>> /\ vkbd' = v /\ UNCHANGED <<down, locks, extended>>
  <2>1. Head(<<b>>) = b /\ Tail(<<b>>) = <<>>
    OBVIOUS
  <2> QED
    BY <2>1, Taken, Zenon DEF v
<1>2. b \in Int /\ b # 224 /\ b # 225
  BY DEF Single, Second
<1>3. vkbd \in VirtualKeyboard
  BY Zenon DEF KInv, WireOK
<1>4. v \in VirtualKeyboard
  BY <1>2, <1>3, FollowedType, Zenon DEF v
<1>5. /\ v.lshft <=> (b = 42 \/ (b # 170 /\ vkbd.lshft))
      /\ v.rshft <=> (b = 54 \/ (b # 182 /\ vkbd.rshft))
      /\ v.capslock <=> ~(b = 58 <=> vkbd.capslock)
      /\ v.lctrl <=>
           IF vkbd.state = 0 THEN b = 29 \/ (b # 157 /\ vkbd.lctrl) ELSE vkbd.lctrl
      /\ v.lalt <=> (b = 56 \/ (b # 184 /\ vkbd.lalt))
      /\ v.numlock <=> ~((b = 69 /\ vkbd.state = 0) <=> vkbd.numlock)
      /\ v.rctrl <=> (vkbd.rctrl \/ (b = 29 /\ vkbd.state = 1))
      /\ v.ralt <=> vkbd.ralt
      /\ v.state = IF b = 224 THEN 1
                   ELSE IF b = 225 THEN 2
                   ELSE IF b \in {29, 157} /\ vkbd.state = 2 THEN 3
                   ELSE IF b \in {69, 197} /\ vkbd.state = 3 THEN 0
                   ELSE vkbd.state
  BY <1>2, <1>3, Followed DEF v
<1> HIDE DEF v
<1>6. WireOK'
  BY <1>1, <1>4 DEF KInv, WireOK, Pair
<1>7. ShiftOK'
  <2>1. /\ Held(vkbd.lshft, "LShift", down, <<b>>, 42, 170)
        /\ Held(vkbd.rshft, "RShift", down, <<b>>, 54, 182)
        /\ Locked(vkbd.capslock, "CapsLock", locks, <<b>>, 58)
    BY Zenon DEF KInv, ShiftOK
  <2>2. 42 # 170 /\ 54 # 182
    OBVIOUS
  <2>3. Held(v.lshft, "LShift", down, <<>>, 42, 170)
    BY <1>5, <2>1, <2>2, HeldAfterByte
  <2>4. Held(v.rshft, "RShift", down, <<>>, 54, 182)
    BY <1>5, <2>1, <2>2, HeldAfterByte
  <2>5. Locked(v.capslock, "CapsLock", locks, <<>>, 58)
    BY <1>5, <2>1, LockedAfterByte
  <2> QED
    BY <1>1, <2>3, <2>4, <2>5, Zenon DEF ShiftOK
<1>8. UnprefixedOK'
  <2> SUFFICES ASSUME ~extended
               PROVE  /\ Held(v.lctrl, "LCtrl", down, <<>>, 29, 157)
                      /\ Held(v.lalt, "LAlt", down, <<>>, 56, 184)
                      /\ Locked(v.numlock, "NumLock", locks, <<>>, 69)
                      /\ ~v.rctrl /\ ~v.ralt
                      /\ "RCtrl" \notin down
                      /\ StateOK'
    BY <1>1, Zenon DEF UnprefixedOK
  <2>1. /\ Held(vkbd.lctrl, "LCtrl", down, <<b>>, 29, 157)
        /\ Held(vkbd.lalt, "LAlt", down, <<b>>, 56, 184)
        /\ Locked(vkbd.numlock, "NumLock", locks, <<b>>, 69)
        /\ ~vkbd.rctrl /\ ~vkbd.ralt
        /\ "RCtrl" \notin down
        /\ StateOK
    BY Zenon DEF KInv, UnprefixedOK
  <2>2. IF b = 197 THEN vkbd.state \in {0, 3} ELSE vkbd.state = 0
    BY <2>1, Tuples DEF StateOK
  <2>3. b = 29 \/ b = 157 \/ b = 69 => vkbd.state = 0
    BY <2>2
  <2>4. 29 # 157 /\ 56 # 184
    OBVIOUS
  <2>5. Held(v.lctrl, "LCtrl", down, <<>>, 29, 157)
    <3>1. v.lctrl <=> (b = 29 \/ (b # 157 /\ vkbd.lctrl))
      BY <1>5, <2>3, Zenon
    <3> QED
      BY <2>1, <2>4, <3>1, HeldAfterByte
  <2>6. Held(v.lalt, "LAlt", down, <<>>, 56, 184)
    BY <1>5, <2>1, <2>4, HeldAfterByte
  <2>7. Locked(v.numlock, "NumLock", locks, <<>>, 69)
    <3>1. v.numlock <=> ~(b = 69 <=> vkbd.numlock)
      BY <1>5, <2>3, Zenon
    <3> QED
      BY <2>1, <3>1, LockedAfterByte
  <2>8. ~v.rctrl /\ ~v.ralt
    BY <1>5, <2>1, <2>3
  <2>9. v.state = 0
    BY <1>2, <1>5, <2>2
  <2>10. StateOK'
    BY <1>1, <2>9 DEF StateOK
  <2> QED
    BY <2>1, <2>5, <2>6, <2>7, <2>8, <2>10, Zenon
<1> QED
  BY <1>6, <1>7, <1>8, Zenon DEF KInv

(* Any other byte, with those that follow it, leaves the bits alone.       *)
Indifferent(w) ==
  \A x \in {42, 170, 54, 182, 58, 29, 157, 56, 184, 69} : w # <<x>>

LEMMA ShiftOKOtherwise ==
  ASSUME ShiftOK, NEW w2, Indifferent(wire), Indifferent(w2), NEW v,
         v.lshft <=> vkbd.lshft, v.rshft <=> vkbd.rshft, v.capslock <=> vkbd.capslock
  PROVE  /\ Held(v.lshft, "LShift", down, w2, 42, 170)
         /\ Held(v.rshft, "RShift", down, w2, 54, 182)
         /\ Locked(v.capslock, "CapsLock", locks, w2, 58)
<1>1. /\ \A x \in {42, 170, 54, 182, 58} : wire # <<x>>
      /\ \A x \in {42, 170, 54, 182, 58} : w2 # <<x>>
  BY DEF Indifferent
<1>2. Held(v.lshft, "LShift", down, w2, 42, 170)
  <2>1. wire # <<42>> /\ wire # <<170>> /\ w2 # <<42>> /\ w2 # <<170>>
    BY <1>1
  <2> QED
    BY <2>1, HeldOtherwise DEF ShiftOK
<1>3. Held(v.rshft, "RShift", down, w2, 54, 182)
  <2>1. wire # <<54>> /\ wire # <<182>> /\ w2 # <<54>> /\ w2 # <<182>>
    BY <1>1
  <2> QED
    BY <2>1, HeldOtherwise DEF ShiftOK
<1>4. Locked(v.capslock, "CapsLock", locks, w2, 58)
  <2>1. wire # <<58>> /\ w2 # <<58>>
    BY <1>1
  <2> QED
    BY <2>1, LockedOtherwise DEF ShiftOK
<1> QED
  BY <1>2, <1>3, <1>4, Zenon

LEMMA PairTaken ==
  ASSUME KInv, KeyboardHandlerM, NEW b \in Second, wire = <<224, b>>
  PROVE  KInv'
<1>1. wire' = <<b>> /\ vkbd' = Follow(224) /\ UNCHANGED <<down, locks, extended>>
  <2>1. Head(<<224, b>>) = 224 /\ Tail(<<224, b>>) = <<b>>
    OBVIOUS
  <2> QED
    BY <2>1, Taken
<1>2. vkbd \in VirtualKeyboard /\ Follow(224) \in VirtualKeyboard
  BY FollowedType, Zenon DEF KInv, WireOK
<1>3. /\ Follow(224).lshft <=> vkbd.lshft
      /\ Follow(224).rshft <=> vkbd.rshft
      /\ Follow(224).capslock <=> vkbd.capslock
  BY <1>2, Followed
<1>4. Pair(<<224, b>>) /\ b \in Single
  BY DEF Pair, Single
<1>5. extended
  BY <1>4, Zenon DEF KInv, WireOK
<1>6. WireOK'
  BY <1>1, <1>2, <1>4, <1>5 DEF KInv, WireOK, OneByte
<1>7. ShiftOK'
  <2>1. Held(vkbd.lshft, "LShift", down, <<224, b>>, 42, 170)
    BY Zenon DEF KInv, ShiftOK
  <2>2. Held(vkbd.rshft, "RShift", down, <<224, b>>, 54, 182)
    BY Zenon DEF KInv, ShiftOK
  <2>3. Locked(vkbd.capslock, "CapsLock", locks, <<224, b>>, 58)
    BY Zenon DEF KInv, ShiftOK
  <2>4. \A x \in {42, 170, 54, 182, 58} : <<224, b>> # <<x>> /\ <<b>> # <<x>>
    BY Tuples DEF Second
  <2>5. Held(Follow(224).lshft, "LShift", down, <<b>>, 42, 170)
    BY <1>3, <2>1, <2>4, HeldOtherwise
  <2>6. Held(Follow(224).rshft, "RShift", down, <<b>>, 54, 182)
    BY <1>3, <2>2, <2>4, HeldOtherwise
  <2>7. Locked(Follow(224).capslock, "CapsLock", locks, <<b>>, 58)
    BY <1>3, <2>3, <2>4, LockedOtherwise
  <2> QED
    BY <1>1, <2>5, <2>6, <2>7, Zenon DEF ShiftOK
<1> QED
  BY <1>1, <1>5, <1>6, <1>7, Zenon DEF KInv, UnprefixedOK

(* The codes of Pause leave every bit alone, and the prefix state counts   *)
(* them.                                                                   *)
LEMMA PauseStep ==
  ASSUME KInv, KeyboardHandlerM, NEW b \in {225, 29, 69, 157}, Head(wire) = b,
         Pause(wire), Pause(wire') \/ PauseEnds(wire'),
         ~extended => /\ b = 29 \/ b = 157 => vkbd.state = 2
                      /\ b = 69 => vkbd.state = 3,
         ~extended => StateOK'
  PROVE  KInv'
<1>1. vkbd' = Follow(b) /\ UNCHANGED <<down, locks, extended>>
  BY Taken
<1>2. vkbd \in VirtualKeyboard /\ Follow(b) \in VirtualKeyboard
  <2>1. vkbd \in VirtualKeyboard
    BY Zenon DEF KInv, WireOK
  <2> QED
    BY <2>1, FollowedType
<1>3. /\ Follow(b).lshft <=> vkbd.lshft
      /\ Follow(b).rshft <=> vkbd.rshft
      /\ Follow(b).capslock <=> vkbd.capslock
  BY <1>2, Followed
<1>4. \A x \in {42, 170, 54, 182, 58, 29, 157, 56, 184, 69, 72, 200} :
        wire # <<x>> /\ wire' # <<x>>
  BY Tuples DEF Pause, PauseEnds
<1>5. WireOK'
  <2>1. ~Pair(wire')
    BY Tuples DEF Pair, Pause, PauseEnds
  <2>2. OneByte(<<197>>)
    BY DEF OneByte, Single, Second
  <2>3. wire' # <<72>> /\ wire' # <<200>>
    BY <1>4
  <2>4. extended' \in BOOLEAN /\ "Pause" \notin down'
    BY <1>1, Zenon DEF KInv, WireOK
  <2> QED
    BY <1>1, <1>2, <2>1, <2>2, <2>3, <2>4 DEF WireOK, PauseEnds
<1>6. ShiftOK'
  <2>1. Held(vkbd.lshft, "LShift", down, wire, 42, 170)
    BY Zenon DEF KInv, ShiftOK
  <2>2. Held(vkbd.rshft, "RShift", down, wire, 54, 182)
    BY Zenon DEF KInv, ShiftOK
  <2>3. Locked(vkbd.capslock, "CapsLock", locks, wire, 58)
    BY Zenon DEF KInv, ShiftOK
  <2>4. Held(Follow(b).lshft, "LShift", down, wire', 42, 170)
    BY <1>3, <1>4, <2>1, HeldOtherwise
  <2>5. Held(Follow(b).rshft, "RShift", down, wire', 54, 182)
    BY <1>3, <1>4, <2>2, HeldOtherwise
  <2>6. Locked(Follow(b).capslock, "CapsLock", locks, wire', 58)
    BY <1>3, <1>4, <2>3, LockedOtherwise
  <2> QED
    BY <1>1, <2>4, <2>5, <2>6, Zenon DEF ShiftOK
<1>7. UnprefixedOK'
  <2> SUFFICES ASSUME ~extended
               PROVE  /\ Held(Follow(b).lctrl, "LCtrl", down, wire', 29, 157)
                      /\ Held(Follow(b).lalt, "LAlt", down, wire', 56, 184)
                      /\ Locked(Follow(b).numlock, "NumLock", locks, wire', 69)
                      /\ ~Follow(b).rctrl /\ ~Follow(b).ralt
                      /\ "RCtrl" \notin down
    BY <1>1, Zenon DEF UnprefixedOK
  <2>1. Held(vkbd.lctrl, "LCtrl", down, wire, 29, 157)
    BY Zenon DEF KInv, UnprefixedOK
  <2>2. Held(vkbd.lalt, "LAlt", down, wire, 56, 184)
    BY Zenon DEF KInv, UnprefixedOK
  <2>3. Locked(vkbd.numlock, "NumLock", locks, wire, 69)
    BY Zenon DEF KInv, UnprefixedOK
  <2>4. ~vkbd.rctrl /\ ~vkbd.ralt /\ "RCtrl" \notin down
    BY Zenon DEF KInv, UnprefixedOK
  <2>5. /\ Follow(b).lctrl <=> vkbd.lctrl
        /\ Follow(b).lalt <=> vkbd.lalt
        /\ Follow(b).numlock <=> vkbd.numlock
        /\ Follow(b).rctrl <=> vkbd.rctrl
        /\ Follow(b).ralt <=> vkbd.ralt
    BY <1>2, Followed
  <2>6. Held(Follow(b).lctrl, "LCtrl", down, wire', 29, 157)
    BY <1>4, <2>1, <2>5, HeldOtherwise
  <2>7. Held(Follow(b).lalt, "LAlt", down, wire', 56, 184)
    BY <1>4, <2>2, <2>5, HeldOtherwise
  <2>8. Locked(Follow(b).numlock, "NumLock", locks, wire', 69)
    BY <1>4, <2>3, <2>5, LockedOtherwise
  <2> QED
    BY <2>4, <2>5, <2>6, <2>7, <2>8, Zenon
<1> QED
  BY <1>5, <1>6, <1>7, Zenon DEF KInv

LEMMA PauseTaken ==
  ASSUME KInv, KeyboardHandlerM, Pause(wire)
  PROVE  KInv'
<1>1. wire' = Tail(wire) /\ vkbd' = Follow(Head(wire)) /\ extended' = extended
  BY Taken
<1>2. vkbd \in VirtualKeyboard
  BY Zenon DEF KInv, WireOK
<1>3. ~extended => StateOK
  BY Zenon DEF KInv, UnprefixedOK
<1>4. CASE wire = <<225, 29, 69, 225, 157, 197>>
  <2>1. Head(wire) = 225 /\ wire' = <<29, 69, 225, 157, 197>>
    BY <1>1, <1>4
  <2>2. ~extended => vkbd.state = 0
    BY <1>3, <1>4 DEF StateOK
  <2>3. ~extended => Follow(225).state = 2
    BY <1>2, <2>2, Followed
  <2>4. ~extended => StateOK'
    <3>1. ~extended => vkbd'.state = 2
      BY <1>1, <2>1, <2>3
    <3> HIDE DEF StateOK
    <3> QED
      BY <2>1, <3>1 DEF StateOK
  <2>5. Pause(wire') \/ PauseEnds(wire')
    BY <2>1 DEF Pause, PauseEnds
  <2> QED
    BY <1>4, <2>1, <2>2, <2>4, <2>5, PauseStep
<1>5. CASE wire = <<29, 69, 225, 157, 197>>
  <2>1. Head(wire) = 29 /\ wire' = <<69, 225, 157, 197>>
    BY <1>1, <1>5
  <2>2. ~extended => vkbd.state = 2
    BY <1>3, <1>5 DEF StateOK
  <2>3. ~extended => Follow(29).state = 3
    BY <1>2, <2>2, Followed
  <2>4. ~extended => StateOK'
    <3>1. ~extended => vkbd'.state = 3
      BY <1>1, <2>1, <2>3
    <3> HIDE DEF StateOK
    <3> QED
      BY <2>1, <3>1 DEF StateOK
  <2>5. Pause(wire') \/ PauseEnds(wire')
    BY <2>1 DEF Pause, PauseEnds
  <2> QED
    BY <1>5, <2>1, <2>2, <2>4, <2>5, PauseStep
<1>6. CASE wire = <<69, 225, 157, 197>>
  <2>1. Head(wire) = 69 /\ wire' = <<225, 157, 197>>
    BY <1>1, <1>6
  <2>2. ~extended => vkbd.state = 3
    BY <1>3, <1>6 DEF StateOK
  <2>3. ~extended => Follow(69).state = 0
    BY <1>2, <2>2, Followed
  <2>4. ~extended => StateOK'
    <3>1. ~extended => vkbd'.state = 0
      BY <1>1, <2>1, <2>3
    <3> HIDE DEF StateOK
    <3> QED
      BY <2>1, <3>1 DEF StateOK
  <2>5. Pause(wire') \/ PauseEnds(wire')
    BY <2>1 DEF Pause, PauseEnds
  <2> QED
    BY <1>6, <2>1, <2>2, <2>4, <2>5, PauseStep
<1>7. CASE wire = <<225, 157, 197>>
  <2>1. Head(wire) = 225 /\ wire' = <<157, 197>>
    BY <1>1, <1>7
  <2>2. ~extended => vkbd.state = 0
    BY <1>3, <1>7 DEF StateOK
  <2>3. ~extended => Follow(225).state = 2
    BY <1>2, <2>2, Followed
  <2>4. ~extended => StateOK'
    <3>1. ~extended => vkbd'.state = 2
      BY <1>1, <2>1, <2>3
    <3> HIDE DEF StateOK
    <3> QED
      BY <2>1, <3>1 DEF StateOK
  <2>5. Pause(wire') \/ PauseEnds(wire')
    BY <2>1 DEF Pause, PauseEnds
  <2> QED
    BY <1>7, <2>1, <2>2, <2>4, <2>5, PauseStep
<1>8. CASE wire = <<157, 197>>
  <2>1. Head(wire) = 157 /\ wire' = <<197>>
    BY <1>1, <1>8
  <2>2. ~extended => vkbd.state = 2
    BY <1>3, <1>8 DEF StateOK
  <2>3. ~extended => Follow(157).state = 3
    BY <1>2, <2>2, Followed
  <2>4. ~extended => StateOK'
    <3>1. ~extended => vkbd'.state = 3
      BY <1>1, <2>1, <2>3
    <3> HIDE DEF StateOK
    <3> QED
      BY <2>1, <3>1 DEF StateOK
  <2>5. Pause(wire') \/ PauseEnds(wire')
    BY <2>1 DEF Pause, PauseEnds
  <2> QED
    BY <1>8, <2>1, <2>2, <2>4, <2>5, PauseStep
<1> QED
  BY <1>4, <1>5, <1>6, <1>7, <1>8 DEF Pause

LEMMA TakeKeeps ==
  ASSUME KInv, KeyboardHandlerM
  PROVE  KInv'
<1>1. wire # <<>>
  BY Taken
<1>2. OneByte(wire) \/ Pair(wire) \/ Pause(wire)
  BY <1>1 DEF KInv, WireOK
<1> QED
  BY <1>2, SingleTaken, PairTaken, PauseTaken, Zenon DEF OneByte, Pair

LEMMA KInvInit == Init => KInv
<1> SUFFICES ASSUME Init PROVE KInv
  OBVIOUS
<1>1. /\ wire = <<>> /\ down = {} /\ locks = {} /\ extended = FALSE
      /\ vkbd = [lshft |-> FALSE, rshft |-> FALSE, lctrl |-> FALSE,
                 rctrl |-> FALSE, lalt |-> FALSE, ralt |-> FALSE,
                 numlock |-> FALSE, capslock |-> FALSE, state |-> 0]
  BY Zenon DEF Init
<1>2. vkbd \in VirtualKeyboard
  BY <1>1 DEF VirtualKeyboard
<1>3. WireOK
  BY <1>1, <1>2 DEF WireOK, Pair
<1>4. ~vkbd.lshft /\ ~vkbd.rshft /\ ~vkbd.capslock
  BY <1>1
<1>5. ~vkbd.lctrl /\ ~vkbd.lalt /\ ~vkbd.numlock /\ ~vkbd.rctrl /\ ~vkbd.ralt /\ vkbd.state = 0
  BY <1>1
<1>6. \A x : wire # <<x>>
  BY <1>1
<1>7. ShiftOK
  BY <1>1, <1>4, <1>6, Zenon DEF ShiftOK, Held, Locked
<1>8. StateOK
  BY <1>1, <1>5 DEF StateOK
<1>9. UnprefixedOK
  BY <1>1, <1>5, <1>6, <1>8, Zenon DEF UnprefixedOK, Held, Locked
<1> QED
  BY <1>3, <1>7, <1>9, Zenon DEF KInv

LEMMA KInvNext == KInv /\ [Next]_vars => KInv'
<1>1. ASSUME KInv, UNCHANGED vars PROVE KInv'
  <2>1. /\ vkbd' = vkbd /\ wire' = wire /\ down' = down /\ locks' = locks
        /\ extended' = extended
    BY <1>1, Zenon DEF vars, driver, keyboard
  <2>2. WireOK' /\ ShiftOK'
    BY <1>1, <2>1, Zenon DEF KInv, WireOK, ShiftOK
  <2>3. StateOK' <=> StateOK
    BY <2>1, ZenonT(30) DEF StateOK
  <2>4. UnprefixedOK'
    BY <1>1, <2>1, <2>3, Zenon DEF KInv, UnprefixedOK
  <2> QED
    BY <2>2, <2>4, Zenon DEF KInv
<1> QED
  BY <1>1, PressKeeps, ReleaseKeeps, TakeKeeps, Zenon DEF Next

(* The strengthening that makes ModifiersFollowKeys inductive: what the    *)
(* driver knows at every byte of every code.                               *)
THEOREM KeyboardInvariant == Spec => []KInv
<1> QED
  BY KInvInit, KInvNext, PTL DEF Spec

-----------------------------------------------------------------------------
(* Between two events the bits are the keys.                               *)
LEMMA BitsWhenQuiet ==
  ASSUME KInv, wire = <<>>
  PROVE  /\ vkbd.lshft <=> "LShift" \in down
         /\ vkbd.rshft <=> "RShift" \in down
         /\ vkbd.capslock <=> "CapsLock" \in locks
         /\ ~extended => /\ vkbd.lctrl <=> "LCtrl" \in down
                         /\ vkbd.lalt <=> "LAlt" \in down
                         /\ vkbd.numlock <=> "NumLock" \in locks
                         /\ ~vkbd.rctrl /\ ~vkbd.ralt /\ "RCtrl" \notin down
<1>1. \A x : wire # <<x>>
  OBVIOUS
<1>2. ShiftOK /\ UnprefixedOK
  BY Zenon DEF KInv
<1> QED
  BY <1>1, <1>2, Zenon DEF ShiftOK, UnprefixedOK, Held, Locked

LEMMA Bits ==
  ASSUME NEW v \in VirtualKeyboard
  PROVE  /\ v.lshft \in BOOLEAN /\ v.rshft \in BOOLEAN
         /\ v.lctrl \in BOOLEAN /\ v.rctrl \in BOOLEAN
         /\ v.lalt \in BOOLEAN /\ v.ralt \in BOOLEAN
         /\ v.numlock \in BOOLEAN /\ v.capslock \in BOOLEAN
BY DEF VirtualKeyboard

LEMMA EqualBits ==
  ASSUME NEW b \in BOOLEAN, NEW x, NEW S, b <=> x \in S
  PROVE  b = (x \in S)
OBVIOUS

LEMMA KInvFollows == KInv => ModifiersFollowKeys
<1> SUFFICES ASSUME KInv, wire = <<>>
             PROVE  /\ vkbd.lshft = ("LShift" \in down)
                    /\ vkbd.rshft = ("RShift" \in down)
                    /\ vkbd.capslock = ("CapsLock" \in locks)
                    /\ ~extended =>
                         /\ vkbd.lctrl = ("LCtrl" \in down) /\ ~vkbd.rctrl
                         /\ vkbd.lalt = ("LAlt" \in down) /\ ~vkbd.ralt
                         /\ vkbd.numlock = ("NumLock" \in locks)
                         /\ vkbd.state = 0
  BY Zenon DEF ModifiersFollowKeys, Quiet
<1>1. vkbd \in VirtualKeyboard
  BY Zenon DEF KInv, WireOK
<1>2. /\ vkbd.lshft = ("LShift" \in down)
      /\ vkbd.rshft = ("RShift" \in down)
      /\ vkbd.capslock = ("CapsLock" \in locks)
  <2>1. vkbd.lshft \in BOOLEAN /\ vkbd.rshft \in BOOLEAN /\ vkbd.capslock \in BOOLEAN
    BY <1>1, Bits, Zenon
  <2>2. vkbd.lshft = ("LShift" \in down)
    <3>1. vkbd.lshft <=> "LShift" \in down
      BY BitsWhenQuiet, Zenon
    <3> QED
      BY <2>1, <3>1, EqualBits
  <2>3. vkbd.rshft = ("RShift" \in down)
    <3>1. vkbd.rshft <=> "RShift" \in down
      BY BitsWhenQuiet, Zenon
    <3> QED
      BY <2>1, <3>1, EqualBits
  <2>4. vkbd.capslock = ("CapsLock" \in locks)
    <3>1. vkbd.capslock <=> "CapsLock" \in locks
      BY BitsWhenQuiet, Zenon
    <3> QED
      BY <2>1, <3>1, EqualBits
  <2> QED
    BY <2>2, <2>3, <2>4, Zenon
<1>3. ASSUME ~extended
      PROVE  /\ vkbd.lctrl = ("LCtrl" \in down)
             /\ vkbd.lalt = ("LAlt" \in down)
             /\ vkbd.numlock = ("NumLock" \in locks)
  <2>1. vkbd.lctrl \in BOOLEAN /\ vkbd.lalt \in BOOLEAN /\ vkbd.numlock \in BOOLEAN
    BY <1>1, Bits, Zenon
  <2>2. vkbd.lctrl = ("LCtrl" \in down)
    <3>1. vkbd.lctrl <=> "LCtrl" \in down
      BY <1>3, BitsWhenQuiet, Zenon
    <3> QED
      BY <2>1, <3>1, EqualBits
  <2>3. vkbd.lalt = ("LAlt" \in down)
    <3>1. vkbd.lalt <=> "LAlt" \in down
      BY <1>3, BitsWhenQuiet, Zenon
    <3> QED
      BY <2>1, <3>1, EqualBits
  <2>4. vkbd.numlock = ("NumLock" \in locks)
    <3>1. vkbd.numlock <=> "NumLock" \in locks
      BY <1>3, BitsWhenQuiet, Zenon
    <3> QED
      BY <2>1, <3>1, EqualBits
  <2> QED
    BY <2>2, <2>3, <2>4, Zenon
<1>4. ASSUME ~extended
      PROVE  ~vkbd.rctrl /\ ~vkbd.ralt
  BY <1>4, BitsWhenQuiet, Zenon
<1>5. ASSUME ~extended
      PROVE  vkbd.state = 0
  <2>1. StateOK
    BY <1>5, Zenon DEF KInv, UnprefixedOK
  <2> QED
    BY <2>1 DEF StateOK
<1> QED
  BY <1>2, <1>3, <1>4, <1>5, Zenon

(* After any number of events the driver's bits are the keys that are held *)
(* and the locks as they were last pressed, as ModifiersFollowKeys says.   *)
THEOREM ModifiersFollow == Spec => []ModifiersFollowKeys
<1> QED
  BY KeyboardInvariant, KInvFollows, PTL

-----------------------------------------------------------------------------
(* The characters.                                                         *)
LEMMA Decoded ==
  /\ kbd_decode(30) = 97 /\ kbd_decode_shifted(30) = 65 /\ kbd_decode_numlock(30) = 97
  /\ kbd_decode(2) = 49 /\ kbd_decode_shifted(2) = 33 /\ kbd_decode_numlock(2) = 49
  /\ kbd_decode(28) = 10 /\ kbd_decode_shifted(28) = 10 /\ kbd_decode_numlock(28) = 10
  /\ kbd_decode(71) = 0 /\ kbd_decode_shifted(71) = 0 /\ kbd_decode_numlock(71) = 55
BY DEF kbd_decode, kbd_decode_shifted, kbd_decode_numlock

LEMMA CharMeans ==
  ASSUME KInv, wire = <<>>, ~extended, NEW k, NEW c, CharOf(k, c)
  PROVE  ScanCodeToASCII(c) = Meaning(k) /\ Meaning(k) \in Int
<1> DEFINE shift == down \cap {"LShift", "RShift"} # {}
<1> DEFINE ctrl == down \cap {"LCtrl", "RCtrl"} # {}
<1>1. /\ (vkbd.lshft \/ vkbd.rshft) <=> shift
      /\ (vkbd.lctrl \/ vkbd.rctrl) <=> ctrl
      /\ vkbd.capslock <=> "CapsLock" \in locks
      /\ vkbd.numlock <=> "NumLock" \in locks
  <2>1. shift <=> "LShift" \in down \/ "RShift" \in down
    OBVIOUS
  <2>2. ctrl <=> "LCtrl" \in down \/ "RCtrl" \in down
    OBVIOUS
  <2> QED
    BY <2>1, <2>2, BitsWhenQuiet, Zenon
<1>2. ~IsLower(65) /\ IsLower(97) /\ ~IsLower(49) /\ ~IsLower(33) /\ ~IsLower(10) /\ ~IsLower(0)
  BY DEF IsLower
<1>3. ~IsDigitOrPoint(97) /\ IsDigitOrPoint(49) /\ ~IsDigitOrPoint(10) /\ IsDigitOrPoint(55)
  BY DEF IsDigitOrPoint
<1>4. CASE k = "A" /\ c = 30
  <2>1. Meaning(k) = IF shift THEN 65
                     ELSE IF ctrl THEN 1
                     ELSE IF "CapsLock" \in locks THEN 65 ELSE 97
    BY <1>4 DEF Meaning
  <2>2. ScanCodeToASCII(c) = IF shift THEN 65
                             ELSE IF ctrl THEN 97 - 96
                             ELSE IF "CapsLock" \in locks THEN 97 - 32 ELSE 97
    BY <1>1, <1>2, <1>3, <1>4, Decoded DEF ScanCodeToASCII
  <2> QED
    BY <2>1, <2>2
<1>5. CASE k = "One" /\ c = 2
  <2>1. Meaning(k) = IF shift /\ "NumLock" \notin locks THEN 33 ELSE 49
    BY <1>5 DEF Meaning
  <2>2. ScanCodeToASCII(c) = IF shift /\ "NumLock" \notin locks THEN 33 ELSE 49
    BY <1>1, <1>2, <1>3, <1>5, Decoded DEF ScanCodeToASCII
  <2> QED
    BY <2>1, <2>2
<1>6. CASE k = "Keypad7" /\ c = 71
  <2>1. Meaning(k) = IF "NumLock" \in locks THEN 55 ELSE 0
    BY <1>6 DEF Meaning
  <2>2. ScanCodeToASCII(c) = IF "NumLock" \in locks THEN 55 ELSE 0
    BY <1>1, <1>2, <1>3, <1>6, Decoded DEF ScanCodeToASCII
  <2> QED
    BY <2>1, <2>2
<1>7. CASE k = "Enter" /\ c = 28
  <2>1. Meaning(k) = 10
    BY <1>7 DEF Meaning
  <2>2. ScanCodeToASCII(c) = 10
    BY <1>1, <1>2, <1>3, <1>7, Decoded DEF ScanCodeToASCII
  <2> QED
    BY <2>1, <2>2
<1> QED
  BY <1>4, <1>5, <1>6, <1>7 DEF CharOf

(* An index of the ring buffer, one step on and some steps back.           *)
LEMMA RingIndex ==
  ASSUME NEW B \in Nat \ {0}, NEW i \in 0 .. B - 1, NEW k \in 1 .. B
  PROVE  /\ (i - k) % B \in 0 .. B - 1
         /\ (((i + 1) % B) - 1) % B = i
         /\ (i + 1) % B \in 0 .. B - 1
         /\ k < B => /\ (((i + 1) % B) - (k + 1)) % B = (i - k) % B
                     /\ (i - k) % B # i
<1>1. \A x \in Int : x \in 0 .. B - 1 => x % B = x
  OBVIOUS
<1>2. \A x \in Int : x \in 0 - B .. 0 - 1 => x % B = x + B
  OBVIOUS
<1>3. B % B = 0
  OBVIOUS
<1>4. CASE i + 1 < B
  <2>1. (i + 1) % B = i + 1
    BY <1>1, <1>4
  <2>2. i - k \in Int /\ i - k \in 0 - B .. B - 1
    OBVIOUS
  <2> QED
    BY <1>1, <1>2, <2>1, <2>2
<1>5. CASE i + 1 = B
  <2>1. (i + 1) % B = 0
    BY <1>3, <1>5
  <2>2. i - k \in Int /\ i - k \in 0 - B .. B - 1
    OBVIOUS
  <2>3. (0 - 1) % B = B - 1
    BY <1>2
  <2>4. k < B => (0 - (k + 1)) % B = B - (k + 1)
    BY <1>2
  <2>5. k < B => (i - k) % B = i - k
    BY <1>1, <1>5
  <2> QED
    BY <1>5, <2>1, <2>2, <2>3, <2>4, <2>5
<1> QED
  BY <1>4, <1>5

LEMMA BufferTakes ==
  ASSUME BufferTyped, NEW ch \in Int, Len(text) > 0, text[Len(text)] = ch,
         BufferEnds(Len(text) - 1),
         keyboard_buffer' = [keyboard_buffer EXCEPT ![kbbuf_in] = ch],
         kbbuf_in' = (kbbuf_in + 1) % BufSize, text' = text
  PROVE  BufferEnds(Len(text))'
<1> DEFINE n == Len(text)
<1>1. BufSize \in Nat \ {0} /\ kbbuf_in \in 0 .. BufSize - 1 /\ n \in Nat
  BY KeyboardAssumption DEF BufferTyped
<1> SUFFICES ASSUME NEW k \in 1 .. n, k <= BufSize
             PROVE  keyboard_buffer'[(kbbuf_in' - k) % BufSize] = text[n + 1 - k]
  BY DEF BufferEnds, Latest
<1>2. CASE k = 1
  <2>1. (kbbuf_in' - 1) % BufSize = kbbuf_in
    <3>1. 1 \in 1 .. BufSize
      BY <1>1
    <3> QED
      BY <1>1, <3>1, RingIndex, ZenonT(30)
  <2>2. keyboard_buffer'[kbbuf_in] = ch
    BY <1>1 DEF BufferTyped
  <2> QED
    BY <1>1, <1>2, <2>1, <2>2
<1>3. CASE k > 1
  <2> DEFINE j == k - 1
  <2>1. j \in 1 .. BufSize /\ j < BufSize /\ k = j + 1 /\ j \in 1 .. n - 1
    BY <1>1, <1>3
  <2>2. (kbbuf_in' - k) % BufSize = (kbbuf_in - j) % BufSize
    <3>1. (((kbbuf_in + 1) % BufSize) - (j + 1)) % BufSize = (kbbuf_in - j) % BufSize
      BY <1>1, <2>1, RingIndex, ZenonT(30)
    <3> QED
      BY <2>1, <3>1
  <2>3. (kbbuf_in - j) % BufSize # kbbuf_in /\ (kbbuf_in - j) % BufSize \in 0 .. BufSize - 1
    BY <1>1, <2>1, RingIndex
  <2>4. keyboard_buffer[(kbbuf_in - j) % BufSize] = text[(n - 1) + 1 - j]
    BY <2>1 DEF BufferEnds, Latest
  <2>5. keyboard_buffer'[(kbbuf_in - j) % BufSize] = keyboard_buffer[(kbbuf_in - j) % BufSize]
    BY <2>3 DEF BufferTyped
  <2>6. (n - 1) + 1 - j = n + 1 - k
    BY <1>1, <2>1
  <2> QED
    BY <2>2, <2>4, <2>5, <2>6
<1> QED
  BY <1>2, <1>3

LEMMA DecodedInt == \A c : ScanCodeToASCII(c) \in Int
<1>1. \A c : kbd_decode(c) \in Int /\ kbd_decode_shifted(c) \in Int /\ kbd_decode_numlock(c) \in Int
  BY DEF kbd_decode, kbd_decode_shifted, kbd_decode_numlock
<1> QED
  BY <1>1 DEF ScanCodeToASCII

LEMMA MeaningInt == \A k \in Ordinary : Meaning(k) \in Int
<1> SUFFICES ASSUME NEW k \in Ordinary PROVE Meaning(k) \in Int
  OBVIOUS
<1>1. CASE k = "A"
  BY <1>1 DEF Meaning
<1>2. CASE k = "One"
  BY <1>2 DEF Meaning
<1>3. CASE k = "Keypad7"
  BY <1>3 DEF Meaning
<1>4. CASE k = "Enter"
  BY <1>4 DEF Meaning
<1>5. CASE k = "Up"
  BY <1>5 DEF Meaning
<1> QED
  BY <1>1, <1>2, <1>3, <1>4, <1>5 DEF Ordinary

LEMMA BufferTypedInit == Init => BufferTyped
BY KeyboardAssumption DEF Init, BufferTyped

LEMMA BufferTypedNext == BufferTyped /\ [Next]_vars => BufferTyped'
<1> SUFFICES ASSUME BufferTyped, [Next]_vars PROVE BufferTyped'
  OBVIOUS
<1>1. ASSUME NEW k \in Keys, Press(k) PROVE BufferTyped'
  <2>1. keyboard_buffer' = keyboard_buffer /\ kbbuf_in' = kbbuf_in /\ echo' = echo
    BY <1>1 DEF Press, Event, driver
  <2>2. text' \in Seq(Int) /\ visible' \in Seq(Int)
    BY <1>1, MeaningInt DEF Press, BufferTyped
  <2> QED
    BY <2>1, <2>2 DEF BufferTyped
<1>2. ASSUME NEW k \in Keys, Release(k) PROVE BufferTyped'
  BY <1>2 DEF Release, Event, driver, BufferTyped
<1>3. ASSUME TakeControl PROVE BufferTyped'
  BY <1>3 DEF TakeControl, BufferTyped
<1>4. ASSUME TakeChar PROVE BufferTyped'
  <2> DEFINE ch == ScanCodeToASCII(Head(wire))
  <2>1. ch \in Int
    BY DecodedInt
  <2>2. kbbuf_in' \in 0 .. BufSize - 1
    BY <1>4, KeyboardAssumption, RingIndex DEF TakeChar, BufferTyped
  <2>3. keyboard_buffer' \in [0 .. BufSize - 1 -> Int] /\ echo' \in Seq(Int)
    BY <1>4, <2>1 DEF TakeChar, BufferTyped
  <2>4. text' = text /\ visible' = visible
    BY <1>4 DEF TakeChar
  <2> QED
    BY <2>2, <2>3, <2>4 DEF BufferTyped
<1>5. ASSUME UNCHANGED vars PROVE BufferTyped'
  BY <1>5 DEF vars, driver, keyboard, BufferTyped
<1> QED
  BY <1>1, <1>2, <1>3, <1>4, <1>5 DEF Next, KeyboardHandlerM

LEMMA NothingPending == wire = <<>> => ~Pending
BY DEF Pending

LEMMA BufferEndsSame ==
  ASSUME NEW n \in Nat, NEW m, m = n, UNCHANGED <<keyboard_buffer, kbbuf_in>>,
         \A i \in 1 .. n : text'[i] = text[i], BufferEnds(n)
  PROVE  \A k \in 1 .. m : k <= BufSize => Latest(k)' = text'[m + 1 - k]
<1> SUFFICES ASSUME NEW k \in 1 .. n, k <= BufSize
             PROVE  Latest(k)' = text'[n + 1 - k]
  OBVIOUS
<1>1. Latest(k)' = Latest(k)
  BY DEF Latest
<1>2. Latest(k) = text[n + 1 - k]
  BY DEF BufferEnds
<1>3. n + 1 - k \in 1 .. n
  OBVIOUS
<1> QED
  BY <1>1, <1>2, <1>3

(* Nothing is typed and nothing is taken from the buffer.                  *)
LEMMA TextSame ==
  ASSUME BufferTyped, BufferEnds(Len(text)), echo = visible, ~Pending',
         UNCHANGED <<keyboard_buffer, kbbuf_in, echo, text, visible>>
  PROVE  TextOK'
<1>1. BufferEnds(Len(text))'
  <2>1. Len(text) \in Nat /\ Len(text') = Len(text)
    BY DEF BufferTyped
  <2>2. \A k \in 1 .. Len(text') : k <= BufSize => Latest(k)' = text'[Len(text') + 1 - k]
    BY <2>1, BufferEndsSame
  <2> QED
    BY <2>2, Zenon DEF BufferEnds
<1> QED
  BY <1>1 DEF TextOK

LEMMA PressText ==
  ASSUME TInv, NEW k \in Keys, Press(k)
  PROVE  TextOK'
<1> SUFFICES ASSUME ~extended' PROVE TextOK'
  BY DEF TextOK
<1>1. k \in Modifiers \cup Locks \cup Ordinary \cup {"Pause"}
  BY KeyboardAssumption
<1>2. /\ wire = <<>> /\ wire' = MakeCodes(k)
      /\ UNCHANGED <<vkbd, keyboard_buffer, kbbuf_in, echo>>
      /\ text' = IF k \in Ordinary THEN Append(text, Meaning(k)) ELSE text
      /\ visible' = IF k \in Ordinary /\ Meaning(k) # 0
                    THEN Append(visible, Meaning(k)) ELSE visible
  BY DEF Press, Event, driver
<1>3. ~extended /\ wire'[1] # 224
  BY Zenon DEF Press, Event
<1>4. BufferTyped /\ BufferEnds(Len(text)) /\ echo = visible
  BY <1>2, <1>3, NothingPending, Zenon DEF TInv, TextOK
<1>5. k # "Up" /\ CharCode(k, wire')
  BY <1>1, <1>2, <1>3, PressCodes
<1>6. CASE k \in Ordinary
  <2>1. PICK c \in CharCodes : CharOf(k, c)
    BY <1>5, <1>6 DEF Ordinary, CharCodes, CharOf
  <2>2. wire' = <<c>> /\ Head(wire') = c /\ Pending'
    BY <1>5, <2>1 DEF CharCode, Pending
  <2>3. ScanCodeToASCII(c) = Meaning(k) /\ Meaning(k) \in Int
    BY <1>2, <1>3, <2>1, CharMeans, Zenon DEF TInv
  <2>4. ScanCodeToASCII(c)' = ScanCodeToASCII(c)
    BY <1>2, Zenon DEF ScanCodeToASCII
  <2>5. ScanCodeToASCII(Head(wire))' = Meaning(k)
    BY <2>2, <2>3, <2>4
  <2>6. /\ Len(text') = Len(text) + 1 /\ text'[Len(text')] = Meaning(k)
        /\ \A i \in 1 .. Len(text) : text'[i] = text[i]
        /\ Len(text) \in Nat
    BY <1>2, <1>4, <1>6, <2>3 DEF BufferTyped
  <2>7. BufferEnds(Len(text) - 1)'
    <3>1. Len(text') - 1 = Len(text)
      BY <2>6
    <3>2. \A i \in 1 .. Len(text') - 1 :
            i <= BufSize => Latest(i)' = text'[Len(text') - 1 + 1 - i]
      BY <1>2, <1>4, <2>6, <3>1, BufferEndsSame
    <3> QED
      BY <3>2, Zenon DEF BufferEnds
  <2>8. visible' = Shown(echo', Meaning(k))
    BY <1>2, <1>4, <1>6 DEF Shown
  <2> QED
    BY <2>2, <2>5, <2>6, <2>7, <2>8 DEF TextOK
<1>7. CASE k \notin Ordinary
  <2>1. ~Pending'
    BY <1>5, <1>7 DEF Pending, CharCode, CharOf, Ordinary
  <2> QED
    BY <1>2, <1>4, <1>7, <2>1, TextSame
<1> QED
  BY <1>6, <1>7

LEMMA ReleaseText ==
  ASSUME TInv, NEW k \in Keys, Release(k)
  PROVE  TextOK'
<1> SUFFICES ASSUME ~extended' PROVE TextOK'
  BY DEF TextOK
<1>1. k \in Modifiers \cup Locks \cup Ordinary
  BY KeyboardAssumption DEF Release, TInv, KInv, WireOK
<1>2. /\ wire = <<>> /\ wire' = BreakCodes(k)
      /\ UNCHANGED <<keyboard_buffer, kbbuf_in, echo, text, visible>>
  BY DEF Release, Event, driver
<1>3. ~extended
  BY Zenon DEF Release, Event
<1>4. BufferTyped /\ BufferEnds(Len(text)) /\ echo = visible
  BY <1>2, <1>3, NothingPending, Zenon DEF TInv, TextOK
<1>5. ~Pending'
  BY <1>1, <1>2, ReleaseCodes DEF Pending
<1> QED
  BY <1>2, <1>4, <1>5, TextSame

(* What follows a byte is never a character's code.                        *)
LEMMA TailNotPending ==
  ASSUME WireOK, wire # <<>>, wire' = Tail(wire)
  PROVE  ~Pending'
<1>1. CASE OneByte(wire)
  <2>1. PICK b \in Single : wire = <<b>>
    BY <1>1 DEF OneByte
  <2>2. wire' = <<>>
    BY <2>1
  <2> QED
    BY <2>2 DEF Pending
<1>2. CASE Pair(wire)
  <2>1. PICK b \in Second : wire = <<224, b>>
    BY <1>2 DEF Pair
  <2>2. wire' = <<b>>
    BY <2>1
  <2>3. \A c \in CharCodes : c # b
    BY DEF CharCodes, Second
  <2> QED
    BY <2>2, <2>3, Tuples DEF Pending
<1>3. CASE Pause(wire)
  <2>1. \A c \in CharCodes : c # 197
    BY DEF CharCodes
  <2>2. CASE wire = <<225, 29, 69, 225, 157, 197>>
    BY <2>2 DEF Pending
  <2>3. CASE wire = <<29, 69, 225, 157, 197>>
    BY <2>3 DEF Pending
  <2>4. CASE wire = <<69, 225, 157, 197>>
    BY <2>4 DEF Pending
  <2>5. CASE wire = <<225, 157, 197>>
    BY <2>5 DEF Pending
  <2>6. CASE wire = <<157, 197>>
    <3>1. wire' = <<197>>
      <4>1. Tail(<<157, 197>>) = <<197>>
        OBVIOUS
      <4> QED
        BY <2>6, <4>1, ZenonT(30)
    <3>2. \A c \in CharCodes : <<197>> # <<c>>
      BY <2>1, Tuples
    <3> QED
      BY <3>1, <3>2, Zenon DEF Pending
  <2> QED
    BY <1>3, <2>2, <2>3, <2>4, <2>5, <2>6 DEF Pause
<1> QED
  BY <1>1, <1>2, <1>3 DEF WireOK

LEMMA ControlText ==
  ASSUME TInv, TakeControl
  PROVE  TextOK'
<1> SUFFICES ASSUME ~extended' PROVE TextOK'
  BY DEF TextOK
<1>1. /\ wire # <<>> /\ wire' = Tail(wire)
      /\ IsHandled(Head(wire)) \/ Head(wire) >= 128
      /\ UNCHANGED <<keyboard_buffer, kbbuf_in, echo, text, visible>>
  BY DEF TakeControl
<1>2. ~extended
  BY Zenon DEF TakeControl
<1>3. ~Pending
  BY <1>1, SMTT(30) DEF Pending, CharCodes, IsHandled
<1>4. BufferTyped /\ BufferEnds(Len(text)) /\ echo = visible
  BY <1>2, <1>3, Zenon DEF TInv, TextOK
<1>5. ~Pending'
  BY <1>1, TailNotPending DEF TInv, KInv
<1> QED
  BY <1>1, <1>4, <1>5, TextSame

LEMMA CharLeft ==
  ASSUME NEW b \in Single, ~IsHandled(b), b < 128, b # 72
  PROVE  b \in CharCodes
BY DEF Single, Second, CharCodes, IsHandled

LEMMA CharText ==
  ASSUME TInv, TakeChar
  PROVE  TextOK'
<1> SUFFICES ASSUME ~extended' PROVE TextOK'
  BY DEF TextOK
<1> DEFINE ch == ScanCodeToASCII(Head(wire))
<1>1. /\ wire # <<>> /\ wire' = Tail(wire)
      /\ ~IsHandled(Head(wire)) /\ Head(wire) < 128
      /\ keyboard_buffer' = [keyboard_buffer EXCEPT ![kbbuf_in] = ch]
      /\ kbbuf_in' = (kbbuf_in + 1) % BufSize
      /\ echo' = IF ch = 0 THEN echo ELSE Append(echo, ch)
      /\ text' = text /\ visible' = visible
  BY DEF TakeChar
<1>2. ~extended
  BY Zenon DEF TakeChar
<1>3. Pending
  <2>1. ~Pair(wire) /\ wire # <<72>> /\ wire # <<200>>
    BY <1>2 DEF TInv, KInv, WireOK
  <2>2. ~Pause(wire)
    BY <1>1 DEF Pause, IsHandled
  <2>3. PICK b \in Single : wire = <<b>>
    BY <1>1, <2>1, <2>2 DEF TInv, KInv, WireOK, OneByte
  <2>4. Head(wire) = b /\ b # 72
    <3>1. Head(<<b>>) = b
      OBVIOUS
    <3> QED
      BY <2>1, <2>3, <3>1, Zenon
  <2>5. b \in CharCodes
    BY <1>1, <2>3, <2>4, CharLeft, Zenon
  <2> QED
    BY <2>3, <2>5 DEF Pending
<1>4. /\ BufferTyped /\ Len(text) > 0 /\ text[Len(text)] = ch
      /\ BufferEnds(Len(text) - 1) /\ visible = Shown(echo, ch)
  BY <1>2, <1>3, Zenon DEF TInv, TextOK
<1>5. ch \in Int
  BY DecodedInt
<1> HIDE DEF ch
<1>6. BufferEnds(Len(text))'
  BY <1>1, <1>4, <1>5, BufferTakes
<1>7. echo' = visible'
  BY <1>1, <1>4 DEF Shown
<1>8. ~Pending'
  BY <1>1, TailNotPending DEF TInv, KInv
<1> QED
  BY <1>6, <1>7, <1>8 DEF TextOK

LEMMA TInvInit == Init => TInv
<1> SUFFICES ASSUME Init PROVE TInv
  OBVIOUS
<1>1. wire = <<>> /\ text = <<>> /\ visible = <<>> /\ echo = <<>>
  BY Zenon DEF Init
<1>2. TextOK
  BY <1>1, NothingPending DEF TextOK, BufferEnds
<1> QED
  BY <1>2, KInvInit, BufferTypedInit, Zenon DEF TInv

LEMMA TInvNext == TInv /\ [Next]_vars => TInv'
<1> SUFFICES ASSUME TInv, [Next]_vars PROVE TInv'
  OBVIOUS
<1>1. KInv' /\ BufferTyped'
  BY KInvNext, BufferTypedNext, Zenon DEF TInv
<1>2. ASSUME UNCHANGED vars PROVE TextOK'
  BY <1>2, Zenon DEF TInv, TextOK, vars, driver, keyboard, Pending, BufferEnds, Latest,
                     ScanCodeToASCII
<1>3. TextOK'
  BY <1>2, PressText, ReleaseText, ControlText, CharText, Zenon DEF Next, KeyboardHandlerM
<1> QED
  BY <1>1, <1>3, Zenon DEF TInv

(* However many characters are typed, and whatever the size of the ring    *)
(* buffer, it ends with the last of them, and the echo is all of them that *)
(* are visible, as TextArrives says.                                       *)
THEOREM TextStored == Spec => []TextArrives
<1>1. TInv => TextArrives
  <2> SUFFICES ASSUME TInv, wire = <<>>, ~extended
               PROVE  BufferEnds(Len(text)) /\ echo = visible
    BY Zenon DEF TextArrives, Quiet
  <2> QED
    BY NothingPending, Zenon DEF TInv, TextOK
<1> QED
  BY <1>1, TInvInit, TInvNext, PTL DEF Spec

=============================================================================
