------------------------------ MODULE Keyboard ------------------------------
(***************************************************************************)
(* The keyboard driver of libsys/conio.c and kbd_US.c: KeyboardHandlerM()  *)
(* takes one byte of scan code set 1 per interrupt, follows the shift,     *)
(* control and lock keys and the prefixes E0 and E1 in vkbd, and stores a  *)
(* character for every other make code.                                    *)
(*                                                                         *)
(* The keyboard itself is external: pressing or releasing a key sends the  *)
(* bytes of scan code set 1, which wait in "wire" until the handler takes  *)
(* them one by one.                                                        *)
(***************************************************************************)
EXTENDS Integers, Sequences

CONSTANTS
  Keys,        \* the keys of the model
  BufSize,     \* the range of kbbuf_in, an unsigned char: 256 in the code
  MaxEvents    \* bound of the model: key events

Modifiers == {"LShift", "RShift", "LCtrl", "RCtrl", "LAlt", "RAlt"}
Locks == {"CapsLock", "NumLock"}
Ordinary == {"A", "One", "Keypad7", "Enter", "Up"}

ASSUME KeyboardAssumption ==
  /\ Keys \subseteq Modifiers \cup Locks \cup Ordinary \cup {"Pause"}
  /\ BufSize \in Nat \ {0}
  /\ MaxEvents \in Nat

(* What the keyboard sends when a key is pressed, or repeats, and when it  *)
(* is released.                                                            *)
MakeCodes(k) ==
  CASE k = "LShift" -> <<42>>    [] k = "RShift" -> <<54>>
    [] k = "LCtrl" -> <<29>>     [] k = "RCtrl" -> <<224, 29>>
    [] k = "LAlt" -> <<56>>      [] k = "RAlt" -> <<224, 56>>
    [] k = "CapsLock" -> <<58>>  [] k = "NumLock" -> <<69>>
    [] k = "Pause" -> <<225, 29, 69, 225, 157, 197>>
    [] k = "A" -> <<30>>         [] k = "One" -> <<2>>
    [] k = "Keypad7" -> <<71>>   [] k = "Enter" -> <<28>>
    [] k = "Up" -> <<224, 72>>

BreakCodes(k) ==
  LET make == MakeCodes(k)
      Break(b) == IF b = 224 THEN 224 ELSE b + 128
  IN  [i \in DOMAIN make |-> Break(make[i])]

(* kbd_decode, its shifted half and kbd_decode_numlock at the scan codes   *)
(* of the model.                                                           *)
kbd_decode(sc) ==
  CASE sc = 30 -> 97 [] sc = 2 -> 49 [] sc = 28 -> 10 [] OTHER -> 0

kbd_decode_shifted(sc) ==
  CASE sc = 30 -> 65 [] sc = 2 -> 33 [] sc = 28 -> 10 [] OTHER -> 0

kbd_decode_numlock(sc) ==
  CASE sc = 30 -> 97 [] sc = 2 -> 49 [] sc = 28 -> 10
    [] sc = 71 -> 55 [] sc = 72 -> 56 [] OTHER -> 0

IsLower(ch) == ch \in 97 .. 122
IsDigitOrPoint(ch) == ch \in 48 .. 57 \cup {46}

VARIABLES
  vkbd,            \* the driver's modifier and lock bits and its prefix state
  keyboard_buffer,
  kbbuf_in,
  echo,            \* the characters the handler passed to WriteText()
  wire,            \* bytes sent and not yet taken
  down,            \* the keys that are held down
  locks,           \* the lock keys whose make code was sent an odd number
                   \* of times
  text,            \* the characters the keys pressed so far stand for,
                   \* 0 for a key that has none
  visible,         \* those that are not 0
  extended,        \* a key with an E0 prefix was used
  events           \* key events so far

driver == <<vkbd, keyboard_buffer, kbbuf_in, echo>>
keyboard == <<wire, down, locks, text, visible, extended, events>>
vars == <<driver, keyboard>>

Init ==
  /\ vkbd = [lshft |-> FALSE, rshft |-> FALSE, lctrl |-> FALSE,
             rctrl |-> FALSE, lalt |-> FALSE, ralt |-> FALSE,
             numlock |-> FALSE, capslock |-> FALSE, state |-> 0]
  /\ keyboard_buffer = [i \in 0 .. BufSize - 1 |-> 0]
  /\ kbbuf_in = 0
  /\ echo = <<>>
  /\ wire = <<>>
  /\ down = {}
  /\ locks = {}
  /\ text = <<>>
  /\ visible = <<>>
  /\ extended = FALSE
  /\ events = 0

-----------------------------------------------------------------------------
(* The person at the keyboard *)

(* The character a key stands for on this layout.  With Num Lock on a      *)
(* digit of the top row is a digit with Shift, too: kbd_decode_numlock has *)
(* that row, beside the keypad.                                            *)
Meaning(k) ==
  LET shift == down \cap {"LShift", "RShift"} # {}
      ctrl == down \cap {"LCtrl", "RCtrl"} # {}
  IN CASE k = "A" -> IF shift THEN 65
                     ELSE IF ctrl THEN 1
                     ELSE IF "CapsLock" \in locks THEN 65 ELSE 97
       [] k = "One" -> IF shift /\ "NumLock" \notin locks THEN 33 ELSE 49
       [] k = "Keypad7" -> IF "NumLock" \in locks THEN 55 ELSE 0
       [] k = "Enter" -> 10
       [] k = "Up" -> 0

(* Bound: the driver has taken the bytes of one key event when the next    *)
(* one comes (they would only queue), and there are MaxEvents of them.     *)
Event ==
  /\ wire = <<>>
  /\ events < MaxEvents
  /\ events' = events + 1
  /\ extended' = (extended \/ wire'[1] = 224)
  /\ UNCHANGED driver

(* A key is pressed, or repeats while it is held; Pause does neither       *)
(* repeat nor send anything when it is released.                           *)
Press(k) ==
  /\ wire' = MakeCodes(k)
  /\ Event
  /\ down' = IF k = "Pause" THEN down ELSE down \cup {k}
  /\ locks' = IF k \notin Locks THEN locks
              ELSE IF k \in locks THEN locks \ {k} ELSE locks \cup {k}
  /\ text' = IF k \in Ordinary THEN Append(text, Meaning(k)) ELSE text
  /\ visible' = IF k \in Ordinary /\ Meaning(k) # 0
                THEN Append(visible, Meaning(k)) ELSE visible

Release(k) ==
  /\ k \in down
  /\ wire' = BreakCodes(k)
  /\ Event
  /\ down' = down \ {k}
  /\ UNCHANGED <<locks, text, visible>>

-----------------------------------------------------------------------------
(* The driver *)

(* Mutant of ScanCodeToASCII: control is looked at after caps lock.        *)
ScanCodeToASCIICapsFirst(scancode) ==
  LET shift == vkbd.lshft \/ vkbd.rshft
      ch == IF shift THEN kbd_decode_shifted(scancode) ELSE kbd_decode(scancode)
      chnum == kbd_decode_numlock(scancode)
  IN IF vkbd.capslock /\ IsLower(ch) THEN ch - 32
     ELSE IF (vkbd.lctrl \/ vkbd.rctrl) /\ IsLower(ch) THEN ch - 96
     ELSE IF vkbd.numlock /\ IsDigitOrPoint(chnum) THEN chnum
     ELSE ch

(* For lower case letters ch & 0x1f is ch - 96 and ch & 0xdf is ch - 32.   *)
ScanCodeToASCII(scancode) ==
  LET shift == vkbd.lshft \/ vkbd.rshft
      ch == IF shift THEN kbd_decode_shifted(scancode) ELSE kbd_decode(scancode)
      chnum == kbd_decode_numlock(scancode)
  IN IF (vkbd.lctrl \/ vkbd.rctrl) /\ IsLower(ch) THEN ch - 96
     ELSE IF vkbd.capslock /\ IsLower(ch) THEN ch - 32
     ELSE IF vkbd.numlock /\ IsDigitOrPoint(chnum) THEN chnum
     ELSE ch

(* Mutant of Follow: Pause is taken for Ctrl and Num Lock.                 *)
FollowNoPause(b) ==
  CASE b = 42 -> [vkbd EXCEPT !.lshft = TRUE]
    [] b = 170 -> [vkbd EXCEPT !.lshft = FALSE]
    [] b = 29 -> [vkbd EXCEPT !.lctrl = TRUE]
    [] b = 157 -> [vkbd EXCEPT !.lctrl = FALSE]
    [] b = 58 -> [vkbd EXCEPT !.capslock = ~@]
    [] b = 69 -> [vkbd EXCEPT !.numlock = ~@]
    [] OTHER -> vkbd

(* The cases of the switch that move vkbd; the bits that the code never    *)
(* sets, like ralt, stay 0.                                                *)
Follow(b) ==
  CASE b = 42 -> [vkbd EXCEPT !.lshft = TRUE]
    [] b = 170 -> [vkbd EXCEPT !.lshft = FALSE]
    [] b = 54 -> [vkbd EXCEPT !.rshft = TRUE]
    [] b = 182 -> [vkbd EXCEPT !.rshft = FALSE]
    [] b = 29 /\ vkbd.state = 0 -> [vkbd EXCEPT !.lctrl = TRUE]
    [] b = 29 /\ vkbd.state = 1 -> [vkbd EXCEPT !.rctrl = TRUE]
    [] b \in {29, 157} /\ vkbd.state = 2 -> [vkbd EXCEPT !.state = 3]
    [] b = 157 /\ vkbd.state = 0 -> [vkbd EXCEPT !.lctrl = FALSE]
    [] b = 56 -> [vkbd EXCEPT !.lalt = TRUE]
    [] b = 184 -> [vkbd EXCEPT !.lalt = FALSE]
    [] b = 58 -> [vkbd EXCEPT !.capslock = ~@]
    [] b = 224 -> [vkbd EXCEPT !.state = 1]
    [] b = 225 -> [vkbd EXCEPT !.state = 2]
    [] b = 69 /\ vkbd.state = 0 -> [vkbd EXCEPT !.numlock = ~@]
    [] b \in {69, 197} /\ vkbd.state = 3 -> [vkbd EXCEPT !.state = 0]
    [] OTHER -> vkbd

(* The bytes the switch has a case for.                                    *)
IsHandled(b) ==
  b \in {42, 170, 54, 182, 29, 157, 56, 58, 184, 224, 225, 69, 197}

(* KeyboardHandlerM() takes the next byte: a modifier, lock or prefix      *)
(* byte, or a break code, which only the default case sees and ignores.    *)
TakeControl ==
  /\ wire # <<>>
  /\ IsHandled(Head(wire)) \/ Head(wire) >= 128
  /\ vkbd' = Follow(Head(wire))
  /\ wire' = Tail(wire)
  /\ UNCHANGED <<keyboard_buffer, kbbuf_in, echo>>
  /\ UNCHANGED <<down, locks, text, visible, extended, events>>

(* Any other make code: a character, 0 if the key has none, goes to the    *)
(* ring buffer and, if it is not 0, the console.                           *)
TakeChar ==
  LET ch == ScanCodeToASCII(Head(wire)) IN
  /\ wire # <<>>
  /\ ~IsHandled(Head(wire)) /\ Head(wire) < 128
  /\ keyboard_buffer' = [keyboard_buffer EXCEPT ![kbbuf_in] = ch]
  /\ kbbuf_in' = (kbbuf_in + 1) % BufSize
  /\ echo' = IF ch = 0 THEN echo ELSE Append(echo, ch)
  /\ wire' = Tail(wire)
  /\ UNCHANGED <<vkbd, down, locks, text, visible, extended, events>>

KeyboardHandlerM == TakeControl \/ TakeChar

Next == KeyboardHandlerM \/ \E k \in Keys : Press(k) \/ Release(k)

Spec == Init /\ [][Next]_vars

-----------------------------------------------------------------------------
Quiet == wire = <<>>

(* A complete key event leaves the driver waiting for a first byte         *)
(* (keyboard.h: state 1 waits for one more byte, states 2 and 3 for two).  *)
PrefixEnds == Quiet => vkbd.state = 0

(* Between key events the driver's bits are the keys that are held and the *)
(* locks as they were last pressed, whatever Pause, which sends the codes  *)
(* of Ctrl and Num Lock, put between.  Ctrl, Alt, Num Lock and the prefix  *)
(* state are followed up to the first E0 (see PrefixEnds), Shift and Caps  *)
(* Lock after it, too.                                                     *)
ModifiersFollowKeys ==
  Quiet =>
    /\ vkbd.lshft = ("LShift" \in down)
    /\ vkbd.rshft = ("RShift" \in down)
    /\ vkbd.capslock = ("CapsLock" \in locks)
    /\ ~extended =>
         /\ vkbd.lctrl = ("LCtrl" \in down) /\ ~vkbd.rctrl
         /\ vkbd.lalt = ("LAlt" \in down) /\ ~vkbd.ralt
         /\ vkbd.numlock = ("NumLock" \in locks)
         /\ vkbd.state = 0

(* The k-th character from the end of the ring buffer.                     *)
Latest(k) == keyboard_buffer[(kbbuf_in - k) % BufSize]

(* The buffer ends with the last of the first n characters typed.          *)
BufferEnds(n) ==
  \A k \in 1 .. n : k <= BufSize => Latest(k) = text[n + 1 - k]

(* The buffer holds the last characters typed, in order, each one what the *)
(* key stood for with the modifiers held when it was pressed; the console  *)
(* was passed all of them that are characters (up to the first E0).        *)
TextArrives ==
  Quiet /\ ~extended => BufferEnds(Len(text)) /\ echo = visible
=============================================================================
