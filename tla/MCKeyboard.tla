----------------------------- MODULE MCKeyboard -----------------------------
(* Keyboard for TLC: a key for every case of the switch; arrow keys.       *)
EXTENDS Keyboard

SwitchKeys ==
  {"LShift", "RShift", "LCtrl", "RCtrl", "LAlt", "CapsLock", "NumLock",
   "Pause", "A", "One", "Keypad7", "Up"}

ArrowKeys == {"RCtrl", "Up"}
=============================================================================
