------------------------------ MODULE LongMode ------------------------------
(***************************************************************************)
(* The code of the lm64 build for module Interrupts: the C runtime's       *)
(* start-up, main() and the handlers.                                      *)
(***************************************************************************)
EXTENDS SharedCode

(* Mutant of InitIDT: the IRQs are not masked while the IDT is built.      *)
InitIDTUnmasked ==
  PIC_OffsetIRQ
    \o << <<"ClearIDT", 0>>, <<"IDT_TrapGate", 0>>, <<"IDT_TrapGate", 8>>,
          <<"IDT_IntGate", 32>>, <<"limit", 33>> >>
    \o LoadIDT
    \o PIC_UnmaskIRQ(0)

(* _init_IDT() of crt0.c.                                                  *)
InitIDT ==
  PIC_OffsetIRQ
    \o << <<"PIC_MaskAllIRQ", 0>>,
          <<"ClearIDT", 0>>, <<"IDT_TrapGate", 0>>, <<"IDT_TrapGate", 8>>,
          <<"IDT_IntGate", 32>>, <<"limit", 33>> >>
    \o LoadIDT
    \o PIC_UnmaskIRQ(0)

InstallISRs ==
  << <<"IDT_IntGate", 33>>, <<"limit", 34>> >>
    \o LoadIDT
    \o PIC_UnmaskIRQ(1)

(* Menu()'s loop: getchar(), then a command.                               *)
Menu ==
  << <<"Menu", 1>>, <<"Beep", 0>>, <<"usleep", 0>>, <<"wait", 0>>,
     <<"NoSound", 0>> >>

(* _start() and main(): what it prints on the console comes before         *)
(* InstallISRs(), what it prints later goes to the serial port.            *)
Main == InitIDT \o WriteText \o InstallISRs \o Menu

SystemTimerHandler == << <<"EOI", 0>>, <<"AddTime", 0>>, <<"iret", 0>> >>

(* Mutants of KeyboardHandler: it does not return; it reads once more      *)
(* before it takes a byte.                                                 *)
KeyboardHandlerFallsThrough ==
  << <<"ScanKeyboard", 0>>, <<"TakeByte", 0>> >>
    \o WriteText
    \o << <<"EOI", 0>> >>
KeyboardHandlerReadsTwice ==
  << <<"ScanKeyboard", 0>>, <<"ScanKeyboard", 0>>, <<"TakeByte", 0>> >>
    \o WriteText
    \o << <<"EOI", 0>>, <<"iret", 0>> >>

KeyboardHandler ==
  << <<"ScanKeyboard", 0>>, <<"TakeByte", 0>> >>
    \o WriteText
    \o << <<"EOI", 0>>, <<"iret", 0>> >>

(* The macros trap and traperr, then CPUExceptionHandler().                *)
Trap == << <<"cli", 0>> >> \o WriteText \o << <<"halt", 0>> >>

LongModeCode ==
  [main |-> Main, timer |-> SystemTimerHandler,
   keyboard |-> KeyboardHandler, trap |-> Trap]
=============================================================================
