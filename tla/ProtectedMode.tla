--------------------------- MODULE ProtectedMode ---------------------------
(***************************************************************************)
(* The code of the pm32 build for module Interrupts.  It differs from the  *)
(* long mode builds: the whole IDT is in the limit from the start, both    *)
(* IRQs are unmasked together, the keyboard handler ends the interrupt     *)
(* before it reads the byte and the timer handler after it has counted.    *)
(***************************************************************************)
EXTENDS SharedCode

(* Mutant of EnableInterrupts: the mask is read once and written twice.    *)
EnableInterruptsStaleMask ==
  PIC_OffsetIRQ
    \o << <<"PIC_MaskAllIRQ", 0>>,
          <<"ClearIDT", 0>>, <<"IDT_TrapGate", 0>>,
          <<"IDT_IntGate", 32>>, <<"IDT_IntGate", 33>>, <<"limit", 256>> >>
    \o LoadIDT
    \o PIC_UnmaskIRQ(1) \o << <<"OutUnmask", 0>> >>

EnableInterrupts ==
  PIC_OffsetIRQ
    \o << <<"PIC_MaskAllIRQ", 0>>,
          <<"ClearIDT", 0>>, <<"IDT_TrapGate", 0>>,
          <<"IDT_IntGate", 32>>, <<"IDT_IntGate", 33>>, <<"limit", 256>> >>
    \o LoadIDT
    \o PIC_UnmaskIRQ(0) \o PIC_UnmaskIRQ(1)

(* Mutant of Main: the console is written after interrupts are on.         *)
MainWritesLate == EnableInterrupts \o WriteText \o << <<"Menu", 0>> >>

(* main(): the console first, then the interrupts; the loop that follows   *)
(* talks to the serial port only.                                          *)
Main == WriteText \o EnableInterrupts \o << <<"Menu", 0>> >>

(* Mutant of TimerHandler: no end of interrupt.                            *)
TimerHandlerNoEOI == << <<"AddTime", 0>>, <<"iret", 0>> >>

TimerHandler == << <<"AddTime", 0>>, <<"EOI", 0>>, <<"iret", 0>> >>

KeyboardHandler ==
  << <<"EOI", 0>>, <<"ScanKeyboard", 0>>, <<"TakeByte", 0>> >>
    \o WriteText
    \o << <<"iret", 0>> >>

(* DivbyzeroHandler and GPFaultHandler.                                    *)
FaultHandler == << <<"cli", 0>> >> \o WriteText \o << <<"halt", 0>> >>

ProtectedModeCode ==
  [main |-> Main, timer |-> TimerHandler,
   keyboard |-> KeyboardHandler, trap |-> FaultHandler]
=============================================================================
