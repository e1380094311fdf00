------------------------------ MODULE RealMode ------------------------------
(***************************************************************************)
(* The code of the rm16 build for module Interrupts.  The BIOS set up the  *)
(* PIC and the interrupt vector table; the build takes over the timer's    *)
(* vector and masks and unmasks its line on command.                       *)
(***************************************************************************)
EXTENDS SharedCode

(* Mutant of Start: interrupts are enabled first.                          *)
StartEnabled == << <<"sti", 0>>, <<"SetVector", 8>> >>

(* stage1.asm, after its cli.                                              *)
Start == << <<"SetVector", 8>>, <<"sti", 0>> >>

PIC_MaskIRQ(i) == << <<"InMask", 0>>, <<"OutMask", i>> >>

(* Main()'s loop: the commands e and d.                                    *)
Main ==
  Start \o << <<"Command", 3>> >>
    \o PIC_UnmaskIRQ(0) \o << <<"Repeat", 3>> >>
    \o PIC_MaskIRQ(0) \o << <<"Repeat", 6>> >>

timerISR == << <<"AddTime", 0>>, <<"EOI", 0>>, <<"iret", 0>> >>

(* What the other vectors lead to.                                         *)
BiosHandler == << <<"EOI", 0>>, <<"iret", 0>> >>

RealModeCode == [main |-> Main, timer |-> timerISR, trap |-> BiosHandler]
=============================================================================
