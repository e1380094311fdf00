---------------------------- MODULE SharedCode ----------------------------
(* Functions that both builds of module Interrupts link, as operations.    *)
EXTENDS Sequences

(* PIC_OffsetIRQ(0x20, 0x28), its writes to the master.                    *)
PIC_OffsetIRQ ==
  << <<"InMask", 0>>, <<"ICW1", 0>>, <<"ICW2", 32>>, <<"ICW3", 0>>,
     <<"ICW4", 0>>, <<"RestoreMasks", 0>> >>

PIC_UnmaskIRQ(i) == << <<"InMask", 0>>, <<"OutUnmask", i>> >>

LoadIDT == << <<"lidt", 0>>, <<"sti", 0>> >>

WriteText == << <<"GetTextCursor", 0>>, <<"SetTextCursor", 0>> >>
=============================================================================
