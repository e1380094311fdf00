------------------------------ MODULE MCDemos ------------------------------
(* Demos for TLC: five builds, a clock of three seconds a minute and two   *)
(* minutes an hour, numbers at the ends of their ranges.                   *)
EXTENDS Demos

AllBuilds == {"rm16", "lm64", "pm32", "vga", "vesa"}
Keys == {"t", "v", "m", "d", "x"}
MCTyped ==
  [b \in AllBuilds |-> CASE b = "rm16" -> {"t", "v"}
                         [] b = "lm64" -> {"m", "d"}
                         [] OTHER -> {"x"}]
MCIntValues == {-32768, 0, 255}
MCLongValues == {-1, 65530}
MCEntries ==
  {[address |-> 0, flags |-> {}], [address |-> 40960, flags |-> {"WRITABLE", "PRESENT"}]}
MCLengths == <<3, 2, 24, 2>>
MCTimes == {<<2, 1, h, 0>> : h \in {21, 23}}
AllFormats == Format
=============================================================================
