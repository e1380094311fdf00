------------------------------- MODULE Demos -------------------------------
(***************************************************************************)
(* The programs of the five builds as a terminal at the serial port sees   *)
(* them: module Scripts says what they call, Serial how it reaches the     *)
(* terminal, Numbers what a number looks like and Rtc which time it is.    *)
(*                                                                         *)
(* A number comes from the hardware, the BIOS or a counter that interrupts *)
(* change: it is chosen when it is formatted.  What the commands do to the *)
(* PIC, the speaker and the heap is in Interrupts and Heap.                *)
(***************************************************************************)
EXTENDS Serial, Scripts, Numbers, Rtc

CONSTANTS
  Builds,                 \* of {"rm16", "lm64", "pm32", "vga", "vesa"}
  IntValues, LongValues,  \* the numbers printed
  Entries,                \* the page table entries printed
  Typed                   \* the keys typed at each build

(* Numbers have the width of their type, an int holds what a register of   *)
(* the clock does, addresses are masked to 40 bits.                        *)
ASSUME DemosAssumption ==
  /\ Builds \subseteq DOMAIN Opening
  /\ Typed \in [Builds -> SUBSET Key]
  /\ Times # {} /\ Formats # {} /\ IntBits >= 7
  /\ IntValues \subseteq -TwoTo[IntBits - 1] .. TwoTo[IntBits - 1] - 1
  /\ LongValues \subseteq -TwoTo[LongBits - 1] .. TwoTo[LongBits - 1] - 1
  /\ \A pte \in Entries :
       /\ pte.address \in 0 .. TwoTo[LongBits] - 1
       /\ LongBits > 40 => pte.address < TwoTo[40]

VARIABLES
  build,
  script,     \* the calls the program is still to make
  item, num   \* the last call that printed, and the number if it was one

demo == <<build, script, item, num>>
vars == <<serial, rtcVars, demo>>

(* While the clock is not read its time and its format are not followed.   *)
SomeTime == CHOOSE t \in Times : TRUE
SomeFormat == CHOOSE f \in Formats : TRUE

Init ==
  /\ SerialInit
  /\ RtcInit /\ reg = SomeTime /\ format = SomeFormat
  /\ build \in Builds
  /\ script = Opening[build]
  /\ item = Call("fputs") /\ num = 0

-----------------------------------------------------------------------------
(* RTC_GetTime() is under way.                                             *)
Calling == pc \notin {"idle", "returned"}

(* The program is at a call of that name.                                  *)
At(op) == script # <<>> /\ script[1].op = op /\ Printed /\ ~Calling

Return == script' = Tail(script) /\ UNCHANGED <<build, item, num>>

(* A call that prints str.                                                 *)
Prints(str, n) ==
  /\ fputs(str)
  /\ item' = script[1] /\ num' = n
  /\ script' = Tail(script)
  /\ UNCHANGED <<build, rtcVars>>

PrintString == At("fputs") /\ Prints(script[1].str, 0)

PrintInt ==
  At("itoa") /\ \E n \in IntValues : Prints(itoa(n, script[1].base, script[1].width), n)

PrintLong ==
  At("ltoa") /\ \E n \in LongValues : Prints(ltoa(n, script[1].base, script[1].width), n)

PrintKey == At("putchar") /\ Prints(<<c>>, 0)

(* The flags of a page table entry, and how DumpPTE() shows them.          *)
PTEFlags ==
  << <<"NX", "n", "x">>, <<"GLOBAL", "g", "-">>, <<"HUGE", "h", "-">>,
     <<"DIRTY", "d", "-">>, <<"ACCESSED", "a", "-">>, <<"NOCACHE", "-", "c">>,
     <<"WRTHRU", "W", "C">>, <<"USER", "u", "k">>, <<"WRITABLE", "w", "-">>,
     <<"PRESENT", "p", "-">> >>

(* The address, the flags and the bits the system may use.                 *)
DumpPTE(pte) ==
  ltoa(pte.address, 16, 10) \o <<":">>
    \o [k \in DOMAIN PTEFlags |->
          IF PTEFlags[k][1] \in pte.flags THEN PTEFlags[k][2] ELSE PTEFlags[k][3]]
    \o <<":", "os bits">>

PrintEntry == At("DumpPTE") /\ \E pte \in Entries : Prints(DumpPTE(pte), pte.address)

TimeText ==
  LET sbuf == itoa(now[HOUR], 10, 2) \o <<":">> \o itoa(now[2], 10, 2)
                \o <<":">> \o itoa(now[1], 10, 2)
  IN  <<LF, "Time is ">> \o strtr(sbuf, SP, "0")

(* From here on the clock's own time does not matter.                      *)
PrintTime ==
  /\ At("time")
  /\ fputs(TimeText)
  /\ item' = script[1] /\ num' = 0
  /\ script' = Tail(script)
  /\ reg' = SomeTime /\ uip' = FALSE /\ carry' = 0
  /\ UNCHANGED <<build, format, call, shown, updates>>

-----------------------------------------------------------------------------
(* The program *)

InitPort ==
  /\ At("COM_Init") /\ COM_Init
  /\ script' = IF COM_Ready' THEN Tail(script) ELSE script
  /\ UNCHANGED <<build, item, num, rtcVars>>

SendChar == COM_WriteChar /\ UNCHANGED <<rtcVars, demo>>

ReadKey == At("getchar") /\ COM_ReadChar(TRUE) /\ Return /\ UNCHANGED rtcVars

Pause == At("pause") /\ COM_ReadChar(FALSE) /\ Return /\ UNCHANGED rtcVars

(* From here on the clock's time matters, if it is asked for.              *)
Switch ==
  /\ At("switch")
  /\ script' = Answer(build, c)
  /\ IF script' # <<>> /\ script'[1].op = "RTC_GetTime"
     THEN /\ reg' \in Times /\ format' \in Formats
          /\ uip' \in BOOLEAN /\ carry' = (IF uip' THEN 1 ELSE 0)
     ELSE UNCHANGED clock
  /\ UNCHANGED <<serial, call, shown, updates, build, item, num>>

CallGetTime == At("RTC_GetTime") /\ RTC_GetTime /\ Return /\ UNCHANGED serial

GetTime == (RTC_readTime \/ RTC_read \/ Convert) /\ UNCHANGED <<serial, demo>>

Break == At("break") /\ Use /\ Return /\ UNCHANGED serial

GetInfo ==
  /\ At("VBE_GetInfo")
  /\ script' \in {VbeInfo, VbeFailed}
  /\ UNCHANGED <<serial, rtcVars, build, item, num>>

ListModes ==
  /\ At("modes")
  /\ script' \in AtMode(script[1].width)
  /\ UNCHANGED <<serial, rtcVars, build, item, num>>

(* while (1): the key has been answered.                                   *)
Again ==
  /\ script = <<>> /\ Printed
  /\ script' = Loop[build]
  /\ c' = NONE
  /\ format' = SomeFormat
  /\ item' = Call("fputs") /\ num' = 0
  /\ UNCHANGED <<uart, tx, rx, inits, text, at, crSent>>
  /\ UNCHANGED <<reg, uip, carry, call, shown, updates, build>>

Halted == At("halt")

Program ==
  \/ PrintString \/ PrintInt \/ PrintLong \/ PrintKey \/ PrintEntry \/ PrintTime
  \/ InitPort \/ SendChar \/ ReadKey \/ Pause
  \/ Switch \/ CallGetTime \/ GetTime \/ Break \/ GetInfo \/ ListModes \/ Again

Port == Transmit /\ UNCHANGED <<rtcVars, demo>>

(* Keys typed while the clock is read are left out: they change nothing    *)
(* before the next getchar().                                              *)
Typing ==
  /\ ~Calling
  /\ \E k \in Typed[build] : Receive(k)
  /\ UNCHANGED <<rtcVars, demo>>

SecondPasses == Calling /\ UpdateBegins /\ UNCHANGED <<serial, demo>>

ClockUpdates == (UpdateRegister \/ UpdateEnds) /\ Calling /\ UNCHANGED <<serial, demo>>

Next == Program \/ Port \/ Typing \/ SecondPasses \/ ClockUpdates

(* The CPU runs, the port transmits and an update ends.                    *)
Fairness == WF_vars(Program) /\ WF_vars(Port) /\ WF_vars(ClockUpdates)

Spec == Init /\ [][Next]_vars /\ Fairness

-----------------------------------------------------------------------------
(* The value of every variable is one the code, the port or the clock can  *)
(* store there.                                                            *)
TypeOK ==
  /\ SerialTypeOK
  /\ RtcTypeOK
  /\ build \in Builds
  /\ num \in IntValues \cup LongValues \cup {e.address : e \in Entries} \cup {0}

(* A script that begins with n calls of COM_Init(), makes no more, and does*)
(* not read the clock.                                                     *)
Opens(calls, n) ==
  /\ calls \in Seq(Range(calls)) /\ n <= Len(calls)
  /\ \A k \in DOMAIN calls :
       IF k <= n THEN calls[k].op = "COM_Init"
       ELSE calls[k].op \notin {"COM_Init", "RTC_GetTime", "time", "break"}

(* What the program is still to call tells whether the port is set up and  *)
(* where the reading of the clock is.                                      *)
ScriptOK ==
  \/ /\ \E n \in {1, 2} : Opens(script, n)
     /\ pc = "idle" /\ text = <<>> /\ tx = <<>>
  \/ /\ COM_Ready
     /\ \/ pc = "idle" /\ (script = ReadClock \/ Opens(script, 0))
        \/ pc # "idle" /\ script = Tail(ReadClock)
        \/ pc = "returned" /\ script = Tail(Tail(ReadClock))

SetUpInv == TypeOK /\ RtcInv /\ UartOK /\ ScriptOK

(* Base 16 is always printed with a width.                                 *)
NumberFormat(base, width) ==
  base \in {10, 16} /\ width \in Nat /\ (base = 16 => width > 0)

(* A script that prints sequences of characters, and numbers in base 10 or *)
(* 16, and asks for at most n keys, which is 0 or 1.                       *)
Asks(calls, n) ==
  /\ calls \in Seq(Range(calls))
  /\ \A k \in DOMAIN calls :
       /\ calls[k].str \in Seq(Range(calls[k].str))
       /\ calls[k].width \in Nat
       /\ calls[k].op \in {"itoa", "ltoa"} => NumberFormat(calls[k].base, calls[k].width)
  /\ \A j, k \in DOMAIN calls :
       calls[j].op = "getchar" /\ calls[k].op = "getchar" => n = 1 /\ j = k

(* No key is asked for before the last one is answered.                    *)
CallsOK ==
  /\ text \in Seq(Range(text))
  /\ Asks(script, IF c = NONE THEN 1 ELSE 0)

(* What the last call has printed, and of which number.                    *)
TextOK ==
  /\ item.op \in {"itoa", "ltoa"} => NumberFormat(item.base, item.width)
  /\ item.op = "itoa" => num \in IntValues /\ text = itoa(num, item.base, item.width)
  /\ item.op = "ltoa" => num \in LongValues /\ text = ltoa(num, item.base, item.width)
  /\ item.op = "DumpPTE" => \E pte \in Entries : num = pte.address /\ text = DumpPTE(pte)
  /\ item.op = "time" =>
       \/ pc = "returned" /\ script = Tail(Tail(ReadClock)) /\ text = TimeText
       \/ pc = "idle" /\ script = <<>>

IInv == SetUpInv /\ CallsOK /\ TextOK

(* Base 10 is read back, sign and padding included, by atoi() and atol();  *)
(* base 16 shows the low digits, as many as the field has.  The time is    *)
(* the one RTC_GetTime() returned, two digits each.                        *)
LowDigits(n, width, bits) ==
  IF 4 * width >= bits THEN n % TwoTo[bits] ELSE n % TwoTo[4 * width]

NumbersPrinted ==
  /\ item.op = "itoa" /\ item.base = 10 => atoi(text) = num /\ Len(text) >= item.width
  /\ item.op = "ltoa" /\ item.base = 10 => atol(text) = num /\ Len(text) >= item.width
  /\ item.op \in {"itoa", "ltoa"} /\ item.base = 16 =>
       /\ Len(text) = item.width
       /\ Value(text, 16) =
            LowDigits(num, item.width, IF item.op = "itoa" THEN IntBits ELSE LongBits)
  /\ item.op = "DumpPTE" => Value(SubSeq(text, 1, 10), 16) = num
  /\ item.op = "time" /\ pc = "returned" =>
       /\ text[5] = ":" /\ text[8] = ":"
       /\ \A k \in {3, 4, 6, 7, 9, 10} : text[k] \in DecimalDigits
       /\ \A r \in 1 .. 3 : atoi(SubSeq(text, 12 - 3 * r, 13 - 3 * r)) = now[r]

(* stdio keeps its promise, whatever is printed and typed.                 *)
StreamSpec == StreamOf!StreamSpec

(* A key in the port is read, and the key read is answered and the next    *)
(* one asked for, unless the program has ended in an exception or the      *)
(* answer waits for another key.                                           *)
KeysAnswered ==
  /\ (rx # <<>> /\ c = NONE) ~> (c # NONE \/ rx = <<>>)
  /\ c # NONE ~> (At("getchar") \/ At("pause") \/ Halted)
=============================================================================
