------------------------------ MODULE Scripts ------------------------------
(***************************************************************************)
(* What the programs of the five builds call to talk to the terminal, each *)
(* as a sequence of calls; consecutive calls that print constant strings   *)
(* are one, and so are strings whose wording does not matter.              *)
(***************************************************************************)
EXTENDS Naturals, Lines

CONSTANTS
  MaxModes,   \* bound of the model: video modes the BIOS lists
  Rows        \* bound of the model: rows of a page table printed

ASSUME ScriptsAssumption == MaxModes \in Nat /\ Rows \in Nat

-----------------------------------------------------------------------------
(* Calls *)

Call(name) == [op |-> name, str |-> <<>>, base |-> 0, width |-> 0]
Puts(str) == <<[Call("fputs") EXCEPT !.str = str]>>
PutInt(base, width) == <<[Call("itoa") EXCEPT !.base = base, !.width = width]>>
PutLong(base, width) == <<[Call("ltoa") EXCEPT !.base = base, !.width = width]>>
Do(name) == <<Call(name)>>
NewLine == Puts(<<LF>>)
Hex8 == PutInt(16, 8) \o NewLine
Repeat(n, calls) ==
  [k \in 1 .. n * Len(calls) |-> calls[((k - 1) % Len(calls)) + 1]]

PrintPTE(prefix) == Puts(<<prefix>>) \o Do("DumpPTE") \o NewLine
PrintPDT == Repeat(Rows, Puts(<<"PDT[">>) \o PutInt(10, 3) \o PrintPTE("]      = "))
PrintPT == Repeat(Rows, PutLong(16, 12) \o PrintPTE(" -> "))

-----------------------------------------------------------------------------
(* Scripts *)

read_apic == Repeat(5, Hex8)

ShowCPUID ==
  Puts(<<"CPUID EAX=0", LF, "EAX: ">>) \o Hex8 \o Puts(<<"string: ", "vendor", LF>>)
    \o Puts(<<"CPUID EAX=1", LF, "EAX: ">>) \o Hex8 \o Puts(<<"EBX: ">>) \o Hex8
    \o Puts(<<"ECX: ">>) \o Hex8 \o Puts(<<"EDX: ">>) \o Hex8

init_graphics ==
  Puts(<<"video ram: ">>) \o PutLong(10, 1) \o Puts(<<LF, "video mode: 0x">>)
    \o PutInt(16, 3) \o Puts(<<"  ">>) \o PutInt(10, 1) \o Puts(<<" x ">>)
    \o PutInt(10, 1) \o Puts(<<" x ">>) \o PutInt(10, 1) \o Puts(<<"  0x">>)
    \o PutLong(16, 8) \o NewLine

print_page_tables ==
  PrintPTE("PML4T[0]      = ") \o PrintPTE("PDPT[0]       = ")
    \o PrintPDT \o PrintPDT \o PrintPT \o PrintPT

(* From _start() to the loop.  pm32 calls COM_Init() a second time.        *)
Opening ==
  [rm16 |-> Do("COM_Init") \o Puts(<<"Real time clock demo", LF>>),
   lm64 |-> Do("COM_Init") \o read_apic \o ShowCPUID
              \o Puts(<<"long mode demo", LF>>),
   pm32 |-> Do("COM_Init") \o Do("COM_Init")
              \o Puts(<<"installing", LF, "32-bit demo", LF>>),
   vga |-> Do("COM_Init") \o Puts(<<"VGA demo", LF>>),
   vesa |-> Do("COM_Init") \o init_graphics \o print_page_tables
              \o Puts(<<"Hi resolution demo", LF>>)]

AskAndEcho ==
  Puts(<<LF, "press a key ">>) \o Do("getchar")
    \o Puts(<<LF, "you pressed: ">>) \o Do("putchar")

Loop ==
  [rm16 |-> Puts(<<LF, "tick count: ">>) \o PutInt(10, 0) \o AskAndEcho \o Do("switch"),
   lm64 |-> Puts(<<"press a key ">>) \o Do("getchar")
              \o Puts(<<LF, "system timer: ">>) \o PutLong(10, 0) \o NewLine
              \o Do("switch"),
   pm32 |-> AskAndEcho \o NewLine \o PutInt(10, 0),
   vga |-> AskAndEcho,
   vesa |-> AskAndEcho]

(* An exception: CPUExceptionHandler() does not return.                    *)
Panic ==
  Puts(<<LF, "PANIC: ", "name", ", error code: ">>) \o PutInt(16, 4)
    \o Puts(<<LF, "registers", LF, "stack", LF, "system halted.", LF>>)
    \o Do("halt")

malloc_test ==
  Puts(<<"p1: ">>) \o PutLong(16, 8) \o Puts(<<LF, "p2: ">>) \o PutLong(16, 8) \o NewLine

ReadClock == <<Call("RTC_GetTime"), Call("time"), Call("break")>>

Answers ==
  [rm16 |-> [e |-> Puts(<<LF, "IRQ 0 enabled">>),
             d |-> Puts(<<LF, "IRQ 0 disabled">>),
             t |-> ReadClock,
             v |-> Puts(<<"Querying", LF>>) \o Do("VBE_GetInfo")],
   lm64 |-> [d |-> Panic, p |-> Panic, m |-> malloc_test]]

Answer(build, ch) ==
  IF build \in DOMAIN Answers /\ ch \in DOMAIN Answers[build]
  THEN Answers[build][ch] ELSE <<>>

(* ShowVesaModes(), once the BIOS has answered.                            *)
VbeFailed == Puts(<<"VBE GetInfo failed, returned 0x">>) \o PutInt(16, 4) \o NewLine

Modes(i) == <<[Call("modes") EXCEPT !.width = i]>>

VbeInfo ==
  Puts(<<"Signature: ", "VESA", LF, "Vbe Version: 0x">>) \o PutInt(16, 4)
    \o Puts(<<LF, "Total Memory: ">>) \o PutInt(10, 8)
    \o Puts(<<LF, "Video Mode Pointer: 0x">>) \o PutInt(16, 8)
    \o Puts(<<LF, "Modes:", LF>>) \o Modes(0)

VbeMode(i) ==
  Puts(<<"mode: 0x">>) \o PutInt(16, 3) \o Puts(<<"  res: ">>) \o PutInt(10, 4)
    \o Puts(<<" x ">>) \o PutInt(10, 4) \o Puts(<<" x ">>) \o PutInt(10, 2)
    \o Puts(<<"  fbuf: 0x">>) \o PutInt(16, 8) \o Puts(<<"  direct-color", LF>>)
    \o IF i % 16 = 4 THEN Do("pause") ELSE <<>>

(* What the loop does next at mode i: it ends, leaves the mode out or      *)
(* prints it.                                                              *)
AtMode(i) ==
  {<<>>} \cup IF i = MaxModes THEN {} ELSE {Modes(i + 1), VbeMode(i) \o Modes(i + 1)}
=============================================================================
