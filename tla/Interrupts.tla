----------------------------- MODULE Interrupts -----------------------------
(***************************************************************************)
(* How a build sets up interrupts and what they do to its main program:    *)
(* the master 8259, the keyboard controller, the CPU's interrupt flag and  *)
(* IDT register, the code main() runs and the handlers that interrupt it.  *)
(*                                                                         *)
(* The code of main() and of each handler is a constant, a sequence of     *)
(* operations <<name, argument>>, because the builds (modules LongMode,    *)
(* ProtectedMode and RealMode) run the same operations in different        *)
(* orders.  Each operation is an action here; an interrupt can come        *)
(* between any two.                                                        *)
(*                                                                         *)
(* The model starts after the boot loader's cli.  IRQ 0 (timer) and IRQ 1  *)
(* (keyboard) are modelled; the others stay masked.                        *)
(***************************************************************************)
EXTENDS Integers, Sequences, FiniteSets

CONSTANTS
  Code,       \* for each build, the operations of "main", "timer",
              \* "keyboard" and "trap"
  RealModeBuilds, \* those that leave the set-up to the BIOS
  TICK,       \* what the timer handler adds to system_time
  USEC,       \* the argument of usleep()
  MaxTime,    \* bound of the model: no beep begins beyond it, and no
              \* tick comes beyond it but those usleep() waits for
  MaxKeys,    \* bound of the model: the bytes the keyboard sends
  EarlyKeys   \* whether a byte may arrive before the PIC is initialised

IRQ == {0, 1}
NONE == 0

(* Vectors that matter: CPU exceptions (0 stands for them all), what the   *)
(* BIOS set the PIC to, and the two interrupts.                            *)
Vector == {0, 8, 9, 32, 33}
Handlers == {"timer", "keyboard"}

ASSUME InterruptsAssumption ==
  /\ RealModeBuilds \subseteq DOMAIN Code
  /\ TICK \in Nat \ {0}
  /\ USEC \in Nat
  /\ MaxTime \in Nat
  /\ MaxKeys \in Nat
  /\ EarlyKeys \in BOOLEAN

VARIABLES
  stack,        \* the code that runs (last) and what it interrupted
  iflag,        \* the CPU's interrupt flag
  idtr,         \* CPU: number of IDT entries within the loaded limit
  limit,        \* memory: the limit field of the IDTR structure, in entries
  idt,          \* memory: the kind of gate at each vector, "bios" for
                \* those of the BIOS
  imr, irr, isr,\* PIC: mask, request and in-service registers
  icw,          \* PIC: the initialisation word it waits for; 0 if none
  offset,       \* PIC: vector of IRQ 0
  saved,        \* main(): the mask read from the PIC (a1, value)
  system_time,
  until,        \* usleep(): local
  edges,        \* timer edges since usleep() was called (capped)
  speaker,      \* the speaker is on
  typed,        \* bytes the keyboard has sent: 1 .. typed
  loaded,       \* how many of them reached the controller's output buffer
  obf,          \* the byte in the output buffer, NONE if it is empty
  handled,      \* the bytes KeyboardHandlerM() took, in order
  cursor        \* console: the cursor, as the number of characters written

pic == <<imr, irr, isr, icw, offset>>
cpu == <<iflag, idtr, limit, idt>>
timer == <<system_time, until, edges, speaker>>
kbd == <<typed, loaded, obf, handled>>
vars == <<stack, cpu, pic, saved, timer, kbd, cursor>>

Frame(build, code, flag) ==
  [build |-> build, code |-> code, at |-> 1, flags |-> flag,
   scancode |-> NONE, cur |-> NONE]

Init ==
  /\ stack \in {<<Frame(build, "main", FALSE)>> : build \in DOMAIN Code}
  /\ iflag = FALSE
  /\ LET realmode == stack[1].build \in RealModeBuilds IN
       /\ idtr = IF realmode THEN 256 ELSE 0
       /\ idt = [v \in Vector |-> IF realmode THEN "bios" ELSE "none"]
  /\ limit = 0
  /\ imr = {}
  /\ irr \in SUBSET {0}
  /\ isr = {}
  /\ icw = 0
  /\ offset = 8
  /\ saved = {}
  /\ system_time = 0 /\ until = 0 /\ edges = 0
  /\ speaker = FALSE
  /\ typed = 0 /\ loaded = 0
  /\ obf = NONE
  /\ handled = <<>>
  /\ cursor = 0

-----------------------------------------------------------------------------
(* The CPU *)

Top == Len(stack)
Running == stack[Top]
CodeOf(f) == Code[f.build][f.code]
Operation(f) == CodeOf(f)[f.at]
Here == Operation(Running)

(* The next operation is op with argument a.                               *)
Executes(op, a) == Here = <<op, a>>

Jump(d) == stack' = [stack EXCEPT ![Top].at = @ + d]
Advance == Jump(1)

(* In real mode vector 8 is the timer's once it is set.                    *)
HandlerOf(v) ==
  CASE v = 32 \/ (v = 8 /\ idt[v] = "int") -> "timer"
    [] v = 33 -> "keyboard"
    [] OTHER -> "trap"

(* What an interrupt or exception gate does: the flags are saved with the  *)
(* return address, and all but a trap gate clear the interrupt flag.       *)
Enter(v, resume) ==
  /\ stack' = Append([stack EXCEPT ![Top].at = resume],
                     Frame(Running.build, HandlerOf(v), iflag))
  /\ iflag' = (iflag /\ idt[v] = "trap")

Cli ==
  /\ Executes("cli", 0)
  /\ iflag' = FALSE
  /\ Advance
  /\ UNCHANGED <<idtr, limit, idt, pic, saved, timer, kbd, cursor>>

(* LoadIDT() is lidt, then sti.                                            *)
LoadIDT ==
  /\ Executes("lidt", 0)
  /\ idtr' = limit
  /\ Advance
  /\ UNCHANGED <<iflag, limit, idt, pic, saved, timer, kbd, cursor>>

Sti ==
  /\ Executes("sti", 0)
  /\ iflag' = TRUE
  /\ Advance
  /\ UNCHANGED <<idtr, limit, idt, pic, saved, timer, kbd, cursor>>

Iret ==
  /\ Executes("iret", 0)
  /\ stack' = SubSeq(stack, 1, Top - 1)
  /\ iflag' = Running.flags
  /\ UNCHANGED <<idtr, limit, idt, pic, saved, timer, kbd, cursor>>

(***************************************************************************)
(* The IDT in memory                                                       *)
(***************************************************************************)

(* memset of the whole table.                                              *)
ClearIDT ==
  /\ Executes("ClearIDT", 0)
  /\ idt' = [v \in Vector |-> "none"]
  /\ Advance
  /\ UNCHANGED <<iflag, idtr, limit, pic, saved, timer, kbd, cursor>>

(* The exceptions' gates: all of them in the long mode builds, vectors 0   *)
(* and 13 in protected mode.                                               *)
IDT_TrapGate ==
  /\ \E v \in Vector : Executes("IDT_TrapGate", v) /\ idt' = [idt EXCEPT ![v] = "trap"]
  /\ Advance
  /\ UNCHANGED <<iflag, idtr, limit, pic, saved, timer, kbd, cursor>>

(* Mutant of IDT_IntGate: the type of a trap gate.                         *)
IDT_IntGateAsTrap ==
  /\ \E v \in Vector : Executes("IDT_IntGate", v) /\ idt' = [idt EXCEPT ![v] = "trap"]
  /\ Advance
  /\ UNCHANGED <<iflag, idtr, limit, pic, saved, timer, kbd, cursor>>

(* The gates of the interrupts.                                            *)
IDT_IntGate ==
  /\ \E v \in Vector : Executes("IDT_IntGate", v) /\ idt' = [idt EXCEPT ![v] = "int"]
  /\ Advance
  /\ UNCHANGED <<iflag, idtr, limit, pic, saved, timer, kbd, cursor>>

(* Real mode: the vector's address is stored.                              *)
SetVector ==
  /\ \E v \in Vector : Executes("SetVector", v) /\ idt' = [idt EXCEPT ![v] = "int"]
  /\ Advance
  /\ UNCHANGED <<iflag, idtr, limit, pic, saved, timer, kbd, cursor>>

(* idtr->limit is the size of that many entries, minus 1.                  *)
SetLimit ==
  /\ Here[1] = "limit"
  /\ limit' = Here[2]
  /\ Advance
  /\ UNCHANGED <<iflag, idtr, idt, pic, saved, timer, kbd, cursor>>

-----------------------------------------------------------------------------
(* The PIC *)

(* The request with the highest priority, unless one as urgent is being    *)
(* served.                                                                 *)
Requested(i) ==
  /\ i \in irr \ imr
  /\ \A j \in irr \ imr : i <= j
  /\ \A j \in isr : i < j

(* INTA: the CPU takes the request between two operations.                 *)
Deliver(i) ==
  /\ iflag
  /\ Requested(i)
  /\ offset + i \in Vector
  /\ irr' = irr \ {i}
  /\ isr' = isr \cup {i}
  /\ Enter(offset + i, Running.at)
  /\ UNCHANGED <<idtr, limit, idt, imr, icw, offset, saved, timer, kbd, cursor>>

(* A byte written to PIC1_DATA: an initialisation word while the PIC waits *)
(* for one, else the mask.                                                 *)
OutData(value) ==
  /\ IF icw = 0 THEN imr' = value /\ UNCHANGED <<icw, offset>>
     ELSE /\ offset' = IF icw = 2 THEN value ELSE offset
          /\ icw' = IF icw = 4 THEN 0 ELSE icw + 1
          /\ UNCHANGED imr
  /\ Advance
  /\ UNCHANGED <<irr, isr, saved, cpu, timer, kbd, cursor>>

(* inb(PIC1_DATA), by PIC_OffsetIRQ(), PIC_UnmaskIRQ() and PIC_MaskIRQ().  *)
InMask ==
  /\ Executes("InMask", 0)
  /\ saved' = imr
  /\ Advance
  /\ UNCHANGED <<cpu, pic, timer, kbd, cursor>>

(* ICW1 clears the mask, the request and in-service registers and resets   *)
(* edge detection: a line that is high already requests nothing.           *)
ICW1 ==
  /\ Executes("ICW1", 0)
  /\ imr' = {} /\ irr' = {} /\ isr' = {}
  /\ icw' = 2
  /\ Advance
  /\ UNCHANGED <<offset, saved, cpu, timer, kbd, cursor>>

ICW2 == Here[1] = "ICW2" /\ OutData(Here[2])
ICW3 == Executes("ICW3", 0) /\ OutData({2})
ICW4 == Executes("ICW4", 0) /\ OutData({})
RestoreMasks == Executes("RestoreMasks", 0) /\ OutData(saved)
PIC_MaskAllIRQ == Executes("PIC_MaskAllIRQ", 0) /\ OutData(IRQ)

(* PIC_UnmaskIRQ(): the mask it read, without the bit.                     *)
OutUnmask == Here[1] = "OutUnmask" /\ OutData(saved \ {Here[2]})

(* PIC_MaskIRQ(): with the bit.                                            *)
OutMask == Here[1] = "OutMask" /\ OutData(saved \cup {Here[2]})

(* The non-specific EOI ends the most urgent interrupt in service.         *)
EOI ==
  /\ Executes("EOI", 0)
  /\ isr' = {j \in isr : \E k \in isr : k < j}
  /\ Advance
  /\ UNCHANGED <<imr, irr, icw, offset, saved, cpu, timer, kbd, cursor>>

-----------------------------------------------------------------------------
(* The timer *)

EdgeCap == USEC \div TICK + 1

(* Channel 0 of the PIT raises IRQ 0; a request that is pending absorbs it.*)
Tick ==
  /\ system_time < MaxTime \/ system_time < until
  /\ irr' = irr \cup {0}
  /\ edges' = IF edges < EdgeCap THEN edges + 1 ELSE edges
  /\ UNCHANGED <<stack, cpu, imr, isr, icw, offset, saved>>
  /\ UNCHANGED <<system_time, until, speaker, kbd, cursor>>

(* Mutant of AddTime: two ticks' worth.                                    *)
AddTimeTwice ==
  /\ Executes("AddTime", 0)
  /\ system_time' = system_time + 2 * TICK
  /\ Advance
  /\ UNCHANGED <<cpu, pic, saved, until, edges, speaker, kbd, cursor>>

AddTime ==
  /\ Executes("AddTime", 0)
  /\ system_time' = system_time + TICK
  /\ Advance
  /\ UNCHANGED <<cpu, pic, saved, until, edges, speaker, kbd, cursor>>

(* usleep(): the time to wait for.                                         *)
SleepBegin ==
  /\ Executes("usleep", 0)
  /\ until' = system_time + USEC
  /\ edges' = 0
  /\ Advance
  /\ UNCHANGED <<cpu, pic, saved, system_time, speaker, kbd, cursor>>

(* Mutant of SleepEnd: the loop waits for the very value.                  *)
SleepEndExact ==
  /\ Executes("wait", 0)
  /\ system_time = until
  /\ Advance
  /\ UNCHANGED <<cpu, pic, saved, timer, kbd, cursor>>

(* Its loop ends when the handler has moved system_time far enough.        *)
SleepEnd ==
  /\ Executes("wait", 0)
  /\ system_time >= until
  /\ Advance
  /\ UNCHANGED <<cpu, pic, saved, timer, kbd, cursor>>

Beep ==
  /\ Executes("Beep", 0)
  /\ speaker' = TRUE
  /\ Advance
  /\ UNCHANGED <<cpu, pic, saved, system_time, until, edges, kbd, cursor>>

(* NoSound() is the last operation of Menu()'s loop.                       *)
NoSound ==
  /\ Executes("NoSound", 0)
  /\ speaker' = FALSE
  /\ Jump(-4)
  /\ UNCHANGED <<cpu, pic, saved, system_time, until, edges, kbd, cursor>>

-----------------------------------------------------------------------------
(* The keyboard *)

PicInitialised == icw # 0 \/ offset # 8

(* A key is pressed or released.                                           *)
Type ==
  /\ typed < MaxKeys
  /\ EarlyKeys \/ PicInitialised
  /\ typed' = typed + 1
  /\ UNCHANGED <<stack, cpu, pic, saved, timer, loaded, obf, handled, cursor>>

(* The controller puts the next byte in its output buffer and raises IRQ 1.*)
LoadByte ==
  /\ obf = NONE
  /\ loaded < typed
  /\ loaded' = loaded + 1
  /\ obf' = loaded + 1
  /\ irr' = irr \cup {1}
  /\ UNCHANGED <<stack, cpu, imr, isr, icw, offset, saved, timer, typed, handled, cursor>>

(* ScanKeyboard(): the byte, if the status says there is one.  With none   *)
(* KeyboardHandlerM() does nothing more.                                   *)
ScanKeyboard ==
  /\ Executes("ScanKeyboard", 0)
  /\ obf' = NONE
  /\ stack' = [stack EXCEPT ![Top].scancode = obf,
                            ![Top].at = IF obf = NONE THEN @ + 4 ELSE @ + 1]
  /\ UNCHANGED <<cpu, pic, saved, timer, typed, loaded, handled, cursor>>

(* The bytes of the model are make and break codes in turn.                *)
IsMakeCode(b) == b % 2 = 1

(* KeyboardHandlerM() takes the byte; only a make code is echoed.          *)
TakeByte ==
  /\ Executes("TakeByte", 0)
  /\ handled' = Append(handled, Running.scancode)
  /\ Jump(IF IsMakeCode(Running.scancode) THEN 1 ELSE 3)
  /\ UNCHANGED <<cpu, pic, saved, timer, typed, loaded, obf, cursor>>

-----------------------------------------------------------------------------
(* The console: WriteText() reads the cursor first and sets it last. *)

GetTextCursor ==
  /\ Executes("GetTextCursor", 0)
  /\ stack' = [stack EXCEPT ![Top].cur = cursor, ![Top].at = @ + 1]
  /\ UNCHANGED <<cpu, pic, saved, timer, kbd, cursor>>

SetTextCursor ==
  /\ Executes("SetTextCursor", 0)
  /\ cursor' = Running.cur + 1
  /\ Advance
  /\ UNCHANGED <<cpu, pic, saved, timer, kbd>>

-----------------------------------------------------------------------------
(* Menu() of the long mode build, when getchar() has a character for it.   *)
MenuBeep ==
  /\ Executes("Menu", 1)
  /\ system_time < MaxTime
  /\ Advance
  /\ UNCHANGED <<cpu, pic, saved, timer, kbd, cursor>>

(* 'd' and 'p': a CPU exception in main().                                 *)
MenuFault ==
  /\ Executes("Menu", 1)
  /\ Enter(0, Running.at)
  /\ UNCHANGED <<idtr, limit, idt, pic, saved, timer, kbd, cursor>>

(* The real mode build's loop, when getchar() has an e or a d.             *)
Command ==
  /\ Here[1] = "Command"
  /\ Jump(1) \/ Jump(1 + Here[2])
  /\ UNCHANGED <<cpu, pic, saved, timer, kbd, cursor>>

Repeat ==
  /\ Here[1] = "Repeat"
  /\ Jump(-Here[2])
  /\ UNCHANGED <<cpu, pic, saved, timer, kbd, cursor>>

(* CPUExceptionHandler() never returns.                                    *)
Halted == Executes("halt", 0)

Program ==
  \/ Cli \/ LoadIDT \/ Sti \/ Iret
  \/ ClearIDT \/ IDT_TrapGate \/ IDT_IntGate \/ SetVector \/ SetLimit
  \/ InMask \/ ICW1 \/ ICW2 \/ ICW3 \/ ICW4
  \/ RestoreMasks \/ PIC_MaskAllIRQ \/ OutUnmask \/ OutMask \/ EOI
  \/ AddTime \/ SleepBegin \/ SleepEnd \/ Beep \/ NoSound
  \/ ScanKeyboard \/ TakeByte
  \/ GetTextCursor \/ SetTextCursor \/ Repeat

Interrupt == \E i \in IRQ : Deliver(i)

Next == Program \/ Interrupt \/ Tick \/ Type \/ LoadByte \/ MenuBeep \/ MenuFault \/ Command

Fairness ==
  /\ WF_vars(Program)
  /\ WF_vars(Interrupt)
  /\ WF_vars(Tick)
  /\ WF_vars(LoadByte)

Spec == Init /\ [][Next]_vars /\ Fairness

-----------------------------------------------------------------------------
StackFrame ==
  [build : DOMAIN Code, code : {"main", "timer", "keyboard", "trap"}, at : Nat,
   flags : BOOLEAN, scancode : 0 .. MaxKeys, cur : Nat]

(* The value of every variable is one the program or the hardware can      *)
(* store there, and no code runs past its end.                             *)
TypeOK ==
  /\ stack \in Seq(StackFrame) /\ stack # <<>>
  /\ \A k \in 1 .. Top :
       /\ stack[k].code \in DOMAIN Code[stack[k].build]
       /\ stack[k].at \in DOMAIN CodeOf(stack[k])
  /\ iflag \in BOOLEAN
  /\ idtr \in 0 .. 256 /\ limit \in 0 .. 256
  /\ idt \in [Vector -> {"none", "trap", "int", "bios"}]
  /\ {imr, irr, isr, saved} \subseteq SUBSET IRQ
  /\ icw \in {0, 2, 3, 4}
  /\ offset \in {8, 32}
  /\ system_time \in Nat /\ until \in Nat
  /\ edges \in 0 .. EdgeCap
  /\ speaker \in BOOLEAN
  /\ loaded \in 0 .. typed /\ typed \in 0 .. MaxKeys
  /\ obf \in 0 .. MaxKeys
  /\ handled \in Seq(1 .. MaxKeys)
  /\ cursor \in Nat

(* Whenever the CPU would take an interrupt, the PIC gives it the vector   *)
(* of the ISR written for that line, whose gate is present and within the  *)
(* limit last loaded.  The order of PIC_OffsetIRQ(), the masks, the gates, *)
(* the limit, lidt and sti is what this rests on.                          *)
InterruptsReachTheirISR ==
  \A i \in IRQ : iflag /\ Requested(i) =>
    /\ offset + i < idtr
    /\ idt[offset + i] # "none"
    /\ HandlerOf(offset + i) = IF i = 0 THEN "timer" ELSE "keyboard"

(* No interrupt handler is interrupted: they share the console, the        *)
(* keyboard state and the PIC's notion of what is in service.              *)
HandlersNotInterrupted ==
  \A k \in 1 .. Top - 1 : stack[k].code \notin Handlers

(* Every handler ends its interrupt: once none runs nothing is in service, *)
(* so no line stays blocked.                                               *)
ServiceEnds == Running.code \notin Handlers => isr = {}

(* The byte the handler that runs has read and not yet taken; that of a    *)
(* handler that was interrupted would be lost from the order below.        *)
InFlight ==
  IF Running.scancode # NONE /\ Here[1] \in {"ScanKeyboard", "TakeByte"}
  THEN <<Running.scancode>> ELSE <<>>

(* The bytes are taken in the order they were sent, none lost and none     *)
(* twice, across the controller's one-byte buffer and the handler.         *)
BytesInOrder ==
  handled \o InFlight \o (IF obf = NONE THEN <<>> ELSE <<obf>>)
    = [b \in 1 .. loaded |-> b]

(* WriteText() sets the cursor to where it found it plus what it wrote:    *)
(* nobody else wrote in between, although main(), the keyboard handler and *)
(* the exception handler all call it.                                      *)
ConsoleNotShared ==
  \A k \in 1 .. Top :
    Operation(stack[k])[1] = "SetTextCursor" => stack[k].cur = cursor

(* usleep() is at most one tick short: the tick it counts first may have   *)
(* begun before the call.                                                  *)
SleepOneTickShort == [][SleepEnd => (edges + 1) * TICK >= USEC]_vars

(* A beep ends: usleep() returns and NoSound() is called.                  *)
BeepEnds == speaker ~> ~speaker

(* Every byte the keyboard sends is taken, unless the CPU is halted.       *)
KeysHandled ==
  \A n \in 1 .. MaxKeys : typed >= n ~> (Len(handled) >= n \/ Halted)
=============================================================================
