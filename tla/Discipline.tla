----------------------------- MODULE Discipline -----------------------------
(***************************************************************************)
(* What the code of a build must obey for interrupts to be safe in it: a   *)
(* condition on the constant Code alone, and the invariant that holds of   *)
(* every build that obeys it (module InterruptsProofs).                    *)
(***************************************************************************)
EXTENDS Interrupts

(* Where an operation at n leads.                                          *)
Successors(op, n) ==
  CASE op[1] \in {"iret", "halt"} \/ op = <<"Menu", 0>> -> {}
    [] op[1] = "NoSound" -> {n - 4}
    [] op[1] = "Repeat" -> {n - op[2]}
    [] op[1] = "Command" -> {n + 1, n + 1 + op[2]}
    [] op[1] = "ScanKeyboard" -> {n + 1, n + 4}
    [] op[1] = "TakeByte" -> {n + 1, n + 3}
    [] OTHER -> {n + 1}

SetUpOps ==
  {"sti", "lidt", "limit", "ClearIDT", "IDT_TrapGate", "IDT_IntGate", "SetVector",
   "InMask", "ICW1", "ICW2", "ICW3", "ICW4",
   "RestoreMasks", "PIC_MaskAllIRQ", "OutUnmask", "OutMask"}
MainOps ==
  SetUpOps \cup {"cli", "GetTextCursor", "SetTextCursor", "usleep", "wait", "Beep",
                 "NoSound", "Menu", "Command", "Repeat"}
HandlerOps ==
  {"cli", "EOI", "AddTime", "ScanKeyboard", "TakeByte", "GetTextCursor",
   "SetTextCursor", "iret", "halt"}

Has(code, op) == \E n \in DOMAIN code : code[n][1] = op

(* The code never leaves its operations, and main() does not do what is    *)
(* for handlers, nor they what is for it.                                  *)
FlowOK(c, code) ==
  /\ code \in Seq(STRING \X Nat) /\ code # <<>>
  /\ \A n \in DOMAIN code :
       /\ code[n][1] \in IF c = "main" THEN MainOps ELSE HandlerOps
       /\ code[n][1] \in {"IDT_TrapGate", "IDT_IntGate", "SetVector"} => code[n][2] \in Vector
       /\ code[n][1] = "OutMask" => code[n][2] \in IRQ
       /\ Successors(code[n], n) \subseteq DOMAIN code

(* WriteText() sets the cursor right after it has read it, and the         *)
(* exception handlers, which can be interrupted, turn interrupts off first.*)
ConsoleCode(c, code) ==
  /\ code[1][1] # "SetTextCursor"
  /\ \A n \in DOMAIN code : \A m \in Successors(code[n], n) :
       code[m][1] = "SetTextCursor" => code[n] = <<"GetTextCursor", 0>>
  /\ c = "trap" /\ Has(code, "SetTextCursor") => code[1] = <<"cli", 0>>

(* An interrupt handler sends its EOI on every path to its iret.           *)
Acknowledged(code, n) == \E k \in 1 .. n - 1 : code[k] = <<"EOI", 0>>

AcknowledgesCode(code) ==
  \A n \in DOMAIN code :
    /\ code[n][1] = "iret" => Acknowledged(code, n)
    /\ code[n] # <<"EOI", 0>> =>
         \A m \in Successors(code[n], n) :
           Acknowledged(code, m) => Acknowledged(code, n)

(* Only the keyboard handler reads the controller, once, and it takes what *)
(* it read at once; only the timer handler counts, once.                   *)
ByteCode(c, code) ==
  /\ code[1][1] # "TakeByte"
  /\ \A n \in DOMAIN code :
       /\ code[n][1] \in {"ScanKeyboard", "TakeByte"} => c = "keyboard"
       /\ \A m \in Successors(code[n], n) :
            code[m][1] = "TakeByte" => code[n] = <<"ScanKeyboard", 0>> /\ m = n + 1
       /\ code[n][1] = "ScanKeyboard" =>
            /\ code[n + 1] = <<"TakeByte", 0>>
            /\ code[n + 4][1] # "TakeByte"
       /\ \A k \in DOMAIN code :
            code[n][1] = "ScanKeyboard" /\ code[k][1] = "ScanKeyboard" => k = n

TimeCode(c, code) ==
  \A n \in DOMAIN code : code[n][1] = "AddTime" =>
    /\ c = "timer"
    /\ \A k \in DOMAIN code : code[k][1] = "AddTime" => k = n

(* usleep() computes the time to wait for before it waits.                 *)
SleepCode(code) ==
  /\ code[1][1] # "wait"
  /\ \A n \in DOMAIN code : \A m \in Successors(code[n], n) :
       code[m][1] = "wait" => code[n] = <<"usleep", 0>>

-----------------------------------------------------------------------------
(* What main() has set up before its n-th operation, as far as the code    *)
(* tells: masks are those known to be set, and interrupts are off for sure *)
(* unless "on".                                                            *)
Start(b) ==
  [on |-> FALSE, masked |-> {}, read |-> {}, icw |-> 0, offset |-> 8, limit |-> 0,
   idtr |-> IF b \in RealModeBuilds THEN 256 ELSE 0,
   idt |-> [v \in Vector |-> IF b \in RealModeBuilds THEN "bios" ELSE "none"]]

Effect(s, op) ==
  CASE op[1] = "cli" -> [s EXCEPT !.on = FALSE]
    [] op[1] = "sti" -> [s EXCEPT !.on = TRUE]
    [] op[1] = "lidt" -> [s EXCEPT !.idtr = s.limit]
    [] op[1] = "limit" -> [s EXCEPT !.limit = op[2]]
    [] op[1] = "ClearIDT" -> [s EXCEPT !.idt = [v \in Vector |-> "none"]]
    [] op[1] = "IDT_TrapGate" -> [s EXCEPT !.idt[op[2]] = "trap"]
    [] op[1] \in {"IDT_IntGate", "SetVector"} -> [s EXCEPT !.idt[op[2]] = "int"]
    [] op[1] = "InMask" -> [s EXCEPT !.read = s.masked]
    [] op[1] = "ICW1" -> [s EXCEPT !.masked = {}, !.icw = 2]
    [] op[1] = "ICW2" -> [s EXCEPT !.offset = op[2], !.icw = 3]
    [] op[1] = "ICW3" -> [s EXCEPT !.icw = 4]
    [] op[1] = "ICW4" -> [s EXCEPT !.icw = 0]
    [] op[1] = "RestoreMasks" -> [s EXCEPT !.masked = s.read]
    [] op[1] = "PIC_MaskAllIRQ" -> [s EXCEPT !.masked = IRQ]
    [] op[1] = "OutUnmask" -> [s EXCEPT !.masked = s.read \ {op[2]}]
    [] op[1] = "OutMask" -> [s EXCEPT !.masked = s.read \cup {op[2]}]
    [] OTHER -> s

(* The operations from the first on, as if there were no jumps: SetUpOK    *)
(* says that jumps lead to where no more is known.                         *)
SetUpBefore[b \in DOMAIN Code, n \in Nat] ==
  IF n <= 1 THEN Start(b)
  ELSE LET s == SetUpBefore[b, n - 1] IN Effect(s, Code[b].main[n - 1])
SetUp(b, n) == SetUpBefore[b, n]

SetUpState ==
  [on : BOOLEAN, masked : SUBSET IRQ, read : SUBSET IRQ, icw : {0, 2, 3, 4},
   offset : {8, 32}, limit : 0 .. 256, idtr : 0 .. 256,
   idt : [Vector -> {"none", "trap", "int", "bios"}]]

(* What is known in s leaves nothing of t unknown.                         *)
Covers(t, s) ==
  /\ s.on => t.on
  /\ t.masked \subseteq s.masked /\ t.read \subseteq s.read
  /\ t.icw = s.icw /\ t.offset = s.offset
  /\ t.limit = s.limit /\ t.idtr = s.idtr /\ t.idt = s.idt

(* The initialisation word the PIC waits for when the operation writes to  *)
(* its data port.                                                          *)
ExpectedWord(op) ==
  CASE op[1] = "ICW2" -> 2 [] op[1] = "ICW3" -> 3 [] op[1] = "ICW4" -> 4 [] OTHER -> 0
DataOps ==
  {"ICW2", "ICW3", "ICW4", "RestoreMasks", "PIC_MaskAllIRQ", "OutUnmask", "OutMask"}

(* The keyboard's line counts only where bytes can arrive.                 *)
Lines(b) ==
  IF EarlyKeys \/ \E n \in DOMAIN Code[b].main :
                    SetUp(b, n).icw # 0 \/ SetUp(b, n).offset # 8
  THEN IRQ ELSE {0}

IsrOf(i) == IF i = 0 THEN "timer" ELSE "keyboard"

(* Line i may interrupt: its handler's gate is in place, and no one writes *)
(* to the console if the handler does.                                     *)
LineOK(b, s, op, i) ==
  /\ s.offset + i \in Vector /\ s.offset + i < s.idtr
  /\ s.idt[s.offset + i] = "int"
  /\ s.offset = 32 \/ i = 0
  /\ IsrOf(i) \in DOMAIN Code[b]
  /\ op[1] = "SetTextCursor" => ~Has(Code[b][IsrOf(i)], "SetTextCursor")

SetUpOK(b) ==
  /\ SetUp(b, 1) = Start(b)
  /\ \A n \in DOMAIN Code[b].main :
       LET s == SetUp(b, n)
           op == Code[b].main[n] IN
         /\ s \in SetUpState
         /\ op[1] \in DataOps => s.icw = ExpectedWord(op)
         /\ \A m \in Successors(op, n) : Covers(SetUp(b, m), Effect(s, op))
         /\ s.on => \A i \in Lines(b) \ s.masked : LineOK(b, s, op, i)

(* The builds of the repository do: TLC evaluates this in every run of the *)
(* invariant below.                                                        *)
Disciplined ==
  \A b \in DOMAIN Code :
    /\ {"main", "timer", "trap"} \subseteq DOMAIN Code[b]
    /\ DOMAIN Code[b] \subseteq {"main", "timer", "keyboard", "trap"}
    /\ \A c \in DOMAIN Code[b] :
         LET code == Code[b][c] IN
           /\ FlowOK(c, code)
           /\ ConsoleCode(c, code)
           /\ c \in Handlers => AcknowledgesCode(code)
           /\ ByteCode(c, code)
           /\ TimeCode(c, code)
           /\ SleepCode(code)
    /\ SetUpOK(b)

-----------------------------------------------------------------------------
(* The invariant.  A handler may run on top of main() or of an exception   *)
(* handler that main() caused in Menu().                                   *)
Shape ==
  /\ Top \in 1 .. 3
  /\ \A k \in 1 .. Top : stack[k].build = stack[1].build
  /\ stack[1].code = "main"
  /\ Top >= 2 => stack[2].code \in Handlers \cup {"trap"}
  /\ Top >= 2 /\ stack[2].code = "trap" => Operation(stack[1])[1] = "Menu"
  /\ Top = 3 => stack[2].code = "trap" /\ stack[3].code \in Handlers

(* What main() has set up, seen from where it is.                          *)
Now == SetUp(stack[1].build, stack[1].at)

SetUpHolds ==
  /\ Now.masked \subseteq imr /\ Now.read \subseteq saved
  /\ icw = Now.icw /\ offset = Now.offset
  /\ limit = Now.limit /\ idtr = Now.idtr /\ idt = Now.idt
  /\ irr \subseteq Lines(stack[1].build)
  /\ typed > 0 => Lines(stack[1].build) = IRQ

(* The interrupt flag while the k-th frame runs.                           *)
FlagAt(k) == IF k = Top THEN iflag ELSE stack[k + 1].flags

FlagsOK ==
  \A k \in 1 .. Top :
    /\ FlagAt(k) => Now.on
    /\ stack[k].code \in Handlers => ~FlagAt(k)
    /\ stack[k].code = "trap" /\ stack[k].at > 1 /\ Code[stack[k].build].trap[1] = <<"cli", 0>>
         => ~FlagAt(k)

(* At most one interrupt is in service, that of the handler that runs.     *)
ServiceOK ==
  /\ \A i, j \in isr : i = j
  /\ isr # {} =>
       /\ Running.code \in Handlers
       /\ ~Acknowledged(CodeOf(Running), Running.at)

(* Who interrupts a write to the console does not write to it.             *)
ConsoleOK ==
  \A k \in 1 .. Top :
    Operation(stack[k])[1] = "SetTextCursor" =>
      /\ stack[k].cur = cursor
      /\ k < Top => k = Top - 1 /\ ~Has(CodeOf(Running), "SetTextCursor")

(* The code of frame f has such an operation to come.                      *)
Ahead(f, op) == \E n \in f.at .. Len(CodeOf(f)) : CodeOf(f)[n][1] = op

(* Each byte is in one place: taken, in the handler or in the controller.  *)
BytesOK ==
  /\ \A k \in 1 .. Top : Ahead(stack[k], "ScanKeyboard") => stack[k].scancode = NONE
  /\ Operation(Running)[1] = "TakeByte" => Running.scancode # NONE
  /\ BytesInOrder

(* Ticks that came and are not counted yet.                                *)
Uncounted ==
  (IF 0 \in irr THEN 1 ELSE 0)
    + IF Running.code = "timer" /\ Ahead(Running, "AddTime") THEN 1 ELSE 0

(* While main() sleeps, the ticks since then and one more account for the  *)
(* time counted.                                                           *)
SleepOK ==
  Operation(stack[1])[1] = "wait" =>
    \/ edges = EdgeCap
    \/ system_time + TICK * Uncounted <= until - USEC + (edges + 1) * TICK

IInv ==
  /\ Disciplined
  /\ TypeOK
  /\ Shape /\ SetUpHolds /\ FlagsOK /\ ServiceOK /\ ConsoleOK /\ BytesOK /\ SleepOK
=============================================================================
