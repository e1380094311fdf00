----------------------------- MODULE EntryStubs -----------------------------
(***************************************************************************)
(* The assembly code between an exception or an interrupt and the C code   *)
(* that handles it: libc/crt1.asm with include/asm/x86_64.asm and          *)
(* os/lm64/src/isr.asm (64 bits), os/pm32/src/handlers.asm with            *)
(* include/asm/x86.asm (32 bits), instruction by instruction.              *)
(*                                                                         *)
(* A register holds a value of a kind: what it held in the interrupted     *)
(* program, an address on the stack (in bytes, the interrupted program's   *)
(* stack pointer is about zero), an instruction pointer, and so on.  The   *)
(* stack is a function from the addresses written to values; the size of   *)
(* an item matters for the addresses only.                                 *)
(***************************************************************************)
EXTENDS Integers, FiniteSets, Sequences, SequencesExt

CONSTANTS Homes,     \* possible stack pointers of the program, in bytes
          StackWords \* words of the program's own stack, up to STACK_TOP

ASSUME StubsAssumption == Homes \subseteq Int /\ StackWords \in Nat

VARIABLES bits,   \* 64 or 32
          home,   \* the program's stack pointer when it was interrupted
          regs,   \* the CPU's registers
          stack,  \* the stack, a function from addresses
          raised, \* the vector of the exception under way
          dump    \* what the exception handler in C has printed
stubVars == <<bits, home, regs, stack, raised, dump>>

Program(r)  == <<"program", r>>  \* what register r holds in the program
Stack(n)    == <<"stack", n>>
Code(f, i)  == <<"code", f, i>>  \* instruction i of f
Flags(on)   == <<"flags", on>>   \* with the interrupt flag
Number(n)   == <<"number", n>>
Error(v)    == <<"error", v>>    \* the error code the CPU pushes for vector v
Word(a)     == <<"word", a>>     \* a word of the program's stack
Scratch     == <<"scratch", 0>>  \* whatever C code or nobody left there

(***************************************************************************)
(* The registers, and struct reg: the layout of the save area, which is    *)
(* struct cpu_reg of include/sys/x86.h.                                    *)
(***************************************************************************)
Segments == <<"es", "cs", "ss", "ds", "fs", "gs">>
Wide(b) ==
    IF b = 64
    THEN <<"rax", "rcx", "rdx", "rbx", "rsp", "rbp", "rsi", "rdi", "rflags",
           "rip", "r8", "r9", "r10", "r11", "r12", "r13", "r14", "r15",
           "cr0", "cr2", "cr3", "cr4", "cr8">>
    ELSE <<"eax", "ecx", "edx", "ebx", "esp", "ebp", "esi", "edi", "eflags",
           "eip", "cr0", "cr2", "cr3", "cr4">>
Fields(b)    == Wide(b) \o Segments
Registers(b) == ToSet(Fields(b))

Bytes(b) == b \div 8
Index(s, x) == CHOOSE i \in DOMAIN s : s[i] = x
Offset(b, r) ==
    IF r \in ToSet(Segments)
    THEN Bytes(b) * Len(Wide(b)) + 2 * (Index(Segments, r) - 1)
    ELSE Bytes(b) * (Index(Wide(b), r) - 1)
AreaSize32 == 68  \* reg.size of x86.asm, rounded up to four

\* What the C compiler does not preserve in a call.
CallerSaved(b) ==
    IF b = 64
    THEN {"rax", "rcx", "rdx", "rsi", "rdi", "r8", "r9", "r10", "r11"}
    ELSE {"eax", "ecx", "edx"}

Ip(b) == IF b = 64 THEN "rip" ELSE "eip"
Sp(b) == IF b = 64 THEN "rsp" ELSE "esp"
Fl(b) == IF b = 64 THEN "rflags" ELSE "eflags"

(***************************************************************************)
(* Instructions.                                                           *)
(***************************************************************************)
Push(r)            == [op |-> "push", reg |-> r, size |-> 0]  \* a machine word
Push2(r)           == [op |-> "push", reg |-> r, size |-> 2]
Pop(r)             == [op |-> "pop", reg |-> r]
Mov(to, from)      == [op |-> "mov", reg |-> to, from |-> from]
Set(to, value)     == [op |-> "set", reg |-> to, value |-> value]
Sub(r, n)          == [op |-> "sub", reg |-> r, n |-> n]
Load(to, base, n)  == [op |-> "load", reg |-> to, base |-> base, n |-> n]
Store(base, n, r)  == [op |-> "store", base |-> base, n |-> n, reg |-> r]
PushAt(base, n)    == [op |-> "pushat", base |-> base, n |-> n]  \* from memory
Cli                == [op |-> "cli"]
Call(f)            == [op |-> "call", fun |-> f]
Hlt                == [op |-> "hlt"]
Iret               == [op |-> "iret"]

Pushes(s) == [i \in DOMAIN s |-> Push(s[i])]
Pops(s)   == [i \in DOMAIN s |-> Pop(s[i])]
Movs(to, s) == [i \in DOMAIN s |-> Mov(to, s[i])]
Stores(b, base, s, r) == [i \in DOMAIN s |-> Store(base, Offset(b, s[i]), r)]

\* Two instructions for each item: the first loads a register, the second
\* puts it where the item belongs.
Alternately(s, t) ==
    [i \in 1 .. 2 * Len(s) |-> IF i % 2 = 1 THEN s[(i + 1) \div 2] ELSE t[i \div 2]]

\* pushall: the save area, from its last field to its first.
Controls64 == <<"cr8", "cr4", "cr3", "cr2", "cr0">>

PushAll(padding) ==
    <<Push("rax"), Sub("rsp", 12 + padding)>>
    \o Alternately(Movs("rax", Reverse(Segments)), [i \in DOMAIN Segments |-> Push2("rax")])
    \o Alternately(Movs("rax", Controls64), [i \in DOMAIN Controls64 |-> Push("rax")])
    \o Pushes(<<"r15", "r14", "r13", "r12", "r11", "r10", "r9", "r8">>)
    \o <<Sub("rsp", 16)>>
    \o Pushes(<<"rdi", "rsi", "rbp", "rsp", "rbx", "rdx", "rcx">>)
    \o <<Load("rax", "rsp", 200), Push("rax")>>

\* savisf: the fields the CPU pushed, copied over the ones of the handler.
Frame64 == <<"rip", "cs", "rflags", "rsp", "ss">>
SaveFrame64(area, base, n) ==
    Alternately([i \in DOMAIN Frame64 |-> Load("rax", base, n + 8 * (i - 1))],
                Stores(64, area, Frame64, "rax"))

Frame32 == <<"eip", "cs", "eflags">>
SaveFrame32(area, base, n) ==
    Alternately([i \in DOMAIN Frame32 |-> Load("eax", base, n + 4 * (i - 1))],
                Stores(32, area, Frame32, "eax"))

\* savregs of x86.asm: every field but eflags and eip.
General32  == <<"eax", "ecx", "edx", "ebx", "esp", "ebp", "esi", "edi">>
Controls32 == <<"cr0", "cr2", "cr3", "cr4">>
Others32   == Controls32 \o Segments
SaveRegisters32 ==
    [i \in DOMAIN General32 |-> Store("esp", Offset(32, General32[i]), General32[i])]
    \o Alternately(Movs("eax", Others32), Stores(32, "esp", Others32, "eax"))

(***************************************************************************)
(* The handlers.  What follows the call of CPUExceptionHandler is never    *)
(* reached and left out.                                                   *)
(***************************************************************************)
\* Mutant of Trap: without the padding that aligns the stack.
TrapUnpadded(vector) ==
    <<Cli, Push("rbp"), Mov("rbp", "rsp")>>
    \o PushAll(0)
    \o SaveFrame64("rsp", "rbp", 8)
    \o <<Mov("rdi", "rsp"), Set("rsi", Number(vector)), Set("rdx", Number(0)),
         Call("CPUExceptionHandler")>>

Trap(vector) ==
    <<Cli, Push("rbp"), Mov("rbp", "rsp")>>
    \o PushAll(8)
    \o SaveFrame64("rsp", "rbp", 8)
    \o <<Mov("rdi", "rsp"), Set("rsi", Number(vector)), Set("rdx", Number(0)),
         Call("CPUExceptionHandler")>>

\* Mutant of TrapErr: the error code under the frame is forgotten.
TrapErrNoCode(vector) ==
    <<Cli, Push("rbp"), Mov("rbp", "rsp")>>
    \o PushAll(0)
    \o SaveFrame64("rsp", "rbp", 8)
    \o <<Load("rax", "rbp", 0), Store("rsp", Offset(64, "rbp"), "rax"),
         Mov("rdi", "rsp"), Set("rsi", Number(vector)), Load("rdx", "rbp", 8),
         Call("CPUExceptionHandler")>>

\* Mutant of TrapErr: the error code is read from a word too high.
TrapErrCodeAbove(vector) ==
    <<Cli, Push("rbp"), Mov("rbp", "rsp")>>
    \o PushAll(0)
    \o SaveFrame64("rsp", "rbp", 16)
    \o <<Load("rax", "rbp", 0), Store("rsp", Offset(64, "rbp"), "rax"),
         Mov("rdi", "rsp"), Set("rsi", Number(vector)), Load("rdx", "rbp", 16),
         Call("CPUExceptionHandler")>>

TrapErr(vector) ==
    <<Cli, Push("rbp"), Mov("rbp", "rsp")>>
    \o PushAll(0)
    \o SaveFrame64("rsp", "rbp", 16)
    \o <<Load("rax", "rbp", 0), Store("rsp", Offset(64, "rbp"), "rax"),
         Mov("rdi", "rsp"), Set("rsi", Number(vector)), Load("rdx", "rbp", 8),
         Call("CPUExceptionHandler")>>

\* A handler that returns: it saves registers, works and restores them.
Handler(saves, work) == Pushes(saves) \o work \o Pops(Reverse(saves)) \o <<Iret>>

\* al is set for the EOI.
SystemTimerHandler == Handler(<<"rax">>, <<Set("rax", Scratch)>>)

\* Mutant of KeyboardSaves: r11 is not saved.
KeyboardSavesFewer == <<"rax", "rcx", "rdx", "rbx", "rsi", "rdi", "r8", "r9",
                        "r10">>
KeyboardSaves == <<"rax", "rcx", "rdx", "rbx", "rsi", "rdi", "r8", "r9",
                   "r10", "r11">>
KeyboardHandler ==
    Handler(KeyboardSaves, <<Call("KeyboardHandlerM"), Set("rax", Scratch)>>)

GPFaultHandler32 ==
    <<Cli, Push("ebp"), Mov("ebp", "esp"), Sub("esp", AreaSize32)>>
    \o SaveRegisters32
    \o SaveFrame32("esp", "ebp", 8)
    \o <<Mov("eax", "esp"), PushAt("ebp", 4), Push("eax"),
         Call("GPFaultHandlerM"), Sub("esp", -8), Cli, Hlt>>

DivbyzeroHandler32 ==
    <<Cli, Sub("esp", AreaSize32)>>
    \o SaveRegisters32
    \o SaveFrame32("esp", "esp", AreaSize32)
    \o <<Push("esp"), Call("DivbyzeroHandlerM"), Sub("esp", -4), Cli, Hlt>>

\* Mutant of TimerHandler32: eax is pushed and not popped.
TimerHandler32NoPop == <<Push("eax"), Set("eax", Scratch), Iret>>
TimerHandler32 == Handler(<<"eax">>, <<Set("eax", Scratch)>>)

KeyboardHandler32 ==
    Handler(<<"eax", "ecx", "edx">>, <<Set("eax", Scratch), Call("KeyboardHandlerM")>>)

\* The gates of _init_IDT (crt0.c) and InstallISRs, and of EnableInterrupts.
Vectors64 == (0 .. 19 \ {7, 9, 15}) \cup {32, 33}
Gates64 == [v \in Vectors64 |->
    CASE v = 0 -> "DivbyzeroHandler"       [] v = 1 -> "DebugHandler"
      [] v = 2 -> "NMIHandler"             [] v = 3 -> "BreakpointHandler"
      [] v = 4 -> "OverflowHandler"        [] v = 5 -> "BoundRangeHandler"
      [] v = 6 -> "InvalidOpcodeHandler"   [] v = 8 -> "DoubleFaultHandler"
      [] v = 10 -> "InvalidTSSHandler"     [] v = 11 -> "SegNotPresentHandler"
      [] v = 12 -> "StackSegFaultHandler"  [] v = 13 -> "GPFaultHandler"
      [] v = 14 -> "PageFaultHandler"      [] v = 16 -> "x87FPExceptHandler"
      [] v = 17 -> "AlignCheckHandler"     [] v = 18 -> "MachineCheckHandler"
      [] v = 19 -> "SIMDFPExceptHandler"
      [] v = 32 -> "SystemTimerHandler"    [] v = 33 -> "KeyboardHandler"]

Vectors32 == {0, 13, 32, 33}
Gates32 == [v \in Vectors32 |->
    CASE v = 0 -> "DivbyzeroHandler32"     [] v = 13 -> "GPFaultHandler32"
      [] v = 32 -> "TimerHandler32"        [] v = 33 -> "KeyboardHandler32"]

Gates == IF bits = 64 THEN Gates64 ELSE Gates32
IRQs  == {32, 33}  \* behind interrupt gates, the others behind trap gates

\* The labels of crt1.asm, isr.asm and handlers.asm.
Labels == {"DivbyzeroHandler", "DebugHandler", "NMIHandler", "BreakpointHandler",
           "OverflowHandler", "BoundRangeHandler", "InvalidOpcodeHandler",
           "DoubleFaultHandler", "InvalidTSSHandler", "SegNotPresentHandler",
           "StackSegFaultHandler", "GPFaultHandler", "PageFaultHandler",
           "x87FPExceptHandler", "AlignCheckHandler", "MachineCheckHandler",
           "SIMDFPExceptHandler", "SystemTimerHandler", "KeyboardHandler",
           "DivbyzeroHandler32", "GPFaultHandler32", "TimerHandler32",
           "KeyboardHandler32"}
Text == [f \in Labels |->
    CASE f = "DivbyzeroHandler" -> Trap(0)       [] f = "DebugHandler" -> Trap(1)
      [] f = "NMIHandler" -> Trap(2)             [] f = "BreakpointHandler" -> Trap(3)
      [] f = "OverflowHandler" -> Trap(4)        [] f = "BoundRangeHandler" -> Trap(5)
      [] f = "InvalidOpcodeHandler" -> Trap(6)   [] f = "DoubleFaultHandler" -> TrapErr(8)
      [] f = "InvalidTSSHandler" -> TrapErr(10)
      [] f = "SegNotPresentHandler" -> TrapErr(11)
      [] f = "StackSegFaultHandler" -> TrapErr(12)
      [] f = "GPFaultHandler" -> TrapErr(13)     [] f = "PageFaultHandler" -> TrapErr(14)
      [] f = "x87FPExceptHandler" -> Trap(16)    [] f = "AlignCheckHandler" -> TrapErr(17)
      [] f = "MachineCheckHandler" -> Trap(18)   [] f = "SIMDFPExceptHandler" -> Trap(19)
      [] f = "SystemTimerHandler" -> SystemTimerHandler
      [] f = "KeyboardHandler" -> KeyboardHandler
      [] f = "DivbyzeroHandler32" -> DivbyzeroHandler32
      [] f = "GPFaultHandler32" -> GPFaultHandler32
      [] f = "TimerHandler32" -> TimerHandler32
      [] f = "KeyboardHandler32" -> KeyboardHandler32]

\* The vectors for which the CPU pushes an error code.
ErrorVectors == {8, 10, 11, 12, 13, 14, 17}

(***************************************************************************)
(* The CPU.                                                                *)
(***************************************************************************)
Pc      == regs[Ip(bits)]
Top     == regs[Sp(bits)][2]
Running == Pc[1] = "code" /\ Pc[2] \in DOMAIN Text
Instr   == Text[Pc[2]][Pc[3]]
Idle    == Pc = Code("program", 0)
Halted  == Pc = Code("halt", 0)

Contents(m, a) == IF a \in DOMAIN m THEN m[a] ELSE Scratch
Read(a)     == Contents(stack, a)
At(base, n) == regs[base][2] + n

\* The stack with the words of f written over it.
Overlay(f) == [x \in DOMAIN f \cup DOMAIN stack |-> IF x \in DOMAIN f THEN f[x] ELSE stack[x]]
WriteTo(a, v) == Overlay([x \in {a} |-> v])
AndUp(m, a) == [x \in {y \in DOMAIN m : y >= a} |-> m[x]]

\* r is the state of the registers, the next instruction follows.
Advance(r) == regs' = [r EXCEPT ![Ip(bits)] = Code(@[2], @[3] + 1)]
SetReg(reg, value) == Advance([regs EXCEPT ![reg] = value])

NoVector == -1
NoDump   == [vector |-> Scratch, error |-> Scratch, shown |-> <<>>, stack |-> <<>>]

StubsInit(b) ==
    /\ bits = b
    /\ home \in Homes
    /\ regs = [r \in Registers(b) |->
                 CASE r = Ip(b) -> Code("program", 0)
                   [] r = Fl(b) -> Flags(TRUE)
                   [] r = Sp(b) -> Stack(home)
                   [] OTHER     -> Program(r)]
    /\ stack = [a \in {home + Bytes(b) * i : i \in 0 .. StackWords - 1} |-> Word(a)]
    /\ raised = NoVector
    /\ dump = NoDump

\* The CPU enters the gate of a vector: in long mode it aligns the stack
\* first; an interrupt gate clears the interrupt flag.
Pushed == IF bits = 64 THEN <<"ss", "rsp", "rflags", "cs", "rip">>
                       ELSE <<"eflags", "cs", "eip">>

EnterGate(v) ==
    LET base   == IF bits = 64 THEN Top - (Top % 16) ELSE Top
        saved  == [i \in DOMAIN Pushed |-> regs[Pushed[i]]]
        pushed == IF v \in ErrorVectors THEN Append(saved, Error(v)) ELSE saved
        top    == base - Bytes(bits) * Len(pushed)
    IN  /\ stack' = Overlay([a \in {base - Bytes(bits) * i : i \in DOMAIN pushed} |->
                              pushed[(base - a) \div Bytes(bits)]])
        /\ regs' = [regs EXCEPT ![Sp(bits)] = Stack(top),
                                ![Ip(bits)] = Code(Gates[v], 1),
                                ![Fl(bits)] = IF v \in IRQs THEN Flags(FALSE) ELSE @]

\* The program causes an exception.
Raise(v) ==
    /\ Idle
    /\ v \in DOMAIN Gates \ IRQs
    /\ EnterGate(v)
    /\ raised' = v
    /\ UNCHANGED <<bits, home, dump>>

\* The timer or the keyboard interrupts, which it may before a stub's cli.
Interrupt(v) ==
    /\ Idle \/ Running
    /\ regs[Fl(bits)] = Flags(TRUE)
    /\ v \in IRQs
    /\ EnterGate(v)
    /\ UNCHANGED <<bits, home, raised, dump>>

Execute(op) == Running /\ Instr.op = op

ExecPush ==
    /\ Execute("push")
    /\ LET a == Top - (IF Instr.size = 0 THEN Bytes(bits) ELSE Instr.size) IN
       /\ stack' = WriteTo(a, regs[Instr.reg])
       /\ SetReg(Sp(bits), Stack(a))
    /\ UNCHANGED <<bits, home, raised, dump>>

ExecPushAt ==
    /\ Execute("pushat")
    /\ LET a == Top - Bytes(bits) IN
       /\ stack' = WriteTo(a, Read(At(Instr.base, Instr.n)))
       /\ SetReg(Sp(bits), Stack(a))
    /\ UNCHANGED <<bits, home, raised, dump>>

ExecPop ==
    /\ Execute("pop")
    /\ Advance([regs EXCEPT ![Instr.reg] = Read(Top),
                            ![Sp(bits)] = Stack(Top + Bytes(bits))])
    /\ UNCHANGED <<bits, home, stack, raised, dump>>

\* mov, sub and add, and cli: only a register changes.
ExecRegister ==
    /\ \/ Execute("mov")  /\ SetReg(Instr.reg, regs[Instr.from])
       \/ Execute("set")  /\ SetReg(Instr.reg, Instr.value)
       \/ Execute("sub")  /\ SetReg(Instr.reg, Stack(At(Instr.reg, -Instr.n)))
       \/ Execute("load") /\ SetReg(Instr.reg, Read(At(Instr.base, Instr.n)))
       \/ Execute("cli")  /\ SetReg(Fl(bits), Flags(FALSE))
    /\ UNCHANGED <<bits, home, stack, raised, dump>>

ExecStore ==
    /\ Execute("store")
    /\ stack' = WriteTo(At(Instr.base, Instr.n), regs[Instr.reg])
    /\ Advance(regs)
    /\ UNCHANGED <<bits, home, raised, dump>>

ExecIret ==
    /\ Execute("iret")
    /\ LET w   == Bytes(bits)
           top == IF bits = 64 THEN Read(Top + 3 * w) ELSE Stack(Top + 3 * w)
       IN  /\ regs' = [r \in Registers(bits) |->
                         CASE r = Ip(bits) -> Read(Top)
                           [] r = "cs"     -> Read(Top + w)
                           [] r = Fl(bits) -> Read(Top + 2 * w)
                           [] r = Sp(bits) -> top
                           [] r = "ss" /\ bits = 64 -> Read(Top + 4 * w)
                           [] OTHER        -> regs[r]]
           /\ stack' = AndUp(stack, top[2])
    /\ UNCHANGED <<bits, home, raised, dump>>

(***************************************************************************)
(* The C functions.  A call leaves scratch in the registers the compiler   *)
(* does not preserve, and below the stack pointer.                         *)
(***************************************************************************)
CallKeyboardHandlerM ==
    /\ Execute("call") /\ Instr.fun = "KeyboardHandlerM"
    /\ Advance([r \in Registers(bits) |->
                  IF r \in CallerSaved(bits) THEN Scratch ELSE regs[r]])
    /\ stack' = AndUp(stack, Top)
    /\ UNCHANGED <<bits, home, raised, dump>>

\* DumpCPURegisters: the fields printed, one version for each word size.
Shown64(area) == [r \in Registers(64) |-> Read(area[2] + Offset(64, r))]
Shown32(area) == [r \in Registers(32) |-> Read(area[2] + Offset(32, r))]

\* DumpMem: at most twelve words, up to the top of the stack.
ShownStack(shown) ==
    LET rsp == shown["rsp"][2]
        top == home + Bytes(64) * StackWords
        n   == IF shown["rsp"][1] = "stack" THEN (top - rsp) \div 8 ELSE 0
    IN  [i \in 1 .. (IF 12 < n THEN 12 ELSE n) |-> Read(rsp + 8 * (i - 1))]

CallCPUExceptionHandler ==
    /\ Execute("call") /\ Instr.fun = "CPUExceptionHandler"
    /\ dump' = [vector |-> regs["rsi"], error |-> regs["rdx"],
                shown |-> Shown64(regs["rdi"]),
                stack |-> ShownStack(Shown64(regs["rdi"]))]
    /\ regs' = [regs EXCEPT !["rip"] = Code("halt", 0)]
    /\ UNCHANGED <<bits, home, stack, raised>>

\* The functions of pm32 return to their stub, which halts.
CallHandlerM ==
    /\ Execute("call") /\ Instr.fun \in {"GPFaultHandlerM", "DivbyzeroHandlerM"}
    /\ dump' = [vector |-> Number(IF Instr.fun = "GPFaultHandlerM" THEN 13 ELSE 0),
                error  |-> IF Instr.fun = "GPFaultHandlerM" THEN Read(Top + 4)
                                                            ELSE Number(0),
                shown  |-> Shown32(Read(Top)),
                stack  |-> <<>>]
    /\ Advance([r \in Registers(bits) |->
                  IF r \in CallerSaved(bits) THEN Scratch ELSE regs[r]])
    /\ UNCHANGED <<bits, home, stack, raised>>

\* hlt with interrupts off: the CPU stops.
ExecHlt ==
    /\ Execute("hlt")
    /\ regs[Fl(bits)] = Flags(FALSE)
    /\ regs' = [regs EXCEPT ![Ip(bits)] = Code("halt", 0)]
    /\ UNCHANGED <<bits, home, stack, raised, dump>>

StubStep ==
    \/ ExecPush \/ ExecPushAt \/ ExecPop \/ ExecRegister \/ ExecStore \/ ExecIret
    \/ CallKeyboardHandlerM \/ CallCPUExceptionHandler \/ CallHandlerM \/ ExecHlt

(***************************************************************************)
(* Properties.                                                             *)
(***************************************************************************)
StubsTypeOK ==
    /\ bits \in {32, 64}
    /\ home \in Homes
    /\ DOMAIN regs = Registers(bits)
    /\ Pc[1] = "code" /\ regs[Sp(bits)][1] = "stack"
    /\ DOMAIN stack \subseteq Int
    /\ raised \in {NoVector} \cup (DOMAIN Gates \ IRQs)

\* When a handler has returned, the program goes on with every register and
\* every word of its stack as they were, although C code ran in between and
\* a handler may itself have been interrupted (the pushes and pops of
\* KeyboardHandler, SystemTimerHandler and TimerHandler).
ProgramResumes ==
    Idle =>
      /\ \A r \in Registers(bits) \ {Ip(bits), Fl(bits), Sp(bits)} :
           regs[r] = Program(r)
      /\ regs[Fl(bits)] = Flags(TRUE) /\ Top = home
      /\ \A i \in 0 .. StackWords - 1 :
           Read(home + Bytes(bits) * i) = Word(home + Bytes(bits) * i)

\* The compiler's code relies on a stack aligned to 16 bytes at every call:
\* the exception stubs see to it with the padding of pushall ("save all regs
\* and align stack"), whatever the program's stack pointer was.
CallsAligned(funs) ==
    bits = 64 /\ Execute("call") /\ Instr.fun \in funs => Top % 16 = 0
ExceptionCallsAligned == CallsAligned({"CPUExceptionHandler"})

\* isr.asm pushes rbx because it "maintains 16 byte alignment".
KeyboardCallAligned == CallsAligned({"KeyboardHandlerM"})

\* The registers printed are those of the program at the fault, but for the
\* ones a stub mistakes: trap restores rax from the padding and takes its own
\* rbp, the stubs of pm32 save their own esp, and GPFaultHandler its own ebp.
Mistaken ==
    IF raised \notin DOMAIN Gates THEN {}
    ELSE IF bits = 32 THEN IF raised = 13 THEN {"esp", "ebp"} ELSE {"esp"}
    ELSE IF raised \in ErrorVectors THEN {} ELSE {"rax", "rbp"}

AtFault(r) ==
    CASE r = Ip(bits) -> Code("program", 0)
      [] r = Fl(bits) -> Flags(TRUE)
      [] r = Sp(bits) -> Stack(home)
      [] OTHER        -> Program(r)

ShowsFault(fields) ==
    dump # NoDump =>
      /\ \A r \in fields : dump.shown[r] = AtFault(r)
      /\ bits = 64 => dump.stack = [i \in 1 .. (IF 12 < StackWords THEN 12 ELSE StackWords) |->
                                      Word(home + 8 * (i - 1))]
DumpShowsFault == ShowsFault(Registers(bits) \ Mistaken)

\* "restore saved rax" (x86_64.asm:125).
DumpShowsRax == bits = 64 => ShowsFault({"rax"})

\* The message names the exception that was raised and its error code: the
\* gate, the vector given to the macro and the choice between trap and
\* traperr agree with what the CPU does.
PanicNamesException ==
    dump # NoDump =>
      /\ dump.vector = Number(raised)
      /\ dump.error = IF raised \in ErrorVectors THEN Error(raised) ELSE Number(0)

(***************************************************************************)
(* Why: what a stub has done when instruction i is its next.               *)
(***************************************************************************)
\* Nothing is written to the program's own stack.
StackKept ==
    \A i \in 0 .. StackWords - 1 :
      Read(home + Bytes(bits) * i) = Word(home + Bytes(bits) * i)

\* The base of the exception's frame, and the stack pointer its stub begins with.
Base     == IF bits = 64 THEN home - (home % 16) ELSE home
EntryTop == Base - Bytes(bits) * (Len(Pushed) + IF raised \in ErrorVectors THEN 1 ELSE 0)

FrameKept ==
    raised # NoVector =>
      /\ \A k \in DOMAIN Pushed : Read(Base - Bytes(bits) * k) = AtFault(Pushed[k])
      /\ raised \in ErrorVectors => Read(EntryTop) = Error(raised)

\* Where an interrupt may come: in the program, before the cli of a stub.
Before(r) ==
    CASE r = Ip(bits) /\ raised # NoVector -> Code(Gates[raised], 1)
      [] r = Sp(bits) /\ raised # NoVector -> Stack(EntryTop)
      [] OTHER -> AtFault(r)

Interruptible == \A r \in Registers(bits) : regs[r] = Before(r)

\* In the handler of an interrupt: the registers saved and not yet restored.
Saves(v) == IF v = 33 THEN IF bits = 64 THEN KeyboardSaves ELSE <<"eax", "ecx", "edx">>
                      ELSE IF bits = 64 THEN <<"rax">> ELSE <<"eax">>
Work(v)  == IF v = 33 THEN 2 ELSE 1

Saved(v, i) ==
    LET n == Len(Saves(v)) IN
    IF i <= n THEN i - 1 ELSE IF i <= n + Work(v) THEN n ELSE 2 * n + Work(v) + 1 - i

IrqBase == LET top == Before(Sp(bits))[2] IN IF bits = 64 THEN top - (top % 16) ELSE top
IrqTop  == IrqBase - Bytes(bits) * Len(Pushed)

InterruptedAt(v, i) ==
    /\ Pc = Code(Gates[v], i) /\ regs[Fl(bits)] = Flags(FALSE)
    /\ regs[Sp(bits)] = Stack(IrqTop - Bytes(bits) * Saved(v, i))
    /\ \A k \in DOMAIN Pushed : Read(IrqBase - Bytes(bits) * k) = Before(Pushed[k])
    /\ \A k \in 1 .. Saved(v, i) : Read(IrqTop - Bytes(bits) * k) = Before(Saves(v)[k])
    /\ \A r \in Registers(bits) \ {Ip(bits), Sp(bits), Fl(bits)} :
         (i > Len(Saves(v)) => \A k \in 1 .. Saved(v, i) : r # Saves(v)[k])
           => regs[r] = Before(r)

Interrupted ==
    \E v \in IRQs : \E i \in 1 .. 2 * Len(Saves(v)) + Work(v) + 1 : InterruptedAt(v, i)

\* In trap and traperr: the two differ by a word in their frames, which the
\* padding makes up for, and from instruction 56 on.
Area64 == Base - 272

TrapTop(i) ==
    CASE i <= 2       -> EntryTop
      [] i \in 3 .. 4 -> EntryTop - 8
      [] i = 5        -> EntryTop - 16
      [] i \in 6 .. 17  -> Base - 76 - 2 * ((i - 6) \div 2)
      [] i \in 18 .. 27 -> Base - 88 - 8 * ((i - 18) \div 2)
      [] i \in 28 .. 36 -> Base - 128 - 8 * (i - 28)
      [] i \in 37 .. 44 -> Base - 208 - 8 * (i - 37)
      [] i = 45       -> Base - 264
      [] OTHER        -> Area64

\* The register whose value rax carries to the save area.
Carried64(i) ==
    CASE i <= 5         -> "rax"
      [] i \in 6 .. 17  -> Segments[(19 - i) \div 2]
      [] i \in 18 .. 27 -> Controls64[(i - 17) \div 2]
      [] i \in 46 .. 55 -> Frame64[(i - 45) \div 2]
      [] i = 57         -> "rbp"
      [] OTHER          -> "rax"
Carries64(i) ==
    \/ i <= 5
    \/ i \in {7, 9, 11, 13, 15, 17, 19, 21, 23, 25, 27, 47, 49, 51, 53, 55}
    \/ i \in {45, 57} /\ raised \in ErrorVectors

\* The fields of the save area that do not hold what they are to hold yet.
Missing64(i) ==
    Mistaken \cup (IF i <= 47 THEN {"rip"} ELSE {})
             \cup (IF i <= 51 THEN {"rflags"} ELSE {})
             \cup (IF i <= 53 THEN {"rsp"} ELSE {})
             \cup (IF i <= 57 THEN {"rbp"} ELSE {})

Changed64(i) ==
    {"rip", "rsp", "rflags"} \cup (IF i > 3 THEN {"rbp"} ELSE {})
                             \cup (IF i > 5 THEN {"rax"} ELSE {})
                             \cup (IF i > 55 THEN {"rdi", "rsi", "rdx"} ELSE {})

\* The arguments of CPUExceptionHandler.
Arguments64(i) ==
    /\ i > 56 => regs["rdi"] = Stack(Area64)
    /\ i > 57 => regs["rsi"] = Number(raised)
    /\ i > 58 => regs["rdx"] = IF raised \in ErrorVectors THEN Error(raised) ELSE Number(0)

TrappedAt(i) ==
    /\ Pc = Code(Gates[raised], i) /\ regs["rflags"] = Flags(FALSE)
    /\ regs["rsp"] = Stack(TrapTop(i))
    /\ i > 3 => regs["rbp"] = Stack(EntryTop - 8)
    /\ i > 2 => Read(EntryTop - 8) = AtFault("rbp")
    /\ i > 4 => Read(EntryTop - 16) = AtFault("rax")
    /\ \A r \in Registers(64) \ Changed64(i) : regs[r] = AtFault(r)
    /\ Carries64(i) => regs["rax"] = AtFault(Carried64(i))
    /\ \A r \in Registers(64) \ Missing64(i) :
         i > 5 /\ Area64 + Offset(64, r) >= TrapTop(i)
           => Read(Area64 + Offset(64, r)) = AtFault(r)
    /\ Arguments64(IF raised \in ErrorVectors THEN i - 2 ELSE i)

Trapped ==
    /\ bits = 64 /\ raised \in DOMAIN Gates \ IRQs
    /\ \E i \in 2 .. (IF raised \in ErrorVectors THEN 61 ELSE 59) : TrappedAt(i)

\* In the stubs of pm32: GPFaultHandler has two more instructions in front
\* and keeps its frame pointer below the save area.
Extra  == IF raised = 13 THEN 2 ELSE 0
Area32 == EntryTop - AreaSize32 - 2 * Extra

\* The fields, in the order in which the stubs of pm32 store them.
Order32 == <<"eax", "ecx", "edx", "ebx", "esp", "ebp", "esi", "edi", "cr0", "cr2", "cr3",
             "cr4", "es", "cs", "ss", "ds", "fs", "gs", "eip", "cs", "eflags">>

\* With Extra taken off: how many fields of Order32 have been stored.
Stored32(j) ==
    CASE j <= 3        -> 0
      [] j \in 4 .. 11 -> j - 3
      [] j \in 12 .. 37 -> 8 + ((j - 11) \div 2)
      [] OTHER         -> 21

FaultTop(j) ==
    IF raised = 13
    THEN CASE j <= 0         -> EntryTop
           [] j \in 1 .. 2   -> EntryTop - 4
           [] j = 39         -> Area32 - 4
           [] j \in 40 .. 41 -> Area32 - 8
           [] OTHER          -> Area32
    ELSE CASE j <= 2         -> EntryTop
           [] j \in 38 .. 39 -> Area32 - 4
           [] OTHER          -> Area32

Changed32(j) ==
    {"eip", "esp", "eflags"} \cup (IF raised = 13 /\ j > 1 THEN {"ebp"} ELSE {})
                             \cup (IF j > 11 THEN {"eax"} ELSE {})

FaultedAt(i) ==
    LET j == i - Extra IN
    /\ Pc = Code(Gates[raised], i) /\ regs["eflags"] = Flags(FALSE)
    /\ regs["esp"] = Stack(FaultTop(j))
    /\ raised = 13 /\ j > 1 => regs["ebp"] = Stack(EntryTop - 4)
    /\ j <= 37 => \A r \in Registers(32) \ Changed32(j) : regs[r] = AtFault(r)
    /\ j \in 12 .. 36 /\ j % 2 = 0 => regs["eax"] = AtFault(Order32[(j + 6) \div 2])
    /\ \A k \in 1 .. Stored32(j) : Order32[k] \notin Mistaken
         => Read(Area32 + Offset(32, Order32[k])) = AtFault(Order32[k])
    /\ raised = 13 /\ j \in 38 .. 39 => regs["eax"] = Stack(Area32)
    /\ raised = 13 /\ j \in 39 .. 40 => Read(Area32 - 4) = Error(13)
    /\ raised = 13 /\ j = 40 => Read(Area32 - 8) = Stack(Area32)
    /\ raised = 0 /\ j = 38 => Read(Area32 - 4) = Stack(Area32)

Faulted ==
    /\ bits = 32 /\ raised \in DOMAIN Gates \ IRQs
    /\ \E i \in 2 .. (IF raised = 13 THEN 45 ELSE 41) : FaultedAt(i)

DumpKept ==
    /\ raised = NoVector => dump = NoDump
    /\ DumpShowsFault /\ PanicNamesException

StubsInv ==
    /\ StubsTypeOK /\ StackKept /\ FrameKept /\ DumpKept
    /\ Interruptible \/ Interrupted \/ Trapped \/ Faulted \/ Halted
=============================================================================
