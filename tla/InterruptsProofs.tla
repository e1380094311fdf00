-------------------------- MODULE InterruptsProofs --------------------------
(***************************************************************************)
(* Interrupts are safe in every build whose code is disciplined, for every *)
(* length of that code, every tick, every sleep and any number of bytes.   *)
(*                                                                         *)
(* A step leaves the stack alone, moves the code that runs, pushes a       *)
(* handler or pops one; each part of the invariant is shown to survive     *)
(* these, and what a move does beside is looked up in the operation.       *)
(***************************************************************************)
EXTENDS Discipline, SequenceTheorems, TLAPS

(* The part of TypeOK about the code that runs.                            *)
StackOK ==
  /\ stack \in Seq(StackFrame) /\ stack # <<>>
  /\ \A k \in 1 .. Top :
       /\ stack[k].code \in DOMAIN Code[stack[k].build]
       /\ stack[k].at \in DOMAIN CodeOf(stack[k])

-----------------------------------------------------------------------------
(* The code *)

LEMMA CodeFacts ==
  ASSUME Disciplined, NEW b \in DOMAIN Code, NEW c \in DOMAIN Code[b]
  PROVE  /\ FlowOK(c, Code[b][c])
         /\ ConsoleCode(c, Code[b][c])
         /\ c \in Handlers => AcknowledgesCode(Code[b][c])
         /\ ByteCode(c, Code[b][c])
         /\ TimeCode(c, Code[b][c])
         /\ SleepCode(Code[b][c])
BY DEF Disciplined

(* A handler's code only moves forward.                                    *)
LEMMA HandlersMoveForward ==
  ASSUME NEW op \in STRING \X Nat, op[1] \in HandlerOps, NEW n \in Nat,
         NEW m \in Successors(op, n)
  PROVE  m \in Nat /\ m > n
<1>1. op[1] \notin {"NoSound", "Repeat", "Command"}
  BY DEF HandlerOps
<1> QED
  BY <1>1 DEF Successors

(* The code that runs, where it is and where it may go.                    *)
LEMMA RunningFacts ==
  ASSUME StackOK, Disciplined
  PROVE  /\ Top \in Nat /\ Top >= 1 /\ DOMAIN stack = 1 .. Top
         /\ \A k \in 1 .. Top : stack[k] \in StackFrame
         /\ Running \in StackFrame
         /\ Running.code \in DOMAIN Code[Running.build]
         /\ CodeOf(Running) \in Seq(STRING \X Nat)
         /\ Running.at \in DOMAIN CodeOf(Running)
         /\ Running.at \in Nat \ {0}
         /\ Here \in STRING \X Nat
         /\ Here[1] \in IF Running.code = "main" THEN MainOps ELSE HandlerOps
         /\ Successors(Here, Running.at) \subseteq DOMAIN CodeOf(Running)
<1>1. Top \in Nat /\ Top >= 1 /\ DOMAIN stack = 1 .. Top
  BY DEF StackOK, Top
<1>2. \A k \in 1 .. Top : stack[k] \in StackFrame
  BY <1>1 DEF StackOK
<1>3. /\ Running \in StackFrame
      /\ Running.code \in DOMAIN Code[Running.build]
      /\ Running.at \in DOMAIN CodeOf(Running)
  BY <1>1, <1>2 DEF StackOK, Running
<1>4. Running.build \in DOMAIN Code
  BY <1>3 DEF StackFrame
<1>5. FlowOK(Running.code, CodeOf(Running))
  BY <1>3, <1>4, CodeFacts DEF CodeOf
<1>6. CodeOf(Running) \in Seq(STRING \X Nat)
  BY <1>5 DEF FlowOK
<1>7. /\ Running.at \in Nat \ {0}
      /\ Here \in STRING \X Nat
  BY <1>3, <1>6 DEF Here, Operation
<1>8. /\ Here[1] \in IF Running.code = "main" THEN MainOps ELSE HandlerOps
      /\ Successors(Here, Running.at) \subseteq DOMAIN CodeOf(Running)
  BY <1>3, <1>5 DEF FlowOK, Here, Operation
<1> QED
  BY <1>1, <1>2, <1>3, <1>6, <1>7, <1>8

-----------------------------------------------------------------------------
(* The stack *)

(* The code that runs goes on at m, with these bytes and this cursor.      *)
Moved(m, sc, c) ==
  /\ Top' = Top
  /\ \A k \in 1 .. Top : k # Top => stack'[k] = stack[k]
  /\ stack' \in Seq(StackFrame)
  /\ stack'[Top] = [build |-> Running.build, code |-> Running.code, at |-> m,
                    flags |-> Running.flags, scancode |-> sc, cur |-> c]

(* Another one starts, with the flags f saved.                             *)
Pushed(code, f) ==
  /\ Top' = Top + 1
  /\ \A k \in 1 .. Top : stack'[k] = stack[k]
  /\ stack' \in Seq(StackFrame)
  /\ stack'[Top + 1] = Frame(Running.build, code, f)

(* The code that runs ends.                                                *)
Popped ==
  /\ Top' = Top - 1
  /\ \A k \in 1 .. Top - 1 : stack'[k] = stack[k]
  /\ stack' \in Seq(StackFrame)

LEMMA FrameAt ==
  ASSUME NEW f \in StackFrame, NEW n \in Nat
  PROVE  /\ [f EXCEPT !.at = n] \in StackFrame
         /\ [f EXCEPT !.at = n] =
              [build |-> f.build, code |-> f.code, at |-> n,
               flags |-> f.flags, scancode |-> f.scancode, cur |-> f.cur]
BY DEF StackFrame

LEMMA FrameScans ==
  ASSUME NEW f \in StackFrame, NEW sc \in 0 .. MaxKeys
  PROVE  /\ [f EXCEPT !.scancode = sc] \in StackFrame
         /\ [f EXCEPT !.scancode = sc] =
              [build |-> f.build, code |-> f.code, at |-> f.at,
               flags |-> f.flags, scancode |-> sc, cur |-> f.cur]
BY DEF StackFrame

LEMMA FrameReads ==
  ASSUME NEW f \in StackFrame, NEW c \in Nat
  PROVE  /\ [f EXCEPT !.cur = c] \in StackFrame
         /\ [f EXCEPT !.cur = c] =
              [build |-> f.build, code |-> f.code, at |-> f.at,
               flags |-> f.flags, scancode |-> f.scancode, cur |-> c]
BY DEF StackFrame

LEMMA JumpMoves ==
  ASSUME StackOK, Disciplined, NEW d \in Int, Jump(d), Running.at + d \in Nat
  PROVE  Moved(Running.at + d, Running.scancode, Running.cur)
<1>1. /\ Running \in StackFrame /\ Running.at \in Nat /\ stack \in Seq(StackFrame)
      /\ Top = Len(stack) /\ Top \in 1 .. Len(stack)
  BY RunningFacts DEF StackOK, Top
<1> DEFINE f == [Running EXCEPT !.at = Running.at + d]
<1>2. /\ f \in StackFrame
      /\ f = [build |-> Running.build, code |-> Running.code, at |-> Running.at + d,
              flags |-> Running.flags, scancode |-> Running.scancode, cur |-> Running.cur]
  BY <1>1, FrameAt
<1>3. stack' = [stack EXCEPT ![Top] = f]
  BY DEF Jump, Running
<1> HIDE DEF f
<1>4. stack' \in Seq(StackFrame) /\ Len(stack') = Len(stack)
  BY <1>1, <1>2, <1>3
<1> QED
  BY <1>1, <1>2, <1>3, <1>4 DEF Moved, Top

LEMMA EnterPushes ==
  ASSUME StackOK, Disciplined, NEW v, Enter(v, Running.at), iflag \in BOOLEAN,
         HandlerOf(v) \in {"timer", "keyboard", "trap"}
  PROVE  Pushed(HandlerOf(v), iflag)
<1>1. /\ Running \in StackFrame /\ Running.at \in Nat /\ stack \in Seq(StackFrame)
      /\ Top = Len(stack) /\ Top \in 1 .. Len(stack)
  BY RunningFacts DEF StackOK, Top
<1>2. [Running EXCEPT !.at = Running.at] = Running
  BY <1>1 DEF StackFrame
<1>3. [stack EXCEPT ![Top].at = Running.at] = stack
  BY <1>1, <1>2 DEF Running
<1> DEFINE f == Frame(Running.build, HandlerOf(v), iflag)
<1>4. f \in StackFrame
  BY <1>1, InterruptsAssumption DEF StackFrame, Frame, NONE
<1>5. stack' = Append(stack, f)
  BY <1>3 DEF Enter
<1> HIDE DEF f
<1>6. stack' \in Seq(StackFrame) /\ Len(stack') = Len(stack) + 1
  BY <1>1, <1>4, <1>5
<1>7. \A k \in 1 .. Top : stack'[k] = stack[k]
  BY <1>1, <1>5
<1>8. stack'[Top + 1] = f
  BY <1>1, <1>5
<1> QED
  BY <1>1, <1>6, <1>7, <1>8 DEF Pushed, f, Top

LEMMA IretPops ==
  ASSUME StackOK, Disciplined, Iret
  PROVE  Popped
<1>1. stack \in Seq(StackFrame) /\ Top = Len(stack) /\ Top - 1 \in 0 .. Len(stack)
  BY RunningFacts DEF StackOK, Top
<1>2. stack' = SubSeq(stack, 1, Top - 1)
  BY DEF Iret
<1>3. /\ stack' \in Seq(StackFrame) /\ Len(stack') = Top - 1
      /\ \A k \in 1 .. Top - 1 : stack'[k] = stack[k]
  BY <1>1, <1>2
<1> QED
  BY <1>1, <1>3 DEF Popped, Top

LEMMA ScanMoves ==
  ASSUME StackOK, Disciplined, obf \in 0 .. MaxKeys, ScanKeyboard
  PROVE  Moved(IF obf = NONE THEN Running.at + 4 ELSE Running.at + 1, obf, Running.cur)
<1>1. /\ Running \in StackFrame /\ Running.at \in Nat /\ stack \in Seq(StackFrame)
      /\ Top = Len(stack) /\ Top \in 1 .. Len(stack)
  BY RunningFacts DEF StackOK, Top
<1> DEFINE m == IF obf = NONE THEN Running.at + 4 ELSE Running.at + 1
           g == [Running EXCEPT !.scancode = obf]
           f == [g EXCEPT !.at = m]
<1>2. /\ f \in StackFrame
      /\ f = [build |-> Running.build, code |-> Running.code, at |-> m,
              flags |-> Running.flags, scancode |-> obf, cur |-> Running.cur]
  <2>1. /\ g \in StackFrame
        /\ g = [build |-> Running.build, code |-> Running.code, at |-> Running.at,
                flags |-> Running.flags, scancode |-> obf, cur |-> Running.cur]
    BY <1>1, FrameScans
  <2>2. m \in Nat
    BY <1>1
  <2> HIDE DEF g, m
  <2> QED
    BY <2>1, <2>2, FrameAt
<1>3. stack' = [stack EXCEPT ![Top] = f]
  BY <1>1 DEF ScanKeyboard, Running, StackFrame
<1> HIDE DEF f, m
<1>4. stack' \in Seq(StackFrame) /\ Len(stack') = Len(stack)
  BY <1>1, <1>2, <1>3
<1>5. Moved(m, obf, Running.cur)
  BY <1>1, <1>2, <1>3, <1>4 DEF Moved, Top
<1> QED
  BY <1>5 DEF m

LEMMA GetMoves ==
  ASSUME StackOK, Disciplined, cursor \in Nat, GetTextCursor
  PROVE  Moved(Running.at + 1, Running.scancode, cursor)
<1>1. /\ Running \in StackFrame /\ Running.at \in Nat /\ stack \in Seq(StackFrame)
      /\ Top = Len(stack) /\ Top \in 1 .. Len(stack)
  BY RunningFacts DEF StackOK, Top
<1> DEFINE g == [Running EXCEPT !.cur = cursor]
           f == [g EXCEPT !.at = Running.at + 1]
<1>2. /\ f \in StackFrame
      /\ f = [build |-> Running.build, code |-> Running.code, at |-> Running.at + 1,
              flags |-> Running.flags, scancode |-> Running.scancode, cur |-> cursor]
  <2>1. /\ g \in StackFrame
        /\ g = [build |-> Running.build, code |-> Running.code, at |-> Running.at,
                flags |-> Running.flags, scancode |-> Running.scancode, cur |-> cursor]
    BY <1>1, FrameReads
  <2>2. Running.at + 1 \in Nat
    BY <1>1
  <2> HIDE DEF g
  <2> QED
    BY <2>1, <2>2, FrameAt
<1>3. stack' = [stack EXCEPT ![Top] = f]
  BY <1>1 DEF GetTextCursor, Running, StackFrame
<1> HIDE DEF f
<1>4. stack' \in Seq(StackFrame) /\ Len(stack') = Len(stack)
  BY <1>1, <1>2, <1>3
<1> QED
  BY <1>1, <1>2, <1>3, <1>4 DEF Moved, Top

-----------------------------------------------------------------------------
(* What a move does beside, by the operation.  What main() sets up is in   *)
(* SetUpFollows below.                                                     *)
MovesTo(m) ==
  /\ m \in Successors(Here, Running.at)
  /\ Moved(m, IF Here[1] = "ScanKeyboard" THEN obf ELSE Running.scancode,
              IF Here[1] = "GetTextCursor" THEN cursor ELSE Running.cur)
  /\ Here[1] = "ScanKeyboard" =>
       m = IF obf = NONE THEN Running.at + 4 ELSE Running.at + 1
  /\ obf' = IF Here[1] = "ScanKeyboard" THEN NONE ELSE obf
  /\ handled' = IF Here[1] = "TakeByte" THEN Append(handled, Running.scancode) ELSE handled
  /\ typed' = typed /\ loaded' = loaded
  /\ cursor' = IF Here[1] = "SetTextCursor" THEN Running.cur + 1 ELSE cursor
  /\ iflag' = (Here[1] = "sti" \/ (iflag /\ Here[1] # "cli"))
  /\ irr' = IF Here[1] = "ICW1" THEN {} ELSE irr
  /\ isr' = IF Here[1] = "ICW1" THEN {}
            ELSE IF Here[1] = "EOI" THEN {j \in isr : \E k \in isr : k < j} ELSE isr
  /\ system_time' = IF Here[1] = "AddTime" THEN system_time + TICK ELSE system_time
  /\ until' = IF Here[1] = "usleep" THEN system_time + USEC ELSE until
  /\ edges' = IF Here[1] = "usleep" THEN 0 ELSE edges
  /\ speaker' \in BOOLEAN
  /\ Here[1] \notin SetUpOps => UNCHANGED <<idtr, limit, idt, imr, icw, offset, saved>>

(* The operations of Program but iret, MenuBeep and Command.               *)
Move ==
  \/ Cli \/ LoadIDT \/ Sti
  \/ ClearIDT \/ IDT_TrapGate \/ IDT_IntGate \/ SetVector \/ SetLimit
  \/ InMask \/ ICW1 \/ ICW2 \/ ICW3 \/ ICW4
  \/ RestoreMasks \/ PIC_MaskAllIRQ \/ OutUnmask \/ OutMask \/ EOI
  \/ AddTime \/ SleepBegin \/ SleepEnd \/ Beep \/ NoSound
  \/ ScanKeyboard \/ TakeByte
  \/ GetTextCursor \/ SetTextCursor \/ Repeat \/ MenuBeep \/ Command

LEMMA MovesOn ==
  ASSUME TypeOK, Disciplined, Move
  PROVE  \E m \in Nat : MovesTo(m)
<1> DEFINE n == Running.at
<1>1. /\ StackOK /\ obf \in 0 .. MaxKeys /\ cursor \in Nat /\ iflag \in BOOLEAN
      /\ speaker \in BOOLEAN
  BY DEF TypeOK, StackOK
<1>2. /\ n \in Nat /\ Here \in STRING \X Nat
      /\ Successors(Here, n) \subseteq Nat
  BY <1>1, RunningFacts
<1>3. ASSUME NEW d \in Int, Jump(d), n + d \in Successors(Here, n)
      PROVE  n + d \in Nat /\ Moved(n + d, Running.scancode, Running.cur)
  BY <1>1, <1>2, <1>3, JumpMoves
<1>4. ASSUME Advance, n + 1 \in Successors(Here, n)
      PROVE  n + 1 \in Nat /\ Moved(n + 1, Running.scancode, Running.cur)
  BY <1>3, <1>4 DEF Advance
<1> HIDE DEF n
<1>5. CASE Cli
  <2>1. n + 1 \in Successors(Here, n) /\ Advance
    BY <1>5, <1>2 DEF Cli, Executes, Successors
  <2> QED
    BY <1>5, <1>1, <1>4, <2>1 DEF Cli, Executes, MovesTo, SetUpOps, n, cpu, pic, timer, kbd
<1>6. CASE LoadIDT
  <2>1. n + 1 \in Successors(Here, n) /\ Advance
    BY <1>6, <1>2 DEF LoadIDT, Executes, Successors
  <2> QED
    BY <1>6, <1>1, <1>4, <2>1 DEF LoadIDT, Executes, MovesTo, SetUpOps, n, cpu, pic, timer, kbd
<1>7. CASE Sti
  <2>1. n + 1 \in Successors(Here, n) /\ Advance
    BY <1>7, <1>2 DEF Sti, Executes, Successors
  <2> QED
    BY <1>7, <1>1, <1>4, <2>1 DEF Sti, Executes, MovesTo, SetUpOps, n, cpu, pic, timer, kbd
<1>8. CASE ClearIDT
  <2>1. n + 1 \in Successors(Here, n) /\ Advance
    BY <1>8, <1>2 DEF ClearIDT, Executes, Successors
  <2> QED
    BY <1>8, <1>1, <1>4, <2>1 DEF ClearIDT, Executes, MovesTo, SetUpOps, n, cpu, pic, timer, kbd
<1>9. CASE IDT_TrapGate
  <2>1. n + 1 \in Successors(Here, n) /\ Advance
    BY <1>9, <1>2 DEF IDT_TrapGate, Executes, Successors
  <2> QED
    BY <1>9, <1>1, <1>4, <2>1 DEF IDT_TrapGate, Executes, MovesTo, SetUpOps, n, cpu, pic, timer, kbd
<1>10. CASE IDT_IntGate
  <2>1. n + 1 \in Successors(Here, n) /\ Advance
    BY <1>10, <1>2 DEF IDT_IntGate, Executes, Successors
  <2> QED
    BY <1>10, <1>1, <1>4, <2>1 DEF IDT_IntGate, Executes, MovesTo, SetUpOps, n, cpu, pic, timer, kbd
<1>11. CASE SetVector
  <2>1. n + 1 \in Successors(Here, n) /\ Advance
    BY <1>11, <1>2 DEF SetVector, Executes, Successors
  <2> QED
    BY <1>11, <1>1, <1>4, <2>1 DEF SetVector, Executes, MovesTo, SetUpOps, n, cpu, pic, timer, kbd
<1>12. CASE SetLimit
  <2>1. n + 1 \in Successors(Here, n) /\ Advance
    BY <1>12, <1>2 DEF SetLimit, Successors
  <2> QED
    BY <1>12, <1>1, <1>4, <2>1 DEF SetLimit, MovesTo, SetUpOps, n, cpu, pic, timer, kbd
<1>13. CASE InMask
  <2>1. n + 1 \in Successors(Here, n) /\ Advance
    BY <1>13, <1>2 DEF InMask, Executes, Successors
  <2> QED
    BY <1>13, <1>1, <1>4, <2>1 DEF InMask, Executes, MovesTo, SetUpOps, n, cpu, pic, timer, kbd
<1>14. CASE ICW1
  <2>1. n + 1 \in Successors(Here, n) /\ Advance
    BY <1>14, <1>2 DEF ICW1, Executes, Successors
  <2> QED
    BY <1>14, <1>1, <1>4, <2>1 DEF ICW1, Executes, MovesTo, SetUpOps, n, cpu, pic, timer, kbd
<1>15. CASE ICW2
  <2>1. n + 1 \in Successors(Here, n) /\ Advance
    BY <1>15, <1>2 DEF ICW2, OutData, Successors
  <2> QED
    BY <1>15, <1>1, <1>4, <2>1 DEF ICW2, OutData, MovesTo, SetUpOps, n, cpu, pic, timer, kbd
<1>16. CASE ICW3
  <2>1. n + 1 \in Successors(Here, n) /\ Advance
    BY <1>16, <1>2 DEF ICW3, Executes, OutData, Successors
  <2> QED
    BY <1>16, <1>1, <1>4, <2>1 DEF ICW3, Executes, OutData, MovesTo, SetUpOps, n, cpu, pic, timer, kbd
<1>17. CASE ICW4
  <2>1. n + 1 \in Successors(Here, n) /\ Advance
    BY <1>17, <1>2 DEF ICW4, Executes, OutData, Successors
  <2> QED
    BY <1>17, <1>1, <1>4, <2>1 DEF ICW4, Executes, OutData, MovesTo, SetUpOps, n, cpu, pic, timer, kbd
<1>18. CASE RestoreMasks
  <2>1. n + 1 \in Successors(Here, n) /\ Advance
    BY <1>18, <1>2 DEF RestoreMasks, Executes, OutData, Successors
  <2> QED
    BY <1>18, <1>1, <1>4, <2>1 DEF RestoreMasks, Executes, OutData, MovesTo, SetUpOps, n, cpu, pic, timer, kbd
<1>19. CASE PIC_MaskAllIRQ
  <2>1. n + 1 \in Successors(Here, n) /\ Advance
    BY <1>19, <1>2 DEF PIC_MaskAllIRQ, Executes, OutData, Successors
  <2> QED
    BY <1>19, <1>1, <1>4, <2>1 DEF PIC_MaskAllIRQ, Executes, OutData, MovesTo, SetUpOps, n, cpu, pic, timer, kbd
<1>20. CASE OutUnmask
  <2>1. n + 1 \in Successors(Here, n) /\ Advance
    BY <1>20, <1>2 DEF OutUnmask, OutData, Successors
  <2> QED
    BY <1>20, <1>1, <1>4, <2>1 DEF OutUnmask, OutData, MovesTo, SetUpOps, n, cpu, pic, timer, kbd
<1>21. CASE OutMask
  <2>1. n + 1 \in Successors(Here, n) /\ Advance
    BY <1>21, <1>2 DEF OutMask, OutData, Successors
  <2> QED
    BY <1>21, <1>1, <1>4, <2>1 DEF OutMask, OutData, MovesTo, SetUpOps, n, cpu, pic, timer, kbd
<1>22. CASE EOI
  <2>1. n + 1 \in Successors(Here, n) /\ Advance
    BY <1>22, <1>2 DEF EOI, Executes, Successors
  <2> QED
    BY <1>22, <1>1, <1>4, <2>1 DEF EOI, Executes, MovesTo, SetUpOps, n, cpu, pic, timer, kbd
<1>23. CASE AddTime
  <2>1. n + 1 \in Successors(Here, n) /\ Advance
    BY <1>23, <1>2 DEF AddTime, Executes, Successors
  <2> QED
    BY <1>23, <1>1, <1>4, <2>1 DEF AddTime, Executes, MovesTo, SetUpOps, n, cpu, pic, timer, kbd
<1>24. CASE SleepBegin
  <2>1. n + 1 \in Successors(Here, n) /\ Advance
    BY <1>24, <1>2 DEF SleepBegin, Executes, Successors
  <2> QED
    BY <1>24, <1>1, <1>4, <2>1 DEF SleepBegin, Executes, MovesTo, SetUpOps, n, cpu, pic, timer, kbd
<1>25. CASE SleepEnd
  <2>1. n + 1 \in Successors(Here, n) /\ Advance
    BY <1>25, <1>2 DEF SleepEnd, Executes, Successors
  <2> QED
    BY <1>25, <1>1, <1>4, <2>1 DEF SleepEnd, Executes, MovesTo, SetUpOps, n, cpu, pic, timer, kbd
<1>26. CASE Beep
  <2>1. n + 1 \in Successors(Here, n) /\ Advance
    BY <1>26, <1>2 DEF Beep, Executes, Successors
  <2> QED
    BY <1>26, <1>1, <1>4, <2>1 DEF Beep, Executes, MovesTo, SetUpOps, n, cpu, pic, timer, kbd
<1>27. CASE SetTextCursor
  <2>1. n + 1 \in Successors(Here, n) /\ Advance
    BY <1>27, <1>2 DEF SetTextCursor, Executes, Successors
  <2> QED
    BY <1>27, <1>1, <1>4, <2>1 DEF SetTextCursor, Executes, MovesTo, SetUpOps, n, cpu, pic, timer, kbd
<1>28. CASE MenuBeep
  <2>1. n + 1 \in Successors(Here, n) /\ Advance
    BY <1>28, <1>2 DEF MenuBeep, Executes, Successors
  <2> QED
    BY <1>28, <1>1, <1>4, <2>1 DEF MenuBeep, Executes, MovesTo, SetUpOps, n, cpu, pic, timer, kbd
<1>29. CASE NoSound
  <2>1. n + (-4) \in Successors(Here, n) /\ Jump(-4)
    BY <1>29, <1>2 DEF NoSound, Executes, Successors
  <2>2. n + (-4) \in Nat /\ Moved(n + (-4), Running.scancode, Running.cur)
    BY <1>3, <2>1
  <2>3. MovesTo(n + (-4))
    BY <1>29, <1>1, <2>1, <2>2 DEF NoSound, Executes, MovesTo, SetUpOps, n, cpu, pic, timer, kbd
  <2> QED
    BY <2>2, <2>3
<1>30. CASE Repeat
  <2>1. n + (-Here[2]) \in Successors(Here, n) /\ Jump(-Here[2]) /\ -Here[2] \in Int
    BY <1>30, <1>2 DEF Repeat, Successors
  <2> QED
    BY <1>30, <1>1, <1>3, <2>1 DEF Repeat, MovesTo, SetUpOps, n, cpu, pic, timer, kbd
<1>31. CASE Command
  <2>1. PICK d \in {1, 1 + Here[2]} : Jump(d)
    BY <1>31 DEF Command
  <2>2. n + d \in Successors(Here, n) /\ d \in Int
    BY <1>31, <1>2, <2>1 DEF Command, Successors
  <2> QED
    BY <1>31, <1>1, <1>3, <2>1, <2>2 DEF Command, MovesTo, SetUpOps, n, cpu, pic, timer, kbd
<1>32. CASE TakeByte
  <2>1. PICK d \in {1, 3} : Jump(d)
    BY <1>32 DEF TakeByte
  <2>2. n + d \in Successors(Here, n) /\ d \in Int
    BY <1>32, <1>2, <2>1 DEF TakeByte, Executes, Successors
  <2> QED
    BY <1>32, <1>1, <1>3, <2>1, <2>2
       DEF TakeByte, Executes, MovesTo, SetUpOps, n, cpu, pic, timer, kbd
<1>33. CASE ScanKeyboard
  <2>1. {n + 1, n + 4} = Successors(Here, n)
    BY <1>33, <1>2 DEF ScanKeyboard, Executes, Successors
  <2>2. Moved(IF obf = NONE THEN n + 4 ELSE n + 1, obf, Running.cur)
    BY <1>33, <1>1, ScanMoves DEF n
  <2> QED
    BY <1>33, <1>1, <1>2, <2>1, <2>2
       DEF ScanKeyboard, Executes, MovesTo, SetUpOps, n, cpu, pic, timer, kbd
<1>34. CASE GetTextCursor
  <2>1. n + 1 \in Successors(Here, n)
    BY <1>34, <1>2 DEF GetTextCursor, Executes, Successors
  <2>2. Moved(n + 1, Running.scancode, cursor)
    BY <1>34, <1>1, GetMoves DEF n
  <2> QED
    BY <1>34, <1>1, <1>2, <2>1, <2>2
       DEF GetTextCursor, Executes, MovesTo, SetUpOps, n, cpu, pic, timer, kbd
<1> QED
  BY <1>5, <1>6, <1>7, <1>8, <1>9, <1>10, <1>11, <1>12,
     <1>13, <1>14, <1>15, <1>16, <1>17, <1>18, <1>19, <1>20,
     <1>21, <1>22, <1>23, <1>24, <1>25, <1>26, <1>27, <1>28,
     <1>29, <1>30, <1>31, <1>32, <1>33, <1>34
     DEF Move

-----------------------------------------------------------------------------
(* The other steps of the CPU *)

LEMMA Typed ==
  ASSUME IInv
  PROVE  /\ StackOK /\ Disciplined /\ Shape
         /\ Top \in 1 .. 3 /\ DOMAIN stack = 1 .. Top
         /\ stack[1].build \in DOMAIN Code
         /\ Running.build = stack[1].build
         /\ Running.code = "main" <=> Top = 1
         /\ stack[1].code = "main" /\ "main" \in DOMAIN Code[stack[1].build]
         /\ stack[1].at \in DOMAIN Code[stack[1].build].main
         /\ Operation(stack[1]) = Code[stack[1].build].main[stack[1].at]
         /\ \A k \in 1 .. Top : stack[k] \in StackFrame
         /\ FlagAt(Top) = iflag
<1>1. StackOK /\ Disciplined /\ Shape /\ Top \in 1 .. 3
  BY DEF IInv, TypeOK, StackOK, Shape
<1>2. /\ DOMAIN stack = 1 .. Top
      /\ \A k \in 1 .. Top : stack[k] \in StackFrame
  BY <1>1, RunningFacts
<1>3. stack[1].build \in DOMAIN Code /\ Running.build = stack[1].build
  BY <1>1, <1>2 DEF Shape, Running, StackFrame
<1>4. Running.code = "main" <=> Top = 1
  BY <1>1 DEF Shape, Running, Handlers
<1>5. /\ stack[1].code = "main" /\ "main" \in DOMAIN Code[stack[1].build]
      /\ stack[1].at \in DOMAIN Code[stack[1].build].main
      /\ Operation(stack[1]) = Code[stack[1].build].main[stack[1].at]
  BY <1>1 DEF Shape, StackOK, CodeOf, Operation
<1> QED
  BY <1>1, <1>2, <1>3, <1>4, <1>5 DEF FlagAt

(* What SetUpOK says of the place where main() is.                         *)
LEMMA NowFacts ==
  ASSUME IInv
  PROVE  /\ Now \in SetUpState
         /\ Operation(stack[1])[1] \in DataOps => Now.icw = ExpectedWord(Operation(stack[1]))
         /\ \A m \in Successors(Operation(stack[1]), stack[1].at) :
              Covers(SetUp(stack[1].build, m), Effect(Now, Operation(stack[1])))
         /\ Now.on => \A i \in Lines(stack[1].build) \ Now.masked :
                        LineOK(stack[1].build, Now, Operation(stack[1]), i)
         /\ iflag => Now.on
<1>1. SetUpOK(stack[1].build)
  BY Typed DEF Disciplined
<1>2. iflag => Now.on
  <2>1. Top \in 1 .. Top /\ FlagAt(Top) = iflag /\ FlagsOK
    BY Typed DEF IInv
  <2> QED
    BY <2>1 DEF FlagsOK
<1> QED
  BY <1>1, <1>2, Typed DEF SetUpOK, Now

(* An interrupt is taken only while no handler runs, and starts its own.   *)
LEMMA Delivers ==
  ASSUME IInv, NEW i \in IRQ, Deliver(i)
  PROVE  /\ Running.code \notin Handlers /\ Top \in 1 .. 2
         /\ Top = 2 => Running.code = "trap"
         /\ Now.on
         /\ isr = {}
         /\ LineOK(stack[1].build, Now, Operation(stack[1]), i)
         /\ IsrOf(i) \in Handlers /\ IsrOf(i) \in DOMAIN Code[Running.build]
         /\ Pushed(IsrOf(i), TRUE) /\ iflag' = FALSE
<1>1. iflag /\ i \in irr /\ i \notin imr
  BY DEF Deliver, Requested
<1>2. Running.code \notin Handlers /\ Now.on
  <2>1. Top \in 1 .. Top /\ FlagAt(Top) /\ FlagsOK
    BY <1>1, Typed DEF IInv
  <2> QED
    BY <2>1 DEF FlagsOK, Running
<1>3. Top \in 1 .. 2 /\ (Top = 2 => Running.code = "trap")
  BY <1>2, Typed DEF Shape, Running
<1>4. isr = {}
  BY <1>2 DEF IInv, ServiceOK
<1>5. LineOK(stack[1].build, Now, Operation(stack[1]), i)
  <2>1. i \in Lines(stack[1].build) \ Now.masked
    BY <1>1 DEF IInv, SetUpHolds
  <2> QED
    BY <1>2, <2>1, NowFacts
<1>6. HandlerOf(offset + i) = IsrOf(i) /\ idt[offset + i] = "int"
  <2>1. idt = Now.idt /\ offset = Now.offset /\ offset \in {8, 32}
    BY DEF IInv, SetUpHolds, TypeOK
  <2> QED
    BY <1>5, <2>1 DEF LineOK, HandlerOf, IsrOf, IRQ
<1>7. IsrOf(i) \in Handlers
  BY DEF IsrOf, Handlers
<1>8. Pushed(IsrOf(i), TRUE) /\ iflag' = FALSE
  <2>1. Enter(offset + i, Running.at) /\ iflag \in BOOLEAN
    BY DEF Deliver, IInv, TypeOK
  <2>2. HandlerOf(offset + i) \in {"timer", "keyboard", "trap"}
    BY <1>6 DEF IsrOf
  <2>3. Pushed(HandlerOf(offset + i), iflag)
    BY <2>1, <2>2, Typed, EnterPushes
  <2> QED
    BY <1>1, <1>6, <2>1, <2>3 DEF Enter
<1> QED
  BY <1>2, <1>3, <1>4, <1>5, <1>7, <1>8, Typed DEF LineOK

LEMMA Faults ==
  ASSUME IInv, MenuFault
  PROVE  /\ Top = 1 /\ Here = <<"Menu", 1>> /\ Operation(stack[1]) = Here
         /\ isr = {}
         /\ "trap" \in DOMAIN Code[Running.build]
         /\ Pushed("trap", iflag) /\ iflag' \in BOOLEAN /\ (iflag' => iflag)
<1>1. Here = <<"Menu", 1>>
  BY DEF MenuFault, Executes
<1>2. Top = 1
  BY <1>1, Typed, RunningFacts DEF HandlerOps
<1>3. isr = {}
  BY <1>2, Typed DEF IInv, ServiceOK, Handlers
<1>4. "trap" \in DOMAIN Code[Running.build]
  BY Typed DEF Disciplined
<1>5. HandlerOf(0) = "trap" /\ iflag \in BOOLEAN
  BY DEF HandlerOf, IInv, TypeOK
<1>6. Pushed("trap", iflag) /\ iflag' \in BOOLEAN /\ (iflag' => iflag)
  BY <1>5, Typed, EnterPushes DEF MenuFault, Enter
<1> QED
  BY <1>1, <1>2, <1>3, <1>4, <1>6 DEF Here, Running

LEMMA Returns ==
  ASSUME IInv, Iret
  PROVE  /\ Top \in 2 .. 3 /\ Running.code # "main"
         /\ Popped /\ isr = {}
         /\ iflag' = FlagAt(Top - 1)
<1>1. Here = <<"iret", 0>>
  BY DEF Iret, Executes
<1>2. Running.code # "main"
  BY <1>1, Typed, RunningFacts DEF MainOps, SetUpOps
<1>3. Top \in 2 .. 3
  BY <1>2, Typed
<1>4. isr = {}
  <2>1. CASE Running.code \in Handlers
    <3>1. AcknowledgesCode(CodeOf(Running))
      BY <2>1, Typed, RunningFacts, CodeFacts DEF CodeOf
    <3>2. Acknowledged(CodeOf(Running), Running.at)
      BY <1>1, <3>1, Typed, RunningFacts DEF AcknowledgesCode, Here, Operation
    <3> QED
      BY <3>2 DEF IInv, ServiceOK
  <2> QED
    BY <2>1 DEF IInv, ServiceOK
<1>5. iflag' = FlagAt(Top - 1)
  BY <1>3 DEF Iret, FlagAt, Running
<1> QED
  BY <1>2, <1>3, <1>4, <1>5, Typed, IretPops

-----------------------------------------------------------------------------
(* Type and shape of the stack *)

LEMMA StackOfMove ==
  ASSUME IInv, NEW m \in Nat, MovesTo(m)
  PROVE  /\ Top' = Top /\ stack' \in Seq(StackFrame)
         /\ Running' = stack'[Top]
         /\ Running'.build = Running.build /\ Running'.code = Running.code
         /\ Running'.at = m /\ m \in DOMAIN CodeOf(Running)
         /\ CodeOf(Running)' = CodeOf(Running)
         /\ Running'.flags = Running.flags
         /\ Running'.scancode = IF Here[1] = "ScanKeyboard" THEN obf ELSE Running.scancode
         /\ Running'.cur = IF Here[1] = "GetTextCursor" THEN cursor ELSE Running.cur
         /\ \A k \in 1 .. Top : k # Top => stack'[k] = stack[k]
         /\ \A k \in 1 .. Top : /\ stack'[k].build = stack[k].build
                                /\ stack'[k].code = stack[k].code
                                /\ stack'[k].flags = stack[k].flags
<1>1. m \in DOMAIN CodeOf(Running)
  BY Typed, RunningFacts DEF MovesTo
<1>2. /\ Top' = Top /\ stack' \in Seq(StackFrame)
      /\ Running' = stack'[Top]
      /\ \A k \in 1 .. Top : k # Top => stack'[k] = stack[k]
  BY DEF MovesTo, Moved, Running
<1> DEFINE sc == IF Here[1] = "ScanKeyboard" THEN obf ELSE Running.scancode
           c == IF Here[1] = "GetTextCursor" THEN cursor ELSE Running.cur
<1>3. stack'[Top] = [build |-> Running.build, code |-> Running.code, at |-> m,
                     flags |-> Running.flags, scancode |-> sc, cur |-> c]
  BY DEF MovesTo, Moved
<1> HIDE DEF sc, c
<1>4. /\ Running'.build = Running.build /\ Running'.code = Running.code
      /\ Running'.at = m /\ Running'.flags = Running.flags
      /\ Running'.scancode = sc /\ Running'.cur = c
  BY <1>2, <1>3
<1>5. CodeOf(Running)' = CodeOf(Running)
  BY <1>4 DEF CodeOf
<1>6. \A k \in 1 .. Top : /\ stack'[k].build = stack[k].build
                          /\ stack'[k].code = stack[k].code
                          /\ stack'[k].flags = stack[k].flags
  BY <1>2, <1>4 DEF Running
<1> QED
  BY <1>1, <1>2, <1>4, <1>5, <1>6 DEF sc, c

LEMMA MoveKeepsStack ==
  ASSUME IInv, NEW m \in Nat, MovesTo(m)
  PROVE  StackOK' /\ Shape'
<1> DEFINE T == Top
<1>1. /\ Top' = T /\ T \in 1 .. 3 /\ stack' \in Seq(StackFrame)
      /\ stack'[T].at = m /\ m \in DOMAIN CodeOf(stack'[T])
      /\ \A k \in 1 .. T : k # T => stack'[k] = stack[k]
      /\ \A k \in 1 .. T : /\ stack'[k].build = stack[k].build
                           /\ stack'[k].code = stack[k].code
  BY StackOfMove, Typed DEF Running, CodeOf
<1>2. StackOK /\ Shape /\ Top = T
  BY Typed
<1> HIDE DEF T
<1>3. stack' # <<>>
  BY <1>1 DEF Top
<1>4. \A k \in 1 .. T : /\ stack'[k].code \in DOMAIN Code[stack'[k].build]
                        /\ stack'[k].at \in DOMAIN CodeOf(stack'[k])
  BY <1>1, <1>2 DEF StackOK, CodeOf
<1>5. StackOK'
  BY <1>1, <1>3, <1>4 DEF StackOK, CodeOf
<1>6. Shape'
  BY <1>1, <1>2 DEF Shape, Operation, CodeOf
<1> QED
  BY <1>5, <1>6

(* A handler or the exception handler that starts.                         *)
LEMMA PushKeepsStack ==
  ASSUME IInv, NEW c, NEW f \in BOOLEAN, Pushed(c, f),
         c \in DOMAIN Code[Running.build],
         \/ Top = 1 /\ c = "trap" /\ Operation(stack[1])[1] = "Menu"
         \/ Top \in 1 .. 2 /\ c \in Handlers /\ (Top = 2 => Running.code = "trap")
  PROVE  /\ StackOK' /\ Shape'
         /\ Running' = Frame(Running.build, c, f)
         /\ CodeOf(Running)' = Code[Running.build][c]
<1> DEFINE T == Top
           b == Running.build
<1>1. /\ Top' = T + 1 /\ stack' \in Seq(StackFrame) /\ T \in 1 .. 2
      /\ stack'[T + 1] = Frame(b, c, f)
      /\ \A k \in 1 .. T : stack'[k] = stack[k]
  BY DEF Pushed
<1>2. StackOK /\ Shape /\ Top = T /\ b \in DOMAIN Code /\ b = stack[1].build
  BY Typed
<1>3. FlowOK(c, Code[b][c])
  BY <1>2, CodeFacts, Typed
<1> HIDE DEF T, b
<1>4. 1 \in DOMAIN Code[b][c]
  BY <1>3 DEF FlowOK
<1>5. /\ stack'[T + 1].build = b /\ stack'[T + 1].code = c /\ stack'[T + 1].at = 1
      /\ Running' = stack'[T + 1]
  BY <1>1 DEF Frame, Running
<1>6. c \in DOMAIN Code[b]
  BY DEF b
<1>7. \A k \in 1 .. T + 1 : /\ stack'[k].code \in DOMAIN Code[stack'[k].build]
                            /\ stack'[k].at \in DOMAIN CodeOf(stack'[k])
  <2> SUFFICES ASSUME NEW k \in 1 .. T + 1
               PROVE  /\ stack'[k].code \in DOMAIN Code[stack'[k].build]
                      /\ stack'[k].at \in DOMAIN CodeOf(stack'[k])
    OBVIOUS
  <2>1. CASE k = T + 1
    BY <1>4, <1>5, <1>6, <2>1 DEF CodeOf
  <2>2. CASE k \in 1 .. T
    BY <1>1, <1>2, <2>2 DEF StackOK
  <2> QED
    BY <1>1, <2>1, <2>2
<1>8. StackOK'
  <2>1. stack' # <<>>
    BY <1>1 DEF Top
  <2> QED
    BY <1>1, <1>7, <2>1 DEF StackOK, CodeOf
<1>9. Shape'
  <2>1. \A k \in 1 .. T + 1 : stack'[k].build = stack'[1].build
    BY <1>1, <1>2, <1>5 DEF Shape
  <2>2. CASE T = 1
    <3>1. Top' = 2 /\ stack'[1] = stack[1] /\ stack'[2].code = c
      BY <1>1, <1>5, <2>2
    <3>2. c \in Handlers \/ (c = "trap" /\ Operation(stack'[1])[1] = "Menu")
      BY <3>1
    <3>3. \A k \in 1 .. 2 : stack'[k].build = stack'[1].build
      BY <2>1, <2>2
    <3> QED
      BY <1>2, <3>1, <3>2, <3>3 DEF Shape, Operation, CodeOf, Handlers
  <2>3. CASE T = 2
    <3>1. c \in Handlers /\ stack[2].code = "trap"
      BY <2>3 DEF T, Running
    <3>2. Top' = 3 /\ stack'[1] = stack[1] /\ stack'[2] = stack[2] /\ stack'[3].code = c
      BY <1>1, <1>5, <2>3
    <3>3. Operation(stack'[1])[1] = "Menu"
      BY <1>2, <2>3, <3>1, <3>2 DEF Shape
    <3> QED
      BY <1>2, <2>1, <2>3, <3>1, <3>2, <3>3 DEF Shape, Operation, CodeOf
  <2> QED
    BY <1>1, <2>2, <2>3
<1>10. CodeOf(Running)' = Code[b][c]
  BY <1>5 DEF CodeOf
<1> QED
  BY <1>1, <1>5, <1>8, <1>9, <1>10 DEF b

LEMMA PopKeepsStack ==
  ASSUME IInv, Iret
  PROVE  /\ StackOK' /\ Shape'
         /\ Top' = Top - 1 /\ Top' \in 1 .. 2 /\ \A k \in 1 .. Top' : stack'[k] = stack[k]
         /\ Running' = stack[Top - 1] /\ Running'.code \in {"main", "trap"}
         /\ CodeOf(Running)' = CodeOf(stack[Top - 1])
<1>1. /\ Top \in 2 .. 3 /\ Top' = Top - 1 /\ stack' \in Seq(StackFrame)
      /\ \A k \in 1 .. Top - 1 : stack'[k] = stack[k]
  BY Returns DEF Popped
<1>2. StackOK /\ Shape
  BY Typed
<1>3. /\ Running' = stack[Top - 1]
      /\ CodeOf(Running)' = CodeOf(stack[Top - 1])
  BY <1>1 DEF Running, CodeOf
<1>4. stack[Top - 1].code \in {"main", "trap"}
  BY <1>1, <1>2 DEF Shape
<1>5. StackOK'
  <2>1. stack' # <<>>
    BY <1>1 DEF Top
  <2> QED
    BY <1>1, <1>2, <2>1 DEF StackOK, CodeOf
<1>6. Shape'
  BY <1>1, <1>2 DEF Shape, Operation, CodeOf
<1> QED
  BY <1>1, <1>3, <1>4, <1>5, <1>6

-----------------------------------------------------------------------------
(* What main() has set up *)

Agrees(s) ==
  /\ s.masked \subseteq imr /\ s.read \subseteq saved
  /\ icw = s.icw /\ offset = s.offset
  /\ limit = s.limit /\ idtr = s.idtr /\ idt = s.idt

LEMMA EffectOn ==
  ASSUME NEW s \in SetUpState, NEW op \in STRING \X Nat
  PROVE  Effect(s, op).on = (op[1] = "sti" \/ (s.on /\ op[1] # "cli"))
BY DEF Effect, SetUpState

LEMMA EffectOfOthers ==
  ASSUME NEW s \in SetUpState, NEW op \in STRING \X Nat, op[1] \notin SetUpOps
  PROVE  /\ Effect(s, op).masked = s.masked /\ Effect(s, op).read = s.read
         /\ Effect(s, op).icw = s.icw /\ Effect(s, op).offset = s.offset
         /\ Effect(s, op).limit = s.limit /\ Effect(s, op).idtr = s.idtr
         /\ Effect(s, op).idt = s.idt
BY DEF Effect, SetUpState, SetUpOps

LEMMA SetUpMoves ==
  ASSUME Move, Here[1] \in SetUpOps
  PROVE  \/ LoadIDT \/ Sti
         \/ ClearIDT \/ IDT_TrapGate \/ IDT_IntGate \/ SetVector \/ SetLimit
         \/ InMask \/ ICW1 \/ ICW2 \/ ICW3 \/ ICW4
         \/ RestoreMasks \/ PIC_MaskAllIRQ \/ OutUnmask \/ OutMask
BY DEF Move, SetUpOps, Executes, Cli, EOI, AddTime, SleepBegin, SleepEnd, Beep, NoSound,
       ScanKeyboard, TakeByte, GetTextCursor, SetTextCursor, Repeat, MenuBeep, Command

(* What an operation of main() does to the PIC and the IDT is its Effect;  *)
(* that of an initialisation word because the PIC waits for it.            *)
LEMMA SetUpFollows ==
  ASSUME IInv, Move, Here[1] \in SetUpOps, NEW s, s = Effect(Now, Here)
  PROVE  Agrees(s)' /\ imr' \in SUBSET IRQ /\ saved' \in SUBSET IRQ
<1> DEFINE t == Now
           op == Here
<1>1. /\ Here = op /\ op \in STRING \X Nat /\ Top = 1 /\ Operation(stack[1]) = op
      /\ FlowOK("main", CodeOf(Running)) /\ op = CodeOf(Running)[Running.at]
      /\ Running.at \in DOMAIN CodeOf(Running)
  <2>1. Running.code = "main"
    BY Typed, RunningFacts DEF HandlerOps, SetUpOps
  <2>2. Top = 1
    BY <2>1, Typed
  <2> QED
    BY <2>1, <2>2, Typed, RunningFacts, CodeFacts DEF CodeOf, Here, Operation, Running
<1>2. /\ t \in SetUpState /\ s = Effect(t, op)
      /\ op[1] \in DataOps => icw = ExpectedWord(op)
  BY <1>1, NowFacts DEF IInv, SetUpHolds
<1>3. Agrees(t) /\ imr \in SUBSET IRQ /\ saved \in SUBSET IRQ
  BY DEF IInv, SetUpHolds, TypeOK, Agrees
<1>4. /\ op[1] \in {"IDT_TrapGate", "IDT_IntGate", "SetVector"} => op[2] \in Vector
      /\ op[1] = "OutMask" => op[2] \in IRQ
  BY <1>1 DEF FlowOK
<1> HIDE DEF t, op
<1>5. CASE LoadIDT
  BY <1>5, <1>1, <1>2, <1>3, <1>4
     DEF LoadIDT, Executes, Agrees, Effect, SetUpState, cpu, pic
<1>6. CASE Sti
  BY <1>6, <1>1, <1>2, <1>3, <1>4
     DEF Sti, Executes, Agrees, Effect, SetUpState, cpu, pic
<1>7. CASE ClearIDT
  BY <1>7, <1>1, <1>2, <1>3, <1>4
     DEF ClearIDT, Executes, Agrees, Effect, SetUpState, cpu, pic
<1>8. CASE IDT_TrapGate
  BY <1>8, <1>1, <1>2, <1>3, <1>4
     DEF IDT_TrapGate, Executes, Agrees, Effect, SetUpState, cpu, pic
<1>9. CASE IDT_IntGate
  BY <1>9, <1>1, <1>2, <1>3, <1>4
     DEF IDT_IntGate, Executes, Agrees, Effect, SetUpState, cpu, pic
<1>10. CASE SetVector
  BY <1>10, <1>1, <1>2, <1>3, <1>4
     DEF SetVector, Executes, Agrees, Effect, SetUpState, cpu, pic
<1>11. CASE SetLimit
  BY <1>11, <1>1, <1>2, <1>3, <1>4
     DEF SetLimit, Agrees, Effect, SetUpState, cpu, pic
<1>12. CASE InMask
  BY <1>12, <1>1, <1>2, <1>3, <1>4
     DEF InMask, Executes, Agrees, Effect, SetUpState, cpu, pic
<1>13. CASE ICW1
  <2>1. Here[1] = "ICW1"
    BY <1>13 DEF ICW1, Executes
  <2>2. s = [t EXCEPT !.masked = {}, !.icw = 2]
    BY <1>1, <1>2, <2>1 DEF Effect
  <2> QED
    BY <1>13, <1>2, <1>3, <2>2 DEF ICW1, Agrees, SetUpState, cpu, pic
<1>14. CASE ICW2
  <2>1. op[1] = "ICW2"
    BY <1>14, <1>1 DEF ICW2
  <2>2. s = [t EXCEPT !.offset = op[2], !.icw = 3] /\ icw = 2
    BY <1>2, <2>1 DEF Effect, DataOps, ExpectedWord
  <2>3. offset' = op[2] /\ icw' = 3 /\ UNCHANGED <<imr, saved, limit, idtr, idt>>
    BY <1>14, <1>1, <2>2 DEF ICW2, OutData, cpu
  <2> QED
    BY <1>2, <1>3, <2>2, <2>3 DEF Agrees, SetUpState
<1>15. CASE ICW3
  BY <1>15, <1>1, <1>2, <1>3, <1>4
     DEF ICW3, Executes, OutData, DataOps, ExpectedWord, Agrees, Effect, SetUpState, cpu, pic
<1>16. CASE ICW4
  BY <1>16, <1>1, <1>2, <1>3, <1>4
     DEF ICW4, Executes, OutData, DataOps, ExpectedWord, Agrees, Effect, SetUpState, cpu, pic
<1>17. CASE RestoreMasks
  BY <1>17, <1>1, <1>2, <1>3, <1>4
     DEF RestoreMasks, Executes, OutData, DataOps, ExpectedWord, Agrees, Effect, SetUpState, cpu, pic
<1>18. CASE PIC_MaskAllIRQ
  BY <1>18, <1>1, <1>2, <1>3, <1>4
     DEF PIC_MaskAllIRQ, Executes, OutData, DataOps, ExpectedWord, Agrees, Effect, SetUpState, cpu, pic
<1>19. CASE OutUnmask
  BY <1>19, <1>1, <1>2, <1>3, <1>4
     DEF OutUnmask, OutData, DataOps, ExpectedWord, Agrees, Effect, SetUpState, cpu, pic
<1>20. CASE OutMask
  <2>1. op[1] = "OutMask"
    BY <1>20, <1>1 DEF OutMask
  <2>2. s = [t EXCEPT !.masked = t.read \cup {op[2]}] /\ icw = 0
    BY <1>2, <2>1 DEF Effect, DataOps, ExpectedWord
  <2>3. imr' = saved \cup {op[2]} /\ UNCHANGED <<saved, icw, offset, limit, idtr, idt>>
    BY <1>20, <1>1, <2>2 DEF OutMask, OutData, cpu
  <2>4. op[2] \in IRQ
    BY <1>4, <2>1
  <2> QED
    BY <1>2, <1>3, <2>2, <2>3, <2>4 DEF Agrees, SetUpState
<1> QED
  BY <1>5, <1>6, <1>7, <1>8, <1>9, <1>10, <1>11, <1>12, <1>13, <1>14,
     <1>15, <1>16, <1>17, <1>18, <1>19, <1>20, SetUpMoves

LEMMA SetUpTyped ==
  ASSUME Disciplined, NEW b \in DOMAIN Code, NEW n \in DOMAIN Code[b].main
  PROVE  SetUp(b, n) \in SetUpState
BY DEF Disciplined, SetUpOK

(* Main() at its new place; others leave the set-up alone.                 *)
LEMMA MoveKeepsSetUp ==
  ASSUME IInv, Move, NEW m \in Nat, MovesTo(m)
  PROVE  /\ SetUpHolds' /\ imr' \in SUBSET IRQ /\ saved' \in SUBSET IRQ
         /\ Top = 1 /\ iflag' => Now'.on
         /\ Top # 1 => Now' = Now
<1> DEFINE b == stack[1].build
<1>0. PICK s : s = Effect(Now, Here)
  OBVIOUS
<1>1. /\ irr' \subseteq Lines(b) /\ (typed' > 0 => Lines(b) = IRQ)
      /\ stack'[1].build = b
  BY StackOfMove, Typed DEF MovesTo, IInv, SetUpHolds
<1>2. Agrees(Now) /\ imr \in SUBSET IRQ /\ saved \in SUBSET IRQ
  BY DEF IInv, SetUpHolds, Agrees, TypeOK
<1>3. CASE Top = 1
  <2>1. /\ Operation(stack[1]) = Here /\ stack'[1].at = m
        /\ m \in Successors(Here, stack[1].at)
    BY <1>3, StackOfMove DEF MovesTo, Running, Here
  <2>2. Now' = SetUp(b, m)
    BY <1>1, <2>1 DEF Now
  <2>3. Covers(SetUp(b, m), s) /\ Now \in SetUpState /\ Here \in STRING \X Nat
    BY <1>0, <2>1, NowFacts, Typed, RunningFacts
  <2>4. Agrees(s)' /\ imr' \in SUBSET IRQ /\ saved' \in SUBSET IRQ
    <3>1. CASE Here[1] \in SetUpOps
      BY <1>0, <3>1, SetUpFollows
    <3>2. CASE Here[1] \notin SetUpOps
      BY <1>0, <1>2, <2>3, <3>2, EffectOfOthers DEF MovesTo, Agrees
    <3> QED
      BY <3>1, <3>2
  <2>5. iflag' => s.on
    BY <1>0, <2>3, NowFacts, EffectOn DEF MovesTo
  <2> QED
    BY <1>1, <1>3, <2>2, <2>3, <2>4, <2>5 DEF SetUpHolds, Agrees, Covers
<1>4. CASE Top # 1
  <2>1. stack'[1] = stack[1]
    BY <1>4, StackOfMove, Typed
  <2>2. Now' = Now
    BY <2>1 DEF Now
  <2>3. Here[1] \notin SetUpOps
    BY <1>4, Typed, RunningFacts DEF HandlerOps, SetUpOps
  <2> QED
    BY <1>1, <1>2, <1>4, <2>2, <2>3 DEF MovesTo, SetUpHolds, Agrees
<1> QED
  BY <1>3, <1>4

LEMMA SetUpKept ==
  ASSUME IInv, stack'[1] = stack[1],
         UNCHANGED <<idtr, limit, idt, imr, icw, offset, saved>>,
         irr' \subseteq Lines(stack[1].build),
         typed' > 0 => Lines(stack[1].build) = IRQ
  PROVE  SetUpHolds' /\ Now' = Now
BY DEF IInv, SetUpHolds, Now

-----------------------------------------------------------------------------
(* The interrupt flag *)

LEMMA MoveKeepsFlags ==
  ASSUME IInv, Move, NEW m \in Nat, MovesTo(m)
  PROVE  FlagsOK' /\ iflag' \in BOOLEAN
<1>1. FlagsOK /\ FlagAt(Top) = iflag /\ Top \in 1 .. 3
  BY Typed DEF IInv
<1>2. /\ Top' = Top
      /\ \A k \in 1 .. Top : k # Top => stack'[k] = stack[k]
      /\ \A k \in 1 .. Top : /\ stack'[k].build = stack[k].build
                             /\ stack'[k].code = stack[k].code
                             /\ stack'[k].flags = stack[k].flags
      /\ stack'[Top].at = m
  BY StackOfMove
<1>3. /\ iflag' = (Here[1] = "sti" \/ (iflag /\ Here[1] # "cli")) /\ iflag' \in BOOLEAN
  BY DEF MovesTo, IInv, TypeOK
<1>4. \A k \in 1 .. Top : k # Top => FlagAt(k)' = FlagAt(k)
  BY <1>1, <1>2 DEF FlagAt
<1>5. FlagAt(Top)' = iflag'
  BY <1>2 DEF FlagAt
<1>6. Top # 1 => Now' = Now
  BY MoveKeepsSetUp
<1> SUFFICES ASSUME NEW k \in 1 .. Top
             PROVE  /\ FlagAt(k)' => Now'.on
                    /\ stack'[k].code \in Handlers => ~FlagAt(k)'
                    /\ stack'[k].code = "trap" /\ stack'[k].at > 1
                         /\ Code[stack'[k].build].trap[1] = <<"cli", 0>> => ~FlagAt(k)'
  BY <1>2, <1>3 DEF FlagsOK
<1>7. CASE k # Top
  BY <1>1, <1>2, <1>4, <1>6, <1>7 DEF FlagsOK
<1>8. CASE k = Top /\ Top = 1
  <2>1. stack[1].code = "main"
    BY Typed
  <2> QED
    BY <1>2, <1>5, <1>8, <2>1, MoveKeepsSetUp DEF Handlers
<1>9. CASE k = Top /\ Top # 1
  <2>1. Here[1] \in HandlerOps
    BY <1>9, Typed, RunningFacts
  <2>2. iflag' => iflag /\ Here[1] # "cli"
    BY <1>3, <2>1 DEF HandlerOps
  <2>3. /\ iflag => Now.on
        /\ stack[k].code \in Handlers => ~iflag
        /\ stack[k].code = "trap" /\ stack[k].at > 1
             /\ Code[stack[k].build].trap[1] = <<"cli", 0>> => ~iflag
    BY <1>1, <1>9 DEF FlagsOK
  <2>4. ASSUME stack[k].code = "trap", Code[stack[k].build].trap[1] = <<"cli", 0>>
        PROVE  ~iflag'
    <3>1. CASE stack[k].at > 1
      BY <2>2, <2>3, <2>4, <3>1
    <3>2. CASE ~(stack[k].at > 1)
      <4>1. stack[k].at = 1
        BY <1>9, <3>2, Typed, RunningFacts DEF Running
      <4>2. Here = <<"cli", 0>>
        BY <1>9, <2>4, <4>1 DEF Here, Operation, CodeOf, Running
      <4> QED
        BY <2>2, <4>2
    <3> QED
      BY <3>1, <3>2
  <2> QED
    BY <1>2, <1>5, <1>6, <1>9, <2>2, <2>3, <2>4
<1> QED
  BY <1>7, <1>8, <1>9

LEMMA PushKeepsFlags ==
  ASSUME IInv, NEW c, NEW f \in BOOLEAN, Pushed(c, f), f = iflag,
         iflag' \in BOOLEAN, iflag' => iflag,
         c \in Handlers => ~iflag', Now' = Now
  PROVE  FlagsOK'
<1> PICK T : T = Top
  OBVIOUS
<1>1. FlagsOK /\ FlagAt(T) = iflag /\ T \in 1 .. 3
  BY Typed DEF IInv
<1>2. /\ Top' = T + 1
      /\ \A k \in 1 .. T : stack'[k] = stack[k]
      /\ stack'[T + 1].code = c /\ stack'[T + 1].at = 1 /\ stack'[T + 1].flags = f
  BY DEF Pushed, Frame
<1>3. \A k \in 1 .. T : FlagAt(k)' = FlagAt(k)
  <2> TAKE k \in 1 .. T
  <2>1. CASE k = T
    BY <1>1, <1>2, <2>1 DEF FlagAt
  <2>2. CASE k # T
    BY <1>1, <1>2, <2>2 DEF FlagAt
  <2> QED
    BY <2>1, <2>2
<1>4. FlagAt(T + 1)' = iflag'
  BY <1>2 DEF FlagAt
<1> SUFFICES ASSUME NEW k \in 1 .. T + 1
             PROVE  /\ FlagAt(k)' => Now'.on
                    /\ stack'[k].code \in Handlers => ~FlagAt(k)'
                    /\ stack'[k].code = "trap" /\ stack'[k].at > 1
                         /\ Code[stack'[k].build].trap[1] = <<"cli", 0>> => ~FlagAt(k)'
  BY <1>2 DEF FlagsOK
<1>5. CASE k \in 1 .. T
  BY <1>1, <1>2, <1>3, <1>5 DEF FlagsOK
<1>6. CASE k = T + 1
  BY <1>2, <1>4, <1>6, NowFacts
<1> QED
  BY <1>1, <1>5, <1>6

LEMMA PopKeepsFlags ==
  ASSUME IInv, Iret, Now' = Now
  PROVE  FlagsOK' /\ iflag' \in BOOLEAN
<1>1. FlagsOK /\ Top \in 2 .. 3 /\ iflag' = FlagAt(Top - 1)
  BY Returns DEF IInv
<1>2. Top' = Top - 1 /\ \A k \in 1 .. Top - 1 : stack'[k] = stack[k]
  BY PopKeepsStack
<1>3. \A k \in 1 .. Top - 1 : FlagAt(k)' = FlagAt(k)
  BY <1>1, <1>2 DEF FlagAt
<1>4. iflag' \in BOOLEAN
  BY Typed, RunningFacts DEF Iret, StackFrame
<1> QED
  BY <1>1, <1>2, <1>3, <1>4 DEF FlagsOK

-----------------------------------------------------------------------------
(* The interrupts in service *)

LEMMA MoveKeepsService ==
  ASSUME IInv, NEW m \in Nat, MovesTo(m)
  PROVE  ServiceOK' /\ isr' \in SUBSET IRQ
<1>1. ServiceOK /\ isr \in SUBSET IRQ
  BY DEF IInv, TypeOK
<1>2. CASE Here[1] \in {"EOI", "ICW1"}
  <2>1. isr' = {}
    <3>1. CASE Here[1] = "EOI"
      <4>1. isr' = {j \in isr : \E k \in isr : k < j}
        BY <3>1 DEF MovesTo
      <4>2. \A j, k \in isr : ~(k < j)
        <5> TAKE j, k \in isr
        <5>1. j = k /\ k \in Int
          BY <1>1 DEF ServiceOK, IRQ
        <5> QED
          BY <5>1
      <4> QED
        BY <4>1, <4>2
    <3>2. CASE Here[1] = "ICW1"
      BY <3>2 DEF MovesTo
    <3> QED
      BY <1>2, <3>1, <3>2
  <2> QED
    BY <2>1 DEF ServiceOK
<1>3. CASE Here[1] \notin {"EOI", "ICW1"} /\ isr # {}
  <2>1. isr' = isr /\ Running.code \in Handlers /\ ~Acknowledged(CodeOf(Running), Running.at)
    BY <1>1, <1>3 DEF MovesTo, ServiceOK
  <2>2. AcknowledgesCode(CodeOf(Running))
    BY <2>1, Typed, RunningFacts, CodeFacts DEF CodeOf
  <2>3. ~Acknowledged(CodeOf(Running), m)
    <3>1. m \in Successors(Here, Running.at) /\ Here = CodeOf(Running)[Running.at]
      BY DEF MovesTo, Here, Operation
    <3>2. Here # <<"EOI", 0>>
      BY <1>3
    <3> QED
      BY <2>1, <2>2, <3>1, <3>2, Typed, RunningFacts DEF AcknowledgesCode
  <2>4. /\ Running'.code = Running.code /\ Running'.at = m
        /\ CodeOf(Running)' = CodeOf(Running)
    BY StackOfMove
  <2> QED
    BY <1>1, <2>1, <2>3, <2>4 DEF ServiceOK
<1>4. CASE Here[1] \notin {"EOI", "ICW1"} /\ isr = {}
  BY <1>4 DEF MovesTo, ServiceOK
<1> QED
  BY <1>2, <1>3, <1>4

-----------------------------------------------------------------------------
(* The console *)

LEMMA MoveKeepsConsole ==
  ASSUME IInv, NEW m \in Nat, MovesTo(m)
  PROVE  ConsoleOK' /\ cursor' \in Nat
<1> PICK T : T = Top
  OBVIOUS
<1>1. ConsoleOK /\ cursor \in Nat
  BY DEF IInv, TypeOK
<1>2. /\ Top' = T /\ T \in 1 .. 3 /\ Running = stack[T] /\ Running' = stack'[T]
      /\ CodeOf(Running)' = CodeOf(Running) /\ Running'.at = m
      /\ Running'.cur = IF Here[1] = "GetTextCursor" THEN cursor ELSE Running.cur
      /\ \A k \in 1 .. T : k # T => stack'[k] = stack[k]
  BY StackOfMove, Typed DEF Running
<1>3. cursor' = IF Here[1] = "SetTextCursor" THEN Running.cur + 1 ELSE cursor
  BY DEF MovesTo
<1>4. ConsoleCode(Running.code, CodeOf(Running))
  BY Typed, RunningFacts, CodeFacts DEF CodeOf
<1>5. CodeOf(Running)[m][1] = "SetTextCursor" => Here = <<"GetTextCursor", 0>>
  <2>1. m \in Successors(Here, Running.at) /\ Here = CodeOf(Running)[Running.at]
    BY DEF MovesTo, Here, Operation
  <2> QED
    BY <1>4, <2>1, Typed, RunningFacts DEF ConsoleCode
<1>6. cursor' \in Nat
  BY <1>1, <1>3, Typed, RunningFacts DEF StackFrame
<1> SUFFICES ASSUME NEW k \in 1 .. T, Operation(stack'[k])[1] = "SetTextCursor"
             PROVE  /\ stack'[k].cur = cursor'
                    /\ k < T => k = T - 1 /\ ~Has(CodeOf(Running), "SetTextCursor")
  BY <1>2, <1>6 DEF ConsoleOK, Operation, CodeOf
<1>7. CASE k = T
  <2>1. Here = <<"GetTextCursor", 0>>
    BY <1>2, <1>5, <1>7 DEF Operation, CodeOf
  <2> QED
    BY <1>2, <1>3, <1>7, <2>1
<1>8. CASE k # T
  <2>1. stack'[k] = stack[k] /\ Operation(stack[k])[1] = "SetTextCursor"
    BY <1>2, <1>8 DEF Operation, CodeOf
  <2>2. stack[k].cur = cursor /\ k = T - 1 /\ ~Has(CodeOf(Running), "SetTextCursor")
    BY <1>1, <1>2, <1>8, <2>1 DEF ConsoleOK
  <2>3. Here[1] # "SetTextCursor"
    BY <2>2, Typed, RunningFacts DEF Has, Here, Operation
  <2> QED
    BY <1>3, <2>1, <2>2, <2>3
<1> QED
  BY <1>7, <1>8

LEMMA PushKeepsConsole ==
  ASSUME IInv, NEW c \in DOMAIN Code[Running.build], NEW f, Pushed(c, f), cursor' = cursor,
         \A k \in 1 .. Top : Operation(stack[k])[1] = "SetTextCursor" =>
            k = Top /\ ~Has(Code[Running.build][c], "SetTextCursor")
  PROVE  ConsoleOK'
<1> PICK T, code : T = Top /\ code = Code[Running.build][c]
  OBVIOUS
<1>1. ConsoleOK /\ T \in 1 .. 3
  BY Typed DEF IInv
<1>2. /\ Top' = T + 1
      /\ \A k \in 1 .. T : stack'[k] = stack[k]
      /\ Running' = stack'[T + 1] /\ Running'.at = 1
      /\ CodeOf(Running)' = code
  BY DEF Pushed, Frame, Running, CodeOf
<1>3. code[1][1] # "SetTextCursor"
  BY Typed, CodeFacts DEF ConsoleCode
<1> SUFFICES ASSUME NEW k \in 1 .. T + 1, Operation(stack'[k])[1] = "SetTextCursor"
             PROVE  /\ stack'[k].cur = cursor
                    /\ k < T + 1 => k = T /\ ~Has(code, "SetTextCursor")
  BY <1>1, <1>2 DEF ConsoleOK, Operation, CodeOf
<1>4. k # T + 1
  BY <1>2, <1>3 DEF Operation, CodeOf
<1>5. k \in 1 .. T /\ stack'[k] = stack[k] /\ Operation(stack[k])[1] = "SetTextCursor"
  BY <1>1, <1>2, <1>4 DEF Operation, CodeOf
<1> QED
  BY <1>1, <1>5 DEF ConsoleOK

LEMMA PopKeepsConsole ==
  ASSUME IInv, Iret, cursor' = cursor
  PROVE  ConsoleOK'
<1> PICK T : T = Top
  OBVIOUS
<1>1. ConsoleOK /\ T \in 2 .. 3
  BY Returns DEF IInv
<1>2. Top' = T - 1 /\ \A k \in 1 .. T - 1 : stack'[k] = stack[k]
  BY PopKeepsStack
<1> SUFFICES ASSUME NEW k \in 1 .. T - 1, Operation(stack'[k])[1] = "SetTextCursor"
             PROVE  stack'[k].cur = cursor /\ ~(k < T - 1)
  BY <1>1, <1>2 DEF ConsoleOK, Operation, CodeOf
<1> QED
  BY <1>1, <1>2 DEF ConsoleOK, Operation, CodeOf

-----------------------------------------------------------------------------
(* The bytes *)

(* The bytes 1 .. n in order.                                              *)
Sent(n) == [b \in 1 .. n |-> b]

LEMMA OneMoreSent ==
  ASSUME NEW n \in Nat
  PROVE  Sent(n) \o <<n + 1>> = Sent(n + 1) /\ Sent(n) \in Seq(Nat)
<1>1. Sent(n) \in Seq(Nat) /\ Len(Sent(n)) = n
  BY DEF Sent
<1>2. Sent(n + 1) \in Seq(Nat) /\ Len(Sent(n + 1)) = n + 1
  BY DEF Sent
<1>3. Sent(n) \o <<n + 1>> \in Seq(Nat) /\ Len(Sent(n) \o <<n + 1>>) = n + 1
  BY <1>1
<1>4. ASSUME NEW i \in 1 .. n + 1
      PROVE  (Sent(n) \o <<n + 1>>)[i] = Sent(n + 1)[i]
  BY <1>1, <1>4 DEF Sent
<1> QED
  BY <1>1, <1>2, <1>3, <1>4, SeqEqual

(* Only the keyboard handler reads bytes.                                  *)
LEMMA ReadsBytes ==
  ASSUME Disciplined, NEW b \in DOMAIN Code, NEW c \in DOMAIN Code[b],
         NEW n \in DOMAIN Code[b][c], Code[b][c][n][1] \in {"ScanKeyboard", "TakeByte"}
  PROVE  c = "keyboard"
BY CodeFacts DEF ByteCode

LEMMA InFlightFacts ==
  ASSUME IInv
  PROVE  /\ Here[1] = "ScanKeyboard" => Running.scancode = NONE
         /\ Here[1] = "TakeByte" => Running.scancode # NONE /\ InFlight = <<Running.scancode>>
         /\ Here[1] # "TakeByte" => InFlight = <<>>
         /\ Running.scancode \in 0 .. MaxKeys
<1>1. BytesOK
  BY DEF IInv
<1>2. Here[1] = "ScanKeyboard" => Running.scancode = NONE
  <2> SUFFICES ASSUME Here[1] = "ScanKeyboard" PROVE Running.scancode = NONE
    OBVIOUS
  <2>1. /\ Running.at \in DOMAIN CodeOf(Running) /\ CodeOf(Running) \in Seq(STRING \X Nat)
        /\ CodeOf(Running)[Running.at][1] = "ScanKeyboard"
    BY Typed, RunningFacts DEF Here, Operation
  <2>2. Running.at \in Running.at .. Len(CodeOf(Running))
    BY <2>1
  <2>3. Ahead(Running, "ScanKeyboard")
    BY <2>1, <2>2 DEF Ahead
  <2>4. Top \in 1 .. Top
    BY Typed
  <2> QED
    BY <1>1, <2>3, <2>4 DEF BytesOK, Running
<1> QED
  BY <1>1, <1>2, Typed, RunningFacts DEF BytesOK, InFlight, Here, StackFrame

(* In a handler, what is to come after a move was to come before.          *)
LEMMA AheadOfMove ==
  ASSUME IInv, NEW m \in Nat, MovesTo(m), Running.code # "main", NEW op
  PROVE  Ahead(Running, op)' => Ahead(Running, op)
<1>1. /\ Running'.at = m /\ CodeOf(Running)' = CodeOf(Running)
      /\ Running.at \in Nat
  BY StackOfMove, Typed, RunningFacts
<1>2. m > Running.at
  BY Typed, RunningFacts, HandlersMoveForward DEF MovesTo
<1>3. CodeOf(Running) \in Seq(STRING \X Nat)
  BY Typed, RunningFacts
<1> SUFFICES ASSUME NEW n \in m .. Len(CodeOf(Running)), CodeOf(Running)[n][1] = op
             PROVE  Ahead(Running, op)
  BY <1>1 DEF Ahead
<1>4. n \in Running.at .. Len(CodeOf(Running))
  BY <1>1, <1>2, <1>3
<1> QED
  BY <1>4 DEF Ahead

(* The operation that is done once is not to come again.                   *)
LEMMA OnceDone ==
  ASSUME IInv, NEW m \in Nat, MovesTo(m), Running.code # "main", NEW op, Here[1] = op,
         \A n, k \in DOMAIN CodeOf(Running) :
            CodeOf(Running)[n][1] = op /\ CodeOf(Running)[k][1] = op => k = n
  PROVE  ~Ahead(Running, op)'
<1>1. /\ Running'.at = m /\ CodeOf(Running)' = CodeOf(Running)
      /\ Running.at \in Nat /\ Running.at \in DOMAIN CodeOf(Running)
      /\ CodeOf(Running)[Running.at][1] = op
  BY StackOfMove, Typed, RunningFacts DEF Here, Operation
<1>2. m > Running.at
  BY Typed, RunningFacts, HandlersMoveForward DEF MovesTo
<1>3. CodeOf(Running) \in Seq(STRING \X Nat)
  BY Typed, RunningFacts
<1> SUFFICES ASSUME NEW n \in m .. Len(CodeOf(Running)), CodeOf(Running)[n][1] = op
             PROVE  FALSE
  BY <1>1 DEF Ahead
<1>4. n \in DOMAIN CodeOf(Running) /\ n # Running.at
  BY <1>1, <1>2, <1>3
<1> QED
  BY <1>1, <1>4

(* A byte that is taken has been read just before.                         *)
LEMMA TakenWhenRead ==
  ASSUME IInv, NEW m \in Nat, MovesTo(m), CodeOf(Running)[m][1] = "TakeByte"
  PROVE  Here[1] = "ScanKeyboard" /\ m = Running.at + 1 /\ obf # NONE
<1>1. ByteCode(Running.code, CodeOf(Running))
  BY Typed, RunningFacts, CodeFacts DEF CodeOf
<1>2. /\ m \in Successors(Here, Running.at) /\ Here = CodeOf(Running)[Running.at]
      /\ Running.at \in DOMAIN CodeOf(Running) /\ Running.at \in Nat
  BY Typed, RunningFacts DEF MovesTo, Here, Operation
<1>3. Here = <<"ScanKeyboard", 0>> /\ m = Running.at + 1
  BY <1>1, <1>2 DEF ByteCode
<1>4. m = IF obf = NONE THEN Running.at + 4 ELSE Running.at + 1
  BY <1>3 DEF MovesTo
<1> QED
  BY <1>2, <1>3, <1>4

(* The three places of a byte, joined.                                     *)
LEMMA MoveKeepsBytes ==
  ASSUME IInv, NEW m \in Nat, MovesTo(m)
  PROVE  BytesOK' /\ obf' \in 0 .. MaxKeys /\ handled' \in Seq(1 .. MaxKeys)
<1> PICK T : T = Top
  OBVIOUS
<1> DEFINE code == CodeOf(Running)
           Kept(b) == IF b = NONE THEN <<>> ELSE <<b>>
<1>1. /\ BytesOK /\ obf \in 0 .. MaxKeys /\ handled \in Seq(1 .. MaxKeys)
      /\ loaded \in Nat
  BY InterruptsAssumption DEF IInv, TypeOK
<1>2. /\ Top' = T /\ T \in 1 .. 3 /\ Running = stack[T] /\ Running' = stack'[T]
      /\ code' = code /\ Running'.at = m /\ m \in DOMAIN code
      /\ Here' = code[m]
      /\ Running'.scancode = IF Here[1] = "ScanKeyboard" THEN obf ELSE Running.scancode
      /\ \A k \in 1 .. T : k # T => stack'[k] = stack[k]
  BY StackOfMove, Typed DEF Running, Here, Operation, CodeOf
<1>3. /\ obf' = IF Here[1] = "ScanKeyboard" THEN NONE ELSE obf
      /\ handled' = IF Here[1] = "TakeByte" THEN Append(handled, Running.scancode) ELSE handled
      /\ loaded' = loaded
      /\ Here[1] = "ScanKeyboard" =>
           m = IF obf = NONE THEN Running.at + 4 ELSE Running.at + 1
  BY DEF MovesTo
<1>4. ByteCode(Running.code, code) /\ Running.at \in DOMAIN code /\ code \in Seq(STRING \X Nat)
      /\ code[Running.at] = Here
  BY Typed, RunningFacts, CodeFacts DEF CodeOf, Here, Operation
<1>5. Running.code # "keyboard" => /\ ~Ahead(Running, "ScanKeyboard")'
                                   /\ Here[1] \notin {"ScanKeyboard", "TakeByte"}
  <2> SUFFICES ASSUME Running.code # "keyboard"
               PROVE  /\ ~Ahead(Running, "ScanKeyboard")'
                      /\ Here[1] \notin {"ScanKeyboard", "TakeByte"}
    OBVIOUS
  <2>1. \A n \in DOMAIN code : code[n][1] \notin {"ScanKeyboard", "TakeByte"}
    BY <1>4 DEF ByteCode
  <2>2. \A n \in m .. Len(code) : n \in DOMAIN code
    BY <1>2, <1>4
  <2> HIDE DEF code
  <2> QED
    BY <1>2, <1>4, <2>1, <2>2 DEF Ahead, code
<1>6. Ahead(Running, "ScanKeyboard")' => Running'.scancode = NONE
  <2> SUFFICES ASSUME Ahead(Running, "ScanKeyboard")', Running.code = "keyboard"
               PROVE  Running'.scancode = NONE
    BY <1>5
  <2>1. CASE Here[1] = "ScanKeyboard"
    <3>1. \A n, k \in DOMAIN code : code[n][1] = "ScanKeyboard" /\ code[k][1] = "ScanKeyboard" => k = n
      BY <1>4 DEF ByteCode
    <3> QED
      BY <2>1, <3>1, OnceDone
  <2>2. CASE Here[1] # "ScanKeyboard"
    <3>1. Ahead(Running, "ScanKeyboard")
      BY AheadOfMove
    <3>2. Running.scancode = NONE
      BY <1>1, <1>2, <3>1 DEF BytesOK
    <3> QED
      BY <1>2, <2>2, <3>2
  <2> QED
    BY <2>1, <2>2
<1>7. ASSUME NEW k \in 1 .. T, Ahead(stack[k], "ScanKeyboard")'
      PROVE  stack'[k].scancode = NONE
  <2>1. CASE k = T
    BY <1>2, <1>6, <1>7, <2>1 DEF Ahead, CodeOf
  <2>2. CASE k # T
    <3>1. stack'[k] = stack[k] /\ Ahead(stack[k], "ScanKeyboard")
      BY <1>2, <1>7, <2>2 DEF Ahead, CodeOf
    <3> QED
      BY <1>1, <1>2, <3>1 DEF BytesOK
  <2> QED
    BY <2>1, <2>2
<1>8. code[m][1] = "TakeByte" => Here[1] = "ScanKeyboard" /\ obf # NONE
  BY TakenWhenRead
<1>9. code[m][1] = "TakeByte" => Running'.scancode # NONE
  BY <1>2, <1>8
<1>10. code[m][1] = "ScanKeyboard" => Running'.scancode = NONE
  <2>1. m \in m .. Len(code)
    BY <1>2, <1>4
  <2>2. code[m][1] = "ScanKeyboard" => Ahead(Running, "ScanKeyboard")'
    BY <1>2, <2>1 DEF Ahead
  <2> QED
    BY <1>6, <2>2
<1>11. InFlight' = IF code[m][1] = "TakeByte" THEN <<Running'.scancode>> ELSE <<>>
  BY <1>2, <1>9, <1>10 DEF InFlight
<1>12. /\ obf' \in 0 .. MaxKeys
       /\ handled' \in Seq(1 .. MaxKeys)
       /\ Running.scancode \in 0 .. MaxKeys
  <2>1. Running.scancode \in 0 .. MaxKeys
    BY InFlightFacts
  <2>2. Here[1] = "TakeByte" => Running.scancode \in 1 .. MaxKeys
    BY <2>1, InFlightFacts, InterruptsAssumption DEF NONE
  <2>3. Here[1] = "TakeByte" => Append(handled, Running.scancode) \in Seq(1 .. MaxKeys)
    BY <1>1, <2>2
  <2>4. NONE \in 0 .. MaxKeys
    BY InterruptsAssumption DEF NONE
  <2> QED
    BY <1>1, <1>3, <2>1, <2>3, <2>4
<1>13. handled' \o InFlight' \o Kept(obf') = handled \o InFlight \o Kept(obf)
  <2>1. CASE Here[1] = "ScanKeyboard" /\ obf = NONE
    <3>1. code[m][1] # "TakeByte"
      BY <1>8, <2>1
    <3> QED
      BY <1>3, <1>11, <2>1, <3>1, InFlightFacts
  <2>2. CASE Here[1] = "ScanKeyboard" /\ obf # NONE
    <3>1. m = Running.at + 1 /\ code[Running.at + 1] = <<"TakeByte", 0>>
      BY <1>3, <1>4, <2>2 DEF ByteCode
    <3>2. InFlight' = <<obf>> /\ handled' = handled /\ obf' = NONE
      BY <1>2, <1>3, <1>11, <2>2, <3>1
    <3>3. InFlight = <<>>
      BY <2>2, InFlightFacts
    <3>4. handled \o <<obf>> \o <<>> = handled \o <<>> \o <<obf>>
      BY <1>1
    <3> QED
      BY <2>2, <3>2, <3>3, <3>4
  <2>3. CASE Here[1] = "TakeByte"
    <3>1. InFlight' = <<>> /\ obf' = obf /\ handled' = Append(handled, Running.scancode)
      BY <1>3, <1>8, <1>11, <2>3
    <3>2. InFlight = <<Running.scancode>>
      BY <2>3, InFlightFacts
    <3>3. Append(handled, Running.scancode) \o <<>> = handled \o <<Running.scancode>>
      BY <1>1, <1>12
    <3> QED
      BY <3>1, <3>2, <3>3
  <2>4. CASE Here[1] \notin {"ScanKeyboard", "TakeByte"}
    BY <1>3, <1>8, <1>11, <2>4, InFlightFacts
  <2> QED
    BY <2>1, <2>2, <2>3, <2>4
<1>14. BytesInOrder'
  <2>1. handled \o InFlight \o Kept(obf) = [b \in 1 .. loaded |-> b]
    BY <1>1 DEF BytesOK, BytesInOrder
  <2> HIDE DEF code
  <2> QED
    BY <1>3, <1>13, <2>1 DEF BytesInOrder
<1> QED
  BY <1>2, <1>7, <1>9, <1>12, <1>14 DEF BytesOK, Here

(* A handler or the exception handler starts, or one ends, with no byte in *)
(* flight.                                                                 *)
LEMMA PushKeepsBytes ==
  ASSUME IInv, NEW c \in DOMAIN Code[Running.build], NEW f, Pushed(c, f),
         Running.code # "keyboard", UNCHANGED <<loaded, obf, handled>>
  PROVE  BytesOK'
<1> PICK T : T = Top
  OBVIOUS
<1>1. BytesOK /\ T \in 1 .. 3
  BY Typed DEF IInv
<1>2. /\ Top' = T + 1
      /\ \A k \in 1 .. T : stack'[k] = stack[k]
      /\ Running' = stack'[T + 1]
      /\ Running'.scancode = NONE /\ Here' = Code[Running.build][c][1]
  BY DEF Pushed, Frame, Running, CodeOf, Here, Operation
<1>3. Here'[1] # "TakeByte"
  BY <1>2, Typed, CodeFacts DEF ByteCode
<1>4. \A k \in 1 .. T + 1 : Ahead(stack[k], "ScanKeyboard")' => stack'[k].scancode = NONE
  <2> TAKE k \in 1 .. T + 1
  <2>1. CASE k = T + 1
    BY <1>2, <2>1
  <2>2. CASE k # T + 1
    <3>1. k \in 1 .. T /\ stack'[k] = stack[k]
      BY <1>1, <1>2, <2>2
    <3> QED
      BY <1>1, <3>1 DEF BytesOK, Ahead, CodeOf
  <2> QED
    BY <2>1, <2>2
<1>5. InFlight' = <<>>
  BY <1>2 DEF InFlight
<1>6. InFlight = <<>>
  <2>1. Here[1] # "TakeByte"
    BY Typed, RunningFacts, ReadsBytes DEF Here, Operation, CodeOf
  <2> QED
    BY <2>1, InFlightFacts
<1>7. BytesInOrder'
  BY <1>1, <1>5, <1>6 DEF BytesOK, BytesInOrder
<1> QED
  BY <1>2, <1>3, <1>4, <1>7 DEF BytesOK, Here

LEMMA PopKeepsBytes ==
  ASSUME IInv, Iret, UNCHANGED <<loaded, obf, handled>>
  PROVE  BytesOK'
<1> PICK T : T = Top
  OBVIOUS
<1>1. BytesOK /\ T \in 2 .. 3
  BY Returns DEF IInv
<1>2. /\ Top' = T - 1 /\ \A k \in 1 .. T - 1 : stack'[k] = stack[k]
      /\ Running' = stack'[T - 1] /\ Running'.code \in {"main", "trap"}
      /\ StackOK'
  BY PopKeepsStack DEF Running
<1>3. \A k \in 1 .. T - 1 : Ahead(stack[k], "ScanKeyboard")' => stack'[k].scancode = NONE
  <2> TAKE k \in 1 .. T - 1
  <2>1. k \in 1 .. T /\ stack'[k] = stack[k]
    BY <1>1, <1>2
  <2> QED
    BY <1>1, <2>1 DEF BytesOK, Ahead, CodeOf
<1>4. Here'[1] \notin {"ScanKeyboard", "TakeByte"}
  <2>1. /\ Running'.code \in DOMAIN Code[Running'.build]
        /\ Running'.at \in DOMAIN Code[Running'.build][Running'.code]
        /\ Running' \in StackFrame
    <3>1. T - 1 \in 1 .. Top' /\ Top' = Len(stack')
      BY <1>1, <1>2 DEF Top
    <3>2. stack' \in Seq(StackFrame) /\ stack'[T - 1] \in StackFrame
      BY <1>2, <3>1 DEF StackOK
    <3> QED
      BY <1>2, <3>1, <3>2 DEF StackOK, CodeOf
  <2>2. Running'.build \in DOMAIN Code /\ Disciplined
    BY <2>1, Typed DEF StackFrame
  <2>3. Here' = Code[Running'.build][Running'.code][Running'.at]
    BY DEF Here, Operation, CodeOf
  <2> QED
    BY <1>2, <2>1, <2>2, <2>3, ReadsBytes
<1>5. InFlight' = <<>>
  BY <1>4 DEF InFlight
<1>6. InFlight = <<>>
  <2>1. Here[1] # "TakeByte"
    BY DEF Iret, Executes
  <2> QED
    BY <2>1, InFlightFacts
<1>7. BytesInOrder'
  BY <1>1, <1>5, <1>6 DEF BytesOK, BytesInOrder
<1> QED
  BY <1>2, <1>3, <1>4, <1>7 DEF BytesOK, Here

LEMMA LoadKeepsBytes ==
  ASSUME IInv, LoadByte
  PROVE  BytesOK' /\ obf' \in 0 .. MaxKeys /\ loaded' \in 0 .. typed
<1>1. /\ BytesOK /\ loaded \in 0 .. typed /\ typed \in 0 .. MaxKeys
      /\ handled \in Seq(1 .. MaxKeys) /\ InFlight \in Seq(0 .. MaxKeys)
  <2>1. InFlight \in Seq(0 .. MaxKeys)
    <3>1. PICK sc \in 0 .. MaxKeys : InFlight = <<>> \/ InFlight = <<sc>>
      BY InFlightFacts
    <3>2. <<>> \in Seq(0 .. MaxKeys) /\ <<sc>> \in Seq(0 .. MaxKeys)
      OBVIOUS
    <3> QED
      BY <3>1, <3>2
  <2> QED
    BY <2>1 DEF IInv, TypeOK
<1>2. /\ obf = NONE /\ obf' = loaded + 1 /\ loaded' = loaded + 1 /\ loaded < typed
      /\ stack' = stack /\ handled' = handled
  BY DEF LoadByte
<1>3. loaded + 1 \in 1 .. MaxKeys /\ loaded + 1 # NONE /\ loaded \in Nat
  BY <1>1, <1>2, InterruptsAssumption DEF NONE
<1>4. InFlight' = InFlight
  BY <1>2 DEF InFlight, Running, Here, Operation, CodeOf, Top
<1>5. handled \o InFlight = Sent(loaded)
  <2>1. handled \o InFlight \o <<>> = handled \o InFlight
    BY <1>1, InterruptsAssumption
  <2> QED
    BY <1>1, <1>2, <2>1 DEF BytesOK, BytesInOrder, Sent
<1>6. BytesInOrder'
  BY <1>2, <1>3, <1>4, <1>5, OneMoreSent DEF BytesInOrder, Sent
<1>7. /\ \A k \in 1 .. Top : Ahead(stack[k], "ScanKeyboard") => stack[k].scancode = NONE
      /\ Operation(Running)[1] = "TakeByte" => Running.scancode # NONE
  BY <1>1 DEF BytesOK
<1> QED
  BY <1>1, <1>2, <1>3, <1>6, <1>7 DEF BytesOK, Ahead, CodeOf, Operation, Running, Top

-----------------------------------------------------------------------------
(* The time *)

(* SleepOK is about these numbers only.                                    *)
Counted(time, u, t, e) ==
  \/ e = EdgeCap
  \/ time + TICK * u <= t - USEC + (e + 1) * TICK

LEMMA CountLess ==
  ASSUME NEW time \in Nat, NEW u \in 0 .. 2, NEW v \in 0 .. 2, NEW t \in Nat, NEW e \in Nat,
         v <= u, Counted(time, u, t, e)
  PROVE  Counted(time, v, t, e)
<1>1. TICK \in Nat /\ USEC \in Nat
  BY InterruptsAssumption
<1>2. TICK * v <= TICK * u
  BY <1>1
<1>3. (e + 1) * TICK \in Nat /\ TICK * v \in Nat /\ TICK * u \in Nat
  BY <1>1
<1> QED
  BY <1>1, <1>2, <1>3 DEF Counted

(* A tick comes, and is counted.                                           *)
LEMMA CountTick ==
  ASSUME NEW time \in Nat, NEW u \in 0 .. 2, NEW v \in 0 .. 2, NEW t \in Nat, NEW e \in Nat,
         v <= u + 1, Counted(time, u, t, e), e # EdgeCap
  PROVE  Counted(time, v, t, e + 1)
<1>1. TICK \in Nat /\ USEC \in Nat
  BY InterruptsAssumption
<1>2. TICK * v <= TICK * u + TICK
  BY <1>1
<1>3. (e + 1 + 1) * TICK = (e + 1) * TICK + TICK
  BY <1>1
<1>4. (e + 1) * TICK \in Nat /\ TICK * v \in Nat /\ TICK * u \in Nat
  BY <1>1
<1> QED
  BY <1>1, <1>2, <1>3, <1>4 DEF Counted

LEMMA CountAdd ==
  ASSUME NEW time \in Nat, NEW u \in 0 .. 2, NEW v \in 0 .. 2, NEW t \in Nat, NEW e \in Nat,
         v + 1 <= u, Counted(time, u, t, e)
  PROVE  Counted(time + TICK, v, t, e)
<1>1. TICK \in Nat /\ USEC \in Nat
  BY InterruptsAssumption
<1>2. TICK * v + TICK <= TICK * u
  BY <1>1
<1>3. (e + 1) * TICK \in Nat /\ TICK * v \in Nat /\ TICK * u \in Nat
  BY <1>1
<1> QED
  BY <1>1, <1>2, <1>3 DEF Counted

LEMMA CountBegins ==
  ASSUME NEW time \in Nat, NEW v \in 0 .. 1
  PROVE  Counted(time, v, time + USEC, 0)
<1>1. TICK \in Nat /\ USEC \in Nat
  BY InterruptsAssumption
<1>2. TICK * v <= TICK /\ TICK * v \in Nat
  BY <1>1
<1> QED
  BY <1>1, <1>2 DEF Counted

LEMMA EdgeCapFacts ==
  /\ EdgeCap \in Nat \ {0}
  /\ (EdgeCap + 1) * TICK >= USEC
<1> DEFINE q == USEC \div TICK
<1>1. TICK \in Nat \ {0} /\ USEC \in Nat
  BY InterruptsAssumption
<1>2. q \in Int /\ USEC % TICK \in 0 .. TICK - 1 /\ USEC = TICK * q + (USEC % TICK)
  BY <1>1
<1>3. EdgeCap = q + 1
  BY DEF EdgeCap
<1> HIDE DEF q
<1>4. q >= 0
  <2> SUFFICES ASSUME q <= -1 PROVE FALSE
    BY <1>2
  <2>1. PICK k \in Nat : q = -1 - k
    <3>1. -1 - q \in Nat
      BY <1>2
    <3> QED
      BY <3>1, <1>2
  <2>2. TICK * q = -TICK - TICK * k
    BY <1>1, <2>1
  <2>3. TICK * k \in Nat
    BY <1>1, <2>1
  <2> QED
    BY <1>1, <1>2, <2>2, <2>3
<1>5. (EdgeCap + 1) * TICK = TICK * q + TICK + TICK
  BY <1>1, <1>2, <1>3
<1>6. TICK * q \in Int
  BY <1>1, <1>2
<1> QED
  BY <1>1, <1>2, <1>3, <1>4, <1>5, <1>6

Pending == IF 0 \in irr THEN 1 ELSE 0
Counting == IF Running.code = "timer" /\ Ahead(Running, "AddTime") THEN 1 ELSE 0

LEMMA UncountedFacts ==
  /\ Uncounted \in 0 .. 2
  /\ Counting \in {0, 1}
BY DEF Uncounted, Counting

LEMMA UncountedLater ==
  /\ Uncounted' \in 0 .. 2
  /\ Counting' \in {0, 1}
  /\ Running'.code # "timer" => Uncounted' \in 0 .. 1
  /\ Pending' = Pending /\ Counting' <= Counting => Uncounted' <= Uncounted
  /\ Pending' = Pending /\ Counting' = 0 /\ Counting = 1 => Uncounted' + 1 <= Uncounted
  /\ Counting' = Counting => Uncounted' <= Uncounted + 1
  /\ Pending = 1 /\ Pending' = 0 /\ Counting = 0 => Uncounted' <= Uncounted
BY DEF Uncounted, Pending, Counting

LEMMA SleepFacts ==
  ASSUME IInv
  PROVE  /\ Operation(stack[1])[1] = "wait" => Counted(system_time, Uncounted, until, edges)
         /\ system_time \in Nat /\ until \in Nat /\ edges \in 0 .. EdgeCap /\ edges \in Nat
         /\ EdgeCap \in Nat \ {0}
<1>1. EdgeCap \in Nat \ {0} /\ edges \in 0 .. EdgeCap
  BY EdgeCapFacts DEF IInv, TypeOK
<1> QED
  BY <1>1 DEF IInv, TypeOK, SleepOK, Counted

LEMMA MoveKeepsSleep ==
  ASSUME IInv, NEW m \in Nat, MovesTo(m)
  PROVE  SleepOK' /\ system_time' \in Nat /\ until' \in Nat /\ edges' \in 0 .. EdgeCap
<1> PICK u, v : u = Uncounted /\ v = Uncounted'
  OBVIOUS
<1>1. u \in 0 .. 2 /\ v \in 0 .. 2
  BY UncountedFacts, UncountedLater
<1>2. /\ system_time' = IF Here[1] = "AddTime" THEN system_time + TICK ELSE system_time
      /\ until' = IF Here[1] = "usleep" THEN system_time + USEC ELSE until
      /\ edges' = IF Here[1] = "usleep" THEN 0 ELSE edges
      /\ irr' = IF Here[1] = "ICW1" THEN {} ELSE irr
      /\ m \in Successors(Here, Running.at)
  BY DEF MovesTo
<1>3. system_time' \in Nat /\ until' \in Nat /\ edges' \in 0 .. EdgeCap
  BY <1>2, SleepFacts, InterruptsAssumption
<1>4. /\ Running'.code = Running.code /\ Running'.at = m /\ Top' = Top /\ Top \in 1 .. 3
      /\ CodeOf(Running)' = CodeOf(Running) /\ Running' = stack'[Top]
      /\ \A k \in 1 .. Top : k # Top => stack'[k] = stack[k]
  BY StackOfMove, Typed
<1>5. /\ TimeCode(Running.code, CodeOf(Running)) /\ SleepCode(CodeOf(Running))
      /\ Running.at \in DOMAIN CodeOf(Running) /\ Here = CodeOf(Running)[Running.at]
      /\ Running.at \in Nat /\ CodeOf(Running) \in Seq(STRING \X Nat)
  BY Typed, RunningFacts, CodeFacts DEF CodeOf, Here, Operation
<1> SUFFICES ASSUME Operation(stack'[1])[1] = "wait"
             PROVE  Counted(system_time', v, until', edges')
  BY <1>3 DEF SleepOK, Counted, Operation, CodeOf
<1>6. CASE Top = 1
  <2>1. CodeOf(Running)[m][1] = "wait"
    BY <1>4, <1>6 DEF Operation, CodeOf
  <2>2. Here = <<"usleep", 0>>
    BY <1>2, <1>5, <2>1 DEF SleepCode
  <2>3. Running'.code = "main"
    BY <1>4, <1>6, Typed
  <2>4. v \in 0 .. 1
    BY <2>3, UncountedLater
  <2> QED
    BY <1>2, <2>2, <2>4, SleepFacts, CountBegins
<1>7. CASE Top # 1
  <2>1. Here[1] \in HandlerOps /\ Running.code # "main"
    BY <1>7, Typed, RunningFacts
  <2>2. irr' = irr /\ until' = until /\ edges' = edges
    BY <1>2, <2>1 DEF HandlerOps
  <2>3. Counted(system_time, u, until, edges)
    BY <1>4, <1>7, SleepFacts DEF Operation, CodeOf
  <2>4. Pending' = Pending
    BY <2>2 DEF Pending
  <2>5. CASE Here[1] = "AddTime"
    <3>1. /\ Running.code = "timer"
          /\ \A n, k \in DOMAIN CodeOf(Running) :
               CodeOf(Running)[n][1] = "AddTime" /\ CodeOf(Running)[k][1] = "AddTime" => k = n
      BY <1>5, <2>5 DEF TimeCode
    <3>2. Counting' = 0
      BY <2>1, <2>5, <3>1, OnceDone DEF Counting
    <3>3. Counting = 1
      <4>1. Running.at \in Running.at .. Len(CodeOf(Running))
        BY <1>5
      <4> QED
        BY <1>5, <2>5, <3>1, <4>1 DEF Counting, Ahead
    <3>4. v + 1 <= u
      BY <2>4, <3>2, <3>3, UncountedFacts, UncountedLater
    <3> QED
      BY <1>1, <1>2, <2>2, <2>3, <2>5, <3>4, SleepFacts, CountAdd
  <2>6. CASE Here[1] # "AddTime"
    <3>1. Counting' <= Counting
      BY <1>4, <2>1, AheadOfMove DEF Counting
    <3>2. v <= u
      BY <2>4, <3>1, UncountedFacts, UncountedLater
    <3> QED
      BY <1>1, <1>2, <2>2, <2>3, <2>6, <3>2, SleepFacts, CountLess
  <2> QED
    BY <2>5, <2>6
<1> QED
  BY <1>4, <1>6, <1>7

(* An interrupt taken or ended, a byte.                                    *)
LEMMA NoLessCounted ==
  ASSUME IInv, UNCHANGED <<system_time, until, edges>>, stack'[1] = stack[1],
         Uncounted' <= Uncounted \/ Operation(stack[1])[1] # "wait"
  PROVE  SleepOK'
<1> PICK u, v : u = Uncounted /\ v = Uncounted'
  OBVIOUS
<1>1. u \in 0 .. 2 /\ v \in 0 .. 2
  BY UncountedFacts, UncountedLater
<1> SUFFICES ASSUME Operation(stack'[1])[1] = "wait"
             PROVE  Counted(system_time, v, until, edges)
  BY DEF SleepOK, Counted, Operation, CodeOf
<1>2. Counted(system_time, u, until, edges) /\ v <= u
  BY SleepFacts DEF Operation, CodeOf
<1> QED
  BY <1>1, <1>2, SleepFacts, CountLess

LEMMA TickKeepsSleep ==
  ASSUME IInv, Tick
  PROVE  SleepOK' /\ edges' \in 0 .. EdgeCap
<1> PICK u, v : u = Uncounted /\ v = Uncounted'
  OBVIOUS
<1>1. u \in 0 .. 2 /\ v \in 0 .. 2
  BY UncountedFacts, UncountedLater
<1>2. /\ UNCHANGED <<stack, system_time, until>>
      /\ edges' = IF edges < EdgeCap THEN edges + 1 ELSE edges
  BY DEF Tick
<1>3. v <= u + 1
  <2>1. Counting' = Counting
    BY <1>2 DEF Counting, Running, Top, Ahead, CodeOf
  <2> QED
    BY <2>1, UncountedFacts, UncountedLater
<1>4. edges' \in 0 .. EdgeCap
  BY <1>2, SleepFacts
<1> SUFFICES ASSUME Operation(stack[1])[1] = "wait"
             PROVE  Counted(system_time, v, until, edges')
  BY <1>2, <1>4 DEF SleepOK, Counted, Operation, CodeOf
<1>5. CASE edges = EdgeCap
  BY <1>2, <1>5, SleepFacts DEF Counted
<1>6. CASE edges # EdgeCap
  <2>1. edges' = edges + 1
    BY <1>2, <1>6, SleepFacts
  <2> QED
    BY <1>1, <1>3, <1>6, <2>1, SleepFacts, CountTick
<1> QED
  BY <1>5, <1>6

-----------------------------------------------------------------------------
(* Every step keeps the invariant *)

(* The types of what is set up are those of SetUpState.                    *)
LEMMA TypeOfSetUp ==
  ASSUME Disciplined, StackOK', Shape', SetUpHolds',
         {imr', irr', isr', saved'} \subseteq SUBSET IRQ,
         iflag' \in BOOLEAN, speaker' \in BOOLEAN,
         system_time' \in Nat, until' \in Nat, edges' \in 0 .. EdgeCap,
         typed' \in 0 .. MaxKeys, loaded' \in 0 .. typed', obf' \in 0 .. MaxKeys,
         handled' \in Seq(1 .. MaxKeys), cursor' \in Nat
  PROVE  TypeOK'
<1>1. stack' \in Seq(StackFrame) /\ Top' \in 1 .. 3 /\ Top' = Len(stack')
  BY DEF StackOK, Shape, Top
<1>2. stack'[1] \in StackFrame /\ stack'[1].at \in DOMAIN CodeOf(stack'[1])
  BY <1>1 DEF StackOK, CodeOf
<1>3. stack'[1].build \in DOMAIN Code /\ stack'[1].at \in DOMAIN Code[stack'[1].build].main
  BY <1>2 DEF StackFrame, Shape, CodeOf
<1>4. Now' \in SetUpState
  BY <1>3, SetUpTyped DEF Now
<1>5. /\ idtr' \in 0 .. 256 /\ limit' \in 0 .. 256
      /\ idt' \in [Vector -> {"none", "trap", "int", "bios"}]
      /\ icw' \in {0, 2, 3, 4} /\ offset' \in {8, 32}
  BY <1>4 DEF SetUpHolds, SetUpState
<1> QED
  BY <1>5 DEF TypeOK, StackOK, CodeOf

LEMMA MoveStep ==
  ASSUME IInv, Move
  PROVE  IInv'
<1>1. PICK m \in Nat : MovesTo(m)
  BY MovesOn DEF IInv
<1>2. StackOK' /\ Shape' /\ SetUpHolds' /\ FlagsOK' /\ ServiceOK' /\ ConsoleOK' /\ BytesOK' /\ SleepOK'
  BY <1>1, MoveKeepsStack, MoveKeepsSetUp, MoveKeepsFlags, MoveKeepsService,
     MoveKeepsConsole, MoveKeepsBytes, MoveKeepsSleep
<1>3. imr' \in SUBSET IRQ /\ saved' \in SUBSET IRQ /\ iflag' \in BOOLEAN /\ isr' \in SUBSET IRQ
  BY <1>1, MoveKeepsSetUp, MoveKeepsFlags, MoveKeepsService
<1>4. /\ cursor' \in Nat /\ obf' \in 0 .. MaxKeys /\ handled' \in Seq(1 .. MaxKeys)
      /\ system_time' \in Nat /\ until' \in Nat /\ edges' \in 0 .. EdgeCap
  BY <1>1, MoveKeepsConsole, MoveKeepsBytes, MoveKeepsSleep
<1>5. irr' \in SUBSET IRQ /\ speaker' \in BOOLEAN
      /\ typed' \in 0 .. MaxKeys /\ loaded' \in 0 .. typed'
  BY <1>1 DEF MovesTo, IInv, TypeOK
<1>6. Disciplined
  BY DEF IInv
<1>7. TypeOK'
  BY <1>2, <1>3, <1>4, <1>5, <1>6, TypeOfSetUp
<1> QED
  BY <1>2, <1>6, <1>7 DEF IInv, Disciplined

LEMMA IretStep ==
  ASSUME IInv, Iret
  PROVE  IInv'
<1>1. UNCHANGED <<idtr, limit, idt, imr, irr, isr, icw, offset, saved, system_time, until,
                  edges, speaker, typed, loaded, obf, handled, cursor>>
  BY DEF Iret, pic, timer, kbd
<1>2. TypeOK /\ Disciplined
  BY DEF IInv
<1>3. /\ StackOK' /\ Shape' /\ stack'[1] = stack[1]
      /\ Running'.code \in {"main", "trap"}
  BY PopKeepsStack
<1>4. SetUpHolds' /\ Now' = Now
  BY <1>1, <1>3, SetUpKept DEF IInv, SetUpHolds
<1>5. FlagsOK' /\ iflag' \in BOOLEAN
  BY <1>4, PopKeepsFlags
<1>6. ServiceOK'
  BY <1>1, Returns DEF ServiceOK
<1>7. ConsoleOK' /\ BytesOK'
  BY <1>1, PopKeepsConsole, PopKeepsBytes
<1>8. Uncounted' <= Uncounted
  <2>1. Counting' = 0
    BY <1>3 DEF Counting
  <2> QED
    BY <1>1, <2>1, UncountedFacts, UncountedLater DEF Pending
<1>9. SleepOK'
  BY <1>1, <1>3, <1>8, NoLessCounted
<1>10. TypeOK'
  BY <1>1, <1>2, <1>3, <1>4, <1>5, TypeOfSetUp DEF TypeOK
<1> QED
  BY <1>2, <1>3, <1>4, <1>5, <1>6, <1>7, <1>9, <1>10 DEF IInv, Disciplined

LEMMA DeliverStep ==
  ASSUME IInv, NEW i \in IRQ, Deliver(i)
  PROVE  IInv'
<1> DEFINE c == IsrOf(i)
<1>1. /\ UNCHANGED <<idtr, limit, idt, imr, icw, offset, saved, system_time, until,
                     edges, speaker, typed, loaded, obf, handled, cursor>>
      /\ irr' = irr \ {i} /\ isr' = isr \cup {i} /\ i \in irr
      /\ iflag = TRUE /\ iflag' = FALSE
  BY Delivers DEF Deliver, Requested, timer, kbd, IInv, TypeOK
<1>2. TypeOK /\ Disciplined
  BY DEF IInv
<1>3. /\ Pushed(c, TRUE) /\ c \in Handlers /\ c \in DOMAIN Code[Running.build]
      /\ Running.code \notin Handlers /\ Top \in 1 .. 2 /\ (Top = 2 => Running.code = "trap")
      /\ isr = {}
      /\ LineOK(stack[1].build, Now, Operation(stack[1]), i)
  BY Delivers
<1> HIDE DEF c
<1>4. /\ StackOK' /\ Shape' /\ stack'[1] = stack[1]
      /\ Running' = Frame(Running.build, c, TRUE)
      /\ CodeOf(Running)' = Code[Running.build][c]
  <2>1. TRUE \in BOOLEAN
    OBVIOUS
  <2>2. stack'[1] = stack[1]
    BY <1>3 DEF Pushed
  <2> QED
    BY <1>3, <2>1, <2>2, PushKeepsStack
<1>5. SetUpHolds' /\ Now' = Now
  <2>1. irr' \subseteq Lines(stack[1].build) /\ (typed' > 0 => Lines(stack[1].build) = IRQ)
    BY <1>1 DEF IInv, SetUpHolds
  <2> QED
    BY <1>1, <1>4, <2>1, SetUpKept
<1>6. FlagsOK'
  BY <1>1, <1>3, <1>5, PushKeepsFlags
<1>7. ServiceOK'
  <2>1. Running'.code = c /\ Running'.at = 1
    BY <1>4 DEF Frame
  <2>2. ~Acknowledged(CodeOf(Running)', Running'.at)
    BY <2>1 DEF Acknowledged
  <2> QED
    BY <1>1, <1>3, <2>1, <2>2 DEF ServiceOK
<1>8. ConsoleOK'
  <2>1. ASSUME NEW k \in 1 .. Top, Operation(stack[k])[1] = "SetTextCursor"
        PROVE  k = Top /\ ~Has(Code[Running.build][c], "SetTextCursor")
    <3>1. CASE Top = 1
      BY <1>3, <2>1, <3>1, Typed DEF LineOK, c
    <3>2. CASE Top = 2
      <4>1. Operation(stack[1])[1] = "Menu" /\ Running = stack[2] /\ Running.code = "trap"
        BY <1>3, <3>2, Typed DEF Shape, Running
      <4>2. k = 2 /\ Here[1] = "SetTextCursor"
        BY <2>1, <3>2, <4>1 DEF Here
      <4>3. ConsoleCode("trap", CodeOf(Running)) /\ Running.at \in DOMAIN CodeOf(Running)
            /\ Here = CodeOf(Running)[Running.at] /\ Running.at \in Nat \ {0}
            /\ CodeOf(Running) = Code[Running.build].trap
        BY <4>1, Typed, RunningFacts, CodeFacts DEF CodeOf, Here, Operation
      <4>4. CodeOf(Running)[1] = <<"cli", 0>> /\ Running.at > 1
        BY <4>2, <4>3 DEF ConsoleCode, Has
      <4>5. ~iflag
        <5>1. FlagsOK /\ FlagAt(2) = iflag
          BY <3>2, Typed DEF IInv
        <5> QED
          BY <3>2, <4>1, <4>3, <4>4, <5>1 DEF FlagsOK
      <4> QED
        BY <1>1, <4>5
    <3> QED
      BY <1>3, <3>1, <3>2
  <2> QED
    BY <1>1, <1>3, <2>1, PushKeepsConsole
<1>9. BytesOK'
  BY <1>1, <1>3, PushKeepsBytes DEF Handlers
<1>10. Uncounted' <= Uncounted
  <2>1. Counting = 0
    BY <1>3 DEF Counting, Handlers
  <2>2. CASE i = 0
    <3>1. Pending = 1 /\ Pending' = 0
      BY <1>1, <2>2 DEF Pending
    <3> QED
      BY <2>1, <3>1, UncountedLater
  <2>3. CASE i = 1
    <3>1. Pending' = Pending
      BY <1>1, <2>3 DEF Pending
    <3>2. Counting' = 0
      BY <1>4, <2>3 DEF Counting, Frame, c, IsrOf
    <3> QED
      BY <2>1, <3>1, <3>2, UncountedLater
  <2> QED
    BY <2>2, <2>3 DEF IRQ
<1>11. SleepOK'
  BY <1>1, <1>4, <1>10, NoLessCounted
<1>12. TypeOK'
  <2>1. {imr', irr', isr', saved'} \subseteq SUBSET IRQ
    BY <1>1, <1>2 DEF TypeOK
  <2> QED
    BY <1>1, <1>2, <1>4, <1>5, <2>1, TypeOfSetUp DEF TypeOK
<1> QED
  BY <1>2, <1>4, <1>5, <1>6, <1>7, <1>8, <1>9, <1>11, <1>12 DEF IInv, Disciplined

LEMMA FaultStep ==
  ASSUME IInv, MenuFault
  PROVE  IInv'
<1>1. UNCHANGED <<idtr, limit, idt, imr, irr, isr, icw, offset, saved, system_time, until,
                  edges, speaker, typed, loaded, obf, handled, cursor>>
  BY DEF MenuFault, pic, timer, kbd
<1>2. TypeOK /\ Disciplined
  BY DEF IInv
<1>3. /\ Top = 1 /\ Operation(stack[1])[1] = "Menu"
      /\ isr = {}
      /\ "trap" \in DOMAIN Code[Running.build]
      /\ Pushed("trap", iflag) /\ iflag' \in BOOLEAN /\ (iflag' => iflag) /\ iflag \in BOOLEAN
  BY <1>2, Faults DEF TypeOK
<1>4. StackOK' /\ Shape' /\ stack'[1] = stack[1]
  BY <1>3, PushKeepsStack DEF Pushed
<1>5. SetUpHolds' /\ Now' = Now
  BY <1>1, <1>4, SetUpKept DEF IInv, SetUpHolds
<1>6. FlagsOK'
  BY <1>3, <1>5, PushKeepsFlags DEF Handlers
<1>7. ServiceOK'
  BY <1>1, <1>3 DEF ServiceOK
<1>8. ConsoleOK'
  BY <1>1, <1>3, PushKeepsConsole
<1>9. BytesOK'
  <2>1. Running.code # "keyboard"
    BY <1>3, Typed
  <2> QED
    BY <1>1, <1>3, <2>1, PushKeepsBytes
<1>10. SleepOK'
  BY <1>1, <1>3, <1>4, NoLessCounted
<1>11. TypeOK'
  BY <1>1, <1>2, <1>3, <1>4, <1>5, TypeOfSetUp DEF TypeOK
<1> QED
  BY <1>2, <1>4, <1>5, <1>6, <1>7, <1>8, <1>9, <1>10, <1>11 DEF IInv, Disciplined

LEMMA TickStep ==
  ASSUME IInv, Tick
  PROVE  IInv'
<1>1. /\ UNCHANGED <<stack, iflag, idtr, limit, idt, imr, isr, icw, offset, saved, system_time,
                     until, speaker, typed, loaded, obf, handled, cursor>>
      /\ irr' = irr \cup {0}
  BY DEF Tick, cpu, kbd
<1>2. TypeOK /\ Disciplined
  BY DEF IInv
<1>3. StackOK' /\ Shape'
  BY <1>1, Typed DEF StackOK, Shape, Top, CodeOf, Operation
<1>4. SetUpHolds' /\ Now' = Now
  <2>1. irr' \subseteq Lines(stack[1].build)
    BY <1>1 DEF IInv, SetUpHolds, Lines, IRQ
  <2> QED
    BY <1>1, <2>1, SetUpKept DEF IInv, SetUpHolds
<1>5. FlagsOK' /\ ServiceOK' /\ ConsoleOK'
  BY <1>1, <1>4 DEF IInv, FlagsOK, FlagAt, ServiceOK, ConsoleOK, Top, Running, CodeOf, Operation
<1>6. BytesOK'
  BY <1>1 DEF IInv, BytesOK, BytesInOrder, InFlight, Ahead, Here, Top, Running, CodeOf, Operation
<1>7. SleepOK' /\ edges' \in 0 .. EdgeCap
  BY TickKeepsSleep
<1>8. TypeOK'
  <2>1. {imr', irr', isr', saved'} \subseteq SUBSET IRQ
    BY <1>1, <1>2 DEF TypeOK, IRQ
  <2> QED
    BY <1>1, <1>2, <1>3, <1>4, <1>7, <2>1, TypeOfSetUp DEF TypeOK
<1> QED
  BY <1>2, <1>3, <1>4, <1>5, <1>6, <1>7, <1>8 DEF IInv, Disciplined

(* No byte comes before it can be served.                                  *)
LEMMA TypeStep ==
  ASSUME IInv, Type
  PROVE  IInv'
<1>1. /\ UNCHANGED <<stack, iflag, idtr, limit, idt, imr, irr, isr, icw, offset, saved, system_time,
                     until, edges, speaker, loaded, obf, handled, cursor>>
      /\ typed' = typed + 1 /\ typed < MaxKeys
      /\ EarlyKeys \/ icw # 0 \/ offset # 8
  BY DEF Type, PicInitialised, cpu, pic, timer
<1>2. TypeOK /\ Disciplined
  BY DEF IInv
<1>3. StackOK' /\ Shape'
  BY <1>1, Typed DEF StackOK, Shape, Top, CodeOf, Operation
<1>4. Lines(stack[1].build) = IRQ
  <2>1. icw = Now.icw /\ offset = Now.offset
    BY DEF IInv, SetUpHolds
  <2> QED
    BY <1>1, <2>1, Typed DEF Lines, Now
<1>5. SetUpHolds' /\ Now' = Now
  BY <1>1, <1>4, SetUpKept DEF IInv, SetUpHolds
<1>6. FlagsOK' /\ ServiceOK' /\ ConsoleOK'
  BY <1>1, <1>5 DEF IInv, FlagsOK, FlagAt, ServiceOK, ConsoleOK, Top, Running, CodeOf, Operation
<1>7. BytesOK'
  BY <1>1 DEF IInv, BytesOK, BytesInOrder, InFlight, Ahead, Here, Top, Running, CodeOf, Operation
<1>8. SleepOK'
  BY <1>1 DEF IInv, SleepOK, Uncounted, Ahead, Top, Running, CodeOf, Operation
<1>9. typed' \in 0 .. MaxKeys /\ loaded' \in 0 .. typed'
  BY <1>1, <1>2, InterruptsAssumption DEF TypeOK
<1>10. TypeOK'
  BY <1>1, <1>2, <1>3, <1>5, <1>9, TypeOfSetUp DEF TypeOK
<1> QED
  BY <1>2, <1>3, <1>5, <1>6, <1>7, <1>8, <1>10 DEF IInv, Disciplined

LEMMA LoadStep ==
  ASSUME IInv, LoadByte
  PROVE  IInv'
<1>1. /\ UNCHANGED <<stack, iflag, idtr, limit, idt, imr, isr, icw, offset, saved, system_time,
                     until, edges, speaker, typed, handled, cursor>>
      /\ irr' = irr \cup {1} /\ loaded < typed
  BY DEF LoadByte, cpu, timer
<1>2. TypeOK /\ Disciplined
  BY DEF IInv
<1>3. StackOK' /\ Shape'
  BY <1>1, Typed DEF StackOK, Shape, Top, CodeOf, Operation
<1>4. SetUpHolds' /\ Now' = Now
  <2>1. typed > 0
    BY <1>1, <1>2 DEF TypeOK
  <2>2. Lines(stack[1].build) = IRQ
    BY <2>1 DEF IInv, SetUpHolds
  <2>3. irr' \subseteq Lines(stack[1].build)
    BY <1>1, <1>2, <2>2 DEF TypeOK, IRQ
  <2> QED
    BY <1>1, <2>2, <2>3, SetUpKept
<1>5. FlagsOK' /\ ServiceOK' /\ ConsoleOK'
  BY <1>1, <1>4 DEF IInv, FlagsOK, FlagAt, ServiceOK, ConsoleOK, Top, Running, CodeOf, Operation
<1>6. BytesOK' /\ obf' \in 0 .. MaxKeys /\ loaded' \in 0 .. typed'
  BY <1>1, LoadKeepsBytes
<1>7. SleepOK'
  <2>1. 0 \in irr' <=> 0 \in irr
    BY <1>1
  <2> QED
    BY <1>1, <2>1 DEF IInv, SleepOK, Uncounted, Ahead, Top, Running, CodeOf, Operation
<1>8. TypeOK'
  <2>1. {imr', irr', isr', saved'} \subseteq SUBSET IRQ
    BY <1>1, <1>2 DEF TypeOK, IRQ
  <2> QED
    BY <1>1, <1>2, <1>3, <1>4, <1>6, <2>1, TypeOfSetUp DEF TypeOK
<1> QED
  BY <1>2, <1>3, <1>4, <1>5, <1>6, <1>7, <1>8 DEF IInv, Disciplined

LEMMA IInvInit ==
  ASSUME Disciplined, Init
  PROVE  IInv
<1>1. PICK b \in DOMAIN Code : stack = <<Frame(b, "main", FALSE)>>
  BY DEF Init
<1> DEFINE f == Frame(b, "main", FALSE)
<1>2. /\ f \in StackFrame /\ f.build = b /\ f.code = "main" /\ f.at = 1 /\ f.scancode = NONE
      /\ f.flags = FALSE
  BY InterruptsAssumption DEF Frame, StackFrame, NONE
<1>3. "main" \in DOMAIN Code[b] /\ SetUpOK(b)
  BY DEF Disciplined
<1>4. FlowOK("main", Code[b].main)
  BY <1>3, CodeFacts
<1>5. 1 \in DOMAIN Code[b].main
  BY <1>4 DEF FlowOK
<1> HIDE DEF f
<1>6. stack = <<f>> /\ Top = 1 /\ Running = f /\ stack[1] = f
  BY <1>1 DEF f, Top, Running
<1>7. CodeOf(f) = Code[b].main
  BY <1>2 DEF CodeOf
<1>8. StackOK
  <2>1. stack \in Seq(StackFrame) /\ stack # <<>>
    BY <1>2, <1>6
  <2> QED
    BY <1>2, <1>3, <1>5, <1>6, <1>7, <2>1 DEF StackOK
<1>9. Shape
  BY <1>2, <1>6 DEF Shape
<1>10. Now = Start(b)
  BY <1>2, <1>3, <1>6 DEF SetUpOK, Now
<1>11. Now \in SetUpState
  BY <1>2, <1>5, <1>6, SetUpTyped DEF Now
<1>12. SetUpHolds
  <2>1. 0 \in Lines(b)
    BY DEF Lines, IRQ
  <2>2. irr \in SUBSET {0} /\ typed = 0
    BY DEF Init
  <2>3. /\ imr = {} /\ saved = {} /\ icw = 0 /\ offset = 8 /\ limit = 0
        /\ idtr = IF b \in RealModeBuilds THEN 256 ELSE 0
        /\ idt = [v \in Vector |-> IF b \in RealModeBuilds THEN "bios" ELSE "none"]
    BY <1>2, <1>6 DEF Init
  <2> QED
    BY <1>2, <1>6, <1>10, <2>1, <2>2, <2>3 DEF SetUpHolds, Start
<1>13. FlagsOK /\ ServiceOK
  BY <1>2, <1>6 DEF Init, FlagsOK, FlagAt, ServiceOK, Handlers
<1>14. Operation(f) = Code[b].main[1]
  BY <1>2, <1>7 DEF Operation
<1>15. ConsoleOK
  <2>1. Code[b].main[1][1] # "SetTextCursor"
    BY <1>3, CodeFacts DEF ConsoleCode
  <2> QED
    BY <1>6, <1>14, <2>1 DEF ConsoleOK
<1>16. BytesOK
  <2>1. Code[b].main[1][1] # "TakeByte"
    BY <1>3, CodeFacts DEF ByteCode
  <2>2. InFlight = <<>>
    BY <1>2, <1>6 DEF InFlight
  <2>3. handled = <<>> /\ obf = NONE /\ loaded = 0
    BY DEF Init
  <2>4. <<>> \o <<>> \o <<>> = [i \in 1 .. 0 |-> i]
    OBVIOUS
  <2>5. BytesInOrder
    BY <2>2, <2>3, <2>4 DEF BytesInOrder
  <2> QED
    BY <1>2, <1>6, <1>14, <2>1, <2>5 DEF BytesOK
<1>17. SleepOK
  <2>1. Code[b].main[1][1] # "wait"
    BY <1>3, CodeFacts DEF SleepCode
  <2> QED
    BY <1>6, <1>14, <2>1 DEF SleepOK
<1>18. TypeOK
  <2>1. /\ idtr \in 0 .. 256 /\ limit \in 0 .. 256
        /\ idt \in [Vector -> {"none", "trap", "int", "bios"}]
        /\ icw \in {0, 2, 3, 4} /\ offset \in {8, 32}
    BY <1>11, <1>12 DEF SetUpHolds, SetUpState
  <2>2. {imr, irr, isr, saved} \subseteq SUBSET IRQ
    BY DEF Init, IRQ
  <2>3. /\ iflag \in BOOLEAN /\ speaker \in BOOLEAN
        /\ system_time \in Nat /\ until \in Nat /\ edges \in 0 .. EdgeCap
        /\ typed \in 0 .. MaxKeys /\ loaded \in 0 .. typed /\ obf \in 0 .. MaxKeys
        /\ handled \in Seq(1 .. MaxKeys) /\ cursor \in Nat
    <3>1. <<>> \in Seq(1 .. MaxKeys) /\ 0 \in 0 .. MaxKeys /\ 0 \in 0 .. EdgeCap
      BY EdgeCapFacts, InterruptsAssumption
    <3>2. /\ iflag = FALSE /\ speaker = FALSE
          /\ system_time = 0 /\ until = 0 /\ edges = 0
          /\ typed = 0 /\ loaded = 0 /\ obf = 0 /\ handled = <<>> /\ cursor = 0
      BY DEF Init, NONE
    <3>3. iflag \in BOOLEAN /\ speaker \in BOOLEAN
      BY <3>2
    <3>4. 0 \in Nat /\ 0 \in 0 .. 0
      OBVIOUS
    <3>5. /\ system_time \in Nat /\ until \in Nat /\ edges \in 0 .. EdgeCap
          /\ typed \in 0 .. MaxKeys /\ loaded \in 0 .. typed /\ obf \in 0 .. MaxKeys
      BY <3>1, <3>2, <3>4
    <3>6. handled \in Seq(1 .. MaxKeys) /\ cursor \in Nat
      BY <3>1, <3>2, <3>4
    <3> QED
      BY <3>3, <3>5, <3>6
  <2> QED
    BY <1>8, <2>1, <2>2, <2>3 DEF TypeOK, StackOK
<1> QED
  BY <1>9, <1>12, <1>13, <1>15, <1>16, <1>17, <1>18 DEF IInv

LEMMA IInvNext ==
  ASSUME IInv, [Next]_vars
  PROVE  IInv'
<1>1. CASE Move
  BY <1>1, MoveStep
<1>2. CASE Iret
  BY <1>2, IretStep
<1>3. CASE Interrupt
  BY <1>3, DeliverStep DEF Interrupt
<1>4. CASE MenuFault
  BY <1>4, FaultStep
<1>5. CASE Tick
  BY <1>5, TickStep
<1>6. CASE Type
  BY <1>6, TypeStep
<1>7. CASE LoadByte
  BY <1>7, LoadStep
<1>8. CASE UNCHANGED vars
  <2>1. UNCHANGED <<stack, iflag, idtr, limit, idt, imr, irr, isr, icw, offset, saved, system_time,
                    until, edges, speaker, typed, loaded, obf, handled, cursor>>
    BY <1>8 DEF vars, cpu, pic, timer, kbd
  <2>2. Top' = Top /\ Running' = Running /\ Now' = Now
    BY <2>1 DEF Top, Running, Now
  <2>3. TypeOK' /\ Shape'
    BY <2>1, <2>2 DEF IInv, TypeOK, Shape, CodeOf, Operation
  <2>4. SetUpHolds' /\ FlagsOK' /\ ServiceOK'
    BY <2>1, <2>2 DEF IInv, SetUpHolds, FlagsOK, FlagAt, ServiceOK, CodeOf
  <2>5. ConsoleOK' /\ SleepOK'
    BY <2>1, <2>2 DEF IInv, ConsoleOK, CodeOf, Operation, SleepOK, Uncounted, Ahead
  <2>6. BytesOK'
    BY <2>1, <2>2 DEF IInv, BytesOK, BytesInOrder, InFlight, Here, CodeOf, Operation, Ahead
  <2> QED
    BY <2>3, <2>4, <2>5, <2>6 DEF IInv, Disciplined
<1> QED
  BY <1>1, <1>2, <1>3, <1>4, <1>5, <1>6, <1>7, <1>8 DEF Next, Program, Move

-----------------------------------------------------------------------------
(* The theorems.  Disciplined is a condition on the code of main() and of  *)
(* the handlers alone; that of the three builds meets it.                  *)

(* The invariant, with the types, in every build whose code is             *)
(* disciplined.                                                            *)
THEOREM InterruptsInvariant == Disciplined /\ Spec => []IInv
<1>1. Disciplined /\ Init => IInv
  BY IInvInit
<1>2. IInv /\ [Next]_vars => IInv'
  BY IInvNext
<1> QED
  BY <1>1, <1>2, PTL DEF Spec

(* The value of every variable is one the program or the hardware can      *)
(* store there, and no code runs past its end.                             *)
THEOREM InterruptsTyped == Disciplined /\ Spec => []TypeOK
<1>1. IInv => TypeOK
  BY DEF IInv
<1> QED
  BY <1>1, InterruptsInvariant, PTL

(* When the CPU would take an interrupt, the gate of that line's ISR is    *)
(* present and within the limit: enabling interrupts and unmasking a line  *)
(* come last in the set-up.                                                *)
THEOREM EveryInterruptReachesItsISR == Disciplined /\ Spec => []InterruptsReachTheirISR
<1>1. IInv => InterruptsReachTheirISR
  <2> SUFFICES ASSUME IInv, NEW i \in IRQ, iflag, Requested(i)
               PROVE  /\ offset + i < idtr
                      /\ idt[offset + i] # "none"
                      /\ HandlerOf(offset + i) = IF i = 0 THEN "timer" ELSE "keyboard"
    BY DEF InterruptsReachTheirISR
  <2>1. /\ idt = Now.idt /\ offset = Now.offset /\ idtr = Now.idtr
        /\ i \in Lines(stack[1].build) \ Now.masked
        /\ offset \in {8, 32}
    BY DEF IInv, SetUpHolds, TypeOK, Requested
  <2>2. LineOK(stack[1].build, Now, Operation(stack[1]), i)
    BY <2>1, NowFacts
  <2> QED
    BY <2>1, <2>2 DEF LineOK, HandlerOf, IRQ
<1> QED
  BY <1>1, InterruptsInvariant, PTL

(* No interrupt handler is interrupted, by the other line or by a fault.   *)
THEOREM NoHandlerInterrupted == Disciplined /\ Spec => []HandlersNotInterrupted
<1>1. IInv => HandlersNotInterrupted
  BY Typed DEF Shape, HandlersNotInterrupted, Handlers
<1> QED
  BY <1>1, InterruptsInvariant, PTL

(* Once no handler runs nothing is in service: every handler sends its EOI *)
(* on every path.                                                          *)
THEOREM EveryServiceEnds == Disciplined /\ Spec => []ServiceEnds
<1>1. IInv => ServiceEnds
  BY DEF IInv, ServiceOK, ServiceEnds
<1> QED
  BY <1>1, InterruptsInvariant, PTL

(* The keyboard's bytes are taken in the order they were sent, none lost   *)
(* and none twice.                                                         *)
THEOREM BytesKeepTheirOrder == Disciplined /\ Spec => []BytesInOrder
<1>1. IInv => BytesInOrder
  BY DEF IInv, BytesOK
<1> QED
  BY <1>1, InterruptsInvariant, PTL

(* Nobody writes to the console between WriteText()'s reading of the       *)
(* cursor and its setting it.                                              *)
THEOREM ConsoleIsNotShared == Disciplined /\ Spec => []ConsoleNotShared
<1>1. IInv => ConsoleNotShared
  BY DEF IInv, ConsoleOK, ConsoleNotShared
<1> QED
  BY <1>1, InterruptsInvariant, PTL

(* usleep() is at most one tick short, whatever the tick and the time      *)
(* asked for.                                                              *)
THEOREM SleepsLongEnough == Disciplined /\ Spec => SleepOneTickShort
<1>1. IInv /\ [Next]_vars => [SleepEnd => (edges + 1) * TICK >= USEC]_vars
  <2> SUFFICES ASSUME IInv, SleepEnd
               PROVE  (edges + 1) * TICK >= USEC
    OBVIOUS
  <2>1. Here = <<"wait", 0>> /\ system_time >= until
    BY DEF SleepEnd, Executes
  <2>2. Top = 1 /\ Operation(stack[1]) = Here
    <3>1. Top = 1
      BY <2>1, Typed, RunningFacts DEF HandlerOps
    <3> QED
      BY <3>1 DEF Here, Running
  <2>3. Counted(system_time, Uncounted, until, edges)
    BY <2>1, <2>2, SleepFacts
  <2>4. CASE edges = EdgeCap
    BY <2>4, EdgeCapFacts
  <2>5. CASE edges # EdgeCap
    <3>1. PICK u \in 0 .. 2 : u = Uncounted
      BY UncountedFacts
    <3>2. system_time + TICK * u <= until - USEC + (edges + 1) * TICK
      BY <2>3, <2>5, <3>1 DEF Counted
    <3>3. TICK * u \in Nat /\ (edges + 1) * TICK \in Nat /\ USEC \in Nat
      BY <3>1, SleepFacts, InterruptsAssumption
    <3> QED
      BY <2>1, <3>2, <3>3, SleepFacts
  <2> QED
    BY <2>4, <2>5
<1> QED
  BY <1>1, InterruptsInvariant, PTL DEF Spec, SleepOneTickShort
=============================================================================
