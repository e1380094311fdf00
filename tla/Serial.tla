------------------------------- MODULE Serial -------------------------------
(***************************************************************************)
(* The serial port: its 16550, the functions of libsys/serial.c that poll  *)
(* it, and stdio's calls on stdin and stdout, which are nothing more.  The *)
(* program that makes the calls is the module that EXTENDS this one.       *)
(*                                                                         *)
(* A byte is a string.  A poll that finds the port not ready changes       *)
(* nothing, so a polling loop is the guard of what follows it: no one but  *)
(* the program fills the transmitter or empties the receiver in between.   *)
(***************************************************************************)
EXTENDS Naturals, Lines

CONSTANTS
  Key,       \* the characters the terminal sends
  FifoSize   \* of the receiver: 16

NONE == "none"

ASSUME SerialAssumption == FifoSize \in Nat \ {0}

VARIABLES
  uart,      \* the registers COM_Init() writes
  tx, rx,    \* the transmitter's and the receiver's FIFO
  inits,     \* the writes made by the last call of COM_Init()
  text, at,  \* the string a call prints, and the character it is at
  crSent,    \* COM_WriteChar(): the carriage return has gone ahead
  c          \* what getchar() returned, NONE once it is answered

serial == <<uart, tx, rx, inits, text, at, crSent, c>>

SerialInit ==
  /\ uart \in {[r \in {"dll", "dlm", "ier", "fcr", "lcr", "mcr"} |->
                  IF r = "lcr" THEN b ELSE "unset"] : b \in {"unset", "0x03"}}
  /\ tx = <<>> /\ rx = <<>>
  /\ inits = 0
  /\ text = <<>> /\ at = 1
  /\ crSent = FALSE
  /\ c = NONE

-----------------------------------------------------------------------------
(* The 16550 *)

DLAB == uart["lcr"] = "0x80"

(* With the divisor latch access bit two of the ports lead elsewhere.      *)
Selects(port) ==
  CASE port = 0 -> IF DLAB THEN "dll" ELSE "thr"
    [] port = 1 -> IF DLAB THEN "dlm" ELSE "ier"
    [] port = 2 -> "fcr"
    [] port = 3 -> "lcr"
    [] port = 4 -> "mcr"

(* The byte COM_Init() writes to the FIFO control register clears both.    *)
Outb(port, byte) ==
  LET r == Selects(port) IN
    /\ uart' = IF r = "thr" THEN uart ELSE [uart EXCEPT ![r] = byte]
    /\ tx' = CASE r = "thr" -> Append(tx, byte) [] r = "fcr" -> <<>> [] OTHER -> tx
    /\ rx' = IF r = "fcr" THEN <<>> ELSE rx

(* There is no flow control: what is sent is gone, read or not.            *)
Transmit ==
  /\ tx # <<>>
  /\ tx' = Tail(tx)
  /\ UNCHANGED <<uart, rx, inits, text, at, crSent, c>>

(* A key beyond the FIFO is lost, which changes nothing.                   *)
Receive(k) ==
  /\ Len(rx) < FifoSize
  /\ rx' = Append(rx, k)
  /\ UNCHANGED <<uart, tx, inits, text, at, crSent, c>>

-----------------------------------------------------------------------------
(* libsys/serial.c and libc/stdio.c *)

(* Mutant of COM_InitWrites: the divisor is written as if it were data.    *)
COM_InitWritesNoLatch ==
  << <<1, "0x00">>, <<3, "0x03">>, <<0, "0x0C">>, <<1, "0x00">>, <<3, "0x03">>,
     <<2, "0xC7">>, <<4, "0x0B">> >>

COM_InitWrites ==
  << <<1, "0x00">>, <<3, "0x80">>, <<0, "0x0C">>, <<1, "0x00">>, <<3, "0x03">>,
     <<2, "0xC7">>, <<4, "0x0B">> >>

COM_Ready == inits = 7

(* One write; a second call begins again.                                  *)
COM_Init ==
  LET k == (inits % 7) + 1 IN
    /\ Outb(COM_InitWrites[k][1], COM_InitWrites[k][2])
    /\ inits' = k
    /\ UNCHANGED <<text, at, crSent, c>>

(* Mutant of COM_IsTxEmpty: the test is inverted.                          *)
COM_TxBusy == tx # <<>>

COM_IsTxEmpty == tx = <<>>

(* Mutant of COM_SendChar: it does not wait.                               *)
COM_SendCharAtOnce(a) == Outb(0, a)

COM_SendChar(a) == COM_IsTxEmpty /\ Outb(0, a)

(* fputs(), puts(), fputc() and putchar() to stdout: the call.             *)
fputs(str) ==
  /\ text' = str
  /\ at' = 1
  /\ UNCHANGED <<uart, tx, rx, inits, crSent, c>>

(* The call has returned.                                                  *)
Printed == at \notin DOMAIN text

(* Mutant of COM_WriteChar: no carriage return.                            *)
COM_WriteCharRaw ==
  /\ ~Printed
  /\ COM_SendChar(text[at])
  /\ at' = at + 1
  /\ UNCHANGED <<inits, text, crSent, c>>

(* COM_WriteString()'s loop: a line feed takes two steps.                  *)
COM_WriteChar ==
  /\ ~Printed
  /\ crSent' = (text[at] = LF /\ ~crSent)
  /\ COM_SendChar(IF crSent' THEN CR ELSE text[at])
  /\ at' = IF crSent' THEN at ELSE at + 1
  /\ UNCHANGED <<inits, text, c>>

COM_IsRxReady == rx # <<>>

(* getchar(); some callers drop the result.                                *)
COM_ReadChar(kept) ==
  /\ COM_IsRxReady
  /\ c' = IF kept THEN Head(rx) ELSE c
  /\ rx' = Tail(rx)
  /\ UNCHANGED <<uart, tx, inits, text, at, crSent>>

-----------------------------------------------------------------------------
(* The value of every variable is one the code or the port can store.      *)
SerialTypeOK ==
  /\ DOMAIN uart = {"dll", "dlm", "ier", "fcr", "lcr", "mcr"}
  /\ tx # <<>> => tx = <<Head(tx)>>
  /\ rx \in Seq(Key) /\ Len(rx) <= FifoSize
  /\ inits \in 0 .. 7
  /\ at \in Nat \ {0}
  /\ at > 1 => at - 1 \in DOMAIN text
  /\ crSent => ~Printed /\ text[at] = LF
  /\ c \in Key \cup {NONE}

(* No byte is sent before the port is at 9600 baud, eight bits, no parity, *)
(* and what selects the divisor latch is off again: the order of           *)
(* COM_Init()'s writes to ports that mean two things.                      *)
SentAsSetUp ==
  tx # <<>> =>
    /\ COM_Ready /\ ~DLAB
    /\ uart["dll"] = "0x0C" /\ uart["dlm"] = "0x00"
    /\ uart["ier"] = "0x00" /\ uart["lcr"] = "0x03"

(* Why: what the writes of COM_Init() have set so far.                     *)
UartOK ==
  /\ DLAB <=> inits \in 2 .. 4
  /\ inits >= 1 => uart["ier"] = "0x00"
  /\ inits >= 3 => uart["dll"] = "0x0C"
  /\ inits >= 4 => uart["dlm"] = "0x00"
  /\ inits >= 5 => uart["lcr"] = "0x03"

(* What stdio promises: Stream.                                            *)
Unsent == SubSeq(text, at, Len(text))
StreamOf == INSTANCE Stream
  WITH Capacity <- FifoSize, keys <- rx, line <- tx,
       queue <- IF crSent THEN <<LF>> \o AsLines(Tail(Unsent)) ELSE AsLines(Unsent)
=============================================================================
