-------------------------------- MODULE Rtc --------------------------------
(***************************************************************************)
(* The real-time clock and RTC_GetTime() of libsys/time.c, which reads it  *)
(* register by register while it runs.                                     *)
(*                                                                         *)
(* An update takes several steps: the update-in-progress flag goes up, the *)
(* registers change one after the other as far as the carry goes, the flag *)
(* goes down.  The day stands for day, month and year, which are read and  *)
(* converted alike.                                                        *)
(***************************************************************************)
EXTENDS Integers, Sequences

CONSTANTS
  Lengths,     \* of a minute, an hour, a day and a month: <<60, 60, 24, ...>>
  Times,       \* the times the model starts at
  Formats,     \* the settings of status register B
  MaxUpdates   \* bound of the model: updates that begin during one call

Register == 1 .. 4
HOUR == 3
Time == {t \in [Register -> 0 .. 59] : \A r \in Register : t[r] < Lengths[r]}
Format == [binary : BOOLEAN, hours24 : BOOLEAN]

(* A call takes microseconds; that it takes less than a minute is all that *)
(* is assumed of it.                                                       *)
ASSUME RtcAssumption ==
  /\ Lengths \in [Register -> 1 .. 60]
  /\ Lengths[HOUR] = 24
  /\ Times \subseteq Time
  /\ Formats \subseteq Format
  /\ MaxUpdates \in Nat
  /\ MaxUpdates < Lengths[1]

VARIABLES
  reg,        \* the clock's registers, decoded
  uip,        \* the update-in-progress flag of status register A
  carry,      \* the register the update changes next, 0 if none
  format,     \* status register B
  pc,         \* where RTC_GetTime() is
  next,       \* RTC_readTime(): the register it reads next
  now, last,  \* the two times read
  shown,      \* every time the clock showed since the call began
  updates     \* how many updates began since then

clock == <<reg, uip, carry, format>>
call == <<pc, next, now, last>>
rtcVars == <<clock, call, shown, updates>>

Zero == [r \in Register |-> 0]

RtcInit ==
  /\ reg \in Times
  /\ uip = FALSE
  /\ carry = 0
  /\ format \in Formats
  /\ pc = "idle"
  /\ next = 1
  /\ now = Zero /\ last = Zero
  /\ shown = {}
  /\ updates = 0

-----------------------------------------------------------------------------
(* The clock.  Twelve-hour registers count 12, 1, .., 11 with bit 7 for PM.*)

ToBCD(n) == 16 * (n \div 10) + (n % 10)

HourTo12(h) == (IF h % 12 = 0 THEN 12 ELSE h % 12)

(* The byte in register r when it stands for n.                            *)
InFormat(r, n) ==
  LET number == IF r = HOUR /\ ~format.hours24 THEN HourTo12(n) ELSE n
      pm == IF r = HOUR /\ ~format.hours24 /\ n >= 12 THEN 128 ELSE 0
  IN  pm + IF format.binary THEN number ELSE ToBCD(number)

Encoded(r) == InFormat(r, reg[r])

UpdateBegins ==
  /\ ~uip
  /\ pc # "idle" => updates < MaxUpdates
  /\ uip' = TRUE
  /\ carry' = 1
  /\ updates' = IF pc = "idle" THEN updates ELSE updates + 1
  /\ UNCHANGED <<reg, format, call, shown>>

UpdateRegister ==
  /\ carry # 0
  /\ reg' = [reg EXCEPT ![carry] = (@ + 1) % Lengths[carry]]
  /\ carry' = IF reg'[carry] = 0 /\ carry < 4 THEN carry + 1 ELSE 0
  /\ UNCHANGED <<uip, format, call, shown, updates>>

UpdateEnds ==
  /\ uip /\ carry = 0
  /\ uip' = FALSE
  /\ shown' = IF pc = "idle" THEN shown ELSE shown \cup {reg}
  /\ UNCHANGED <<reg, carry, format, call, updates>>

-----------------------------------------------------------------------------
(* RTC_GetTime() *)

(* While an update is under way the clock shows no time.                   *)
RTC_GetTime ==
  /\ pc = "idle"
  /\ pc' = "waitFirst"
  /\ shown' = IF uip THEN {} ELSE {reg}
  /\ UNCHANGED <<clock, next, now, last, updates>>

(* Mutant of RTC_readTime: it does not wait.                               *)
RTC_readTimeAtOnce ==
  /\ pc \in {"waitFirst", "wait"}
  /\ pc' = IF pc = "wait" THEN "read" ELSE "readFirst"
  /\ next' = 1
  /\ UNCHANGED <<clock, now, last, shown, updates>>

(* RTC_readTime(): it waits for the update-in-progress flag to go down.    *)
RTC_readTime ==
  /\ pc \in {"waitFirst", "wait"}
  /\ ~uip
  /\ pc' = IF pc = "wait" THEN "read" ELSE "readFirst"
  /\ next' = 1
  /\ UNCHANGED <<clock, now, last, shown, updates>>

(* RTC_read(), and after the last register the test of the loop.           *)
RTC_read ==
  /\ pc \in {"readFirst", "read"}
  /\ now' = [now EXCEPT ![next] = Encoded(next)]
  /\ next' = next + 1
  /\ IF next < 4 THEN UNCHANGED <<pc, last>>
     ELSE IF pc = "read" /\ now' = last THEN pc' = "convert" /\ UNCHANGED last
     ELSE pc' = "wait" /\ last' = now'
  /\ UNCHANGED <<clock, shown, updates>>

FromBCD(b) == (b % 16) + 10 * (b \div 16)

(* The hour keeps bit 7.                                                   *)
Binary(r, b) ==
  IF format.binary THEN b
  ELSE IF r = HOUR THEN FromBCD(b % 128) + 128 * (b \div 128) ELSE FromBCD(b)

(* Mutant of Hours24: the PM bit stays.                                    *)
Hours24KeepsPM(h) == h

Hours24(h) == IF ~format.hours24 /\ h >= 128 THEN ((h % 128) + 12) % 24 ELSE h

Decoded(r, b) == IF r = HOUR THEN Hours24(Binary(r, b)) ELSE Binary(r, b)

Convert ==
  /\ pc = "convert"
  /\ now' = [r \in Register |-> Decoded(r, now[r])]
  /\ pc' = "returned"
  /\ UNCHANGED <<clock, next, last, shown, updates>>

(* The caller has used the time: nothing of the call matters any more.     *)
Use ==
  /\ pc = "returned"
  /\ pc' = "idle"
  /\ now' = Zero /\ last' = Zero /\ next' = 1
  /\ shown' = {}
  /\ updates' = 0
  /\ UNCHANGED clock

RtcNext ==
  \/ UpdateBegins \/ UpdateRegister \/ UpdateEnds
  \/ RTC_GetTime \/ RTC_readTime \/ RTC_read \/ Convert \/ Use

RtcSpec == RtcInit /\ [][RtcNext]_rtcVars

-----------------------------------------------------------------------------
(* The value of every variable is one the code or the clock can store      *)
(* there, and what a call returns is a time.                               *)
RtcTypeOK ==
  /\ reg \in Time
  /\ uip \in BOOLEAN
  /\ carry \in 0 .. 4
  /\ format \in Formats
  /\ pc \in {"idle", "waitFirst", "readFirst", "wait", "read",
             "convert", "returned"}
  /\ next \in 1 .. 5
  /\ now \in [Register -> 0 .. 255] /\ last \in [Register -> 0 .. 255]
  /\ shown \subseteq Time
  /\ updates \in 0 .. MaxUpdates
  /\ pc = "returned" => now \in Time

(* RTC_GetTime() returns a time the clock showed during the call, never a  *)
(* mixture of two, although an update may begin between any two of its     *)
(* reads: this is what the flag, the second reading and the comparison are *)
(* for.  In the twelve-hour setting the hours after 12 AM and PM are left  *)
(* out: see TwelveOClock.                                                  *)
TimeWasShown ==
  pc = "returned" /\ (format.hours24 \/ \A t \in shown : t[HOUR] % 12 # 0) =>
    now \in shown

(* Why: the invariant behind it.  Updates change the seconds first, and    *)
(* fewer of them begin during a call than a minute has seconds, so two     *)
(* readings with the same seconds have had none change in between.         *)

(* An update that has begun but has not changed the seconds.               *)
Pending == IF carry = 1 THEN 1 ELSE 0

(* The seconds changed n times since they were s.                          *)
Apart(s, n) ==
  /\ n + Pending <= updates
  /\ reg[1] \in {s + n, s + n - Lengths[1]}

ClockOK ==
  /\ carry # 0 => uip
  /\ carry > 1 => reg[1] = 0
  /\ pc \in {"readFirst", "read"} => next <= 4
  /\ pc \in {"readFirst", "wait", "read", "convert"} /\ uip => updates > 0
  /\ pc \notin {"idle", "returned"} /\ ~uip => reg \in shown

(* The registers of time before register m have been read: what was read   *)
(* since the seconds is what it was when they changed last, unless a carry *)
(* is or was on its way then.                                              *)
ReadingOK(time, m) ==
  \E s \in 0 .. Lengths[1] - 1, n \in 0 .. updates :
    /\ time[1] = InFormat(1, s)
    /\ Apart(s, n)
    /\ n = 0 => reg[1] = 0 \/ \A r \in 2 .. m - 1 : time[r] = Encoded(r)

(* The second reading found the seconds of the first: in between the clock *)
(* showed t, and each register was read right the first time or, if that   *)
(* was after a carry, the second time.                                     *)
SameSeconds(t, m) ==
  /\ now[1] = InFormat(1, t[1])
  /\ \E n \in 0 .. updates : Apart(t[1], n) /\ (n = 0 => carry <= 1)
  /\ t[1] # 0 => \A r \in 2 .. 4 : last[r] = InFormat(r, t[r])
  /\ t[1] = 0 =>
       /\ \A r \in 2 .. 4 : reg[r] = t[r]
       /\ \A r \in 2 .. m - 1 : now[r] = InFormat(r, t[r])

ReadingsOK ==
  /\ pc \in {"readFirst", "read"} /\ next > 1 => ReadingOK(now, next)
  /\ pc = "wait" \/ (pc = "read" /\ next = 1) => ReadingOK(last, 5)
  /\ pc = "read" /\ next = 1 /\ last[1] = Encoded(1) => carry <= 1 /\ reg \in shown
  /\ pc = "read" /\ next > 1 /\ now[1] = last[1] => \E t \in shown : SameSeconds(t, next)
  /\ pc = "convert" => \E t \in shown : \A r \in Register : now[r] = InFormat(r, t[r])

RtcInv == RtcTypeOK /\ ClockOK /\ ReadingsOK /\ TimeWasShown

(* The same for every hour.                                                *)
TwelveOClock == pc = "returned" => now \in shown
=============================================================================
