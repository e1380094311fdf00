---------------------------- MODULE DemosProofs ----------------------------
(***************************************************************************)
(* Proofs about Rtc and Demos: what RTC_GetTime() returns is a time the    *)
(* clock showed during the call, for every length of the minute that has   *)
(* more seconds than a call sees updates; the port is set up before        *)
(* anything is sent; and the time a program shows is one the clock showed, *)
(* for every set of numbers, keys and times, whatever the terminal does.   *)
(***************************************************************************)
EXTENDS Demos, TLAPS

LEMMA Assumed ==
  /\ Lengths \in [Register -> 1 .. 60]
  /\ \A r \in Register : Lengths[r] \in 1 .. 60
  /\ Lengths[3] = 24
  /\ MaxUpdates \in Nat /\ MaxUpdates < Lengths[1]
  /\ Register = 1 .. 4 /\ HOUR = 3
BY RtcAssumption DEF Register, HOUR

LEMMA TimeFacts ==
  ASSUME NEW t \in Time
  PROVE  /\ t = [r \in Register |-> t[r]] /\ t \in [Register -> Int]
         /\ \A r \in Register : t[r] \in 0 .. Lengths[r] - 1 /\ t[r] \in 0 .. 59
         /\ t[1] \in 0 .. Lengths[1] - 1
BY Assumed DEF Time

LEMMA MakesTime ==
  ASSUME NEW t, t \in [Register -> Int],
         \A r \in Register : t[r] \in 0 .. Lengths[r] - 1
  PROVE  t \in Time
<1>1. \A r \in Register : t[r] \in 0 .. 59 /\ t[r] < Lengths[r]
  BY Assumed
<1> QED
  BY <1>1 DEF Time

(* A register of the clock starts again at its length.                     *)
LEMMA OneMore ==
  ASSUME NEW L \in 1 .. 60, NEW a \in 0 .. L - 1
  PROVE  (a + 1) % L = IF a + 1 = L THEN 0 ELSE a + 1
BY SMTT(30)

(* BCD and its inverse.                                                    *)
LEMMA BCDFacts ==
  ASSUME NEW n \in 0 .. 59
  PROVE  /\ ToBCD(n) \in 0 .. 89 /\ FromBCD(ToBCD(n)) = n
         /\ (ToBCD(n) + 128) % 128 = ToBCD(n) /\ (ToBCD(n) + 128) \div 128 = 1
         /\ ToBCD(n) % 128 = ToBCD(n) /\ ToBCD(n) \div 128 = 0
BY SMTT(30) DEF ToBCD, FromBCD
LEMMA HourFacts ==
  ASSUME NEW n \in 0 .. 23
  PROVE  /\ HourTo12(n) \in 1 .. 12
         /\ n % 12 # 0 => HourTo12(n) = IF n >= 12 THEN n - 12 ELSE n
BY SMTT(30) DEF HourTo12

(* Registers that are not a twelve-hour hour.                              *)
LEMMA PlainFormat ==
  ASSUME NEW r \in Register, NEW n \in 0 .. 59, r # HOUR \/ format.hours24
  PROVE  InFormat(r, n) = IF format.binary THEN n ELSE ToBCD(n)
<1>1. ToBCD(n) \in Int /\ n \in Int
  BY BCDFacts
<1>2. CASE format.binary
  BY <1>1, <1>2 DEF InFormat
<1>3. CASE ~format.binary
  BY <1>1, <1>3 DEF InFormat
<1> QED
  BY <1>2, <1>3

LEMMA FormatFacts ==
  ASSUME NEW r \in Register, NEW n \in 0 .. Lengths[r] - 1
  PROVE  InFormat(r, n) \in 0 .. 255
<1>1. n \in 0 .. 59 /\ (r = HOUR => n \in 0 .. 23)
  BY Assumed
<1>2. ToBCD(n) \in 0 .. 89
  BY <1>1, BCDFacts
<1>3. r = HOUR => HourTo12(n) \in 1 .. 12 /\ ToBCD(HourTo12(n)) \in 0 .. 89
  BY <1>1, HourFacts, BCDFacts
<1> QED
  BY <1>1, <1>2, <1>3 DEF InFormat

LEMMA SecondsDiffer ==
  ASSUME NEW a \in 0 .. 59, NEW b \in 0 .. 59, InFormat(1, a) = InFormat(1, b)
  PROVE  a = b
<1>1. InFormat(1, a) = (IF format.binary THEN a ELSE ToBCD(a))
      /\ InFormat(1, b) = (IF format.binary THEN b ELSE ToBCD(b))
  BY PlainFormat DEF HOUR, Register
<1>2. FromBCD(ToBCD(a)) = a /\ FromBCD(ToBCD(b)) = b
  BY BCDFacts
<1> QED
  BY <1>1, <1>2

(* The conversion at the end undoes the format but at noon and midnight.   *)
LEMMA DecodedFacts ==
  ASSUME NEW r \in Register, NEW n \in 0 .. Lengths[r] - 1
  PROVE  /\ Decoded(r, InFormat(r, n)) \in 0 .. Lengths[r] - 1
         /\ r # HOUR \/ format.hours24 \/ n % 12 # 0 => Decoded(r, InFormat(r, n)) = n
<1>1. n \in 0 .. 59 /\ (r = HOUR => n \in 0 .. 23)
  BY Assumed
<1>2. CASE r # HOUR
  <2>1. InFormat(r, n) = IF format.binary THEN n ELSE ToBCD(n)
    BY <1>1, <1>2, PlainFormat
  <2>2. Decoded(r, InFormat(r, n)) = n
    BY <1>1, <1>2, <2>1, BCDFacts DEF Decoded, Binary
  <2> QED
    BY <2>2
<1>3. CASE r = HOUR /\ format.hours24
  <2>1. InFormat(r, n) = IF format.binary THEN n ELSE ToBCD(n)
    BY <1>1, <1>3, PlainFormat
  <2>2. Binary(r, InFormat(r, n)) = n
    BY <1>1, <1>3, <2>1, BCDFacts DEF Binary
  <2>3. Decoded(r, InFormat(r, n)) = n
    BY <1>1, <1>3, <2>2 DEF Decoded, Hours24
  <2> QED
    BY <2>3
<1>4. CASE r = HOUR /\ ~format.hours24
  <2> DEFINE h == HourTo12(n)
  <2>1. /\ h \in 1 .. 12
        /\ n % 12 # 0 => h = IF n >= 12 THEN n - 12 ELSE n
    BY <1>1, <1>4, HourFacts
  <2> HIDE DEF h
  <2>2. /\ ToBCD(h) \in 0 .. 89 /\ FromBCD(ToBCD(h)) = h
        /\ (ToBCD(h) + 128) % 128 = ToBCD(h) /\ (ToBCD(h) + 128) \div 128 = 1
        /\ ToBCD(h) % 128 = ToBCD(h) /\ ToBCD(h) \div 128 = 0
    BY <2>1, BCDFacts
  <2>3. InFormat(r, n) = (IF n >= 12 THEN 128 ELSE 0) + IF format.binary THEN h ELSE ToBCD(h)
    BY <1>4 DEF InFormat, h
  <2>4. Binary(r, InFormat(r, n)) = h + IF n >= 12 THEN 128 ELSE 0
    BY <1>1, <1>4, <2>1, <2>2, <2>3 DEF Binary
  <2>5. Decoded(r, InFormat(r, n)) = IF n >= 12 THEN (h + 12) % 24 ELSE h
    <3>1. (h + 128) % 128 = h
      BY <2>1
    <3> QED
      BY <1>1, <1>4, <2>1, <2>4, <3>1 DEF Decoded, Hours24
  <2>6. (h + 12) % 24 = IF h = 12 THEN 0 ELSE h + 12
    BY <2>1
  <2> QED
    BY <1>1, <1>4, <2>1, <2>5, <2>6, Assumed
<1> QED
  BY <1>2, <1>3, <1>4

-----------------------------------------------------------------------------
(* The steps.                                                              *)

LEMMA SameFormat ==
  ASSUME format' = format, NEW r, NEW n
  PROVE  InFormat(r, n)' = InFormat(r, n)
BY DEF InFormat

LEMMA ClockTyped ==
  ASSUME RtcTypeOK
  PROVE  /\ \A r \in Register : reg[r] \in 0 .. Lengths[r] - 1
         /\ reg[1] \in 0 .. Lengths[1] - 1 /\ reg[1] \in 0 .. 59
         /\ updates \in Nat /\ updates < Lengths[1] /\ updates <= MaxUpdates
         /\ carry \in Nat
<1>1. reg \in Time
  BY DEF RtcTypeOK
<1>2. /\ \A r \in Register : reg[r] \in 0 .. Lengths[r] - 1 /\ reg[r] \in 0 .. 59
      /\ reg[1] \in 0 .. Lengths[1] - 1
  BY <1>1, TimeFacts
<1>3. updates \in 0 .. MaxUpdates /\ carry \in 0 .. 4
  BY DEF RtcTypeOK
<1> QED
  BY <1>2, <1>3, Assumed

LEMMA RtcInvInit == RtcInit => RtcInv
<1> SUFFICES ASSUME RtcInit PROVE RtcInv
  OBVIOUS
<1>1. RtcTypeOK
  <2>1. reg \in Time /\ Zero \in [Register -> 0 .. 255] /\ 0 \in 0 .. MaxUpdates
    BY RtcAssumption DEF RtcInit, Zero
  <2>2. uip \in BOOLEAN
    BY Zenon DEF RtcInit
  <2>3. /\ carry \in 0 .. 4 /\ next \in 1 .. 5 /\ updates \in 0 .. MaxUpdates
        /\ now \in [Register -> 0 .. 255] /\ last \in [Register -> 0 .. 255]
        /\ pc = "idle" /\ pc # "returned" /\ shown \subseteq Time /\ format \in Formats
    BY <2>1 DEF RtcInit
  <2> QED
    BY <2>1, <2>2, <2>3, Zenon DEF RtcTypeOK
<1>2. ClockOK /\ ReadingsOK /\ TimeWasShown
  BY DEF RtcInit, ClockOK, ReadingsOK, TimeWasShown
<1> QED
  BY <1>1, <1>2 DEF RtcInv

LEMMA UpdateBeginsKeeps == RtcInv /\ UpdateBegins => RtcInv'
<1> SUFFICES ASSUME RtcInv, UpdateBegins PROVE RtcInv'
  OBVIOUS
<1>1. /\ carry = 0 /\ carry' = 1 /\ updates' \in {updates, updates + 1}
      /\ pc = "idle" => updates' = updates
      /\ pc # "idle" => updates' = updates + 1 /\ updates < MaxUpdates
      /\ reg' = reg /\ format' = format /\ shown' = shown
      /\ pc' = pc /\ next' = next /\ now' = now /\ last' = last
  BY Zenon DEF RtcInv, ClockOK, UpdateBegins, call
<1>2. updates \in Nat /\ MaxUpdates \in Nat
  BY ClockTyped, Assumed DEF RtcInv
<1>3. RtcTypeOK'
  <2>1. updates' \in 0 .. MaxUpdates
    BY <1>1, <1>2, ClockTyped DEF RtcInv
  <2>2. uip' \in BOOLEAN
    BY Zenon DEF UpdateBegins
  <2>3. carry' \in 0 .. 4
    BY <1>1
  <2> QED
    BY <1>1, <2>1, <2>2, <2>3, Zenon DEF RtcInv, RtcTypeOK
<1>4. ClockOK'
  <2>1. pc # "idle" => updates' > 0
    BY <1>1, <1>2
  <2>2. uip'
    BY Zenon DEF UpdateBegins
  <2>3. ~uip
    BY Zenon DEF UpdateBegins
  <2> QED
    <3>1. carry' > 1 => reg'[1] = 0
      BY <1>1
    <3>2. pc' \in {"readFirst", "read"} => next' <= 4
      BY <1>1 DEF RtcInv, ClockOK
    <3>3. pc' \in {"readFirst", "wait", "read", "convert"} => updates' > 0
      BY <1>1, <2>1
    <3> QED
      BY <2>2, <3>1, <3>2, <3>3, Zenon DEF ClockOK
<1>5. \A r : Encoded(r)' = Encoded(r)
  BY <1>1, SameFormat DEF Encoded
<1>6. \A r, n : InFormat(r, n)' = InFormat(r, n)
  BY <1>1, SameFormat
<1>7. ASSUME pc # "idle", NEW s, NEW n \in 0 .. updates, Apart(s, n)
      PROVE  Apart(s, n)' /\ n \in 0 .. updates'
  BY <1>1, <1>2, <1>7 DEF Apart, Pending
<1>8. ASSUME pc # "idle", NEW time, NEW m, ReadingOK(time, m)
      PROVE  ReadingOK(time, m)'
  BY <1>1, <1>5, <1>6, <1>7, <1>8 DEF ReadingOK
<1>9. ASSUME pc # "idle", NEW t, NEW m, SameSeconds(t, m)
      PROVE  SameSeconds(t, m)'
  BY <1>1, <1>5, <1>6, <1>7, <1>9 DEF SameSeconds
<1>10. ReadingsOK'
  <2>1. pc' \in {"readFirst", "read"} /\ next' > 1 => ReadingOK(now, next)'
    BY <1>1, <1>8 DEF RtcInv, ReadingsOK
  <2>2. pc' = "wait" \/ (pc' = "read" /\ next' = 1) => ReadingOK(last, 5)'
    BY <1>1, <1>8 DEF RtcInv, ReadingsOK
  <2>3. pc' = "read" /\ next' = 1 /\ last'[1] = Encoded(1)' => carry' <= 1 /\ reg' \in shown'
    BY <1>1, <1>5 DEF RtcInv, ReadingsOK
  <2>4. pc' = "read" /\ next' > 1 /\ now'[1] = last'[1]
           => \E t \in shown' : SameSeconds(t, next)'
    BY <1>1, <1>9 DEF RtcInv, ReadingsOK
  <2>5. pc' = "convert" =>
           \E t \in shown' : \A r \in Register : now'[r] = InFormat(r, t[r])'
    BY <1>1, <1>6 DEF RtcInv, ReadingsOK
  <2> QED
    BY <2>1, <2>2, <2>3, <2>4, <2>5 DEF ReadingsOK
<1>11. TimeWasShown'
  BY <1>1 DEF RtcInv, TimeWasShown
<1> QED
  BY <1>3, <1>4, <1>10, <1>11 DEF RtcInv

LEMMA UpdateEndsKeeps == RtcInv /\ UpdateEnds => RtcInv'
<1> SUFFICES ASSUME RtcInv, UpdateEnds PROVE RtcInv'
  OBVIOUS
<1>1. /\ carry = 0 /\ carry' = 0 /\ updates' = updates
      /\ pc # "idle" => shown' = shown \cup {reg}
      /\ shown \subseteq shown' /\ shown' \subseteq shown \cup {reg}
      /\ reg' = reg /\ format' = format /\ uip' = FALSE
      /\ pc' = pc /\ next' = next /\ now' = now /\ last' = last
  BY DEF UpdateEnds, call
<1>3. RtcTypeOK'
  BY <1>1 DEF RtcInv, RtcTypeOK
<1>4. ClockOK'
  BY <1>1 DEF RtcInv, ClockOK
<1>5. \A r : Encoded(r)' = Encoded(r)
  BY <1>1, SameFormat DEF Encoded
<1>6. \A r, n : InFormat(r, n)' = InFormat(r, n)
  BY <1>1, SameFormat
<1>7. ASSUME NEW s, NEW n \in 0 .. updates, Apart(s, n)
      PROVE  Apart(s, n)' /\ n \in 0 .. updates'
  BY <1>1, <1>7 DEF Apart, Pending
<1>8. ASSUME NEW time, NEW m, ReadingOK(time, m)
      PROVE  ReadingOK(time, m)'
  BY <1>1, <1>5, <1>6, <1>7, <1>8 DEF ReadingOK
<1>9. ASSUME NEW t, NEW m, SameSeconds(t, m)
      PROVE  SameSeconds(t, m)'
  BY <1>1, <1>5, <1>6, <1>7, <1>9 DEF SameSeconds
<1>10. ReadingsOK'
  BY <1>1, <1>5, <1>6, <1>8, <1>9 DEF RtcInv, ReadingsOK
<1>11. TimeWasShown'
  BY <1>1 DEF RtcInv, TimeWasShown
<1> QED
  BY <1>3, <1>4, <1>10, <1>11 DEF RtcInv

LEMMA UpdateRegisterKeeps == RtcInv /\ UpdateRegister => RtcInv'
<1> SUFFICES ASSUME RtcInv, UpdateRegister PROVE RtcInv'
  OBVIOUS
<1>1. /\ carry \in 1 .. 4 /\ carry # 0
      /\ reg' = [reg EXCEPT ![carry] = (reg[carry] + 1) % Lengths[carry]]
      /\ carry' = IF reg'[carry] = 0 /\ carry < 4 THEN carry + 1 ELSE 0
      /\ updates' = updates /\ format' = format /\ shown' = shown
      /\ pc' = pc /\ next' = next /\ now' = now /\ last' = last
  <2>1. /\ carry # 0 /\ carry \in 0 .. 4
        /\ reg' = [reg EXCEPT ![carry] = (reg[carry] + 1) % Lengths[carry]]
        /\ carry' = IF reg'[carry] = 0 /\ carry < 4 THEN carry + 1 ELSE 0
        /\ updates' = updates /\ format' = format /\ shown' = shown
        /\ pc' = pc /\ next' = next /\ now' = now /\ last' = last
    BY Zenon DEF RtcInv, RtcTypeOK, UpdateRegister, call
  <2>2. carry \in 1 .. 4
    BY <2>1
  <2> QED
    BY <2>1, <2>2
<1>2. uip /\ uip' = uip
  BY <1>1, Zenon DEF UpdateRegister, RtcInv, ClockOK
<1>a. carry > 1 => reg[1] = 0
  BY Zenon DEF RtcInv, ClockOK
<1>3. \A r, n : InFormat(r, n)' = InFormat(r, n)
  BY <1>1, SameFormat
<1>4. /\ reg \in [Register -> Int] /\ reg' \in [Register -> Int]
      /\ \A r \in Register : reg'[r] \in 0 .. Lengths[r] - 1
      /\ \A r \in Register : r # carry => reg'[r] = reg[r]
      /\ reg'[carry] = IF reg[carry] + 1 = Lengths[carry] THEN 0 ELSE reg[carry] + 1
  <2>1. carry \in Register /\ reg \in [Register -> Int]
        /\ \A r \in Register : reg[r] \in 0 .. Lengths[r] - 1
    <3>1. reg \in Time
      BY Zenon DEF RtcInv, RtcTypeOK
    <3> QED
      BY <1>1, <3>1, TimeFacts, Assumed
  <2>2. (reg[carry] + 1) % Lengths[carry]
           = IF reg[carry] + 1 = Lengths[carry] THEN 0 ELSE reg[carry] + 1
    BY <2>1, OneMore, Assumed
  <2> QED
    BY <1>1, <2>1, <2>2, Assumed
<1>5. carry' \in 0 .. 4 /\ carry' # 1 /\ (carry' > 1 => reg'[1] = 0)
  <2>1. CASE carry = 1
    BY <1>1, <2>1
  <2>2. CASE carry # 1
    <3>1. carry > 1 /\ reg[1] = 0 /\ reg'[1] = reg[1]
      BY <1>1, <1>4, <1>a, <2>2, Assumed
    <3> QED
      BY <1>1, <3>1
  <2> QED
    BY <2>1, <2>2
<1>6. RtcTypeOK'
  <2>1. reg' \in Time
    BY <1>4, MakesTime
  <2>2. uip' \in BOOLEAN
    BY <1>2, Zenon DEF RtcInv, RtcTypeOK
  <2> QED
    BY <1>1, <1>5, <2>1, <2>2, Zenon DEF RtcInv, RtcTypeOK
<1>7. ClockOK'
  <2>1. pc' \in {"readFirst", "read"} => next' <= 4
    BY <1>1 DEF RtcInv, ClockOK
  <2>2. pc' \in {"readFirst", "wait", "read", "convert"} => updates' > 0
    BY <1>1, <1>2 DEF RtcInv, ClockOK
  <2> QED
    BY <1>2, <1>5, <2>1, <2>2, Zenon DEF ClockOK
(* The seconds change, or they do not.                                     *)
<1>8. ASSUME NEW s \in 0 .. Lengths[1] - 1, NEW n \in 0 .. updates, Apart(s, n), carry = 1
      PROVE  Apart(s, n + 1)' /\ n + 1 \in 0 .. updates' /\ n + 1 > 0 /\ n + 1 < Lengths[1]
  <2>1. n + 1 <= updates /\ updates < Lengths[1]
        /\ reg[1] \in {s + n, s + n - Lengths[1]} /\ reg[1] \in 0 .. Lengths[1] - 1
    BY <1>8, ClockTyped DEF Apart, Pending, RtcInv
  <2>2. reg'[1] = IF reg[1] + 1 = Lengths[1] THEN 0 ELSE reg[1] + 1
    BY <1>4, <1>8
  <2>3. Lengths[1] \in 1 .. 60 /\ updates \in Nat /\ Pending' = 0
    BY <1>5, Assumed, ClockTyped DEF RtcInv, Pending
  <2>4. reg'[1] \in {s + (n + 1), s + (n + 1) - Lengths[1]}
    BY <2>1, <2>2, <2>3
  <2> QED
    BY <1>1, <2>1, <2>3, <2>4 DEF Apart
<1>9. ASSUME NEW s, NEW n \in 0 .. updates, Apart(s, n), carry # 1
      PROVE  Apart(s, n)' /\ n \in 0 .. updates'
  <2>1. reg'[1] = reg[1] /\ Pending' = Pending
    BY <1>4, <1>5, <1>9, Assumed DEF Pending
  <2> QED
    BY <1>1, <1>9, <2>1 DEF Apart
<1>10. carry # 1 => carry > 1 /\ reg[1] = 0 /\ reg'[1] = 0
  BY <1>1, <1>4, <1>a, Assumed
<1>11. ASSUME NEW time, NEW m, ReadingOK(time, m)
       PROVE  ReadingOK(time, m)'
  <2>1. PICK s \in 0 .. Lengths[1] - 1, n \in 0 .. updates :
          /\ time[1] = InFormat(1, s)
          /\ Apart(s, n)
    BY <1>11 DEF ReadingOK
  <2>2. time[1] = InFormat(1, s)'
    BY <1>3, <2>1
  <2>3. CASE carry = 1
    <3>1. Apart(s, n + 1)' /\ n + 1 \in 0 .. updates' /\ n + 1 # 0
      BY <1>8, <2>1, <2>3
    <3> QED
      BY <2>2, <3>1 DEF ReadingOK
  <2>4. CASE carry # 1
    <3>1. Apart(s, n)' /\ n \in 0 .. updates' /\ reg'[1] = 0
      BY <1>9, <1>10, <2>1, <2>4
    <3> QED
      BY <2>2, <3>1 DEF ReadingOK
  <2> QED
    BY <2>3, <2>4
<1>12. ASSUME NEW t \in Time, NEW m, SameSeconds(t, m)
       PROVE  SameSeconds(t, m)'
  <2>1. PICK n \in 0 .. updates : Apart(t[1], n) /\ (n = 0 => carry <= 1)
    BY <1>12 DEF SameSeconds
  <2>2. t[1] \in 0 .. Lengths[1] - 1
    BY TimeFacts
  <2>3. /\ now'[1] = InFormat(1, t[1])'
        /\ t[1] # 0 => \A r \in 2 .. 4 : last'[r] = InFormat(r, t[r])'
        /\ t[1] = 0 => \A r \in 2 .. m - 1 : now'[r] = InFormat(r, t[r])'
    BY <1>1, <1>3, <1>12 DEF SameSeconds
  <2>4. CASE carry = 1
    <3>1. Apart(t[1], n + 1)' /\ n + 1 \in 0 .. updates' /\ n + 1 # 0
      BY <1>8, <2>1, <2>2, <2>4
    <3>2. t[1] = 0 => \A r \in 2 .. 4 : reg'[r] = t[r]
      BY <1>4, <1>12, <2>4, Assumed DEF SameSeconds
    <3> QED
      BY <2>3, <3>1, <3>2 DEF SameSeconds
  <2>5. CASE carry # 1
    <3>1. Apart(t[1], n)' /\ n \in 0 .. updates'
      BY <1>9, <2>1, <2>5
    <3>2. n # 0
      BY <1>10, <2>1, <2>5, <1>1
    <3>3. t[1] # 0
      BY <1>10, <2>1, <2>5, <3>2, ClockTyped, Assumed DEF RtcInv, Apart
    <3> QED
      BY <2>3, <3>1, <3>2, <3>3 DEF SameSeconds
  <2> QED
    BY <2>4, <2>5
<1>13. pc = "read" /\ next = 1 /\ last[1] = Encoded(1)' => carry' <= 1 /\ reg' \in shown'
  <2> SUFFICES ASSUME pc = "read", next = 1, last[1] = Encoded(1)' PROVE FALSE
    OBVIOUS
  <2>1. last[1] = InFormat(1, reg'[1])
    BY <1>1, <1>3, SameFormat DEF Encoded
  <2>2. CASE carry = 1
    <3>1. PICK s \in 0 .. Lengths[1] - 1, n \in 0 .. updates :
            last[1] = InFormat(1, s) /\ Apart(s, n)
      BY DEF RtcInv, ReadingsOK, ReadingOK
    <3>2. s \in 0 .. 59 /\ reg'[1] \in 0 .. 59
      <4>1. Lengths[1] \in 1 .. 60 /\ reg'[1] \in 0 .. Lengths[1] - 1
        BY <1>4, Assumed
      <4> QED
        BY <4>1
    <3>3. s = reg'[1]
      BY <2>1, <3>1, <3>2, SecondsDiffer
    <3> QED
      BY <1>8, <2>2, <3>1, <3>2, <3>3, Assumed DEF Apart
  <2>3. CASE carry # 1
    <3>1. reg'[1] = reg[1]
      BY <1>10, <2>3
    <3> QED
      BY <1>10, <2>1, <2>3, <3>1, <1>1 DEF RtcInv, ReadingsOK, Encoded
  <2> QED
    BY <2>2, <2>3
<1>14. ReadingsOK'
  <2>1. pc' \in {"readFirst", "read"} /\ next' > 1 => ReadingOK(now, next)'
    BY <1>1, <1>11 DEF RtcInv, ReadingsOK
  <2>2. pc' = "wait" \/ (pc' = "read" /\ next' = 1) => ReadingOK(last, 5)'
    BY <1>1, <1>11 DEF RtcInv, ReadingsOK
  <2>4. pc' = "read" /\ next' > 1 /\ now'[1] = last'[1]
           => \E t \in shown' : SameSeconds(t, next)'
    BY <1>1, <1>12 DEF RtcInv, RtcTypeOK, ReadingsOK
  <2>5. pc' = "convert" =>
           \E t \in shown' : \A r \in Register : now'[r] = InFormat(r, t[r])'
    BY <1>1, <1>3 DEF RtcInv, ReadingsOK
  <2> QED
    BY <1>1, <1>13, <2>1, <2>2, <2>4, <2>5 DEF ReadingsOK
<1>15. TimeWasShown'
  BY <1>1 DEF RtcInv, TimeWasShown
<1> QED
  BY <1>6, <1>7, <1>14, <1>15 DEF RtcInv

LEMMA GetTimeKeeps == RtcInv /\ RTC_GetTime => RtcInv'
<1> SUFFICES ASSUME RtcInv, RTC_GetTime PROVE RtcInv'
  OBVIOUS
<1>1. /\ pc = "idle" /\ pc' = "waitFirst"
      /\ ~uip => shown' = {reg}
      /\ shown' \subseteq {reg}
      /\ reg' = reg /\ carry' = carry /\ format' = format
      /\ next' = next /\ now' = now /\ last' = last /\ updates' = updates
  BY DEF RTC_GetTime, clock
<1>2. uip' = uip
  BY Zenon DEF RTC_GetTime, clock
<1>3. RtcTypeOK'
  <2>1. uip' \in BOOLEAN
    BY <1>2, Zenon DEF RtcInv, RtcTypeOK
  <2>2. shown' \subseteq Time
    BY <1>1, Zenon DEF RtcInv, RtcTypeOK
  <2>3. pc' # "returned"
        /\ pc' \in {"idle", "waitFirst", "readFirst", "wait", "read", "convert", "returned"}
    BY <1>1
  <2> QED
    BY <1>1, <2>1, <2>2, <2>3, Zenon DEF RtcInv, RtcTypeOK
<1>4. ClockOK'
  <2>1. (carry' # 0 => uip') /\ (carry' > 1 => reg'[1] = 0)
    BY <1>1, <1>2, Zenon DEF RtcInv, ClockOK
  <2>2. ~uip' => reg' \in shown'
    BY <1>1, <1>2
  <2>3. pc' \notin {"readFirst", "read", "wait", "convert"}
    BY <1>1
  <2> QED
    BY <2>1, <2>2, <2>3 DEF ClockOK
<1>5. ReadingsOK' /\ TimeWasShown'
  BY <1>1 DEF ReadingsOK, TimeWasShown
<1> QED
  BY <1>3, <1>4, <1>5 DEF RtcInv

LEMMA ReadTimeKeeps == RtcInv /\ RTC_readTime => RtcInv'
<1> SUFFICES ASSUME RtcInv, RTC_readTime PROVE RtcInv'
  OBVIOUS
<1>1. /\ pc \in {"waitFirst", "wait"}
      /\ pc' \in {"readFirst", "read"}
      /\ next' = 1 /\ shown' = shown
      /\ reg' = reg /\ carry' = carry /\ format' = format
      /\ now' = now /\ last' = last /\ updates' = updates
  BY DEF RTC_readTime, clock
<1>2. ~uip /\ ~uip' /\ uip' = uip
  BY Zenon DEF RTC_readTime, clock
<1>a. pc' = "read" => pc = "wait"
  BY DEF RTC_readTime
<1>3. carry = 0 /\ reg \in shown
  <2>1. pc \notin {"idle", "returned"}
    BY <1>1
  <2> QED
    BY <1>2, <2>1, Zenon DEF RtcInv, ClockOK
<1>4. RtcTypeOK'
  <2>1. uip' \in BOOLEAN
    BY <1>2, Zenon DEF RtcInv, RtcTypeOK
  <2>2. pc' # "returned" /\ next' \in 1 .. 5
        /\ pc' \in {"idle", "waitFirst", "readFirst", "wait", "read", "convert", "returned"}
    BY <1>1
  <2> QED
    BY <1>1, <2>1, <2>2, Zenon DEF RtcInv, RtcTypeOK
<1>5. ClockOK'
  <2>1. carry' = 0 /\ ~uip' /\ reg' \in shown' /\ next' = 1
    BY <1>1, <1>2, <1>3
  <2> QED
    BY <2>1 DEF ClockOK
<1>6. pc' = "read" => ReadingOK(last, 5)'
  <2> SUFFICES ASSUME pc = "wait" PROVE ReadingOK(last, 5)'
    BY <1>a
  <2>1. ReadingOK(last, 5)
    BY DEF RtcInv, ReadingsOK
  <2>2. \A r, n : InFormat(r, n)' = InFormat(r, n)
    BY <1>1, SameFormat
  <2>3. \A r : Encoded(r)' = Encoded(r)
    BY <1>1, SameFormat DEF Encoded
  <2> QED
    BY <1>1, <2>1, <2>2, <2>3 DEF ReadingOK, Apart, Pending
<1>7. ReadingsOK'
  <2>1. carry' <= 1 /\ reg' \in shown' /\ next' = 1 /\ pc' \in {"readFirst", "read"}
    BY <1>1, <1>3
  <2> QED
    BY <1>6, <2>1 DEF ReadingsOK
<1>8. TimeWasShown'
  BY <1>1 DEF TimeWasShown
<1> QED
  BY <1>4, <1>5, <1>7, <1>8 DEF RtcInv

LEMMA ConvertKeeps == RtcInv /\ Convert => RtcInv'
<1> SUFFICES ASSUME RtcInv, Convert PROVE RtcInv'
  OBVIOUS
<1>1. /\ pc = "convert" /\ pc' = "returned"
      /\ now' = [r \in Register |-> Decoded(r, now[r])]
      /\ reg' = reg /\ carry' = carry /\ format' = format
      /\ next' = next /\ last' = last /\ shown' = shown /\ updates' = updates
  BY DEF Convert, clock
<1>2. uip' = uip
  BY Zenon DEF Convert, clock
<1>3. PICK t \in shown : \A r \in Register : now[r] = InFormat(r, t[r])
  BY <1>1 DEF RtcInv, ReadingsOK
<1>4. t \in Time
  BY <1>3 DEF RtcInv, RtcTypeOK
<1>5. /\ \A r \in Register : t[r] \in 0 .. Lengths[r] - 1
      /\ t = [r \in Register |-> t[r]]
  BY <1>4, TimeFacts
<1>6. \A r \in Register : now'[r] \in 0 .. Lengths[r] - 1
  BY <1>1, <1>3, <1>5, DecodedFacts
<1>7. now' \in Time
  <2>1. now' \in [Register -> Int]
    BY <1>1, <1>6, Assumed
  <2> QED
    BY <1>6, <2>1, MakesTime
<1>8. ASSUME format.hours24 \/ t[HOUR] % 12 # 0
      PROVE  now' = t
  <2>1. \A r \in Register : now'[r] = t[r]
    BY <1>1, <1>3, <1>5, <1>8, DecodedFacts
  <2> QED
    BY <1>1, <1>5, <2>1
<1>9. TimeWasShown'
  BY <1>1, <1>3, <1>8 DEF TimeWasShown
<1>10. RtcTypeOK'
  <2>1. uip' \in BOOLEAN
    BY <1>2, Zenon DEF RtcInv, RtcTypeOK
  <2>2. pc' \in {"idle", "waitFirst", "readFirst", "wait", "read", "convert", "returned"}
    BY <1>1
  <2>3. now' \in [Register -> 0 .. 255]
    BY <1>7 DEF Time
  <2> QED
    BY <1>1, <1>7, <2>1, <2>2, <2>3, Zenon DEF RtcInv, RtcTypeOK
<1>11. ClockOK'
  <2>1. (carry' # 0 => uip') /\ (carry' > 1 => reg'[1] = 0)
    BY <1>1, <1>2, Zenon DEF RtcInv, ClockOK
  <2> QED
    BY <1>1, <2>1 DEF ClockOK
<1>12. ReadingsOK'
  BY <1>1 DEF ReadingsOK
<1> QED
  BY <1>9, <1>10, <1>11, <1>12 DEF RtcInv

LEMMA UseKeeps == RtcInv /\ Use => RtcInv'
<1> SUFFICES ASSUME RtcInv, Use PROVE RtcInv'
  OBVIOUS
<1>1. /\ pc' = "idle" /\ now' = Zero /\ last' = Zero /\ next' = 1
      /\ shown' = {} /\ updates' = 0
      /\ reg' = reg /\ carry' = carry /\ format' = format
  BY DEF Use, clock
<1>2. uip' = uip
  BY Zenon DEF Use, clock
<1>3. RtcTypeOK'
  <2>1. uip' \in BOOLEAN
    BY <1>2, Zenon DEF RtcInv, RtcTypeOK
  <2>2. /\ pc' # "returned" /\ next' \in 1 .. 5 /\ shown' \subseteq Time
        /\ pc' \in {"idle", "waitFirst", "readFirst", "wait", "read", "convert", "returned"}
        /\ updates' \in 0 .. MaxUpdates
        /\ now' \in [Register -> 0 .. 255] /\ last' \in [Register -> 0 .. 255]
    BY <1>1, Assumed DEF Zero
  <2> QED
    BY <1>1, <2>1, <2>2, Zenon DEF RtcInv, RtcTypeOK
<1>4. ClockOK'
  <2>1. (carry' # 0 => uip') /\ (carry' > 1 => reg'[1] = 0)
    BY <1>1, <1>2, Zenon DEF RtcInv, ClockOK
  <2> QED
    BY <1>1, <2>1 DEF ClockOK
<1>5. ReadingsOK' /\ TimeWasShown'
  BY <1>1 DEF ReadingsOK, TimeWasShown
<1> QED
  BY <1>3, <1>4, <1>5 DEF RtcInv

LEMMA ReadKeeps == RtcInv /\ RTC_read => RtcInv'
<1> SUFFICES ASSUME RtcInv, RTC_read PROVE RtcInv'
  OBVIOUS
<1>1. /\ pc \in {"readFirst", "read"}
      /\ now' = [now EXCEPT ![next] = Encoded(next)]
      /\ next' = next + 1
      /\ reg' = reg /\ carry' = carry /\ format' = format
      /\ shown' = shown /\ updates' = updates
  BY DEF RTC_read, clock
<1>2. uip' = uip
  BY Zenon DEF RTC_read, clock
<1>3. next \in 1 .. 4
  <2>1. next <= 4 /\ next \in 1 .. 5
    BY <1>1, Zenon DEF RtcInv, ClockOK, RtcTypeOK
  <2> QED
    BY <2>1
<1>4. /\ next < 4 => pc' = pc /\ last' = last
      /\ next = 4 => \/ pc = "read" /\ now' = last /\ pc' = "convert" /\ last' = last
                     \/ pc' = "wait" /\ last' = now'
  BY <1>3 DEF RTC_read
<1>5. pc' \in {"readFirst", "read", "wait", "convert"} /\ pc' # "returned"
  BY <1>1, <1>3, <1>4
<1>6. reg[next] \in 0 .. Lengths[next] - 1 /\ Encoded(next) \in 0 .. 255
  BY <1>3, ClockTyped, FormatFacts, Assumed DEF RtcInv, Encoded
<1>7. /\ now \in [Register -> 0 .. 255] /\ now' \in [Register -> 0 .. 255]
      /\ now'[next] = Encoded(next)
      /\ \A r \in Register : r # next => now'[r] = now[r]
      /\ last \in [Register -> 0 .. 255] /\ last' \in [Register -> 0 .. 255]
  <2>1. now \in [Register -> 0 .. 255] /\ last \in [Register -> 0 .. 255]
    BY Zenon DEF RtcInv, RtcTypeOK
  <2>2. /\ now' \in [Register -> 0 .. 255]
        /\ now'[next] = Encoded(next)
        /\ \A r \in Register : r # next => now'[r] = now[r]
    BY <1>1, <1>3, <1>6, <2>1, Assumed
  <2>3. last' = last \/ last' = now'
    BY <1>3, <1>4
  <2> QED
    BY <2>1, <2>2, <2>3
<1>8. RtcTypeOK'
  <2>1. uip' \in BOOLEAN
    BY <1>2, Zenon DEF RtcInv, RtcTypeOK
  <2>2. next' \in 1 .. 5
    BY <1>1, <1>3
  <2>3. pc' \in {"idle", "waitFirst", "readFirst", "wait", "read", "convert", "returned"}
    BY <1>5
  <2> QED
    BY <1>1, <1>5, <1>7, <2>1, <2>2, <2>3, Zenon DEF RtcInv, RtcTypeOK
<1>9. /\ carry # 0 => uip /\ updates > 0
      /\ pc' \notin {"idle", "returned"} /\ pc \notin {"idle", "returned"}
  <2>1. carry # 0 => uip
    BY Zenon DEF RtcInv, ClockOK
  <2>2. uip => updates > 0
    BY <1>1, Zenon DEF RtcInv, ClockOK
  <2> QED
    BY <1>1, <1>5, <2>1, <2>2
<1>10. ClockOK'
  <2>1. (carry' # 0 => uip') /\ (carry' > 1 => reg'[1] = 0) /\ (~uip' => reg' \in shown')
    BY <1>1, <1>2, <1>9, Zenon DEF RtcInv, ClockOK
  <2>2. pc' \in {"readFirst", "read"} => next' <= 4
    BY <1>1, <1>3, <1>4
  <2>3. uip' => updates' > 0
    BY <1>1, <1>2, Zenon DEF RtcInv, ClockOK
  <2> QED
    BY <2>1, <2>2, <2>3, Zenon DEF ClockOK
<1>11. \A r, n : InFormat(r, n)' = InFormat(r, n)
  BY <1>1, SameFormat
<1>12. \A r : Encoded(r)' = Encoded(r)
  BY <1>1, SameFormat DEF Encoded
<1>13. \A s, n : Apart(s, n) => Apart(s, n)'
  BY <1>1 DEF Apart, Pending
<1>14. Apart(reg[1], 0) /\ reg[1] \in 0 .. Lengths[1] - 1 /\ 0 \in 0 .. updates
  BY <1>9, ClockTyped, Assumed DEF RtcInv, Apart, Pending
<1>z. PICK z : z = reg
  OBVIOUS
(* The first register begins the reading, the others go on with it.        *)
<1>15. ReadingOK(now, next)'
  <2>1. CASE next = 1
    <3>1. now'[1] = InFormat(1, z[1])'
      BY <1>7, <1>11, <1>z, <2>1 DEF Encoded
    <3>2. 0 \in 0 .. updates' /\ z[1] \in 0 .. Lengths[1] - 1 /\ Apart(z[1], 0)'
      BY <1>1, <1>13, <1>14, <1>z
    <3>3. next' - 1 = 1
      BY <1>1, <2>1
    <3> QED
      BY <3>1, <3>2, <3>3 DEF ReadingOK
  <2>2. CASE next # 1
    <3>1. ReadingOK(now, next)
      BY <1>1, <1>3, <2>2 DEF RtcInv, ReadingsOK
    <3>2. PICK s \in 0 .. Lengths[1] - 1, n \in 0 .. updates :
            /\ now[1] = InFormat(1, s)
            /\ Apart(s, n)
            /\ n = 0 => reg[1] = 0 \/ \A r \in 2 .. next - 1 : now[r] = Encoded(r)
      BY <3>1 DEF ReadingOK
    <3>3. now'[1] = InFormat(1, s)' /\ n \in 0 .. updates' /\ Apart(s, n)'
      BY <1>1, <1>3, <1>7, <1>11, <1>13, <2>2, <3>2, Assumed
    <3>4. ASSUME \A r \in 2 .. next - 1 : now[r] = Encoded(r), NEW r \in 2 .. next' - 1
          PROVE  now'[r] = Encoded(r)'
      <4>1. CASE r = next
        BY <1>7, <1>12, <4>1
      <4>2. CASE r # next
        <5>1. r \in 2 .. next - 1 /\ r \in Register
          BY <1>1, <1>3, <4>2, Assumed
        <5> QED
          BY <1>7, <1>12, <3>4, <4>2, <5>1
      <4> QED
        BY <4>1, <4>2
    <3>5. n = 0 => reg'[1] = 0 \/ \A r \in 2 .. next' - 1 : now'[r] = Encoded(r)'
      BY <1>1, <3>2, <3>4
    <3> QED
      BY <3>3, <3>5 DEF ReadingOK
  <2> QED
    BY <2>1, <2>2
<1>16. ASSUME pc = "read", now'[1] = last[1], last' = last
       PROVE  \E t \in shown' : SameSeconds(t, next)'
  <2>1. CASE next = 1
    <3>1. last[1] = Encoded(1) /\ now'[1] = InFormat(1, z[1])'
      BY <1>7, <1>11, <1>16, <1>z, <2>1 DEF Encoded
    <3>2. carry <= 1 /\ z \in shown
      BY <1>16, <1>z, <2>1, <3>1 DEF RtcInv, ReadingsOK
    <3>3. PICK s \in 0 .. Lengths[1] - 1, n \in 0 .. updates :
            /\ last[1] = InFormat(1, s)
            /\ Apart(s, n)
            /\ n = 0 => reg[1] = 0 \/ \A r \in 2 .. 4 : last[r] = Encoded(r)
      BY <1>16, <2>1 DEF RtcInv, ReadingsOK, ReadingOK
    <3>4. s = reg[1]
      <4>1. s \in 0 .. 59 /\ reg[1] \in 0 .. 59
        BY <1>14, Assumed
      <4> QED
        BY <3>1, <3>3, <4>1, SecondsDiffer DEF Encoded
    <3>5. n = 0
      <4>1. n \in Nat /\ n <= updates /\ reg[1] \in {s + n, s + n - Lengths[1]}
        BY <3>3, <1>9, ClockTyped DEF RtcInv, Apart, Pending
      <4>2. updates \in Nat /\ updates < Lengths[1] /\ Lengths[1] \in Nat
        BY ClockTyped, Assumed DEF RtcInv
      <4> QED
        BY <3>4, <4>1, <4>2, <1>14
    <3>6. z[1] # 0 => \A r \in 2 .. 4 : last'[r] = InFormat(r, z[r])'
      BY <1>11, <1>16, <1>z, <3>3, <3>5 DEF Encoded
    <3>7. /\ 0 \in 0 .. updates' /\ Apart(z[1], 0)' /\ carry' <= 1
          /\ \A r \in 2 .. 4 : reg'[r] = z[r]
          /\ next' - 1 = 1
      BY <1>1, <1>13, <1>14, <1>z, <2>1, <3>2
    <3>8. SameSeconds(z, next)'
      BY <3>1, <3>6, <3>7 DEF SameSeconds
    <3> QED
      BY <1>1, <3>2, <3>8
  <2>2. CASE next # 1
    <3>1. now[1] = last[1] /\ now'[1] = now[1]
      BY <1>3, <1>7, <1>16, <2>2, Assumed
    <3>2. PICK t \in shown : SameSeconds(t, next)
      BY <1>3, <1>16, <2>2, <3>1 DEF RtcInv, ReadingsOK
    <3>3. ASSUME t[1] = 0, NEW r \in 2 .. next' - 1
          PROVE  now'[r] = InFormat(r, t[r])'
      <4>1. CASE r = next
        <5>1. reg[r] = t[r]
          BY <1>3, <3>2, <3>3, <4>1 DEF SameSeconds
        <5> QED
          BY <1>7, <1>11, <4>1, <5>1 DEF Encoded
      <4>2. CASE r # next
        <5>1. r \in 2 .. next - 1 /\ r \in Register
          BY <1>1, <1>3, <4>2, Assumed
        <5> QED
          BY <1>7, <1>11, <3>2, <3>3, <4>2, <5>1 DEF SameSeconds
      <4> QED
        BY <4>1, <4>2
    <3>4. /\ now'[1] = InFormat(1, t[1])'
          /\ \E n \in 0 .. updates' : Apart(t[1], n)' /\ (n = 0 => carry' <= 1)
          /\ t[1] # 0 => \A r \in 2 .. 4 : last'[r] = InFormat(r, t[r])'
          /\ t[1] = 0 => \A r \in 2 .. 4 : reg'[r] = t[r]
      BY <1>1, <1>11, <1>13, <1>16, <3>1, <3>2 DEF SameSeconds
    <3>5. SameSeconds(t, next)'
      BY <3>3, <3>4 DEF SameSeconds
    <3> QED
      BY <1>1, <3>5
  <2> QED
    BY <2>1, <2>2
<1>17. pc' = "convert" =>
         \E t \in shown' : \A r \in Register : now'[r] = InFormat(r, t[r])'
  <2> SUFFICES ASSUME pc' = "convert"
               PROVE  \E t \in shown' : \A r \in Register : now'[r] = InFormat(r, t[r])'
    OBVIOUS
  <2>1. next = 4 /\ pc = "read" /\ now' = last /\ last' = last
    BY <1>1, <1>3, <1>4
  <2>2. PICK t \in shown' : SameSeconds(t, next)'
    BY <1>16, <2>1
  <2>3. next' - 1 = 4
    BY <1>1, <2>1
  <2>4. ASSUME NEW r \in Register PROVE now'[r] = InFormat(r, t[r])'
    <3>1. r = 1 \/ r \in 2 .. 4
      BY Assumed
    <3> QED
      BY <2>1, <2>2, <2>3, <3>1 DEF SameSeconds
  <2> QED
    BY <2>4
<1>18. ReadingsOK'
  <2>1. pc' \in {"readFirst", "read"} /\ next' > 1 => ReadingOK(now, next)'
    BY <1>15
  <2>2. pc' = "wait" => ReadingOK(last, 5)'
    <3> SUFFICES ASSUME pc' = "wait" PROVE ReadingOK(last, 5)'
      OBVIOUS
    <3>1. next' = 5 /\ last' = now'
      BY <1>1, <1>3, <1>4
    <3> QED
      BY <1>15, <3>1 DEF ReadingOK
  <2>3. next' # 1
    BY <1>1, <1>3
  <2>4. pc' = "read" /\ now'[1] = last'[1] => \E t \in shown' : SameSeconds(t, next)'
    BY <1>1, <1>3, <1>4, <1>16
  <2> QED
    BY <1>17, <2>1, <2>2, <2>3, <2>4 DEF ReadingsOK
<1>19. TimeWasShown'
  BY <1>5 DEF TimeWasShown
<1> QED
  BY <1>8, <1>10, <1>18, <1>19 DEF RtcInv

LEMMA UnchangedKeeps == RtcInv /\ UNCHANGED rtcVars => RtcInv'
<1> SUFFICES ASSUME RtcInv, UNCHANGED rtcVars PROVE RtcInv'
  OBVIOUS
<1>1. /\ reg' = reg /\ carry' = carry /\ format' = format /\ uip' = uip
      /\ pc' = pc /\ next' = next /\ now' = now /\ last' = last
      /\ shown' = shown /\ updates' = updates
  BY Zenon DEF rtcVars, clock, call
<1>2. RtcTypeOK' /\ ClockOK' /\ TimeWasShown'
  BY <1>1, Zenon DEF RtcInv, RtcTypeOK, ClockOK, TimeWasShown
<1>3. ReadingsOK'
  <2>1. \A r, n : InFormat(r, n)' = InFormat(r, n)
    BY <1>1, SameFormat
  <2>2. \A r : Encoded(r)' = Encoded(r)
    BY <1>1, SameFormat DEF Encoded
  <2>3. \A s, n : Apart(s, n) => Apart(s, n)'
    BY <1>1 DEF Apart, Pending
  <2>4. \A time, m : ReadingOK(time, m) => ReadingOK(time, m)'
    BY <1>1, <2>1, <2>2, <2>3 DEF ReadingOK
  <2>5. \A t, m : SameSeconds(t, m) => SameSeconds(t, m)'
    BY <1>1, <2>1, <2>2, <2>3 DEF SameSeconds
  <2> QED
    BY <1>1, <2>1, <2>2, <2>4, <2>5 DEF RtcInv, ReadingsOK
<1> QED
  BY <1>2, <1>3 DEF RtcInv

LEMMA RtcInvNext == RtcInv /\ [RtcNext]_rtcVars => RtcInv'
BY UpdateBeginsKeeps, UpdateRegisterKeeps, UpdateEndsKeeps, GetTimeKeeps, ReadTimeKeeps,
   ReadKeeps, ConvertKeeps, UseKeeps, UnchangedKeeps DEF RtcNext

-----------------------------------------------------------------------------
(* The clock by itself: RTC_GetTime() called again and again while the     *)
(* clock runs.                                                             *)

(* The invariant, with the types: what a call returns is a time of day.    *)
THEOREM ClockInvariant == RtcSpec => []RtcInv
<1>1. RtcInit => RtcInv
  BY RtcInvInit
<1>2. RtcInv /\ [RtcNext]_rtcVars => RtcInv'
  BY RtcInvNext
<1> QED
  BY <1>1, <1>2, PTL DEF RtcSpec

(* RTC_GetTime() returns a time the clock showed during the call, never a  *)
(* mixture of two, for every time, format and length of the call below a   *)
(* minute.                                                                 *)
THEOREM TimeReadWasShown == RtcSpec => []TimeWasShown
<1>1. RtcInv => TimeWasShown
  BY DEF RtcInv
<1> QED
  BY <1>1, ClockInvariant, PTL

-----------------------------------------------------------------------------
(* Scripts: how they are put together.                                     *)
LEMMA OneCall ==
  ASSUME NEW call0, call0.op \notin {"COM_Init", "RTC_GetTime", "time", "break"}
  PROVE  Opens(<<call0>>, 0)
<1>1. /\ <<call0>> \in Seq({call0}) /\ Len(<<call0>>) = 1 /\ <<call0>>[1] = call0
      /\ DOMAIN <<call0>> = 1 .. 1
  OBVIOUS
<1>2. Range(<<call0>>) = {call0}
  BY <1>1 DEF Range
<1> QED
  BY <1>1, <1>2 DEF Opens

LEMMA PutsOpens == \A str : Opens(Puts(str), 0)
<1> TAKE str
<1>1. [Call("fputs") EXCEPT !.str = str].op = "fputs"
  BY DEF Call
<1> QED
  BY <1>1, OneCall DEF Puts

LEMMA PutIntOpens == \A base, width : Opens(PutInt(base, width), 0)
<1> TAKE base, width
<1>1. [Call("itoa") EXCEPT !.base = base, !.width = width].op = "itoa"
  BY DEF Call
<1> QED
  BY <1>1, OneCall DEF PutInt

LEMMA PutLongOpens == \A base, width : Opens(PutLong(base, width), 0)
<1> TAKE base, width
<1>1. [Call("ltoa") EXCEPT !.base = base, !.width = width].op = "ltoa"
  BY DEF Call
<1> QED
  BY <1>1, OneCall DEF PutLong

LEMMA DoOpens ==
  ASSUME NEW name, name \notin {"COM_Init", "RTC_GetTime", "time", "break"}
  PROVE  Opens(Do(name), 0)
<1>1. Call(name).op = name
  BY DEF Call
<1> QED
  BY <1>1, OneCall DEF Do

LEMMA Sequence ==
  ASSUME NEW s, NEW n, Opens(s, n)
  PROVE  /\ s \in Seq(Range(s)) /\ Len(s) \in Nat /\ n <= Len(s)
         /\ DOMAIN s = 1 .. Len(s)
BY DEF Opens

LEMMA Lengthened ==
  ASSUME NEW S, NEW s \in Seq(S), NEW t \in Seq(S)
  PROVE  Len(s \o t) = Len(s) + Len(t)
OBVIOUS

LEMMA InRange ==
  ASSUME NEW S, NEW s \in Seq(S)
  PROVE  s \in Seq(Range(s))
<1>1. \A k \in 1 .. Len(s) : s[k] \in Range(s)
  BY DEF Range
<1> QED
  BY <1>1

LEMMA Joined ==
  ASSUME NEW n \in Nat, NEW s, NEW t, Opens(s, n), Opens(t, 0)
  PROVE  Opens(s \o t, n)
<1> DEFINE S == Range(s) \cup Range(t)
<1>1. /\ s \in Seq(S) /\ t \in Seq(S) /\ n <= Len(s)
      /\ s \o t \in Seq(S) /\ Len(s \o t) = Len(s) + Len(t)
      /\ Len(s) \in Nat /\ Len(t) \in Nat
  <2>1. s \in Seq(Range(s)) /\ t \in Seq(Range(t)) /\ n <= Len(s)
    BY DEF Opens
  <2>2. s \in Seq(S) /\ t \in Seq(S)
    BY <2>1
  <2> QED
    BY <2>1, <2>2
<1>2. s \o t \in Seq(Range(s \o t))
  BY <1>1, InRange
<1> HIDE DEF S
<1>3. ASSUME NEW k \in DOMAIN (s \o t)
      PROVE  IF k <= n THEN (s \o t)[k].op = "COM_Init"
             ELSE (s \o t)[k].op \notin {"COM_Init", "RTC_GetTime", "time", "break"}
  <2>1. k \in 1 .. Len(s) + Len(t)
    BY <1>1
  <2>2. CASE k <= Len(s)
    <3>1. (s \o t)[k] = s[k] /\ k \in DOMAIN s
      BY <1>1, <2>1, <2>2
    <3> QED
      BY <3>1 DEF Opens
  <2>3. CASE k > Len(s)
    <3>1. (s \o t)[k] = t[k - Len(s)] /\ k - Len(s) \in DOMAIN t /\ ~(k - Len(s) <= 0) /\ ~(k <= n)
      BY <1>1, <2>1, <2>3
    <3> QED
      BY <3>1 DEF Opens
  <2> QED
    BY <1>1, <2>1, <2>2, <2>3
<1>4. n <= Len(s \o t)
  BY <1>1
<1> QED
  BY <1>2, <1>3, <1>4 DEF Opens

LEMMA Repeated ==
  ASSUME NEW n \in Nat, NEW calls, Opens(calls, 0)
  PROVE  Opens(Repeat(n, calls), 0)
<1> DEFINE r == Repeat(n, calls)
           m == Len(calls)
           S == Range(calls)
<1>1. calls \in Seq(S) /\ m \in Nat /\ n * m \in Nat
  BY DEF Opens
<1>2. ASSUME NEW k \in 1 .. n * m
      PROVE  ((k - 1) % m) + 1 \in DOMAIN calls
  <2>1. m > 0
    BY <1>1
  <2> QED
    BY <1>1, <2>1
<1>3. r = [k \in 1 .. n * m |-> calls[((k - 1) % m) + 1]]
  BY DEF Repeat
<1>4. \A k \in 1 .. n * m : r[k] = calls[((k - 1) % m) + 1] /\ r[k] \in S
  BY <1>1, <1>2, <1>3
<1>5. r \in Seq(S) /\ Len(r) = n * m /\ DOMAIN r = 1 .. n * m
  BY <1>1, <1>3, <1>4
<1> HIDE DEF r, m, S
<1>6. ASSUME NEW k \in DOMAIN r
      PROVE  r[k].op \notin {"COM_Init", "RTC_GetTime", "time", "break"} /\ ~(k <= 0)
  <2>1. ((k - 1) % m) + 1 \in DOMAIN calls /\ r[k] = calls[((k - 1) % m) + 1]
    BY <1>2, <1>4, <1>5, <1>6
  <2>2. ~(((k - 1) % m) + 1 <= 0)
    BY <1>1, <2>1
  <2> QED
    BY <1>5, <1>6, <2>1, <2>2 DEF Opens
<1>7. Opens(r, 0)
  BY <1>1, <1>5, <1>6, InRange DEF Opens
<1> QED
  BY <1>7 DEF r

LEMMA TailOpens ==
  ASSUME NEW n \in Nat, NEW s, Opens(s, n), s # <<>>
  PROVE  Opens(Tail(s), IF n = 0 THEN 0 ELSE n - 1)
<1> DEFINE t == Tail(s)
           m == IF n = 0 THEN 0 ELSE n - 1
           S == Range(s)
<1>1. /\ s \in Seq(S) /\ Len(s) \in Nat /\ Len(s) > 0 /\ n <= Len(s)
      /\ t \in Seq(S) /\ Len(t) = Len(s) - 1
      /\ \A k \in 1 .. Len(t) : t[k] = s[k + 1] /\ k + 1 \in DOMAIN s
  BY DEF Opens
<1>2. m \in Nat /\ m <= Len(t) /\ \A k \in 1 .. Len(t) : k <= m <=> k + 1 <= n
  BY <1>1
<1> HIDE DEF t, m, S
<1>3. ASSUME NEW k \in DOMAIN t
      PROVE  IF k <= m THEN t[k].op = "COM_Init"
             ELSE t[k].op \notin {"COM_Init", "RTC_GetTime", "time", "break"}
  <2>1. k \in 1 .. Len(t)
    BY <1>1
  <2> QED
    BY <1>1, <1>2, <2>1 DEF Opens
<1>4. Opens(t, m)
  BY <1>1, <1>2, <1>3, InRange DEF Opens
<1> QED
  BY <1>4 DEF t, m

LEMMA Both == \A s, t : Opens(s, 0) /\ Opens(t, 0) => Opens(s \o t, 0)
BY Joined

LEMMA ReadsNoClock ==
  /\ \A name \in {"DumpPTE", "getchar", "putchar", "switch", "halt", "VBE_GetInfo", "pause"} :
       Opens(Do(name), 0)
  /\ \A i : Opens(Modes(i), 0)
  /\ Opens(<<>>, 0)
<1>1. ASSUME NEW name \in {"DumpPTE", "getchar", "putchar", "switch", "halt", "VBE_GetInfo",
                           "pause"}
      PROVE  Opens(Do(name), 0)
  BY DoOpens
<1>2. ASSUME NEW i PROVE Opens(Modes(i), 0)
  <2>1. [Call("modes") EXCEPT !.width = i].op = "modes"
    BY DEF Call
  <2> QED
    BY <2>1, OneCall DEF Modes
<1>3. Opens(<<>>, 0)
  <2>1. <<>> \in Seq(Range(<<>>)) /\ Len(<<>>) = 0 /\ DOMAIN <<>> = {}
    BY InRange
  <2> QED
    BY <2>1 DEF Opens
<1> QED
  BY <1>1, <1>2, <1>3

LEMMA PartsOpen ==
  /\ Opens(NewLine, 0) /\ Opens(Hex8, 0) /\ Opens(read_apic, 0) /\ Opens(ShowCPUID, 0)
  /\ Opens(init_graphics, 0) /\ Opens(print_page_tables, 0)
  /\ Opens(AskAndEcho, 0) /\ Opens(Panic, 0) /\ Opens(malloc_test, 0)
<1>1. Opens(NewLine, 0) /\ Opens(Hex8, 0)
  BY PutsOpens, PutIntOpens, Both DEF NewLine, Hex8
<1>2. Opens(read_apic, 0)
  BY <1>1, Repeated DEF read_apic
<1>3. Opens(ShowCPUID, 0)
  BY <1>1, PutsOpens, Both DEF ShowCPUID
<1>4. Opens(init_graphics, 0)
  <2> DEFINE s == Puts(<<"video ram: ">>) \o PutLong(10, 1) \o Puts(<<LF, "video mode: 0x">>)
                    \o PutInt(16, 3)
             t == s \o Puts(<<"  ">>) \o PutInt(10, 1) \o Puts(<<" x ">>) \o PutInt(10, 1)
  <2>1. Opens(s, 0)
    BY PutsOpens, PutIntOpens, PutLongOpens, Both, Zenon
  <2>2. init_graphics = t \o Puts(<<" x ">>) \o PutInt(10, 1) \o Puts(<<"  0x">>)
                          \o PutLong(16, 8) \o NewLine
    BY Zenon DEF init_graphics
  <2> HIDE DEF s
  <2>3. Opens(t, 0)
    BY <2>1, PutsOpens, PutIntOpens, Both, Zenon
  <2> HIDE DEF t
  <2> QED
    BY <1>1, <2>2, <2>3, PutsOpens, PutIntOpens, PutLongOpens, Both, Zenon
<1>5. \A prefix : Opens(PrintPTE(prefix), 0)
  BY <1>1, PutsOpens, ReadsNoClock, Both DEF PrintPTE
<1>6. Opens(PrintPDT, 0) /\ Opens(PrintPT, 0)
  <2>1. Opens(Puts(<<"PDT[">>) \o PutInt(10, 3) \o PrintPTE("]      = "), 0)
    BY <1>5, PutsOpens, PutIntOpens, Both
  <2>2. Opens(PutLong(16, 12) \o PrintPTE(" -> "), 0)
    BY <1>5, PutLongOpens, Both
  <2> QED
    BY <2>1, <2>2, Repeated, ScriptsAssumption DEF PrintPDT, PrintPT
<1>7. Opens(print_page_tables, 0)
  BY <1>5, <1>6, Both DEF print_page_tables
<1>8. Opens(AskAndEcho, 0) /\ Opens(Panic, 0) /\ Opens(malloc_test, 0)
  BY <1>1, PutsOpens, PutIntOpens, PutLongOpens, ReadsNoClock, Both
     DEF AskAndEcho, Panic, malloc_test
<1> QED
  BY <1>1, <1>2, <1>3, <1>4, <1>7, <1>8

LEMMA OpeningOpens == \A b \in DOMAIN Opening : \E n \in {1, 2} : Opens(Opening[b], n)
<1> DEFINE Init1 == Do("COM_Init")
<1>1. Opens(Init1, 1) /\ Opens(Init1 \o Init1, 2)
  <2>1. PICK com : com = Call("COM_Init")
    OBVIOUS
  <2>2. com.op = "COM_Init"
    BY <2>1 DEF Call
  <2>3. Init1 = <<com>>
    BY <2>1 DEF Do
  <2>4. /\ <<com>> \in Seq({com}) /\ Len(<<com>>) = 1 /\ <<com>>[1] = com
        /\ DOMAIN <<com>> = 1 .. 1
    OBVIOUS
  <2>5. ASSUME NEW s \in Seq({com}), Len(s) = 1
        PROVE  /\ s \o s \in Seq({com}) /\ Len(s \o s) = 2
               /\ (s \o s)[1] = com /\ (s \o s)[2] = com
               /\ DOMAIN (s \o s) = 1 .. 2
    <3>1. s[1] = com
      BY <2>5
    <3>2. s \o s \in Seq({com}) /\ Len(s \o s) = 2
      <4>1. s \o s \in Seq({com})
        BY <2>5
      <4>2. Len(s \o s) = Len(s) + Len(s)
        BY <2>5, Lengthened
      <4> QED
        BY <2>5, <4>1, <4>2
    <3>3. DOMAIN (s \o s) = 1 .. 2 /\ (s \o s)[1] = s[1] /\ (s \o s)[2] = s[1]
      BY <2>5, <3>2
    <3> QED
      BY <3>1, <3>2, <3>3
  <2> HIDE DEF Init1
  <2>6. Init1 \in Seq({com}) /\ Len(Init1) = 1 /\ Init1[1] = com /\ DOMAIN Init1 = 1 .. 1
    BY <2>3, <2>4
  <2>7. Opens(Init1, 1)
    BY <2>2, <2>6, InRange DEF Opens
  <2>8. Opens(Init1 \o Init1, 2)
    <3>1. Init1 \o Init1 \in Seq(Range(Init1 \o Init1))
      BY <2>5, <2>6, InRange
    <3> QED
      BY <2>2, <2>6, <2>5, <3>1 DEF Opens
  <2> QED
    BY <2>7, <2>8
<1> HIDE DEF Init1
<1>3. /\ \A t : Opens(t, 0) => Opens(Init1 \o t, 1)
      /\ \A t : Opens(t, 0) => Opens((Init1 \o Init1) \o t, 2)
      /\ \A s, t : Opens(s, 1) /\ Opens(t, 0) => Opens(s \o t, 1)
  BY <1>1, Joined
<1>4. DOMAIN Opening = {"rm16", "lm64", "pm32", "vga", "vesa"}
  BY DEF Opening
<1>5. Opens(Opening["rm16"], 1)
  BY <1>3, PutsOpens DEF Opening, Init1
<1>6. Opens(Opening["lm64"], 1)
  BY <1>3, PutsOpens, PartsOpen DEF Opening, Init1
<1>7. Opens(Opening["pm32"], 2)
  BY <1>3, PutsOpens DEF Opening, Init1
<1>8. Opens(Opening["vga"], 1)
  BY <1>3, PutsOpens DEF Opening, Init1
<1>9. Opens(Opening["vesa"], 1)
  BY <1>3, PutsOpens, PartsOpen DEF Opening, Init1
<1> QED
  BY <1>4, <1>5, <1>6, <1>7, <1>8, <1>9

LEMMA LoopOpens == \A b \in DOMAIN Opening : Opens(Loop[b], 0)
<1>1. DOMAIN Opening = {"rm16", "lm64", "pm32", "vga", "vesa"}
  BY DEF Opening
<1>2. Opens(Loop["rm16"], 0) /\ Opens(Loop["lm64"], 0)
  BY PutsOpens, PutIntOpens, PutLongOpens, ReadsNoClock, PartsOpen, Both DEF Loop
<1>3. Opens(Loop["pm32"], 0) /\ Opens(Loop["vga"], 0) /\ Opens(Loop["vesa"], 0)
  BY PutIntOpens, PartsOpen, Both DEF Loop
<1> QED
  BY <1>1, <1>2, <1>3

LEMMA AnswerOpens ==
  ASSUME NEW b, NEW ch
  PROVE  Answer(b, ch) = ReadClock \/ Opens(Answer(b, ch), 0)
<1>1. CASE b = "rm16"
  <2>1. Answers[b] = [e |-> Puts(<<LF, "IRQ 0 enabled">>),
                      d |-> Puts(<<LF, "IRQ 0 disabled">>),
                      t |-> ReadClock,
                      v |-> Puts(<<"Querying", LF>>) \o Do("VBE_GetInfo")]
    BY <1>1 DEF Answers
  <2>2. Opens(Puts(<<"Querying", LF>>) \o Do("VBE_GetInfo"), 0)
    BY PutsOpens, ReadsNoClock, Both
  <2>3. ASSUME ch \in {"e", "d", "t", "v"}
        PROVE  Answers[b][ch] = ReadClock \/ Opens(Answers[b][ch], 0)
    <3>1. PICK on : on = Puts(<<LF, "IRQ 0 enabled">>)
      OBVIOUS
    <3>2. PICK off : off = Puts(<<LF, "IRQ 0 disabled">>)
      OBVIOUS
    <3>3. PICK vbe : vbe = Puts(<<"Querying", LF>>) \o Do("VBE_GetInfo")
      OBVIOUS
    <3>4. Answers[b] = [e |-> on, d |-> off, t |-> ReadClock, v |-> vbe]
      BY <2>1, <3>1, <3>2, <3>3, Zenon
    <3>5. Opens(on, 0) /\ Opens(off, 0) /\ Opens(vbe, 0)
      BY <2>2, <3>1, <3>2, <3>3, PutsOpens, Zenon
    <3> HIDE <3>1, <3>2, <3>3
    <3> QED
      BY <2>3, <3>4, <3>5
  <2>4. DOMAIN Answers[b] = {"e", "d", "t", "v"}
    BY <2>1
  <2> QED
    BY <2>3, <2>4, ReadsNoClock DEF Answer
<1>2. CASE b = "lm64"
  <2>1. Answers[b] = [d |-> Panic, p |-> Panic, m |-> malloc_test]
    BY <1>2 DEF Answers
  <2>2. ASSUME ch \in {"d", "p", "m"} PROVE Opens(Answers[b][ch], 0)
    BY <2>1, <2>2, PartsOpen
  <2>3. DOMAIN Answers[b] = {"d", "p", "m"}
    BY <2>1
  <2> QED
    BY <2>2, <2>3, ReadsNoClock DEF Answer
<1>3. CASE b \notin {"rm16", "lm64"}
  <2>1. DOMAIN Answers = {"rm16", "lm64"}
    BY DEF Answers
  <2> QED
    BY <1>3, <2>1, ReadsNoClock DEF Answer
<1> QED
  BY <1>1, <1>2, <1>3

LEMMA VbeOpens ==
  /\ Opens(VbeInfo, 0) /\ Opens(VbeFailed, 0)
  /\ \A i : \A s \in AtMode(i) : Opens(s, 0)
<1>1. Opens(VbeInfo, 0) /\ Opens(VbeFailed, 0)
  BY PutsOpens, PutIntOpens, ReadsNoClock, PartsOpen, Both DEF VbeInfo, VbeFailed
<1>2. ASSUME NEW i PROVE Opens(VbeMode(i), 0)
  <2>1. Opens(IF i % 16 = 4 THEN Do("pause") ELSE <<>>, 0)
    BY ReadsNoClock
  <2> DEFINE s == Puts(<<"mode: 0x">>) \o PutInt(16, 3) \o Puts(<<"  res: ">>) \o PutInt(10, 4)
             t == s \o Puts(<<" x ">>) \o PutInt(10, 4) \o Puts(<<" x ">>) \o PutInt(10, 2)
  <2>2. Opens(s, 0)
    BY PutsOpens, PutIntOpens, Both, Zenon
  <2>3. VbeMode(i) = t \o Puts(<<"  fbuf: 0x">>) \o PutInt(16, 8)
                       \o Puts(<<"  direct-color", LF>>)
                       \o IF i % 16 = 4 THEN Do("pause") ELSE <<>>
    BY Zenon DEF VbeMode
  <2> HIDE DEF s
  <2>4. Opens(t, 0)
    BY <2>2, PutsOpens, PutIntOpens, Both, Zenon
  <2> HIDE DEF t
  <2> QED
    BY <2>1, <2>3, <2>4, PutsOpens, PutIntOpens, Both, Zenon
<1>3. ASSUME NEW i, NEW s \in AtMode(i) PROVE Opens(s, 0)
  <2>1. s \in {<<>>, Modes(i + 1), VbeMode(i) \o Modes(i + 1)}
    BY <1>3 DEF AtMode
  <2> QED
    BY <1>2, <2>1, ReadsNoClock, Both
<1> QED
  BY <1>1, <1>3

-----------------------------------------------------------------------------
(* The port.                                                               *)

Uart == {"dll", "dlm", "ier", "fcr", "lcr", "mcr"}

(* A write to a port that is not the transmitter's.                        *)
LEMMA OutbRegister ==
  ASSUME NEW port, NEW byte, Outb(port, byte), NEW r \in Uart, Selects(port) = r,
         DOMAIN uart = Uart
  PROVE  /\ uart' = [uart EXCEPT ![r] = byte] /\ DOMAIN uart' = Uart
         /\ uart'[r] = byte /\ \A q \in Uart : q # r => uart'[q] = uart[q]
         /\ tx' = IF r = "fcr" THEN <<>> ELSE tx
         /\ rx' = IF r = "fcr" THEN <<>> ELSE rx
<1>1. Selects(port) # "thr"
  BY DEF Uart
<1>2. /\ uart' = [uart EXCEPT ![r] = byte]
      /\ tx' = IF r = "fcr" THEN <<>> ELSE tx
      /\ rx' = IF r = "fcr" THEN <<>> ELSE rx
  BY <1>1 DEF Outb
<1> QED
  BY <1>2

LEMMA Writes ==
  /\ COM_InitWrites[1] = <<1, "0x00">> /\ COM_InitWrites[2] = <<3, "0x80">>
  /\ COM_InitWrites[3] = <<0, "0x0C">> /\ COM_InitWrites[4] = <<1, "0x00">>
  /\ COM_InitWrites[5] = <<3, "0x03">> /\ COM_InitWrites[6] = <<2, "0xC7">>
  /\ COM_InitWrites[7] = <<4, "0x0B">>
BY DEF COM_InitWrites

PortInv == SerialTypeOK /\ UartOK

LEMMA InitPortKeeps ==
  ASSUME PortInv, tx = <<>>, COM_Init
  PROVE  /\ PortInv' /\ tx' = <<>> /\ rx' \in {rx, <<>>} /\ text' = text /\ at' = at
         /\ COM_Ready' <=> inits = 6
<1>1. /\ inits \in 0 .. 7 /\ DOMAIN uart = Uart /\ rx \in Seq(Key)
      /\ Len(rx) <= FifoSize /\ FifoSize \in Nat
  BY SerialAssumption, Zenon DEF PortInv, SerialTypeOK, Uart
<1>2. /\ inits' = (inits % 7) + 1 /\ text' = text /\ at' = at /\ c' = c
      /\ Outb(COM_InitWrites[inits'][1], COM_InitWrites[inits'][2])
  BY Zenon DEF COM_Init
<1>3. crSent' = crSent
  BY Zenon DEF COM_Init
<1>4. \/ inits \in {0, 7} /\ inits' = 1
      \/ inits = 1 /\ inits' = 2
      \/ inits = 2 /\ inits' = 3
      \/ inits = 3 /\ inits' = 4
      \/ inits = 4 /\ inits' = 5
      \/ inits = 5 /\ inits' = 6
      \/ inits = 6 /\ inits' = 7
  BY <1>1, <1>2
<1>5. /\ DLAB <=> inits \in 2 .. 4
      /\ inits >= 1 => uart["ier"] = "0x00"
      /\ inits >= 3 => uart["dll"] = "0x0C"
      /\ inits >= 4 => uart["dlm"] = "0x00"
      /\ inits >= 5 => uart["lcr"] = "0x03"
  BY DEF PortInv, UartOK
<1> DEFINE Kept(r) == /\ DOMAIN uart' = Uart
                      /\ \A q \in Uart : q # r => uart'[q] = uart[q]
                      /\ tx' = <<>> /\ rx' \in {rx, <<>>}
<1>6. ASSUME inits \in {0, 7}, inits' = 1
      PROVE  Kept("ier") /\ uart'["ier"] = "0x00"
  <2>1. Outb(1, "0x00")
    BY <1>2, <1>6, Writes
  <2>2. Selects(1) = "ier" /\ "ier" \in Uart
    BY <1>5, <1>6 DEF Selects, Uart
  <2> QED
    BY <1>1, <2>1, <2>2, OutbRegister
<1>7. ASSUME inits = 1, inits' = 2
      PROVE  Kept("lcr") /\ uart'["lcr"] = "0x80"
  <2>1. Outb(3, "0x80")
    BY <1>2, <1>7, Writes
  <2>2. Selects(3) = "lcr" /\ "lcr" \in Uart
    BY DEF Selects, Uart
  <2> QED
    BY <1>1, <2>1, <2>2, OutbRegister
<1>8. ASSUME inits = 2, inits' = 3
      PROVE  Kept("dll") /\ uart'["dll"] = "0x0C"
  <2>1. Outb(0, "0x0C")
    BY <1>2, <1>8, Writes
  <2>2. Selects(0) = "dll" /\ "dll" \in Uart
    BY <1>5, <1>8 DEF Selects, Uart
  <2> QED
    BY <1>1, <2>1, <2>2, OutbRegister
<1>9. ASSUME inits = 3, inits' = 4
      PROVE  Kept("dlm") /\ uart'["dlm"] = "0x00"
  <2>1. Outb(1, "0x00")
    BY <1>2, <1>9, Writes
  <2>2. Selects(1) = "dlm" /\ "dlm" \in Uart
    BY <1>5, <1>9 DEF Selects, Uart
  <2> QED
    BY <1>1, <2>1, <2>2, OutbRegister
<1>10. ASSUME inits = 4, inits' = 5
       PROVE  Kept("lcr") /\ uart'["lcr"] = "0x03"
  <2>1. Outb(3, "0x03")
    BY <1>2, <1>10, Writes
  <2>2. Selects(3) = "lcr" /\ "lcr" \in Uart
    BY DEF Selects, Uart
  <2> QED
    BY <1>1, <2>1, <2>2, OutbRegister
<1>11. ASSUME inits = 5, inits' = 6
       PROVE  Kept("fcr")
  <2>1. Outb(2, "0xC7")
    BY <1>2, <1>11, Writes
  <2>2. Selects(2) = "fcr" /\ "fcr" \in Uart
    BY DEF Selects, Uart
  <2> QED
    BY <1>1, <2>1, <2>2, OutbRegister
<1>12. ASSUME inits = 6, inits' = 7
       PROVE  Kept("mcr")
  <2>1. Outb(4, "0x0B")
    BY <1>2, <1>12, Writes
  <2>2. Selects(4) = "mcr" /\ "mcr" \in Uart
    BY DEF Selects, Uart
  <2> QED
    BY <1>1, <2>1, <2>2, OutbRegister
<1>13. DOMAIN uart' = Uart /\ tx' = <<>> /\ rx' \in {rx, <<>>}
  BY <1>4, <1>6, <1>7, <1>8, <1>9, <1>10, <1>11, <1>12
<1>14. UartOK'
  <2> SUFFICES /\ uart'["lcr"] = "0x80" <=> inits' \in 2 .. 4
               /\ inits' >= 1 => uart'["ier"] = "0x00"
               /\ inits' >= 3 => uart'["dll"] = "0x0C"
               /\ inits' >= 4 => uart'["dlm"] = "0x00"
               /\ inits' >= 5 => uart'["lcr"] = "0x03"
    BY DEF UartOK, DLAB
  <2>1. uart["lcr"] = "0x80" <=> inits \in 2 .. 4
    BY <1>5 DEF DLAB
  <2> USE DEF Uart
  <2>2. CASE inits \in {0, 7} /\ inits' = 1
    BY <1>5, <1>6, <2>1, <2>2
  <2>3. CASE inits = 1 /\ inits' = 2
    BY <1>5, <1>7, <2>1, <2>3
  <2>4. CASE inits = 2 /\ inits' = 3
    BY <1>5, <1>8, <2>1, <2>4
  <2>5. CASE inits = 3 /\ inits' = 4
    BY <1>5, <1>9, <2>1, <2>5
  <2>6. CASE inits = 4 /\ inits' = 5
    BY <1>5, <1>10, <2>1, <2>6
  <2>7. CASE inits = 5 /\ inits' = 6
    BY <1>5, <1>11, <2>1, <2>7
  <2>8. CASE inits = 6 /\ inits' = 7
    BY <1>5, <1>12, <2>1, <2>8
  <2> QED
    BY <1>4, <2>2, <2>3, <2>4, <2>5, <2>6, <2>7, <2>8
<1>15. SerialTypeOK'
  <2>1. inits' \in 0 .. 7 /\ rx' \in Seq(Key) /\ Len(rx') <= FifoSize
    <3>1. CASE rx' = rx
      BY <1>1, <1>4, <3>1
    <3>2. CASE rx' = <<>>
      <4>1. Len(rx') = 0 /\ rx' \in Seq(Key)
        BY <3>2
      <4> QED
        BY <1>1, <1>4, <4>1
    <3> QED
      BY <1>13, <3>1, <3>2
  <2>2. crSent' => ~Printed' /\ text'[at'] = LF
    BY <1>2, <1>3, Zenon DEF PortInv, SerialTypeOK, Printed, LF
  <2> QED
    BY <1>2, <1>13, <2>1, <2>2, Zenon DEF PortInv, SerialTypeOK, Uart
<1>16. COM_Ready' <=> inits = 6
  BY <1>4 DEF COM_Ready
<1> QED
  BY <1>2, <1>13, <1>14, <1>15, <1>16 DEF PortInv

LEMMA PrintedFacts == PortInv /\ Printed => ~crSent
BY Zenon DEF PortInv, SerialTypeOK

LEMMA PutsKeeps ==
  ASSUME PortInv, Printed, NEW str, fputs(str)
  PROVE  PortInv' /\ tx' = tx /\ inits' = inits
<1>1. /\ text' = str /\ at' = 1
      /\ uart' = uart /\ tx' = tx /\ rx' = rx /\ inits' = inits /\ c' = c
  BY DEF fputs
<1>2. crSent' = crSent
  BY Zenon DEF fputs
<1>3. ~crSent'
  BY <1>2, PrintedFacts, Zenon
<1>4. at' \in Nat \ {0} /\ (at' > 1 => at' - 1 \in DOMAIN text')
  BY <1>1
<1>5. SerialTypeOK'
  BY <1>1, <1>3, <1>4, Zenon DEF PortInv, SerialTypeOK
<1>6. UartOK'
  BY <1>1 DEF PortInv, UartOK, DLAB
<1> QED
  BY <1>1, <1>5, <1>6 DEF PortInv

LEMMA WriteCharKeeps ==
  ASSUME PortInv, COM_Ready, COM_WriteChar
  PROVE  PortInv' /\ text # <<>> /\ text' = text /\ inits' = inits
<1>1. /\ ~Printed /\ tx = <<>>
      /\ Outb(0, IF crSent' THEN CR ELSE text[at])
      /\ at' = IF crSent' THEN at ELSE at + 1
      /\ inits' = inits /\ text' = text /\ c' = c
  BY Zenon DEF COM_WriteChar, COM_SendChar, COM_IsTxEmpty
<1>2. crSent' <=> (text[at] = LF /\ ~crSent)
  BY Zenon DEF COM_WriteChar
<1>3. at \in DOMAIN text /\ at \in Nat \ {0} /\ DOMAIN uart = Uart
  BY <1>1, Zenon DEF PortInv, SerialTypeOK, Printed, Uart
<1>4. Selects(0) = "thr"
  BY DEF PortInv, UartOK, COM_Ready, Selects
<1>5. PICK a : Outb(0, a)
  BY <1>1, Zenon
<1>6. uart' = uart /\ tx' = <<a>> /\ rx' = rx
  BY <1>1, <1>4, <1>5 DEF Outb
<1>7. tx' # <<>> => tx' = <<Head(tx')>>
  BY <1>6
<1>8. at' \in Nat \ {0} /\ (at' > 1 => at' - 1 \in DOMAIN text')
  <2>1. CASE at' = at
    BY <1>1, <1>3, <2>1, Zenon DEF PortInv, SerialTypeOK
  <2>2. CASE at' = at + 1
    <3>1. at' - 1 = at /\ at' \in Nat \ {0}
      BY <1>3, <2>2
    <3> QED
      BY <1>1, <1>3, <3>1
  <2> QED
    BY <1>1, <2>1, <2>2
<1>9. crSent' => ~Printed' /\ text'[at'] = LF
  BY <1>1, <1>2, <1>3, Zenon DEF Printed
<1>10. SerialTypeOK'
  BY <1>1, <1>6, <1>7, <1>8, <1>9, Zenon DEF PortInv, SerialTypeOK, LF
<1>11. UartOK'
  BY <1>1, <1>6 DEF PortInv, UartOK, DLAB
<1>12. text # <<>>
  BY <1>3
<1> QED
  BY <1>1, <1>10, <1>11, <1>12 DEF PortInv

LEMMA TransmitKeeps ==
  ASSUME PortInv, Transmit
  PROVE  PortInv' /\ tx # <<>> /\ tx' = <<>> /\ text' = text /\ inits' = inits
<1>1. /\ tx # <<>> /\ tx' = Tail(tx) /\ uart' = uart /\ rx' = rx /\ inits' = inits
      /\ text' = text /\ at' = at /\ c' = c
  BY Zenon DEF Transmit
<1>2. crSent' = crSent
  BY Zenon DEF Transmit
<1>3. tx' = <<>>
  <2>1. PICK a : a = Head(tx)
    OBVIOUS
  <2>2. tx = <<a>>
    BY <1>1, <2>1, Zenon DEF PortInv, SerialTypeOK
  <2> QED
    BY <1>1, <2>2
<1>4. SerialTypeOK'
  BY <1>1, <1>2, <1>3, Zenon DEF PortInv, SerialTypeOK, Printed
<1>5. UartOK'
  BY <1>1 DEF PortInv, UartOK, DLAB
<1> QED
  BY <1>1, <1>3, <1>4, <1>5 DEF PortInv

LEMMA ReceiveKeeps ==
  ASSUME PortInv, NEW k \in Key, Receive(k)
  PROVE  PortInv' /\ tx' = tx /\ text' = text /\ inits' = inits
<1>1. /\ Len(rx) < FifoSize /\ rx' = Append(rx, k)
      /\ uart' = uart /\ tx' = tx /\ inits' = inits
      /\ text' = text /\ at' = at /\ c' = c
  BY Zenon DEF Receive
<1>2. crSent' = crSent
  BY Zenon DEF Receive
<1>3. rx' \in Seq(Key) /\ Len(rx') <= FifoSize
  <2>1. rx \in Seq(Key)
    BY Zenon DEF PortInv, SerialTypeOK
  <2> QED
    BY <1>1, <2>1, SerialAssumption
<1>4. SerialTypeOK'
  BY <1>1, <1>2, <1>3, Zenon DEF PortInv, SerialTypeOK, Printed
<1>5. UartOK'
  BY <1>1 DEF PortInv, UartOK, DLAB
<1> QED
  BY <1>1, <1>4, <1>5 DEF PortInv

LEMMA ReadCharKeeps ==
  ASSUME PortInv, NEW kept \in BOOLEAN, COM_ReadChar(kept)
  PROVE  PortInv' /\ tx' = tx /\ text' = text /\ inits' = inits
<1>1. /\ rx # <<>> /\ rx' = Tail(rx) /\ (c' = c \/ c' = Head(rx))
      /\ uart' = uart /\ tx' = tx /\ inits' = inits /\ text' = text /\ at' = at
  BY Zenon DEF COM_ReadChar, COM_IsRxReady
<1>2. crSent' = crSent
  BY Zenon DEF COM_ReadChar
<1>3. rx' \in Seq(Key) /\ Len(rx') <= FifoSize /\ Head(rx) \in Key
  <2>1. rx \in Seq(Key) /\ Len(rx) <= FifoSize
    BY Zenon DEF PortInv, SerialTypeOK
  <2> QED
    BY <1>1, <2>1, SerialAssumption
<1>4. c' \in Key \cup {NONE}
  BY <1>1, <1>3, Zenon DEF PortInv, SerialTypeOK, NONE
<1>5. SerialTypeOK'
  BY <1>1, <1>2, <1>3, <1>4, Zenon DEF PortInv, SerialTypeOK, Printed, NONE
<1>6. UartOK'
  BY <1>1 DEF PortInv, UartOK, DLAB
<1> QED
  BY <1>1, <1>5, <1>6 DEF PortInv

LEMMA PortUnchanged ==
  ASSUME PortInv, UNCHANGED <<uart, tx, rx, inits, text, at, crSent>>,
         c' \in Key \cup {NONE}
  PROVE  PortInv'
<1>1. SerialTypeOK'
  BY Zenon DEF PortInv, SerialTypeOK, Printed
<1>2. UartOK'
  BY DEF PortInv, UartOK, DLAB
<1> QED
  BY <1>1, <1>2 DEF PortInv

-----------------------------------------------------------------------------
(* The program: what it calls next tells what has been set up.             *)

Nums == IntValues \cup LongValues \cup {e.address : e \in Entries} \cup {0}

LEMMA Parts ==
  SetUpInv <=> PortInv /\ RtcInv /\ ScriptOK /\ build \in Builds /\ num \in Nums
BY Zenon DEF SetUpInv, TypeOK, PortInv, RtcInv, Nums

LEMMA PartsNext ==
  ASSUME PortInv', RtcInv', ScriptOK', build' \in Builds, num' \in Nums
  PROVE  SetUpInv'
BY Zenon DEF SetUpInv, TypeOK, PortInv, RtcInv, Nums

LEMMA ClockScript ==
  /\ ReadClock # <<>> /\ ReadClock[1].op = "RTC_GetTime"
  /\ Tail(ReadClock) # <<>> /\ Tail(ReadClock)[1].op = "time"
  /\ Tail(Tail(ReadClock)) # <<>> /\ Tail(Tail(ReadClock))[1].op = "break"
  /\ Tail(Tail(Tail(ReadClock))) = <<>>
<1>1. PICK x : x = Call("RTC_GetTime")
  OBVIOUS
<1>2. PICK y : y = Call("time")
  OBVIOUS
<1>3. PICK z : z = Call("break")
  OBVIOUS
<1>4. x.op = "RTC_GetTime" /\ y.op = "time" /\ z.op = "break"
  BY <1>1, <1>2, <1>3 DEF Call
<1>6. ReadClock = <<x, y, z>>
  BY <1>1, <1>2, <1>3, Zenon DEF ReadClock
<1> HIDE <1>1, <1>2, <1>3
<1>7. /\ Tail(ReadClock) = <<y, z>> /\ Tail(<<y, z>>) = <<z>> /\ Tail(<<z>>) = <<>>
  BY <1>6
<1> QED
  BY <1>4, <1>6, <1>7

LEMMA AtFacts ==
  ASSUME ScriptOK, NEW op, At(op)
  PROVE  /\ script # <<>> /\ Printed /\ pc \in {"idle", "returned"}
         /\ op = "COM_Init" => \E n \in {1, 2} : Opens(script, n)
         /\ op = "COM_Init" => pc = "idle" /\ text = <<>> /\ tx = <<>>
         /\ op = "RTC_GetTime" => COM_Ready /\ pc = "idle" /\ script = ReadClock
         /\ op = "time" => COM_Ready /\ pc = "returned" /\ script = Tail(ReadClock)
         /\ op = "break" => COM_Ready /\ pc = "returned" /\ script = Tail(Tail(ReadClock))
         /\ op \notin {"COM_Init", "RTC_GetTime", "time", "break"} =>
              COM_Ready /\ pc = "idle" /\ Opens(script, 0)
<1>1. script # <<>> /\ script[1].op = op /\ Printed /\ pc \in {"idle", "returned"}
  BY Zenon DEF At, Calling
<1>2. ASSUME NEW n \in Nat, Opens(script, n)
      PROVE  IF n = 0 THEN op \notin {"COM_Init", "RTC_GetTime", "time", "break"}
             ELSE op = "COM_Init"
  <2>1. 1 \in DOMAIN script
    BY <1>1, <1>2, Sequence
  <2> QED
    BY <1>1, <1>2, <2>1 DEF Opens
<1>3. CASE /\ \E n \in {1, 2} : Opens(script, n)
           /\ pc = "idle" /\ text = <<>> /\ tx = <<>>
  <2>1. op = "COM_Init"
    BY <1>2, <1>3
  <2> QED
    BY <1>1, <1>3, <2>1
<1>4. CASE COM_Ready /\ pc = "idle" /\ script = ReadClock
  BY <1>1, <1>4, ClockScript
<1>5. CASE COM_Ready /\ pc = "idle" /\ Opens(script, 0)
  <2>1. op \notin {"COM_Init", "RTC_GetTime", "time", "break"}
    BY <1>2, <1>5
  <2> QED
    BY <1>1, <1>5, <2>1
<1>6. CASE COM_Ready /\ pc # "idle" /\ script = Tail(ReadClock)
  BY <1>1, <1>6, ClockScript
<1>7. CASE COM_Ready /\ pc = "returned" /\ script = Tail(Tail(ReadClock))
  BY <1>1, <1>7, ClockScript
<1> QED
  BY <1>3, <1>4, <1>5, <1>6, <1>7, Zenon DEF ScriptOK

LEMMA Ready ==
  ASSUME ScriptOK, tx # <<>> \/ text # <<>> \/ pc # "idle" \/ script = <<>>
  PROVE  /\ COM_Ready
         /\ \/ pc = "idle" /\ (script = ReadClock \/ Opens(script, 0))
            \/ pc # "idle" /\ script = Tail(ReadClock)
            \/ pc = "returned" /\ script = Tail(Tail(ReadClock))
<1>1. ASSUME NEW n \in {1, 2}, Opens(script, n) PROVE script # <<>>
  <2>1. Len(script) \in Nat /\ n <= Len(script) /\ n > 0
    BY <1>1, Sequence
  <2> QED
    BY <2>1
<1> QED
  BY <1>1, Zenon DEF ScriptOK

(* The clock between two calls: another time, another format.              *)
LEMMA ClockSet ==
  ASSUME RtcInv, pc \in {"idle", "returned"}, UNCHANGED <<call, shown, updates>>,
         reg' \in Time, carry' \in 0 .. 4, carry' # 0 => uip', carry' > 1 => reg'[1] = 0,
         uip' \in BOOLEAN,
         format' \in Formats, pc = "returned" => format' = format
  PROVE  RtcInv'
<1>1. pc' = pc /\ next' = next /\ now' = now /\ last' = last /\ shown' = shown
      /\ updates' = updates
  BY DEF call
<1>2. RtcTypeOK'
  BY <1>1, Zenon DEF RtcInv, RtcTypeOK
<1>3. ClockOK'
  <2>1. pc' \notin {"readFirst", "read", "wait", "convert"}
    BY <1>1
  <2> QED
    BY <1>1, <2>1, Zenon DEF ClockOK
<1>4. ReadingsOK'
  BY <1>1 DEF ReadingsOK
<1>5. TimeWasShown'
  <2>1. CASE pc = "idle"
    BY <1>1, <2>1 DEF TimeWasShown
  <2>2. CASE pc = "returned"
    BY <1>1, <2>2, Zenon DEF RtcInv, TimeWasShown
  <2> QED
    BY <2>1, <2>2
<1> QED
  BY <1>2, <1>3, <1>4, <1>5 DEF RtcInv

LEMMA InitKeeps == Init => SetUpInv
<1> SUFFICES ASSUME Init PROVE SetUpInv
  OBVIOUS
<1>1. RtcInv
  BY RtcInvInit DEF Init
<1>2. /\ uart \in {[r \in Uart |-> IF r = "lcr" THEN b ELSE "unset"] : b \in {"unset", "0x03"}}
      /\ tx = <<>> /\ rx = <<>> /\ inits = 0 /\ text = <<>> /\ at = 1 /\ c = NONE
  BY DEF Init, SerialInit, Uart
<1>3. ~crSent
  BY Zenon DEF Init, SerialInit
<1>4. DOMAIN uart = Uart /\ uart["lcr"] # "0x80"
  BY <1>2 DEF Uart
<1>5. PortInv
  <2>1. UartOK
    BY <1>2, <1>4 DEF UartOK, DLAB
  <2>2. rx \in Seq(Key) /\ Len(rx) <= FifoSize /\ inits \in 0 .. 7 /\ at \in Nat \ {0}
        /\ ~(at > 1)
    BY <1>2, SerialAssumption
  <2>3. SerialTypeOK
    BY <1>2, <1>3, <1>4, <2>2, Zenon DEF SerialTypeOK, Uart
  <2> QED
    BY <2>1, <2>3 DEF PortInv
<1>6. build \in Builds /\ num = 0 /\ script = Opening[build] /\ pc = "idle"
  BY DEF Init, RtcInit
<1>7. \E n \in {1, 2} : Opens(script, n)
  BY <1>6, OpeningOpens, DemosAssumption
<1>8. ScriptOK
  BY <1>2, <1>6, <1>7 DEF ScriptOK
<1>9. num \in Nums
  BY <1>6 DEF Nums
<1> QED
  BY <1>1, <1>5, <1>6, <1>8, <1>9, Parts

LEMMA PrintsKeeps ==
  ASSUME SetUpInv, NEW op, op \notin {"COM_Init", "RTC_GetTime", "time", "break"}, At(op),
         NEW str, NEW n \in Nums, Prints(str, n)
  PROVE  SetUpInv'
<1>1. PortInv /\ RtcInv /\ ScriptOK /\ build \in Builds /\ num \in Nums
  BY Parts
<1>2. script # <<>> /\ Printed /\ COM_Ready /\ pc = "idle" /\ Opens(script, 0)
  BY <1>1, AtFacts
<1>3. fputs(str) /\ num' = n /\ script' = Tail(script) /\ build' = build /\ UNCHANGED rtcVars
  BY DEF Prints
<1>4. PortInv' /\ tx' = tx /\ inits' = inits
  BY <1>1, <1>2, <1>3, PutsKeeps
<1>5. RtcInv' /\ pc' = pc
  BY <1>1, <1>3, UnchangedKeeps DEF rtcVars, call
<1>6. Opens(script', 0) /\ COM_Ready'
  BY <1>2, <1>3, <1>4, TailOpens DEF COM_Ready
<1>7. ScriptOK'
  BY <1>2, <1>5, <1>6, Zenon DEF ScriptOK, Opens
<1> QED
  BY <1>1, <1>3, <1>4, <1>5, <1>7, PartsNext

(* Calls that print.                                                       *)
LEMMA PrintingKeeps ==
  ASSUME SetUpInv,
         PrintString \/ PrintInt \/ PrintLong \/ PrintKey \/ PrintEntry
  PROVE  SetUpInv'
<1>1. 0 \in Nums
  BY DEF Nums
<1>2. CASE PrintString
  <2>1. At("fputs") /\ Prints(script[1].str, 0)
    BY <1>2 DEF PrintString
  <2>2. PICK str : Prints(str, 0)
    BY <2>1, Zenon
  <2> QED
    BY <1>1, <2>1, <2>2, PrintsKeeps
<1>3. CASE PrintInt
  <2>1. At("itoa") /\ \E n \in IntValues : Prints(itoa(n, script[1].base, script[1].width), n)
    BY <1>3, Zenon DEF PrintInt
  <2>2. PICK n \in IntValues : \E str : Prints(str, n)
    BY <2>1, Zenon
  <2>3. PICK str : Prints(str, n)
    BY <2>2
  <2>4. n \in Nums
    BY DEF Nums
  <2> QED
    BY <2>1, <2>3, <2>4, PrintsKeeps
<1>4. CASE PrintLong
  <2>1. At("ltoa") /\ \E n \in LongValues : Prints(ltoa(n, script[1].base, script[1].width), n)
    BY <1>4, Zenon DEF PrintLong
  <2>2. PICK n \in LongValues : \E str : Prints(str, n)
    BY <2>1, Zenon
  <2>3. PICK str : Prints(str, n)
    BY <2>2
  <2>4. n \in Nums
    BY DEF Nums
  <2> QED
    BY <2>1, <2>3, <2>4, PrintsKeeps
<1>5. CASE PrintKey
  <2>1. At("putchar") /\ Prints(<<c>>, 0)
    BY <1>5 DEF PrintKey
  <2>2. PICK str : Prints(str, 0)
    BY <2>1, Zenon
  <2> QED
    BY <1>1, <2>1, <2>2, PrintsKeeps
<1>6. CASE PrintEntry
  <2>1. At("DumpPTE") /\ \E pte \in Entries : Prints(DumpPTE(pte), pte.address)
    BY <1>6, Zenon DEF PrintEntry
  <2>2. PICK pte \in Entries : \E str : Prints(str, pte.address)
    BY <2>1, Zenon
  <2>3. PICK str : Prints(str, pte.address)
    BY <2>2
  <2>4. pte.address \in Nums
    BY DEF Nums
  <2> QED
    BY <2>1, <2>3, <2>4, PrintsKeeps
<1> QED
  BY <1>2, <1>3, <1>4, <1>5, <1>6

LEMMA SomeFacts == SomeTime \in Time /\ SomeFormat \in Formats
<1>1. SomeTime \in Times /\ SomeFormat \in Formats
  BY DemosAssumption, Zenon DEF SomeTime, SomeFormat
<1> QED
  BY <1>1, RtcAssumption

LEMMA PrintTimeKeeps == SetUpInv /\ PrintTime => SetUpInv'
<1> SUFFICES ASSUME SetUpInv, PrintTime PROVE SetUpInv'
  OBVIOUS
<1>1. PortInv /\ RtcInv /\ ScriptOK /\ build \in Builds /\ num \in Nums
  BY Parts
<1>2. At("time") /\ \E str : fputs(str)
  BY Zenon DEF PrintTime
<1>3. /\ num' = 0 /\ script' = Tail(script) /\ build' = build
      /\ reg' = SomeTime /\ carry' = 0 /\ format' = format
      /\ UNCHANGED <<call, shown, updates>>
  BY DEF PrintTime
<1>4. uip' \in BOOLEAN
  BY Zenon DEF PrintTime
<1>5. Printed /\ COM_Ready /\ pc = "returned" /\ script = Tail(ReadClock)
  BY <1>1, <1>2, AtFacts
<1>6. PortInv' /\ inits' = inits
  BY <1>1, <1>2, <1>5, PutsKeeps
<1>7. RtcInv'
  <2>1. format \in Formats
    BY <1>1, Zenon DEF RtcInv, RtcTypeOK
  <2> QED
    BY <1>1, <1>3, <1>4, <1>5, <2>1, SomeFacts, ClockSet
<1>8. ScriptOK'
  <2>1. COM_Ready' /\ pc' = "returned" /\ script' = Tail(Tail(ReadClock))
    BY <1>3, <1>5, <1>6 DEF COM_Ready, call
  <2> QED
    BY <2>1, Zenon DEF ScriptOK
<1>9. num' \in Nums
  BY <1>3 DEF Nums
<1> QED
  BY <1>1, <1>3, <1>6, <1>7, <1>8, <1>9, PartsNext

LEMMA InitPortStep == SetUpInv /\ InitPort => SetUpInv'
<1> SUFFICES ASSUME SetUpInv, InitPort PROVE SetUpInv'
  OBVIOUS
<1>1. PortInv /\ RtcInv /\ ScriptOK /\ build \in Builds /\ num \in Nums
  BY Parts
<1>2. /\ At("COM_Init") /\ COM_Init
      /\ script' = IF COM_Ready' THEN Tail(script) ELSE script
      /\ build' = build /\ num' = num /\ UNCHANGED rtcVars
  BY DEF InitPort
<1>3. pc = "idle" /\ text = <<>> /\ tx = <<>> /\ script # <<>>
  BY <1>1, <1>2, AtFacts
<1>4. PICK n \in {1, 2} : Opens(script, n)
  BY <1>1, <1>2, AtFacts
<1>5. PortInv' /\ tx' = <<>> /\ text' = text
  BY <1>1, <1>2, <1>3, InitPortKeeps
<1>6. RtcInv' /\ pc' = pc
  BY <1>1, <1>2, UnchangedKeeps DEF rtcVars, call
<1>7. CASE ~COM_Ready'
  <2>1. script' = script /\ Opens(script', n)
    BY <1>2, <1>4, <1>7
  <2>2. ScriptOK'
    BY <1>3, <1>5, <1>6, <2>1, Zenon DEF ScriptOK, Opens
  <2> QED
    BY <1>1, <1>2, <1>5, <1>6, <2>2, PartsNext
<1>8. CASE COM_Ready'
  <2>1. script' = Tail(script) /\ Opens(script', n - 1)
    <3>1. n \in Nat /\ n # 0
      OBVIOUS
    <3> QED
      BY <1>2, <1>3, <1>4, <1>8, <3>1, TailOpens
  <2>2. n - 1 = 0 \/ n - 1 = 1
    OBVIOUS
  <2>3. ScriptOK'
    BY <1>3, <1>5, <1>6, <1>8, <2>1, <2>2, Zenon DEF ScriptOK, Opens
  <2> QED
    BY <1>1, <1>2, <1>5, <1>6, <2>3, PartsNext
<1> QED
  BY <1>7, <1>8

LEMMA SendCharStep == SetUpInv /\ SendChar => SetUpInv'
<1> SUFFICES ASSUME SetUpInv, SendChar PROVE SetUpInv'
  OBVIOUS
<1>1. PortInv /\ RtcInv /\ ScriptOK /\ build \in Builds /\ num \in Nums
  BY Parts
<1>2. /\ COM_WriteChar /\ script' = script /\ build' = build /\ num' = num
      /\ UNCHANGED rtcVars
  BY DEF SendChar, demo
<1>3. text # <<>>
  <2>1. ~Printed
    BY <1>2, Zenon DEF COM_WriteChar
  <2> QED
    BY <2>1 DEF Printed
<1>4. COM_Ready /\ (\/ pc = "idle" /\ (script = ReadClock \/ Opens(script, 0))
                    \/ pc # "idle" /\ script = Tail(ReadClock)
                    \/ pc = "returned" /\ script = Tail(Tail(ReadClock)))
  BY <1>1, <1>3, Ready
<1>5. PortInv' /\ inits' = inits
  BY <1>1, <1>2, <1>4, WriteCharKeeps
<1>6. RtcInv' /\ pc' = pc
  BY <1>1, <1>2, UnchangedKeeps DEF rtcVars, call
<1>7. ScriptOK'
  <2>1. COM_Ready'
    BY <1>4, <1>5 DEF COM_Ready
  <2> QED
    BY <1>2, <1>4, <1>6, <2>1, Zenon DEF ScriptOK, Opens
<1> QED
  BY <1>1, <1>2, <1>5, <1>6, <1>7, PartsNext

(* getchar(), its result kept or dropped.                                  *)
LEMMA GetcharStep == SetUpInv /\ (ReadKey \/ Pause) => SetUpInv'
<1> SUFFICES ASSUME SetUpInv, ReadKey \/ Pause PROVE SetUpInv'
  OBVIOUS
<1>1. PortInv /\ RtcInv /\ ScriptOK /\ build \in Builds /\ num \in Nums
  BY Parts
<1>2. /\ \E kept \in BOOLEAN : COM_ReadChar(kept)
      /\ At("getchar") \/ At("pause")
      /\ Return /\ UNCHANGED rtcVars
  BY Zenon DEF ReadKey, Pause
<1>3. script' = Tail(script) /\ build' = build /\ num' = num
  BY <1>2 DEF Return
<1>4. COM_Ready /\ pc = "idle" /\ Opens(script, 0) /\ script # <<>>
  BY <1>1, <1>2, AtFacts
<1>5. PortInv' /\ inits' = inits
  <2>1. PICK kept \in BOOLEAN : COM_ReadChar(kept)
    BY <1>2, Zenon
  <2> QED
    BY <1>1, <2>1, ReadCharKeeps
<1>6. RtcInv' /\ pc' = pc
  BY <1>1, <1>2, UnchangedKeeps DEF rtcVars, call
<1>7. ScriptOK'
  <2>1. COM_Ready' /\ Opens(script', 0)
    BY <1>3, <1>4, <1>5, TailOpens DEF COM_Ready
  <2> QED
    BY <1>4, <1>6, <2>1, Zenon DEF ScriptOK, Opens
<1> QED
  BY <1>1, <1>3, <1>5, <1>6, <1>7, PartsNext

LEMMA SerialUnchanged ==
  ASSUME PortInv, UNCHANGED serial
  PROVE  PortInv' /\ (COM_Ready => COM_Ready') /\ tx' = tx /\ text' = text
<1>1. UNCHANGED <<uart, tx, rx, inits, text, at>> /\ c' = c
  BY Zenon DEF serial
<1>2. crSent' = crSent
  BY Zenon DEF serial
<1>3. c' \in Key \cup {NONE}
  BY <1>1, Zenon DEF PortInv, SerialTypeOK, NONE
<1>4. PortInv'
  BY <1>1, <1>2, <1>3, PortUnchanged
<1> QED
  BY <1>1, <1>4 DEF COM_Ready

LEMMA SwitchStep == SetUpInv /\ Switch => SetUpInv'
<1> SUFFICES ASSUME SetUpInv, Switch PROVE SetUpInv'
  OBVIOUS
<1>1. PortInv /\ RtcInv /\ ScriptOK /\ build \in Builds /\ num \in Nums
  BY Parts
<1>2. /\ At("switch") /\ script' = Answer(build, c)
      /\ UNCHANGED serial /\ UNCHANGED <<call, shown, updates>>
      /\ build' = build /\ num' = num
  BY DEF Switch
<1>3. COM_Ready /\ pc = "idle"
  BY <1>1, <1>2, AtFacts
<1>4. PortInv' /\ COM_Ready'
  BY <1>1, <1>2, <1>3, SerialUnchanged
<1>5. RtcInv'
  <2>1. \/ /\ reg' \in Times /\ format' \in Formats
           /\ uip' \in BOOLEAN /\ carry' = (IF uip' THEN 1 ELSE 0)
        \/ UNCHANGED clock
    BY Zenon DEF Switch
  <2>2. CASE UNCHANGED clock
    BY <1>1, <1>2, <2>2, UnchangedKeeps DEF rtcVars
  <2>3. CASE /\ reg' \in Times /\ format' \in Formats
             /\ uip' \in BOOLEAN /\ carry' = (IF uip' THEN 1 ELSE 0)
    <3>1. reg' \in Time
      BY <2>3, RtcAssumption
    <3>2. carry' \in 0 .. 4 /\ ~(carry' > 1)
      BY <2>3
    <3>3. carry' # 0 => uip'
      BY <2>3, Zenon
    <3> QED
      BY <1>1, <1>2, <1>3, <2>3, <3>1, <3>2, <3>3, ClockSet
  <2> QED
    BY <2>1, <2>2, <2>3
<1>6. ScriptOK'
  <2>1. script' = ReadClock \/ Opens(Answer(build, c), 0)
    BY <1>2, AnswerOpens
  <2>2. PICK s : s = Answer(build, c)
    OBVIOUS
  <2>3. script' = s /\ (script' = ReadClock \/ Opens(s, 0))
    BY <1>2, <2>1, <2>2, Zenon
  <2>4. script' = ReadClock \/ Opens(script', 0)
    BY <2>3, Zenon
  <2>5. pc' = "idle"
    BY <1>2, <1>3 DEF call
  <2> QED
    BY <1>4, <2>4, <2>5, Zenon DEF ScriptOK, Opens
<1> QED
  BY <1>1, <1>2, <1>4, <1>5, <1>6, PartsNext

(* The clock is read.                                                      *)
LEMMA ReadClockStep == SetUpInv /\ (CallGetTime \/ GetTime \/ Break) => SetUpInv'
<1> SUFFICES ASSUME SetUpInv, CallGetTime \/ GetTime \/ Break PROVE SetUpInv'
  OBVIOUS
<1>1. PortInv /\ RtcInv /\ ScriptOK /\ build \in Builds /\ num \in Nums
  BY Parts
<1>2. UNCHANGED serial /\ build' = build /\ num' = num
  BY DEF CallGetTime, GetTime, Break, Return, demo
<1>3. PortInv' /\ (COM_Ready => COM_Ready')
  BY <1>1, <1>2, SerialUnchanged
<1>4. CASE CallGetTime
  <2>1. At("RTC_GetTime") /\ RTC_GetTime /\ script' = Tail(script)
    BY <1>4 DEF CallGetTime, Return
  <2>2. COM_Ready /\ script = ReadClock
    BY <1>1, <2>1, AtFacts
  <2>3. RtcInv'
    BY <1>1, <2>1, GetTimeKeeps
  <2>4. pc' # "idle"
    BY <2>1 DEF RTC_GetTime
  <2>5. ScriptOK'
    BY <1>3, <2>1, <2>2, <2>4, Zenon DEF ScriptOK
  <2> QED
    BY <1>1, <1>2, <1>3, <2>3, <2>5, PartsNext
<1>5. CASE GetTime
  <2>1. (RTC_readTime \/ RTC_read \/ Convert) /\ script' = script
    BY <1>5 DEF GetTime, demo
  <2>2. pc \notin {"idle", "returned"} /\ pc' # "idle"
    <3>1. CASE RTC_readTime
      BY <3>1 DEF RTC_readTime
    <3>2. CASE RTC_read
      <4>1. pc \in {"readFirst", "read"} /\ pc' \in {pc, "convert", "wait"}
        BY <3>2 DEF RTC_read
      <4> QED
        BY <4>1
    <3>3. CASE Convert
      BY <3>3 DEF Convert
    <3> QED
      BY <2>1, <3>1, <3>2, <3>3
  <2>3. COM_Ready /\ script = Tail(ReadClock)
    BY <1>1, <2>2, Ready
  <2>4. RtcInv'
    BY <1>1, <2>1, ReadTimeKeeps, ReadKeeps, ConvertKeeps
  <2>5. ScriptOK'
    BY <1>3, <2>1, <2>2, <2>3, Zenon DEF ScriptOK
  <2> QED
    BY <1>1, <1>2, <1>3, <2>4, <2>5, PartsNext
<1>6. CASE Break
  <2>1. At("break") /\ Use /\ script' = Tail(script)
    BY <1>6 DEF Break, Return
  <2>2. COM_Ready /\ script = Tail(Tail(ReadClock))
    BY <1>1, <2>1, AtFacts
  <2>3. RtcInv'
    BY <1>1, <2>1, UseKeeps
  <2>4. pc' = "idle" /\ Opens(script', 0)
    <3>1. script' = <<>>
      BY <2>1, <2>2, ClockScript
    <3> QED
      BY <2>1, <3>1, ReadsNoClock DEF Use
  <2>5. ScriptOK'
    BY <1>3, <2>2, <2>4, Zenon DEF ScriptOK, Opens
  <2> QED
    BY <1>1, <1>2, <1>3, <2>3, <2>5, PartsNext
<1> QED
  BY <1>4, <1>5, <1>6

(* The BIOS answers.                                                       *)
LEMMA VbeStep == SetUpInv /\ (GetInfo \/ ListModes) => SetUpInv'
<1> SUFFICES ASSUME SetUpInv, GetInfo \/ ListModes PROVE SetUpInv'
  OBVIOUS
<1>1. PortInv /\ RtcInv /\ ScriptOK /\ build \in Builds /\ num \in Nums
  BY Parts
<1>2. /\ UNCHANGED serial /\ UNCHANGED rtcVars /\ build' = build /\ num' = num
      /\ At("VBE_GetInfo") \/ At("modes")
  BY DEF GetInfo, ListModes
<1>3. Opens(script', 0)
  <2>1. CASE GetInfo
    <3>1. script' = VbeInfo \/ script' = VbeFailed
      BY <2>1 DEF GetInfo
    <3> QED
      BY <3>1, VbeOpens
  <2>2. CASE ListModes
    <3>1. \E i : script' \in AtMode(i)
      BY <2>2, Zenon DEF ListModes
    <3>2. PICK i : script' \in AtMode(i)
      BY <3>1
    <3> QED
      BY <3>2, VbeOpens
  <2> QED
    BY <2>1, <2>2
<1>4. COM_Ready /\ pc = "idle"
  BY <1>1, <1>2, AtFacts
<1>5. PortInv' /\ COM_Ready'
  BY <1>1, <1>2, <1>4, SerialUnchanged
<1>6. RtcInv' /\ pc' = pc
  BY <1>1, <1>2, UnchangedKeeps DEF rtcVars, call
<1>7. ScriptOK'
  BY <1>3, <1>4, <1>5, <1>6, Zenon DEF ScriptOK, Opens
<1> QED
  BY <1>1, <1>2, <1>5, <1>6, <1>7, PartsNext

LEMMA AgainStep == SetUpInv /\ Again => SetUpInv'
<1> SUFFICES ASSUME SetUpInv, Again PROVE SetUpInv'
  OBVIOUS
<1>1. PortInv /\ RtcInv /\ ScriptOK /\ build \in Builds /\ num \in Nums
  BY Parts
<1>2. /\ script = <<>> /\ script' = Loop[build] /\ num' = 0 /\ build' = build
      /\ c' = NONE /\ format' = SomeFormat
      /\ UNCHANGED <<reg, carry, call, shown, updates>>
  BY DEF Again
<1>3. uip' = uip
  BY Zenon DEF Again
<1>4. COM_Ready /\ pc = "idle"
  BY <1>1, <1>2, Ready, ClockScript
<1>5. PortInv' /\ COM_Ready'
  <2>1. UNCHANGED <<uart, tx, rx, inits, text, at, crSent>>
    BY Zenon DEF Again
  <2>2. inits' = inits
    BY DEF Again
  <2>3. c' \in Key \cup {NONE}
    BY <1>2
  <2> QED
    BY <1>1, <1>4, <2>1, <2>2, <2>3, PortUnchanged DEF COM_Ready
<1>6. RtcInv'
  <2>1. reg \in Time /\ carry \in 0 .. 4 /\ (carry > 1 => reg[1] = 0)
    BY <1>1, Zenon DEF RtcInv, RtcTypeOK, ClockOK
  <2>2. reg' = reg /\ carry' = carry /\ format' \in Formats
    BY <1>2, SomeFacts
  <2>3. uip' \in BOOLEAN /\ (carry' # 0 => uip')
    BY <1>1, <1>3, <2>2, Zenon DEF RtcInv, RtcTypeOK, ClockOK
  <2>4. reg' \in Time /\ carry' \in 0 .. 4 /\ (carry' > 1 => reg'[1] = 0)
    BY <2>1, <2>2
  <2>5. UNCHANGED <<call, shown, updates>>
    BY <1>2
  <2> QED
    BY <1>1, <1>4, <2>2, <2>3, <2>4, <2>5, ClockSet
<1>7. ScriptOK'
  <2>1. Opens(Loop[build], 0)
    BY <1>1, LoopOpens, DemosAssumption
  <2>2. Opens(script', 0) /\ pc' = "idle"
    <3>1. PICK s : s = Loop[build]
      OBVIOUS
    <3>2. script' = s /\ Opens(s, 0)
      BY <1>2, <2>1, <3>1, Zenon
    <3> QED
      BY <1>2, <1>4, <3>2 DEF call
  <2> QED
    BY <1>5, <2>2, Zenon DEF ScriptOK, Opens
<1>8. num' \in Nums
  BY <1>2 DEF Nums
<1> QED
  BY <1>1, <1>2, <1>5, <1>6, <1>7, <1>8, PartsNext

(* The terminal and the port.                                              *)
LEMMA PortStep == SetUpInv /\ (Port \/ Typing) => SetUpInv'
<1> SUFFICES ASSUME SetUpInv, Port \/ Typing PROVE SetUpInv'
  OBVIOUS
<1>1. PortInv /\ RtcInv /\ ScriptOK /\ build \in Builds /\ num \in Nums
  BY Parts
<1>2. /\ script' = script /\ build' = build /\ num' = num /\ UNCHANGED rtcVars
      /\ Transmit \/ \E k \in Typed[build] : Receive(k)
  BY Zenon DEF Port, Typing, demo
<1>3. RtcInv' /\ pc' = pc
  BY <1>1, <1>2, UnchangedKeeps DEF rtcVars, call
<1>4. CASE Transmit
  <2>1. PortInv' /\ inits' = inits /\ tx # <<>>
    BY <1>1, <1>4, TransmitKeeps
  <2>2. COM_Ready' /\ (\/ pc = "idle" /\ (script = ReadClock \/ Opens(script, 0))
                       \/ pc # "idle" /\ script = Tail(ReadClock)
                       \/ pc = "returned" /\ script = Tail(Tail(ReadClock)))
    BY <1>1, <2>1, Ready DEF COM_Ready
  <2>3. ScriptOK'
    BY <1>2, <1>3, <2>2, Zenon DEF ScriptOK, Opens
  <2> QED
    BY <1>1, <1>2, <1>3, <2>1, <2>3, PartsNext
<1>5. CASE \E k \in Typed[build] : Receive(k)
  <2>1. PICK k \in Typed[build] : Receive(k)
    BY <1>5
  <2>2. k \in Key
    BY <1>1, DemosAssumption
  <2>3. PortInv' /\ inits' = inits /\ tx' = tx /\ text' = text
    BY <1>1, <2>1, <2>2, ReceiveKeeps
  <2>4. COM_Ready => COM_Ready'
    BY <2>3 DEF COM_Ready
  <2>5. ScriptOK'
    BY <1>1, <1>2, <1>3, <2>3, <2>4, Zenon DEF ScriptOK, Opens
  <2> QED
    BY <1>1, <1>2, <1>3, <2>3, <2>5, PartsNext
<1> QED
  BY <1>2, <1>4, <1>5

(* The clock while it is read, and a step that changes nothing.            *)
LEMMA ClockStep == SetUpInv /\ (SecondPasses \/ ClockUpdates \/ UNCHANGED vars) => SetUpInv'
<1> SUFFICES ASSUME SetUpInv, SecondPasses \/ ClockUpdates \/ UNCHANGED vars PROVE SetUpInv'
  OBVIOUS
<1>1. PortInv /\ RtcInv /\ ScriptOK /\ build \in Builds /\ num \in Nums
  BY Parts
<1>2. /\ UNCHANGED serial /\ script' = script /\ build' = build /\ num' = num
      /\ \/ UpdateBegins \/ UpdateRegister \/ UpdateEnds
         \/ UNCHANGED rtcVars
  BY Zenon DEF SecondPasses, ClockUpdates, vars, demo
<1>3. RtcInv'
  BY <1>1, <1>2, UpdateBeginsKeeps, UpdateRegisterKeeps, UpdateEndsKeeps, UnchangedKeeps
<1>4. pc' = pc
  BY <1>2 DEF UpdateBegins, UpdateRegister, UpdateEnds, rtcVars, call
<1>5. PortInv' /\ (COM_Ready => COM_Ready') /\ tx' = tx /\ text' = text
  BY <1>1, <1>2, SerialUnchanged
<1>6. ScriptOK'
  BY <1>1, <1>2, <1>4, <1>5, Zenon DEF ScriptOK, Opens
<1> QED
  BY <1>1, <1>2, <1>3, <1>5, <1>6, PartsNext

LEMMA SetUpInvNext == SetUpInv /\ [Next]_vars => SetUpInv'
<1> SUFFICES ASSUME SetUpInv, [Next]_vars PROVE SetUpInv'
  OBVIOUS
<1>1. CASE Program
  BY <1>1, PrintingKeeps, PrintTimeKeeps, InitPortStep, SendCharStep, GetcharStep,
     SwitchStep, ReadClockStep, VbeStep, AgainStep, Zenon DEF Program
<1>2. CASE Port \/ Typing
  BY <1>2, PortStep
<1>3. CASE SecondPasses \/ ClockUpdates \/ UNCHANGED vars
  BY <1>3, ClockStep
<1> QED
  BY <1>1, <1>2, <1>3 DEF Next

-----------------------------------------------------------------------------
(* The values of the variables, the port as far as COM_Init() has come,    *)
(* the clock while RTC_GetTime() reads it, and what the program still      *)
(* calls, in every build and whatever is typed.                            *)
THEOREM SetUpInvariant == Spec => []SetUpInv
<1>1. Init => SetUpInv
  BY InitKeeps
<1>2. SetUpInv /\ [Next]_vars => SetUpInv'
  BY SetUpInvNext
<1> QED
  BY <1>1, <1>2, PTL DEF Spec

(* No byte leaves before COM_Init() has set the port up, in any build: not *)
(* before its last write, and not with the divisor latch still selected.   *)
THEOREM SentAfterSetUp == Spec => []SentAsSetUp
<1>1. SetUpInv => SentAsSetUp
  <2> SUFFICES ASSUME SetUpInv, tx # <<>> PROVE SentAsSetUp
    BY DEF SentAsSetUp
  <2>1. COM_Ready /\ UartOK
    BY Parts, Ready DEF PortInv
  <2> QED
    BY <2>1 DEF UartOK, COM_Ready, SentAsSetUp
<1> QED
  BY <1>1, SetUpInvariant, PTL

(* The time a program prints is one the clock showed while RTC_GetTime()   *)
(* read it, although the reading is one step of a program that polls the   *)
(* port: TimeReadWasShown for the clock in its place in the program.       *)
THEOREM TimeShownWasShown == Spec => []TimeWasShown
<1>1. SetUpInv => TimeWasShown
  BY Zenon DEF SetUpInv, RtcInv
<1> QED
  BY <1>1, SetUpInvariant, PTL
=============================================================================
