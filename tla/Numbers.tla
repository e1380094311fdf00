------------------------------ MODULE Numbers ------------------------------
(***************************************************************************)
(* Numbers and strings of libc: itoa(), ltoa() and strtr() of string.c,    *)
(* atoi() and atol() of stdlib.c.  A character is a string of length one   *)
(* or SP, an int has IntBits bits and a long LongBits.                     *)
(***************************************************************************)
EXTENDS Integers, Sequences, SequencesExt

CONSTANTS IntBits, LongBits

ASSUME NumbersAssumption == IntBits \in Nat \ {0} /\ LongBits \in Nat \ {0}

SP == "sp"

DigitChar ==
  <<"0", "1", "2", "3", "4", "5", "6", "7", "8", "9", "a", "b", "c", "d", "e", "f">>

(* What n bits can hold.                                                   *)
TwoTo[n \in Nat] == IF n = 0 THEN 1 ELSE 2 * TwoTo[n - 1]

(* The value of a word read as a signed number.                            *)
Signed(n, bits) == ((n + TwoTo[bits - 1]) % TwoTo[bits]) - TwoTo[bits - 1]

(* The loop of itoa(): digits of unum, the last one first.                 *)
Digits(unum, base) ==
  LET rest[n \in Nat] ==
        IF n = 0 THEN <<>> ELSE <<DigitChar[(n % base) + 1]>> \o rest[n \div base]
  IN  rest[unum]

(* Mutant of toText: a negative number is not made positive.               *)
toTextKeepsSign(num, base, width, bits) ==
  LET digits == IF num = 0 THEN <<"0">> ELSE Digits(num % TwoTo[bits], base)
      sign == IF num < 0 /\ base = 10 THEN <<"-">> ELSE <<>>
  IN  Reverse(digits \o sign)

(* itoa() and ltoa(), the same code for two widths: base 10 is signed and  *)
(* padded with spaces, any other is unsigned, padded with zeros and cut to *)
(* the width.  The negation of the smallest number is itself.              *)
toText(num, base, width, bits) ==
  LET negative == num < 0 /\ base = 10
      unum == (IF negative THEN -num ELSE num) % TwoTo[bits]
      digits == IF num = 0 THEN <<"0">> ELSE Digits(unum, base)
      str == digits \o IF negative THEN <<"-">> ELSE <<>>
      pad == [k \in 1 .. width |-> IF base = 10 THEN SP ELSE "0"]
      padded == str \o SubSeq(pad, Len(str) + 1, width)
  IN  Reverse(IF base # 10 /\ width > 0 THEN SubSeq(padded, 1, width) ELSE padded)

itoa(num, base, width) == toText(num, base, width, IntBits)
ltoa(num, base, width) == toText(num, base, width, LongBits)

strtr(str, repl, with) == [k \in DOMAIN str |-> IF str[k] = repl THEN with ELSE str[k]]

DigitValue(ch) == CHOOSE d \in 0 .. 15 : DigitChar[d + 1] = ch
DecimalDigits == {DigitChar[d] : d \in 1 .. 10}

(* The length of the run of characters of the set at the start of str.     *)
Span(str, chars) ==
  CHOOSE n \in 0 .. Len(str) :
    /\ \A k \in 1 .. n : str[k] \in chars
    /\ n < Len(str) => str[n + 1] \notin chars

Value(digits, base) ==
  LET result[n \in 0 .. Len(digits)] ==
        IF n = 0 THEN 0 ELSE base * result[n - 1] + DigitValue(digits[n])
  IN  result[Len(digits)]

(* atoi() and atol(): blanks, a sign, digits as far as they go.            *)
fromText(str, bits) ==
  LET rest == SubSeq(str, Span(str, {SP}) + 1, Len(str))
      signed == rest # <<>> /\ rest[1] \in {"-", "+"}
      digits == IF signed THEN Tail(rest) ELSE rest
      result == Value(SubSeq(digits, 1, Span(digits, DecimalDigits)), 10)
  IN  Signed(IF signed /\ rest[1] = "-" THEN -result ELSE result, bits)

atoi(str) == fromText(str, IntBits)
atol(str) == fromText(str, LongBits)
=============================================================================
