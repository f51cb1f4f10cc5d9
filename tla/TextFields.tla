------------------------------ MODULE TextFields ------------------------------
(***************************************************************************)
(* How numbers become text and text becomes numbers: the "%u" and "%.2f"   *)
(* of the node's answers, and parse_u32_text and parse_decimal_scaled_text *)
(* of the base station's driver.  A text is a sequence of characters; a    *)
(* digit is its value, and the other characters are negative numbers.      *)
(***************************************************************************)
EXTENDS Integers, Sequences

CONSTANTS U32Max, I32Max  \* UINT32_MAX and INT32_MAX, at a smaller width

\* A number has at most ten digits.
ASSUME WidthAssumption ==
  U32Max \in Nat /\ I32Max \in Nat /\ U32Max >= 9 /\ U32Max \div 10 <= 999999999

Digits == 0 .. 9
Minus == -1
Dot == -2
Letter == -3
AllDigits(t) == \A i \in DOMAIN t : t[i] \in Digits

Rejected == [ok |-> FALSE, value |-> 0]
Parsed(v) == [ok |-> TRUE, value |-> v]

\* Mutant: the overflow check leaves room for any digit.
AddDigitStrict(r, c) ==
  IF ~r.ok \/ c \notin Digits \/ r.value > (U32Max - 9) \div 10
  THEN Rejected
  ELSE Parsed(10 * r.value + c)

AddDigit(r, c) ==
  IF ~r.ok \/ c \notin Digits \/ r.value > (U32Max - c) \div 10
  THEN Rejected
  ELSE Parsed(10 * r.value + c)

\* The digits of a text one after another.
ReadDigits(t) ==
  LET read[k \in 0 .. Len(t)] == IF k = 0 THEN Parsed(0) ELSE AddDigit(read[k - 1], t[k])
  IN  read[Len(t)]

ParseU32(t) == IF t = <<>> THEN Rejected ELSE ReadDigits(t)

\* The digits after the point: those that the scale has room for, padded.
\* Mutant: they are not padded.
FractionUnpadded(t, places) ==
  LET room == IF Len(t) < places THEN Len(t) ELSE places
      read[k \in 0 .. room] == IF k = 0 THEN 0 ELSE 10 * read[k - 1] + t[k]
  IN  read[room]

Fraction(t, places) ==
  LET read[k \in 0 .. places] ==
        IF k = 0 THEN 0 ELSE 10 * read[k - 1] + (IF k <= Len(t) THEN t[k] ELSE 0)
  IN  read[places]

\* Where the digits before the point end.
Point(body) ==
  LET dots == {i \in DOMAIN body : body[i] = Dot}
  IN  IF dots = {} THEN Len(body) + 1 ELSE CHOOSE i \in dots : \A j \in dots : i <= j

\* Scale is 10 ^ places.
ParseDecimal(t, places) ==
  LET negative == t # <<>> /\ t[1] = Minus
      body     == IF negative THEN Tail(t) ELSE t
      whole    == SubSeq(body, 1, Point(body) - 1)
      fraction == SubSeq(body, Point(body) + 1, Len(body))
      integer  == ReadDigits(whole)
      scaled   == integer.value * 10 ^ places + Fraction(fraction, places)
      value    == IF negative THEN -scaled ELSE scaled
  IN  IF AllDigits(fraction) /\ integer.ok /\ whole \o fraction # <<>>
         /\ value <= I32Max /\ value >= -I32Max - 1
      THEN Parsed(value)
      ELSE Rejected

\* The digits of n, at least `least' of them: "%u" and the parts of "%.2f".
\* Of rest[k], the last k digits have been taken off.
DigitsOf(n, least) ==
  LET rest[k \in 0 .. 10] == IF k = 0 THEN n ELSE rest[k - 1] \div 10
      size == CHOOSE k \in 1 .. 10 : k >= least /\ rest[k] = 0 /\ (k = least \/ rest[k - 1] # 0)
  IN  [i \in 1 .. size |-> rest[size - i] % 10]

\* The text of a value that was not read, as far as a parser looks.
ErrText == <<Letter>>

\* "%.2f" of hundredths.
FormatDecimal(hundredths) ==
  LET n == IF hundredths < 0 THEN -hundredths ELSE hundredths
  IN  (IF hundredths < 0 THEN <<Minus>> ELSE <<>>)
      \o DigitsOf(n \div 100, 1) \o <<Dot>> \o DigitsOf(n % 100, 2)
===============================================================================
