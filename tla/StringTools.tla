------------------------------ MODULE StringTools ------------------------------
(* Strings as sequences of character codes, and size_t_to_string.          *)
EXTENDS Integers, Sequences, SequencesExt

Nul     == 0
NewLine == 10
Return  == 13
Blank   == 32
Zero    == 48
Equals  == 61

Digits == Zero..(Zero + 9)

(* The part of s in front of the first of these characters.                *)
Before(s, stops) ==
  LET n == SelectInSeq(s, LAMBDA c : c \in stops)
  IN  IF n = 0 THEN s ELSE SubSeq(s, 1, n - 1)

(* The digits from the last to the first, each by a division.              *)
digits[number \in Nat] ==
  IF number < 10 THEN <<Zero + number>>
  ELSE Append(digits[number \div 10], Zero + (number % 10))

size_t_to_string(number) == Append(digits[number], Nul)

(* What a reader makes of a string of digits.                              *)
Decimal(s) == FoldLeft(LAMBDA value, c : value * 10 + c - Zero, 0, s)
=============================================================================
