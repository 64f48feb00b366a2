------------------------------- MODULE SettingText -----------------------------
(***************************************************************************)
(* The text of a setting and the numbers it stands for.  A text is a       *)
(* sequence of characters, a word of letters counting as one; the parsers  *)
(* go through it from the left and check the limit at each digit.          *)
(***************************************************************************)
EXTENDS Decimals

CONSTANTS
  kInt32MaxValue,      \* 2^31 - 1
  kInt32MinMagnitude,  \* 2^31
  kUInt32MaxValue      \* 2^32 - 1

ASSUME LimitsAssumption ==
  /\ kInt32MaxValue \in Nat /\ kUInt32MaxValue \in Nat
  /\ kInt32MinMagnitude = kInt32MaxValue + 1

DigitText == <<"0", "1", "2", "3", "4", "5", "6", "7", "8", "9">>
Digit == {DigitText[i] : i \in DOMAIN DigitText}
DigitValue(c) == (CHOOSE i \in DOMAIN DigitText : DigitText[i] = c) - 1

\* The result of a parser: a number, or that the text is none in its range.
Ok(n) == [status |-> "Ok", value |-> n]
InvalidArgument == [status |-> "InvalidArgument", value |-> 0]

\* Mutant: the first value beyond the limit passes.
FarBeyond(value, limit) == value > limit + 1

Beyond(value, limit) == value > limit

\* The digits up to the limit; -1 once a character or the value is out of range.
ParseDigits(text, limit) ==
  LET parsed[i \in 0..Len(text)] ==
        IF i = 0 THEN 0
        ELSE IF parsed[i - 1] < 0 \/ text[i] \notin Digit THEN -1
        ELSE LET next == parsed[i - 1] * 10 + DigitValue(text[i])
             IN  IF Beyond(next, limit) THEN -1 ELSE next
  IN  IF text = <<>> \/ parsed[Len(text)] < 0 THEN InvalidArgument ELSE Ok(parsed[Len(text)])

ParseInt32(text) ==
  IF text # <<>> /\ text[1] = "-"
  THEN LET magnitude == ParseDigits(Tail(text), kInt32MinMagnitude)
       IN  [magnitude EXCEPT !.value = -@]
  ELSE ParseDigits(text, kInt32MaxValue)

ParseUInt32(text) == ParseDigits(text, kUInt32MaxValue)

\* snprintf with %ld and %lu.
Decimal(n) ==
  LET magnitude == IF n < 0 THEN -n ELSE n
      digits[m \in 0..magnitude] ==
        IF m < 10 THEN <<DigitText[m + 1]>>
        ELSE Append(digits[m \div 10], DigitText[(m % 10) + 1])
  IN  IF n < 0 THEN <<"-">> \o digits[magnitude] ELSE digits[magnitude]

--------------------------------------------------------------------------------
(* What a text stands for, by place value and without limits *)

Digits(text) == [i \in DOMAIN text |-> DigitValue(text[i])]
Numeral(text) == text # <<>> /\ \A i \in DOMAIN text : text[i] \in Digit

Denotes(text, n) ==
  \/ Numeral(text) /\ n = PlaceValue(Digits(text))
  \/ /\ text # <<>> /\ text[1] = "-" /\ Numeral(Tail(text))
     /\ n = -PlaceValue(Digits(Tail(text)))

\* A parser's result, for a text that stands for one of the numbers or for none.
Exact(parsed, numbers) ==
  IF numbers = {} THEN parsed = InvalidArgument ELSE parsed \in {Ok(n) : n \in numbers}
================================================================================
