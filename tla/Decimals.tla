-------------------------------- MODULE Decimals -------------------------------
(***************************************************************************)
(* What a row of decimal digits stands for, by place value: the digit at   *)
(* distance k from the end counts 10^k times.  It is the reference for     *)
(* every function that reads or writes numbers digit by digit.             *)
(***************************************************************************)
EXTENDS Integers, Sequences

PowersOf10(n) ==
  LET power[k \in 0..n] == IF k = 0 THEN 1 ELSE 10 * power[k - 1]
  IN  power

Sums(digits) ==
  LET sum[i \in 0..Len(digits)] ==
        IF i = 0 THEN 0
        ELSE sum[i - 1] + digits[i] * PowersOf10(Len(digits))[Len(digits) - i]
  IN  sum

PlaceValue(digits) == Sums(digits)[Len(digits)]
================================================================================
