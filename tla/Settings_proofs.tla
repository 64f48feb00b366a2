---------------------------- MODULE Settings_proofs ----------------------------
(***************************************************************************)
(* The safety properties of Settings for every set of keys, operands and   *)
(* texts and every limit, what the parsers and the formatter of numbers    *)
(* compute, and the promise of the factory reset.                          *)
(***************************************************************************)
EXTENDS Settings, Decimals_proofs, SequenceTheorems, TLAPS

--------------------------------------------------------------------------------
(* Numbers and their texts *)

(* Each digit is worth its place in DigitText.                                *)
LEMMA DigitsValues ==
  /\ DOMAIN DigitText = 1..10
  /\ \A i \in 1..10 : DigitText[i] \in Digit /\ DigitValue(DigitText[i]) = i - 1
  /\ \A c \in Digit : DigitValue(c) \in 0..9
  /\ "-" \notin Digit
<1>1. DOMAIN DigitText = 1..10
  BY DEF DigitText
<1>2. \A i, j \in 1..10 : DigitText[i] = DigitText[j] => i = j
  BY DEF DigitText
<1>3. ASSUME NEW i \in 1..10 PROVE DigitText[i] \in Digit /\ DigitValue(DigitText[i]) = i - 1
  BY <1>1, <1>2 DEF Digit, DigitValue
<1>4. ASSUME NEW c \in Digit PROVE DigitValue(c) \in 0..9
  <2>1. PICK i \in 1..10 : c = DigitText[i]
    BY <1>1 DEF Digit
  <2> QED BY <1>3, <2>1
<1>5. "-" \notin Digit
  BY DEF Digit, DigitText
<1> QED BY <1>1, <1>3, <1>4, <1>5

(* The digits of a text, zero standing for what is none.                      *)
LEMMA DigitsOfNumeral ==
  ASSUME NEW S, NEW text \in Seq(S), Numeral(text)
  PROVE  Digits(text) \in Seq(0..9) /\ Len(Digits(text)) = Len(text)
<1>1. DOMAIN text = 1..Len(text) /\ Len(text) \in Nat
  OBVIOUS
<1>2. \A i \in 1..Len(text) : DigitValue(text[i]) \in 0..9
  BY <1>1, DigitsValues DEF Numeral
<1>3. Digits(text) = [i \in 1..Len(text) |-> DigitValue(text[i])]
  BY <1>1 DEF Digits
<1> HIDE DEF Digits
<1> QED BY <1>1, <1>2, <1>3

(* The parser accepts the numerals whose value is within the limit.           *)
LEMMA ParseDigitsExact ==
  ASSUME NEW S, NEW text \in Seq(S), NEW limit \in Nat
  PROVE  ParseDigits(text, limit) =
           IF Numeral(text) /\ PlaceValue(Digits(text)) <= limit
           THEN Ok(PlaceValue(Digits(text))) ELSE InvalidArgument
<1> DEFINE n == Len(text)
           Value == Nat \cup {-1}
           next(v, i) == IF v < 0 \/ text[i] \notin Digit THEN -1
                         ELSE LET nx == v * 10 + DigitValue(text[i])
                              IN  IF Beyond(nx, limit) THEN -1 ELSE nx
           Body(f) == [i \in 0..n |->
                         IF i = 0 THEN 0
                         ELSE IF f[i - 1] < 0 \/ text[i] \notin Digit THEN -1
                         ELSE LET nx == f[i - 1] * 10 + DigitValue(text[i])
                              IN  IF Beyond(nx, limit) THEN -1 ELSE nx]
           advance == [i \in 1..n |-> [v \in Value |-> next(v, i)]]
<1>1. /\ n \in Nat
      /\ \A i \in 1..n : i - 1 \in 0..n /\ i \in 0..n
      /\ DOMAIN text = 1..n /\ (text = <<>> <=> n = 0)
  OBVIOUS
<1> HIDE DEF n
<1>2. ASSUME NEW i \in 1..n, NEW v \in Value PROVE next(v, i) \in Value
  <2>1. CASE v < 0 \/ text[i] \notin Digit
    BY <2>1
  <2>2. CASE ~(v < 0) /\ text[i] \in Digit
    <3>1. v \in Nat /\ DigitValue(text[i]) \in Nat
      BY <2>2, DigitsValues
    <3> QED BY <2>2, <3>1
  <2> QED BY <2>1, <2>2
<1>3. advance \in [1..n -> [Value -> Value]]
  <2> HIDE DEF next, Value
  <2> QED BY <1>2
<1>4. PICK f \in [0..n -> Value] : Follows(f, 0, advance, n)
  <2>1. 0 \in Value
    OBVIOUS
  <2> HIDE DEF advance, Value
  <2> QED BY <1>1, <1>3, <2>1, Recursion
<1>5. \A i \in 1..n : f[i] = next(f[i - 1], i)
  <2>1. ASSUME NEW i \in 1..n PROVE advance[i][f[i - 1]] = next(f[i - 1], i)
    <3> HIDE DEF next, Value
    <3>1. f[i - 1] \in Value
      BY <1>1
    <3> QED BY <3>1
  <2> HIDE DEF advance, next
  <2> QED BY <1>4, <2>1 DEF Follows
<1>6. f = Body(f)
  <2>1. f[0] = 0
    BY <1>4 DEF Follows
  <2>2. \A i \in 0..n : f[i] = Body(f)[i]
    BY <1>1, <1>5, <2>1
  <2> HIDE DEF Value
  <2> QED BY <2>2
<1>7. PICK parsed : /\ parsed = Body(parsed)
                    /\ ParseDigits(text, limit) =
                         IF text = <<>> \/ parsed[n] < 0 THEN InvalidArgument
                                                         ELSE Ok(parsed[n])
  <2> DEFINE parsed == CHOOSE g : g = Body(g)
  <2>1. ParseDigits(text, limit) =
          IF text = <<>> \/ parsed[n] < 0 THEN InvalidArgument ELSE Ok(parsed[n])
    BY DEF ParseDigits, n
  <2>2. parsed = Body(parsed)
    <3> HIDE DEF Body
    <3> QED BY <1>6
  <2> HIDE DEF parsed, Body
  <2> QED BY <2>1, <2>2
<1>8. parsed[0] = 0 /\ \A i \in 1..n : parsed[i] = next(parsed[i - 1], i)
  <2>1. \A i \in 0..n : parsed[i] = Body(parsed)[i]
    BY <1>7, Zenon
  <2>2. 0 \in 0..n /\ \A i \in 1..n : i \in 0..n /\ i # 0
    BY <1>1
  <2>3. parsed[0] = 0
    BY <2>1, <2>2, Zenon
  <2>4. \A i \in 1..n : parsed[i] = next(parsed[i - 1], i)
    BY <2>1, <2>2, Zenon
  <2> QED BY <2>3, <2>4
<1> HIDE DEF Body, Value, advance
(* It holds the value of the digits so far, or -1.                            *)
<1> DEFINE ds == [i \in 1..n |-> IF text[i] \in Digit THEN DigitValue(text[i]) ELSE 0]
           so(i) == PlaceValue(Prefix(ds, i))
           holds(i) == parsed[i] = IF (\A j \in 1..i : text[j] \in Digit) /\ so(i) <= limit
                                   THEN so(i) ELSE -1
           isHeld == [i \in 0..n |-> IF holds(i) THEN 0 ELSE 1]
           Zero == {0}
<1>9. ds \in Seq(0..9) /\ Len(ds) = n
  BY <1>1, DigitsValues
<1>10. /\ \A i \in 0..n : so(i) \in Nat
       /\ so(0) = 0 /\ so(n) = PlaceValue(ds)
       /\ \A i \in 1..n : so(i) = 10 * so(i - 1) + ds[i]
  <2> HIDE DEF ds
  <2> QED BY <1>9, PrefixValue
<1>11. \A i \in 1..n : ds[i] \in Nat /\ (text[i] \in Digit => ds[i] = DigitValue(text[i]))
  BY DigitsValues
<1> HIDE DEF ds, so
<1>12. holds(0)
  BY <1>8, <1>10
<1>13. ASSUME NEW i \in 1..n, holds(i - 1) PROVE holds(i)
  <2>1. i - 1 \in 0..n /\ so(i - 1) \in Nat /\ so(i) \in Nat /\ so(i) = 10 * so(i - 1) + ds[i]
    BY <1>1, <1>10
  <2>2. (\A j \in 1..i : text[j] \in Digit) <=>
          (\A j \in 1..(i - 1) : text[j] \in Digit) /\ text[i] \in Digit
    <3>1. 1..i = 1..(i - 1) \cup {i}
      BY <1>1
    <3> QED BY <3>1
  <2>3. parsed[i] = next(parsed[i - 1], i) /\ ds[i] \in Nat
    BY <1>8, <1>11
  <2>4. CASE ~(\A j \in 1..(i - 1) : text[j] \in Digit) \/ so(i - 1) > limit
    <3>1. parsed[i - 1] = -1
      BY <1>13, <2>1, <2>4
    <3>2. so(i) > limit \/ ~(\A j \in 1..i : text[j] \in Digit)
      BY <2>1, <2>2, <2>3, <2>4
    <3> QED BY <2>1, <2>3, <3>1, <3>2
  <2>5. CASE (\A j \in 1..(i - 1) : text[j] \in Digit) /\ so(i - 1) <= limit
    <3>1. parsed[i - 1] = so(i - 1) /\ ~(parsed[i - 1] < 0)
      BY <1>13, <2>1, <2>5
    <3>2. CASE text[i] \notin Digit
      BY <2>2, <2>3, <3>2
    <3>3. CASE text[i] \in Digit
      <4>1. parsed[i - 1] * 10 + DigitValue(text[i]) = so(i)
        BY <1>11, <2>1, <2>3, <3>1, <3>3
      <4>2. parsed[i] = IF Beyond(so(i), limit) THEN -1 ELSE so(i)
        BY <2>3, <3>1, <3>3, <4>1
      <4> QED BY <2>1, <2>2, <2>5, <3>3, <4>2 DEF Beyond
    <3> QED BY <3>2, <3>3
  <2> QED BY <2>1, <2>4, <2>5
<1>14. holds(n)
  <2>1. 0 \in 0..n /\ n \in 0..n /\ \A i \in 1..n : i - 1 \in 0..n /\ i \in 0..n
    BY <1>1
  <2> HIDE DEF holds
  <2>2. isHeld[0] \in Zero
    BY <1>12, <2>1
  <2>3. \A i \in 1..n : isHeld[i - 1] \in Zero => isHeld[i] \in Zero
    BY <1>13, <2>1
  <2>4. \A i \in 0..n : isHeld[i] \in Zero
    <3> HIDE DEF isHeld, Zero
    <3> QED BY <1>1, <2>2, <2>3, StaysIn
  <2> QED BY <2>1, <2>4
<1>15. Numeral(text) <=> text # <<>> /\ \A j \in 1..n : text[j] \in Digit
  BY <1>1 DEF Numeral
<1>16. Numeral(text) => Digits(text) = ds
  BY <1>1, <1>15 DEF Digits, ds
<1>17. so(n) \in Nat /\ so(n) = PlaceValue(ds)
  BY <1>1, <1>10
<1> QED BY <1>7, <1>14, <1>15, <1>16, <1>17

(* A text stands for at most one number.                                      *)
LEMMA DenotesOne ==
  ASSUME NEW S, NEW text \in Seq(S)
  PROVE  /\ Numeral(text) => PlaceValue(Digits(text)) \in Nat
                             /\ \A m : Denotes(text, m) <=> m = PlaceValue(Digits(text))
         /\ ~Numeral(text) =>
              \A m : Denotes(text, m) <=>
                       /\ text # <<>> /\ text[1] = "-" /\ Numeral(Tail(text))
                       /\ m = -PlaceValue(Digits(Tail(text)))
<1>1. Numeral(text) => PlaceValue(Digits(text)) \in Nat
  BY DigitsOfNumeral, PlaceValueType
<1>2. Numeral(text) => text[1] # "-"
  <2>1. text # <<>> => 1 \in DOMAIN text
    OBVIOUS
  <2> QED BY <2>1, DigitsValues DEF Numeral
<1> QED BY <1>1, <1>2 DEF Denotes

LEMMA ParseUInt32Exact ==
  ASSUME NEW S, NEW text \in Seq(S)
  PROVE  Exact(ParseUInt32(text),
               {m \in 0..kUInt32MaxValue : Numeral(text) /\ Denotes(text, m)})
<1> DEFINE value == PlaceValue(Digits(text))
           numbers == {m \in 0..kUInt32MaxValue : Numeral(text) /\ Denotes(text, m)}
<1>1. ParseUInt32(text) = IF Numeral(text) /\ value <= kUInt32MaxValue THEN Ok(value)
                                                                    ELSE InvalidArgument
  BY LimitsAssumption, ParseDigitsExact DEF ParseUInt32
<1>2. Numeral(text) => value \in Nat /\ \A m : Denotes(text, m) <=> m = value
  BY DenotesOne
<1> HIDE DEF value
<1>3. CASE Numeral(text) /\ value <= kUInt32MaxValue
  <2>1. numbers = {value}
    BY <1>2, <1>3, LimitsAssumption
  <2> QED BY <1>1, <1>3, <2>1 DEF Exact
<1>4. CASE ~(Numeral(text) /\ value <= kUInt32MaxValue)
  <2>1. numbers = {}
    BY <1>2, <1>4, LimitsAssumption
  <2> QED BY <1>1, <1>4, <2>1 DEF Exact
<1> QED BY <1>3, <1>4

LEMMA ParseInt32Exact ==
  ASSUME NEW S, NEW text \in Seq(S)
  PROVE  Exact(ParseInt32(text),
               {m \in -kInt32MinMagnitude..kInt32MaxValue : Denotes(text, m)})
<1> DEFINE numbers == {m \in -kInt32MinMagnitude..kInt32MaxValue : Denotes(text, m)}
<1>1. kInt32MaxValue \in Nat /\ kInt32MinMagnitude \in Nat
  BY LimitsAssumption
<1>2. CASE text # <<>> /\ text[1] = "-"
  <2> DEFINE value == PlaceValue(Digits(Tail(text)))
             magnitude == ParseDigits(Tail(text), kInt32MinMagnitude)
  <2>1. Tail(text) \in Seq(S)
    BY <1>2
  <2>2. magnitude = IF Numeral(Tail(text)) /\ value <= kInt32MinMagnitude THEN Ok(value)
                                                                         ELSE InvalidArgument
    BY <1>1, <2>1, ParseDigitsExact
  <2>3. ParseInt32(text) = [magnitude EXCEPT !.value = -magnitude.value]
    BY <1>2 DEF ParseInt32
  <2>4. ~Numeral(text)
    <3>1. 1 \in DOMAIN text
      BY <1>2
    <3> QED BY <1>2, <3>1, DigitsValues DEF Numeral
  <2>5. /\ Numeral(Tail(text)) => value \in Nat
        /\ \A m : Denotes(text, m) <=> Numeral(Tail(text)) /\ m = -value
    BY <1>2, <2>1, <2>4, DenotesOne
  <2> HIDE DEF value, magnitude
  <2>6. CASE Numeral(Tail(text)) /\ value <= kInt32MinMagnitude
    <3>1. ParseInt32(text) = Ok(-value)
      BY <2>2, <2>3, <2>6 DEF Ok
    <3>2. numbers = {-value}
      BY <1>1, <2>5, <2>6
    <3> QED BY <3>1, <3>2 DEF Exact
  <2>7. CASE ~(Numeral(Tail(text)) /\ value <= kInt32MinMagnitude)
    <3>1. ParseInt32(text) = InvalidArgument
      BY <2>2, <2>3, <2>7 DEF InvalidArgument
    <3>2. numbers = {}
      BY <1>1, <2>5, <2>7
    <3> QED BY <3>1, <3>2 DEF Exact
  <2> QED BY <2>6, <2>7
<1>3. CASE ~(text # <<>> /\ text[1] = "-")
  <2> DEFINE value == PlaceValue(Digits(text))
  <2>1. ParseInt32(text) = IF Numeral(text) /\ value <= kInt32MaxValue THEN Ok(value)
                                                                     ELSE InvalidArgument
    BY <1>1, <1>3, ParseDigitsExact DEF ParseInt32
  <2>2. /\ Numeral(text) => value \in Nat
        /\ \A m : Denotes(text, m) <=> Numeral(text) /\ m = value
    BY <1>3, DenotesOne
  <2> HIDE DEF value
  <2>3. CASE Numeral(text) /\ value <= kInt32MaxValue
    <3>1. numbers = {value}
      BY <1>1, <2>2, <2>3
    <3> QED BY <2>1, <2>3, <3>1 DEF Exact
  <2>4. CASE ~(Numeral(text) /\ value <= kInt32MaxValue)
    <3>1. numbers = {}
      BY <1>1, <2>2, <2>4
    <3> QED BY <2>1, <2>4, <3>1 DEF Exact
  <2> QED BY <2>3, <2>4
<1> QED BY <1>2, <1>3

(* One digit more in the text is one digit more in what it stands for.        *)
LEMMA DigitsAppend ==
  ASSUME NEW text \in Seq(Digit), NEW c \in Digit
  PROVE  Digits(Append(text, c)) = Append(Digits(text), DigitValue(c))
<1> DEFINE n == Len(text)
           longer == Append(text, c)
<1>1. /\ n \in Nat /\ longer \in Seq(Digit) /\ Len(longer) = n + 1
      /\ DOMAIN text = 1..n /\ DOMAIN longer = 1..(n + 1)
      /\ longer[n + 1] = c /\ \A i \in 1..n : longer[i] = text[i]
  OBVIOUS
<1>2. \A t \in Seq(Digit) : Digits(t) \in Seq(0..9) /\ Len(Digits(t)) = Len(t)
  <2>1. ASSUME NEW t \in Seq(Digit) PROVE Digits(t) \in Seq(0..9) /\ Len(Digits(t)) = Len(t)
    <3>1. DOMAIN t = 1..Len(t) /\ Len(t) \in Nat /\ \A i \in 1..Len(t) : DigitValue(t[i]) \in 0..9
      BY DigitsValues
    <3> QED BY <3>1 DEF Digits
  <2> QED BY <2>1
<1>3. \A t \in Seq(Digit) : \A i \in 1..Len(t) : Digits(t)[i] = DigitValue(t[i])
  BY DEF Digits
<1>4. DigitValue(c) \in 0..9
  BY DigitsValues
<1> DEFINE one == Digits(longer)
           other == Append(Digits(text), DigitValue(c))
<1>5. /\ one \in Seq(0..9) /\ Len(one) = n + 1
      /\ \A i \in 1..(n + 1) : one[i] = DigitValue(longer[i])
  BY <1>1, <1>2, <1>3
<1>6. /\ other \in Seq(0..9) /\ Len(other) = n + 1
      /\ other[n + 1] = DigitValue(c) /\ \A i \in 1..n : other[i] = DigitValue(text[i])
  BY <1>1, <1>2, <1>3, <1>4
<1>7. \A i \in 1..(n + 1) : one[i] = other[i]
  <2>1. ASSUME NEW i \in 1..(n + 1) PROVE i \in 1..n \/ i = n + 1
    BY <1>1
  <2> HIDE DEF n, longer, one, other
  <2> QED BY <1>1, <1>5, <1>6, <2>1
<1> HIDE DEF one, other
<1>8. one = other
  BY <1>1, <1>5, <1>6, <1>7, SeqEqual
<1> QED BY <1>8 DEF one, other

(* What is written of a number stands for it again.                           *)
LEMMA DecimalDenotes ==
  ASSUME NEW n \in Int
  PROVE  /\ Decimal(n) \in Seq(Digit \cup {"-"}) /\ Denotes(Decimal(n), n)
         /\ n >= 0 => Numeral(Decimal(n))
<1> DEFINE magnitude == IF n < 0 THEN -n ELSE n
           Texts == Seq(Digit)
           upto(f, k) == f = [m \in 0..k |->
                                IF m < 10 THEN <<DigitText[m + 1]>>
                                ELSE Append(f[m \div 10], DigitText[(m % 10) + 1])]
           Reached == {k \in 0..magnitude : \E f \in [0..k -> Texts] : upto(f, k)}
<1>1. magnitude \in Nat
  OBVIOUS
<1>2. \A m \in Nat : m % 10 \in 0..9 /\ m \div 10 \in Nat /\ m = 10 * (m \div 10) + (m % 10)
                     /\ (m >= 10 => m \div 10 < m)
  OBVIOUS
<1>3. \A m \in Nat : /\ DigitText[(m % 10) + 1] \in Digit
                     /\ DigitValue(DigitText[(m % 10) + 1]) = m % 10
                     /\ m < 10 => m % 10 = m
  <2>1. \A m \in Nat : (m % 10) + 1 \in 1..10 /\ ((m % 10) + 1) - 1 = m % 10
    BY <1>2
  <2>2. \A m \in Nat : m < 10 => m % 10 = m
    OBVIOUS
  <2> QED BY <2>1, <2>2, DigitsValues
<1>4. \A c \in Digit : <<c>> \in Texts /\ \A t \in Texts : Append(t, c) \in Texts
  OBVIOUS
<1> HIDE DEF magnitude, Texts
<1>5. magnitude \in Reached
  <2>1. 0 \in Reached
    <3> DEFINE f == [m \in 0..0 |-> <<DigitText[1]>>]
    <3>1. f \in [0..0 -> Texts]
      BY <1>3, <1>4
    <3>2. upto(f, 0)
      OBVIOUS
    <3> HIDE DEF f, upto
    <3> QED BY <1>1, <3>1, <3>2
  <2>2. ASSUME NEW k \in 0..magnitude, k < magnitude, k \in Reached PROVE k + 1 \in Reached
    <3>1. PICK f \in [0..k -> Texts] : upto(f, k)
      BY <2>2
    <3> DEFINE j == k + 1
               g == [m \in 0..j |-> IF m \in 0..k THEN f[m]
                                    ELSE IF m < 10 THEN <<DigitText[m + 1]>>
                                    ELSE Append(f[m \div 10], DigitText[(m % 10) + 1])]
    <3>2. j \in Nat /\ j \in 0..magnitude /\ 0..j = 0..k \cup {j} /\ j \notin 0..k
      BY <1>1, <2>2
    <3>3. \A m \in 0..j : m \in Nat /\ (m >= 10 => m \div 10 \in 0..k)
      BY <1>1, <1>2, <2>2
    <3>4. \A m \in 0..j : m < 10 => m + 1 = (m % 10) + 1
      BY <1>3, <3>3
    <3> HIDE DEF j
    <3>5. g \in [0..j -> Texts]
      <4>1. ASSUME NEW m \in 0..j PROVE g[m] \in Texts
        <5>1. CASE m \in 0..k
          BY <3>1, <5>1
        <5>2. CASE m \notin 0..k /\ m < 10
          <6>1. DigitText[m + 1] \in Digit
            BY <1>3, <3>3, <3>4, <5>2
          <6> QED BY <1>4, <5>2, <6>1
        <5>3. CASE m \notin 0..k /\ m >= 10
          <6>1. DigitText[(m % 10) + 1] \in Digit /\ f[m \div 10] \in Texts
            BY <1>3, <3>1, <3>3, <5>3
          <6>2. g[m] = Append(f[m \div 10], DigitText[(m % 10) + 1])
            BY <3>3, <5>3
          <6> QED BY <1>4, <6>1, <6>2
        <5> QED BY <3>3, <5>1, <5>2, <5>3
      <4> QED BY <4>1
    <3>6. ASSUME NEW m \in 0..j
          PROVE  g[m] = IF m < 10 THEN <<DigitText[m + 1]>>
                        ELSE Append(g[m \div 10], DigitText[(m % 10) + 1])
      <4>1. m >= 10 => g[m \div 10] = f[m \div 10]
        BY <3>2, <3>3
      <4>2. m \in 0..k => f[m] = IF m < 10 THEN <<DigitText[m + 1]>>
                                 ELSE Append(f[m \div 10], DigitText[(m % 10) + 1])
        BY <3>1
      <4>3. m < 10 \/ m >= 10
        BY <3>3
      <4> QED BY <4>1, <4>2, <4>3
    <3>7. upto(g, j)
      <4> HIDE DEF g
      <4> QED BY <3>5, <3>6
    <3> HIDE DEF g, upto
    <3> QED BY <3>2, <3>5, <3>7 DEF j
  <2>3. \A k \in 0..magnitude : k < magnitude /\ k \in Reached => k + 1 \in Reached
    BY <2>2
  <2>4. magnitude \in 0..magnitude
    BY <1>1
  <2> HIDE DEF Reached
  <2> QED BY <1>1, <2>1, <2>3, <2>4, Upwards
<1>6. PICK digits \in [0..magnitude -> Texts] : upto(digits, magnitude)
  <2> HIDE DEF upto
  <2> QED BY <1>5
<1> HIDE DEF Reached
<1>7. PICK written : /\ upto(written, magnitude)
                     /\ Decimal(n) = IF n < 0 THEN <<"-">> \o written[magnitude]
                                              ELSE written[magnitude]
  <2> DEFINE written == CHOOSE g : upto(g, magnitude)
  <2>1. Decimal(n) = IF n < 0 THEN <<"-">> \o written[magnitude] ELSE written[magnitude]
    BY DEF Decimal, magnitude
  <2>2. upto(written, magnitude)
    <3> HIDE DEF upto
    <3> QED BY <1>6
  <2> HIDE DEF written, upto
  <2> QED BY <2>1, <2>2
<1>8. \A m \in 0..magnitude :
        written[m] = IF m < 10 THEN <<DigitText[m + 1]>>
                     ELSE Append(written[m \div 10], DigitText[(m % 10) + 1])
  BY <1>7
<1> HIDE DEF upto
(* The least number that is written wrongly would have a right prefix.        *)
<1> DEFINE right(m) == /\ written[m] \in Texts /\ written[m] # <<>>
                       /\ PlaceValue(Digits(written[m])) = m
           Wrong == {m \in 0..magnitude : ~right(m)}
<1>9. ASSUME NEW m \in 0..magnitude, m < 10 PROVE right(m)
  <2>1. m \in Nat /\ m + 1 = (m % 10) + 1
    BY <1>1, <1>3, <1>9
  <2> DEFINE c == DigitText[m + 1]
  <2>2. c \in Digit /\ DigitValue(c) = m
    BY <1>3, <1>9, <2>1
  <2>3. written[m] = <<c>>
    BY <1>8, <1>9
  <2> HIDE DEF c
  <2>4. Digits(<<c>>) = Append(<<>>, m)
    BY <2>2 DEF Digits
  <2>5. <<>> \in Seq(0..9) /\ m \in 0..9
    BY <1>9, <2>1
  <2>6. PlaceValue(Append(<<>>, m)) = 10 * PlaceValue(<<>>) + m
    BY <2>5, PlaceValueAppend
  <2>7. PlaceValue(Digits(<<c>>)) = m
    BY <2>1, <2>4, <2>6, PlaceValueEmpty
  <2>8. <<c>> # <<>>
    OBVIOUS
  <2> QED BY <1>4, <2>2, <2>3, <2>7, <2>8
<1>10. ASSUME NEW m \in 0..magnitude, m >= 10, right(m \div 10) PROVE right(m)
  <2> DEFINE t == written[m \div 10]
             c == DigitText[(m % 10) + 1]
  <2>1. written[m] = Append(t, c)
    <3>1. m \in Nat /\ ~(m < 10)
      BY <1>1, <1>10
    <3> HIDE DEF right
    <3> QED BY <1>8, <3>1
  <2>2. c \in Digit /\ DigitValue(c) = m % 10 /\ m % 10 \in 0..9 /\ m = 10 * (m \div 10) + (m % 10)
    BY <1>1, <1>2, <1>3
  <2>3. t \in Seq(Digit) /\ t # <<>> /\ PlaceValue(Digits(t)) = m \div 10
    BY <1>10 DEF Texts
  <2> HIDE DEF t, c
  <2>4. Digits(Append(t, c)) = Append(Digits(t), m % 10)
    BY <2>2, <2>3, DigitsAppend
  <2>5. Digits(t) \in Seq(0..9)
    <3>1. Numeral(t)
      BY <2>3 DEF Numeral
    <3> QED BY <2>3, <3>1, DigitsOfNumeral
  <2>6. PlaceValue(Digits(Append(t, c))) = 10 * (m \div 10) + (m % 10)
    BY <2>2, <2>3, <2>4, <2>5, PlaceValueAppend
  <2>7. Append(t, c) \in Seq(Digit) /\ Append(t, c) # <<>>
    BY <2>2, <2>3
  <2> QED BY <2>1, <2>2, <2>6, <2>7 DEF Texts
<1>11. Wrong = {}
  <2> SUFFICES ASSUME Wrong # {} PROVE FALSE
    OBVIOUS
  <2>1. Wrong \subseteq Nat
    BY <1>1
  <2>2. PICK m \in Wrong : \A k \in Wrong : m <= k
    <3> HIDE DEF Wrong
    <3> QED BY <2>1, LeastNumber
  <2> HIDE DEF right
  <2>3. m \in 0..magnitude /\ m \in Nat /\ ~right(m)
    BY <2>1, <2>2
  <2>4. m >= 10
    BY <1>9, <2>3
  <2>5. m \div 10 \in 0..magnitude /\ m \div 10 < m /\ m \div 10 \in Nat
    BY <1>1, <1>2, <2>3, <2>4
  <2>6. m \div 10 \notin Wrong
    BY <2>1, <2>2, <2>3, <2>5
  <2> QED BY <1>10, <2>3, <2>4, <2>5, <2>6
<1>12. right(magnitude)
  <2> HIDE DEF right
  <2> QED BY <1>1, <1>11
<1> DEFINE text == written[magnitude]
<1>13. text \in Seq(Digit) /\ Numeral(text) /\ PlaceValue(Digits(text)) = magnitude
  BY <1>12 DEF Texts, Numeral
<1> HIDE DEF text
<1>14. CASE n < 0
  <2>1. Decimal(n) = <<"-">> \o text /\ n = -magnitude
    BY <1>7, <1>14 DEF text, magnitude
  <2>2. /\ <<"-">> \o text \in Seq(Digit \cup {"-"}) /\ <<"-">> \o text # <<>>
        /\ (<<"-">> \o text)[1] = "-" /\ Tail(<<"-">> \o text) = text
    BY <1>13
  <2>3. Denotes(<<"-">> \o text, n)
    BY <1>13, <2>1, <2>2 DEF Denotes
  <2> QED BY <1>14, <2>1, <2>2, <2>3
<1>15. CASE ~(n < 0)
  <2>1. Decimal(n) = text /\ n = magnitude
    BY <1>7, <1>15 DEF text, magnitude
  <2>2. text \in Seq(Digit \cup {"-"})
    BY <1>13
  <2> QED BY <1>13, <2>1, <2>2 DEF Denotes
<1> QED BY <1>14, <1>15

(* A number that is written and read again is the same, in either type and    *)
(* up to its limits.                                                          *)
THEOREM NumbersReadBack ==
  ASSUME NEW n \in Int
  PROVE  /\ n \in -kInt32MinMagnitude..kInt32MaxValue => ParseInt32(Decimal(n)) = Ok(n)
         /\ n \in 0..kUInt32MaxValue => ParseUInt32(Decimal(n)) = Ok(n)
<1> DEFINE S == Digit \cup {"-"}
           text == Decimal(n)
           signed == {m \in -kInt32MinMagnitude..kInt32MaxValue : Denotes(text, m)}
           unsigned == {m \in 0..kUInt32MaxValue : Numeral(text) /\ Denotes(text, m)}
<1>1. text \in Seq(S) /\ Denotes(text, n) /\ (n >= 0 => Numeral(text))
  BY DecimalDenotes
<1>2. Exact(ParseInt32(text), signed) /\ Exact(ParseUInt32(text), unsigned)
  BY <1>1, ParseInt32Exact, ParseUInt32Exact
<1>3. \A m : Denotes(text, m) => m = n
  BY <1>1, DenotesOne
<1> HIDE DEF text
<1>4. n \in -kInt32MinMagnitude..kInt32MaxValue => signed = {n}
  BY <1>1, <1>3
<1>5. n \in 0..kUInt32MaxValue => unsigned = {n}
  BY <1>1, <1>3
<1> HIDE DEF signed, unsigned
<1> QED BY <1>2, <1>4, <1>5 DEF Exact, text

--------------------------------------------------------------------------------
(* The inductive invariant *)

ShownIsStored ==
  reply \in {"saved", "value"} /\ typed[1] # CrashRecord =>
    typed[1] \in Key /\ flash[typed[1]] = typed[2]

(* The factory reset has deleted every key before the one it is at.           *)
ErasedSoFar ==
  step # 0 => /\ reply = "erasing"
              /\ \A i \in 1..5 : i < step => flash[kResetKeys[i]] = Absent

IInv ==
  /\ TypeOK
  /\ ShownIsStored
  /\ ErasedSoFar
  /\ RegistrySound

(* What every step that is not part of a factory reset comes to.              *)
CommandReply == {"nothing", "keys", "value", "not-set", "saved", "reset", "ok", "usage",
                 "failed"}

OneItemWritten(key, text) ==
  /\ key \in Key /\ text \in Seq(Char) /\ Len(text) <= MaxValueLength
  /\ flash' = [flash EXCEPT ![key] = text]

Written == UNCHANGED flash \/ \E key, text : OneItemWritten(key, text)

Outcome ==
  /\ reply' \in CommandReply
  /\ Written
  /\ ShownIsStored'

LEMMA ErrnoIsNoSuccess == ASSUME NEW rc \in Errno PROVE StatusFromErrno(rc) # "Ok"
  BY TextAssumption DEF StatusFromErrno

LEMMA KeysNamed ==
  /\ ResetKeys \subseteq Key /\ Serial \in Key /\ HwRev \in Key /\ CrashRecord \in Key
  /\ \A i \in 1..5 : kResetKeys[i] \in ResetKeys
  BY KeyAssumption DEF ResetKeys, Identity

LEMMA CrashRecordNotReset ==
  /\ CrashRecord \notin ResetKeys
  /\ \A key \in Identity : key \notin ResetKeys /\ key # CrashRecord
  BY DEF ResetKeys, kResetKeys, CrashRecord, Identity, Serial, HwRev

LEMMA WriteOutcome ==
  ASSUME TypeOK, NEW key, NEW text \in Seq(Char), NEW status, WriteRaw(key, text, status),
         IsValidKey(key) => key \in Key
  PROVE  \/ status # "Ok" /\ flash' = flash
         \/ status = "Ok" /\ OneItemWritten(key, text)
  BY ErrnoIsNoSuccess, TextAssumption DEF WriteRaw, TooLarge, OneItemWritten, TypeOK

LEMMA ResetOutcome ==
  ASSUME TypeOK, NEW key, NEW status, Reset(key, status), IsValidKey(key) => key \in Key
  PROVE  \/ status # "Ok" /\ flash' = flash
         \/ status = "Ok" /\ OneItemWritten(key, Absent)
<1>1. Absent \in Seq(Char) /\ Len(Absent) <= MaxValueLength
  BY TextAssumption DEF Absent
<1> QED BY <1>1, ErrnoIsNoSuccess DEF Reset, OneItemWritten

(* Only ENOENT reads as NotFound, and the subsystem says it of a deletion     *)
(* only when there is no item.                                                *)
LEMMA NotFoundMeansAbsent ==
  ASSUME NEW key, IsValidKey(key), Reset(key, "NotFound")
  PROVE  flash[key] = Absent
<1>1. ASSUME NEW rc \in Errno, "NotFound" = StatusFromErrno(rc) PROVE rc = "ENOENT"
  BY <1>1, TextAssumption, Zenon DEF StatusFromErrno
<1> QED BY <1>1 DEF Reset

(* Both shapes in which the shell hands over a command give the same operands. *)
LEMMA SubSeqOfConcat ==
  ASSUME NEW S, NEW a \in Seq(S), NEW b \in Seq(S)
  PROVE  SubSeq(a \o b, Len(a) + 1, Len(a \o b)) = b
<1>1. /\ a \o b \in Seq(S) /\ Len(a \o b) = Len(a) + Len(b)
      /\ \A i \in 1..Len(b) : (a \o b)[Len(a) + i] = b[i]
  BY ConcatProperties
<1>2. /\ SubSeq(a \o b, Len(a) + 1, Len(a \o b)) \in Seq(S)
      /\ Len(SubSeq(a \o b, Len(a) + 1, Len(a \o b))) = Len(b)
      /\ \A i \in 1..Len(b) :
           SubSeq(a \o b, Len(a) + 1, Len(a \o b))[i] = (a \o b)[Len(a) + i]
  BY <1>1, SubSeqProperties
<1> QED BY <1>1, <1>2, SeqEqual

(* The two shapes of a command's words mean the same operands.                *)
THEOREM ShapesAgree ==
  ASSUME NEW S, NEW operands \in Seq(S), NEW root, NEW command, command # root,
         NEW whole \in BOOLEAN
  PROVE  Operands(Argv(whole, root, command, operands), root, command) = operands
<1> DEFINE T == S \cup {<<root>>, <<command>>}
           argv == Argv(whole, root, command, operands)
<1>1. operands \in Seq(T) /\ <<<<root>>, <<command>>>> \in Seq(T) /\ <<<<command>>>> \in Seq(T)
  OBVIOUS
<1>2. <<root>> # <<command>>
  OBVIOUS
<1>3. CASE whole = TRUE
  <2>1. argv = <<<<root>>, <<command>>>> \o operands
    BY <1>3 DEF Argv
  <2>2. Len(argv) > 1 /\ argv[1] = <<root>> /\ argv[2] = <<command>>
    BY <1>1, <2>1, ConcatProperties
  <2>3. CommandArgBase(argv, root, command) = 2
    BY <2>2 DEF CommandArgBase
  <2> QED BY <1>1, <2>1, <2>3, SubSeqOfConcat, Len(<<<<root>>, <<command>>>>) = 2 DEF Operands
<1>4. CASE whole = FALSE
  <2>1. argv = <<<<command>>>> \o operands
    BY <1>4 DEF Argv
  <2>2. argv[1] = <<command>>
    BY <1>1, <2>1, ConcatProperties
  <2>3. CommandArgBase(argv, root, command) = 1
    BY <2>2, <1>2 DEF CommandArgBase
  <2> QED BY <1>1, <2>1, <2>3, SubSeqOfConcat, Len(<<<<command>>>>) = 1 DEF Operands
<1> QED BY <1>3, <1>4

(* An operator's operands: a key that is valid is in use, a text is a text.  *)
SoundOperands(args) ==
  /\ Len(args) >= 1 => (IsValidKey(args[1]) => args[1] \in Key)
  /\ Len(args) = 2 => args[2] \in Seq(Char)

LEMMA TypedOperands ==
  ASSUME NEW whole \in BOOLEAN, NEW operands \in Typed \cup {<<>>}, NEW root, NEW command,
         command # root
  PROVE  SoundOperands(Operands(Argv(whole, root, command, operands), root, command))
<1>1. operands \in Seq(Seq(Segment \cup Char))
  <2>1. Typed \subseteq Seq(Seq(Segment \cup Char))
    BY KeyAssumption
  <2>2. ASSUME NEW W PROVE <<>> \in Seq(W)
    OBVIOUS
  <2> QED BY <2>1, <2>2, Zenon
<1>2. Operands(Argv(whole, root, command, operands), root, command) = operands
  BY <1>1, ShapesAgree
<1>3. CASE operands = <<>>
  BY <1>2, <1>3 DEF SoundOperands
<1>4. CASE operands \in Typed /\ operands # <<>>
  BY <1>2, <1>4, KeyAssumption, TextAssumption DEF SoundOperands
<1> QED BY <1>3, <1>4

--------------------------------------------------------------------------------
(* What a command comes to *)

(* A saved item is what the answer shows; any other answer shows nothing.     *)
LEMMA SavedOutcome ==
  ASSUME IInv, NEW key, NEW text \in Seq(Char), NEW status, SetString(key, text, status),
         IsValidKey(key) => key \in Key, Saves(<<key, text>>, status)
  PROVE  Outcome
<1>1. WriteRaw(key, text, status) /\ TypeOK
  BY DEF SetString, IInv
<1>2. CASE status = "Ok"
  <2>1. OneItemWritten(key, text)
    BY <1>1, <1>2, WriteOutcome
  <2>2. flash'[key] = text /\ key \in Key
    BY <1>1, <2>1 DEF OneItemWritten, TypeOK
  <2>3. Written
    BY <2>1 DEF Written
  <2>4. reply' = "saved" /\ typed' = <<key, text>>
    BY <1>2 DEF Saves, Says
  <2> QED BY <2>2, <2>3, <2>4 DEF Outcome, CommandReply, ShownIsStored
<1>3. CASE status # "Ok"
  <2>1. UNCHANGED flash
    BY <1>1, <1>3, WriteOutcome
  <2>2. reply' = "failed"
    BY <1>3 DEF Saves, Says
  <2> QED BY <2>1, <2>2 DEF Outcome, CommandReply, Written, ShownIsStored
<1> QED BY <1>2, <1>3

LEMMA AnswerOutcome ==
  ASSUME NEW what \in CommandReply \ {"saved", "value"}, Answers(what)
  PROVE  Outcome
  BY DEF Answers, Says, Outcome, Written, ShownIsStored

(* What is read is what is stored: no text is longer than the buffer.         *)
LEMMA ReadOutcome ==
  ASSUME IInv, NEW key \in Key, Says("value", <<key, ReadString(key)>>, {}), UNCHANGED flash
  PROVE  Outcome
<1>1. reply' = "value" /\ typed' = <<key, ReadString(key)>>
  BY DEF Says
<1>2. ASSUME key # CrashRecord PROVE ReadString(key) = flash[key]
  <2>1. flash[key] \in Seq(Char) /\ Len(flash[key]) <= MaxValueLength
    BY <1>2 DEF IInv, TypeOK
  <2>2. SubSeq(flash[key], 1, Len(flash[key])) = flash[key]
    BY <2>1, SubSeqFull
  <2> QED BY <2>1, <2>2, TextAssumption DEF ReadString
<1> QED BY <1>1, <1>2 DEF Outcome, CommandReply, Written, ShownIsStored

LEMMA IdentityOutcome ==
  ASSUME IInv, NEW argv, NEW command, NEW key \in Identity,
         SoundOperands(Operands(argv, "board", command)),
         IdentityCommand(argv, command, key)
  PROVE  Outcome
<1> DEFINE args == Operands(argv, "board", command)
<1>1. key \in Key
  BY KeysNamed DEF Identity
<1>2. CASE ReadIdentityValue(key)
  BY <1>1, <1>2, ReadOutcome, AnswerOutcome DEF ReadIdentityValue, CommandReply
<1>3. CASE Len(args) = 2 /\ WriteIdentityValue(key, args[2])
  <2>1. CASE Answers("failed")
    BY <2>1, AnswerOutcome DEF CommandReply
  <2>2. ASSUME NEW status \in Status, SetString(key, args[2], status),
               Saves(<<key, args[2]>>, status)
        PROVE  Outcome
    BY <1>1, <1>3, <2>2, SavedOutcome DEF SoundOperands
  <2> QED BY <1>3, <2>1, <2>2 DEF WriteIdentityValue
<1>4. CASE Answers("usage")
  BY <1>4, AnswerOutcome DEF CommandReply
<1> QED BY <1>2, <1>3, <1>4 DEF IdentityCommand

LEMMA ListOutcome == ASSUME NEW argv, CmdList(argv) PROVE Outcome
<1>1. CASE Answers("usage")
  BY <1>1, AnswerOutcome DEF CommandReply
<1>2. ASSUME UNCHANGED flash, NEW keys, Says("keys", <<>>, keys) \/ Says("failed", <<>>, {})
      PROVE  Outcome
  BY <1>2 DEF Says, Outcome, CommandReply, Written, ShownIsStored
<1> QED BY <1>1, <1>2 DEF CmdList

LEMMA GetOutcome ==
  ASSUME IInv, NEW argv, CmdGet(argv),
         SoundOperands(Operands(argv, "settings", "get"))
  PROVE  Outcome
<1> DEFINE args == Operands(argv, "settings", "get")
<1>1. CASE Answers("usage")
  BY <1>1, AnswerOutcome DEF CommandReply
<1>2. CASE Answers("failed")
  BY <1>2, AnswerOutcome DEF CommandReply
<1>3. ASSUME Len(args) = 1, GetString(args[1], "Ok"), UNCHANGED flash,
             Says("value", <<args[1], ReadString(args[1])>>, {})
      PROVE  Outcome
  <2>1. args[1] \in Key
    BY <1>3 DEF GetString, SoundOperands
  <2> QED BY <1>3, <2>1, ReadOutcome
<1> QED BY <1>1, <1>2, <1>3 DEF CmdGet

LEMMA SetOutcome ==
  ASSUME IInv, NEW argv, CmdSet(argv),
         SoundOperands(Operands(argv, "settings", "set"))
  PROVE  Outcome
<1> DEFINE args == Operands(argv, "settings", "set")
<1>1. CASE Answers("usage")
  BY <1>1, AnswerOutcome DEF CommandReply
<1>2. ASSUME Len(args) = 2, NEW status \in Status, SetString(args[1], args[2], status),
             Saves(<<args[1], args[2]>>, status)
      PROVE  Outcome
  BY <1>2, SavedOutcome DEF SoundOperands
<1> QED BY <1>1, <1>2 DEF CmdSet

LEMMA ResetCommandOutcome ==
  ASSUME IInv, NEW argv, CmdReset(argv),
         SoundOperands(Operands(argv, "settings", "reset"))
  PROVE  Outcome
<1> DEFINE args == Operands(argv, "settings", "reset")
<1>1. CASE Answers("usage")
  BY <1>1, AnswerOutcome DEF CommandReply
<1>2. ASSUME Len(args) = 1, NEW status \in Status, Reset(args[1], status),
             Says(IF status = "Ok" THEN "reset" ELSE "failed", <<>>, {})
      PROVE  Outcome
  <2>1. TypeOK
    BY DEF IInv
  <2>2. Written
    BY <1>2, <2>1, ResetOutcome DEF Written, SoundOperands
  <2> QED BY <1>2, <2>2 DEF Says, Outcome, CommandReply, ShownIsStored
<1> QED BY <1>1, <1>2 DEF CmdReset

LEMMA ShellOutcome ==
  ASSUME IInv, ShellCommand
  PROVE  Outcome /\ step = 0 /\ UNCHANGED <<registry, step>>
<1> SUFFICES Outcome
  BY DEF ShellCommand, Idle
<1>1. PICK whole \in BOOLEAN, operands \in Typed \cup {<<>>} :
       \/ CmdList(Argv(whole, "settings", "list", operands))
       \/ CmdGet(Argv(whole, "settings", "get", operands))
       \/ CmdSet(Argv(whole, "settings", "set", operands))
       \/ CmdReset(Argv(whole, "settings", "reset", operands))
       \/ CmdBoardSerial(Argv(whole, "board", "serial", operands))
       \/ CmdBoardHardwareRevision(Argv(whole, "board", "hw-rev", operands))
       \/ CmdSave
       \/ CmdLoad
  BY DEF ShellCommand
<1>2. CASE CmdList(Argv(whole, "settings", "list", operands))
  BY <1>2, ListOutcome
<1>3. CASE CmdGet(Argv(whole, "settings", "get", operands))
  <2>1. SoundOperands(Operands(Argv(whole, "settings", "get", operands), "settings", "get"))
    BY TypedOperands
  <2> QED BY <1>3, <2>1, GetOutcome
<1>4. CASE CmdSet(Argv(whole, "settings", "set", operands))
  <2>1. SoundOperands(Operands(Argv(whole, "settings", "set", operands), "settings", "set"))
    BY TypedOperands
  <2> QED BY <1>4, <2>1, SetOutcome
<1>5. CASE CmdReset(Argv(whole, "settings", "reset", operands))
  <2>1. SoundOperands(Operands(Argv(whole, "settings", "reset", operands), "settings", "reset"))
    BY TypedOperands
  <2> QED BY <1>5, <2>1, ResetCommandOutcome
<1>6. CASE CmdBoardSerial(Argv(whole, "board", "serial", operands))
  <2>1. Serial \in Identity
    BY DEF Identity
  <2>2. SoundOperands(Operands(Argv(whole, "board", "serial", operands), "board", "serial"))
    BY TypedOperands
  <2> QED BY <1>6, <2>1, <2>2, IdentityOutcome DEF CmdBoardSerial
<1>7. CASE CmdBoardHardwareRevision(Argv(whole, "board", "hw-rev", operands))
  <2>1. HwRev \in Identity
    BY DEF Identity
  <2>2. SoundOperands(Operands(Argv(whole, "board", "hw-rev", operands), "board", "hw-rev"))
    BY TypedOperands
  <2> QED BY <1>7, <2>1, <2>2, IdentityOutcome DEF CmdBoardHardwareRevision
<1>8. CASE CmdSave \/ CmdLoad
  BY <1>8, AnswerOutcome DEF CmdSave, CmdLoad, CommandReply
<1> QED BY <1>1, <1>2, <1>3, <1>4, <1>5, <1>6, <1>7, <1>8

--------------------------------------------------------------------------------
(* The inductive invariant *)

LEMMA InvariantInit == Init => IInv
<1> SUFFICES ASSUME Init PROVE IInv
  OBVIOUS
<1>1. Absent \in Seq(Char) /\ Len(Absent) = 0
  BY DEF Absent
<1>2. \A key \in Key : flash[key] = Absent
  BY DEF Init
<1>3. \A key \in Key \ {CrashRecord} : Len(flash[key]) <= MaxValueLength
  BY <1>1, <1>2, TextAssumption
<1>4. TypeOK
  BY <1>1, <1>3 DEF Init, TypeOK, SaveStep, kResetKeys
<1>5. RegistrySound
  BY CapacityAssumption DEF Init, RegistrySound
<1> QED BY <1>3, <1>4, <1>5 DEF IInv, Init, ShownIsStored, ErasedSoFar

(* Any step that writes one item or none keeps the flash as it should be.     *)
LEMMA WrittenKeeps ==
  ASSUME IInv, Written
  PROVE  /\ flash' \in [Key -> Seq(Char)]
         /\ \A key \in Key \ {CrashRecord} : Len(flash'[key]) <= MaxValueLength
<1>1. CASE UNCHANGED flash
  BY <1>1 DEF IInv, TypeOK
<1>2. ASSUME NEW key, NEW text, OneItemWritten(key, text)
      PROVE  /\ flash' \in [Key -> Seq(Char)]
             /\ \A other \in Key \ {CrashRecord} : Len(flash'[other]) <= MaxValueLength
  BY <1>2 DEF IInv, TypeOK, OneItemWritten
<1> QED BY <1>1, <1>2 DEF Written

LEMMA CommandKeeps ==
  ASSUME IInv, Outcome, step' = 0, registry' = registry \/ registry' = <<>>
  PROVE  IInv'
<1>1. /\ flash' \in [Key -> Seq(Char)]
      /\ \A key \in Key \ {CrashRecord} : Len(flash'[key]) <= MaxValueLength
  BY WrittenKeeps DEF Outcome
<1>2. registry' \in Seq(Key) /\ RegistrySound'
  <2>1. CASE registry' = registry
    BY <2>1 DEF IInv, TypeOK, RegistrySound
  <2>2. CASE registry' = <<>>
    BY <2>2, CapacityAssumption DEF RegistrySound
  <2> QED BY <2>1, <2>2
<1>3. reply' \in CommandReply /\ ShownIsStored'
  BY DEF Outcome
<1>4. TypeOK'
  BY <1>1, <1>2, <1>3 DEF TypeOK, CommandReply, SaveStep, kResetKeys
<1> QED BY <1>1, <1>2, <1>3, <1>4 DEF IInv, ErasedSoFar

LEMMA SetNumberOutcome ==
  ASSUME IInv, NEW key \in Counted, NEW n \in Number, SetNumber(key, n)
  PROVE  Outcome /\ UNCHANGED <<registry, step>>
<1>1. key \in Key /\ Decimal(n) \in Seq(Char)
  <2>1. Decimal(n) \in Seq(Digit \cup {"-"})
    BY TextAssumption, DecimalDenotes
  <2> QED BY <2>1, TextAssumption
<1>2. PICK status \in Status : /\ SetString(key, Decimal(n), status)
                               /\ Saves(<<key, Decimal(n)>>, status)
  BY DEF SetNumber
<1>3. Outcome
  BY <1>1, <1>2, SavedOutcome
<1> QED BY <1>3 DEF SetNumber

(* A failed deletion ends the factory reset and leaves the flash as it is;    *)
(* the next key is reached only when this one has no item.                    *)
LEMMA ResetNextKeyOutcome ==
  ASSUME IInv, ResetNextKey
  PROVE  /\ Written /\ step \in 1..5 /\ UNCHANGED registry
         /\ \A key \in Key : key # kResetKeys[step] => flash'[key] = flash[key]
         /\ \/ step' = step + 1 /\ UNCHANGED console /\ flash'[kResetKeys[step]] = Absent
            \/ step' = 0 /\ reply' = "failed" /\ UNCHANGED flash
<1>1. step \in 1..5 /\ UNCHANGED registry
  BY DEF ResetNextKey, kResetKeys
<1>2. PICK status \in Status :
         /\ Reset(kResetKeys[step], status)
         /\ IF status \in {"Ok", "NotFound"}
            THEN step' = step + 1 /\ UNCHANGED console
            ELSE step' = 0 /\ Says("failed", <<>>, {})
  BY DEF ResetNextKey
<1>3. TypeOK /\ kResetKeys[step] \in Key /\ IsValidKey(kResetKeys[step])
  BY <1>1, KeysNamed, KeyAssumption DEF IInv
<1>4. CASE status = "Ok"
  <2>1. OneItemWritten(kResetKeys[step], Absent)
    BY <1>2, <1>3, <1>4, ResetOutcome
  <2>2. /\ flash'[kResetKeys[step]] = Absent
        /\ \A key \in Key : key # kResetKeys[step] => flash'[key] = flash[key]
    BY <1>3, <2>1 DEF OneItemWritten, TypeOK
  <2> QED BY <1>1, <1>2, <1>4, <2>1, <2>2 DEF Written
<1>5. CASE status = "NotFound"
  <2>1. UNCHANGED flash
    BY <1>2, <1>3, <1>5, ResetOutcome
  <2>2. flash[kResetKeys[step]] = Absent
    BY <1>2, <1>3, <1>5, NotFoundMeansAbsent
  <2> QED BY <1>1, <1>2, <1>5, <2>1, <2>2 DEF Written
<1>6. CASE status \notin {"Ok", "NotFound"}
  <2>1. UNCHANGED flash
    BY <1>2, <1>3, <1>6, ResetOutcome
  <2> QED BY <1>1, <1>2, <1>6, <2>1 DEF Written, Says
<1> QED BY <1>4, <1>5, <1>6

LEMMA ResetNextKeyKeeps == ASSUME IInv, ResetNextKey PROVE IInv'
<1>1. /\ Written /\ step \in 1..5 /\ UNCHANGED registry
      /\ \A key \in Key : key # kResetKeys[step] => flash'[key] = flash[key]
      /\ \/ step' = step + 1 /\ UNCHANGED console /\ flash'[kResetKeys[step]] = Absent
         \/ step' = 0 /\ reply' = "failed" /\ UNCHANGED flash
  BY ResetNextKeyOutcome
<1>2. /\ flash' \in [Key -> Seq(Char)]
      /\ \A key \in Key \ {CrashRecord} : Len(flash'[key]) <= MaxValueLength
  BY <1>1, WrittenKeeps
<1>3. registry' \in Seq(Key) /\ RegistrySound'
  BY <1>1 DEF IInv, TypeOK, RegistrySound
<1>4. reply = "erasing" /\ \A i \in 1..5 : i < step => flash[kResetKeys[i]] = Absent
  BY <1>1 DEF IInv, ErasedSoFar
<1>5. CASE step' = step + 1 /\ UNCHANGED console /\ flash'[kResetKeys[step]] = Absent
  <2>1. reply' = "erasing"
    BY <1>4, <1>5 DEF console
  <2>2. ASSUME NEW i \in 1..5, i < step' PROVE flash'[kResetKeys[i]] = Absent
    <3>1. CASE i = step
      BY <1>5, <3>1
    <3>2. CASE i < step
      <4>1. flash[kResetKeys[i]] = Absent /\ kResetKeys[i] \in Key
        BY <1>4, <3>2, KeysNamed
      <4> QED BY <1>1, <1>5, <4>1
    <3> QED BY <1>1, <1>5, <2>2, <3>1, <3>2
  <2>3. step' \in 0..SaveStep
    BY <1>1, <1>5 DEF SaveStep, kResetKeys
  <2> QED BY <1>2, <1>3, <2>1, <2>2, <2>3 DEF IInv, TypeOK, ShownIsStored, ErasedSoFar
<1>6. CASE step' = 0 /\ reply' = "failed" /\ UNCHANGED flash
  BY <1>2, <1>3, <1>6 DEF IInv, TypeOK, ShownIsStored, ErasedSoFar, SaveStep, kResetKeys
<1> QED BY <1>1, <1>5, <1>6

LEMMA RegisterKeeps == ASSUME IInv, NEW key \in Described, Register(key) PROVE IInv'
<1>1. key \in Key
  BY TextAssumption
<1>2. registry' = Append(registry, key) /\ UNCHANGED <<flash, step, reply, typed>>
  BY DEF Register, console
<1>3. registry' \in Seq(Key)
  BY <1>1, <1>2 DEF IInv, TypeOK
<1>4. RegistrySound'
  BY <1>1, <1>2, CapacityAssumption DEF Register, Find, IInv, TypeOK, RegistrySound
<1> QED BY <1>2, <1>3, <1>4 DEF IInv, TypeOK, ShownIsStored, ErasedSoFar

LEMMA WriteCrashRecordKeeps ==
  ASSUME IInv, NEW text \in CrashTexts, WriteCrashRecord(text)
  PROVE  IInv'
<1>1. text \in Seq(Char)
  BY TextAssumption
<1>2. /\ flash' = [flash EXCEPT ![CrashRecord] = text]
      /\ UNCHANGED <<registry, step, reply, typed>>
  BY DEF WriteCrashRecord, console
<1>3. /\ flash' \in [Key -> Seq(Char)]
      /\ \A key \in Key \ {CrashRecord} : Len(flash'[key]) <= MaxValueLength
  BY <1>1, <1>2, KeysNamed DEF IInv, TypeOK
<1>4. \A key \in Key : key # CrashRecord => flash'[key] = flash[key]
  BY <1>2 DEF IInv, TypeOK
<1>5. ShownIsStored'
  BY <1>2, <1>4 DEF IInv, ShownIsStored
<1>6. ErasedSoFar'
  <2>1. ASSUME NEW i \in 1..5 PROVE flash'[kResetKeys[i]] = flash[kResetKeys[i]]
    BY <1>4, <2>1, KeysNamed, CrashRecordNotReset
  <2> QED BY <1>2, <2>1 DEF IInv, ErasedSoFar
<1>7. TypeOK' /\ RegistrySound'
  BY <1>2, <1>3 DEF IInv, TypeOK, RegistrySound
<1> QED BY <1>3, <1>5, <1>6, <1>7 DEF IInv

LEMMA InvariantStep == ASSUME IInv, [Next]_vars PROVE IInv'
<1>1. CASE ShellCommand
  <2>1. Outcome /\ step = 0 /\ UNCHANGED <<registry, step>>
    BY <1>1, ShellOutcome
  <2> QED BY <2>1, CommandKeeps
<1>2. CASE FactoryResetBegin
  <2>1. UNCHANGED <<flash, registry>> /\ reply' \in {"erasing", "failed"} /\ step' \in 0..1
        /\ (step' # 0 => reply' = "erasing")
    BY <1>2 DEF FactoryResetBegin, Says
  <2> QED BY <2>1 DEF IInv, TypeOK, ShownIsStored, ErasedSoFar, RegistrySound,
    SaveStep, kResetKeys
<1>3. CASE ResetNextKey
  BY <1>3, ResetNextKeyKeeps
<1>4. CASE FactoryResetSave
  <2>1. UNCHANGED <<flash, registry>> /\ reply' \in {"complete", "failed"} /\ step' = 0
    BY <1>4 DEF FactoryResetSave, Says
  <2> QED BY <2>1 DEF IInv, TypeOK, ShownIsStored, ErasedSoFar, RegistrySound,
    SaveStep, kResetKeys
<1>5. ASSUME NEW key \in Counted, NEW n \in Number, Idle, SetNumber(key, n) PROVE IInv'
  <2>1. Outcome /\ UNCHANGED <<registry, step>> /\ step = 0
    BY <1>5, SetNumberOutcome DEF Idle
  <2> QED BY <2>1, CommandKeeps
<1>6. ASSUME NEW key \in Described, Register(key) PROVE IInv'
  BY <1>6, RegisterKeeps
<1>7. ASSUME NEW text \in CrashTexts, WriteCrashRecord(text) PROVE IInv'
  BY <1>7, WriteCrashRecordKeeps
<1>8. CASE BoardReset
  <2>1. Outcome /\ step' = 0 /\ registry' = <<>>
    BY <1>8 DEF BoardReset, Says, Outcome, CommandReply, Written, ShownIsStored
  <2> QED BY <2>1, CommandKeeps
<1>9. CASE UNCHANGED vars
  BY <1>9 DEF vars, console, IInv, TypeOK, ShownIsStored, ErasedSoFar, RegistrySound
<1> QED BY <1>1, <1>2, <1>3, <1>4, <1>5, <1>6, <1>7, <1>8, <1>9 DEF Next

LEMMA Invariance == Spec => []IInv
<1>1. IInv /\ [Next]_vars => IInv'
  BY InvariantStep
<1> QED BY InvariantInit, <1>1, PTL DEF Spec

--------------------------------------------------------------------------------
(* The theorems *)

(* Every variable keeps its type, for all keys, operands and limits.          *)
THEOREM TypeCorrect == Spec => []TypeOK
<1>1. IInv => TypeOK
  BY DEF IInv
<1> QED BY <1>1, Invariance, PTL

(* Writing and reading have the same limit: what is saved or shown is stored, *)
(* and a read that finds it returns it, for every limit and every text an     *)
(* operator types; no read finds an item where the empty text was saved.      *)
THEOREM SavedIsRead == Spec => []SavedReadsBack
<1>1. IInv => SavedReadsBack
  <2> SUFFICES ASSUME IInv, reply \in {"saved", "value"}, typed[1] # CrashRecord
               PROVE  /\ typed[1] \in Key
                      /\ flash[typed[1]] = typed[2]
                      /\ GetString(typed[1], "Ok") <=> typed[2] # <<>>
                      /\ GetString(typed[1], "Ok") => ReadString(typed[1]) = typed[2]
    BY DEF SavedReadsBack
  <2>1. typed[1] \in Key /\ flash[typed[1]] = typed[2]
    BY DEF IInv, ShownIsStored
  <2>2. flash[typed[1]] \in Seq(Char) /\ Len(flash[typed[1]]) <= MaxValueLength
    BY <2>1 DEF IInv, TypeOK
  <2>3. SubSeq(flash[typed[1]], 1, Len(flash[typed[1]])) = flash[typed[1]]
    BY <2>2, SubSeqFull
  <2>4. ReadString(typed[1]) = flash[typed[1]]
    BY <2>2, <2>3, TextAssumption DEF ReadString
  <2>5. GetString(typed[1], "Ok") <=> typed[2] # <<>>
    BY <2>1, KeyAssumption DEF GetString, Absent
  <2> QED BY <2>1, <2>4, <2>5
<1> QED BY <1>1, Invariance, PTL

(* A result of a typed read is the default, what the parser says of the       *)
(* stored text, or a failure; the parser's result occurs when there is a text. *)
LEMMA TypedGetResults ==
  ASSUME NEW key \in Key, NEW default, NEW parsed, NEW numbers,
         flash[key] = Absent => numbers = {}, \A m, n \in numbers : m = n,
         Exact(parsed, numbers)
  PROVE  ReadsExactly(TypedGet(key, default, parsed), default, numbers)
<1>1. IsValidKey(key)
  BY KeyAssumption
<1>2. "Ok" \in Status
  BY DEF Status, StatusFromErrno
<1>3. ASSUME NEW result \in TypedGet(key, default, parsed), result.status = "Ok"
      PROVE  result.value \in numbers \cup {default}
  <2>1. PICK status \in Status :
          /\ GetString(key, status)
          /\ result = CASE status = "Ok" -> parsed
                        [] status = "NotFound" -> Ok(default)
                        [] OTHER -> [status |-> status, value |-> 0]
    BY <1>3 DEF TypedGet
  <2>2. CASE status = "Ok"
    <3>1. parsed.status = "Ok"
      BY <1>3, <2>1, <2>2
    <3> QED BY <2>1, <2>2, <3>1 DEF Exact, Ok, InvalidArgument
  <2>3. CASE status = "NotFound"
    BY <2>1, <2>3 DEF Ok
  <2>4. CASE status \notin {"Ok", "NotFound"}
    BY <1>3, <2>1, <2>4
  <2> QED BY <2>2, <2>3, <2>4
<1>4. ASSUME NEW n \in numbers PROVE Ok(n) \in TypedGet(key, default, parsed)
  <2>1. GetString(key, "Ok")
    BY <1>1, <1>4 DEF GetString
  <2>2. parsed \in TypedGet(key, default, parsed)
    BY <1>2, <2>1 DEF TypedGet
  <2>3. parsed = Ok(n)
    BY <1>4 DEF Exact
  <2> QED BY <2>2, <2>3
<1> QED BY <1>3, <1>4 DEF ReadsExactly

(* What a stored text stands for is what the typed reads say, for every text, *)
(* every limit of the types and every length of a value.                      *)
THEOREM TypedReadsAreExact == Spec => []TypedReadsExact
<1>1. ASSUME IInv, NEW key \in Key, NEW default, ~TooLarge(flash[key])
      PROVE  /\ ReadsExactly(GetInt32(key, default), default,
                  {n \in -kInt32MinMagnitude..kInt32MaxValue : Denotes(flash[key], n)})
             /\ ReadsExactly(GetUInt32(key, default), default,
                  {n \in 0..kUInt32MaxValue :
                    Numeral(flash[key]) /\ Denotes(flash[key], n)})
  <2> DEFINE text == flash[key]
             signed == {n \in -kInt32MinMagnitude..kInt32MaxValue : Denotes(text, n)}
             unsigned == {n \in 0..kUInt32MaxValue : Numeral(text) /\ Denotes(text, n)}
  <2>1. text \in Seq(Char) /\ Len(text) \in Nat /\ MaxValueLength \in Nat
        /\ Len(text) <= MaxValueLength
    BY <1>1, TextAssumption DEF IInv, TypeOK, TooLarge
  <2>2. SubSeq(text, 1, Len(text)) = text
    BY <2>1, SubSeqFull
  <2>3. ReadString(key) = text
    BY <2>1, <2>2 DEF ReadString
  <2>4. text = Absent => signed = {} /\ unsigned = {}
    BY DEF Absent, Denotes, Numeral
  <2> HIDE DEF text
  <2>a. (\A m, n \in signed : m = n) /\ (\A m, n \in unsigned : m = n)
    BY <2>1, DenotesOne
  <2>5. Exact(ParseInt32(text), signed) /\ Exact(ParseUInt32(text), unsigned)
    BY <2>1, ParseInt32Exact, ParseUInt32Exact
  <2> HIDE DEF signed, unsigned
  <2>6. /\ ReadsExactly(GetInt32(key, default), default, signed)
        /\ ReadsExactly(GetUInt32(key, default), default, unsigned)
    BY <2>3, <2>4, <2>a, <2>5, TypedGetResults DEF GetInt32, GetUInt32, text
  <2> QED BY <2>6 DEF text, signed, unsigned
<1>2. \A n \in Number : Denotes(Decimal(n), n)
  BY TextAssumption, DecimalDenotes
<1>3. IInv => TypedReadsExact
  BY <1>1, <1>2 DEF TypedReadsExact
<1> QED BY <1>3, Invariance, PTL

(* No key is registered twice, for every capacity of the registry.            *)
THEOREM RegistryIsSound == Spec => []RegistrySound
<1>1. IInv => RegistrySound
  BY DEF IInv
<1> QED BY <1>1, Invariance, PTL

(* While a factory reset runs, the identity and every key that it does not    *)
(* name keep their values, whatever fails and whatever other threads write.   *)
THEOREM IdentitySurvives == Spec => PreservedKept
<1>1. ASSUME IInv, [Next]_vars, step # 0, step' # 0,
             NEW key \in Identity \cup (Key \ (ResetKeys \cup {CrashRecord}))
      PROVE  flash'[key] = flash[key]
  <2>1. key \in Key /\ key \notin ResetKeys /\ key # CrashRecord
    BY <1>1, KeysNamed, CrashRecordNotReset DEF Identity
  <2>2. CASE ResetNextKey
    <3>1. /\ step \in 1..5
          /\ \A k \in Key : k # kResetKeys[step] => flash'[k] = flash[k]
      BY <1>1, <2>2, ResetNextKeyOutcome
    <3> QED BY <2>1, <3>1, KeysNamed
  <2>3. ASSUME NEW text, WriteCrashRecord(text) PROVE flash'[key] = flash[key]
    BY <1>1, <2>1, <2>3 DEF WriteCrashRecord, IInv, TypeOK
  <2>4. ASSUME UNCHANGED flash PROVE flash'[key] = flash[key]
    BY <2>4
  <2> QED BY <1>1, <2>2, <2>3, <2>4 DEF Next, vars, ShellCommand, Idle, FactoryResetBegin,
    FactoryResetSave, Register, BoardReset
<1>2. IInv /\ [Next]_vars => [step # 0 /\ step' # 0 =>
        \A key \in Identity \cup (Key \ (ResetKeys \cup {CrashRecord})) :
          flash'[key] = flash[key]]_vars
  BY <1>1
<1> QED BY <1>2, Invariance, PTL DEF Spec, PreservedKept

NameInList(subtree, key) == IF key = subtree THEN Append(subtree, "") ELSE key

(* The name that ListCallback puts together is the key's own, but for the item *)
(* of the subtree's own name, which gets a slash.                             *)
LEMMA FullKeyIsName ==
  ASSUME NEW subtree, Len(subtree) \in Nat, NEW key \in Below(subtree)
  PROVE  FullKey(subtree, key) = NameInList(subtree, key)
<1>1. /\ key \in Seq(Segment) /\ Len(key) > 1
      /\ Len(subtree) <= Len(key) /\ SubSeq(key, 1, Len(subtree)) = subtree
  BY KeyAssumption DEF Below, IsValidKey, IsAllowedNamespace
<1>2. /\ 1 \in 1..(Len(key) + 1) /\ Len(subtree) \in (1 - 1)..Len(key)
      /\ Len(key) \in Len(subtree)..Len(key)
  BY <1>1
<1>3. SubSeq(key, 1, Len(subtree)) \o SubSeq(key, Len(subtree) + 1, Len(key))
        = SubSeq(key, 1, Len(key))
  BY <1>1, <1>2, ConcatAdjacentSubSeq
<1>4. subtree \o SubSeq(key, Len(subtree) + 1, Len(key)) = key
  BY <1>1, <1>3, SubSeqFull
<1>5. key # <<>>
  BY <1>1
<1> QED BY <1>4, <1>5 DEF FullKey, NameInList

LEMMA ShownNames ==
  ASSUME NEW subtree, Len(subtree) \in Nat
  PROVE  Shown(subtree) = {NameInList(subtree, key) : key \in Below(subtree)}
<1>1. \A key \in Below(subtree) : FullKey(subtree, key) = NameInList(subtree, key)
  BY FullKeyIsName
<1> QED BY <1>1 DEF Shown

(* `settings list` shows the stored items of a subtree, all of them and under  *)
(* their own names, except that the item of the subtree's own name is shown    *)
(* with a slash: what ListCallback makes of the empty rest Zephyr hands it.    *)
THEOREM ListIsComplete ==
  Spec => [](\A subtree \in Seq(Segment \cup Char) :
    Shown(subtree) = {NameInList(subtree, key) : key \in Below(subtree)})
<1>1. ASSUME NEW subtree \in Seq(Segment \cup Char)
      PROVE  Shown(subtree) = {NameInList(subtree, key) : key \in Below(subtree)}
  <2>1. Len(subtree) \in Nat
    OBVIOUS
  <2> QED BY <2>1, ShownNames
<1>2. \A subtree \in Seq(Segment \cup Char) :
        Shown(subtree) = {NameInList(subtree, key) : key \in Below(subtree)}
  BY <1>1
<1> QED BY <1>2, PTL

(* A name is that of a key, or that of a key and a slash.                     *)
ListedNames ==
  \A name \in listed : IsValidKey(name) \/ \E key \in Key : name = Append(key, "")

LEMMA ShownAreNames ==
  ASSUME NEW subtree, Len(subtree) \in Nat, NEW name \in Shown(subtree)
  PROVE  IsValidKey(name) \/ \E key \in Key : name = Append(key, "")
<1>1. PICK key \in Below(subtree) : name = NameInList(subtree, key)
  BY ShownNames
<1>2. key \in Key /\ IsValidKey(key)
  BY <1>1, KeyAssumption DEF Below
<1> QED BY <1>1, <1>2 DEF NameInList

(* Only `settings list` shows names; every other command shows none.          *)
LEMMA ListCommandNames ==
  ASSUME NEW whole \in BOOLEAN, NEW operands \in Typed \cup {<<>>},
         CmdList(Argv(whole, "settings", "list", operands))
  PROVE  ListedNames'
<1> DEFINE args == Operands(Argv(whole, "settings", "list", operands), "settings", "list")
           subtree == IF args = <<>> THEN <<>> ELSE args[1]
<1>1. operands \in Seq(Seq(Segment \cup Char))
  <2>1. Typed \subseteq Seq(Seq(Segment \cup Char))
    BY KeyAssumption
  <2>2. ASSUME NEW W PROVE <<>> \in Seq(W)
    OBVIOUS
  <2> QED BY <2>1, <2>2, Zenon
<1>2. args = operands
  BY <1>1, ShapesAgree
<1> HIDE DEF args
<1>3. Len(subtree) \in Nat
  BY <1>1, <1>2
<1>4. listed' = {} \/ listed' = Shown(subtree)
  BY DEF CmdList, Answers, Says, args
<1> HIDE DEF subtree
<1>5. ASSUME NEW name \in listed' PROVE IsValidKey(name) \/ \E key \in Key : name = Append(key, "")
  BY <1>3, <1>4, <1>5, ShownAreNames
<1> QED BY <1>5 DEF ListedNames

LEMMA ShellListedNames == ASSUME ShellCommand PROVE ListedNames'
<1>1. PICK whole \in BOOLEAN, operands \in Typed \cup {<<>>} :
       \/ CmdList(Argv(whole, "settings", "list", operands))
       \/ CmdGet(Argv(whole, "settings", "get", operands))
       \/ CmdSet(Argv(whole, "settings", "set", operands))
       \/ CmdReset(Argv(whole, "settings", "reset", operands))
       \/ CmdBoardSerial(Argv(whole, "board", "serial", operands))
       \/ CmdBoardHardwareRevision(Argv(whole, "board", "hw-rev", operands))
       \/ CmdSave
       \/ CmdLoad
  BY DEF ShellCommand
<1>2. CASE CmdList(Argv(whole, "settings", "list", operands))
  BY <1>2, ListCommandNames
<1>3. ASSUME NEW argv, CmdGet(argv) \/ CmdSet(argv) \/ CmdReset(argv) PROVE listed' = {}
  BY <1>3 DEF CmdGet, CmdSet, CmdReset, Answers, Saves, Says
<1>4. ASSUME NEW argv, NEW command, NEW key, IdentityCommand(argv, command, key)
      PROVE  listed' = {}
  BY <1>4 DEF IdentityCommand, ReadIdentityValue, WriteIdentityValue, Answers, Saves, Says
<1>5. CASE CmdSave \/ CmdLoad
  BY <1>5 DEF CmdSave, CmdLoad, Answers, Says, ListedNames
<1>6. listed' = {} => ListedNames'
  BY DEF ListedNames
<1> QED
  BY <1>1, <1>2, <1>3, <1>4, <1>5, <1>6 DEF CmdBoardSerial, CmdBoardHardwareRevision

(* What `settings list` has told the operator are keys that `settings get`     *)
(* accepts, but for names that are a key's with a slash at the end.           *)
THEOREM OnlySlashesAreNoKeys == Spec => []ListedNames
<1>1. Init => ListedNames
  BY DEF Init, ListedNames
<1>2. ASSUME ListedNames, [Next]_vars PROVE ListedNames'
  <2>1. CASE ShellCommand
    BY <2>1, ShellListedNames
  <2>2. CASE listed' = {} \/ listed' = listed
    BY <1>2, <2>2 DEF ListedNames
  <2>3. ASSUME ~ShellCommand PROVE listed' = {} \/ listed' = listed
    BY <1>2, <2>3 DEF Next, FactoryResetBegin, ResetNextKey, FactoryResetSave, SetNumber,
       Register, WriteCrashRecord, BoardReset, Saves, Says, console, vars
  <2> QED BY <2>1, <2>2, <2>3
<1> QED BY <1>1, <1>2, PTL DEF Spec

--------------------------------------------------------------------------------
(* The factory reset implements Erasure *)

Left == {key \in ResetKeys : flash[key] # Absent}
Told == IF step # 0 THEN "erasing" ELSE IF reply = "complete" THEN "complete" ELSE "open"

(* An abstract step, in terms of what is left and what is told.               *)
AbstractStep ==
  \/ Told # "erasing" /\ Left' \subseteq ResetKeys /\ Told' = "open"
  \/ Told # "erasing" /\ Told' = "erasing" /\ UNCHANGED Left
  \/ Told = "erasing" /\ Left' \subseteq Left /\ UNCHANGED Told
  \/ Told = "erasing" /\ Told' = "open" /\ UNCHANGED Left
  \/ Told = "erasing" /\ Left = {} /\ Told' = "complete" /\ UNCHANGED Left
  \/ UNCHANGED <<Left, Told>>

LEMMA LeftBounded == Left' \subseteq ResetKeys
  BY DEF Left, ResetKeys, kResetKeys

(* A command is a use of the settings, when no factory reset runs.            *)
LEMMA CommandIsUse ==
  ASSUME step = 0, step' = 0, reply' # "complete"
  PROVE  AbstractStep
  BY LeftBounded DEF AbstractStep, Told

LEMMA AbstractOfStep == ASSUME IInv, [Next]_vars PROVE AbstractStep
<1>0. UNCHANGED flash => UNCHANGED Left
  BY DEF Left, ResetKeys, kResetKeys
<1>1. CASE ShellCommand
  <2>1. Outcome /\ step = 0 /\ UNCHANGED step
    BY <1>1, ShellOutcome
  <2> QED BY <2>1, CommandIsUse DEF Outcome, CommandReply
<1>2. CASE FactoryResetBegin
  BY <1>0, <1>2, CommandIsUse DEF FactoryResetBegin, Idle, Says, AbstractStep, Told
<1>3. CASE ResetNextKey
  <2>1. /\ step \in 1..5
        /\ \A key \in Key : key # kResetKeys[step] => flash'[key] = flash[key]
        /\ \/ step' = step + 1 /\ UNCHANGED console /\ flash'[kResetKeys[step]] = Absent
           \/ step' = 0 /\ reply' = "failed" /\ UNCHANGED flash
    BY <1>3, ResetNextKeyOutcome
  <2>2. CASE step' = step + 1 /\ flash'[kResetKeys[step]] = Absent
    <3>1. ASSUME NEW key \in ResetKeys, flash'[key] # Absent PROVE flash[key] # Absent
      BY <2>1, <2>2, <3>1, KeysNamed
    <3>2. Left' \subseteq Left
      BY <3>1 DEF Left, ResetKeys, kResetKeys
    <3>3. step # 0 /\ step' # 0
      BY <2>1, <2>2
    <3> QED BY <3>2, <3>3 DEF AbstractStep, Told
  <2>3. CASE step' = 0 /\ reply' = "failed" /\ UNCHANGED flash
    <3>1. step # 0
      BY <2>1
    <3> QED BY <1>0, <2>3, <3>1 DEF AbstractStep, Told
  <2> QED BY <2>1, <2>2, <2>3
<1>4. CASE FactoryResetSave
  <2>1. step = 6 /\ UNCHANGED flash /\ step' = 0 /\ reply' \in {"complete", "failed"}
    BY <1>4 DEF FactoryResetSave, SaveStep, kResetKeys, Says
  <2>2. \A i \in 1..5 : flash[kResetKeys[i]] = Absent
    BY <2>1 DEF IInv, ErasedSoFar
  <2>3. Left = {}
    BY <2>2 DEF Left, ResetKeys
  <2>4. step # 0
    BY <2>1
  <2> QED BY <1>0, <2>1, <2>3, <2>4 DEF AbstractStep, Told
<1>5. ASSUME NEW key \in Counted, NEW n \in Number, Idle, SetNumber(key, n)
      PROVE  AbstractStep
  <2>1. Outcome /\ UNCHANGED step /\ step = 0
    BY <1>5, SetNumberOutcome DEF Idle
  <2> QED BY <2>1, CommandIsUse DEF Outcome, CommandReply
<1>6. ASSUME NEW key, Register(key) PROVE AbstractStep
  <2>1. UNCHANGED <<flash, step, reply>>
    BY <1>6 DEF Register, console
  <2> QED BY <1>0, <2>1 DEF AbstractStep, Told
<1>7. ASSUME NEW text, WriteCrashRecord(text) PROVE AbstractStep
  <2>1. /\ UNCHANGED <<step, reply>>
        /\ \A key \in ResetKeys : flash'[key] = flash[key]
    BY <1>7, KeysNamed, CrashRecordNotReset DEF WriteCrashRecord, console, IInv, TypeOK
  <2>2. UNCHANGED Left
    BY <2>1 DEF Left, ResetKeys, kResetKeys
  <2> QED BY <2>1, <2>2 DEF AbstractStep, Told
<1>8. CASE BoardReset
  <2>1. UNCHANGED flash /\ step' = 0 /\ reply' = "nothing"
    BY <1>8 DEF BoardReset, Says
  <2> QED BY <1>0, <2>1, CommandIsUse DEF AbstractStep, Told
<1>9. CASE UNCHANGED vars
  BY <1>0, <1>9 DEF vars, console, AbstractStep, Told
<1> QED BY <1>1, <1>2, <1>3, <1>4, <1>5, <1>6, <1>7, <1>8, <1>9 DEF Next

(* The factory reset keeps the promise of Erasure, for all keys and operands: *)
(* a complete one has erased every key it names, and a running one adds none, *)
(* through failures of every step and resets of the board.                    *)
THEOREM FactoryResetRefinement == Spec => KeepsErasurePromise
<1>1. Init => Promise!Init
  BY DEF Init, Promise!Init, ResetKeys, kResetKeys
<1>2. IInv /\ [Next]_vars => [Promise!Next]_<<Left, Told>>
  <2> SUFFICES ASSUME IInv, [Next]_vars PROVE [Promise!Next]_<<Left, Told>>
    OBVIOUS
  <2>1. AbstractStep
    BY AbstractOfStep
  <2> QED BY <2>1 DEF AbstractStep, Left, Told, Promise!Next, Promise!Use, Promise!Begin,
    Promise!Erase, Promise!GiveUp, Promise!Complete
<1> QED BY <1>1, <1>2, Invariance, PTL DEF Spec, KeepsErasurePromise, Promise!Spec, Left, Told

(* Once the shell said that a factory reset is complete, the keys it names are *)
(* gone until an operator uses the settings again, also when other threads     *)
(* write the crash record meanwhile.                                          *)
THEOREM CompleteMeansErased ==
  Spec => [](Idle /\ reply = "complete" => \A key \in ResetKeys : flash[key] = Absent)
<1> DEFINE Gone == Told = "complete" => Left = {}
<1>1. Init => Gone
  BY DEF Init, Told
<1>2. IInv /\ Gone /\ [Next]_vars => Gone'
  BY AbstractOfStep DEF AbstractStep
<1>3. Gone => (Idle /\ reply = "complete" => \A key \in ResetKeys : flash[key] = Absent)
  BY DEF Told, Left, Idle
<1> HIDE DEF Gone
<1> QED BY <1>1, <1>2, <1>3, Invariance, PTL DEF Spec
================================================================================
