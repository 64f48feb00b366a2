---------------------------- MODULE Decimals_proofs ----------------------------
(***************************************************************************)
(* Induction over the naturals, functions defined by recursion, and what   *)
(* place values are: PlaceValue(<<>>) is 0, and a digit more at the end    *)
(* makes it ten times as much and that digit.                              *)
(***************************************************************************)
EXTENDS Decimals, WellFoundedInduction, TLAPS

--------------------------------------------------------------------------------
(* Induction and recursion, about sets and functions *)

LEMMA LeastNumber ==
  ASSUME NEW S, S \subseteq Nat, S # {}
  PROVE  \E n \in S : \A m \in S : n <= m
<1> DEFINE Less == OpToRel(<, Nat)
<1>1. PICK n \in S : \A m \in S : ~(<<m, n>> \in Less)
  <2> HIDE DEF Less
  <2>1. IsWellFoundedOn(Less, Nat)
    BY NatLessThanWellFounded DEF Less
  <2> QED BY <2>1, WFMin
<1>2. ASSUME NEW m \in S PROVE n <= m
  <2>1. ~(<<m, n>> \in Less)
    BY <1>1
  <2> QED BY <2>1 DEF OpToRel
<1> QED BY <1>1, <1>2

(* A set with 0, and with each number below n the next one, has all up to n. *)
LEMMA Upwards ==
  ASSUME NEW n \in Nat, NEW S, 0 \in S,
         \A i \in 0..n : i < n /\ i \in S => i + 1 \in S
  PROVE  \A i \in 0..n : i \in S
<1> DEFINE T == (0..n) \ S
<1> SUFFICES ASSUME T # {} PROVE FALSE
  OBVIOUS
<1>1. PICK k \in T : \A m \in T : k <= m
  <2>1. T \subseteq Nat
    OBVIOUS
  <2> HIDE DEF T
  <2> QED BY <2>1, LeastNumber
<1>2. k # 0 /\ k - 1 \in 0..n /\ k - 1 < n
  BY <1>1
<1>3. k - 1 \in S
  BY <1>1, <1>2
<1>4. (k - 1) + 1 \in S
  BY <1>2, <1>3
<1> QED BY <1>1, <1>4

(* What the first value is in and each step stays in has all values.         *)
LEMMA StaysIn ==
  ASSUME NEW n \in Nat, NEW V, NEW f, f[0] \in V,
         \A i \in 1..n : f[i - 1] \in V => f[i] \in V
  PROVE  \A i \in 0..n : f[i] \in V
<1> DEFINE S == {i \in 0..n : f[i] \in V}
<1>1. 0 \in S
  OBVIOUS
<1>2. \A i \in 0..n : i < n /\ i \in S => i + 1 \in S
  <2>1. ASSUME NEW i \in 0..n, i < n, f[i] \in V PROVE f[i + 1] \in V
    <3>1. i + 1 \in 1..n /\ (i + 1) - 1 = i
      BY <2>1
    <3> QED BY <2>1, <3>1
  <2> QED BY <2>1
<1>3. \A i \in 0..n : i \in S
  <2> HIDE DEF S
  <2> QED BY <1>1, <1>2, Upwards
<1> QED BY <1>3

Follows(f, c, step, n) == f[0] = c /\ \A i \in 1..n : f[i] = step[i][f[i - 1]]

(* Whatever a step makes of the value so far, there is a function on 0..n    *)
(* that starts with c and goes on by this step.                              *)
LEMMA Recursion ==
  ASSUME NEW n \in Nat, NEW V, NEW c \in V, NEW step \in [1..n -> [V -> V]]
  PROVE  \E f \in [0..n -> V] : Follows(f, c, step, n)
<1> DEFINE Good(f, m) == f[0] = c /\ \A i \in 1..m : f[i] = step[i][f[i - 1]]
           S == {m \in 0..n : \E f \in [0..m -> V] : Good(f, m)}
<1>1. 0 \in S
  <2> DEFINE f == [i \in 0..0 |-> c]
  <2>1. f \in [0..0 -> V] /\ Good(f, 0)
    OBVIOUS
  <2> HIDE DEF Good, f
  <2> QED BY <2>1
<1>2. ASSUME NEW m \in 0..n, m < n, m \in S PROVE m + 1 \in S
  <2>1. PICK f \in [0..m -> V] : Good(f, m)
    BY <1>2
  <2> DEFINE g == [i \in 0..(m + 1) |-> IF i = m + 1 THEN step[m + 1][f[m]] ELSE f[i]]
  <2>2. g \in [0..(m + 1) -> V]
    <3>1. f[m] \in V /\ m + 1 \in 1..n
      BY <1>2
    <3>2. step[m + 1][f[m]] \in V
      BY <3>1
    <3> QED BY <3>2
  <2>3. Good(g, m + 1)
    <3>1. g[0] = c
      BY <2>1
    <3>2. ASSUME NEW i \in 1..m PROVE g[i] = step[i][g[i - 1]]
      BY <2>1, <3>2
    <3>3. g[m + 1] = step[m + 1][g[m]]
      OBVIOUS
    <3> HIDE DEF g
    <3> QED BY <3>1, <3>2, <3>3
  <2>4. m + 1 \in 0..n
    BY <1>2
  <2> HIDE DEF Good, g
  <2> QED BY <2>2, <2>3, <2>4
<1>3. \A i \in 0..n : i \in S
  <2> HIDE DEF S
  <2>1. \A i \in 0..n : i < n /\ i \in S => i + 1 \in S
    BY <1>2
  <2> QED BY <1>1, <2>1, Upwards
<1>4. \E f \in [0..n -> V] : Good(f, n)
  BY <1>3
<1> QED BY <1>4 DEF Follows

--------------------------------------------------------------------------------
(* Place values *)

(* The powers of ten are numbers, each ten times the one before.             *)
LEMMA Powers ==
  ASSUME NEW n \in Nat
  PROVE  /\ PowersOf10(n) \in [0..n -> Nat]
         /\ PowersOf10(n)[0] = 1
         /\ \A i \in 1..n : PowersOf10(n)[i] = 10 * PowersOf10(n)[i - 1]
<1> DEFINE Body(f) == [k \in 0..n |-> IF k = 0 THEN 1 ELSE 10 * f[k - 1]]
           step == [i \in 1..n |-> [v \in Nat |-> 10 * v]]
<1>1. step \in [1..n -> [Nat -> Nat]]
  OBVIOUS
<1>2. PICK f \in [0..n -> Nat] : Follows(f, 1, step, n)
  <2> HIDE DEF step
  <2> QED BY <1>1, Recursion
<1>3. f = Body(f)
  <2>1. ASSUME NEW i \in 1..n PROVE f[i] = 10 * f[i - 1]
    <3>1. f[i - 1] \in Nat
      OBVIOUS
    <3> QED BY <1>2, <3>1 DEF Follows
  <2> QED BY <1>2, <2>1 DEF Follows
<1>4. PowersOf10(n) = CHOOSE g : g = Body(g)
  BY DEF PowersOf10
<1>5. PowersOf10(n) = Body(PowersOf10(n))
  BY <1>3, <1>4
<1> DEFINE power == PowersOf10(n)
<1> HIDE DEF power
<1>6. power = [k \in 0..n |-> IF k = 0 THEN 1 ELSE 10 * power[k - 1]]
  BY <1>5 DEF power
<1>7. /\ DOMAIN power = 0..n /\ power = [k \in DOMAIN power |-> power[k]]
      /\ power[0] = 1 /\ \A i \in 1..n : power[i] = 10 * power[i - 1]
  BY <1>6
<1>8. \A i \in 0..n : power[i] \in Nat
  <2>1. power[0] \in Nat /\ \A i \in 1..n : power[i - 1] \in Nat => power[i] \in Nat
    BY <1>7
  <2> QED BY <2>1, StaysIn
<1>9. power \in [0..n -> Nat]
  BY <1>7, <1>8
<1> QED BY <1>7, <1>9 DEF power

(* The powers of ten are the same, however many there are.                   *)
LEMMA PowersAgree ==
  ASSUME NEW n \in Nat
  PROVE  \A k \in 0..n : PowersOf10(n + 1)[k] = PowersOf10(n)[k]
<1> DEFINE difference == [k \in 0..n |-> PowersOf10(n + 1)[k] - PowersOf10(n)[k]]
           Zero == {0}
<1>1. n + 1 \in Nat /\ 0..n \subseteq 0..(n + 1) /\ 1..n \subseteq 1..(n + 1)
  OBVIOUS
<1>2. \A k \in 0..n : PowersOf10(n + 1)[k] \in Nat /\ PowersOf10(n)[k] \in Nat
  BY <1>1, Powers
<1>3. PowersOf10(n + 1)[0] = 1 /\ PowersOf10(n)[0] = 1
  BY <1>1, Powers
<1>4. difference[0] \in Zero
  BY <1>3
<1>5. ASSUME NEW k \in 1..n, difference[k - 1] \in Zero PROVE difference[k] \in Zero
  <2>1. k - 1 \in 0..n /\ k \in 0..n /\ k \in 1..(n + 1)
    OBVIOUS
  <2>2. PowersOf10(n + 1)[k - 1] = PowersOf10(n)[k - 1]
    BY <1>2, <1>5, <2>1
  <2>3. PowersOf10(n + 1)[k] = 10 * PowersOf10(n + 1)[k - 1]
    BY <1>1, <2>1, Powers
  <2>4. PowersOf10(n)[k] = 10 * PowersOf10(n)[k - 1]
    BY Powers
  <2> QED BY <1>2, <2>1, <2>2, <2>3, <2>4
<1>6. \A k \in 0..n : difference[k] \in Zero
  <2> HIDE DEF difference, Zero
  <2>1. \A k \in 1..n : difference[k - 1] \in Zero => difference[k] \in Zero
    BY <1>5
  <2> QED BY <1>4, <2>1, StaysIn
<1> QED BY <1>2, <1>6

LEMMA SumsOf ==
  ASSUME NEW digits \in Seq(0..9)
  PROVE  /\ Sums(digits) \in [0..Len(digits) -> Nat]
         /\ Sums(digits)[0] = 0
         /\ \A i \in 1..Len(digits) :
              Sums(digits)[i] =
                Sums(digits)[i - 1] + digits[i] * PowersOf10(Len(digits))[Len(digits) - i]
<1> DEFINE n == Len(digits)
           worth == [i \in 1..n |-> digits[i] * PowersOf10(n)[n - i]]
           Body(f) == [i \in 0..n |->
                         IF i = 0 THEN 0 ELSE f[i - 1] + digits[i] * PowersOf10(n)[n - i]]
           step == [i \in 1..n |-> [v \in Nat |-> v + worth[i]]]
<1>1. n \in Nat /\ \A i \in 1..n : worth[i] \in Nat
  <2>1. n \in Nat /\ \A i \in 1..n : digits[i] \in 0..9 /\ n - i \in 0..n
    OBVIOUS
  <2>2. \A k \in 0..n : PowersOf10(n)[k] \in Nat
    BY <2>1, Powers
  <2>3. ASSUME NEW i \in 1..n PROVE digits[i] * PowersOf10(n)[n - i] \in Nat
    <3>1. digits[i] \in Nat /\ PowersOf10(n)[n - i] \in Nat
      BY <2>1, <2>2
    <3> QED BY <3>1
  <2> QED BY <2>1, <2>3
<1>2. step \in [1..n -> [Nat -> Nat]]
  <2> HIDE DEF worth, n
  <2> QED BY <1>1
<1>3. PICK f \in [0..n -> Nat] : Follows(f, 0, step, n)
  <2> HIDE DEF step, n
  <2> QED BY <1>1, <1>2, Recursion
<1>4. f = Body(f)
  <2>1. ASSUME NEW i \in 1..n PROVE f[i] = f[i - 1] + digits[i] * PowersOf10(n)[n - i]
    <3>0. i - 1 \in 0..n
      <4> HIDE DEF n
      <4> QED BY <1>1
    <3>1. f[i - 1] \in Nat /\ worth[i] = digits[i] * PowersOf10(n)[n - i]
      <4> HIDE DEF n
      <4> QED BY <3>0
    <3>2. step[i][f[i - 1]] = f[i - 1] + worth[i]
      <4> HIDE DEF worth, n
      <4> QED BY <3>1
    <3> HIDE DEF worth, n, step
    <3> QED BY <1>3, <3>1, <3>2 DEF Follows
  <2>2. f[0] = 0
    BY <1>3 DEF Follows
  <2>3. \A i \in 0..n : f[i] = Body(f)[i]
    <3> HIDE DEF n
    <3> QED BY <1>1, <2>1, <2>2
  <2> HIDE DEF n
  <2> QED BY <2>3
<1>5. Sums(digits) = CHOOSE g : g = Body(g)
  BY DEF Sums
<1> DEFINE sum == Sums(digits)
<1>6. sum = Body(sum)
  <2> HIDE DEF Body
  <2> QED BY <1>4, <1>5
<1> HIDE DEF sum, n
<1>7. /\ DOMAIN sum = 0..n /\ sum = [i \in DOMAIN sum |-> sum[i]]
      /\ sum[0] = 0
      /\ \A i \in 1..n : sum[i] = sum[i - 1] + digits[i] * PowersOf10(n)[n - i]
  <2>1. DOMAIN sum = 0..n /\ sum = [i \in DOMAIN sum |-> sum[i]]
    BY <1>6, Zenon
  <2>2. 0 \in 0..n /\ \A i \in 1..n : i \in 0..n /\ i # 0
    BY <1>1
  <2>3. \A i \in 0..n :
          sum[i] = IF i = 0 THEN 0 ELSE sum[i - 1] + digits[i] * PowersOf10(n)[n - i]
    BY <1>6, Zenon
  <2>4. \A i \in 1..n : sum[i] = sum[i - 1] + digits[i] * PowersOf10(n)[n - i]
    BY <2>2, <2>3, Zenon
  <2>5. sum[0] = 0
    BY <2>2, <2>3, Zenon
  <2> QED BY <2>1, <2>4, <2>5
<1>8. \A i \in 0..n : sum[i] \in Nat
  <2>1. sum[0] \in Nat /\ \A i \in 1..n : sum[i - 1] \in Nat => sum[i] \in Nat
    BY <1>1, <1>7
  <2> QED BY <1>1, <2>1, StaysIn
<1>9. sum \in [0..n -> Nat]
  BY <1>7, <1>8
<1> QED BY <1>7, <1>9 DEF sum, n

LEMMA PlaceValueType ==
  ASSUME NEW digits \in Seq(0..9) PROVE PlaceValue(digits) \in Nat
<1>1. Len(digits) \in 0..Len(digits)
  OBVIOUS
<1> QED BY <1>1, SumsOf DEF PlaceValue

LEMMA PlaceValueEmpty == PlaceValue(<<>>) = 0
<1>1. <<>> \in Seq(0..9) /\ Len(<<>>) = 0
  OBVIOUS
<1> QED BY <1>1, SumsOf DEF PlaceValue

(* One digit more: all before it count ten times as much.                    *)
LEMMA PlaceValueAppend ==
  ASSUME NEW digits \in Seq(0..9), NEW d \in 0..9
  PROVE  PlaceValue(Append(digits, d)) = 10 * PlaceValue(digits) + d
<1> DEFINE n == Len(digits)
           longer == Append(digits, d)
           difference == [i \in 0..n |-> Sums(longer)[i] - 10 * Sums(digits)[i]]
           Zero == {0}
<1>1. /\ n \in Nat /\ longer \in Seq(0..9) /\ Len(longer) = n + 1
      /\ longer[n + 1] = d
      /\ \A i \in 1..n : longer[i] = digits[i] /\ digits[i] \in 0..9
  OBVIOUS
<1> HIDE DEF longer, n
<1>2. /\ \A i \in 0..(n + 1) : Sums(longer)[i] \in Nat
      /\ \A i \in 0..n : Sums(digits)[i] \in Nat
  BY <1>1, SumsOf DEF n
<1>3. difference[0] \in Zero
  <2>1. Sums(longer)[0] = 0 /\ Sums(digits)[0] = 0
    BY <1>1, SumsOf
  <2> QED BY <1>1, <2>1
<1>4. ASSUME NEW i \in 1..n, difference[i - 1] \in Zero PROVE difference[i] \in Zero
  <2>1. /\ i - 1 \in 0..n /\ i \in 0..n /\ i \in 1..(n + 1) /\ i - 1 \in 0..(n + 1)
        /\ n - i \in 0..n /\ n + 1 - i \in 1..(n + 1) /\ (n + 1 - i) - 1 = n - i
    BY <1>1
  <2>2. Sums(longer)[i - 1] = 10 * Sums(digits)[i - 1]
    <3>1. Sums(longer)[i - 1] \in Nat /\ Sums(digits)[i - 1] \in Nat
      BY <1>2, <2>1
    <3> QED BY <1>4, <2>1, <3>1
  <2>3. PowersOf10(n + 1)[n + 1 - i] = 10 * PowersOf10(n)[n - i]
    <3>1. PowersOf10(n + 1)[n + 1 - i] = 10 * PowersOf10(n + 1)[n - i]
      BY <1>1, <2>1, Powers
    <3>2. PowersOf10(n + 1)[n - i] = PowersOf10(n)[n - i]
      BY <1>1, <2>1, PowersAgree
    <3> QED BY <3>1, <3>2
  <2>4. Sums(longer)[i] = Sums(longer)[i - 1] + digits[i] * PowersOf10(n + 1)[n + 1 - i]
    <3>1. \A j \in 1..(n + 1) :
            Sums(longer)[j] = Sums(longer)[j - 1] + longer[j] * PowersOf10(n + 1)[n + 1 - j]
      <4>1. \A j \in 1..Len(longer) :
              Sums(longer)[j] =
                Sums(longer)[j - 1] + longer[j] * PowersOf10(Len(longer))[Len(longer) - j]
        BY <1>1, SumsOf
      <4> QED BY <1>1, <4>1
    <3> QED BY <1>1, <2>1, <3>1
  <2>5. Sums(digits)[i] = Sums(digits)[i - 1] + digits[i] * PowersOf10(n)[n - i]
    BY <1>1, SumsOf DEF n
  <2>6. PowersOf10(n)[n - i] \in Nat
    BY <1>1, <2>1, Powers
  <2>7. ASSUME NEW a \in Nat, NEW p \in Nat, NEW c \in 0..9
        PROVE  10 * a + c * (10 * p) = 10 * (a + c * p)
    OBVIOUS
  <2>8. Sums(longer)[i] = 10 * Sums(digits)[i]
    <3> DEFINE a == Sums(digits)[i - 1]
               p == PowersOf10(n)[n - i]
               c == digits[i]
    <3>1. a \in Nat /\ p \in Nat /\ c \in 0..9
      BY <1>1, <1>2, <2>1, <2>6
    <3>2. Sums(longer)[i] = 10 * a + c * (10 * p)
      BY <2>2, <2>3, <2>4
    <3>3. Sums(digits)[i] = a + c * p
      BY <2>5
    <3> HIDE DEF a, p, c
    <3>4. 10 * a + c * (10 * p) = 10 * (a + c * p)
      BY <2>7, <3>1
    <3> QED BY <3>2, <3>3, <3>4
  <2> QED BY <1>2, <2>1, <2>8
<1>5. \A i \in 0..n : difference[i] \in Zero
  <2> HIDE DEF difference, Zero
  <2>1. \A i \in 1..n : difference[i - 1] \in Zero => difference[i] \in Zero
    BY <1>4
  <2> QED BY <1>1, <1>3, <2>1, StaysIn
<1>6. Sums(longer)[n] = 10 * Sums(digits)[n]
  <2>1. n \in 0..n /\ n \in 0..(n + 1)
    BY <1>1
  <2>2. difference[n] = 0
    BY <1>5, <2>1
  <2>3. Sums(longer)[n] - 10 * Sums(digits)[n] = 0
    BY <2>1, <2>2
  <2>4. Sums(longer)[n] \in Nat /\ Sums(digits)[n] \in Nat
    BY <1>2, <2>1
  <2> QED BY <2>3, <2>4
<1>7. Sums(longer)[n + 1] = Sums(longer)[n] + d
  <2>1. n + 1 \in 1..(n + 1) /\ (n + 1) - 1 = n /\ (n + 1) - (n + 1) = 0
    BY <1>1
  <2>2. Sums(longer)[n + 1] = Sums(longer)[n] + d * PowersOf10(n + 1)[0]
    BY <1>1, <2>1, SumsOf
  <2>3. PowersOf10(n + 1)[0] = 1
    BY <1>1, Powers
  <2> QED BY <2>2, <2>3
<1> QED BY <1>1, <1>6, <1>7 DEF PlaceValue, n, longer

Prefix(s, i) == SubSeq(s, 1, i)

(* Reading on by one digit.                                                  *)
LEMMA PrefixValue ==
  ASSUME NEW digits \in Seq(0..9)
  PROVE  /\ PlaceValue(Prefix(digits, 0)) = 0
         /\ PlaceValue(Prefix(digits, Len(digits))) = PlaceValue(digits)
         /\ \A i \in 0..Len(digits) : PlaceValue(Prefix(digits, i)) \in Nat
         /\ \A i \in 1..Len(digits) :
              PlaceValue(Prefix(digits, i)) = 10 * PlaceValue(Prefix(digits, i - 1)) + digits[i]
<1>1. Prefix(digits, 0) = <<>> /\ Prefix(digits, Len(digits)) = digits
  BY DEF Prefix
<1>2. \A i \in 0..Len(digits) : Prefix(digits, i) \in Seq(0..9)
  BY DEF Prefix
<1>3. ASSUME NEW i \in 1..Len(digits)
      PROVE  PlaceValue(Prefix(digits, i)) = 10 * PlaceValue(Prefix(digits, i - 1)) + digits[i]
  <2>1. Prefix(digits, i) = Append(Prefix(digits, i - 1), digits[i])
    BY DEF Prefix
  <2>2. i - 1 \in 0..Len(digits) /\ digits[i] \in 0..9
    OBVIOUS
  <2> QED BY <1>2, <2>1, <2>2, PlaceValueAppend
<1> QED BY <1>1, <1>2, <1>3, PlaceValueEmpty, PlaceValueType
================================================================================
