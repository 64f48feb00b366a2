----------------------------- MODULE I2cScan_proofs ----------------------------
(***************************************************************************)
(* The safety properties of I2cScan for every devicetree, command line and *)
(* size of the table, and the bound on the steps of a command.             *)
(***************************************************************************)
EXTENDS I2cScan, Decimals_proofs, SequenceTheorems, FiniteSetTheorems

Specs(line) == {line[i].spec : i \in Naming(line)}
Extra(line) == \E i \in Naming(line), j \in Plain(line) : i < j

(* What the whole line says is what was parsed and what the rest says.        *)
Parsed ==
  phase = "parsing" =>
    /\ options \cap {"help", "?"} = {}
    /\ asked.letters = options \cup Letters(args)
    /\ asked.specs = ({spec} \ {None}) \cup Specs(args)
    /\ asked.extra <=> Extra(args) \/ (spec # None /\ Plain(args) # {})

Consent ==
  /\ "y" \in asked.letters /\ asked.letters \cap {"?", "help"} = {}
  /\ Cardinality(asked.specs) = 1 /\ ~asked.extra

Consented ==
  /\ phase \in {"opening", "scanning", "printing"} => options = asked.letters
  /\ phase \in {"opening", "scanning", "printing"} \/ probed # {} => Consent

(* The bus is the one that the line names, resolved.                         *)
Opened ==
  /\ phase \in {"opening", "scanning", "printing"} => asked.specs = {spec}
  /\ OnTheBus => bus = Resolve(spec)

(* A result that says what was done at the address.                           *)
Truthful(a) ==
  LET skipped == IsReservedAddress(a) /\ "a" \notin asked.letters
  IN  /\ result[a] = "Skipped" <=> skipped
      /\ result[a] = "Claimed" <=> ~skipped /\ a \in Claimed[bus]
      /\ result[a] \in {"NoResponse", "Responded", "Error"} <=>
           \E how \in {"read", "write"} : <<bus, a, how>> \in probed

Scanned ==
  /\ OnTheBus => bus \in Ready
  /\ phase \in {"parsing", "opening"} => address = 0 /\ probed = {}
  /\ phase = "scanning" =>
       \A a \in Address : IF a < address THEN Truthful(a)
                          ELSE \A how \in {"read", "write"} : <<bus, a, how>> \notin probed
  /\ phase = "printing" \/ row > 0 => \A a \in Address : Truthful(a)

Printed ==
  /\ Len(table) = row
  /\ \A i \in 1..row : table[i] = <<i - 1, Cell(i - 1)>>
  /\ \E rows \in 0..AddressCount : row = rows * RowWidth
  /\ phase \in {"parsing", "opening", "scanning"} => row = 0
  /\ phase # "idle" => rc = "none"
  /\ phase = "idle" => row \in {0, AddressCount}

IInv ==
  /\ TypeOK
  /\ Parsed
  /\ Consented
  /\ Opened
  /\ ProbesOnlyFreeAddresses
  /\ Scanned
  /\ Printed

LEMMA ModSmall == ASSUME NEW n \in Nat, NEW m \in Nat, n < m PROVE n % m = n
  OBVIOUS

(* Taking the first word off the rest of a line.                              *)
LEMMA RestOfLine ==
  ASSUME NEW line \in Seq(Word), line # <<>>
  PROVE  /\ Tail(line) \in Seq(Word) /\ Head(line) \in Word
         /\ Letters(line) = Head(line).letters \cup Letters(Tail(line))
         /\ Specs(line) = ({Head(line).spec} \ {None}) \cup Specs(Tail(line))
         /\ Plain(line) # {} <=> Head(line).letters = {} \/ Plain(Tail(line)) # {}
         /\ Extra(line) <=>
              Extra(Tail(line)) \/ (Head(line).spec # None /\ Plain(Tail(line)) # {})
<1>1. /\ Tail(line) \in Seq(Word) /\ Head(line) \in Word /\ Head(line) = line[1]
      /\ Len(Tail(line)) = Len(line) - 1 /\ Len(line) \in Nat \ {0}
      /\ \A i \in 1..Len(Tail(line)) : Tail(line)[i] = line[i + 1]
  OBVIOUS
<1>2. /\ DOMAIN line = 1..Len(line) /\ DOMAIN Tail(line) = 1..Len(Tail(line))
      /\ 1 \in DOMAIN line
      /\ \A i \in DOMAIN line : i = 1 \/ (i - 1 \in DOMAIN Tail(line) /\ line[i] = Tail(line)[i - 1])
      /\ \A i \in DOMAIN Tail(line) : i + 1 \in DOMAIN line /\ line[i + 1] = Tail(line)[i]
  BY <1>1
<1>3. Letters(line) = line[1].letters \cup Letters(Tail(line))
  <2>1. \A letter : letter \in Letters(line) <=>
          \E i \in DOMAIN line : letter \in line[i].letters
    BY DEF Letters
  <2>2. \A letter : letter \in Letters(Tail(line)) <=>
          \E i \in DOMAIN Tail(line) : letter \in Tail(line)[i].letters
    BY DEF Letters
  <2>3. ASSUME NEW letter \in Letters(line)
        PROVE  letter \in line[1].letters \cup Letters(Tail(line))
    <3>1. PICK i \in DOMAIN line : letter \in line[i].letters
      BY <2>1, <2>3
    <3> QED BY <1>2, <2>2, <3>1
  <2>4. ASSUME NEW letter \in line[1].letters \cup Letters(Tail(line))
        PROVE  letter \in Letters(line)
    <3>1. CASE letter \in line[1].letters
      BY <1>2, <2>1, <3>1
    <3>2. CASE letter \in Letters(Tail(line))
      <4>1. PICK i \in DOMAIN Tail(line) : letter \in Tail(line)[i].letters
        BY <2>2, <3>2
      <4> QED BY <1>2, <2>1, <4>1
    <3> QED BY <2>4, <3>1, <3>2
  <2> QED BY <2>3, <2>4
<1>4. /\ \A i \in Naming(line) : i \in DOMAIN line /\ line[i].spec # None
                                 /\ (i = 1 \/ i - 1 \in Naming(Tail(line)))
      /\ \A i \in Naming(Tail(line)) : i + 1 \in Naming(line) /\ i \in 1..Len(Tail(line))
      /\ 1 \in Naming(line) <=> line[1].spec # None
  BY <1>2 DEF Naming
<1>5. Specs(line) = ({line[1].spec} \ {None}) \cup Specs(Tail(line))
  <2>1. ASSUME NEW i \in Naming(line)
        PROVE  line[i].spec \in ({line[1].spec} \ {None}) \cup Specs(Tail(line))
    <3>1. CASE i = 1
      BY <1>4, <2>1, <3>1
    <3>2. CASE i # 1
      BY <1>2, <1>4, <2>1, <3>2 DEF Specs
    <3> QED BY <3>1, <3>2
  <2>2. ASSUME NEW i \in Naming(Tail(line)) PROVE Tail(line)[i].spec \in Specs(line)
    BY <1>2, <1>4, <2>2 DEF Specs, Naming
  <2>3. line[1].spec # None => line[1].spec \in Specs(line)
    BY <1>4 DEF Specs
  <2> QED BY <2>1, <2>2, <2>3 DEF Specs
<1>6. /\ \A i \in Plain(line) : i \in DOMAIN line
                                /\ (i = 1 \/ i - 1 \in Plain(Tail(line)))
      /\ \A i \in Plain(Tail(line)) : i + 1 \in Plain(line) /\ i \in 1..Len(Tail(line))
      /\ 1 \in Plain(line) <=> line[1].letters = {}
  BY <1>2 DEF Plain
<1>7. Plain(line) # {} <=> line[1].letters = {} \/ Plain(Tail(line)) # {}
  BY <1>6
<1>8. Extra(line) <=> Extra(Tail(line)) \/ (line[1].spec # None /\ Plain(Tail(line)) # {})
  <2>1. ASSUME NEW i \in Naming(line), NEW j \in Plain(line), i < j
        PROVE  Extra(Tail(line)) \/ (line[1].spec # None /\ Plain(Tail(line)) # {})
    <3>1. i \in 1..Len(line) /\ j \in 1..Len(line) /\ j # 1 /\ j - 1 \in Plain(Tail(line))
      BY <1>1, <1>2, <1>4, <1>6, <2>1
    <3>2. CASE i # 1
      <4>1. i - 1 \in Naming(Tail(line)) /\ i - 1 < j - 1
        BY <1>4, <2>1, <3>1, <3>2
      <4> QED BY <3>1, <4>1 DEF Extra
    <3>3. CASE i = 1
      BY <1>4, <2>1, <3>1, <3>3
    <3> QED BY <3>2, <3>3
  <2>2. ASSUME NEW i \in Naming(Tail(line)), NEW j \in Plain(Tail(line)), i < j
        PROVE  Extra(line)
    <3>1. i + 1 \in Naming(line) /\ j + 1 \in Plain(line) /\ i + 1 < j + 1
      BY <1>1, <1>4, <1>6, <2>2
    <3> QED BY <3>1 DEF Extra
  <2>3. ASSUME line[1].spec # None, NEW j \in Plain(Tail(line)) PROVE Extra(line)
    <3>1. 1 \in Naming(line) /\ j + 1 \in Plain(line) /\ 1 < j + 1
      BY <1>1, <1>4, <1>6, <2>3
    <3> QED BY <3>1 DEF Extra
  <2> QED BY <2>1, <2>2, <2>3 DEF Extra
<1> QED BY <1>1, <1>3, <1>5, <1>7, <1>8

(* ParseIndex gives up once it is beyond 255: what it returns up to there is  *)
(* the number itself, however many digits there are.                          *)
LEMMA ParseIndexExact ==
  ASSUME NEW digits \in Seq(0..9)
  PROVE  /\ ParseIndex(digits) \in Nat
         /\ ParseIndex(digits) <= 255 <=> PlaceValue(digits) <= 255
         /\ ParseIndex(digits) <= 255 => ParseIndex(digits) = PlaceValue(digits)
<1> DEFINE n == Len(digits)
           next(v, i) == IF v > 255 THEN v ELSE (v * 10 + digits[i]) % 2^16
           Body(f) == [i \in 0..n |->
                         IF i = 0 THEN 0
                         ELSE IF f[i - 1] > 255 THEN f[i - 1]
                         ELSE (f[i - 1] * 10 + digits[i]) % 2^16]
           step == [i \in 1..n |-> [v \in Nat |-> next(v, i)]]
<1>1. /\ n \in Nat
      /\ \A i \in 1..n : /\ digits[i] \in 0..9 /\ digits[i] \in Nat
                       /\ i - 1 \in 0..n /\ i \in 0..n
  OBVIOUS
<1> HIDE DEF n
<1>2. ASSUME NEW i \in 1..n, NEW v \in Nat
      PROVE  next(v, i) \in Nat /\ (v <= 255 => next(v, i) = 10 * v + digits[i])
  <2>1. 2^16 = 65536
    OBVIOUS
  <2>2. v <= 255 => (v * 10 + digits[i]) % 65536 = 10 * v + digits[i]
    <3>1. digits[i] \in Nat /\ digits[i] <= 9 /\ 65536 \in Nat
      BY <1>1
    <3>2. v * 10 + digits[i] = 10 * v + digits[i] /\ 10 * v + digits[i] \in Nat
      BY <3>1
    <3>3. v <= 255 => 10 * v + digits[i] < 65536
      BY <3>1
    <3> QED BY <3>1, <3>2, <3>3, ModSmall
  <2> QED BY <2>1, <2>2, <1>1
<1>3. step \in [1..n -> [Nat -> Nat]]
  <2> HIDE DEF next
  <2> QED BY <1>2
<1>4. PICK f \in [0..n -> Nat] : Follows(f, 0, step, n)
  <2> HIDE DEF step
  <2> QED BY <1>1, <1>3, Recursion
<1>5. \A i \in 1..n : f[i] = next(f[i - 1], i)
  <2>1. ASSUME NEW i \in 1..n PROVE step[i][f[i - 1]] = next(f[i - 1], i)
    <3>1. f[i - 1] \in Nat
      BY <1>1
    <3> HIDE DEF next
    <3> QED BY <3>1
  <2> HIDE DEF step, next
  <2> QED BY <1>4, <2>1 DEF Follows
<1>6. f = Body(f)
  <2>1. f[0] = 0
    BY <1>4 DEF Follows
  <2>2. \A i \in 0..n : f[i] = Body(f)[i]
    BY <1>1, <1>5, <2>1
  <2> QED BY <2>2
<1>7. PICK value : value = Body(value) /\ ParseIndex(digits) = value[n]
  <2> DEFINE value == CHOOSE g : g = Body(g)
  <2>1. ParseIndex(digits) = value[n]
    BY DEF ParseIndex, n
  <2>2. value = Body(value)
    <3> HIDE DEF Body
    <3> QED BY <1>6
  <2> HIDE DEF value, Body
  <2> QED BY <2>1, <2>2
<1>8. value[0] = 0 /\ \A i \in 1..n : value[i] = next(value[i - 1], i)
  <2>1. \A i \in 0..n : value[i] = Body(value)[i]
    BY <1>7, Zenon
  <2>2. 0 \in 0..n /\ \A i \in 1..n : i \in 0..n /\ i # 0
    BY <1>1
  <2>3. value[0] = 0
    BY <2>1, <2>2, Zenon
  <2>4. \A i \in 1..n : value[i] = next(value[i - 1], i)
    BY <2>1, <2>2, Zenon
  <2> QED BY <2>3, <2>4
<1>9. \A i \in 0..n : value[i] \in Nat
  <2>1. \A i \in 1..n : value[i - 1] \in Nat => value[i] \in Nat
    <3> HIDE DEF next
    <3> QED BY <1>2, <1>8
  <2>2. value[0] \in Nat
    BY <1>8
  <2> HIDE DEF next
  <2> QED BY <1>1, <2>1, <2>2, StaysIn
(* Both are the same number up to 255, and beyond together.                   *)
<1> DEFINE exact(i) == IF value[i] <= 255 THEN value[i] = PlaceValue(Prefix(digits, i))
                       ELSE PlaceValue(Prefix(digits, i)) > 255
           isExact == [i \in 0..n |-> IF exact(i) THEN 0 ELSE 1]
           Zero == {0}
<1>10. \A i \in 0..n : PlaceValue(Prefix(digits, i)) \in Nat
  BY PrefixValue DEF n
<1>11. exact(0)
  BY <1>1, <1>8, PrefixValue
<1>12. ASSUME NEW i \in 1..n, exact(i - 1) PROVE exact(i)
  <2>1. PlaceValue(Prefix(digits, i)) = 10 * PlaceValue(Prefix(digits, i - 1)) + digits[i]
    BY PrefixValue DEF n
  <2>2. i - 1 \in 0..n /\ i \in 0..n /\ digits[i] \in Nat
    <3> HIDE DEF exact
    <3> QED BY <1>1
  <2>3. /\ value[i - 1] \in Nat /\ value[i] \in Nat
        /\ PlaceValue(Prefix(digits, i - 1)) \in Nat
    BY <1>9, <1>10, <2>2
  <2>4. value[i - 1] <= 255 => value[i] = 10 * value[i - 1] + digits[i]
    <3>1. value[i] = next(value[i - 1], i)
      BY <1>8
    <3> HIDE DEF next
    <3> QED BY <1>2, <2>3, <3>1
  <2>5. value[i - 1] > 255 => value[i] = value[i - 1]
    BY <1>8, <2>3
  <2> QED BY <1>12, <2>1, <2>2, <2>3, <2>4, <2>5
<1>13. \A i \in 0..n : exact(i)
  <2>1. 0 \in 0..n /\ \A i \in 1..n : i - 1 \in 0..n /\ i \in 0..n
    BY <1>1
  <2> HIDE DEF exact
  <2>2. isExact[0] \in Zero
    BY <1>11, <2>1
  <2>3. \A i \in 1..n : isExact[i - 1] \in Zero => isExact[i] \in Zero
    BY <1>12, <2>1
  <2>4. \A i \in 0..n : isExact[i] \in Zero
    <3> HIDE DEF isExact, Zero
    <3> QED BY <1>1, <2>2, <2>3, StaysIn
  <2> QED BY <2>4
<1>14. n \in 0..n /\ PlaceValue(Prefix(digits, n)) = PlaceValue(digits)
  BY <1>1, PrefixValue DEF n
<1>15. exact(n) /\ value[n] \in Nat /\ PlaceValue(digits) \in Nat
  BY <1>9, <1>13, <1>14, PlaceValueType
<1> QED BY <1>7, <1>14, <1>15

--------------------------------------------------------------------------------
(* The inductive invariant *)

LEMMA NoneIsASpec == None \in NamedBus /\ NoResult \in [Address -> State]
  BY DEF None, NamedBus, NoBus, NoResult, State

LEMMA InvariantInit == Init => IInv
<1> SUFFICES ASSUME Init PROVE IInv
  OBVIOUS
<1>1. TypeOK
  BY NoneIsASpec, TableAssumption DEF Init, TypeOK, NoBus
<1>2. Printed
  BY TableAssumption DEF Init, Printed
<1>3. Parsed /\ Consented /\ Opened /\ ProbesOnlyFreeAddresses /\ Scanned
  BY DEF Init, Parsed, Consented, Opened, ProbesOnlyFreeAddresses, Scanned, OnTheBus
<1> QED BY <1>1, <1>2, <1>3 DEF IInv

LEMMA StartKeeps == ASSUME IInv, NEW line \in Line, Start(line) PROVE IInv'
<1>1. line \in Seq(Word)
  BY LineAssumption
<1>2. TypeOK'
  BY <1>1, NoneIsASpec, TableAssumption DEF Start, TypeOK, NoBus
<1>3. Parsed'
  BY DEF Start, Parsed, Asked, Specs, Extra
<1>4. Printed'
  BY TableAssumption DEF Start, Printed
<1>5. Consented' /\ Opened' /\ ProbesOnlyFreeAddresses' /\ Scanned'
  BY DEF Start, Consented, Opened, ProbesOnlyFreeAddresses, Scanned, OnTheBus
<1> QED BY <1>2, <1>3, <1>4, <1>5 DEF IInv

(* A command that ends leaves its history and its table as they are.          *)
LEMMA ReturnKeeps ==
  ASSUME IInv, NEW code \in {"0", "EINVAL", "EACCES", "ENODEV"}, Return(code),
         row \in {0, AddressCount}
  PROVE  IInv'
<1> USE DEF Return, history
<1>1. TypeOK'
  BY NoneIsASpec DEF IInv, TypeOK
<1>2. Parsed' /\ Consented' /\ Opened' /\ ProbesOnlyFreeAddresses'
  BY DEF IInv, Parsed, Consented, Opened, OnTheBus, Consent, ProbesOnlyFreeAddresses
<1>3. Scanned'
  BY DEF IInv, Scanned, Truthful, OnTheBus
<1>4. Printed'
  BY DEF IInv, Printed, Cell
<1> QED BY <1>1, <1>2, <1>3, <1>4 DEF IInv

(* While the line is parsed, nothing has been done yet.                       *)
LEMMA QuietKeeps ==
  ASSUME IInv, phase \in {"parsing", "opening", "scanning"},
         UNCHANGED <<bus, address, result, table, row, rc, history>>,
         phase' \in {"parsing", "opening"}, phase \in {"parsing", "opening"}
  PROVE  ProbesOnlyFreeAddresses' /\ Scanned' /\ Printed'
  BY DEF IInv, ProbesOnlyFreeAddresses, Scanned, Truthful, OnTheBus, Printed, Cell, history

LEMMA ParseArgKeeps == ASSUME IInv, ParseArg PROVE IInv'
<1> DEFINE word == Head(args)
<1>1. phase = "parsing" /\ args \in Seq(Word) /\ args # <<>> /\ row = 0
  BY DEF ParseArg, IInv, TypeOK, Printed
<1>2. CASE Return("0") \/ Return("EINVAL")
  BY <1>1, <1>2, ReturnKeeps
<1>3. ASSUME word.letters \cap {"help", "?"} = {}, ~Unexpected(word),
             args' = Tail(args),
             options' = options \cup word.letters,
             spec' = IF word.letters = {} THEN word.spec ELSE spec,
             UNCHANGED <<phase, bus, address, result, table, row, rc, history>>
      PROVE  IInv'
  <2>1. /\ Tail(args) \in Seq(Word) /\ word \in Word
        /\ Letters(args) = word.letters \cup Letters(Tail(args))
        /\ Specs(args) = ({word.spec} \ {None}) \cup Specs(Tail(args))
        /\ Plain(args) # {} <=> word.letters = {} \/ Plain(Tail(args)) # {}
        /\ Extra(args) <=>
             Extra(Tail(args)) \/ (word.spec # None /\ Plain(Tail(args)) # {})
    BY <1>1, RestOfLine
  <2>2. /\ word.letters \subseteq Letter /\ word.spec \in NamedBus
        /\ word.letters = {} \/ word.spec = None
        /\ word.letters = {} => spec = None
    BY <1>3, <2>1 DEF Word, Unexpected
  <2>3. TypeOK'
    BY <1>3, <2>1, <2>2 DEF IInv, TypeOK
  <2>4. /\ options \cap {"help", "?"} = {}
        /\ asked.letters = options \cup Letters(args)
        /\ asked.specs = ({spec} \ {None}) \cup Specs(args)
        /\ asked.extra <=> Extra(args) \/ (spec # None /\ Plain(args) # {})
    BY <1>1 DEF IInv, Parsed
  <2>5. Parsed'
    <3>1. options' \cap {"help", "?"} = {} /\ asked'.letters = options' \cup Letters(args')
      BY <1>3, <2>1, <2>2, <2>4 DEF history
    <3>2. asked'.specs = ({spec'} \ {None}) \cup Specs(args')
      BY <1>3, <2>1, <2>2, <2>4 DEF history
    <3>3. asked'.extra <=> Extra(args') \/ (spec' # None /\ Plain(args') # {})
      BY <1>3, <2>1, <2>2, <2>4 DEF history
    <3> QED BY <3>1, <3>2, <3>3 DEF Parsed
  <2>6. ProbesOnlyFreeAddresses' /\ Scanned' /\ Printed'
    BY <1>1, <1>3, QuietKeeps
  <2>7. Consented'
    BY <1>1, <1>3 DEF IInv, Consented, Consent, Scanned, history
  <2>8. Opened'
    BY <1>1, <1>3 DEF Opened, OnTheBus
  <2> QED BY <2>3, <2>5, <2>6, <2>7, <2>8 DEF IInv
<1> QED BY <1>2, <1>3 DEF ParseArg

LEMMA ParseEndKeeps == ASSUME IInv, ParseEnd PROVE IInv'
<1>1. phase = "parsing" /\ args = <<>> /\ row = 0
  BY DEF ParseEnd, IInv, Printed
<1>2. CASE Return("EINVAL") \/ Return("EACCES")
  BY <1>1, <1>2, ReturnKeeps
<1>3. ASSUME spec # None, "y" \in options, phase' = "opening",
             UNCHANGED <<input, bus, address, result, table, row, rc, history>>
      PROVE  IInv'
  <2>1. TypeOK' /\ Parsed'
    BY <1>3 DEF IInv, TypeOK, Parsed, input, history
  <2>2. Letters(args) = {} /\ Naming(args) = {} /\ Plain(args) = {}
    BY <1>1 DEF Letters, Naming, Plain
  <2>3. Specs(args) = {} /\ ~Extra(args)
    BY <2>2 DEF Specs, Extra
  <2>4. /\ asked.letters = options /\ options \cap {"help", "?"} = {}
        /\ asked.specs = {spec} /\ ~asked.extra
    BY <1>1, <1>3, <2>2, <2>3 DEF IInv, Parsed
  <2>5. Consent
    BY <1>3, <2>4, FS_Singleton DEF Consent
  <2>6. Consented'
    BY <1>3, <2>4, <2>5 DEF Consented, Consent, input, history
  <2>7. ProbesOnlyFreeAddresses' /\ Scanned' /\ Printed'
    BY <1>1, <1>3, QuietKeeps
  <2>8. Opened'
    BY <1>3, <2>4 DEF Opened, OnTheBus, input, history
  <2> QED BY <2>1, <2>6, <2>7, <2>8 DEF IInv
<1> QED BY <1>2, <1>3 DEF ParseEnd

LEMMA OpenBusKeeps == ASSUME IInv, OpenBus PROVE IInv'
<1>1. phase = "opening" /\ row = 0 /\ address = 0 /\ probed = {}
  BY DEF OpenBus, IInv, Printed, Scanned
<1>2. CASE Return("ENODEV")
  BY <1>1, <1>2, ReturnKeeps
<1>3. ASSUME Resolve(spec) \in Ready, phase' = "scanning", bus' = Resolve(spec),
             UNCHANGED <<input, address, result, table, row, rc, history>>
      PROVE  IInv'
  <2>1. bus' \in Ready /\ bus' \in Int
    <3>1. Ready \subseteq 0..3
      BY BusAssumption, Zenon
    <3>2. bus' \in Ready
      BY <1>3
    <3> QED BY <3>1, <3>2
  <2>2. TypeOK' /\ Parsed'
    <3>1. TypeOK'
      BY <1>3, <2>1 DEF IInv, TypeOK, input
    <3> QED BY <1>3, <3>1 DEF Parsed
  <2>3. Consented' /\ ProbesOnlyFreeAddresses'
    BY <1>1, <1>3 DEF IInv, Consented, Consent, ProbesOnlyFreeAddresses, input, history
  <2>4. Scanned'
    BY <1>1, <1>3, <2>1 DEF IInv, TypeOK, Scanned, OnTheBus, Address, history
  <2>5. Printed'
    BY <1>1, <1>3 DEF IInv, Printed
  <2>6. Opened'
    BY <1>1, <1>3 DEF IInv, Opened, OnTheBus, Resolve, input, history
  <2> QED BY <2>2, <2>3, <2>4, <2>5, <2>6 DEF IInv
<1> QED BY <1>2, <1>3 DEF OpenBus

(* The address that was looked at has its result and its transfer, and no     *)
(* other has changed.                                                         *)
LEMMA ScannedAddress ==
  ASSUME IInv, ScanAddress, NEW here, here = address
  PROVE  /\ here \in Address /\ result' \in [Address -> State]
         /\ Truthful(here)'
         /\ \A a \in Address : a # here =>
              /\ result'[a] = result[a]
              /\ \A how \in {"read", "write"} :
                   <<bus, a, how>> \in probed' <=> <<bus, a, how>> \in probed
         /\ ProbesOnlyFreeAddresses'
<1> DEFINE method == IF "r" \in options THEN "read" ELSE "write"
<1>1. phase = "scanning" /\ address < AddressCount /\ UNCHANGED <<bus, asked>>
  BY DEF ScanAddress, MoreAddresses
<1>2. /\ address \in Address /\ result \in [Address -> State]
      /\ bus \in Ready /\ options = asked.letters
      /\ \A how \in {"read", "write"} : <<bus, address, how>> \notin probed
  BY <1>1, TableAssumption DEF IInv, TypeOK, Address, Scanned, Consented, OnTheBus
<1>3. CASE Skips(address) /\ result' = [result EXCEPT ![address] = "Skipped"] /\ UNCHANGED probed
  <2>1. result'[address] = "Skipped" /\ IsReservedAddress(address) /\ "a" \notin asked.letters
    BY <1>2, <1>3 DEF Skips
  <2>2. result' \in [Address -> State]
    BY <1>2, <1>3 DEF State
  <2>3. Truthful(here)'
    BY <1>1, <1>2, <1>3, <2>1 DEF Truthful, IsReservedAddress
  <2> QED BY <1>1, <1>2, <1>3, <2>2, <2>3 DEF IInv, ProbesOnlyFreeAddresses
<1>4. CASE /\ ~Skips(address) /\ address \in Claimed[bus]
           /\ result' = [result EXCEPT ![address] = "Claimed"] /\ UNCHANGED probed
  <2>1. result'[address] = "Claimed" /\ ~(IsReservedAddress(address) /\ "a" \notin asked.letters)
    BY <1>2, <1>4 DEF Skips
  <2>2. result' \in [Address -> State]
    BY <1>2, <1>4 DEF State
  <2>3. Truthful(here)'
    BY <1>1, <1>2, <1>4, <2>1 DEF Truthful, IsReservedAddress
  <2> QED BY <1>1, <1>2, <1>4, <2>2, <2>3 DEF IInv, ProbesOnlyFreeAddresses
<1>5. ASSUME ~Skips(address), address \notin Claimed[bus],
             NEW state \in {"Responded", "NoResponse", "Error"},
             result' = [result EXCEPT ![address] = state],
             probed' = probed \cup {<<bus, address, method>>}
      PROVE  /\ result' \in [Address -> State] /\ Truthful(here)'
             /\ \A a \in Address : a # here =>
                  /\ result'[a] = result[a]
                  /\ \A how \in {"read", "write"} :
                       <<bus, a, how>> \in probed' <=> <<bus, a, how>> \in probed
             /\ ProbesOnlyFreeAddresses'
  <2>1. /\ result'[address] = state /\ method \in {"read", "write"}
        /\ ~(IsReservedAddress(address) /\ "a" \notin asked.letters)
    BY <1>2, <1>5 DEF Skips
  <2>2. result' \in [Address -> State]
    BY <1>2, <1>5 DEF State
  <2>3. <<bus, address, method>> \in probed'
    BY <1>5
  <2>4. Truthful(here)'
    BY <1>1, <1>2, <1>5, <2>1, <2>3 DEF Truthful, IsReservedAddress
  <2>5. ASSUME NEW transfer \in probed'
        PROVE  /\ transfer[1] \in Ready /\ transfer[2] \notin Claimed[transfer[1]]
               /\ IsReservedAddress(transfer[2]) => "a" \in asked.letters
               /\ transfer[3] = IF "r" \in asked.letters THEN "read" ELSE "write"
    <3>1. CASE transfer \in probed
      BY <3>1 DEF IInv, ProbesOnlyFreeAddresses
    <3>2. CASE transfer = <<bus, address, method>>
      BY <1>2, <1>5, <2>1, <3>2
    <3> QED BY <1>5, <2>5, <3>1, <3>2
  <2>6. ProbesOnlyFreeAddresses'
    BY <1>1, <2>5 DEF ProbesOnlyFreeAddresses, IsReservedAddress
  <2>7. \A a \in Address : a # here =>
                  /\ result'[a] = result[a]
                  /\ \A how \in {"read", "write"} :
                       <<bus, a, how>> \in probed' <=> <<bus, a, how>> \in probed
    BY <1>2, <1>5
  <2> QED BY <2>2, <2>4, <2>6, <2>7
<1> QED BY <1>1, <1>2, <1>3, <1>4, <1>5 DEF ScanAddress, Probe, IsAddressClaimed

LEMMA ScanAddressKeeps == ASSUME IInv, ScanAddress PROVE IInv'
<1>1. /\ phase = "scanning" /\ address \in Address /\ address < AddressCount
      /\ UNCHANGED <<phase, input, bus, table, row, rc, asked>>
      /\ address' = Next8Bit(address)
  BY TableAssumption DEF ScanAddress, MoreAddresses, IInv, TypeOK, Address
<1>2. address' = address + 1 /\ address + 1 \in 0..AddressCount
  <2>1. address + 1 \in Nat /\ address + 1 < CounterSize
    BY <1>1, TableAssumption DEF Address
  <2>2. (address + 1) % CounterSize = address + 1
    BY <2>1, ModSmall, TableAssumption
  <2> QED BY <1>1, <2>2, TableAssumption DEF Next8Bit, Address
<1>3. /\ result' \in [Address -> State] /\ ProbesOnlyFreeAddresses'
      /\ \A a \in Address : a = address => Truthful(a)'
      /\ \A a \in Address : a # address =>
           /\ result'[a] = result[a]
           /\ \A how \in {"read", "write"} :
                <<bus, a, how>> \in probed' <=> <<bus, a, how>> \in probed
  BY ScannedAddress
<1>4. TypeOK'
  BY <1>1, <1>2, <1>3 DEF IInv, TypeOK, input
<1>5. Parsed' /\ Consented' /\ Opened'
  BY <1>1 DEF IInv, Parsed, Consented, Consent, Opened, OnTheBus, Resolve, input
<1>6. Scanned'
  <2>1. ASSUME NEW a \in Address, a < address PROVE Truthful(a)'
    <3>1. Truthful(a)
      BY <1>1, <2>1 DEF IInv, Scanned
    <3>2. a # address
      BY <1>1, <2>1 DEF Address
    <3> QED BY <1>1, <1>3, <2>1, <3>1, <3>2 DEF Truthful, IsReservedAddress
  <2>2. ASSUME NEW a \in Address, ~(a < address), a # address, NEW how \in {"read", "write"}
        PROVE  <<bus', a, how>> \notin probed'
    BY <1>1, <1>3, <2>2 DEF IInv, Scanned
  <2>3. ASSUME NEW a \in Address
        PROVE  IF a < address' THEN Truthful(a)'
               ELSE \A how \in {"read", "write"} : <<bus', a, how>> \notin probed'
    <3>1. CASE a < address
      <4>1. a < address'
        BY <1>1, <1>2, <3>1 DEF Address
      <4> QED BY <2>1, <3>1, <4>1
    <3>2. CASE a = address
      <4>1. a < address'
        BY <1>1, <1>2, <3>2 DEF Address
      <4> QED BY <1>3, <3>2, <4>1
    <3>3. CASE ~(a < address) /\ a # address
      <4>1. ~(a < address')
        BY <1>1, <1>2, <3>3 DEF Address
      <4> QED BY <2>2, <3>3, <4>1
    <3> QED BY <3>1, <3>2, <3>3
  <2>4. row' = 0
    BY <1>1 DEF IInv, Printed
  <2> QED BY <1>1, <2>3, <2>4 DEF IInv, Scanned, OnTheBus
<1>7. Printed'
  BY <1>1 DEF IInv, Printed
<1> QED BY <1>3, <1>4, <1>5, <1>6, <1>7 DEF IInv

LEMMA ScanEndKeeps == ASSUME IInv, ScanEnd PROVE IInv'
<1>1. /\ phase = "scanning" /\ phase' = "printing" /\ address = AddressCount
      /\ UNCHANGED <<input, bus, address, result, table, row, rc, history>>
  BY TableAssumption DEF ScanEnd, MoreAddresses, IInv, TypeOK
<1>2. ASSUME NEW a \in Address PROVE Truthful(a)
  <2>1. a < address
    BY <1>1, <1>2, TableAssumption DEF Address
  <2> QED BY <1>1, <1>2, <2>1 DEF IInv, Scanned
<1>3. TypeOK'
  BY <1>1 DEF IInv, TypeOK, input
<1>4. Parsed' /\ Consented' /\ Opened' /\ ProbesOnlyFreeAddresses'
  BY <1>1 DEF IInv, Parsed, Consented, Consent, Opened, OnTheBus, Resolve,
              ProbesOnlyFreeAddresses, input, history
<1>5. Scanned'
  BY <1>1, <1>2 DEF IInv, Scanned, Truthful, OnTheBus, history
<1>6. Printed'
  BY <1>1 DEF IInv, Printed, Cell
<1> QED BY <1>3, <1>4, <1>5, <1>6 DEF IInv

(* Each state has a cell of its own.                                          *)
LEMMA CellOf ==
  /\ CellForState("Skipped") = "blank"
  /\ CellForState("NoResponse") = "dashes"
  /\ CellForState("Responded") = "address"
  /\ CellForState("Claimed") = "UU"
  /\ CellForState("Error") = "marks"
<1>1. CellForState("Skipped") = "blank"
  BY DEF CellForState
<1>2. CellForState("NoResponse") = "dashes"
  BY DEF CellForState
<1>3. CellForState("Responded") = "address"
  BY DEF CellForState
<1>4. CellForState("Claimed") = "UU"
  BY DEF CellForState
<1>5. CellForState("Error") = "marks"
  BY DEF CellForState
<1> QED BY <1>1, <1>2, <1>3, <1>4, <1>5

(* The rows fill the table exactly.                                           *)
LEMMA RowFits ==
  ASSUME NEW rows \in 0..AddressCount, rows * RowWidth < AddressCount
  PROVE  /\ (rows + 1) * RowWidth = rows * RowWidth + RowWidth
         /\ rows * RowWidth + RowWidth <= AddressCount /\ rows + 1 <= AddressCount
<1>1. PICK all \in 1..AddressCount : AddressCount = all * RowWidth
  BY TableAssumption
<1>2. RowWidth \in Nat \ {0} /\ AddressCount \in Nat
  BY TableAssumption
<1>3. (rows + 1) * RowWidth = rows * RowWidth + RowWidth
  BY <1>2
<1>4. rows < all
  <2> SUFFICES ASSUME all <= rows PROVE FALSE
    BY <1>1
  <2>1. all * RowWidth <= rows * RowWidth
    BY <1>1, <1>2
  <2>2. all * RowWidth \in Nat /\ rows * RowWidth \in Nat
    BY <1>1, <1>2
  <2> QED BY <1>1, <2>1, <2>2
<1>5. (rows + 1) * RowWidth <= all * RowWidth
  BY <1>1, <1>2, <1>4
<1> QED BY <1>1, <1>2, <1>3, <1>4, <1>5

LEMMA PrintRowKeeps == ASSUME IInv, PrintRow PROVE IInv'
<1>1. /\ phase = "printing" /\ row < AddressCount
      /\ table' = table \o Row(row) /\ row' = (row + RowWidth) % CounterSize
      /\ UNCHANGED <<phase, input, bus, address, result, rc, history>>
  BY DEF PrintRow
<1>2. PICK rows \in 0..AddressCount : row = rows * RowWidth
  BY DEF IInv, Printed
<1>3. /\ row + RowWidth = (rows + 1) * RowWidth /\ rows + 1 \in 0..AddressCount
      /\ row + RowWidth <= AddressCount
  BY <1>1, <1>2, RowFits, TableAssumption
<1>4. row' = row + RowWidth /\ row' \in 0..AddressCount /\ row \in Nat
  <2>1. row \in Nat /\ row + RowWidth \in Nat /\ row + RowWidth < CounterSize
    BY <1>3, TableAssumption DEF IInv, TypeOK
  <2>2. (row + RowWidth) % CounterSize = row + RowWidth
    BY <2>1, ModSmall, TableAssumption
  <2> QED BY <1>1, <1>3, <2>1, <2>2, TableAssumption
<1>5. Row(row) \in Seq(Address \X CellText) /\ Len(Row(row)) = RowWidth
      /\ \A i \in 1..RowWidth : Row(row)[i] = <<row + i - 1, Cell(row + i - 1)>>
  <2>1. ASSUME NEW i \in 1..RowWidth PROVE row + i - 1 \in Address
    BY <1>3, <1>4, <2>1, TableAssumption DEF Address
  <2>2. \A a \in Address : Cell(a) \in CellText
    BY CellOf DEF Cell, IInv, TypeOK, CellText, State
  <2>3. \A i \in 1..RowWidth : <<row + i - 1, Cell(row + i - 1)>> \in Address \X CellText
    BY <2>1, <2>2
  <2> QED BY <2>3, TableAssumption DEF Row
<1>6. /\ table' \in Seq(Address \X CellText) /\ Len(table') = row'
      /\ \A i \in 1..row' : table'[i] = <<i - 1, Cell(i - 1)>>
  <2>1. table \in Seq(Address \X CellText) /\ Len(table) = row
        /\ \A i \in 1..row : table[i] = <<i - 1, Cell(i - 1)>>
    BY DEF IInv, TypeOK, Printed
  <2>2. /\ table' \in Seq(Address \X CellText) /\ Len(table') = row + RowWidth
        /\ \A i \in 1..row + RowWidth :
             table'[i] = IF i <= row THEN table[i] ELSE Row(row)[i - row]
    <3>1. /\ table \o Row(row) \in Seq(Address \X CellText)
          /\ Len(table \o Row(row)) = Len(table) + Len(Row(row))
          /\ \A i \in 1..Len(table) + Len(Row(row)) :
               (table \o Row(row))[i] =
                 IF i <= Len(table) THEN table[i] ELSE Row(row)[i - Len(table)]
      BY <1>5, <2>1, ConcatProperties, Zenon
    <3> QED BY <1>1, <1>5, <2>1, <3>1
  <2>3. ASSUME NEW i \in 1..row' PROVE table'[i] = <<i - 1, Cell(i - 1)>>
    <3>1. CASE i <= row
      BY <1>4, <2>1, <2>2, <2>3, <3>1
    <3>2. CASE ~(i <= row)
      <4>1. i - row \in 1..RowWidth /\ row + (i - row) - 1 = i - 1
        BY <1>4, <2>3, <3>2, TableAssumption
      <4> QED BY <1>4, <1>5, <2>2, <2>3, <3>2, <4>1
    <3> QED BY <3>1, <3>2
  <2> QED BY <1>4, <2>2, <2>3
<1>7. TypeOK'
  BY <1>1, <1>4, <1>6 DEF IInv, TypeOK, input
<1>8. Parsed' /\ Consented' /\ Opened' /\ ProbesOnlyFreeAddresses'
  BY <1>1 DEF IInv, Parsed, Consented, Consent, Opened, OnTheBus, Resolve,
              ProbesOnlyFreeAddresses, input, history
<1>9. Scanned'
  BY <1>1 DEF IInv, Scanned, Truthful, OnTheBus, history
<1>10. Printed'
  BY <1>1, <1>3, <1>4, <1>6 DEF IInv, Printed, Cell
<1> QED BY <1>7, <1>8, <1>9, <1>10 DEF IInv

LEMMA PrintEndKeeps == ASSUME IInv, PrintEnd PROVE IInv'
<1>1. row = AddressCount /\ Return("0")
  BY TableAssumption DEF PrintEnd, IInv, TypeOK
<1> QED BY <1>1, ReturnKeeps

LEMMA InvariantStep == IInv /\ [Next]_vars => IInv'
<1> SUFFICES ASSUME IInv, [Next]_vars PROVE IInv'
  OBVIOUS
<1>1. CASE ParseArg
  BY <1>1, ParseArgKeeps
<1>2. CASE ParseEnd
  BY <1>2, ParseEndKeeps
<1>3. CASE OpenBus
  BY <1>3, OpenBusKeeps
<1>4. CASE ScanAddress
  BY <1>4, ScanAddressKeeps
<1>5. CASE ScanEnd
  BY <1>5, ScanEndKeeps
<1>6. CASE PrintRow
  BY <1>6, PrintRowKeeps
<1>7. CASE PrintEnd
  BY <1>7, PrintEndKeeps
<1>8. ASSUME NEW line \in Line, Start(line) PROVE IInv'
  BY <1>8, StartKeeps
<1>9. CASE UNCHANGED vars
  <2>1. TypeOK' /\ Parsed'
    BY <1>9 DEF vars, input, history, IInv, TypeOK, Parsed
  <2>2. Consented' /\ Opened' /\ ProbesOnlyFreeAddresses'
    BY <1>9 DEF vars, input, history, IInv, Consented, Consent, Opened, OnTheBus, Resolve,
                ProbesOnlyFreeAddresses
  <2>3. Scanned'
    BY <1>9 DEF vars, input, history, IInv, Scanned, Truthful, OnTheBus
  <2>4. Printed'
    BY <1>9 DEF vars, history, IInv, Printed, Cell
  <2> QED BY <2>1, <2>2, <2>3, <2>4 DEF IInv
<1> QED BY <1>1, <1>2, <1>3, <1>4, <1>5, <1>6, <1>7, <1>8, <1>9 DEF Next, Step

LEMMA Invariance == Spec => []IInv
<1>1. Init => IInv
  BY InvariantInit
<1>2. IInv /\ [Next]_vars => IInv'
  BY InvariantStep
<1> QED BY <1>1, <1>2, PTL DEF Spec

--------------------------------------------------------------------------------
(* The theorems *)

(* Every variable has its type, and the 8-bit counters of the two loops stay  *)
(* within the arrays they index.                                              *)
THEOREM TypeCorrect == Spec => []TypeOK
<1>1. IInv => TypeOK
  BY DEF IInv
<1> QED BY <1>1, Invariance, PTL

(* No bus is opened or probed unless the whole line says -y and names one     *)
(* bus, and has nothing unknown, no help and no further word after the bus,   *)
(* not even an empty one, in whatever order ParseArgs meets its words.        *)
THEOREM ConsentGiven == Spec => []ScanNeedsConsent
<1>1. IInv => ScanNeedsConsent
  BY DEF IInv, Consented, Consent, ScanNeedsConsent, OnTheBus
<1> QED BY <1>1, Invariance, PTL

(* Resolve opens the bus of the number that was typed, or of the name: a      *)
(* number of any length beyond the buses opens none.                          *)
THEOREM NamedBusOpened == Spec => []OpensNamedBus
<1>1. ASSUME IInv, OnTheBus, NEW named \in asked.specs
      PROVE  bus = IF named.digits # <<>> THEN PlaceValue(named.digits) ELSE named.bus
  <2>1. named = spec /\ bus = Resolve(spec) /\ spec \in NamedBus /\ bus \in Ready
    BY <1>1 DEF IInv, TypeOK, Opened, OnTheBus, Scanned
  <2>2. bus \in 0..3
    BY <2>1, BusAssumption
  <2>3. CASE spec.digits # <<>>
    <3>1. spec.digits \in Seq(0..9)
      BY <2>1 DEF NamedBus
    <3>2. bus = ParseIndex(spec.digits) /\ bus <= 255
      BY <2>1, <2>2, <2>3 DEF Resolve
    <3> QED BY <2>1, <2>3, <3>1, <3>2, ParseIndexExact
  <2>4. CASE spec.digits = <<>>
    BY <2>1, <2>4 DEF Resolve
  <2> QED BY <2>3, <2>4
<1>2. IInv => OpensNamedBus
  BY <1>1 DEF OpensNamedBus
<1> QED BY <1>2, Invariance, PTL

(* Every step of CmdI2cDetect brings its end nearer, so that a line of n words *)
(* takes at most 4 + 2 * AddressCount + n steps.                              *)
THEOREM StepsAreBounded == Spec => EveryStepCounts
<1>1. ASSUME IInv, IInv', Step PROVE WorkLeft' \in Nat /\ WorkLeft' < WorkLeft
  <2>1. /\ address \in 0..AddressCount /\ row \in 0..AddressCount
        /\ address' \in 0..AddressCount /\ row' \in 0..AddressCount
        /\ Len(args) \in Nat /\ AddressCount \in Nat \ {0} /\ RowWidth \in Nat \ {0}
    BY <1>1, TableAssumption DEF IInv, TypeOK
  <2>2. ASSUME phase # "idle", phase' = "idle"
        PROVE  WorkLeft' \in Nat /\ WorkLeft' < WorkLeft
    <3>1. phase \in {"parsing", "opening", "scanning", "printing"}
      BY <1>1, <2>2 DEF IInv, TypeOK
    <3> QED BY <2>1, <2>2, <3>1 DEF WorkLeft
  <2>3. CASE ParseArg
    <3>1. ASSUME phase' = "parsing", args' = Tail(args), args # <<>>
          PROVE  WorkLeft' \in Nat /\ WorkLeft' < WorkLeft
      <4>1. Len(args') = Len(args) - 1 /\ Len(args') \in Nat
        BY <1>1, <3>1 DEF IInv, TypeOK
      <4> QED BY <2>1, <2>3, <3>1, <4>1 DEF WorkLeft, ParseArg
    <3> QED BY <2>2, <2>3, <3>1 DEF ParseArg, Return
  <2>4. CASE ParseEnd
    BY <2>1, <2>2, <2>4 DEF ParseEnd, Return, WorkLeft
  <2>5. CASE OpenBus
    <3>1. phase' = "scanning" => address' = 0
      BY <1>1, <2>5 DEF IInv, Scanned, OpenBus, Return
    <3> QED BY <2>1, <2>2, <2>5, <3>1 DEF OpenBus, Return, WorkLeft
  <2>6. CASE ScanAddress
    <3>1. address' = address + 1
      <4>1. address < AddressCount /\ address' = (address + 1) % CounterSize
        BY <2>6 DEF ScanAddress, MoreAddresses, Next8Bit
      <4>2. address + 1 \in Nat /\ address + 1 < CounterSize /\ CounterSize \in Nat
        BY <2>1, <4>1, TableAssumption
      <4> QED BY <4>1, <4>2, ModSmall
    <3> QED BY <2>1, <2>6, <3>1 DEF ScanAddress, WorkLeft
  <2>7. CASE ScanEnd
    <3>1. row = 0 /\ UNCHANGED row
      BY <1>1, <2>7 DEF IInv, Printed, ScanEnd
    <3> QED BY <2>1, <2>7, <3>1 DEF ScanEnd, WorkLeft
  <2>8. CASE PrintRow
    <3>1. row < AddressCount /\ row' = (row + RowWidth) % CounterSize
      BY <2>8 DEF PrintRow
    <3>2. row + RowWidth < CounterSize /\ row + RowWidth \in Nat /\ CounterSize \in Nat
      BY <2>1, <3>1, TableAssumption
    <3>3. row' = row + RowWidth
      BY <3>1, <3>2, ModSmall
    <3> QED BY <2>1, <2>8, <3>3 DEF PrintRow, WorkLeft
  <2>9. CASE PrintEnd
    BY <2>2, <2>9 DEF PrintEnd, Return
  <2> QED BY <1>1, <2>3, <2>4, <2>5, <2>6, <2>7, <2>8, <2>9 DEF Step
<1>2. IInv /\ IInv' /\ [Next]_vars => [Step => WorkLeft' \in Nat /\ WorkLeft' < WorkLeft]_vars
  BY <1>1
<1> QED BY <1>2, Invariance, PTL DEF Spec, EveryStepCounts

(* Scan disturbs no claimed device, no reserved address without -a, and reads *)
(* only with -r.                                                              *)
THEOREM ProbesAreFree == Spec => []ProbesOnlyFreeAddresses
<1>1. IInv => ProbesOnlyFreeAddresses
  BY DEF IInv
<1> QED BY <1>1, Invariance, PTL

(* The table PrintScanTable prints says what Scan did, address by address.    *)
THEOREM TableIsTrue == Spec => []TableTellsTruth
<1>1. ASSUME IInv, rc = "0", table # <<>> PROVE TableTellsTruth
  <2>1. /\ row > 0 /\ Len(table) = row /\ row \in 0..AddressCount
        /\ \A a \in Address : Truthful(a)
    BY <1>1 DEF IInv, TypeOK, Printed, Scanned
  <2>2. row = AddressCount
    BY <1>1, <2>1 DEF IInv, Printed
  <2>3. ASSUME NEW a \in Address
        PROVE  table[a + 1] = <<a, Cell(a)>>
    BY <1>1, <2>2, <2>3, TableAssumption DEF IInv, Printed, Address
  <2>4. ASSUME NEW a \in Address
        PROVE  /\ Cell(a) = "blank" <=> result[a] = "Skipped"
               /\ Cell(a) = "UU" <=> result[a] = "Claimed"
               /\ Cell(a) \in {"dashes", "marks", "address"} <=>
                    result[a] \in {"NoResponse", "Responded", "Error"}
    BY <1>1, <2>4, CellOf DEF IInv, TypeOK, Cell, State
  <2>5. ASSUME NEW a \in Address
        PROVE  LET cell == table[a + 1][2]
                   skipped == IsReservedAddress(a) /\ "a" \notin asked.letters
               IN  /\ table[a + 1][1] = a
                   /\ cell = "blank" <=> skipped
                   /\ cell = "UU" <=> ~skipped /\ a \in Claimed[bus]
                   /\ cell \in {"dashes", "marks", "address"} <=>
                        \E how \in {"read", "write"} : <<bus, a, how>> \in probed
    <3>1. Truthful(a)
      BY <2>1, <2>5
    <3>2. table[a + 1][1] = a /\ table[a + 1][2] = Cell(a)
      BY <2>3, <2>5
    <3> QED BY <2>4, <2>5, <3>1, <3>2 DEF Truthful
  <2> QED BY <2>1, <2>2, <2>5 DEF TableTellsTruth
<1>2. IInv => TableTellsTruth
  BY <1>1 DEF TableTellsTruth
<1> QED BY <1>2, Invariance, PTL
================================================================================
