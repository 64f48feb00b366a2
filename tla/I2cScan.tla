-------------------------------- MODULE I2cScan --------------------------------
(***************************************************************************)
(* The i2cdetect command: the words of the command line are parsed one     *)
(* after another, the bus is looked up, its addresses are probed one after *)
(* another and the table is printed row by row.                            *)
(*                                                                         *)
(* A word is a record of the option letters in it ("help" for --help and   *)
(* -h, "?" for a letter that is no option) and of the bus it names: the    *)
(* digits of a number, or the bus whose name or device name it is.  A word *)
(* with letters is a flag word; the empty word is none, and names no bus.  *)
(***************************************************************************)
EXTENDS Decimals, FiniteSets

CONSTANTS
  Bus,               \* the enabled buses of kBuses, by index
  Ready,             \* those whose device is ready, which does not change
  Claimed,           \* the addresses of a bus's devices in the devicetree
  Line,              \* the command lines
  AddressCount,      \* kAddressCount and kScanTableAddressLimit, 128
  FirstUsable,       \* kFirstUsableAddress, 0x03
  LastUsable,        \* kLastUsableAddress, 0x77
  RowWidth,          \* kScanTableRowWidth, 16
  CounterSize        \* 2^8, of the loop counters

NoBus == -1
None == [digits |-> <<>>, bus |-> NoBus]
Letter == {"a", "r", "y", "?", "help"}
NamedBus == [digits : Seq(0..9), bus : Int]
Word == {word \in [letters : SUBSET Letter, spec : NamedBus] :
           word.letters = {} \/ word.spec = None}
Address == 0..(AddressCount - 1)
State == {"Skipped", "NoResponse", "Responded", "Claimed", "Error"}
CellText == {"blank", "dashes", "address", "UU", "marks"}
NoResult == [a \in Address |-> "Skipped"]

ASSUME BusAssumption ==
  /\ Bus \subseteq 0..3 /\ Ready \subseteq Bus
  /\ Claimed \in [Bus -> SUBSET Address]
ASSUME LineAssumption == Line \subseteq Seq(Word)
ASSUME TableAssumption ==
  /\ AddressCount \in Nat \ {0} /\ CounterSize \in Nat /\ AddressCount < CounterSize
  /\ RowWidth \in Nat \ {0} /\ AddressCount + RowWidth <= CounterSize
  /\ \E rows \in 1..AddressCount : AddressCount = rows * RowWidth
  /\ FirstUsable \in Nat /\ LastUsable \in Nat

VARIABLES
  phase,      \* what CmdI2cDetect is doing; "idle" between commands
  args,       \* the words that are not yet parsed
  options,    \* the letters that were: the scan options and assume_yes
  spec,       \* bus_spec
  bus,        \* the bus that was opened
  address,    \* the counter of Scan
  result,     \* scan_result
  table,      \* the cells printed so far
  row,        \* the counter of PrintScanTable
  rc,         \* the command's return code
  asked,      \* what the whole command line says
  probed      \* the transfers made on the buses

input == <<args, options, spec>>
history == <<asked, probed>>
vars == <<phase, input, bus, address, result, table, row, rc, history>>

--------------------------------------------------------------------------------
(* What the words of a line say, in whatever order *)

Letters(line) == UNION {line[i].letters : i \in DOMAIN line}
Plain(line) == {i \in DOMAIN line : line[i].letters = {}}
Naming(line) == {i \in DOMAIN line : line[i].spec # None}
Asked(line) ==
  [letters |-> Letters(line),
   specs |-> {line[i].spec : i \in Naming(line)},
   extra |-> \E i \in Naming(line), j \in Plain(line) : i < j]

--------------------------------------------------------------------------------
(* CmdI2cDetect *)

Start(line) ==
  /\ phase = "idle"
  /\ phase' = "parsing"
  /\ args' = line /\ options' = {} /\ spec' = None
  /\ bus' = NoBus /\ address' = 0 /\ result' = NoResult /\ table' = <<>> /\ row' = 0
  /\ rc' = "none"
  /\ asked' = Asked(line) /\ probed' = {}

Return(code) ==
  /\ phase' = "idle" /\ rc' = code
  /\ args' = <<>> /\ options' = {} /\ spec' = None
  /\ UNCHANGED <<bus, address, result, table, row, history>>

\* Mutant: the empty word is taken for no argument.
SecondBus(word) == word.spec # None /\ spec # None

Unexpected(word) == word.letters = {} /\ spec # None

\* The next word: help and what is wrong end the command.  After the bus, every word
\* without a flag is an unexpected extra argument, the empty one included.
ParseArg ==
  /\ phase = "parsing" /\ args # <<>>
  /\ LET word == Head(args)
     IN  \/ "help" \in word.letters /\ Return("0")
         \/ ("?" \in word.letters \/ Unexpected(word)) /\ Return("EINVAL")
         \/ /\ word.letters \cap {"help", "?"} = {} /\ ~Unexpected(word)
            /\ args' = Tail(args)
            /\ options' = options \cup word.letters
            /\ spec' = IF word.letters = {} THEN word.spec ELSE spec
            /\ UNCHANGED <<phase, bus, address, result, table, row, rc, history>>

ParseEnd ==
  /\ phase = "parsing" /\ args = <<>>
  /\ \/ spec = None /\ Return("EINVAL")
     \/ spec # None /\ "y" \notin options /\ Return("EACCES")
     \/ /\ spec # None /\ "y" \in options
        /\ phase' = "opening"
        /\ UNCHANGED <<input, bus, address, result, table, row, rc, history>>

\* Mutant: the value is compared with the limit after the last digit only.
ParseWhole(digits) ==
  LET value[i \in 0..Len(digits)] ==
        IF i = 0 THEN 0 ELSE (value[i - 1] * 10 + digits[i]) % 2^16
  IN  value[Len(digits)]

\* A 16-bit value, given up at the first digit that takes it beyond 255.
ParseIndex(digits) ==
  LET value[i \in 0..Len(digits)] ==
        IF i = 0 THEN 0
        ELSE IF value[i - 1] > 255 THEN value[i - 1]
        ELSE (value[i - 1] * 10 + digits[i]) % 2^16
  IN  value[Len(digits)]

Resolve(named) == IF named.digits # <<>> THEN ParseIndex(named.digits) ELSE named.bus

\* A bus is ready when it is found and still ready when Scan and Probe ask again.
OpenBus ==
  /\ phase = "opening"
  /\ \/ Resolve(spec) \notin Ready /\ Return("ENODEV")
     \/ /\ Resolve(spec) \in Ready
        /\ phase' = "scanning"
        /\ bus' = Resolve(spec)
        /\ UNCHANGED <<input, address, result, table, row, rc, history>>

\* Mutant: every address is checked against the first bus.
I2c0ClaimsAddress(b, a) == a \in Claimed[0]

IsAddressClaimed(b, a) == a \in Claimed[b]

IsReservedAddress(a) == a < FirstUsable \/ a > LastUsable

Skips(a) == "a" \notin options /\ IsReservedAddress(a)

\* A transfer is answered, not answered (-EIO, -ENXIO, -ETIMEDOUT, -EAGAIN) or fails.
Probe(a) ==
  \/ /\ IsAddressClaimed(bus, a)
     /\ result' = [result EXCEPT ![a] = "Claimed"]
     /\ UNCHANGED probed
  \/ /\ ~IsAddressClaimed(bus, a)
     /\ \E state \in {"Responded", "NoResponse", "Error"} :
          result' = [result EXCEPT ![a] = state]
     /\ probed' = probed \cup {<<bus, a, IF "r" \in options THEN "read" ELSE "write">>}

\* Mutant: the bound is taken for the last address.
UpToCount(a) == a <= AddressCount

MoreAddresses(a) == a < AddressCount

\* Mutant: the counter is as wide as an address.
Wrapped(counter) == (counter + 1) % AddressCount

Next8Bit(counter) == (counter + 1) % CounterSize

ScanAddress ==
  /\ phase = "scanning" /\ MoreAddresses(address)
  /\ \/ Skips(address) /\ result' = [result EXCEPT ![address] = "Skipped"] /\ UNCHANGED probed
     \/ ~Skips(address) /\ Probe(address)
  /\ address' = Next8Bit(address)
  /\ UNCHANGED <<phase, input, bus, table, row, rc, asked>>

ScanEnd ==
  /\ phase = "scanning" /\ ~MoreAddresses(address)
  /\ phase' = "printing"
  /\ UNCHANGED <<input, bus, address, result, table, row, rc, history>>

CellForState(state) ==
  CASE state = "Skipped" -> "blank"
    [] state = "NoResponse" -> "dashes"
    [] state = "Responded" -> "address"
    [] state = "Claimed" -> "UU"
    [] state = "Error" -> "marks"

Cell(a) == CellForState(result[a])

\* Mutant: a row is one column short.
ShortRow(first) == [i \in 1..(RowWidth - 1) |-> <<first + i - 1, Cell(first + i - 1)>>]

Row(first) == [i \in 1..RowWidth |-> <<first + i - 1, Cell(first + i - 1)>>]

PrintRow ==
  /\ phase = "printing" /\ row < AddressCount
  /\ table' = table \o Row(row)
  /\ row' = (row + RowWidth) % CounterSize
  /\ UNCHANGED <<phase, input, bus, address, result, rc, history>>

PrintEnd == phase = "printing" /\ ~(row < AddressCount) /\ Return("0")

Init ==
  /\ phase = "idle" /\ args = <<>> /\ options = {} /\ spec = None
  /\ bus = NoBus /\ address = 0 /\ result = NoResult
  /\ table = <<>> /\ row = 0 /\ rc = "none"
  /\ asked = Asked(<<>>) /\ probed = {}

Step ==
  \/ ParseArg
  \/ ParseEnd
  \/ OpenBus
  \/ ScanAddress
  \/ ScanEnd
  \/ PrintRow
  \/ PrintEnd

Next == Step \/ \E line \in Line : Start(line)

\* The shell's thread runs on: every transfer ends, with an error if need be.
Spec == Init /\ [][Next]_vars /\ WF_vars(Step)

--------------------------------------------------------------------------------
(* Properties *)

OnTheBus == phase \in {"scanning", "printing"}

\* Every variable has its type; the counters stay within the arrays they index.
TypeOK ==
  /\ phase \in {"idle", "parsing", "opening", "scanning", "printing"}
  /\ args \in Seq(Word)
  /\ options \subseteq Letter /\ spec \in NamedBus
  /\ bus \in Int /\ address \in 0..AddressCount
  /\ result \in [Address -> State]
  /\ row \in 0..AddressCount
  /\ table \in Seq(Address \X CellText)
  /\ rc \in {"none", "0", "EINVAL", "EACCES", "ENODEV"}

\* No transfer is made unless the line as a whole says -y and names one bus, and has no
\* unknown option, no request for help and nothing extra after the bus, not even an
\* empty word, in whatever order its words come.
ScanNeedsConsent ==
  OnTheBus \/ probed # {} =>
    /\ "y" \in asked.letters /\ asked.letters \cap {"?", "help"} = {}
    /\ Cardinality(asked.specs) = 1 /\ ~asked.extra

\* A device that a driver has claimed is never disturbed, a reserved address only with
\* -a; a byte is read only with -r.
ProbesOnlyFreeAddresses ==
  \A transfer \in probed :
    /\ transfer[1] \in Ready /\ transfer[2] \notin Claimed[transfer[1]]
    /\ IsReservedAddress(transfer[2]) => "a" \in asked.letters
    /\ transfer[3] = IF "r" \in asked.letters THEN "read" ELSE "write"

\* A number opens the bus of that number, whatever its length: none beyond 255 wraps
\* around to one that exists.
OpensNamedBus ==
  OnTheBus =>
    \A named \in asked.specs :
      bus = IF named.digits # <<>> THEN PlaceValue(named.digits) ELSE named.bus

\* The printed table has every address once, in order; it is blank where the address
\* was skipped, UU where it is claimed, and anything else exactly where the bus was
\* probed in this command.
TableTellsTruth ==
  rc = "0" /\ table # <<>> =>
    /\ Len(table) = AddressCount
    /\ \A a \in Address :
         LET cell == table[a + 1][2]
             skipped == IsReservedAddress(a) /\ "a" \notin asked.letters
         IN  /\ table[a + 1][1] = a
             /\ cell = "blank" <=> skipped
             /\ cell = "UU" <=> ~skipped /\ a \in Claimed[bus]
             /\ cell \in {"dashes", "marks", "address"} <=>
                  \E how \in {"read", "write"} : <<bus, a, how>> \in probed

\* How many steps a command may still take: at most one for each word, two for each
\* address and four to go from one part of the command to the next.
WorkLeft ==
  CASE phase = "idle" -> 0
    [] phase = "printing" -> 1 + (AddressCount - row)
    [] phase = "scanning" -> 2 + AddressCount + (AddressCount - address)
    [] phase = "opening" -> 3 + 2 * AddressCount
    [] phase = "parsing" -> 4 + 2 * AddressCount + Len(args)

\* Every step of a command brings its end nearer, whatever was typed and however the
\* bus answers: no counter of Scan or PrintScanTable starts again.
EveryStepCounts == [][Step => WorkLeft' \in Nat /\ WorkLeft' < WorkLeft]_vars

\* A command ends, whatever was typed and however the bus answers: the 8-bit loop
\* counters pass the bounds of their loops.
ScanEnds == phase # "idle" ~> phase = "idle"
================================================================================
