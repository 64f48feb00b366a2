-------------------------------- MODULE Settings -------------------------------
(***************************************************************************)
(* The settings partition, the commands of the serial shell that read and  *)
(* write it (settings, board serial, board hw-rev), the registry, and the  *)
(* factory reset.  Each call of the settings subsystem is one step; it may *)
(* fail, and the board may be reset between any two.                       *)
(*                                                                         *)
(* A key is the sequence of its segments: "board/serial" is                *)
(* <<"board", "serial">>, and "board/serial/" ends in the segment "".  A   *)
(* text is a sequence of characters.  The NVS back end deletes an item     *)
(* when an empty text is written: the empty text stands for no item.       *)
(***************************************************************************)
EXTENDS SettingText, FiniteSets

CONSTANTS
  Key,                \* the valid keys in use
  Segment,            \* what keys are made of, the empty segment included
  BadSegment,         \* segments with a character that no key may have
  LongKey,            \* keys longer than kSettingsMaxKeyLength
  kMaxKeyDepth,       \* segments of a key
  MaxValueLength,     \* kSettingsMaxValueLength
  Char,               \* the characters of texts
  Typed,              \* the operands an operator may type
  CrashTexts,         \* what other threads may write to the crash record
  Counted, Number,    \* the keys that firmware stores numbers under, and which
  Described,          \* the keys that firmware registers
  Errno,              \* the subsystem's error numbers
  kRegistryCapacity

Absent == <<>>
Serial == <<"board", "serial">>
HwRev == <<"board", "hw-rev">>
CrashRecord == <<"fw", "diagnostics", "crash-record">>
Identity == {Serial, HwRev}
Namespace == {"fw", "board", "user", "network", "display"}

\* Mutant: the identity is among the keys.
ResetKeysAndIdentity ==
  <<Serial, <<"user", "profile">>, <<"network", "ssid">>, <<"network", "psk">>,
    <<"display", "contrast">>>>

kResetKeys ==
  <<<<"fw", "factory-reset-pending">>, <<"user", "profile">>, <<"network", "ssid">>,
    <<"network", "psk">>, <<"display", "contrast">>>>

ResetKeys == {kResetKeys[i] : i \in 1..5}

IsNamespaceRoot(subtree) == Len(subtree) = 1 /\ subtree[1] \in Namespace

IsAllowedNamespace(key) == Len(key) > 1 /\ key[1] \in Namespace

IsValidKey(key) ==
  /\ IsAllowedNamespace(key)
  /\ Len(key) <= kMaxKeyDepth /\ key \notin LongKey
  /\ \A i \in DOMAIN key : key[i] # "" /\ key[i] \notin BadSegment

\* The keys in use are valid, among them those that the code names, and what an
\* operator types is not another valid one; 8 segments, 72 and 256 characters in
\* the code.
ASSUME KeyAssumption ==
  /\ Key \subseteq Seq(Segment) /\ \A key \in Key : IsValidKey(key)
  /\ ResetKeys \cup Identity \cup {CrashRecord} \subseteq Key
  /\ Typed \subseteq Seq(Seq(Segment \cup Char))
  /\ \A words \in Typed : words # <<>> /\ IsValidKey(words[1]) => words[1] \in Key
ASSUME TextAssumption ==
  /\ CrashTexts \subseteq Seq(Char) /\ Digit \cup {"-"} \subseteq Char
  /\ MaxValueLength \in Nat /\ Number \subseteq Int
  /\ Counted \subseteq Key /\ Described \subseteq Key /\ "0" \notin Errno
  /\ \A words \in Typed : Len(words) > 1 => words[2] \in Seq(Char)
ASSUME CapacityAssumption == kRegistryCapacity \in Nat

VARIABLES
  flash,      \* the settings partition
  registry,   \* g_registry
  step,       \* the key a running factory reset is at; 0 when none runs
  reply,      \* what the shell said last
  typed,      \* the key and the text of the item that it saved or read
  listed      \* the keys it listed

console == <<reply, typed, listed>>
vars == <<flash, registry, step, console>>

Idle == step = 0
SaveStep == Len(kResetKeys) + 1

Says(what, operands, keys) == reply' = what /\ typed' = operands /\ listed' = keys
Saves(item, status) ==
  IF status = "Ok" THEN Says("saved", item, {}) ELSE Says("failed", <<>>, {})

\* Of the settings subsystem's error numbers, those that StatusFromErrno tells apart.
StatusFromErrno(rc) ==
  CASE rc = "0" -> "Ok"
    [] rc = "EINVAL" -> "InvalidArgument"
    [] rc = "ENOENT" -> "NotFound"
    [] rc \in {"EACCES", "EPERM"} -> "PermissionDenied"
    [] rc = "EBUSY" -> "Busy"
    [] rc = "ENOTSUP" -> "NotSupported"
    [] rc = "ENODEV" -> "Unavailable"
    [] OTHER -> "InternalError"

Status == {StatusFromErrno(rc) : rc \in Errno \cup {"0", "EINVAL", "ENOENT"}}

--------------------------------------------------------------------------------
(* SettingsStore and SettingRegistry *)

\* Mutant: texts of one character more than fits are accepted.
MuchTooLarge(text) == Len(text) > MaxValueLength + 1

TooLarge(text) == Len(text) > MaxValueLength

\* A call of the subsystem fails, or writes the text as a whole.
WriteRaw(key, text, status) ==
  \/ /\ ~IsValidKey(key) \/ TooLarge(text)
     /\ status = "InvalidArgument" /\ UNCHANGED flash
  \/ \E rc \in Errno : status = StatusFromErrno(rc) /\ UNCHANGED flash
  \/ /\ IsValidKey(key) /\ ~TooLarge(text)
     /\ status = "Ok" /\ flash' = [flash EXCEPT ![key] = text]

SetString(key, text, status) == WriteRaw(key, text, status)

\* The subsystem says ENOENT of a deletion only when there is no such item.
Reset(key, status) ==
  \/ ~IsValidKey(key) /\ status = "InvalidArgument" /\ UNCHANGED flash
  \/ \E rc \in Errno : /\ status = StatusFromErrno(rc) /\ UNCHANGED flash
                      /\ IsValidKey(key) /\ (rc = "ENOENT" => flash[key] = Absent)
  \/ IsValidKey(key) /\ status = "Ok" /\ flash' = [flash EXCEPT ![key] = Absent]

\* What ReadStringCallback keeps of an item: no more than the buffer holds.
ReadString(key) ==
  SubSeq(flash[key], 1, IF Len(flash[key]) < MaxValueLength THEN Len(flash[key])
                                                            ELSE MaxValueLength)

\* The text is found, or the read fails in one of several ways.  One of them is that
\* there is no such item; but NotFound is also what ENOENT of the subsystem becomes,
\* and an item that the back end did not hand over, whatever is in flash.
GetString(key, status) ==
  \/ ~IsValidKey(key) /\ status = "InvalidArgument"
  \/ IsValidKey(key) /\ status \in Status \ {"Ok"}
  \/ IsValidKey(key) /\ flash[key] # Absent /\ status = "Ok"

\* The results that a typed Get may have.  NotFound becomes the default, and every
\* other failure of the read is passed on.
TypedGet(key, default, parsed) ==
  {CASE status = "Ok" -> parsed
     [] status = "NotFound" -> Ok(default)
     [] OTHER -> [status |-> status, value |-> 0] :
   status \in {s \in Status : GetString(key, s)}}

GetInt32(key, default) == TypedGet(key, default, ParseInt32(ReadString(key)))
GetUInt32(key, default) == TypedGet(key, default, ParseUInt32(ReadString(key)))

\* Typed Set, which no code calls yet.
SetNumber(key, n) ==
  \E status \in Status :
    /\ SetString(key, Decimal(n), status)
    /\ Saves(<<key, Decimal(n)>>, status)
    /\ UNCHANGED <<registry, step>>

\* An item below the subtree is shown by the name that ListCallback puts together;
\* for the item of the subtree's own name the rest is empty.
FullKey(subtree, key) ==
  CASE subtree = <<>> -> key
    [] key = subtree -> Append(subtree, "")
    [] OTHER -> subtree \o SubSeq(key, Len(subtree) + 1, Len(key))

Below(subtree) ==
  {key \in Key : /\ flash[key] # Absent
                 /\ Len(subtree) <= Len(key) /\ SubSeq(key, 1, Len(subtree)) = subtree}

Shown(subtree) == {FullKey(subtree, key) : key \in Below(subtree)}

\* A name that is longer than any key does not fit the buffer.
List(subtree, status) ==
  LET listable == subtree = <<>> \/ IsValidKey(subtree) \/ IsNamespaceRoot(subtree)
      fits == Shown(subtree) \cap LongKey = {}
  IN  \/ (listable => ~fits) /\ status = "InvalidArgument"
      \/ listable /\ \E rc \in Errno : status = StatusFromErrno(rc)
      \/ listable /\ fits /\ status = "Ok"

\* Mutant: a key that is registered already is registered again.
RegisterAgain(key) ==
  /\ IsValidKey(key) /\ Len(registry) < kRegistryCapacity
  /\ registry' = Append(registry, key)
  /\ UNCHANGED <<flash, step, console>>

Find(key) == \E i \in DOMAIN registry : registry[i] = key

\* Describing a key, which no code does yet.
Register(key) ==
  /\ IsValidKey(key) /\ ~Find(key) /\ Len(registry) < kRegistryCapacity
  /\ registry' = Append(registry, key)
  /\ UNCHANGED <<flash, step, console>>

--------------------------------------------------------------------------------
(* The commands of the shell *)

\* Zephyr hands a handler the words from its subcommand on, or the whole line.
Argv(whole, root, command, operands) ==
  IF whole THEN <<<<root>>, <<command>>>> \o operands ELSE <<<<command>>>> \o operands

CommandArgBase(argv, root, command) ==
  IF Len(argv) > 1 /\ argv[1] = <<root>> /\ argv[2] = <<command>> THEN 2 ELSE 1

Operands(argv, root, command) ==
  SubSeq(argv, CommandArgBase(argv, root, command) + 1, Len(argv))

Answers(what) == Says(what, <<>>, {}) /\ UNCHANGED flash

CmdList(argv) ==
  LET args == Operands(argv, "settings", "list")
      subtree == IF args = <<>> THEN <<>> ELSE args[1]
  IN  /\ Len(argv) \in 1..3
      /\ \/ Len(args) > 1 /\ Answers("usage")
         \/ /\ Len(args) <= 1
            /\ \E status \in Status :
                 /\ List(subtree, status)
                 /\ IF status = "Ok" THEN Says("keys", <<>>, Shown(subtree))
                                     ELSE Says("failed", <<>>, {})
            /\ UNCHANGED flash

CmdGet(argv) ==
  LET args == Operands(argv, "settings", "get")
  IN  /\ Len(argv) \in 2..3
      /\ \/ Len(args) # 1 /\ Answers("usage")
         \/ /\ Len(args) = 1
            /\ \/ /\ GetString(args[1], "Ok")
                  /\ Says("value", <<args[1], ReadString(args[1])>>, {})
                  /\ UNCHANGED flash
               \/ \E status \in Status \ {"Ok"} :
                    GetString(args[1], status) /\ Answers("failed")

CmdSet(argv) ==
  LET args == Operands(argv, "settings", "set")
  IN  /\ Len(argv) \in 3..4
      /\ \/ Len(args) # 2 /\ Answers("usage")
         \/ /\ Len(args) = 2
            /\ \E status \in Status :
                 /\ SetString(args[1], args[2], status)
                 /\ Saves(<<args[1], args[2]>>, status)

CmdReset(argv) ==
  LET args == Operands(argv, "settings", "reset")
  IN  /\ Len(argv) \in 2..3
      /\ \/ Len(args) # 1 /\ Answers("usage")
         \/ /\ Len(args) = 1
            /\ \E status \in Status :
                 /\ Reset(args[1], status)
                 /\ Says(IF status = "Ok" THEN "reset" ELSE "failed", <<>>, {})

\* Nothing is kept in RAM: there is nothing to save, and loading changes nothing.
CmdSave == \E what \in {"ok", "failed"} : Answers(what)
CmdLoad == \E what \in {"ok", "failed"} : Answers(what)

\* An identity is not set to the empty text; a read that fails says "not-set", too.
ReadIdentityValue(key) ==
  \/ /\ GetString(key, "Ok")
     /\ Says("value", <<key, ReadString(key)>>, {}) /\ UNCHANGED flash
  \/ \E status \in Status \ {"Ok"} : GetString(key, status) /\ Answers("not-set")

WriteIdentityValue(key, text) ==
  \/ text = <<>> /\ Answers("failed")
  \/ /\ text # <<>>
     /\ \E status \in Status :
          /\ SetString(key, text, status)
          /\ Saves(<<key, text>>, status)

IdentityCommand(argv, command, key) ==
  LET args == Operands(argv, "board", command)
  IN  /\ Len(argv) \in 2..4
      /\ \/ args = <<<<"get">>>> /\ ReadIdentityValue(key)
         \/ /\ Len(args) = 2 /\ args[1] = <<"set">>
            /\ WriteIdentityValue(key, args[2])
         \/ /\ args # <<<<"get">>>> /\ ~(Len(args) = 2 /\ args[1] = <<"set">>)
            /\ Answers("usage")

CmdBoardSerial(argv) == IdentityCommand(argv, "serial", Serial)
CmdBoardHardwareRevision(argv) == IdentityCommand(argv, "hw-rev", HwRev)

ShellCommand ==
  /\ Idle
  /\ \E whole \in BOOLEAN, operands \in Typed \cup {<<>>} :
       \/ CmdList(Argv(whole, "settings", "list", operands))
       \/ CmdGet(Argv(whole, "settings", "get", operands))
       \/ CmdSet(Argv(whole, "settings", "set", operands))
       \/ CmdReset(Argv(whole, "settings", "reset", operands))
       \/ CmdBoardSerial(Argv(whole, "board", "serial", operands))
       \/ CmdBoardHardwareRevision(Argv(whole, "board", "hw-rev", operands))
       \/ CmdSave
       \/ CmdLoad
  /\ UNCHANGED <<registry, step>>

--------------------------------------------------------------------------------
(* The factory reset, which runs in the shell, and the rest of the board *)

FactoryResetBegin ==
  /\ Idle
  /\ \/ step' = 1 /\ Says("erasing", <<>>, {})
     \/ step' = 0 /\ Says("failed", <<>>, {})
  /\ UNCHANGED <<flash, registry>>

\* Mutant: the failure to delete a key ends the deletions, but not the reset.
ResetNextKeyOrSave ==
  /\ step \in 1..Len(kResetKeys)
  /\ \E status \in Status :
       /\ Reset(kResetKeys[step], status)
       /\ step' = IF status \in {"Ok", "NotFound"} THEN step + 1 ELSE SaveStep
  /\ UNCHANGED <<registry, console>>

\* The next key is deleted; a failure, other than that it is not there, ends it.
ResetNextKey ==
  /\ step \in 1..Len(kResetKeys)
  /\ \E status \in Status :
       /\ Reset(kResetKeys[step], status)
       /\ IF status \in {"Ok", "NotFound"}
          THEN step' = step + 1 /\ UNCHANGED console
          ELSE step' = 0 /\ Says("failed", <<>>, {})
  /\ UNCHANGED registry

FactoryResetSave ==
  /\ step = SaveStep
  /\ step' = 0
  /\ Says("complete", <<>>, {}) \/ Says("failed", <<>>, {})
  /\ UNCHANGED <<flash, registry>>

\* The other threads write the crash record (Diagnostics).
WriteCrashRecord(text) ==
  /\ flash' = [flash EXCEPT ![CrashRecord] = text]
  /\ UNCHANGED <<registry, step, console>>

BoardReset ==
  /\ registry' = <<>> /\ step' = 0
  /\ Says("nothing", <<>>, {})
  /\ UNCHANGED flash

Init ==
  /\ flash = [key \in Key |-> Absent]
  /\ registry = <<>> /\ step = 0
  /\ reply = "nothing" /\ typed = <<>> /\ listed = {}

Next ==
  \/ ShellCommand
  \/ FactoryResetBegin
  \/ ResetNextKey
  \/ FactoryResetSave
  \/ \E key \in Counted, n \in Number : Idle /\ SetNumber(key, n)
  \/ \E key \in Described : Register(key)
  \/ \E text \in CrashTexts : WriteCrashRecord(text)
  \/ BoardReset

Spec == Init /\ [][Next]_vars

--------------------------------------------------------------------------------
(* Properties *)

\* Every variable has its type: texts in flash that are no longer than the shell's
\* limit, registered keys, a step of the factory reset, and a command's answer.
TypeOK ==
  /\ flash \in [Key -> Seq(Char)]
  /\ \A key \in Key \ {CrashRecord} : Len(flash[key]) <= MaxValueLength
  /\ registry \in Seq(Key)
  /\ step \in 0..SaveStep
  /\ reply \in {"nothing", "keys", "value", "not-set", "saved", "reset", "ok", "usage",
                "failed", "erasing", "complete"}

\* What the shell reports as saved (settings set, board serial set, board hw-rev set,
\* typed Set) is in flash as it was typed, and a later read that finds an item returns
\* all of it: writing and reading have the same limit, whatever fails or runs in
\* between.  No read finds an item after the empty text was saved: that deleted it.
SavedReadsBack ==
  reply \in {"saved", "value"} /\ typed[1] # CrashRecord =>
    /\ typed[1] \in Key
    /\ flash[typed[1]] = typed[2]
    /\ GetString(typed[1], "Ok") <=> typed[2] # <<>>
    /\ GetString(typed[1], "Ok") => ReadString(typed[1]) = typed[2]

\* The numbers that a read may return are the default and the one in the type's range
\* that the stored text stands for; that one it does return when the read succeeds.
ReadsExactly(results, default, numbers) ==
  /\ \A result \in results : result.status = "Ok" => result.value \in numbers \cup {default}
  /\ \A n \in numbers : Ok(n) \in results

\* The typed Get calls return the number that a stored text stands for when it is in
\* the type's range, and no number for another text, unless the item is not found and
\* the default stands for it; what Set writes stands for the number it was given.
TypedReadsExact ==
  /\ \A key \in Key :
       LET text == flash[key]
           signed == {n \in -kInt32MinMagnitude..kInt32MaxValue : Denotes(text, n)}
           unsigned == {n \in 0..kUInt32MaxValue : Numeral(text) /\ Denotes(text, n)}
       IN  ~TooLarge(text) =>
             \A default \in {0, 1} :
               /\ ReadsExactly(GetInt32(key, default), default, signed)
               /\ ReadsExactly(GetUInt32(key, default), default, unsigned)
  /\ \A n \in Number : Denotes(Decimal(n), n)

\* The registry never names a key twice, nor more keys than it holds: Find returns
\* the one description there is.
RegistrySound ==
  /\ Len(registry) <= kRegistryCapacity
  /\ \A i, j \in DOMAIN registry : registry[i] = registry[j] => i = j

\* A running factory reset keeps the identity of the board, and whatever else it does
\* not name; only the other threads write meanwhile, and only the crash record.
PreservedKept ==
  [][step # 0 /\ step' # 0 =>
       \A key \in Identity \cup (Key \ (ResetKeys \cup {CrashRecord})) :
         flash'[key] = flash[key]]_vars

\* The factory reset keeps the promise of Erasure for the keys it names, through every
\* failure and a reset of the board halfway: complete means that none is left.
Promise == INSTANCE Erasure WITH
  Item <- ResetKeys,
  left <- {key \in ResetKeys : flash[key] # Absent},
  told <- IF step # 0 THEN "erasing" ELSE IF reply = "complete" THEN "complete" ELSE "open"

KeepsErasurePromise == Promise!Spec

\* What "factory reset" tells the operator: "Reset persistent settings", preserving the
\* images, the serial and the hardware revision.  No other setting is left.
CompleteErasesAllButPreserved ==
  reply = "complete" =>
    \A key \in Key \ (Identity \cup {CrashRecord}) : flash[key] = Absent

\* What "settings list" tells the operator: the lines are settings keys, which
\* "settings get" accepts.
ListedKeysAreKeys == \A key \in listed : IsValidKey(key)
================================================================================
