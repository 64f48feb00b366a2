------------------------------- MODULE MCI2cScan -------------------------------
(* I2cScan for TLC: two buses with 8 addresses, of which the first and the    *)
(* last are reserved and one of each bus is claimed; lines of up to 4 words.  *)
EXTENDS I2cScan, TLC

MCBus == {0, 1, 3}
MCReady == {0, 1}
MCClaimed == (0 :> {2} @@ 1 :> {5, 7} @@ 3 :> {})

Flags(letters) == [letters |-> letters, spec |-> None]
Number(digits) == [letters |-> {}, spec |-> [digits |-> digits, bus |-> NoBus]]
Name(b) == [letters |-> {}, spec |-> [digits |-> <<>>, bus |-> b]]

Empty == [letters |-> {}, spec |-> None]
Few == {Flags({"y"}), Flags({"a", "r"}), Flags({"help"}), Empty, Number(<<0, 1>>), Name(0)}
MCWord ==
  Few \cup {Flags(letters) : letters \in {{"a", "y"}, {"r"}, {"y", "?"}}}
      \cup {Number(<<6, 5, 5, 3, 6>>), Number(<<2, 5, 6>>), Name(3)}
MCLine ==
  {<<word>> : word \in MCWord} \cup (MCWord \X MCWord) \cup (Few \X Few \X Few)
    \cup ({Flags({"y"})} \X {Name(0)} \X {Empty} \X MCWord)
================================================================================
