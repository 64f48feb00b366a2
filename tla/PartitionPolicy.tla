---------------------------- MODULE PartitionPolicy ----------------------------
(***************************************************************************)
(* What "fw.py package" asks of a board before it puts images together:    *)
(* production.yml says where the four flash partitions are, and the        *)
(* devicetree of the build must say the same.                              *)
(*                                                                         *)
(* An offset is the number that its text denotes; Missing and Malformed    *)
(* stand for texts that denote none.  A node of the devicetree whose reg   *)
(* denotes no offset has a Malformed one.                                  *)
(***************************************************************************)
EXTENDS Integers, Sequences

CONSTANTS
  Text,              \* names
  Entry,             \* what production.yml may say of a partition
  Tree,              \* the devicetrees of builds
  Unit,              \* the bytes that a suffix stands for: none, K and M
  NoName, BadName    \* a name that is missing and one that is no identifier

Missing == -1
Malformed == -2
Partition == {"slot0", "slot1", "scratch", "settings"}
Number == Nat \cup {Missing, Malformed}

ASSUME EntryAssumption ==
  /\ Unit \in [DOMAIN Unit -> Nat \ {0}] /\ {NoName, BadName} \subseteq Text
  /\ Entry \subseteq [name : Text, offset : Number, amount : Number, suffix : DOMAIN Unit]
ASSUME TreeAssumption ==
  Tree \subseteq Seq([node_label : Text, label : Text, offset : Number, size : Nat])

VARIABLES
  policy,     \* production.yml, by partition
  dts,        \* the partition nodes of zephyr.dts, in order
  verdict     \* what create_package made of them

vars == <<policy, dts, verdict>>

--------------------------------------------------------------------------------
(* validate_production_policy *)

\* Mutant: a size of zero is a size.
AnySize(p) ==
  IF policy[p].amount < 0 THEN policy[p].amount
                          ELSE policy[p].amount * Unit[policy[p].suffix]

\* SIZE_RE wants a first digit other than 0.
parse_size_bytes(p) ==
  IF policy[p].amount = 0 THEN Malformed
  ELSE IF policy[p].amount < 0 THEN policy[p].amount
  ELSE policy[p].amount * Unit[policy[p].suffix]

Start(p) == policy[p].offset
End(p) == Start(p) + parse_size_bytes(p)

Complete ==
  \A p \in Partition :
    /\ policy[p].name # NoName /\ policy[p].offset # Missing /\ policy[p].amount # Missing

WellFormed ==
  \A p \in Partition :
    /\ policy[p].name # BadName /\ policy[p].offset # Malformed
    /\ parse_size_bytes(p) # Malformed

NoDuplicates ==
  \A p, q \in Partition :
    policy[p].name = policy[q].name /\ policy[p].name \notin {NoName, BadName} => p = q

SlotsMatch ==
  parse_size_bytes("slot0") > 0 /\ parse_size_bytes("slot1") > 0 =>
    parse_size_bytes("slot0") = parse_size_bytes("slot1")

\* The ranges are sorted by start, then end, then the partition's name.
Ranges == {p \in Partition : Start(p) >= 0 /\ parse_size_bytes(p) > 0}
Rank == [scratch |-> 1, settings |-> 2, slot0 |-> 3, slot1 |-> 4]

\* Mutant: the ranges are not sorted.
FileOrder(p, q) ==
  LET line == [slot0 |-> 1, slot1 |-> 2, scratch |-> 3, settings |-> 4]
  IN  line[p] < line[q]

Before(p, q) ==
  \/ Start(p) < Start(q)
  \/ Start(p) = Start(q) /\ End(p) < End(q)
  \/ Start(p) = Start(q) /\ End(p) = End(q) /\ Rank[p] < Rank[q]

Previous(p, q) == Before(p, q) /\ ~\E r \in Ranges : Before(p, r) /\ Before(r, q)

\* Each range is compared with the one before it.
NoOverlap ==
  \A q \in Ranges :
    Start(q) < End(q) /\ \A p \in Ranges : Previous(p, q) => Start(q) >= End(p)

validate_production_policy == Complete /\ WellFormed /\ NoDuplicates /\ SlotsMatch /\ NoOverlap

--------------------------------------------------------------------------------
(* validate_production_policy_against_dts *)

Names(i) == {dts[i].node_label, dts[i].label} \ {NoName}

\* Of several nodes with a name, the last one counts.
Named(name) == {i \in DOMAIN dts : dts[i].offset >= 0 /\ name \in Names(i)}
ByName(name) == CHOOSE i \in Named(name) : \A j \in Named(name) : j <= i

validate_production_policy_against_dts ==
  \A p \in Partition :
    /\ Named(policy[p].name) # {}
    /\ LET node == dts[ByName(policy[p].name)]
       IN  /\ policy[p].offset >= 0 => node.offset = policy[p].offset
           /\ parse_size_bytes(p) > 0 => node.size = parse_size_bytes(p)

--------------------------------------------------------------------------------
(* create_package *)

\* The package is refused for the layout, or for another field or file of the board.
create_package ==
  /\ verdict = "none"
  /\ \/ verdict' = "other"
     \/ verdict' = IF validate_production_policy /\ validate_production_policy_against_dts
                   THEN "packaged" ELSE "refused"
  /\ UNCHANGED <<policy, dts>>

\* Whatever somebody wrote and built.
Init ==
  /\ policy \in [Partition -> Entry] /\ dts \in Tree /\ verdict = "none"

Next == create_package

Spec == Init /\ [][Next]_vars

--------------------------------------------------------------------------------
(* Properties *)

\* Both files have the shape that the code gives them.
TypeOK ==
  /\ \A p \in Partition :
       /\ Start(p) \in Number
       /\ parse_size_bytes(p) \in Number \ {0}
  /\ verdict \in {"none", "packaged", "refused", "other"}

Region(start, size) == start..(start + size - 1)

\* A board is packaged exactly when both of its files describe one sound layout: four
\* partitions with names of their own, the same bytes for each in both files, no byte
\* in two of them, and slots of the same size.  Comparing neighbours is enough.
PackagedIffSound ==
  verdict \in {"packaged", "refused"} =>
    (verdict = "packaged" <=>
       /\ Complete /\ WellFormed
       /\ \A p, q \in Partition :
            p # q =>
              /\ policy[p].name # policy[q].name
              /\ Region(Start(p), parse_size_bytes(p))
                   \cap Region(Start(q), parse_size_bytes(q)) = {}
       /\ parse_size_bytes("slot0") = parse_size_bytes("slot1")
       /\ \A p \in Partition :
            /\ Named(policy[p].name) # {}
            /\ LET node == dts[ByName(policy[p].name)]
               IN  Region(node.offset, node.size) = Region(Start(p), parse_size_bytes(p)))
================================================================================
