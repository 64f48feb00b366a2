------------------------- MODULE PartitionPolicy_proofs ------------------------
(***************************************************************************)
(* The check of the partitions is exact for every production.yml and every *)
(* devicetree: comparing each range with the one before it finds every     *)
(* overlap.                                                                *)
(***************************************************************************)
EXTENDS PartitionPolicy, WellFoundedInduction, TLAPS

Files ==
  /\ policy \in [Partition -> Entry]
  /\ dts \in Tree

IInv ==
  /\ Files
  /\ verdict \in {"none", "packaged", "refused", "other"}
  /\ verdict \in {"packaged", "refused"} =>
       (verdict = "packaged" <=>
          validate_production_policy /\ validate_production_policy_against_dts)

(* A size is a number of bytes, or it is missing or malformed.                *)
LEMMA SizeType ==
  ASSUME Files, NEW p \in Partition
  PROVE  /\ Start(p) \in Number /\ parse_size_bytes(p) \in Number \ {0}
<1>1. /\ policy[p].offset \in Number /\ policy[p].amount \in Number
      /\ policy[p].suffix \in DOMAIN Unit
  BY EntryAssumption DEF Files
<1>2. Unit[policy[p].suffix] \in Nat \ {0}
  BY <1>1, EntryAssumption
<1>3. CASE policy[p].amount \in {Missing, Malformed, 0}
  BY <1>1, <1>3 DEF parse_size_bytes, Start, Number, Missing, Malformed
<1>4. CASE policy[p].amount \in Nat \ {0}
  <2>1. policy[p].amount * Unit[policy[p].suffix] \in Nat \ {0}
    BY <1>2, <1>4
  <2> QED BY <1>1, <1>4, <2>1 DEF parse_size_bytes, Start, Number
<1> QED BY <1>1, <1>3, <1>4 DEF Number

LEMMA CompleteRanges ==
  ASSUME Files, Complete, WellFormed
  PROVE  /\ Ranges = Partition
         /\ \A p \in Partition :
              /\ Start(p) \in Nat /\ parse_size_bytes(p) \in Nat \ {0}
              /\ End(p) \in Nat /\ Start(p) < End(p)
<1>1. ASSUME NEW p \in Partition
      PROVE  /\ Start(p) \in Nat /\ parse_size_bytes(p) \in Nat \ {0}
             /\ Start(p) + parse_size_bytes(p) \in Nat
             /\ Start(p) < Start(p) + parse_size_bytes(p)
  <2>1. /\ Start(p) \in Number /\ parse_size_bytes(p) \in Number \ {0}
        /\ Start(p) # Missing /\ Start(p) # Malformed
        /\ policy[p].amount # Missing /\ parse_size_bytes(p) # Malformed
    BY <1>1, SizeType DEF Complete, WellFormed, Start
  <2>2. policy[p].amount \in Number
    BY <1>1, EntryAssumption DEF Files
  <2>3. parse_size_bytes(p) # Missing
    <3>1. CASE policy[p].amount \in Nat
      BY <2>1, <3>1, SizeType, EntryAssumption
         DEF parse_size_bytes, Missing, Malformed, Files, Number
    <3>2. CASE policy[p].amount = Malformed
      BY <2>1, <3>2 DEF parse_size_bytes, Missing, Malformed
    <3> QED BY <2>1, <2>2, <3>1, <3>2 DEF Number
  <2> QED BY <2>1, <2>3 DEF Number
<1> QED BY <1>1 DEF Ranges, End

--------------------------------------------------------------------------------
(* Neighbours *)

Apart(p, q) == End(p) <= Start(q) \/ End(q) <= Start(p)

LEMMA BeforeIsATotalOrder ==
  ASSUME Files, Complete, WellFormed
  PROVE  /\ \A p, q \in Partition : p # q => Before(p, q) \/ Before(q, p)
         /\ \A p, q \in Partition : ~(Before(p, q) /\ Before(q, p))
         /\ \A p, q, r \in Partition : Before(p, q) /\ Before(q, r) => Before(p, r)
<1>1. \A p \in Partition : Start(p) \in Nat /\ End(p) \in Nat
  BY CompleteRanges
<1>2. \A p, q \in Partition : Rank[p] \in Nat /\ (Rank[p] = Rank[q] => p = q)
  BY DEF Partition, Rank
<1>3. \A p, q \in Partition : p # q => Before(p, q) \/ Before(q, p)
  BY <1>1, <1>2 DEF Before
<1>4. \A p, q \in Partition : ~(Before(p, q) /\ Before(q, p))
  BY <1>1, <1>2 DEF Before
<1>5. ASSUME NEW p \in Partition, NEW q \in Partition, NEW r \in Partition,
             Before(p, q), Before(q, r)
      PROVE  Before(p, r)
  BY <1>1, <1>2, <1>5 DEF Before
<1> QED BY <1>3, <1>4, <1>5

(* Whatever has a range after it has a next one.                              *)
LEMMA NextRange ==
  ASSUME Files, Complete, WellFormed,
         NEW p \in Partition, NEW q \in Partition, Before(p, q)
  PROVE  \E next \in Partition : Previous(p, next) /\ (next = q \/ Before(next, q))
<1>1. /\ \A a, b \in Partition : a # b => Before(a, b) \/ Before(b, a)
      /\ \A a, b \in Partition : ~(Before(a, b) /\ Before(b, a))
      /\ \A a, b, c \in Partition : Before(a, b) /\ Before(b, c) => Before(a, c)
  BY BeforeIsATotalOrder
<1>2. Ranges = Partition
  BY CompleteRanges
<1>3. ASSUME NEW r \in Partition, Before(p, r), NEW s \in Partition,
             \A t \in Partition \ {r, s} : ~(Before(p, t) /\ Before(t, q)),
             r = q \/ Before(r, q), s = q \/ Before(s, q), Before(p, s)
      PROVE  \E next \in Partition : Previous(p, next) /\ (next = q \/ Before(next, q))
  BY <1>1, <1>2, <1>3 DEF Previous
<1> SUFFICES ASSUME \A next \in Partition : ~(Previous(p, next) /\ (next = q \/ Before(next, q)))
             PROVE  FALSE
  OBVIOUS
<1>4. PICK r \in Partition : Before(p, r) /\ Before(r, q)
  BY <1>2 DEF Previous
<1>5. PICK s \in Partition : Before(p, s) /\ Before(s, r)
  BY <1>2, <1>4 DEF Previous
<1>6. Before(s, q)
  BY <1>1, <1>4, <1>5
<1>7. PICK t \in Partition : Before(p, t) /\ Before(t, s)
  BY <1>2, <1>5, <1>6 DEF Previous
<1>8. /\ p # t /\ p # s /\ p # r /\ p # q /\ t # s /\ t # r /\ t # q
      /\ s # r /\ s # q /\ r # q
  BY <1>1, <1>4, <1>5, <1>6, <1>7
<1> QED BY <1>8 DEF Partition

(* Neighbours that do not overlap are enough.                                 *)
LEMMA NeighboursEnough ==
  ASSUME Files, Complete, WellFormed
  PROVE  NoOverlap <=> \A p, q \in Partition : p # q => Apart(p, q)
<1>1. /\ Ranges = Partition
      /\ \A p \in Partition : Start(p) \in Nat /\ End(p) \in Nat /\ Start(p) < End(p)
  BY CompleteRanges
<1>2. ASSUME NoOverlap, NEW p \in Partition, NEW q \in Partition, Before(p, q)
      PROVE  End(p) <= Start(q)
  <2>1. PICK next \in Partition : Previous(p, next) /\ (next = q \/ Before(next, q))
    BY <1>2, NextRange
  <2>2. End(p) <= Start(next)
    BY <1>1, <1>2, <2>1 DEF NoOverlap
  <2>3. Start(next) <= Start(q)
    BY <1>1, <2>1 DEF Before
  <2> QED BY <1>1, <2>2, <2>3
<1>3. ASSUME \A p, q \in Partition : p # q => Apart(p, q),
             NEW p \in Partition, NEW q \in Partition, Previous(p, q)
      PROVE  Start(q) >= End(p)
  <2>1. Before(p, q) /\ p # q
    BY <1>3, BeforeIsATotalOrder DEF Previous
  <2>2. Start(p) <= Start(q)
    BY <1>1, <2>1 DEF Before
  <2> QED BY <1>1, <1>3, <2>1, <2>2 DEF Apart
<1>4. NoOverlap => \A p, q \in Partition : p # q => Apart(p, q)
  BY <1>2, BeforeIsATotalOrder DEF Apart
<1> QED BY <1>1, <1>3, <1>4 DEF NoOverlap

--------------------------------------------------------------------------------
(* Regions *)

LEMMA RegionsApart ==
  ASSUME NEW a \in Nat, NEW m \in Nat \ {0}, NEW b \in Nat, NEW n \in Nat \ {0}
  PROVE  Region(a, m) \cap Region(b, n) = {} <=> a + m <= b \/ b + n <= a
<1>1. ASSUME a + m <= b \/ b + n <= a PROVE Region(a, m) \cap Region(b, n) = {}
  BY <1>1 DEF Region
<1>2. ASSUME ~(a + m <= b), ~(b + n <= a) PROVE Region(a, m) \cap Region(b, n) # {}
  <2>1. CASE a <= b
    <3>1. b \in Region(a, m) /\ b \in Region(b, n)
      BY <1>2, <2>1 DEF Region
    <3> QED BY <3>1
  <2>2. CASE ~(a <= b)
    <3>1. a \in Region(a, m) /\ a \in Region(b, n)
      BY <1>2, <2>2 DEF Region
    <3> QED BY <3>1
  <2> QED BY <2>1, <2>2
<1> QED BY <1>1, <1>2

LEMMA RegionsEqual ==
  ASSUME NEW a \in Nat, NEW m \in Nat \ {0}, NEW b \in Int, NEW n \in Nat
  PROVE  Region(b, n) = Region(a, m) <=> b = a /\ n = m
<1>1. ASSUME Region(b, n) = Region(a, m) PROVE b = a /\ n = m
  <2>1. \A i \in Int : b <= i /\ i <= b + n - 1 <=> a <= i /\ i <= a + m - 1
    BY <1>1 DEF Region
  <2>2. a \in Int /\ a + m - 1 \in Int /\ b \in Int /\ b + n - 1 \in Int /\ a <= a + m - 1
    OBVIOUS
  <2>3. b <= a /\ a <= b + n - 1 /\ a + m - 1 <= b + n - 1
    BY <2>1, <2>2
  <2>4. a <= b /\ b + n - 1 <= a + m - 1
    BY <2>1, <2>2, <2>3
  <2> QED BY <2>3, <2>4
<1> QED BY <1>1

LEMMA ElementInRange ==
  ASSUME NEW S, NEW seq \in Seq(S), NEW i \in 1..Len(seq)
  PROVE  seq[i] \in S
  OBVIOUS

(* A name that some node has is the name of a last one.                       *)
LEMMA LastNamed ==
  ASSUME Files, NEW name, Named(name) # {}
  PROVE  /\ ByName(name) \in Named(name)
         /\ dts[ByName(name)].offset \in Nat /\ dts[ByName(name)].size \in Nat
<1> DEFINE Less == OpToRel(<, Nat)
           Distance == {Len(dts) - i : i \in Named(name)}
<1>1. /\ dts \in Seq([node_label : Text, label : Text, offset : Number, size : Nat])
      /\ Named(name) \subseteq 1..Len(dts) /\ Len(dts) \in Nat
  <2>1. dts \in Seq([node_label : Text, label : Text, offset : Number, size : Nat])
    BY TreeAssumption, Zenon DEF Files
  <2>2. Named(name) \subseteq DOMAIN dts
    BY Zenon DEF Named
  <2>3. DOMAIN dts = 1..Len(dts) /\ Len(dts) \in Nat
    BY <2>1
  <2> QED BY <2>1, <2>2, <2>3
<1>2. Distance \subseteq Nat /\ Distance # {}
  BY <1>1
<1>3. PICK least \in Distance : \A d \in Distance : ~(<<d, least>> \in Less)
  <2> HIDE DEF Less, Distance
  <2>1. IsWellFoundedOn(Less, Nat)
    BY NatLessThanWellFounded DEF Less
  <2> QED BY <1>2, <2>1, WFMin
<1>4. PICK last \in Named(name) : least = Len(dts) - last
  BY <1>3
<1>5. ASSUME NEW j \in Named(name) PROVE j <= last
  <2>1. Len(dts) - j \in Distance /\ ~(<<Len(dts) - j, least>> \in Less)
    BY <1>3, <1>5
  <2>2. ~(Len(dts) - j < least)
    BY <1>2, <1>3, <2>1 DEF OpToRel
  <2> QED BY <1>1, <1>4, <1>5, <2>2
<1>6. ByName(name) \in Named(name)
  BY <1>4, <1>5 DEF ByName
<1>7. dts[ByName(name)] \in [node_label : Text, label : Text, offset : Number, size : Nat]
  <2>1. ByName(name) \in 1..Len(dts)
    BY <1>1, <1>6
  <2> QED BY <1>1, <2>1, ElementInRange, Zenon
<1>8. dts[ByName(name)].offset >= 0
  BY <1>6 DEF Named
<1> QED BY <1>6, <1>7, <1>8 DEF Number, Missing, Malformed

--------------------------------------------------------------------------------
(* The check is exact *)

(* The files say the same as before.                                          *)
LEMMA SameFiles ==
  ASSUME UNCHANGED <<policy, dts>>
  PROVE  /\ validate_production_policy' <=> validate_production_policy
         /\ validate_production_policy_against_dts' <=> validate_production_policy_against_dts
<1>1. \A p \in Partition : (parse_size_bytes(p))' = parse_size_bytes(p)
  BY Zenon DEF parse_size_bytes
<1>2. \A p \in Partition : (Start(p))' = Start(p) /\ (End(p))' = End(p)
  BY <1>1, Zenon DEF Start, End
<1>3. /\ Complete' <=> Complete
      /\ WellFormed' <=> WellFormed
      /\ NoDuplicates' <=> NoDuplicates
  BY <1>1 DEF Complete, WellFormed, NoDuplicates
<1>4. SlotsMatch' <=> SlotsMatch
  BY <1>1 DEF SlotsMatch, Partition
<1>5. Ranges' = Ranges /\ Ranges \subseteq Partition
  BY <1>1, <1>2 DEF Ranges
<1>6. \A p, q \in Partition : (Before(p, q))' <=> Before(p, q)
  BY <1>2, Zenon DEF Before
<1>7. \A p, q \in Partition : (Previous(p, q))' <=> Previous(p, q)
  BY <1>5, <1>6 DEF Previous
<1>8. NoOverlap' <=> NoOverlap
  BY <1>2, <1>5, <1>7 DEF NoOverlap
<1>9. \A name : (Named(name))' = Named(name)
  BY Zenon DEF Named, Names
<1>10. \A name : (ByName(name))' = ByName(name)
  BY <1>9, Zenon DEF ByName
<1>11. validate_production_policy_against_dts' <=> validate_production_policy_against_dts
  BY <1>1, <1>9, <1>10, Zenon DEF validate_production_policy_against_dts
<1> QED BY <1>3, <1>4, <1>8, <1>11 DEF validate_production_policy

LEMMA InvariantStep == IInv /\ [Next]_vars => IInv'
<1> SUFFICES ASSUME IInv, [Next]_vars PROVE IInv'
  OBVIOUS
<1>1. UNCHANGED <<policy, dts>>
  BY DEF Next, create_package, vars
<1>2. CASE create_package
  BY <1>1, <1>2, SameFiles DEF create_package, IInv, Files
<1>3. CASE UNCHANGED vars
  BY <1>1, <1>3, SameFiles DEF vars, IInv, Files
<1> QED BY <1>2, <1>3 DEF Next

LEMMA Invariance == Spec => []IInv
<1>1. Init => IInv
  BY DEF Init, IInv, Files
<1> QED BY <1>1, InvariantStep, PTL DEF Spec

(* The sizes are numbers of bytes other than 0, or missing or malformed.      *)
THEOREM TypeCorrect == Spec => []TypeOK
<1>1. IInv => TypeOK
  BY SizeType DEF IInv, TypeOK
<1> QED BY <1>1, Invariance, PTL

(* create_package accepts a board exactly when both files describe one layout *)
(* of four named, disjoint partitions with equal slots.                       *)
THEOREM CheckIsExact == Spec => []PackagedIffSound
<1>1. ASSUME IInv, verdict \in {"packaged", "refused"}, Complete, WellFormed
      PROVE  PackagedIffSound
  <2>1. \A p \in Partition : Start(p) \in Nat /\ parse_size_bytes(p) \in Nat \ {0}
    BY <1>1, CompleteRanges DEF IInv
  <2>2. NoDuplicates <=> \A p, q \in Partition : p # q => policy[p].name # policy[q].name
    BY <1>1 DEF NoDuplicates, Complete, WellFormed
  <2>3. SlotsMatch <=> parse_size_bytes("slot0") = parse_size_bytes("slot1")
    BY <2>1 DEF SlotsMatch, Partition
  <2>4. NoOverlap <=>
          \A p, q \in Partition :
            p # q => Region(Start(p), parse_size_bytes(p))
                       \cap Region(Start(q), parse_size_bytes(q)) = {}
    <3>1. \A p, q \in Partition :
            Apart(p, q) <=> Region(Start(p), parse_size_bytes(p))
                              \cap Region(Start(q), parse_size_bytes(q)) = {}
      BY <2>1, RegionsApart DEF Apart, End
    <3> QED BY <1>1, <3>1, NeighboursEnough DEF IInv
  <2>5. ASSUME NEW p \in Partition, Named(policy[p].name) # {}
        PROVE  LET node == dts[ByName(policy[p].name)]
               IN  (/\ policy[p].offset >= 0 => node.offset = policy[p].offset
                    /\ parse_size_bytes(p) > 0 => node.size = parse_size_bytes(p))
                   <=> Region(node.offset, node.size) = Region(Start(p), parse_size_bytes(p))
    <3> DEFINE node == dts[ByName(policy[p].name)]
    <3>1. node.offset \in Nat /\ node.size \in Nat
      BY <1>1, <2>5, LastNamed DEF IInv
    <3>2. policy[p].offset = Start(p) /\ Start(p) \in Nat /\ parse_size_bytes(p) \in Nat \ {0}
      BY <2>1, <2>5 DEF Start
    <3>3. Region(node.offset, node.size) = Region(Start(p), parse_size_bytes(p))
            <=> node.offset = Start(p) /\ node.size = parse_size_bytes(p)
      <4> HIDE DEF node
      <4> QED BY <3>1, <3>2, RegionsEqual
    <3> QED BY <3>1, <3>2, <3>3
  <2>6. validate_production_policy_against_dts <=>
          \A p \in Partition :
            /\ Named(policy[p].name) # {}
            /\ LET node == dts[ByName(policy[p].name)]
               IN  Region(node.offset, node.size) = Region(Start(p), parse_size_bytes(p))
    BY <2>5 DEF validate_production_policy_against_dts
  <2> QED BY <1>1, <2>2, <2>3, <2>4, <2>6
          DEF IInv, validate_production_policy, PackagedIffSound
<1>2. ASSUME IInv, ~(Complete /\ WellFormed) PROVE PackagedIffSound
  BY <1>2 DEF IInv, validate_production_policy, PackagedIffSound
<1>3. IInv => PackagedIffSound
  BY <1>1, <1>2 DEF PackagedIffSound
<1> QED BY <1>3, Invariance, PTL
================================================================================
