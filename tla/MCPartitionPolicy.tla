--------------------------- MODULE MCPartitionPolicy ---------------------------
(* PartitionPolicy for TLC: units of 2 and 4 bytes, a flash of 6 bytes; every *)
(* assignment of 15 entries to the partitions with every devicetree.          *)
EXTENDS PartitionPolicy

MCText == {"s0", "s1", "sc", "st", "x", "image-1", "none", "9x"}
MCUnit == [B |-> 1, K |-> 2, M |-> 4]

Says(name, offset, amount, suffix) ==
  [name |-> name, offset |-> offset, amount |-> amount, suffix |-> suffix]

MCEntry ==
  {Says("s0", 0, 1, "K"), Says("s0", 0, 1, "M"), Says("s1", 2, 2, "B"), Says("s1", 2, 1, "B"),
   Says("s1", 1, 1, "K"), Says("sc", 4, 1, "B"), Says("st", 5, 1, "B"),
   Says("sc", 5, 1, "B"), Says("none", 5, 1, "B"), Says("9x", 5, 1, "B"),
   Says("s1", 0, 1, "K"), Says("st", 1, 1, "M"), Says("st", 4, 1, "B"),
   Says("st", Missing, 1, "B"), Says("st", 5, 0, "K")}

Node(label, name, offset, size) ==
  [node_label |-> label, label |-> name, offset |-> offset, size |-> size]

Slots == <<Node("s0", "s0", 0, 2), Node("s1", "image-1", 2, 2)>>
Rest == <<Node("none", "sc", 4, 1), Node("none", "st", 5, 1)>>
Swapped == <<Node("none", "st", 4, 1), Node("none", "sc", 5, 1)>>
MCTree ==
  {<<>>, Slots \o Rest, Swapped \o Slots,
   <<Node("s0", "s0", 0, 2), Node("s1", "s1", 1, 2)>> \o Rest,
   <<Node("s0", "s0", 0, 2), Node("s1", "s1", 2, 1)>> \o Rest,
   Slots \o Rest \o <<Node("x", "st", 3, 2)>>,
   Slots \o Rest \o <<Node("st", "st", Malformed, 1)>>,
   Slots \o <<Node("sc", "st", 4, 1)>>}
================================================================================
