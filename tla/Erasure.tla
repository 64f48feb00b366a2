-------------------------------- MODULE Erasure --------------------------------
(***************************************************************************)
(* What a factory reset promises, whatever it does to keep the promise:    *)
(* while it runs, the items it erases only become fewer, and it reports    *)
(* completion only when none of them is left.  It may give up at any time, *)
(* and then says nothing about what is left.                               *)
(***************************************************************************)
CONSTANT Item

VARIABLES
  left,   \* the items that still have a value
  told    \* "open", "erasing" or "complete"

Init == left \subseteq Item /\ told = "open"

\* Anybody uses the items; a completed erasure is history.
Use ==
  /\ told # "erasing"
  /\ left' \subseteq Item
  /\ told' = "open"

Begin == told # "erasing" /\ told' = "erasing" /\ UNCHANGED left

Erase == told = "erasing" /\ left' \subseteq left /\ UNCHANGED told

GiveUp == told = "erasing" /\ told' = "open" /\ UNCHANGED left

Complete == told = "erasing" /\ left = {} /\ told' = "complete" /\ UNCHANGED left

Next == Use \/ Begin \/ Erase \/ GiveUp \/ Complete

Spec == Init /\ [][Next]_<<left, told>>
================================================================================
