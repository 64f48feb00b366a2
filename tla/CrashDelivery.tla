----------------------------- MODULE CrashDelivery -----------------------------
(***************************************************************************)
(* What the diagnostics service promises about fatal errors, whatever it   *)
(* does to keep the promise: a fatal error is put on the persistent record *)
(* at most once, never before it was captured completely, and never after  *)
(* a later one.  A fatal error may be lost; it may not be invented,        *)
(* repeated or reordered.  Fatal errors are numbered in the order in which *)
(* they happen.                                                            *)
(***************************************************************************)
EXTENDS Naturals

VARIABLES
  sealed,     \* the last fatal error whose capture was completed
  delivered   \* the last fatal error put on the persistent record

Init == sealed = 0 /\ delivered = 0

\* A fatal error is captured.  Numbers may be skipped: a capture cut short
\* by a reset never counts.
Capture ==
  /\ sealed' \in Nat
  /\ sealed' > sealed
  /\ UNCHANGED delivered

\* The latest captured fatal error reaches the record.
Deliver ==
  /\ delivered < sealed
  /\ delivered' = sealed
  /\ UNCHANGED sealed

Next == Capture \/ Deliver

Spec == Init /\ [][Next]_<<sealed, delivered>>
================================================================================
