------------------------------- MODULE MCRelease -------------------------------
(* A production build for MCUboot, debug builds with and without, two signing   *)
(* keys of one's own and two Zephyr checkouts.                                 *)
EXTENDS Release, TLC

CONSTANTS sample, first, second, old, new

MCDir == {[profile |-> "production", boot |-> "mcuboot"],
          [profile |-> "debug", boot |-> "mcuboot"],
          [profile |-> "debug", boot |-> "no-mcuboot"]}
MCKey == {sample, first, second}
MCBase == {old, new}

\* Nothing tells the two keys, or the two checkouts, apart.
Symmetry == Permutations({first, second}) \cup Permutations(MCBase)
================================================================================
