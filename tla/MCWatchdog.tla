------------------------------- MODULE MCWatchdog ------------------------------
(* Watchdog for TLC: two tasks, one of which can be late while the other waits *)
(* behind the report about it.  Each inequality of the assumptions is tight.   *)
EXTENDS Watchdog

MCTask == {"sensor", "radio"}
MCTaskTimeout == [i \in MCTask |-> IF i = "sensor" THEN 2 ELSE 3]
================================================================================
