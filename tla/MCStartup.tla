-------------------------------- MODULE MCStartup ------------------------------
(* Startup for TLC: a good update and four broken ones, one for each check. *)
EXTENDS Startup

MCImage == {"factory", "good", "no-settings", "no-diagnostics", "no-watchdog", "no-storage"}
MCFails ==
  [image \in MCImage |->
     CASE image = "no-settings" -> {"settings"}
       [] image = "no-diagnostics" -> {"diagnostics"}
       [] image = "no-watchdog" -> {"watchdog"}
       [] image = "no-storage" -> {"storage"}
       [] OTHER -> {}]
================================================================================
