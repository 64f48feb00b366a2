----------------------------- MODULE MCDiagnostics -----------------------------
(* Diagnostics for TLC: one task name is enough, since reports differ only in *)
(* whether they come from Feed or from the reset.                             *)
EXTENDS Diagnostics

MCTaskName == {"sensor"}
================================================================================
