----------------------------- MODULE MCScanCycle -----------------------------
(* Model-checking instance of ScanCycle. *)
EXTENDS ScanCycle
=============================================================================
