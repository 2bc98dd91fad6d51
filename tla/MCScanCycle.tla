---------------------------- MODULE MCScanCycle -----------------------------
(* Small instances of ScanCycle for TLC. *)
EXTENDS ScanCycle
=============================================================================
