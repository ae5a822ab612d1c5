----------------------------- MODULE MCSqlDelay -----------------------------
(* Instances of SqlDelay for TLC. *)
EXTENDS SqlDelay, TLC
=============================================================================
