----------------------------- MODULE MCSmartTag -----------------------------
(* A small instance of SmartTag for TLC. *)
EXTENDS SmartTag
=============================================================================
