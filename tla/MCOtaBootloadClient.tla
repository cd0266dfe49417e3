------------------------ MODULE MCOtaBootloadClient ------------------------
(* A small instance of OtaBootloadClient for TLC. *)
EXTENDS OtaBootloadClient
=============================================================================
