-------------------------- MODULE MCSensorActuator --------------------------
(* A small instance of SensorActuator for TLC. *)
EXTENDS SensorActuator
=============================================================================
