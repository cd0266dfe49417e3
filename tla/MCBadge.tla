------------------------------- MODULE MCBadge -------------------------------
(* A small instance of Badge for TLC. *)
EXTENDS Badge

\* A text of four characters and one of three.
TwoStrengths == {-100, -50}
=============================================================================
