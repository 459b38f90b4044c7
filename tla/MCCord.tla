------------------------------- MODULE MCCord -------------------------------
(* A small instance of Cord for TLC. *)
EXTENDS Cord

CONSTANTS a, b

MCStrings == {<<>>, <<a, b>>}
=============================================================================
