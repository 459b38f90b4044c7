------------------------------- MODULE MCSfsAny -------------------------------
(* An instance of MCSfs for any client, in which names are model values. *)
EXTENDS MCSfs, TLC

CONSTANTS n1, n2

\* No call tells names apart but by comparing them.
NameSymmetry == Permutations({n1, n2})
=============================================================================
