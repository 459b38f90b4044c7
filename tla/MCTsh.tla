-------------------------------- MODULE MCTsh --------------------------------
(* Small instances of Tsh for TLC. *)
EXTENDS Tsh, TLC

Symmetry == Permutations(Pid)
=============================================================================
