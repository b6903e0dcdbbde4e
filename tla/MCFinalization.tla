--------------------------- MODULE MCFinalization ---------------------------
(* Finalization on a small instance; its properties are about safety and   *)
(* never name a run, so that runs may be permuted.                         *)
EXTENDS Finalization, TLC

Symmetry == Permutations(Run)
=============================================================================
