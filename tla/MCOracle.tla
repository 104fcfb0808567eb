------------------------------ MODULE MCOracle ------------------------------
(***************************************************************************)
(* Oracle for TLC: vines and processes as model values.  Both are          *)
(* interchangeable, so their permutations are a symmetry.                  *)
(***************************************************************************)
EXTENDS Oracle, TLC

Symmetry == Permutations(Ids) \cup Permutations(Procs)
=============================================================================
