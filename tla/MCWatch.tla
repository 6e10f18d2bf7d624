------------------------------- MODULE MCWatch -------------------------------
(* Instances of Watch for TLC.                                             *)
EXTENDS Watch, TLC

Symmetry == Permutations(Watches) \union Permutations(Stoppers)
              \union Permutations(Closers)
=============================================================================
