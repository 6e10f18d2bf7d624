------------------------------ MODULE MCSession ------------------------------
(* Instances of Session for TLC.                                           *)
EXTENDS Session, TLC

Symmetry == Permutations(Conns) \union Permutations(Starters)
              \union Permutations(Closers)
=============================================================================
