--------------------------- MODULE MCSubscriptions ---------------------------
(* Instances of Subscriptions for TLC.                                     *)
EXTENDS Subscriptions, TLC

Symmetry == Permutations(Subs) \union Permutations(Keys)
              \union Permutations(Starters)
              \union Permutations(Activators \ Starters)
              \union Permutations(Deactivators)
=============================================================================
