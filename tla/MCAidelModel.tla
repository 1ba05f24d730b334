---------------------------- MODULE MCAidelModel ----------------------------
(***************************************************************************)
(* Small instances of AidelModel: the array {3} with the keys 1 and 2 in   *)
(* the slot before it, so that a bin, its retraining and the slots of the  *)
(* model that replaces it are all within reach.                            *)
(***************************************************************************)
EXTENDS AidelScan, TLC

Symmetry == Permutations(Mob) \cup Permutations(Thread) \cup Permutations(Val)
=============================================================================
