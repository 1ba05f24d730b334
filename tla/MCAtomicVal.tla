---------------------------- MODULE MCAtomicVal -----------------------------
(***************************************************************************)
(* Small instances of AtomicVal.                                           *)
(***************************************************************************)
EXTENDS AtomicVal, TLC

Symmetry == Permutations(Thread) \cup Permutations(Val) \cup Permutations(Word)
=============================================================================
