----------------------------- MODULE MCLevelBin -----------------------------
(***************************************************************************)
(* Small instances of a level bin: a root of two separators over arrays of *)
(* three keys (8 and 16 in the code).  A root of n separators points to at *)
(* most n + 1 arrays, so n + 1 addresses suffice.                          *)
(***************************************************************************)
EXTENDS LevelBin, TLC

Symmetry == Permutations(Bin) \cup Permutations(Val)
=============================================================================
