------------------------------ MODULE MCConBin ------------------------------
(***************************************************************************)
(* Small instances of the con_ protocol: arrays of two keys, and bins that *)
(* start empty, with one array, or with a root over two.                   *)
(***************************************************************************)
EXTENDS ConBin, TLC

Rooted   == {<< <<2>>, <<4, 5>> >>, << <<2, 3>>, <<5>> >>, << <<1, 2>>, <<3, 4>> >>}
Fresh    == {<<>>, << <<>> >>, << <<3>> >>, << <<2, 4>> >>}
AnyStart == Rooted \cup Fresh

Symmetry == Permutations(Bin) \cup Permutations(Thread)
=============================================================================
