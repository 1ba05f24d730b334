------------------------------ MODULE MCDriver ------------------------------
(***************************************************************************)
(* The drivers with a few workers.                                         *)
(***************************************************************************)
EXTENDS Driver

SearchInsert == <<"batch", "window">>
=============================================================================
