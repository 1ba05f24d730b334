------------------------------- MODULE MCPlex -------------------------------
(* Instances of Plex for TLC: clusters of near keys with gaps between them. *)
EXTENDS RadixSpline, Segmentation

SomeKeys == {0, 1, 2, 7, 20, 21, 23, 55, 106}
=============================================================================
