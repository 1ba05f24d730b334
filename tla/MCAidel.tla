------------------------------ MODULE MCAidel -------------------------------
(* Instances of Aidel for TLC. *)
EXTENDS AidelVariants

\* Counted from 3, the keys 67, 70 and 73 share a bin of width 8, below which
\* shifts are negative; 3 and 67 span a power of two, and so do others.
SomeKeys == {0, 3, 10, 15, 21, 40, 50, 67, 70, 73, 77, 107}
=============================================================================
