----------------------------- MODULE MCMemView -----------------------------
(* Instances of MemView: sizes wrap around at 8, so that a base near it     *)
(* makes the sums overflow that the code guards against.                   *)
EXTENDS MemView

McValues == {258}  \* the bytes 0, 0, 1, 2
McSymmetry == Permutations(Views)
=============================================================================
