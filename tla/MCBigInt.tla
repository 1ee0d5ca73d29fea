------------------------------ MODULE MCBigInt ------------------------------
(***************************************************************************)
(* An instance of BigInt for TLC: words of two one-bit bytes, two          *)
(* variables, numbers of up to two words (a result of three is not         *)
(* explored further).  The numbers of allocations that succeed are those after      *)
(* which the next failure has an outcome of its own.                       *)
(***************************************************************************)
EXTENDS BigInt

MCData == {<<>>, <<1>>, <<0, 1>>, <<1, 0>>, <<0, 1, 1>>, <<1, 1, 0, 1>>,
           <<0, 1, 0, 0, 1>>}
=============================================================================
