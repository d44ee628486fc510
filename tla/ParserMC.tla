------------------------------ MODULE ParserMC ------------------------------
(***************************************************************************)
(* Parser.tla and ParserText.tla for TLC.                                  *)
(***************************************************************************)
EXTENDS ParserText, TLC

CONSTANTS a, b, c, d

PoolABC  == {a, b, c}
PoolABCD == {a, b, c, d}
Interchangeable == Permutations({a, b, c, d})
=============================================================================
