----------------------------- MODULE MCFormDecoder -----------------------------
(* Forms of three parts, with enough temporary files for all of them.      *)
EXTENDS FormDecoder, TLC

CONSTANTS f1, f2, f3

Symmetry == Permutations(Files) \cup Permutations(Bytes)
=============================================================================
