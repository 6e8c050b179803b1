----------------------------- MODULE MCJWKSStore -----------------------------
(* The key store on small sets of key ids and keys.                        *)
EXTENDS JWKSStore, TLC

Symmetry == Permutations(Kids) \cup Permutations(Materials)
=============================================================================
