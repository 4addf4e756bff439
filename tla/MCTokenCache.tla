---------------------------- MODULE MCTokenCache ----------------------------
(* Small instances of TokenCache. *)
EXTENDS TokenCache, TLC

Symmetry == Permutations(Callers)
=============================================================================
