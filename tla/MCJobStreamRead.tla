--------------------------- MODULE MCJobStreamRead ---------------------------
(* Small instances of JobStreamRead. *)
EXTENDS JobStreamRead, TLC

CONSTANTS DefaultRows, SessionRows

MCRows == [s \in Streams |-> IF s = Default THEN DefaultRows ELSE SessionRows]

MCErrors == {"Unavailable", "StatusOther"}

Honest == {0}

Symmetry == Permutations(Streams \ {Default})
=============================================================================
