----------------------------- MODULE MCTableRead -----------------------------
(* Small instances of TableRead. *)
EXTENDS TableRead, TLC

CONSTANT RowsPerStream

MCRows == [s \in Streams |-> RowsPerStream]

MCErrors == {"Unavailable", "StatusOther"}

Honest == {0}

Miscounts == {-1, 0, 1}

Symmetry == Permutations(Streams)
=============================================================================
