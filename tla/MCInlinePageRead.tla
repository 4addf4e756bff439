--------------------------- MODULE MCInlinePageRead ---------------------------
(* Small instances of InlinePageRead. *)
EXTENDS InlinePageRead

CONSTANT ResultRows

MCRows == [s \in Streams |-> ResultRows]

MCErrors == {"Unavailable", "StatusOther"}

Miscounts == {-1, 0, 1}
=============================================================================
