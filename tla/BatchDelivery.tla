---------------------------- MODULE BatchDelivery ----------------------------
(***************************************************************************)
(* What a read promises its consumer, without tasks, queues or channels:   *)
(* batches of rows arrive one at a time until the read ends, fails or is   *)
(* left.  All of them are of one source, a set of streams that together    *)
(* hold the result.  The read ends cleanly only when every row of the      *)
(* source has arrived exactly once, and with InOrder each batch continues  *)
(* its stream where the previous batch of that stream stopped.             *)
(***************************************************************************)
EXTENDS Integers, Sequences, FiniteSets

CONSTANTS Sources, Rows, InOrder

VARIABLES
    got,        \* the batches received, in order
    status      \* "open", "end", "err" or "dropped"

Of(s) == {k \in DOMAIN got : got[k].s = s}

\* b continues stream b.s: it starts at row 0 or where the last batch ended.
Continues(b) ==
    IF Of(b.s) = {} THEN b.lo = 0
    ELSE \E k \in Of(b.s) : got[k].hi = b.lo /\ \A l \in Of(b.s) : l <= k

Holders(s, r) == {k \in Of(s) : got[k].lo <= r /\ r < got[k].hi}

From(source) == \A k \in DOMAIN got : got[k].s \in source

Complete ==
    \E source \in Sources :
        /\ From(source)
        /\ \A s \in source : \A r \in 0 .. Rows[s] - 1 : Cardinality(Holders(s, r)) = 1

Init == got = <<>> /\ status = "open"

Deliver ==
    /\ status = "open"
    /\ \E source \in Sources : \E s \in source :
          \E lo \in 0 .. Rows[s] - 1 : \E hi \in lo + 1 .. Rows[s] :
              LET b == [kind |-> "batch", s |-> s, lo |-> lo, hi |-> hi]
              IN  /\ From(source)
                  /\ InOrder => Continues(b)
                  /\ got' = Append(got, b)
    /\ UNCHANGED status

End ==
    /\ status = "open"
    /\ Complete
    /\ status' = "end"
    /\ UNCHANGED got

\* The consumer is told of an error, or leaves of its own accord.
Stop ==
    /\ status = "open"
    /\ status' \in {"err", "dropped"}
    /\ UNCHANGED got

Next == Deliver \/ End \/ Stop

Spec == Init /\ [][Next]_<<got, status>>
=============================================================================
