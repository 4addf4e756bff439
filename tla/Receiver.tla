------------------------------- MODULE Receiver -------------------------------
(***************************************************************************)
(* lib.rs: BigQueryRecordBatchReceiver, the consumer's end of a read.      *)
(* `outcome` is how the read ended for the consumer: "end" is recv()       *)
(* returning None, "err" is Some(Err(_)), "dropped" is abort() or Drop     *)
(* before either.  All three run abort(): raise the cancellation flag,     *)
(* close the channel, abort the task handles.  The Python iterator on top  *)
(* of it drops the receiver at the first None or Err; RecvAgain is what a  *)
(* Rust caller sees that keeps the receiver and calls recv() once more.    *)
(***************************************************************************)
EXTENDS ReadStream

VARIABLE outcome

vars == <<chanVars, queueVars, readerVars, outcome>>

ReceiverInit == outcome = "open"

\* abort(); the handles are aborted one by one by TaskAborted.
Abort(how) ==
    /\ outcome = "open"
    /\ outcome' = how
    /\ cancel' = TRUE
    /\ closed' = TRUE

\* recv() returns Some(Ok(batch)); receiving frees the item's slot.
RecvBatch ==
    /\ outcome = "open"
    /\ nread < Len(sent)
    /\ sent[nread + 1].kind = "batch"
    /\ nread' = nread + 1
    /\ permits' = permits + 1
    /\ UNCHANGED <<sent, waiters, closed, cancel, outcome, queueVars, readerVars>>

\* recv() returns Some(Err(err)).
RecvErr ==
    /\ nread < Len(sent)
    /\ sent[nread + 1].kind = "err"
    /\ Abort("err")
    /\ nread' = nread + 1
    /\ permits' = permits + 1
    /\ UNCHANGED <<sent, waiters, queueVars, readerVars>>

\* recv() returns None: the channel is empty and every Sender, OwnedPermit and
\* task holding one is gone.
RecvNone(sendersGone) ==
    /\ nread = Len(sent)
    /\ sendersGone
    /\ Abort("end")
    /\ UNCHANGED <<sent, nread, permits, waiters, queueVars, readerVars>>

\* recv() called again on a receiver that is not dropped after None or Err:
\* rx is closed, but what is buffered, and what jobs still send through their
\* permits, is returned all the same.
RecvAgain ==
    /\ outcome \in {"end", "err"}
    /\ nread < Len(sent)
    /\ nread' = nread + 1
    /\ permits' = permits + 1
    /\ UNCHANGED <<sent, waiters, closed, cancel, outcome, queueVars, readerVars>>

\* Drop, or a call of abort(), while the read is going on.
Drop ==
    /\ Abort("dropped")
    /\ UNCHANGED <<sent, nread, permits, waiters, queueVars, readerVars>>

\* Mutant: the handles are forgotten, not aborted.
HandlesForgotten(s) == FALSE

\* handle.abort() takes effect: the task is dropped at one of its awaits,
\* with the schema sender it may still own.
TaskAborted(s) ==
    /\ outcome # "open"
    /\ state[s] \notin Stopped
    /\ state' = [state EXCEPT ![s] = "Terminated"]
    /\ page' = [page EXCEPT ![s] = NoPage]
    /\ Leave(ReaderWaiter(s))
    /\ UNCHANGED <<offset, retry, pos, metadata, schemaTx, check, schema, fails>>
    /\ UNCHANGED <<sent, nread, permits, closed, cancel, queueVars, outcome>>

-----------------------------------------------------------------------------
(* The steps of the parts as steps of a read; each names what it leaves    *)
(* alone.                                                                  *)

ReadRows(s) == ServiceStep(s) /\ UNCHANGED outcome

Advance(s) == LocalStep(s) /\ UNCHANGED outcome

Drain(s) == DrainStep(s) /\ UNCHANGED <<readerVars, outcome>>

Decode(j) == JobStep(j) /\ UNCHANGED <<readerVars, outcome>>

ReceiverTypeOK == outcome \in {"open", "end", "err", "dropped"}

-----------------------------------------------------------------------------
(* What every kind of read promises. *)

\* The items the consumer has been given, as indices into the log.
Received == 1 .. nread

\* How often row r of stream s is in the items with indices in I.
Covers(item, s, r) == item.kind = "batch" /\ item.s = s /\ item.lo <= r /\ r < item.hi

Copies(s, r, I) == Cardinality({i \in I : Covers(sent[i], s, r)})

\* What recv() has returned, without the error that ended it.
Given == IF outcome = "err" THEN SubSeq(sent, 1, nread - 1) ELSE SubSeq(sent, 1, nread)

\* With maintain_order what the consumer has of a stream is a prefix of it, in
\* order and without a gap, across reconnects, decode failures and cancellation.
OrderedPrefix ==
    MaintainOrder =>
        \A i \in Received : sent[i].kind = "batch" =>
            LET before == {k \in 1 .. i - 1 : sent[k].kind = "batch" /\ sent[k].s = sent[i].s}
            IN  IF before = {} THEN sent[i].lo = 0
                ELSE \E k \in before : sent[k].hi = sent[i].lo /\ \A l \in before : l <= k

\* No row is handed to the consumer twice, not even in a read that fails later:
\* reconnects resume at the exact row after the last one taken.
RowsOnce ==
    \A s \in Streams : \A r \in 0 .. Rows[s] - 1 : Copies(s, r, Received) <= 1

\* Slots are neither leaked nor made: free ones, buffered items and permits held
\* by jobs add up to the capacity, on every early return of a job or a task.
PermitsConserved ==
    permits + (Len(sent) - nread) + Cardinality({j \in jobs : HoldsPermit(j)}) = Capacity

\* Failures in a row without a message in between are bounded by the attempt
\* limit: a reconnect that succeeds but yields nothing does not restart the count.
RetriesBounded == \A s \in Streams : fails[s] <= MaxAttempts

\* An error is the last thing recv() returns.
ErrIsLast == \A i \in Received : sent[i].kind = "err" => i = nread

\* A job in the ordered queue always has a drain closure that will pop it.
NoStrandedJob ==
    \A j \in jobs : j.phase = "queued" => running[j.s]
=============================================================================
