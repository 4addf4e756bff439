------------------------------ MODULE TableRead ------------------------------
(***************************************************************************)
(* lib.rs: Client::read_table.  One read session, one reader task per      *)
(* stream, all of them feeding the decode queues and the one channel of    *)
(* the receiver that the caller gets.  The schema comes with the session,  *)
(* so no stream has to report it and none has a first-page check.          *)
(***************************************************************************)
EXTENDS Receiver

Init ==
    /\ ChannelInit
    /\ QueueInit
    /\ ReaderInit(Streams, {}, {})
    /\ ReceiverInit

\* Every clone of tx is gone: the tasks own one each, the jobs one each.
SendersGone == jobs = {} /\ \A s \in Streams : state[s] \in Stopped

\* Nothing is left to do.
Finished == outcome # "open" /\ SendersGone /\ \A s \in Streams : ~running[s]

Done == Finished /\ UNCHANGED vars

Recv == RecvBatch \/ RecvErr \/ RecvNone(SendersGone)

Next ==
    \/ \E s \in Streams : ReadRows(s) \/ Advance(s) \/ TaskAborted(s) \/ Drain(s)
    \/ \E j \in jobs : Decode(j)
    \/ Recv
    \/ Drop
    \/ Done

Spec == Init /\ [][Next]_vars

\* The same read under a caller that goes on calling recv() after Err or None.
SpecRecvAgain == Init /\ [][Next \/ RecvAgain]_vars

\* The tokio runtime keeps polling the tasks, rayon keeps running closures,
\* and the consumer keeps calling recv() until the read has ended for it.  The
\* service is only assumed not to answer with errors and empty messages for
\* ever: a stream that is read again and again gets a page or its end.
Fairness ==
    /\ \A s \in Streams :
          /\ WF_vars(ReadRows(s))
          /\ WF_vars(Advance(s))
          /\ SF_vars((Page(s) \/ StreamEof(s)) /\ UNCHANGED outcome)
          /\ WF_vars(Drain(s))
    /\ WF_vars(\E j \in jobs : Decode(j))
    /\ WF_vars(Recv)

FairSpec == Spec /\ Fairness

-----------------------------------------------------------------------------

\* Every variable of a table read has its type: permits never go below zero and
\* recv() never reads past what was sent.
TypeOK ==
    /\ ChannelTypeOK
    /\ QueueTypeOK
    /\ ReaderTypeOK
    /\ ReceiverTypeOK

\* A clean end of the stream (recv() = None) means that the consumer has every
\* row of every stream exactly once, whatever was retried, mis-counted,
\* cancelled or abandoned on the way: rows never go missing silently.
CleanEndIsComplete ==
    outcome = "end" =>
        \A s \in Streams : \A r \in 0 .. Rows[s] - 1 : Copies(s, r, Received) = 1

\* Whoever raises the cancellation flag while the consumer is still reading has
\* an error on its way to the channel or in it, so no early return on `cancel`
\* can turn into a clean end.
CancelIsReported ==
    cancel /\ outcome = "open" =>
        \/ \E i \in nread + 1 .. Len(sent) : sent[i].kind = "err"
        \/ \E j \in jobs : j.phase = "failing"
        \/ \E s \in Streams : state[s] = "SendErr"

Delivery == INSTANCE BatchDelivery
                WITH got <- Given, status <- outcome, InOrder <- MaintainOrder, Sources <- {Streams}

\* The pipeline of tasks, decode jobs and the channel implements the delivery of
\* batches one by one: nothing is taken back, nothing arrives after the end,
\* and with maintain_order no batch is skipped.
ImplementsDelivery == Delivery!Spec

\* Every read ends for a consumer that keeps receiving.
ReadEnds == <>(outcome # "open")

=============================================================================
