--------------------------- MODULE TableReadProofs ---------------------------
(***************************************************************************)
(* Theorems about TableRead for every number of streams, rows, slots,      *)
(* workers and retries, up to the refinement of BatchDelivery.             *)
(***************************************************************************)
EXTENDS TableRead, ReceiverProofs

-----------------------------------------------------------------------------
(* What is special about a table read: the tasks all start at once, with   *)
(* the schema and without a first-page check.                              *)

TableShape ==
    \A s \in Streams :
        /\ metadata[s] /\ ~schemaTx[s] /\ ~check[s]
        /\ state[s] \notin {"Idle", "FirstPage", "Switched"}

\* The inductive invariant: that of the parts, the shape, and what the clean end
\* of the read rests on.
TableInv ==
    /\ PartInv
    /\ TableShape
    /\ BatchesOnly
    /\ CancelIsReported
    /\ CleanEndIsComplete

LEMMA TableInit == Init => ReadTypeOK /\ Fresh /\ TableShape
<1> SUFFICES ASSUME Init PROVE ReadTypeOK /\ Fresh /\ TableShape
  OBVIOUS
<1>1. ChannelTypeOK
  <2>1. sent = <<>> /\ waiters = <<>> /\ nread = 0 /\ permits = Capacity
    BY DEF Init, ChannelInit
  <2>2. sent \in Seq(Items) /\ waiters \in Seq(Waiters)
    BY <2>1
  <2>3. nread \in 0 .. Len(sent)
    BY <2>1, EmptySeq
  <2>4. permits \in Nat
    BY <2>1, CapacityAssumption
  <2> QED
    BY <2>2, <2>3, <2>4 DEF Init, ChannelInit, ChannelTypeOK
<1>2. QueueTypeOK
  BY DEF Init, QueueInit, QueueTypeOK
<1>3. ReaderTypeOK
  BY DEF Init, ReaderInit, ReaderTypeOK, ReaderStates, NoPage
<1>4. ReceiverTypeOK
  BY DEF Init, ReceiverInit, ReceiverTypeOK
<1>5. Fresh
  BY DEF Init, ChannelInit, ReaderInit, Fresh, Started
<1>6. TableShape
  BY DEF Init, ReaderInit, TableShape
<1> QED
  BY <1>1, <1>2, <1>3, <1>4, <1>5, <1>6 DEF ReadTypeOK

LEMMA InvInit == Init => TableInv
<1> SUFFICES ASSUME Init PROVE TableInv
  OBVIOUS
<1>1. PartInv /\ TableShape
  BY TableInit, FreshInv
<1>2. nread = 0 /\ outcome = "open" /\ ~cancel
  BY DEF Init, ChannelInit, ReceiverInit
<1> QED
  BY <1>1, <1>2 DEF TableInv, BatchesOnly, CancelIsReported, CleanEndIsComplete

\* A step of the read is a step of one of its parts.
LEMMA StepOfPart == [Next]_vars => PartStep
<1>1. Recv => RecvStep
  BY DEF Recv, RecvStep, SendersGone
<1> QED
  BY <1>1 DEF Next, Done, PartStep, ReaderStep, RecvStep

LEMMA ShapeStep == ASSUME TableShape, ShapeKept PROVE TableShape'
BY DEF TableShape, ShapeKept

-----------------------------------------------------------------------------
(* The steps of the consumer.                                              *)

LEMMA ReportStep ==
    ASSUME PartInv, TableShape, CancelIsReported, PartStep
    PROVE  CancelIsReported'
<1> SUFFICES ASSUME cancel', outcome' = "open" PROVE ErrOnWay'
  BY DEF CancelIsReported, ErrOnWay, ErrQueued, ErrInJob, ErrInReader
<1>1. ReadTypeOK /\ FlagInv /\ BoundsInv
  BY DEF PartInv, FlowInv
<1>2. ErrOnWay' \/ (cancel /\ ~ErrOnWay) \/ \E s \in Streams : schemaTx[s]
  BY <1>1, ErrOnWayStep
<1>3. outcome = "open"
  BY ConsumerMoves DEF RecvStep, RecvBatch, RecvErr, RecvNone, Drop, Abort
<1> QED
  BY <1>2, <1>3
     DEF TableShape, CancelIsReported, ErrOnWay, ErrQueued, ErrInJob, ErrInReader

\* recv() returns None only when every row has been received.
LEMMA EndIsComplete ==
    ASSUME TableInv, RecvNone(SendersGone)
    PROVE  \A s \in Streams : \A r \in 0 .. Rows[s] - 1 : Copies(s, r, Received) = 1
<1>1. /\ nread = Len(sent) /\ outcome = "open" /\ jobs = {}
      /\ \A s \in Streams : state[s] \in Stopped
  BY DEF RecvNone, Abort, SendersGone
<1>2. nread \in Nat /\ Received = 1 .. Len(sent)
  BY <1>1, LogLength DEF TableInv, PartInv, Received
<1>3. \A s \in Streams : state[s] = "Terminated" /\ metadata[s]
  BY <1>1 DEF TableInv, TableShape, Stopped
<1>4. ~cancel
  BY <1>1, <1>2, <1>3 DEF TableInv, CancelIsReported
<1> QED
  BY <1>1, <1>2, <1>3, <1>4, AllRowsReceived DEF TableInv

LEMMA EndStep ==
    ASSUME TableInv, [Next]_vars, PartStep, PartEffect
    PROVE  CleanEndIsComplete'
<1> SUFFICES ASSUME outcome' = "end", NEW s \in Streams, NEW r \in 0 .. Rows[s] - 1
             PROVE  Copies(s, r, Received)' = 1
  BY DEF CleanEndIsComplete
<1>1. Received \in SUBSET (1 .. Len(sent)) /\ ReadTypeOK
  BY LogLength DEF TableInv, PartInv, ReadTypeOK, ChannelTypeOK, Received
<1>2. nread' = nread => Copies(s, r, Received)' = Copies(s, r, Received)
  BY <1>1, CopiesKept DEF Received
<1>3. CASE UNCHANGED <<nread, outcome>>
  BY <1>2, <1>3 DEF TableInv, CleanEndIsComplete
<1>4. CASE RecvStep
  <2>1. RecvNone(SendersGone) \/ UNCHANGED <<nread, outcome>>
    BY <1>4 DEF Next, Done, Recv, RecvStep, RecvBatch, RecvErr, RecvNone, Drop, Abort, ReadRows,
                Advance, TaskAborted, Drain, Decode, vars, chanVars
  <2>2. CASE RecvNone(SendersGone)
    BY <1>2, <2>2, EndIsComplete DEF RecvNone
  <2> QED
    BY <1>3, <2>1, <2>2
<1> QED
  BY <1>3, <1>4, ConsumerMoves DEF TableInv

LEMMA InvStep == TableInv /\ [Next]_vars => TableInv'
<1> SUFFICES ASSUME TableInv, [Next]_vars PROVE TableInv'
  OBVIOUS
<1>1. PartStep
  BY StepOfPart
<1>2. FirstPageIsAll
  BY DEF TableInv, TableShape, FirstPageIsAll
<1>3. PartInv' /\ PartEffect
  BY <1>1, <1>2, PartInvStep DEF TableInv
<1>4. TableShape'
  BY <1>1, ShapeStays, ShapeStep DEF TableInv, PartInv
<1>5. BatchesOnly' /\ CancelIsReported' /\ CleanEndIsComplete'
  BY <1>1, <1>3, BatchesStep, ReportStep, EndStep DEF TableInv
<1> QED
  BY <1>3, <1>4, <1>5 DEF TableInv

\* The invariant all the others follow from.
THEOREM Invariance == Spec => []TableInv
BY InvInit, InvStep, PTL DEF Spec

-----------------------------------------------------------------------------
(* What the runs check on small instances.                                 *)

\* Every variable of a table read keeps its type: in particular the semaphore
\* never goes below zero and the receive cursor never runs past the log.
THEOREM TypeCorrect == Spec => []TypeOK
<1>1. TableInv => TypeOK
  BY DEF TableInv, PartInv, ReadTypeOK, TypeOK
<1> QED
  BY <1>1, Invariance, PTL

\* While the consumer is reading, a raised cancellation flag has its error in
\* the channel or on the way to it: send_fatal_error and DecodeJob::run raise
\* the flag before they send, and nothing they do in between can lose the error.
THEOREM CancelReported == Spec => []CancelIsReported
<1>1. TableInv => CancelIsReported
  BY DEF TableInv
<1> QED
  BY <1>1, Invariance, PTL

\* recv() returns None only after it has returned every row of every stream
\* exactly once, even if the service miscounts the rows of its pages: the only
\* way past a job that fails on them is through an error.
THEOREM NoSilentLoss == Spec => []CleanEndIsComplete
<1>1. TableInv => CleanEndIsComplete
  BY DEF TableInv
<1> QED
  BY <1>1, Invariance, PTL

\* With maintain_order what recv() has returned of a stream is a prefix of it,
\* whatever reconnects, fails or is cancelled and however far the decode pool
\* and the other streams have got: DecodeQueueInner::run takes one job of a
\* stream at a time.
THEOREM PrefixInOrder == Spec => []OrderedPrefix
<1>1. TableInv => OrderedPrefix
  BY InOrderMeansPrefix DEF TableInv, PartInv, FlowInv
<1> QED
  BY <1>1, Invariance, PTL

\* With row counts that are right, recv() never returns a row twice, not even
\* before an error: a reconnect starts at the row after the last page taken.
THEOREM NoRowTwice == (Skew \subseteq {0}) => (Spec => []RowsOnce)
<1> SUFFICES ASSUME Skew \subseteq {0} PROVE Spec => []RowsOnce
  OBVIOUS
<1>1. TableInv => RowsOnce
  BY RowsReceivedOnce DEF TableInv
<1> QED
  BY <1>1, Invariance, PTL

\* Every slot of the channel is free, buffered or held by a job: no early return
\* of DecodeJob::run or ReadStream::step leaks a permit, and none is made up.
THEOREM SlotsConserved == Spec => []PermitsConserved
<1>1. TableInv => PermitsConserved
  BY DEF TableInv, PartInv, FlowInv
<1> QED
  BY <1>1, Invariance, PTL

\* The push of a job and the stop of the drain closure do not miss each other:
\* as long as a job is queued, a closure is there to pop it.
THEOREM QueueIsDrained == Spec => []NoStrandedJob
<1>1. TableInv => NoStrandedJob
  BY DEF TableInv, PartInv, FlowInv
<1> QED
  BY <1>1, Invariance, PTL

\* Failures in a row without a message in between never exceed the attempt
\* limit, since only a message makes the next failure start a fresh RetryState.
THEOREM RetriesEnd == Spec => []RetriesBounded
<1>1. TableInv => RetriesBounded
  BY RetryBound DEF TableInv, PartInv
<1> QED
  BY <1>1, Invariance, PTL

-----------------------------------------------------------------------------
(* The refinement of BatchDelivery.                                        *)

LEMMA DeliverStep ==
    ASSUME TableInv, RecvBatch
    PROVE  Delivery!Next
<1>1. PICK b : b = sent[nread + 1]
  OBVIOUS
<1>2. /\ b.s \in Streams /\ b = [kind |-> "batch", s |-> b.s, lo |-> b.lo, hi |-> b.hi]
      /\ b.lo \in 0 .. Rows[b.s] - 1 /\ b.hi \in b.lo + 1 .. Rows[b.s]
      /\ Given' = Append(Given, b) /\ outcome = "open" /\ outcome' = "open"
      /\ MaintainOrder => ContinuesGiven(b)
  BY <1>1, GivenGrows DEF TableInv
<1>3. MaintainOrder => Delivery!Continues(b)
  BY <1>2 DEF ContinuesGiven, Delivery!Continues, Delivery!Of
<1>4. Delivery!From(Streams)
  BY <1>2, GivenFrom DEF TableInv, PartInv, Delivery!From
<1>5. Delivery!Deliver
  BY <1>2, <1>3, <1>4 DEF Delivery!Deliver
<1> QED
  BY <1>5 DEF Delivery!Next

LEMMA StopStep ==
    ASSUME TableInv, RecvErr \/ Drop
    PROVE  Delivery!Next
<1>1. Given' = Given /\ outcome = "open"
  BY GivenAtEnd DEF TableInv, PartInv
<1>2. outcome' \in {"err", "dropped"}
  BY DEF RecvErr, Drop, Abort
<1> QED
  BY <1>1, <1>2 DEF Delivery!Next, Delivery!Stop

\* The instance counts as this module does.
LEMMA SameCardinality == ASSUME NEW S PROVE Delivery!Cardinality(S) = Cardinality(S)
BY DEF Cardinality, Delivery!Cardinality

LEMMA EndOfDelivery ==
    ASSUME TableInv, RecvNone(SendersGone)
    PROVE  Delivery!Next
<1>0. outcome' = "end" /\ SendersGone \in BOOLEAN /\ ReadTypeOK /\ BatchesOnly
  BY DEF RecvNone, Abort, SendersGone, TableInv, PartInv
<1>1. Given' = Given /\ outcome = "open"
  BY <1>0, GivenAtEnd
<1>2. /\ DOMAIN Given = 1 .. nread
      /\ \A i \in 1 .. nread : Given[i] = sent[i] /\ sent[i].kind = "batch"
  BY <1>0, <1>1, GivenIs
<1>3. ASSUME NEW s \in Streams, NEW r \in 0 .. Rows[s] - 1
      PROVE  Delivery!Cardinality(Delivery!Holders(s, r)) = 1
  <2>1. Delivery!Holders(s, r) = {i \in 1 .. nread : Covers(sent[i], s, r)}
    BY <1>2 DEF Delivery!Holders, Delivery!Of, Covers
  <2>2. Cardinality({i \in 1 .. nread : Covers(sent[i], s, r)}) = 1
    BY EndIsComplete DEF Copies, Received
  <2> QED
    BY <2>1, <2>2, SameCardinality
<1>4. Delivery!From(Streams)
  BY <1>0, <1>1, GivenFrom DEF Delivery!From
<1>5. Delivery!Complete
  BY <1>3, <1>4, Zenon DEF Delivery!Complete
<1>6. Delivery!End
  BY <1>0, <1>1, <1>5 DEF Delivery!End
<1> QED
  BY <1>6 DEF Delivery!Next

LEMMA DeliveryStep ==
    TableInv /\ TableInv' /\ [Next]_vars => Delivery!Next \/ UNCHANGED <<Given, outcome>>
<1> SUFFICES ASSUME TableInv, TableInv', [Next]_vars
             PROVE  Delivery!Next \/ UNCHANGED <<Given, outcome>>
  OBVIOUS
<1>1. PartStep /\ PartInv
  BY StepOfPart DEF TableInv
<1>2. PartEffect /\ ReadTypeOK /\ ReadTypeOK'
  BY <1>1, StepHasEffect DEF TableInv, PartInv, FlowInv
<1>3. CASE UNCHANGED <<nread, outcome>>
  BY <1>2, <1>3, GivenStays
<1>4. CASE RecvBatch
  BY <1>4, DeliverStep
<1>5. CASE RecvErr \/ Drop
  BY <1>5, StopStep
<1>6. CASE \E gone \in BOOLEAN : RecvNone(gone)
  <2>1. outcome' = "end" /\ outcome = "open"
    BY <1>6 DEF RecvNone, Abort
  <2>2. RecvNone(SendersGone)
    BY <2>1 DEF Next, Done, Recv, RecvBatch, RecvErr, Drop, Abort, ReadRows,
                Advance, TaskAborted, Drain, Decode, vars
  <2> QED
    BY <2>2, EndOfDelivery
<1> QED
  BY <1>1, <1>3, <1>4, <1>5, <1>6, ConsumerMoves DEF RecvStep

\* A table read implements the delivery of batches one by one: what recv()
\* returns is what a consumer of BatchDelivery sees, with the clean end only
\* after the last row and, with maintain_order, every stream in order.
THEOREM Refinement == Spec => ImplementsDelivery
<1>1. Init => Delivery!Init
  <2> SUFFICES ASSUME Init PROVE Delivery!Init
    OBVIOUS
  <2>1. nread = 0 /\ outcome = "open"
    BY DEF Init, ChannelInit, ReceiverInit
  <2>2. SubSeq(sent, 1, 0) = <<>>
    BY SubSeqEmpty
  <2> QED
    BY <2>1, <2>2 DEF Given, Delivery!Init
<1>2. TableInv /\ TableInv' /\ [Next]_vars => [Delivery!Next]_<<Given, outcome>>
  BY DeliveryStep
<1> QED
  BY <1>1, <1>2, Invariance, PTL DEF Spec, ImplementsDelivery, Delivery!Spec
=============================================================================
