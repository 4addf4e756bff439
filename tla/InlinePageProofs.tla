--------------------------- MODULE InlinePageProofs ---------------------------
(***************************************************************************)
(* Theorems about InlinePageRead, a query result that Polars pulls through *)
(* the Python iterator, for every size of the result and of its inline     *)
(* page, every number of slots, workers and retries, up to the refinement  *)
(* of BatchDelivery.                                                       *)
(***************************************************************************)
EXTENDS InlinePageRead, ReceiverProofs

\* The task has the schema and no first-page check; as long as it holds the
\* inline page, this is the whole result if nothing remains to be read.
InlineShape ==
    /\ metadata[Default] /\ ~schemaTx[Default] /\ ~check[Default]
    /\ state[Default] \notin {"Idle", "Switched"}
    /\ state[Default] = "FirstPage" /\ ~hasMore => page[Default].hi = Rows[Default]

\* Polars has got the batches that recv() has returned.
PulledInv == pulled = {i \in 1 .. nread : sent[i].kind = "batch"}

\* An answer other than a batch is given by a receiver that is dropped.
AnswerInv ==
    /\ answer # "open" => outcome # "open"
    /\ answer = "end" => outcome = "end"

\* What has become of the receiver is what Python has been told.
SeenInv == outcome = Seen

\* An error is on its way once the flag is up.
ReportInv == cancel /\ outcome = "open" => ErrOnWay

\* The whole result has been received at the clean end.
EndInv == outcome = "end" => \A r \in 0 .. Rows[Default] - 1 : Copies(Default, r, Received) = 1

InlineInv ==
    /\ PartInv /\ ExportTypeOK /\ hasMore \in BOOLEAN
    /\ InlineShape /\ PulledInv /\ AnswerInv /\ SeenInv
    /\ BatchesOnly /\ ReportInv /\ EndInv

LEMMA OneStream == Default \in Streams /\ \A s \in Streams : s = Default
BY InlineAssumption

LEMMA InvInit == Init => InlineInv
<1> SUFFICES ASSUME Init PROVE InlineInv
  OBVIOUS
<1>0. /\ sent = <<>> /\ waiters = <<ReaderWaiter(Default)>> /\ nread = 0 /\ permits = Capacity
      /\ closed = FALSE /\ cancel = FALSE /\ outcome = "open"
      /\ answer = "open" /\ pulled = {} /\ source = "receiver"
      /\ Rows \in [Streams -> Nat] /\ Skew \subseteq Int
  BY ReadAssumption DEF Init, ReceiverInit, ExportInit
<1>1. PICK n \in 1 .. Rows[Default], k \in Skew :
          /\ hasMore \in BOOLEAN
          /\ ~hasMore => n = Rows[Default]
          /\ page = [s \in Streams |-> [lo |-> 0, hi |-> n, bad |-> k # 0]]
          /\ offset = [s \in Streams |-> n + k]
  BY DEF Init
<1>2. ChannelTypeOK
  <2>1. sent \in Seq(Items) /\ Len(sent) = 0
    BY <1>0, EmptySeq
  <2>2. waiters \in Seq(Waiters)
    BY <1>0, OneStream, WaiterTypes
  <2>3. permits \in Nat
    BY <1>0, CapacityAssumption
  <2>4. nread \in 0 .. Len(sent)
    BY <1>0, <2>1
  <2>5. closed \in BOOLEAN /\ cancel \in BOOLEAN
    BY <1>0
  <2> QED
    BY <2>1, <2>2, <2>3, <2>4, <2>5 DEF ChannelTypeOK
<1>3. QueueTypeOK
  BY DEF Init, QueueInit, QueueTypeOK
<1>4. ReaderTypeOK
  <2>1. n \in Int /\ n + k \in Int /\ (k # 0) \in BOOLEAN
    BY <1>0, <1>1, OneStream
  <2>2. page \in [Streams -> [lo : Int, hi : Int, bad : BOOLEAN]] /\ offset \in [Streams -> Int]
    BY <1>1, <2>1
  <2> QED
    BY <2>2 DEF Init, ReaderTypeOK, ReaderStates
<1>5. ReadTypeOK
  BY <1>2, <1>3, <1>4 DEF Init, ReceiverInit, ReceiverTypeOK, ReadTypeOK
<1>6. Fresh
  <2>1. Started(Default)
    <3>1. page[Default].lo = 0 /\ page[Default].hi = n /\ page[Default].bad = (k # 0)
          /\ offset[Default] = n + k /\ state[Default] = "FirstPage"
      BY <1>1, OneStream DEF Init
    <3> QED
      BY <3>1 DEF Started
  <2> QED
    BY <1>0, <2>1, OneStream DEF Init, Fresh
<1>7. InlineShape
  BY <1>1, OneStream DEF Init, InlineShape
<1>8. ExportTypeOK
  BY DEF Init, ExportInit, ExportTypeOK
<1>9. PartInv
  BY <1>5, <1>6, FreshInv
<1>10. PulledInv /\ AnswerInv /\ SeenInv /\ BatchesOnly /\ ReportInv /\ EndInv
  BY <1>0 DEF PulledInv, AnswerInv, SeenInv, Seen, BatchesOnly, ReportInv, EndInv
<1> QED
  BY <1>1, <1>7, <1>8, <1>9, <1>10 DEF InlineInv

-----------------------------------------------------------------------------
(* The steps.                                                              *)

\* The calls from Python come to nothing, or to one step of the receiver.
LEMMA PythonStep ==
    ASSUME Python
    PROVE  \/ UNCHANGED <<vars, pulled, answer>>
           \/ Drop /\ pulled' = pulled /\ answer' \in {answer, "released", "interrupt"}
           \/ RecvBatch /\ pulled' = pulled \cup {nread + 1} /\ answer' = answer
           \/ RecvErr /\ pulled' = pulled /\ answer' = "err"
           \/ RecvNone(SendersGone) /\ pulled' = pulled /\ answer' = "end"
BY DEF Python, ArrowCStream, ArrowCStreamAgain, ExporterDropped, Release, Signal, NextCalled,
       NextAtEnd, Pull, Interrupt, NoInterrupt, PullBatch, PullLast, Timeout, exportVars

LEMMA StepOfPart == ASSUME [Next]_inlineVars PROVE PartStep /\ hasMore' = hasMore
<1>1. CASE Background /\ UNCHANGED <<exportVars, hasMore>>
  <2>1. FirstPagePermit(Default, hasMore) =>
            \E more \in BOOLEAN : FirstPagePermit(Default, more)
    <3>1. CASE hasMore
      <4>1. FirstPagePermit(Default, hasMore) => FirstPagePermit(Default, TRUE)
        BY <3>1 DEF FirstPagePermit
      <4> QED
        BY <4>1
    <3>2. CASE ~hasMore
      <4>1. FirstPagePermit(Default, hasMore) => FirstPagePermit(Default, FALSE)
        BY <3>2 DEF FirstPagePermit
      <4> QED
        BY <4>1
    <3> QED
      BY <3>1, <3>2
  <2> QED
    BY <1>1, <2>1, OneStream DEF Background, Reader, Decoder, PartStep, ReaderStep
<1>2. CASE Python /\ UNCHANGED hasMore
  <2>1. SendersGone \in BOOLEAN
    BY DEF SendersGone
  <2> QED
    BY <1>2, <2>1, PythonStep DEF PartStep, RecvStep, vars
<1>3. CASE UNCHANGED inlineVars
  BY <1>3 DEF inlineVars, PartStep
<1> QED
  BY <1>1, <1>2, <1>3 DEF Next

\* Without cancellation the task ends at the inline page only if it has it all.
LEMMA EndsAtFirstPage ==
    ASSUME InlineInv, [Next]_inlineVars
    PROVE  FirstPageIsAll
<1> SUFFICES ASSUME Sound(Default), state[Default] = "FirstPage",
                    state'[Default] = "Terminated", ~cancel
             PROVE  offset[Default] = Rows[Default]
  BY OneStream DEF FirstPageIsAll
<1>1. ~closed /\ outcome = "open" /\ state \in [Streams -> ReaderStates]
  BY DEF InlineInv, PartInv, FlowInv, FlagInv, ReadTypeOK, ReaderTypeOK
<1>2. state' # state
  OBVIOUS
<1>3. FirstPagePermit(Default, hasMore)
  <2>1. ~ReadRows(Default)
    BY DEF ReadRows, ServiceStep, ConnectOk, ConnectErr, Heartbeat, SchemaError, EmptyMessage,
           PageError, SwitchPage, Page, StreamErr, StreamEof, Reading
  <2>2. ~Advance(Default) /\ ~TaskAborted(Default)
    BY <1>1 DEF Advance, LocalStep, Cancelled, BackoffElapsed, EnqueuePermit, EnqueueRefused,
                SendFatal, TaskAborted
  <2>3. ~Decoder
    BY <1>2 DEF Decoder, Drain, Decode, readerVars
  <2>4. ~Python
    BY <1>2, PythonStep DEF Drop, RecvBatch, RecvErr, RecvNone, vars, readerVars
  <2>5. ~UNCHANGED inlineVars
    BY <1>2 DEF inlineVars, vars, readerVars
  <2> QED
    BY <2>1, <2>2, <2>3, <2>4, <2>5 DEF Next, Background, Reader
<1>4. ~hasMore
  BY <1>1, <1>3, OneStream DEF FirstPagePermit
<1>5. page[Default].hi = Rows[Default]
  BY <1>4 DEF InlineInv, InlineShape
<1>6. OffsetInv(Default) /\ PageHeld(Default)
  BY OneStream DEF InlineInv, PartInv, FlowInv, RowsInv, PageHeld
<1> QED
  BY <1>5, <1>6 DEF OffsetInv

LEMMA ShapeStep ==
    ASSUME InlineInv, PartStep, PartEffect, ShapeKept, hasMore' = hasMore
    PROVE  InlineShape'
<1>1. /\ metadata'[Default] /\ ~schemaTx'[Default] /\ ~check'[Default]
      /\ state'[Default] \notin {"Idle", "Switched"}
      /\ state'[Default] = "FirstPage" => state[Default] = "FirstPage"
  BY OneStream DEF InlineInv, InlineShape, ShapeKept
<1>2. ASSUME state'[Default] = "FirstPage" PROVE page'[Default] = page[Default]
  <2>1. ASSUME NEW s \in Streams, ReaderSides(s), ReaderEffect(s)
        PROVE  page'[Default] = page[Default]
    <3>1. s = Default
      BY <2>1, OneStream
    <3> QED
      BY <1>2, <2>1, <3>1
         DEF ReaderEffect, ReaderQuiet, ReaderPage, ReaderPush, ReaderErred, PageHeld
  <2> QED
    BY <2>1 DEF PartEffect, JobSides, QueueIdles, RecvEffect, SpawnEffect, readerVars
<1> QED
  BY <1>1, <1>2 DEF InlineInv, InlineShape

LEMMA PulledStep ==
    ASSUME InlineInv, PartStep, PartEffect, [Next]_inlineVars
    PROVE  PulledInv' /\ AnswerInv'
<1>1. /\ Len(sent) \in Nat /\ nread \in 0 .. Len(sent)
      /\ \A i \in 1 .. Len(sent) : sent'[i] = sent[i]
  BY LogKept DEF InlineInv, PartInv, ReadTypeOK, ChannelTypeOK
<1>2. ASSUME UNCHANGED <<nread, pulled>> PROVE PulledInv'
  BY <1>1, <1>2 DEF InlineInv, PulledInv
<1>3. CASE UNCHANGED <<nread, outcome, pulled, answer>>
  BY <1>2, <1>3 DEF InlineInv, AnswerInv
<1>4. CASE Drop /\ pulled' = pulled /\ answer' \in {answer, "released", "interrupt"}
  BY <1>2, <1>4 DEF Drop, Abort, InlineInv, AnswerInv
<1>5. CASE RecvBatch /\ pulled' = pulled \cup {nread + 1} /\ answer' = answer
  <2>1. PulledInv'
    BY <1>1, <1>5 DEF RecvBatch, InlineInv, PulledInv
  <2> QED
    BY <1>5, <2>1 DEF RecvBatch, InlineInv, AnswerInv
<1>6. CASE RecvErr /\ pulled' = pulled /\ answer' = "err"
  <2>1. PulledInv'
    BY <1>1, <1>6 DEF RecvErr, InlineInv, PulledInv
  <2> QED
    BY <1>6, <2>1 DEF RecvErr, Abort, AnswerInv
<1>7. CASE RecvNone(SendersGone) /\ pulled' = pulled /\ answer' = "end"
  BY <1>2, <1>7 DEF RecvNone, Abort, AnswerInv
<1>8. CASE Background /\ UNCHANGED exportVars
  <2>0. ReadTypeOK /\ FlagInv /\ BoundsInv /\ hasMore \in BOOLEAN
    BY DEF InlineInv, PartInv, FlowInv
  <2>1. CASE Reader \/ TaskAborted(Default)
    <3>1. ReaderStep(Default) \/ TaskAborted(Default)
      BY <2>0, <2>1 DEF Reader, ReaderStep
    <3>2. ReaderSides(Default)
      BY <2>0, <3>1, OneStream, ReaderHasSides
    <3> QED
      BY <1>3, <1>8, <3>2 DEF ReaderSides, exportVars
  <2>2. CASE Drain(Default)
    <3>1. UNCHANGED <<nread, outcome>>
      BY <2>0, <2>2, OneStream, DrainHasEffect DEF JobSides, QueueIdles
    <3> QED
      BY <1>3, <1>8, <3>1 DEF exportVars
  <2>3. CASE \E j \in jobs : Decode(j)
    <3>1. UNCHANGED <<nread, outcome>>
      BY <2>0, <2>3, DecodeEffect DEF JobSides
    <3> QED
      BY <1>3, <1>8, <3>1 DEF exportVars
  <2> QED
    BY <1>8, <2>1, <2>2, <2>3 DEF Background, Decoder
<1>9. CASE Python
  BY <1>3, <1>4, <1>5, <1>6, <1>7, <1>9, PythonStep DEF vars, chanVars
<1>10. CASE UNCHANGED inlineVars
  BY <1>3, <1>10 DEF inlineVars, vars, chanVars, exportVars
<1> QED
  BY <1>8, <1>9, <1>10 DEF Next

\* Only Python's calls end the read.
LEMMA PythonEnds == ASSUME [Next]_inlineVars, outcome' # outcome PROVE Python
BY DEF Next, Background, Reader, Decoder, FirstPagePermit, ReadRows, Advance,
       TaskAborted, Drain, Decode, inlineVars, vars

LEMMA SeenStep ==
    ASSUME SeenInv, [Next]_inlineVars
    PROVE  SeenInv'
<1>1. CASE Python
  <2>1. CASE ArrowCStream \/ ArrowCStreamAgain \/ Signal \/ NextCalled \/ NextAtEnd \/ NoInterrupt
             \/ Timeout(SendersGone)
    BY <2>1 DEF ArrowCStream, ArrowCStreamAgain, Signal, NextCalled, NextAtEnd, NoInterrupt,
                Timeout, exportVars, vars, SeenInv, Seen
  <2>2. CASE ExporterDropped \/ Release \/ Interrupt
    BY <2>2 DEF ExporterDropped, Release, Interrupt, Drop, Abort, SeenInv, Seen
  <2>3. CASE PullBatch
    BY <2>3 DEF PullBatch, RecvBatch, SeenInv, Seen
  <2>4. CASE PullLast(SendersGone)
    BY <2>4 DEF PullLast, RecvErr, RecvNone, Abort, SeenInv, Seen
  <2> QED
    BY <1>1, <2>1, <2>2, <2>3, <2>4 DEF Python, Pull
<1>2. CASE ~Python
  <2>1. outcome' = outcome
    BY <1>2, PythonEnds
  <2>2. UNCHANGED exportVars
    BY <1>2 DEF Next, inlineVars
  <2> QED
    BY <2>1, <2>2 DEF exportVars, SeenInv, Seen
<1> QED
  BY <1>1, <1>2

LEMMA ReportStep ==
    ASSUME InlineInv, PartStep
    PROVE  ReportInv'
<1> SUFFICES ASSUME cancel', outcome' = "open" PROVE ErrOnWay'
  BY DEF ReportInv
<1>1. ReadTypeOK /\ FlagInv /\ BoundsInv
  BY DEF InlineInv, PartInv, FlowInv
<1>2. ErrOnWay' \/ (cancel /\ ~ErrOnWay) \/ \E s \in Streams : schemaTx[s]
  BY <1>1, ErrOnWayStep
<1>3. outcome = "open"
  BY ConsumerMoves DEF InlineInv, RecvStep, RecvBatch, RecvErr, RecvNone, Drop, Abort
<1> QED
  BY <1>2, <1>3, OneStream DEF InlineInv, InlineShape, ReportInv

\* recv() returns None only when every row has been received.
LEMMA EndIsComplete ==
    ASSUME InlineInv, RecvNone(SendersGone)
    PROVE  \A r \in 0 .. Rows[Default] - 1 : Copies(Default, r, Received) = 1
<1>1. nread = Len(sent) /\ outcome = "open" /\ jobs = {} /\ state[Default] \in Stopped
  BY DEF RecvNone, Abort, SendersGone
<1>2. nread \in Nat /\ Received = 1 .. Len(sent)
  BY <1>1, LogLength DEF InlineInv, PartInv, Received
<1>3. state[Default] = "Terminated" /\ metadata[Default]
  BY <1>1 DEF InlineInv, InlineShape, Stopped
<1>4. ~cancel
  BY <1>1, <1>2, <1>3, OneStream
     DEF InlineInv, ReportInv, ErrOnWay, ErrQueued, ErrInJob, ErrInReader
<1> QED
  BY <1>1, <1>2, <1>3, <1>4, AllRowsReceived, OneStream DEF InlineInv

LEMMA EndStep ==
    ASSUME InlineInv, PartStep, PartEffect, [Next]_inlineVars
    PROVE  EndInv'
<1> SUFFICES ASSUME outcome' = "end", NEW r \in 0 .. Rows[Default] - 1
             PROVE  Copies(Default, r, Received)' = 1
  BY DEF EndInv
<1>1. Received \in SUBSET (1 .. Len(sent)) /\ ReadTypeOK
  BY LogLength DEF InlineInv, PartInv, ReadTypeOK, ChannelTypeOK, Received
<1>2. nread' = nread => Copies(Default, r, Received)' = Copies(Default, r, Received)
  BY <1>1, CopiesKept DEF Received
<1>3. CASE UNCHANGED <<nread, outcome>>
  BY <1>2, <1>3 DEF InlineInv, EndInv
<1>4. CASE outcome' # outcome
  <2>1. Python
    BY <1>4, PythonEnds
  <2>2. RecvNone(SendersGone)
    BY <1>4, <2>1, PythonStep DEF RecvBatch, RecvErr, Drop, Abort, vars
  <2> QED
    BY <1>2, <2>2, EndIsComplete DEF RecvNone
<1>5. CASE RecvStep /\ outcome' = outcome
  BY <1>5 DEF RecvStep, RecvBatch, RecvErr, RecvNone, Drop, Abort
<1> QED
  BY <1>3, <1>4, <1>5, ConsumerMoves DEF InlineInv

LEMMA ExportTypes ==
    ASSUME InlineInv, PartInv', PulledInv', [Next]_inlineVars
    PROVE  ExportTypeOK'
<1>1. pulled' \subseteq 1 .. Len(sent')
  <2>1. Len(sent') \in Nat /\ nread' \in 0 .. Len(sent')
    BY LenProperties DEF PartInv, ReadTypeOK, ChannelTypeOK
  <2> QED
    BY <2>1 DEF PulledInv
<1>2. CASE UNCHANGED exportVars
  BY <1>1, <1>2 DEF exportVars, InlineInv, ExportTypeOK
<1>3. CASE Python
  BY <1>1, <1>3
     DEF Python, ArrowCStream, ArrowCStreamAgain, ExporterDropped, Release, Signal, NextCalled,
         NextAtEnd, Pull, Interrupt, NoInterrupt, PullBatch, PullLast, Timeout, exportVars,
         InlineInv, ExportTypeOK
<1> QED
  BY <1>2, <1>3 DEF Next, inlineVars

LEMMA InvStep == InlineInv /\ [Next]_inlineVars => InlineInv'
<1> SUFFICES ASSUME InlineInv, [Next]_inlineVars PROVE InlineInv'
  OBVIOUS
<1>1. PartStep /\ hasMore' = hasMore
  BY StepOfPart
<1>2. PartInv' /\ PartEffect
  BY <1>1, EndsAtFirstPage, PartInvStep DEF InlineInv
<1>3. ShapeKept
  BY <1>1, ShapeStays DEF InlineInv, PartInv
<1>4. InlineShape' /\ PulledInv' /\ AnswerInv' /\ ReportInv' /\ EndInv'
  BY <1>1, <1>2, <1>3, ShapeStep, PulledStep, ReportStep, EndStep
<1>5. SeenInv' /\ BatchesOnly'
  BY <1>1, <1>2, SeenStep, BatchesStep DEF InlineInv
<1>6. ExportTypeOK'
  BY <1>2, <1>4, ExportTypes
<1> QED
  BY <1>1, <1>2, <1>4, <1>5, <1>6 DEF InlineInv

\* The invariant all the others follow from.
THEOREM Invariance == Spec => []InlineInv
BY InvInit, InvStep, PTL DEF Spec

-----------------------------------------------------------------------------
(* What the run checks on a small instance.                                *)

\* Every variable of the read and of the Python iterator keeps its type.
THEOREM TypeCorrect == Spec => []TypeOK
<1>1. InlineInv => TypeOK
  BY DEF InlineInv, PartInv, ReadTypeOK, TypeOK
<1> QED
  BY <1>1, Invariance, PTL

\* When next() has returned None, Polars has every row of the query exactly once:
\* the rows of the inline page and those that read_query_stream reads from
\* offset page_row_count on meet without gap or overlap, even if page_row_count
\* is wrong, and a pull that timed out has taken nothing from the channel.
THEOREM PolarsHasAll == Spec => []PythonReadIsComplete
<1>1. InlineInv => PythonReadIsComplete
  <2> SUFFICES ASSUME InlineInv, answer = "end", NEW r \in 0 .. Rows[Default] - 1
               PROVE  Copies(Default, r, pulled) = 1
    BY DEF PythonReadIsComplete
  <2>1. Copies(Default, r, Received) = 1
    BY DEF InlineInv, AnswerInv, EndInv
  <2>2. {i \in pulled : Covers(sent[i], Default, r)} = {i \in Received : Covers(sent[i], Default, r)}
    BY DEF InlineInv, PulledInv, Received, Covers
  <2> QED
    BY <2>1, <2>2 DEF Copies
<1> QED
  BY <1>1, Invariance, PTL

\* With maintain_order Polars is given the rows in order, the inline page first.
THEOREM PrefixInOrder == Spec => []OrderedPrefix
<1>1. InlineInv => OrderedPrefix
  BY InOrderMeansPrefix DEF InlineInv, PartInv, FlowInv
<1> QED
  BY <1>1, Invariance, PTL

\* The permit of the inline page is accounted for like any other.
THEOREM SlotsConserved == Spec => []PermitsConserved
<1>1. InlineInv => PermitsConserved
  BY DEF InlineInv, PartInv, FlowInv
<1> QED
  BY <1>1, Invariance, PTL

\* After an interrupt, an error, the end or the release of the stream,
\* ReceiverIterator gives Polars no batch, and no other answer, any more.
THEOREM AnswerIsFinal == Spec => LastAnswerIsLast
<1>1. InlineInv /\ [Next]_inlineVars
        => [answer # "open" => UNCHANGED <<answer, pulled>>]_<<vars, exportVars>>
  <2> SUFFICES ASSUME InlineInv, [Next]_inlineVars, answer # "open"
               PROVE  UNCHANGED <<answer, pulled>>
    OBVIOUS
  <2>1. outcome # "open"
    BY DEF InlineInv, AnswerInv
  <2>2. ~Drop /\ ~RecvBatch /\ ~RecvErr /\ ~RecvNone(SendersGone)
    BY <2>1 DEF Drop, RecvBatch, RecvErr, RecvNone, Abort
  <2> QED
    BY <2>2, PythonStep DEF Next, inlineVars, exportVars
<1> QED
  BY <1>1, Invariance, PTL DEF Spec, LastAnswerIsLast
-----------------------------------------------------------------------------
(* The refinement of BatchDelivery.                                        *)

LEMMA DeliverStep ==
    ASSUME InlineInv, SeenInv', RecvBatch
    PROVE  Delivery!Next
<1>1. PICK b : b = sent[nread + 1]
  OBVIOUS
<1>2. /\ b.s \in Streams /\ b = [kind |-> "batch", s |-> b.s, lo |-> b.lo, hi |-> b.hi]
      /\ b.lo \in 0 .. Rows[b.s] - 1 /\ b.hi \in b.lo + 1 .. Rows[b.s]
      /\ Given' = Append(Given, b) /\ outcome = "open" /\ outcome' = "open"
      /\ MaintainOrder => ContinuesGiven(b)
  BY <1>1, GivenGrows DEF InlineInv
<1>3. MaintainOrder => Delivery!Continues(b)
  BY <1>2 DEF ContinuesGiven, Delivery!Continues, Delivery!Of
<1>4. Delivery!From(Streams)
  BY <1>2, GivenFrom DEF InlineInv, PartInv, Delivery!From
<1>5. Seen = "open" /\ Seen' = "open"
  BY <1>2 DEF InlineInv, SeenInv
<1>6. Delivery!Deliver
  BY <1>2, <1>3, <1>4, <1>5 DEF Delivery!Deliver
<1> QED
  BY <1>6 DEF Delivery!Next

LEMMA StopStep ==
    ASSUME InlineInv, SeenInv', RecvErr \/ Drop
    PROVE  Delivery!Next
<1>1. Given' = Given /\ outcome = "open"
  BY GivenAtEnd DEF InlineInv, PartInv
<1>2. outcome' \in {"err", "dropped"}
  BY DEF RecvErr, Drop, Abort
<1> QED
  BY <1>1, <1>2 DEF InlineInv, SeenInv, Delivery!Next, Delivery!Stop

\* The instance counts as this module does.
LEMMA SameCardinality == ASSUME NEW S PROVE Delivery!Cardinality(S) = Cardinality(S)
BY DEF Cardinality, Delivery!Cardinality

LEMMA EndOfDelivery ==
    ASSUME InlineInv, SeenInv', RecvNone(SendersGone)
    PROVE  Delivery!Next
<1>0. outcome' = "end" /\ SendersGone \in BOOLEAN /\ ReadTypeOK /\ BatchesOnly
  BY DEF RecvNone, Abort, SendersGone, InlineInv, PartInv
<1>1. Given' = Given /\ outcome = "open"
  BY <1>0, GivenAtEnd
<1>2. /\ DOMAIN Given = 1 .. nread
      /\ \A i \in 1 .. nread : Given[i] = sent[i] /\ sent[i].kind = "batch"
  BY <1>0, <1>1, GivenIs
<1>3. ASSUME NEW s \in Streams, NEW r \in 0 .. Rows[s] - 1
      PROVE  Delivery!Cardinality(Delivery!Holders(s, r)) = 1
  <2>1. Delivery!Holders(s, r) = {i \in 1 .. nread : Covers(sent[i], s, r)}
    BY <1>2 DEF Delivery!Holders, Delivery!Of, Covers
  <2>2. Cardinality({i \in 1 .. nread : Covers(sent[i], s, r)}) = 1
    BY EndIsComplete, OneStream DEF Copies, Received
  <2> QED
    BY <2>1, <2>2, SameCardinality
<1>4. Delivery!From(Streams)
  BY <1>0, <1>1, GivenFrom DEF Delivery!From
<1>5. Delivery!Complete
  BY <1>3, <1>4, Zenon DEF Delivery!Complete
<1>6. Seen = "open" /\ Seen' = "end"
  BY <1>0, <1>1 DEF InlineInv, SeenInv
<1>7. Delivery!End
  BY <1>1, <1>5, <1>6 DEF Delivery!End
<1> QED
  BY <1>7 DEF Delivery!Next

LEMMA DeliveryStep ==
    InlineInv /\ InlineInv' /\ [Next]_inlineVars => Delivery!Next \/ UNCHANGED <<Given, Seen>>
<1> SUFFICES ASSUME InlineInv, InlineInv', [Next]_inlineVars
             PROVE  Delivery!Next \/ UNCHANGED <<Given, Seen>>
  OBVIOUS
<1>1. PartStep /\ PartInv /\ SeenInv /\ SeenInv'
  BY StepOfPart DEF InlineInv
<1>2. PartEffect /\ ReadTypeOK /\ ReadTypeOK'
  BY <1>1, StepHasEffect DEF InlineInv, PartInv, FlowInv
<1>3. CASE UNCHANGED <<nread, outcome>>
  BY <1>1, <1>2, <1>3, GivenStays DEF SeenInv
<1>4. CASE RecvBatch
  BY <1>1, <1>4, DeliverStep
<1>5. CASE RecvErr \/ Drop
  BY <1>1, <1>5, StopStep
<1>6. CASE \E gone \in BOOLEAN : RecvNone(gone)
  <2>1. outcome' = "end" /\ outcome = "open"
    BY <1>6 DEF RecvNone, Abort
  <2>2. RecvNone(SendersGone)
    BY <2>1, PythonEnds, PythonStep DEF RecvBatch, RecvErr, Drop, Abort, vars
  <2> QED
    BY <1>1, <2>2, EndOfDelivery
<1> QED
  BY <1>1, <1>3, <1>4, <1>5, <1>6, ConsumerMoves DEF RecvStep

\* A query result with an inline first page, as Python sees it, implements the
\* delivery of batches one by one: the exporter, the iterator, its timeouts and
\* interrupts add nothing to what the receiver returns and take nothing away,
\* and next() returns None only after the last row.
THEOREM Refinement == Spec => ImplementsDelivery
<1>1. Init => Delivery!Init
  <2> SUFFICES ASSUME Init PROVE Delivery!Init
    OBVIOUS
  <2>1. nread = 0 /\ outcome = "open" /\ Seen = "open"
    BY DEF Init, ReceiverInit, ExportInit, Seen
  <2>2. SubSeq(sent, 1, 0) = <<>>
    BY SubSeqEmpty
  <2> QED
    BY <2>1, <2>2 DEF Given, Delivery!Init
<1>2. InlineInv /\ InlineInv' /\ [Next]_inlineVars => [Delivery!Next]_<<Given, Seen>>
  BY DeliveryStep
<1> QED
  BY <1>1, <1>2, Invariance, PTL DEF Spec, ImplementsDelivery, Delivery!Spec
=============================================================================
