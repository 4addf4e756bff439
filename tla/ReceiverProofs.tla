--------------------------- MODULE ReceiverProofs ---------------------------
(***************************************************************************)
(* What the parts of a read (channel, decode queue, reader tasks and       *)
(* receiver) preserve, whichever read they are composed into: lemmas for   *)
(* TableReadProofs, InlinePageProofs and JobStreamProofs, for every number *)
(* of streams, rows, slots, workers and retries.  The second half says     *)
(* where the rows of a stream are while they travel from the service to    *)
(* the consumer, and in which order: that no row is lost, doubled or       *)
(* overtaken.                                                              *)
(***************************************************************************)
EXTENDS Receiver, SequenceTheorems, FiniteSetTheorems, TLAPS

-----------------------------------------------------------------------------
(* Types of the channel operations.                                        *)

\* Leaving the semaphore's queue keeps it a sequence of waiters.
LEMMA LeaveType ==
    ASSUME waiters \in Seq(Waiters), NEW w, Leave(w)
    PROVE  waiters' \in Seq(Waiters)
<1>1. CASE UNCHANGED waiters
  BY <1>1
<1>2. ASSUME NEW i \in DOMAIN waiters,
             waiters' = [k \in 1 .. Len(waiters) - 1 |-> waiters[IF k < i THEN k ELSE k + 1]]
      PROVE  waiters' \in Seq(Waiters)
  <2>1. Len(waiters) \in Nat /\ DOMAIN waiters = 1 .. Len(waiters)
    BY LenProperties
  <2>2. Len(waiters) - 1 \in Nat
    BY <2>1, <1>2
  <2>3. \A k \in 1 .. Len(waiters) : waiters[k] \in Waiters
    BY <2>1, ElementOfSeq
  <2>4. \A k \in 1 .. Len(waiters) - 1 : waiters[IF k < i THEN k ELSE k + 1] \in Waiters
    BY <2>1, <2>3, <1>2
  <2> QED
    BY <2>2, <2>4, <1>2, IsASeq
<1> QED
  BY <1>1, <1>2 DEF Leave

\* Joining it does, too.
LEMMA WaitType ==
    ASSUME waiters \in Seq(Waiters), NEW w \in Waiters, Wait(w)
    PROVE  waiters' \in Seq(Waiters)
BY AppendProperties DEF Wait

LEMMA WaiterTypes ==
    /\ \A s \in Streams : ReaderWaiter(s) \in Waiters
    /\ \A j \in Jobs : JobWaiter(j) \in Waiters
BY DEF ReaderWaiter, JobWaiter, Waiter, Waiters, Jobs

LEMMA ItemTypes ==
    /\ \A s \in Streams : Err(s) \in Items
    /\ \A s \in Streams : \A lo, hi \in Int : Batch(s, lo, hi) \in Items
BY DEF Err, Batch, Items

\* A granted slot leaves a counter and a queue.
LEMMA ReserveType ==
    ASSUME permits \in Nat, waiters \in Seq(Waiters), NEW w, ReserveOwned(w)
    PROVE  permits' \in Nat /\ waiters' \in Seq(Waiters)
BY HeadTailProperties DEF ReserveOwned

\* One more item in the log.
LEMMA SentGrows ==
    ASSUME sent \in Seq(Items), nread \in 0 .. Len(sent), NEW item \in Items,
           sent' = Append(sent, item), nread' = nread
    PROVE  /\ sent' \in Seq(Items)
           /\ Len(sent') = Len(sent) + 1
           /\ nread' \in 0 .. Len(sent')
           /\ sent'[Len(sent) + 1] = item
           /\ \A i \in 1 .. Len(sent) : sent'[i] = sent[i]
<1>1. Len(sent) \in Nat
  BY LenProperties
<1> QED
  BY <1>1, AppendProperties

-----------------------------------------------------------------------------
(* Types of the decode queue.                                              *)

LEMMA MoveType ==
    ASSUME jobs \subseteq Jobs, NEW j \in jobs, NEW ph \in Phases, MoveTo(j, ph)
    PROVE  jobs' \subseteq Jobs
BY DEF MoveTo, Jobs

LEMMA AfterBatchType ==
    ASSUME jobs \subseteq Jobs, NEW j \in jobs, NEW m \in Int, AfterBatch(j, m)
    PROVE  jobs' \subseteq Jobs
<1>1. "more" \in Phases
  BY DEF Phases
<1> QED
  BY <1>1 DEF AfterBatch, Finish, Jobs

\* A page pushed into the decode queue is a job of the right type.
LEMMA PushType ==
    ASSUME QueueTypeOK, ReaderTypeOK, NEW s \in Streams, Push(s, page[s])
    PROVE  QueueTypeOK'
<1>1. "queued" \in Phases /\ "spawned" \in Phases
  BY DEF Phases
<1>2. page[s].lo \in Int /\ page[s].hi \in Int /\ page[s].bad \in BOOLEAN
  BY DEF ReaderTypeOK
<1>3. pushed[s] \in Nat
  BY DEF QueueTypeOK
<1>4. jobs' \subseteq Jobs
  BY <1>1, <1>2, <1>3 DEF Push, QueueTypeOK, Jobs
<1>5. MaintainOrder \in BOOLEAN
  BY DecodeAssumption
<1>6. running' \in [Streams -> BOOLEAN] /\ pushed' \in [Streams -> Nat]
  BY <1>3, <1>5 DEF Push, QueueTypeOK
<1> QED
  BY <1>4, <1>6 DEF QueueTypeOK

-----------------------------------------------------------------------------
(* The types of the read's variables are kept by every step of an actor.   *)

ReadTypeOK == ChannelTypeOK /\ QueueTypeOK /\ ReaderTypeOK /\ ReceiverTypeOK

LEMMA DecodeTypes == ASSUME ReadTypeOK, NEW j \in jobs, Decode(j) PROVE ReadTypeOK'
<1> USE DEF ReadTypeOK
<1>0. j \in Jobs /\ j.s \in Streams /\ j.lo \in Int /\ j.hi \in Int
  BY DEF QueueTypeOK, Jobs
<1>1. ReaderTypeOK' /\ ReceiverTypeOK'
  BY DEF Decode, readerVars, ReaderTypeOK, ReceiverTypeOK
<1>2. running' = running /\ pushed' = pushed
  BY DEF Decode, JobStep, JobSkip, JobStart, JobAbandon, JobDecode, JobFail, JobSendErr,
         JobSendFirst, JobStopMore, JobContinue, JobSendMore, JobSendClosed
<1>3. BatchEnds(j) \subseteq Int
  BY <1>0 DEF BatchEnds
<1>4. jobs' \subseteq Jobs /\ ChannelTypeOK' => ReadTypeOK'
  BY <1>1, <1>2 DEF QueueTypeOK
<1>5. {"decoding", "decoded", "failed", "failing", "blocking"} \subseteq Phases
  BY DEF Phases
<1>6. CASE JobSkip(j) \/ JobAbandon(j)
  BY <1>4, <1>6 DEF JobSkip, JobAbandon, Finish, DropPermit, QueueTypeOK, ChannelTypeOK
<1>7. CASE JobStart(j) \/ JobDecode(j)
  <2>1. jobs' \subseteq Jobs
    BY <1>5, <1>7, MoveType DEF JobStart, JobDecode, QueueTypeOK
  <2> QED
    BY <1>4, <1>7, <2>1 DEF JobStart, JobDecode, chanVars, ChannelTypeOK
<1>8. CASE JobFail(j)
  <2>1. jobs' \subseteq Jobs
    BY <1>5, <1>8, MoveType DEF JobFail, QueueTypeOK
  <2> QED
    BY <1>4, <1>8, <2>1 DEF JobFail, ChannelTypeOK
<1>9. CASE JobSendErr(j)
  <2>1. jobs' \subseteq Jobs
    BY <1>9 DEF JobSendErr, Finish, QueueTypeOK
  <2>2. Err(j.s) \in Items
    BY <1>0, ItemTypes
  <2> QED
    BY <1>4, <1>9, <2>1, <2>2, SentGrows DEF JobSendErr, PermitSend, ChannelTypeOK
<1>10. CASE JobSendFirst(j)
  <2>1. PICK m \in BatchEnds(j) : PermitSend(Batch(j.s, j.lo, m)) /\ AfterBatch(j, m)
    BY <1>10 DEF JobSendFirst
  <2>2. Batch(j.s, j.lo, m) \in Items
    BY <1>0, <1>3, ItemTypes
  <2>3. jobs' \subseteq Jobs
    BY <1>3, <2>1, AfterBatchType DEF QueueTypeOK
  <2> QED
    BY <1>4, <1>10, <2>1, <2>2, <2>3, SentGrows DEF JobSendFirst, PermitSend, ChannelTypeOK
<1>11. CASE JobStopMore(j)
  BY <1>4, <1>11 DEF JobStopMore, Finish, chanVars, QueueTypeOK, ChannelTypeOK
<1>12. CASE JobContinue(j)
  <2>1. jobs' \subseteq Jobs
    BY <1>5, <1>12, MoveType DEF JobContinue, QueueTypeOK
  <2>2. waiters' \in Seq(Waiters)
    BY <1>0, <1>12, WaiterTypes, WaitType DEF JobContinue, ChannelTypeOK
  <2> QED
    BY <1>4, <1>12, <2>1, <2>2 DEF JobContinue, ChannelTypeOK
<1>13. CASE JobSendMore(j)
  <2>1. PICK m \in BatchEnds(j) :
            Send(JobWaiter(j), Batch(j.s, j.lo, m)) /\ AfterBatch(j, m)
    BY <1>13 DEF JobSendMore
  <2>2. Batch(j.s, j.lo, m) \in Items
    BY <1>0, <1>3, ItemTypes
  <2>3. jobs' \subseteq Jobs
    BY <1>3, <2>1, AfterBatchType DEF QueueTypeOK
  <2>4. permits' \in Nat /\ waiters' \in Seq(Waiters)
    BY <2>1, ReserveType DEF Send, ChannelTypeOK
  <2> QED
    BY <1>4, <1>13, <2>1, <2>2, <2>3, <2>4, SentGrows DEF JobSendMore, Send, ChannelTypeOK
<1>14. CASE JobSendClosed(j)
  <2>1. waiters' \in Seq(Waiters)
    BY <1>14, LeaveType DEF JobSendClosed, ChannelTypeOK
  <2> QED
    BY <1>4, <1>14, <2>1 DEF JobSendClosed, Finish, QueueTypeOK, ChannelTypeOK
<1> QED
  BY <1>6, <1>7, <1>8, <1>9, <1>10, <1>11, <1>12, <1>13, <1>14 DEF Decode, JobStep

LEMMA DrainTypes == ASSUME ReadTypeOK, NEW s \in Streams, Drain(s) PROVE ReadTypeOK'
<1> USE DEF ReadTypeOK
<1>1. ReaderTypeOK' /\ ReceiverTypeOK'
  BY DEF Drain, readerVars, ReaderTypeOK, ReceiverTypeOK
<1>2. ChannelTypeOK'
  BY DEF Drain, DrainStep, DrainPop, DrainStop, chanVars, ChannelTypeOK
<1>3. CASE DrainPop(s)
  <2>1. PICK j \in Queued(s) : MoveTo(j, "spawned")
    BY <1>3 DEF DrainPop
  <2>2. j \in jobs /\ "spawned" \in Phases
    BY DEF Queued, Phases
  <2> QED
    BY <1>1, <1>2, <1>3, <2>1, <2>2, MoveType DEF DrainPop, QueueTypeOK
<1>4. CASE DrainStop(s)
  BY <1>1, <1>2, <1>4 DEF DrainStop, QueueTypeOK
<1> QED
  BY <1>3, <1>4 DEF Drain, DrainStep

\* Raising a fatal error: the flag, the state and perhaps a place in the queue.
LEMMA FatalTypes ==
    ASSUME ReadTypeOK, NEW s \in Streams, NEW hasTx \in BOOLEAN, Fatal(s, hasTx)
    PROVE  /\ cancel' \in BOOLEAN
           /\ waiters' \in Seq(Waiters)
           /\ state' \in [Streams -> ReaderStates]
<1>1. waiters' \in Seq(Waiters)
  <2>1. waiters \in Seq(Waiters)
    BY DEF ReadTypeOK, ChannelTypeOK
  <2>2. CASE hasTx
    BY <2>1, <2>2 DEF Fatal
  <2>3. CASE ~hasTx
    BY <2>1, <2>3, WaiterTypes, WaitType DEF Fatal
  <2> QED
    BY <2>2, <2>3
<1>2. state' \in [Streams -> ReaderStates]
  <2>1. "Terminated" \in ReaderStates /\ "SendErr" \in ReaderStates
    BY DEF ReaderStates
  <2> QED
    BY <2>1 DEF Fatal, ReadTypeOK, ReaderTypeOK
<1> QED
  BY <1>1, <1>2 DEF Fatal

LEMMA HandleErrorTypes ==
    ASSUME ReadTypeOK, NEW s \in Streams, NEW r \in Nat \cup {NoRetry},
           HandleError(s, r), UNCHANGED outcome
    PROVE  ReadTypeOK'
<1> USE DEF ReadTypeOK
<1>1. schemaTx[s] \in BOOLEAN /\ fails[s] \in Nat
  BY DEF ReaderTypeOK
<1>2. fails' \in [Streams -> Nat]
  BY <1>1 DEF HandleError, ReaderTypeOK
<1>3. QueueTypeOK' /\ ReceiverTypeOK'
  BY DEF HandleError, queueVars, QueueTypeOK, ReceiverTypeOK
<1>4. CASE /\ Fatal(s, schemaTx[s])
           /\ SchemaAfterFatal(s, schemaTx[s])
           /\ UNCHANGED retry
  <2>1. /\ cancel' \in BOOLEAN
        /\ waiters' \in Seq(Waiters)
        /\ state' \in [Streams -> ReaderStates]
    BY <1>1, <1>4, FatalTypes
  <2>2. ChannelTypeOK'
    BY <2>1 DEF HandleError, ChannelTypeOK
  <2>3. ReaderTypeOK'
    BY <1>2, <1>4, <2>1 DEF HandleError, SchemaAfterFatal, ReaderTypeOK
  <2> QED
    BY <1>3, <2>2, <2>3
<1>5. CASE /\ \E throttled \in BOOLEAN :
                retry' = [retry EXCEPT ![s] = IF throttled THEN r + 2 ELSE r + 1]
           /\ state' = [state EXCEPT ![s] = "Backoff"]
           /\ UNCHANGED <<cancel, waiters, schema, schemaTx>>
  <2>1. ChannelTypeOK'
    BY <1>5 DEF HandleError, ChannelTypeOK
  <2>2. "Backoff" \in ReaderStates
    BY DEF ReaderStates
  <2>3. r + 1 \in Nat /\ r + 2 \in Nat
    BY DEF NoRetry
  <2>4. ReaderTypeOK'
    BY <1>2, <1>5, <2>2, <2>3 DEF HandleError, ReaderTypeOK
  <2> QED
    BY <1>3, <2>1, <2>4
<1> QED
  BY <1>4, <1>5 DEF HandleError

LEMMA ReadRowsTypes == ASSUME ReadTypeOK, NEW s \in Streams, ReadRows(s) PROVE ReadTypeOK'
<1> USE DEF ReadTypeOK
<1>1. ReceiverTypeOK' /\ outcome' = outcome
  BY DEF ReadRows, ReceiverTypeOK
<1>2. /\ schemaTx[s] \in BOOLEAN /\ retry[s] \in Nat \cup {NoRetry}
      /\ pos[s] \in Nat /\ offset[s] \in Int /\ Rows[s] \in Nat
  BY ReadAssumption DEF ReaderTypeOK
<1>3. {"Reading", "Enqueue", "Switched", "Terminated"} \subseteq ReaderStates
  BY DEF ReaderStates
<1>4. CASE ConnectOk(s)
  BY <1>1, <1>2, <1>3, <1>4
     DEF ConnectOk, queueVars, chanVars, ChannelTypeOK, QueueTypeOK, ReaderTypeOK
<1>5. CASE ConnectErr(s)
  BY <1>1, <1>2, <1>5, HandleErrorTypes DEF ConnectErr
<1>6. CASE Heartbeat(s)
  BY <1>1, <1>6 DEF Heartbeat, queueVars, chanVars, ChannelTypeOK, QueueTypeOK, ReaderTypeOK
<1>7. CASE SchemaError(s)
  <2>1. /\ cancel' \in BOOLEAN
        /\ waiters' \in Seq(Waiters)
        /\ state' \in [Streams -> ReaderStates]
    BY <1>2, <1>7, FatalTypes DEF SchemaError
  <2>2. ChannelTypeOK' /\ QueueTypeOK'
    BY <1>7, <2>1 DEF SchemaError, queueVars, ChannelTypeOK, QueueTypeOK
  <2> QED
    BY <1>1, <1>7, <2>1, <2>2 DEF SchemaError, SchemaAfterFatal, ReaderTypeOK
<1>8. CASE EmptyMessage(s)
  BY <1>1, <1>8
     DEF EmptyMessage, SchemaKnown, queueVars, chanVars, ChannelTypeOK, QueueTypeOK, ReaderTypeOK
<1>9. CASE PageError(s)
  <2>1. /\ cancel' \in BOOLEAN
        /\ waiters' \in Seq(Waiters)
        /\ state' \in [Streams -> ReaderStates]
    BY <1>9, FatalTypes DEF PageError
  <2>2. ChannelTypeOK' /\ QueueTypeOK'
    BY <1>9, <2>1 DEF PageError, queueVars, ChannelTypeOK, QueueTypeOK
  <2> QED
    BY <1>1, <1>9, <2>1, <2>2 DEF PageError, SchemaKnown, ReaderTypeOK
<1>10. CASE SwitchPage(s)
  BY <1>1, <1>3, <1>10
     DEF SwitchPage, SchemaKnown, queueVars, chanVars, ChannelTypeOK, QueueTypeOK, ReaderTypeOK
<1>11. CASE Page(s)
  <2>1. /\ metadata' \in [Streams -> BOOLEAN] /\ schemaTx' \in [Streams -> BOOLEAN]
        /\ check' \in [Streams -> BOOLEAN] /\ fails' \in [Streams -> Nat]
        /\ schema' \in {"known", "pending", "ok", "empty", "err"}
    BY <1>11 DEF Page, SchemaKnown, ReaderTypeOK
  <2>2. QueueTypeOK' /\ UNCHANGED <<sent, nread, permits, closed>>
    BY <1>11 DEF Page, queueVars, QueueTypeOK
  <2>3. CASE Fatal(s, FALSE) /\ UNCHANGED <<offset, retry, page, pos>>
    <3>1. /\ cancel' \in BOOLEAN
          /\ waiters' \in Seq(Waiters)
          /\ state' \in [Streams -> ReaderStates]
      BY <2>3, FatalTypes
    <3> QED
      BY <1>1, <2>1, <2>2, <2>3, <3>1 DEF ChannelTypeOK, ReaderTypeOK
  <2>4. ASSUME NEW n \in 1 .. Rows[s] - pos[s], NEW k \in Skew,
               offset' = [offset EXCEPT ![s] = @ + n + k],
               pos' = [pos EXCEPT ![s] = @ + n],
               retry' = [retry EXCEPT ![s] = NoRetry],
               page' = [page EXCEPT ![s] =
                          [lo |-> pos[s], hi |-> pos[s] + n, bad |-> k # 0]],
               state' = [state EXCEPT ![s] = "Enqueue"],
               Wait(ReaderWaiter(s)),
               UNCHANGED cancel
        PROVE  ReadTypeOK'
    <3>1. n \in Nat /\ k \in Int
      BY <1>2, ReadAssumption
    <3>2. waiters' \in Seq(Waiters)
      BY <2>4, WaiterTypes, WaitType DEF ChannelTypeOK
    <3>3. ChannelTypeOK'
      BY <2>2, <2>4, <3>2 DEF ChannelTypeOK
    <3>4. offset' \in [Streams -> Int] /\ pos' \in [Streams -> Nat]
      BY <1>2, <2>4, <3>1 DEF ReaderTypeOK
    <3>5. /\ retry' \in [Streams -> Nat \cup {NoRetry}]
          /\ state' \in [Streams -> ReaderStates]
      BY <1>3, <2>4 DEF ReaderTypeOK
    <3>6. [lo |-> pos[s], hi |-> pos[s] + n, bad |-> k # 0] \in [lo : Int, hi : Int, bad : BOOLEAN]
      BY <1>2, <3>1
    <3>7. page' \in [Streams -> [lo : Int, hi : Int, bad : BOOLEAN]]
      BY <2>4, <3>6 DEF ReaderTypeOK
    <3> QED
      BY <1>1, <2>1, <2>2, <3>3, <3>4, <3>5, <3>7 DEF ReaderTypeOK
  <2> QED
    BY <1>11, <2>3, <2>4 DEF Page
<1>12. CASE StreamErr(s)
  <2>1. (IF retry[s] = NoRetry THEN 0 ELSE retry[s]) \in Nat \cup {NoRetry}
    BY <1>2
  <2> QED
    BY <1>1, <1>12, <2>1, HandleErrorTypes DEF StreamErr
<1>13. CASE StreamEof(s)
  BY <1>1, <1>3, <1>13
     DEF StreamEof, queueVars, chanVars, ChannelTypeOK, QueueTypeOK, ReaderTypeOK
<1> QED
  BY <1>4, <1>5, <1>6, <1>7, <1>8, <1>9, <1>10, <1>11, <1>12, <1>13 DEF ReadRows, ServiceStep

LEMMA AdvanceTypes == ASSUME ReadTypeOK, NEW s \in Streams, Advance(s) PROVE ReadTypeOK'
<1> USE DEF ReadTypeOK
<1>1. ReceiverTypeOK'
  BY DEF Advance, ReceiverTypeOK
<1>2. {"Reading", "Connecting", "Terminated"} \subseteq ReaderStates
  BY DEF ReaderStates
<1>3. NoPage \in [lo : Int, hi : Int, bad : BOOLEAN]
  BY DEF NoPage
<1>4. CASE Cancelled(s) \/ BackoffElapsed(s)
  BY <1>1, <1>2, <1>4
     DEF Cancelled, BackoffElapsed, queueVars, chanVars, ChannelTypeOK, QueueTypeOK, ReaderTypeOK
<1>5. CASE EnqueuePermit(s)
  <2>1. QueueTypeOK'
    BY <1>5, PushType DEF EnqueuePermit
  <2>2. permits' \in Nat /\ waiters' \in Seq(Waiters)
    BY <1>5, ReserveType DEF EnqueuePermit, ChannelTypeOK
  <2>3. ReaderTypeOK'
    BY <1>2, <1>3, <1>5 DEF EnqueuePermit, ReaderTypeOK
  <2> QED
    BY <1>1, <1>5, <2>1, <2>2, <2>3 DEF EnqueuePermit, ChannelTypeOK
<1>6. CASE EnqueueRefused(s)
  <2>1. waiters' \in Seq(Waiters)
    BY <1>6, LeaveType DEF EnqueueRefused, ChannelTypeOK
  <2>2. ReaderTypeOK'
    BY <1>2, <1>3, <1>6 DEF EnqueueRefused, ReaderTypeOK
  <2> QED
    BY <1>1, <1>6, <2>1, <2>2 DEF EnqueueRefused, queueVars, ChannelTypeOK, QueueTypeOK
<1>7. CASE SendFatal(s)
  <2>1. QueueTypeOK' /\ ReaderTypeOK'
    BY <1>2, <1>7 DEF SendFatal, queueVars, QueueTypeOK, ReaderTypeOK
  <2>2. CASE Send(ReaderWaiter(s), Err(s))
    <3>1. permits' \in Nat /\ waiters' \in Seq(Waiters)
      BY <2>2, ReserveType DEF Send, ChannelTypeOK
    <3>2. Err(s) \in Items
      BY ItemTypes
    <3> QED
      BY <1>1, <1>7, <2>1, <2>2, <3>1, <3>2, SentGrows DEF SendFatal, Send, ChannelTypeOK
  <2>3. CASE Leave(ReaderWaiter(s)) /\ UNCHANGED <<sent, permits>>
    <3>1. waiters' \in Seq(Waiters)
      BY <2>3, LeaveType DEF ChannelTypeOK
    <3> QED
      BY <1>1, <1>7, <2>1, <2>3, <3>1 DEF SendFatal, ChannelTypeOK
  <2> QED
    BY <1>7, <2>2, <2>3 DEF SendFatal
<1> QED
  BY <1>4, <1>5, <1>6, <1>7 DEF Advance, LocalStep

LEMMA AbortedTypes == ASSUME ReadTypeOK, NEW s \in Streams, TaskAborted(s) PROVE ReadTypeOK'
<1> USE DEF ReadTypeOK
<1>1. waiters' \in Seq(Waiters)
  BY LeaveType DEF TaskAborted, ChannelTypeOK
<1>2. ReaderTypeOK'
  BY DEF TaskAborted, ReaderTypeOK, ReaderStates, NoPage
<1> QED
  BY <1>1, <1>2 DEF TaskAborted, queueVars, ChannelTypeOK, QueueTypeOK, ReceiverTypeOK

\* The handle of a first-page task: the inline page goes into the decode queue.
LEMMA FirstPageTypes ==
    ASSUME ReadTypeOK, NEW s \in Streams, NEW hasMore \in BOOLEAN,
           FirstPagePermit(s, hasMore), UNCHANGED outcome
    PROVE  ReadTypeOK'
<1> USE DEF ReadTypeOK
<1>1. QueueTypeOK'
  BY PushType DEF FirstPagePermit
<1>2. permits' \in Nat /\ waiters' \in Seq(Waiters)
  BY ReserveType DEF FirstPagePermit, ChannelTypeOK
<1>3. "Connecting" \in ReaderStates /\ "Terminated" \in ReaderStates
  BY DEF ReaderStates
<1>4. NoPage \in [lo : Int, hi : Int, bad : BOOLEAN]
  BY DEF NoPage
<1>5. ReaderTypeOK'
  BY <1>3, <1>4 DEF FirstPagePermit, ReaderTypeOK
<1> QED
  BY <1>1, <1>2, <1>5 DEF FirstPagePermit, ChannelTypeOK, ReceiverTypeOK

\* What recv(), abort() and Drop do to the receiver's end of the channel.
RecvStep == RecvBatch \/ RecvErr \/ (\E gone \in BOOLEAN : RecvNone(gone)) \/ Drop

LEMMA ConsumerTypes == ASSUME ReadTypeOK, RecvStep PROVE ReadTypeOK'
<1> USE DEF ReadTypeOK
<1>1. Len(sent) \in Nat
  BY LenProperties DEF ChannelTypeOK
<1>2. QueueTypeOK' /\ ReaderTypeOK'
  BY DEF RecvStep, RecvBatch, RecvErr, RecvNone, Drop, queueVars, readerVars, QueueTypeOK,
         ReaderTypeOK
<1>3. ReceiverTypeOK'
  BY DEF RecvStep, RecvBatch, RecvErr, RecvNone, Drop, Abort, ReceiverTypeOK
<1>4. CASE RecvBatch \/ RecvErr
  <2>1. /\ nread < Len(sent) /\ nread' = nread + 1 /\ permits' = permits + 1
        /\ sent' = sent /\ waiters' = waiters
    BY <1>4 DEF RecvBatch, RecvErr
  <2>2. closed' \in BOOLEAN /\ cancel' \in BOOLEAN
    BY <1>4 DEF RecvBatch, RecvErr, Abort, ChannelTypeOK
  <2>3. nread' \in 0 .. Len(sent')
    BY <1>1, <2>1 DEF ChannelTypeOK
  <2> QED
    BY <1>2, <1>3, <2>1, <2>2, <2>3 DEF ChannelTypeOK
<1>5. CASE (\E gone \in BOOLEAN : RecvNone(gone)) \/ Drop
  BY <1>2, <1>3, <1>5 DEF RecvNone, Drop, Abort, ChannelTypeOK
<1> QED
  BY <1>4, <1>5 DEF RecvStep

LEMMA StutterTypes == ASSUME ReadTypeOK, UNCHANGED vars PROVE ReadTypeOK'
BY DEF ReadTypeOK, vars, chanVars, queueVars, readerVars,
       ChannelTypeOK, QueueTypeOK, ReaderTypeOK, ReceiverTypeOK

\* A step of one of the parts.
ReaderStep(s) ==
    ReadRows(s) \/ Advance(s) \/ (\E hasMore \in BOOLEAN : FirstPagePermit(s, hasMore) /\ UNCHANGED outcome)

PartStep ==
    \/ \E s \in Streams : ReaderStep(s) \/ TaskAborted(s) \/ Drain(s)
    \/ \E j \in jobs : Decode(j)
    \/ RecvStep
    \/ UNCHANGED vars

LEMMA PartTypes == ASSUME ReadTypeOK, PartStep PROVE ReadTypeOK'
BY DecodeTypes, DrainTypes, ReadRowsTypes, AdvanceTypes, FirstPageTypes, AbortedTypes,
   ConsumerTypes, StutterTypes DEF PartStep, ReaderStep

-----------------------------------------------------------------------------
(* The parts of the inductive invariant.  Flags and phases: who has raised *)
(* the cancellation flag, and which jobs can still send a batch.           *)

\* The page of s waits for a permit.
PageHeld(s) == state[s] \in {"Enqueue", "FirstPage"}

\* Past DecodeJob::run's second check with a decoded page.
Sending(j) == j.phase \in {"decoded", "more", "blocking"}

FlagInv ==
    /\ outcome # "open" => cancel
    /\ closed <=> outcome # "open"
    /\ \A s \in Streams : state[s] = "SendErr" => cancel
    /\ \A j \in jobs : j.phase = "failing" => cancel
    /\ \A j \in jobs : Sending(j) => ~j.bad
    /\ Skew \subseteq {0} => /\ \A j \in jobs : ~j.bad
                             /\ \A s \in Streams : PageHeld(s) => ~page[s].bad

\* A job keeps its place (s, n) through all its phases.
JobsInv ==
    /\ IsFiniteSet(jobs)
    /\ \A j \in jobs : j.n < pushed[j.s]
    /\ \A j, k \in jobs : j.s = k.s /\ j.n = k.n => j = k

\* The attempt count of retry_state, which a fresh RetryState starts at 0.
Attempts(s) == IF retry[s] = NoRetry THEN 0 ELSE retry[s]

\* The failures in a row are counted by retry_state, which has not reached the
\* limit while the task is alive.
RetryInv ==
    \A s \in Streams :
        /\ fails[s] <= MaxAttempts
        /\ state[s] \notin {"SendErr", "Terminated", "Switched"} =>
              fails[s] <= Attempts(s) /\ fails[s] < MaxAttempts
        /\ state[s] \in {"Idle", "FirstPage", "Connecting", "Backoff"} => retry[s] # NoRetry

\* Pages, jobs and batches are pieces of their stream.
Piece(s, x) == 0 <= x.lo /\ x.lo < x.hi /\ x.hi <= Rows[s]

BoundsInv ==
    /\ \A s \in Streams : pos[s] <= Rows[s]
    /\ \A s \in Streams : PageHeld(s) => Piece(s, page[s])
    /\ \A j \in jobs : Piece(j.s, j)
    /\ \A i \in 1 .. Len(sent) : sent[i].kind = "batch" => Piece(sent[i].s, sent[i])

-----------------------------------------------------------------------------
(* What the steps come to.  The invariants below are shown to survive the  *)
(* following effects, and every step has one of them.                      *)

\* Job j is replaced by k, which keeps its place and its end.
Becomes(j, k) ==
    /\ k \in Jobs
    /\ jobs' = (jobs \ {j}) \cup {k}
    /\ k.s = j.s /\ k.n = j.n /\ k.hi = j.hi /\ k.bad = j.bad

\* A job goes on without sending anything.
JobKept(j, k) ==
    /\ Becomes(j, k)
    /\ k.lo = j.lo
    /\ \/ /\ j.phase = "queued" /\ k.phase = "spawned"
          /\ \A i \in jobs : i.s = j.s => i.phase = "queued" /\ j.n <= i.n
       \/ j.phase = "spawned" /\ k.phase = "decoding" /\ ~cancel
       \/ j.phase = "decoding" /\ k.phase = "decoded" /\ ~cancel /\ ~j.bad
       \/ j.phase = "decoding" /\ k.phase = "failed"
       \/ j.phase = "failed" /\ k.phase = "failing"
       \/ j.phase = "more" /\ k.phase = "blocking"
    /\ cancel' = (cancel \/ k.phase = "failing")
    /\ UNCHANGED <<sent, permits>>

\* A job gives up.
JobDropped(j) ==
    /\ jobs' = jobs \ {j}
    /\ cancel /\ j.phase \in {"spawned", "decoding", "more", "blocking"}
    /\ permits' = IF HoldsPermit(j) THEN permits + 1 ELSE permits
    /\ UNCHANGED <<sent, cancel>>

\* A job reports its error.
JobErred(j) ==
    /\ jobs' = jobs \ {j}
    /\ j.phase = "failing"
    /\ sent' = Append(sent, Err(j.s))
    /\ UNCHANGED <<permits, cancel>>

\* A job sends the batch that ends before row m.
JobSent(j, m) ==
    /\ m \in Int /\ j.lo < m /\ m <= j.hi
    /\ j.phase \in {"decoded", "blocking"}
    /\ sent' = Append(sent, Batch(j.s, j.lo, m))
    /\ \/ m = j.hi /\ jobs' = jobs \ {j}
       \/ m # j.hi /\ \E k : Becomes(j, k) /\ k.lo = m /\ k.phase = "more"
    /\ permits' = IF HoldsPermit(j) THEN permits ELSE permits - 1
    /\ UNCHANGED cancel

JobSides == UNCHANGED <<running, pushed, nread, closed, readerVars, outcome>>

JobEffect(j) ==
    \/ \E k : JobKept(j, k)
    \/ JobDropped(j)
    \/ JobErred(j)
    \/ \E m : JobSent(j, m)

LEMMA Moved ==
    ASSUME jobs \subseteq Jobs, NEW j \in jobs, NEW ph \in Phases, MoveTo(j, ph)
    PROVE  \E k : Becomes(j, k) /\ k.lo = j.lo /\ k.phase = ph
<1> DEFINE k == [j EXCEPT !.phase = ph]
<1>1. /\ k \in Jobs /\ k.s = j.s /\ k.n = j.n /\ k.hi = j.hi /\ k.bad = j.bad
      /\ k.lo = j.lo /\ k.phase = ph
  BY DEF Jobs
<1>2. jobs' = (jobs \ {j}) \cup {k}
  BY DEF MoveTo
<1> HIDE DEF k
<1> QED
  BY <1>1, <1>2 DEF Becomes

LEMMA Shortened ==
    ASSUME jobs \subseteq Jobs, NEW j \in jobs, NEW m \in Int, AfterBatch(j, m)
    PROVE  \/ m = j.hi /\ jobs' = jobs \ {j}
           \/ m # j.hi /\ \E k : Becomes(j, k) /\ k.lo = m /\ k.phase = "more"
<1>1. CASE m = j.hi
  BY <1>1 DEF AfterBatch, Finish
<1>2. CASE m # j.hi
  <2> DEFINE k == [j EXCEPT !.lo = m, !.phase = "more"]
  <2>1. "more" \in Phases
    BY DEF Phases
  <2>2. /\ k \in Jobs /\ k.s = j.s /\ k.n = j.n /\ k.hi = j.hi /\ k.bad = j.bad
        /\ k.lo = m /\ k.phase = "more"
    BY <2>1 DEF Jobs
  <2>3. jobs' = (jobs \ {j}) \cup {k}
    BY <1>2 DEF AfterBatch
  <2> HIDE DEF k
  <2> QED
    BY <1>2, <2>2, <2>3 DEF Becomes
<1> QED
  BY <1>1, <1>2

LEMMA DecodeEffect ==
    ASSUME ReadTypeOK, FlagInv, BoundsInv, NEW j \in jobs, Decode(j)
    PROVE  JobSides /\ JobEffect(j)
<1>0. /\ j \in Jobs /\ jobs \subseteq Jobs /\ j.lo \in Int /\ j.hi \in Int /\ j.lo < j.hi
      /\ cancel \in BOOLEAN /\ (closed => cancel)
  BY DEF ReadTypeOK, QueueTypeOK, ChannelTypeOK, Jobs, FlagInv, BoundsInv, Piece
<1>1. JobSides
  BY DEF Decode, JobSides, JobStep, JobSkip, JobStart, JobAbandon, JobDecode, JobFail,
         JobSendErr, JobSendFirst, JobStopMore, JobContinue, JobSendMore, JobSendClosed, chanVars
<1> SUFFICES JobEffect(j)
  BY <1>1
<1>2. {"decoding", "decoded", "failed", "failing", "blocking"} \subseteq Phases
  BY DEF Phases
<1>3. \A m \in BatchEnds(j) : m \in Int /\ j.lo < m /\ m <= j.hi
  BY <1>0 DEF BatchEnds
<1>4. CASE JobSkip(j) \/ JobAbandon(j)
  BY <1>4 DEF JobEffect, JobSkip, JobAbandon, JobDropped, Finish, DropPermit, HoldsPermit
<1>5. CASE JobStart(j)
  <2>1. PICK k : Becomes(j, k) /\ k.lo = j.lo /\ k.phase = "decoding"
    BY <1>0, <1>2, <1>5, Moved DEF JobStart
  <2>2. JobKept(j, k)
    BY <1>0, <1>5, <2>1 DEF JobStart, JobKept, chanVars
  <2> QED
    BY <2>2 DEF JobEffect
<1>6. CASE JobDecode(j)
  <2>1. CASE MoveTo(j, "failed")
    <3>1. PICK k : Becomes(j, k) /\ k.lo = j.lo /\ k.phase = "failed"
      BY <1>0, <1>2, <2>1, Moved
    <3>2. JobKept(j, k)
      BY <1>0, <1>6, <3>1 DEF JobDecode, JobKept, chanVars
    <3> QED
      BY <3>2 DEF JobEffect
  <2>2. CASE ~j.bad /\ MoveTo(j, "decoded")
    <3>1. PICK k : Becomes(j, k) /\ k.lo = j.lo /\ k.phase = "decoded"
      BY <1>0, <1>2, <2>2, Moved
    <3>2. JobKept(j, k)
      BY <1>0, <1>6, <2>2, <3>1 DEF JobDecode, JobKept, chanVars
    <3> QED
      BY <3>2 DEF JobEffect
  <2> QED
    BY <1>6, <2>1, <2>2 DEF JobDecode
<1>7. CASE JobFail(j)
  <2>1. PICK k : Becomes(j, k) /\ k.lo = j.lo /\ k.phase = "failing"
    BY <1>0, <1>2, <1>7, Moved DEF JobFail
  <2>2. JobKept(j, k)
    BY <1>0, <1>7, <2>1 DEF JobFail, JobKept
  <2> QED
    BY <2>2 DEF JobEffect
<1>8. CASE JobSendErr(j)
  BY <1>8 DEF JobEffect, JobSendErr, JobErred, PermitSend, Finish
<1>9. CASE JobSendFirst(j)
  <2>1. PICK m \in BatchEnds(j) : PermitSend(Batch(j.s, j.lo, m)) /\ AfterBatch(j, m)
    BY <1>9 DEF JobSendFirst
  <2>2. m \in Int /\ j.lo < m /\ m <= j.hi
    BY <1>3
  <2>3. \/ m = j.hi /\ jobs' = jobs \ {j}
        \/ m # j.hi /\ \E k : Becomes(j, k) /\ k.lo = m /\ k.phase = "more"
    BY <1>0, <2>1, <2>2, Shortened
  <2>4. JobSent(j, m)
    BY <1>9, <2>1, <2>2, <2>3 DEF JobSendFirst, JobSent, PermitSend, HoldsPermit
  <2> QED
    BY <2>4 DEF JobEffect
<1>10. CASE JobStopMore(j)
  BY <1>0, <1>10 DEF JobEffect, JobStopMore, JobDropped, Finish, HoldsPermit, chanVars
<1>11. CASE JobContinue(j)
  <2>1. PICK k : Becomes(j, k) /\ k.lo = j.lo /\ k.phase = "blocking"
    BY <1>0, <1>2, <1>11, Moved DEF JobContinue
  <2>2. JobKept(j, k)
    BY <1>0, <1>11, <2>1 DEF JobContinue, JobKept
  <2> QED
    BY <2>2 DEF JobEffect
<1>12. CASE JobSendMore(j)
  <2>1. PICK m \in BatchEnds(j) :
            Send(JobWaiter(j), Batch(j.s, j.lo, m)) /\ AfterBatch(j, m)
    BY <1>12 DEF JobSendMore
  <2>2. m \in Int /\ j.lo < m /\ m <= j.hi
    BY <1>3
  <2>3. \/ m = j.hi /\ jobs' = jobs \ {j}
        \/ m # j.hi /\ \E k : Becomes(j, k) /\ k.lo = m /\ k.phase = "more"
    BY <1>0, <2>1, <2>2, Shortened
  <2>4. JobSent(j, m)
    BY <1>12, <2>1, <2>2, <2>3 DEF JobSendMore, JobSent, Send, ReserveOwned, HoldsPermit
  <2> QED
    BY <2>4 DEF JobEffect
<1>13. CASE JobSendClosed(j)
  BY <1>0, <1>13 DEF JobEffect, JobSendClosed, JobDropped, Finish, HoldsPermit
<1> QED
  BY <1>4, <1>5, <1>6, <1>7, <1>8, <1>9, <1>10, <1>11, <1>12, <1>13 DEF Decode, JobStep

\* The drain closure stops with none of the stream's jobs left.
QueueIdles(s) ==
    /\ \A j \in jobs : j.s # s
    /\ running' = [running EXCEPT ![s] = FALSE]
    /\ UNCHANGED <<jobs, pushed, sent, nread, permits, closed, cancel, readerVars, outcome>>

\* It pops the front of the queue, or stops.

LEMMA DrainHasEffect ==
    ASSUME ReadTypeOK, NEW s \in Streams, Drain(s)
    PROVE  (\E j \in jobs : JobSides /\ \E k : JobKept(j, k)) \/ QueueIdles(s)
<1>0. jobs \subseteq Jobs /\ cancel \in BOOLEAN /\ "spawned" \in Phases
  BY DEF ReadTypeOK, QueueTypeOK, ChannelTypeOK, Phases
<1>1. CASE DrainPop(s)
  <2>1. PICK j \in Queued(s) : (\A i \in Queued(s) : j.n <= i.n) /\ MoveTo(j, "spawned")
    BY <1>1 DEF DrainPop
  <2>2. PICK k : Becomes(j, k) /\ k.lo = j.lo /\ k.phase = "spawned"
    BY <1>0, <2>1, Moved DEF Queued
  <2>3. j \in jobs /\ j.s = s /\ j.phase = "queued"
    BY DEF Queued
  <2>4. \A i \in jobs : i.s = j.s => i.phase = "queued" /\ j.n <= i.n
    <3>1. {i \in jobs : i.s = s} = Queued(s)
      BY <1>1 DEF DrainPop, DrainReady
    <3> QED
      BY <2>1, <2>3, <3>1 DEF Queued
  <2>5. JobKept(j, k) /\ JobSides
    BY <1>0, <1>1, <2>2, <2>3, <2>4 DEF Drain, DrainPop, JobKept, JobSides, chanVars
  <2> QED
    BY <2>3, <2>5
<1>2. CASE DrainStop(s)
  BY <1>2 DEF Drain, DrainStop, DrainReady, Queued, QueueIdles, chanVars
<1> QED
  BY <1>1, <1>2 DEF Drain, DrainStep

\* Stream s is the only one whose reader moves.
OnlyStream(s) ==
    \A t \in Streams \ {s} :
        /\ state'[t] = state[t] /\ offset'[t] = offset[t] /\ page'[t] = page[t]
        /\ pos'[t] = pos[t] /\ metadata'[t] = metadata[t]

\* The task of s moves without touching the decode queue or the log.
ReaderQuiet(s) ==
    /\ state[s] \notin Stopped
    /\ ~PageHeld(s)'
    /\ PageHeld(s) => cancel
    /\ state'[s] = "Reading" =>
          \/ state[s] = "Reading" /\ pos'[s] = pos[s]
          \/ pos'[s] = offset[s] /\ offset[s] \in 0 .. Rows[s]
    /\ state'[s] # "Reading" => pos'[s] = pos[s]
    /\ state'[s] = "SendErr" => cancel'
    /\ state'[s] = "Terminated" =>
          cancel' \/ (state[s] = "Reading" /\ (metadata'[s] => pos[s] = Rows[s]))
    /\ cancel => cancel'
    /\ cancel' => cancel \/ state'[s] = "SendErr" \/ (schemaTx[s] /\ schema' = "err")
    /\ state[s] = "SendErr" => outcome # "open"
    /\ offset'[s] = offset[s]
    /\ UNCHANGED <<jobs, running, pushed, sent, permits>>

\* The task of s is given a page of n rows that says it has n + d.
ReaderPage(s, n, d) ==
    /\ state[s] = "Reading" /\ ~cancel
    /\ n \in 1 .. Rows[s] - pos[s] /\ d \in Skew
    /\ offset'[s] = offset[s] + n + d
    /\ pos'[s] = pos[s] + n
    /\ page'[s].lo = pos[s] /\ page'[s].hi = pos[s] + n /\ page'[s].bad = (d # 0)
    /\ state'[s] = "Enqueue"
    /\ UNCHANGED <<jobs, running, pushed, sent, permits, cancel>>

\* The page of s goes into the decode queue with a permit.
ReaderPush(s) ==
    /\ PageHeld(s)
    /\ Push(s, page[s])
    /\ permits' = permits - 1
    /\ state'[s] \in {"Reading", "Connecting", "Terminated"}
    /\ state'[s] = "Reading" => state[s] = "Enqueue"
    /\ state'[s] = "Terminated" => state[s] = "FirstPage"
    /\ offset'[s] = offset[s] /\ pos'[s] = pos[s]
    /\ UNCHANGED <<sent, cancel>>

\* The task of s, or one around it, reports an error.
ReaderErred(s) ==
    /\ cancel
    /\ state'[s] = state[s] \/ (state[s] = "SendErr" /\ state'[s] = "Terminated")
    /\ page'[s] = page[s] /\ metadata'[s] = metadata[s]
    /\ sent' = Append(sent, Err(s))
    /\ permits' = permits - 1
    /\ offset'[s] = offset[s] /\ pos'[s] = pos[s]
    /\ UNCHANGED <<jobs, running, pushed, cancel>>

ReaderSides(s) == OnlyStream(s) /\ UNCHANGED <<nread, closed, outcome>>

ReaderEffect(s) ==
    \/ ReaderQuiet(s)
    \/ \E n, d : ReaderPage(s, n, d)
    \/ ReaderPush(s)
    \/ ReaderErred(s)

LEMMA ReaderHasSides ==
    ASSUME ReadTypeOK, NEW s \in Streams, ReaderStep(s) \/ TaskAborted(s)
    PROVE  ReaderSides(s)
<1>0. /\ DOMAIN state = Streams /\ DOMAIN offset = Streams /\ DOMAIN page = Streams
      /\ DOMAIN pos = Streams /\ DOMAIN metadata = Streams
  BY DEF ReadTypeOK, ReaderTypeOK
<1>1. ASSUME NEW r, HandleError(s, r) PROVE OnlyStream(s) /\ UNCHANGED <<nread, closed>>
  BY <1>0, <1>1 DEF HandleError, Fatal, OnlyStream
<1>2. CASE ReadRows(s)
  <2>1. CASE ConnectErr(s) \/ StreamErr(s)
    BY <1>1, <1>2, <2>1 DEF ReadRows, ConnectErr, StreamErr, ReaderSides
  <2>2. CASE ConnectOk(s) \/ Heartbeat(s) \/ SchemaError(s) \/ EmptyMessage(s)
    BY <1>0, <1>2, <2>2
       DEF ReadRows, ConnectOk, Heartbeat, SchemaError, EmptyMessage, SchemaKnown, Fatal, chanVars,
           ReaderSides, OnlyStream
  <2>3. CASE PageError(s) \/ SwitchPage(s) \/ StreamEof(s)
    BY <1>0, <1>2, <2>3
       DEF ReadRows, PageError, SwitchPage, StreamEof, SchemaKnown, Fatal, chanVars,
           ReaderSides, OnlyStream
  <2>4. CASE Page(s)
    BY <1>0, <1>2, <2>4 DEF ReadRows, Page, SchemaKnown, Fatal, ReaderSides, OnlyStream
  <2> QED
    BY <1>2, <2>1, <2>2, <2>3, <2>4 DEF ReadRows, ServiceStep
<1>3. CASE Advance(s)
  BY <1>0, <1>3
     DEF Advance, LocalStep, Cancelled, BackoffElapsed, EnqueuePermit, EnqueueRefused, SendFatal,
         chanVars, ReaderSides, OnlyStream
<1>4. CASE \E hasMore \in BOOLEAN : FirstPagePermit(s, hasMore) /\ UNCHANGED outcome
  BY <1>0, <1>4 DEF FirstPagePermit, ReaderSides, OnlyStream
<1>5. CASE TaskAborted(s)
  BY <1>0, <1>5 DEF TaskAborted, ReaderSides, OnlyStream
<1> QED
  BY <1>2, <1>3, <1>4, <1>5 DEF ReaderStep

LEMMA ReaderHasEffect ==
    ASSUME ReadTypeOK, FlagInv, NEW s \in Streams, ReaderStep(s) \/ TaskAborted(s)
    PROVE  ReaderEffect(s)
<1>0. /\ state \in [Streams -> ReaderStates] /\ offset \in [Streams -> Int]
      /\ pos \in [Streams -> Nat] /\ metadata \in [Streams -> BOOLEAN]
      /\ page \in [Streams -> [lo : Int, hi : Int, bad : BOOLEAN]]
      /\ cancel \in BOOLEAN /\ (closed => cancel) /\ (outcome # "open" => cancel)
      /\ schemaTx[s] \in BOOLEAN /\ (closed => outcome # "open") /\ Rows[s] \in Nat
  BY ReadAssumption DEF ReadTypeOK, ReaderTypeOK, ChannelTypeOK, FlagInv
<1> USE DEF Stopped, PageHeld
<1>1. ASSUME NEW r, HandleError(s, r), state[s] \in {"Connecting", "Reading"}
      PROVE  ReaderQuiet(s)
  BY <1>0, <1>1 DEF HandleError, Fatal, SchemaAfterFatal, ReaderQuiet, queueVars
<1>2. CASE ReadRows(s)
  <2>1. CASE ConnectErr(s) \/ StreamErr(s)
    BY <1>1, <2>1 DEF ConnectErr, StreamErr, Reading, ReaderEffect
  <2>2. CASE ConnectOk(s)
    BY <1>0, <2>2 DEF ConnectOk, queueVars, chanVars, ReaderEffect, ReaderQuiet
  <2>3. CASE Heartbeat(s) \/ EmptyMessage(s)
    BY <1>0, <2>3
       DEF Heartbeat, EmptyMessage, Reading, SchemaKnown, queueVars, chanVars, ReaderEffect,
           ReaderQuiet
  <2>4. CASE SchemaError(s) \/ PageError(s)
    BY <1>0, <2>4
       DEF SchemaError, PageError, Reading, Fatal, SchemaAfterFatal, queueVars, ReaderEffect, ReaderQuiet
  <2>5. CASE SwitchPage(s)
    BY <1>0, <2>5 DEF SwitchPage, Reading, queueVars, chanVars, ReaderEffect, ReaderQuiet
  <2>6. CASE StreamEof(s)
    BY <1>0, <2>6 DEF StreamEof, Reading, queueVars, chanVars, ReaderEffect, ReaderQuiet
  <2>7. CASE Page(s)
    <3>1. CASE Fatal(s, FALSE) /\ UNCHANGED <<offset, page, pos>>
      BY <1>0, <2>7, <3>1 DEF Page, Reading, Fatal, queueVars, ReaderEffect, ReaderQuiet
    <3>2. CASE \E n \in 1 .. Rows[s] - pos[s], k \in Skew :
                 /\ offset' = [offset EXCEPT ![s] = @ + n + k]
                 /\ pos' = [pos EXCEPT ![s] = @ + n]
                 /\ page' = [page EXCEPT ![s] =
                               [lo |-> pos[s], hi |-> pos[s] + n, bad |-> k # 0]]
                 /\ state' = [state EXCEPT ![s] = "Enqueue"]
                 /\ UNCHANGED cancel
      <4>1. PICK n \in 1 .. Rows[s] - pos[s], k \in Skew :
                 /\ offset' = [offset EXCEPT ![s] = @ + n + k]
                 /\ pos' = [pos EXCEPT ![s] = @ + n]
                 /\ page' = [page EXCEPT ![s] =
                               [lo |-> pos[s], hi |-> pos[s] + n, bad |-> k # 0]]
                 /\ state' = [state EXCEPT ![s] = "Enqueue"]
                 /\ UNCHANGED cancel
        BY <3>2
      <4>2. /\ offset'[s] = offset[s] + n + k /\ pos'[s] = pos[s] + n
            /\ state'[s] = "Enqueue"
            /\ page'[s] = [lo |-> pos[s], hi |-> pos[s] + n, bad |-> k # 0]
        BY <1>0, <4>1
      <4>3. ReaderPage(s, n, k)
        BY <2>7, <4>1, <4>2 DEF Page, Reading, queueVars, ReaderPage
      <4> QED
        BY <4>3 DEF ReaderEffect
    <3> QED
      BY <2>7, <3>1, <3>2 DEF Page
  <2> QED
    BY <1>2, <2>1, <2>2, <2>3, <2>4, <2>5, <2>6, <2>7 DEF ReadRows, ServiceStep
<1>3. CASE Advance(s)
  <2>1. CASE Cancelled(s) \/ BackoffElapsed(s) \/ EnqueueRefused(s)
    BY <1>0, <2>1
       DEF Cancelled, BackoffElapsed, EnqueueRefused, queueVars, chanVars, ReaderEffect, ReaderQuiet
  <2>2. CASE EnqueuePermit(s)
    BY <1>0, <2>2 DEF EnqueuePermit, ReserveOwned, ReaderEffect, ReaderPush
  <2>3. CASE SendFatal(s)
    <3>1. CASE Send(ReaderWaiter(s), Err(s))
      BY <1>0, <2>3, <3>1
         DEF SendFatal, Send, ReserveOwned, queueVars, ReaderEffect, ReaderErred, FlagInv
    <3>2. CASE closed /\ UNCHANGED <<sent, permits>>
      BY <1>0, <2>3, <3>2 DEF SendFatal, queueVars, ReaderEffect, ReaderQuiet
    <3> QED
      BY <2>3, <3>1, <3>2 DEF SendFatal
  <2> QED
    BY <1>3, <2>1, <2>2, <2>3 DEF Advance, LocalStep
<1>4. CASE \E hasMore \in BOOLEAN : FirstPagePermit(s, hasMore) /\ UNCHANGED outcome
  BY <1>0, <1>4 DEF FirstPagePermit, ReserveOwned, ReaderEffect, ReaderPush
<1>5. CASE TaskAborted(s)
  BY <1>0, <1>5 DEF TaskAborted, queueVars, ReaderEffect, ReaderQuiet
<1> QED
  BY <1>2, <1>3, <1>4, <1>5 DEF ReaderStep

\* The consumer takes an item, or nothing; somebody may raise the flag.
RecvEffect ==
    /\ \/ nread < Len(sent) /\ nread' = nread + 1 /\ permits' = permits + 1
       \/ UNCHANGED <<nread, permits>>
    /\ \/ UNCHANGED <<closed, outcome>> /\ (cancel => cancel')
       \/ cancel' /\ closed' /\ outcome' # "open"
    /\ UNCHANGED <<sent, queueVars, readerVars>>

LEMMA RecvHasEffect == ASSUME RecvStep \/ UNCHANGED vars PROVE RecvEffect
BY DEF RecvStep, RecvBatch, RecvErr, RecvNone, Drop, Abort, vars, chanVars, RecvEffect

\* Tasks are spawned for streams that had none.
SpawnEffect ==
    /\ \A s \in Streams :
          state'[s] = state[s] \/ (state[s] = "Idle" /\ state'[s] = "Connecting")
    /\ UNCHANGED <<offset, retry, page, pos, metadata, fails>>
    /\ UNCHANGED <<queueVars, sent, nread, permits, closed, cancel, outcome>>

\* What any step of a read comes to.
PartEffect ==
    \/ \E j \in jobs : JobSides /\ JobEffect(j)
    \/ \E s \in Streams : QueueIdles(s)
    \/ \E s \in Streams : ReaderSides(s) /\ ReaderEffect(s)
    \/ RecvEffect
    \/ SpawnEffect

LEMMA StepHasEffect ==
    ASSUME ReadTypeOK, FlagInv, BoundsInv, PartStep
    PROVE  PartEffect
<1>1. CASE \E s \in Streams : ReaderStep(s) \/ TaskAborted(s)
  BY <1>1, ReaderHasSides, ReaderHasEffect DEF PartEffect
<1>2. CASE \E s \in Streams : Drain(s)
  BY <1>2, DrainHasEffect DEF PartEffect, JobEffect
<1>3. CASE \E j \in jobs : Decode(j)
  BY <1>3, DecodeEffect DEF PartEffect
<1>4. CASE RecvStep \/ UNCHANGED vars
  BY <1>4, RecvHasEffect DEF PartEffect
<1> QED
  BY <1>1, <1>2, <1>3, <1>4 DEF PartStep

-----------------------------------------------------------------------------
(* FlagInv and JobsInv.                                                    *)

\* The job set after a replacement.
LEMMA JobsAfter ==
    ASSUME NEW j \in jobs, JobEffect(j)
    PROVE  \A i \in jobs' :
              \/ i \in jobs /\ i # j
              \/ /\ Becomes(j, i)
                 /\ JobKept(j, i) \/ (i.phase = "more" /\ \E m : JobSent(j, m) /\ i.lo = m)
BY DEF JobEffect, JobKept, JobDropped, JobErred, JobSent, Becomes

\* The page of s has become job k.
NewJob(s, k) ==
    /\ jobs' = jobs \cup {k}
    /\ k.s = s /\ k.n = pushed[s]
    /\ k.lo = page[s].lo /\ k.hi = page[s].hi /\ k.bad = page[s].bad
    /\ k.phase = IF MaintainOrder THEN "queued" ELSE "spawned"

LEMMA Pushed == ASSUME NEW s, Push(s, page[s]) PROVE \E k : NewJob(s, k)
<1> DEFINE k == [s |-> s, n |-> pushed[s], lo |-> page[s].lo, hi |-> page[s].hi,
                 bad |-> page[s].bad,
                 phase |-> IF MaintainOrder THEN "queued" ELSE "spawned"]
<1>1. /\ k.s = s /\ k.n = pushed[s]
      /\ k.lo = page[s].lo /\ k.hi = page[s].hi /\ k.bad = page[s].bad
      /\ k.phase = IF MaintainOrder THEN "queued" ELSE "spawned"
  OBVIOUS
<1>2. jobs' = jobs \cup {k}
  BY DEF Push
<1> HIDE DEF k
<1> QED
  BY <1>1, <1>2 DEF NewJob

LEMMA FlagStep == ASSUME ReadTypeOK, FlagInv, PartEffect PROVE FlagInv'
<1>0. Skew \subseteq Int /\ cancel \in BOOLEAN /\ jobs \subseteq Jobs
  BY ReadAssumption DEF ReadTypeOK, ChannelTypeOK, QueueTypeOK
<1>1. ASSUME NEW j \in jobs, JobSides, JobEffect(j) PROVE FlagInv'
  <2>0. \/ cancel' = cancel
        \/ \E k : cancel' = (cancel \/ k.phase = "failing")
    BY <1>1 DEF JobEffect, JobKept, JobDropped, JobErred, JobSent
  <2>1. UNCHANGED <<closed, outcome, state, page>> /\ (cancel => cancel')
    BY <1>0, <1>1, <2>0 DEF JobSides, readerVars
  <2>2. ASSUME NEW i \in jobs'
        PROVE  /\ i.phase = "failing" => cancel'
               /\ Sending(i) => ~i.bad
               /\ Skew \subseteq {0} => ~i.bad
    <3>1. CASE i \in jobs
      BY <2>1, <3>1 DEF FlagInv, Sending
    <3>2. CASE Becomes(j, i) /\ JobKept(j, i)
      BY <3>2 DEF JobKept, Becomes, FlagInv, Sending
    <3>3. CASE Becomes(j, i) /\ i.phase = "more" /\ \E m : JobSent(j, m) /\ i.lo = m
      BY <3>3 DEF JobSent, Becomes, FlagInv, Sending
    <3> QED
      BY <1>1, <2>2, <3>1, <3>2, <3>3, JobsAfter
  <2> QED
    BY <2>1, <2>2 DEF FlagInv, PageHeld
<1>2. ASSUME NEW s \in Streams, QueueIdles(s) PROVE FlagInv'
  BY <1>2 DEF QueueIdles, readerVars, FlagInv, PageHeld, Sending
<1>3. ASSUME NEW s \in Streams, ReaderSides(s), ReaderEffect(s) PROVE FlagInv'
  <2>1. UNCHANGED <<closed, outcome>> /\ (cancel => cancel')
    BY <1>3 DEF ReaderSides, ReaderEffect, ReaderQuiet, ReaderPage, ReaderPush, ReaderErred
  <2>2. \A t \in Streams : state'[t] = "SendErr" => cancel'
    <3>1. state'[s] = "SendErr" => cancel'
      BY <1>3 DEF ReaderEffect, ReaderQuiet, ReaderPage, ReaderPush, ReaderErred
    <3> QED
      BY <1>3, <2>1, <3>1 DEF ReaderSides, OnlyStream, FlagInv
  <2>3. ASSUME Skew \subseteq {0}, NEW t \in Streams, PageHeld(t)' PROVE ~page'[t].bad
    <3>1. CASE t # s
      BY <1>3, <2>3, <3>1 DEF ReaderSides, OnlyStream, FlagInv, PageHeld
    <3>2. CASE t = s
      BY <1>3, <2>3, <3>2
         DEF ReaderEffect, ReaderQuiet, ReaderPage, ReaderPush, ReaderErred, PageHeld, FlagInv
    <3> QED
      BY <3>1, <3>2
  <2>4. \A i \in jobs' : \/ i \in jobs
                         \/ /\ i.phase \in {"queued", "spawned"}
                            /\ PageHeld(s) /\ i.bad = page[s].bad
    BY <1>3 DEF ReaderEffect, ReaderQuiet, ReaderPage, ReaderPush, ReaderErred, Push
  <2>5. \A i \in jobs' : /\ i.phase = "failing" => cancel'
                         /\ Sending(i) => ~i.bad
                         /\ Skew \subseteq {0} => ~i.bad
    BY <2>1, <2>4 DEF FlagInv, Sending
  <2> QED
    BY <2>1, <2>2, <2>3, <2>5 DEF FlagInv
<1>4. CASE RecvEffect
  BY <1>4 DEF RecvEffect, queueVars, readerVars, FlagInv, PageHeld, Sending
<1>5. CASE SpawnEffect
  BY <1>5 DEF SpawnEffect, queueVars, FlagInv, PageHeld, Sending
<1> QED
  BY <1>1, <1>2, <1>3, <1>4, <1>5 DEF PartEffect

LEMMA JobsStep == ASSUME ReadTypeOK, JobsInv, PartEffect PROVE JobsInv'
<1>1. ASSUME UNCHANGED <<jobs, pushed>> PROVE JobsInv'
  BY <1>1 DEF JobsInv
<1>2. ASSUME NEW j \in jobs, JobSides, JobEffect(j) PROVE JobsInv'
  <2>1. jobs' = jobs \ {j} \/ \E k : Becomes(j, k)
    BY <1>2 DEF JobEffect, JobKept, JobDropped, JobErred, JobSent
  <2>2. IsFiniteSet(jobs \ {j})
    BY FS_RemoveElement DEF JobsInv
  <2>3. CASE jobs' = jobs \ {j}
    BY <1>2, <2>2, <2>3 DEF JobSides, JobsInv
  <2>4. ASSUME NEW k, Becomes(j, k) PROVE JobsInv'
    <3>1. IsFiniteSet(jobs')
      BY <2>2, <2>4, FS_AddElement DEF Becomes
    <3>2. \A i \in jobs' : (i \in jobs /\ i # j) \/ i = k
      BY <2>4 DEF Becomes
    <3>3. k.s = j.s /\ k.n = j.n /\ pushed' = pushed
      BY <1>2, <2>4 DEF Becomes, JobSides
    <3> QED
      BY <3>1, <3>2, <3>3 DEF JobsInv
  <2> QED
    BY <2>1, <2>3, <2>4
<1>3. ASSUME NEW s \in Streams, ReaderPush(s) PROVE JobsInv'
  <2>1. PICK k : NewJob(s, k)
    BY <1>3, Pushed DEF ReaderPush
  <2>2. /\ jobs' = jobs \cup {k} /\ pushed' = [pushed EXCEPT ![s] = @ + 1]
        /\ k.s = s /\ k.n = pushed[s]
    BY <1>3, <2>1 DEF NewJob, ReaderPush, Push
  <2>3. IsFiniteSet(jobs')
    BY <2>2, FS_AddElement DEF JobsInv
  <2>4. pushed \in [Streams -> Nat] /\ \A i \in jobs : i.s \in Streams /\ i.n \in Nat
    BY DEF ReadTypeOK, QueueTypeOK, Jobs
  <2>5. \A i \in jobs' : i.n < pushed'[i.s]
    BY <2>2, <2>4 DEF JobsInv
  <2>6. \A i, l \in jobs' : i.s = l.s /\ i.n = l.n => i = l
    BY <2>2, <2>4 DEF JobsInv
  <2> QED
    BY <2>3, <2>5, <2>6 DEF JobsInv
<1> QED
  BY <1>1, <1>2, <1>3
     DEF PartEffect, QueueIdles, ReaderEffect, ReaderQuiet, ReaderPage, ReaderErred, RecvEffect,
         SpawnEffect, queueVars

-----------------------------------------------------------------------------
(* PermitsConserved.                                                       *)

Holding == {j \in jobs : HoldsPermit(j)}

LEMMA LogLength == ASSUME ReadTypeOK PROVE Len(sent) \in Nat /\ nread \in Nat /\ permits \in Int
BY LenProperties DEF ReadTypeOK, ChannelTypeOK

\* A job that is replaced is not merged with another one.
LEMMA FreshPlace ==
    ASSUME JobsInv, NEW j \in jobs, NEW k, Becomes(j, k)
    PROVE  k \notin jobs \ {j}
BY DEF JobsInv, Becomes

LEMMA HoldingFinite == JobsInv => IsFiniteSet(Holding) /\ Cardinality(Holding) \in Nat
<1> SUFFICES ASSUME JobsInv PROVE IsFiniteSet(Holding) /\ Cardinality(Holding) \in Nat
  OBVIOUS
<1>1. Holding \in SUBSET jobs
  BY DEF Holding
<1>2. IsFiniteSet(Holding)
  BY <1>1, FS_Subset DEF JobsInv
<1> QED
  BY <1>2, FS_CardinalityType

\* One job leaves the holders.
LEMMA HoldingLess ==
    ASSUME JobsInv, NEW j \in Holding, Holding' = Holding \ {j}
    PROVE  Cardinality(Holding') = Cardinality(Holding) - 1
BY HoldingFinite, FS_RemoveElement

LEMMA HoldingSame ==
    ASSUME JobsInv, NEW j \in jobs, NEW k, Becomes(j, k), HoldsPermit(k) <=> HoldsPermit(j)
    PROVE  Cardinality(Holding') = Cardinality(Holding)
<1>1. IsFiniteSet(Holding) /\ Cardinality(Holding) \in Nat /\ k \notin jobs \ {j}
  BY HoldingFinite, FreshPlace
<1>2. CASE HoldsPermit(j)
  <2>1. Holding' = (Holding \ {j}) \cup {k} /\ j \in Holding /\ k \notin Holding \ {j}
    BY <1>1, <1>2 DEF Becomes, Holding
  <2>2. IsFiniteSet(Holding \ {j}) /\ Cardinality(Holding \ {j}) = Cardinality(Holding) - 1
    BY <1>1, <2>1, FS_RemoveElement
  <2>3. Cardinality((Holding \ {j}) \cup {k}) = Cardinality(Holding \ {j}) + 1
    BY <2>1, <2>2, FS_AddElement
  <2> QED
    BY <1>1, <2>1, <2>2, <2>3
<1>3. CASE ~HoldsPermit(j)
  <2>1. Holding' = Holding
    BY <1>1, <1>3 DEF Becomes, Holding
  <2> QED
    BY <2>1
<1> QED
  BY <1>2, <1>3

LEMMA HoldingMore ==
    ASSUME ReadTypeOK, JobsInv, NEW s \in Streams, Push(s, page[s])
    PROVE  Cardinality(Holding') = Cardinality(Holding) + 1
<1>1. PICK k : NewJob(s, k)
  BY Pushed
<1>2. /\ jobs' = jobs \cup {k} /\ k.s = s /\ k.n = pushed[s]
      /\ k.phase \in {"queued", "spawned"}
  BY <1>1 DEF NewJob
<1>3. k \notin jobs
  <2>1. pushed[s] \in Nat
    BY DEF ReadTypeOK, QueueTypeOK
  <2> QED
    BY <1>2, <2>1 DEF JobsInv
<1>4. Holding' = Holding \cup {k} /\ k \notin Holding
  BY <1>2, <1>3 DEF Holding, HoldsPermit
<1> QED
  BY <1>4, HoldingFinite, FS_AddElement

LEMMA PermitsStep ==
    ASSUME ReadTypeOK, JobsInv, PermitsConserved, PartEffect
    PROVE  PermitsConserved'
<1>0. /\ Len(sent) \in Nat /\ nread \in Nat /\ permits \in Int
      /\ Cardinality(Holding) \in Nat /\ jobs \subseteq Jobs
  BY LogLength, HoldingFinite DEF ReadTypeOK, QueueTypeOK
<1>1. permits + (Len(sent) - nread) + Cardinality(Holding) = Capacity
  BY DEF PermitsConserved, Holding
<1>2. ASSUME permits' + (Len(sent') - nread') + Cardinality(Holding') = Capacity
      PROVE  PermitsConserved'
  BY <1>2 DEF PermitsConserved, Holding
<1>3. ASSUME UNCHANGED <<jobs, sent, nread, permits>> PROVE PermitsConserved'
  BY <1>3 DEF PermitsConserved
<1>4. ASSUME NEW item \in Items, sent' = Append(sent, item) PROVE Len(sent') = Len(sent) + 1
  BY <1>4, AppendProperties DEF ReadTypeOK, ChannelTypeOK
<1>5. ASSUME NEW j \in jobs, JobSides, JobEffect(j) PROVE PermitsConserved'
  <2>0. nread' = nread /\ j.s \in Streams /\ j.lo \in Int
    BY <1>0, <1>5 DEF JobSides, Jobs
  <2>1. ASSUME NEW k, JobKept(j, k) PROVE PermitsConserved'
    <3>1. (HoldsPermit(k) <=> HoldsPermit(j)) /\ UNCHANGED <<sent, permits>> /\ Becomes(j, k)
      BY <2>1 DEF JobKept, HoldsPermit
    <3> QED
      BY <1>1, <1>2, <2>0, <3>1, HoldingSame
  <2>2. CASE JobDropped(j)
    <3>1. CASE HoldsPermit(j)
      <4>1. j \in Holding /\ Holding' = Holding \ {j} /\ permits' = permits + 1 /\ sent' = sent
        BY <2>2, <3>1 DEF JobDropped, Holding
      <4>2. Cardinality(Holding') = Cardinality(Holding) - 1
        BY <4>1, HoldingLess
      <4> QED
        BY <1>0, <1>1, <1>2, <2>0, <4>1, <4>2
    <3>2. CASE ~HoldsPermit(j)
      <4>1. Holding' = Holding /\ permits' = permits /\ sent' = sent
        BY <2>2, <3>2 DEF JobDropped, Holding
      <4> QED
        BY <1>1, <1>2, <2>0, <4>1
    <3> QED
      BY <3>1, <3>2
  <2>3. CASE JobErred(j)
    <3>1. j \in Holding /\ Holding' = Holding \ {j} /\ permits' = permits
      BY <2>3 DEF JobErred, Holding, HoldsPermit
    <3>2. Len(sent') = Len(sent) + 1
      BY <1>4, <2>0, <2>3, ItemTypes DEF JobErred
    <3>3. Cardinality(Holding') = Cardinality(Holding) - 1
      BY <3>1, HoldingLess
    <3> QED
      BY <1>0, <1>1, <1>2, <2>0, <3>1, <3>2, <3>3
  <2>4. ASSUME NEW m, JobSent(j, m) PROVE PermitsConserved'
    <3>1. Len(sent') = Len(sent) + 1
      BY <1>4, <2>0, <2>4, ItemTypes DEF JobSent
    <3>2. CASE HoldsPermit(j)
      <4>1. j \in Holding /\ Holding' = Holding \ {j} /\ permits' = permits
        BY <2>4, <3>2, FreshPlace DEF JobSent, Holding, HoldsPermit, Becomes
      <4>2. Cardinality(Holding') = Cardinality(Holding) - 1
        BY <4>1, HoldingLess
      <4> QED
        BY <1>0, <1>1, <1>2, <2>0, <3>1, <4>1, <4>2
    <3>3. CASE ~HoldsPermit(j)
      <4>1. Holding' = Holding /\ permits' = permits - 1
        BY <2>4, <3>3, FreshPlace DEF JobSent, Holding, HoldsPermit, Becomes
      <4> QED
        BY <1>0, <1>1, <1>2, <2>0, <3>1, <4>1
    <3> QED
      BY <3>2, <3>3
  <2> QED
    BY <1>5, <2>1, <2>2, <2>3, <2>4 DEF JobEffect
<1>6. ASSUME NEW s \in Streams, ReaderSides(s), ReaderEffect(s) PROVE PermitsConserved'
  <2>0. nread' = nread
    BY <1>6 DEF ReaderSides
  <2>1. CASE ReaderQuiet(s) \/ \E n, d : ReaderPage(s, n, d)
    BY <1>3, <2>0, <2>1 DEF ReaderQuiet, ReaderPage
  <2>2. CASE ReaderPush(s)
    <3>1. Cardinality(Holding') = Cardinality(Holding) + 1
      BY <2>2, HoldingMore DEF ReaderPush
    <3> QED
      BY <1>0, <1>1, <1>2, <2>0, <2>2, <3>1 DEF ReaderPush
  <2>3. CASE ReaderErred(s)
    <3>1. Len(sent') = Len(sent) + 1 /\ permits' = permits - 1 /\ Holding' = Holding
      BY <1>4, <2>3, ItemTypes DEF ReaderErred, Holding
    <3> QED
      BY <1>0, <1>1, <1>2, <2>0, <3>1
  <2> QED
    BY <1>6, <2>1, <2>2, <2>3 DEF ReaderEffect
<1>7. CASE RecvEffect
  <2>1. sent' = sent /\ Holding' = Holding
    BY <1>7 DEF RecvEffect, queueVars, Holding
  <2> QED
    BY <1>0, <1>1, <1>2, <1>7, <2>1 DEF RecvEffect
<1> QED
  BY <1>3, <1>5, <1>6, <1>7 DEF PartEffect, QueueIdles, SpawnEffect, queueVars

-----------------------------------------------------------------------------
(* NoStrandedJob and BoundsInv.                                            *)

LEMMA StrandedStep ==
    ASSUME ReadTypeOK, NoStrandedJob, PartEffect
    PROVE  NoStrandedJob'
<1>0. running \in [Streams -> BOOLEAN] /\ jobs \subseteq Jobs /\ MaintainOrder \in BOOLEAN
  BY DecodeAssumption DEF ReadTypeOK, QueueTypeOK
<1>1. ASSUME NEW j \in jobs, JobSides, JobEffect(j) PROVE NoStrandedJob'
  <2>1. \A i \in jobs' : i \in jobs \/ i.phase # "queued"
    BY <1>1, JobsAfter DEF JobKept
  <2> QED
    BY <1>1, <2>1 DEF JobSides, NoStrandedJob
<1>2. ASSUME NEW s \in Streams, QueueIdles(s) PROVE NoStrandedJob'
  BY <1>0, <1>2 DEF QueueIdles, NoStrandedJob, Jobs
<1>3. ASSUME NEW s \in Streams, ReaderPush(s) PROVE NoStrandedJob'
  <2>1. \A i \in jobs' : i \in jobs \/ (i.s = s /\ (i.phase = "queued" => MaintainOrder))
    BY <1>3 DEF ReaderPush, Push
  <2>2. running' = [running EXCEPT ![s] = @ \/ MaintainOrder]
    BY <1>3 DEF ReaderPush, Push
  <2>3. \A t \in Streams : running[t] => running'[t]
    BY <1>0, <2>2
  <2>4. MaintainOrder => running'[s]
    BY <1>0, <2>2
  <2> QED
    BY <1>0, <2>1, <2>3, <2>4 DEF NoStrandedJob, Jobs
<1>4. ASSUME UNCHANGED <<jobs, running>> PROVE NoStrandedJob'
  BY <1>4 DEF NoStrandedJob
<1> QED
  BY <1>1, <1>2, <1>3, <1>4
     DEF PartEffect, ReaderEffect, ReaderQuiet, ReaderPage, ReaderErred, RecvEffect, SpawnEffect,
         queueVars

\* The log after one more item.
LEMMA LogGrows ==
    ASSUME ReadTypeOK, NEW item \in Items, sent' = Append(sent, item)
    PROVE  /\ Len(sent) \in Nat /\ Len(sent') = Len(sent) + 1
           /\ sent'[Len(sent) + 1] = item
           /\ \A i \in 1 .. Len(sent) : sent'[i] = sent[i]
           /\ \A i \in 1 .. Len(sent') : i \in 1 .. Len(sent) \/ i = Len(sent) + 1
<1>1. sent \in Seq(Items) /\ Len(sent) \in Nat
  BY LenProperties DEF ReadTypeOK, ChannelTypeOK
<1> QED
  BY <1>1, AppendProperties

LEMMA BoundsStep ==
    ASSUME ReadTypeOK, BoundsInv, PartEffect
    PROVE  BoundsInv'
<1>0. /\ pos \in [Streams -> Nat] /\ offset \in [Streams -> Int]
      /\ jobs \subseteq Jobs /\ Rows \in [Streams -> Nat] /\ Skew \subseteq Int
  BY ReadAssumption DEF ReadTypeOK, QueueTypeOK, ReaderTypeOK
<1>1. ASSUME NEW item \in Items, sent' = Append(sent, item),
             item.kind = "batch" => Piece(item.s, item)
      PROVE  \A i \in 1 .. Len(sent') : sent'[i].kind = "batch" => Piece(sent'[i].s, sent'[i])
  BY <1>1, LogGrows DEF BoundsInv
<1>2. ASSUME NEW j \in jobs, JobSides, JobEffect(j) PROVE BoundsInv'
  <2>1. \A s \in Streams : pos'[s] <= Rows[s] /\ (PageHeld(s)' => Piece(s, page'[s]))
    BY <1>2 DEF JobSides, readerVars, BoundsInv, PageHeld
  <2>2. \A i \in jobs' : Piece(i.s, i)
    <3>1. ASSUME NEW i \in jobs' PROVE Piece(i.s, i)
      <4>1. Piece(j.s, j) /\ j \in Jobs
        BY <1>0 DEF BoundsInv
      <4>2. CASE i \in jobs
        BY <4>2 DEF BoundsInv
      <4>3. CASE Becomes(j, i) /\ i.lo = j.lo
        BY <4>1, <4>3 DEF Becomes, Piece
      <4>4. ASSUME NEW m, Becomes(j, i), JobSent(j, m), i.lo = m, m # j.hi PROVE Piece(i.s, i)
        BY <1>0, <4>1, <4>4 DEF Becomes, Piece, JobSent, Jobs
      <4> QED
        BY <1>2, <3>1, <4>2, <4>3, <4>4
           DEF JobEffect, JobKept, JobDropped, JobErred, JobSent, Becomes
    <3> QED
      BY <3>1
  <2>3. \A i \in 1 .. Len(sent') : sent'[i].kind = "batch" => Piece(sent'[i].s, sent'[i])
    <3>1. CASE UNCHANGED sent
      BY <3>1 DEF BoundsInv
    <3>2. CASE JobErred(j)
      <4>1. Err(j.s) \in Items /\ Err(j.s).kind # "batch"
        BY <1>0, ItemTypes DEF Jobs, Err
      <4> QED
        BY <1>1, <3>2, <4>1 DEF JobErred
    <3>3. ASSUME NEW m, JobSent(j, m) PROVE \A i \in 1 .. Len(sent') : sent'[i].kind = "batch" => Piece(sent'[i].s, sent'[i])
      <4>1. Piece(j.s, j) /\ j.lo \in Int /\ j.hi \in Int /\ j.s \in Streams /\ m \in Int
        BY <1>0, <3>3 DEF BoundsInv, Jobs, JobSent
      <4>2. Batch(j.s, j.lo, m) \in Items
        BY <4>1, ItemTypes
      <4>3. Piece(j.s, Batch(j.s, j.lo, m)) /\ Batch(j.s, j.lo, m).s = j.s
        BY <1>0, <3>3, <4>1 DEF Piece, Batch, JobSent
      <4> QED
        BY <1>1, <3>3, <4>2, <4>3 DEF JobSent
    <3> QED
      BY <1>2, <3>1, <3>2, <3>3 DEF JobEffect, JobKept, JobDropped
  <2> QED
    BY <2>1, <2>2, <2>3 DEF BoundsInv
<1>3. ASSUME NEW s \in Streams, ReaderSides(s), ReaderEffect(s) PROVE BoundsInv'
  <2>1. \A t \in Streams \ {s} : pos'[t] <= Rows[t] /\ (PageHeld(t)' => Piece(t, page'[t]))
    BY <1>3 DEF ReaderSides, OnlyStream, BoundsInv, PageHeld
  <2>2. pos'[s] <= Rows[s]
    BY <1>0, <1>3 DEF ReaderEffect, ReaderQuiet, ReaderPage, ReaderPush, ReaderErred, BoundsInv
  <2>3. PageHeld(s)' => Piece(s, page'[s])
    <3>1. ASSUME NEW n, NEW d, ReaderPage(s, n, d) PROVE Piece(s, page'[s])
      BY <1>0, <3>1 DEF ReaderPage, Piece
    <3>2. CASE ReaderErred(s)
      BY <3>2 DEF ReaderErred, PageHeld, BoundsInv
    <3> QED
      BY <1>3, <3>1, <3>2 DEF ReaderEffect, ReaderQuiet, ReaderPush, PageHeld
  <2>4. \A i \in jobs' : Piece(i.s, i)
    <3>1. CASE UNCHANGED jobs
      BY <3>1 DEF BoundsInv
    <3>2. CASE ReaderPush(s)
      <4>1. \A i \in jobs' : \/ i \in jobs
                             \/ i.s = s /\ i.lo = page[s].lo /\ i.hi = page[s].hi
        BY <3>2 DEF ReaderPush, Push
      <4> QED
        BY <3>2, <4>1 DEF ReaderPush, BoundsInv, Piece
    <3> QED
      BY <1>3, <3>1, <3>2 DEF ReaderEffect, ReaderQuiet, ReaderPage, ReaderErred
  <2>5. \A i \in 1 .. Len(sent') : sent'[i].kind = "batch" => Piece(sent'[i].s, sent'[i])
    <3>1. CASE UNCHANGED sent
      BY <3>1 DEF BoundsInv
    <3>2. CASE ReaderErred(s)
      <4>1. Err(s) \in Items /\ Err(s).kind # "batch"
        BY ItemTypes DEF Err
      <4> QED
        BY <1>1, <3>2, <4>1 DEF ReaderErred
    <3> QED
      BY <1>3, <3>1, <3>2 DEF ReaderEffect, ReaderQuiet, ReaderPage, ReaderPush
  <2> QED
    BY <2>1, <2>2, <2>3, <2>4, <2>5 DEF BoundsInv
<1>4. CASE (\E s \in Streams : QueueIdles(s)) \/ RecvEffect
  BY <1>4 DEF QueueIdles, RecvEffect, queueVars, readerVars, BoundsInv, PageHeld
<1>5. CASE SpawnEffect
  BY <1>5 DEF SpawnEffect, queueVars, BoundsInv, PageHeld
<1> QED
  BY <1>2, <1>3, <1>4, <1>5 DEF PartEffect

-----------------------------------------------------------------------------
(* RetriesBounded.                                                         *)

RetryOf(s) ==
    /\ fails[s] <= MaxAttempts
    /\ state[s] \notin {"SendErr", "Terminated", "Switched"} =>
          fails[s] <= Attempts(s) /\ fails[s] < MaxAttempts
    /\ state[s] \in {"Idle", "FirstPage", "Connecting", "Backoff"} => retry[s] # NoRetry

LEMMA RetryInvOf == RetryInv <=> \A s \in Streams : RetryOf(s)
BY DEF RetryInv, RetryOf

\* handle_error goes on only below the limit, with a count that covers the
\* failures so far.
LEMMA HandleErrorRetry ==
    ASSUME ReadTypeOK, NEW s \in Streams, NEW r \in Nat, HandleError(s, r),
           fails[s] <= r, fails[s] < MaxAttempts
    PROVE  RetryOf(s)'
<1>0. /\ MaxAttempts \in Nat /\ fails \in [Streams -> Nat]
      /\ retry \in [Streams -> Nat \cup {NoRetry}] /\ state \in [Streams -> ReaderStates]
  BY RetryAssumption DEF ReadTypeOK, ReaderTypeOK
<1>1. fails'[s] = fails[s] + 1
  BY <1>0 DEF HandleError
<1>2. CASE Fatal(s, schemaTx[s])
  <2>1. state'[s] \in {"SendErr", "Terminated"}
    BY <1>0, <1>2 DEF Fatal
  <2> QED
    BY <1>0, <1>1, <2>1 DEF RetryOf
<1>3. ASSUME NEW e \in Errors, NEW throttled \in BOOLEAN,
             OnError(e, r + 1) = "Continue",
             retry' = [retry EXCEPT ![s] = IF throttled THEN r + 2 ELSE r + 1],
             state' = [state EXCEPT ![s] = "Backoff"]
      PROVE  RetryOf(s)'
  <2>1. r + 1 < MaxAttempts
    BY <1>0, <1>3 DEF OnError
  <2>2. retry'[s] \in Nat /\ r + 1 <= retry'[s] /\ state'[s] = "Backoff"
    BY <1>0, <1>3
  <2>3. retry'[s] # NoRetry
    BY <2>2 DEF NoRetry
  <2> QED
    BY <1>0, <1>1, <2>1, <2>2, <2>3 DEF RetryOf, Attempts
<1> QED
  BY <1>2, <1>3 DEF HandleError

LEMMA RetryReader ==
    ASSUME ReadTypeOK, RetryInv, NEW s \in Streams, ReaderStep(s) \/ TaskAborted(s)
    PROVE  RetryInv'
<1>0. /\ MaxAttempts \in Nat \ {0} /\ fails \in [Streams -> Nat]
      /\ retry \in [Streams -> Nat \cup {NoRetry}] /\ state \in [Streams -> ReaderStates]
  BY RetryAssumption DEF ReadTypeOK, ReaderTypeOK
<1>1. RetryOf(s)
  BY RetryInvOf
<1>2. ASSUME \A t \in Streams \ {s} :
               state'[t] = state[t] /\ retry'[t] = retry[t] /\ fails'[t] = fails[t],
             RetryOf(s)'
      PROVE  RetryInv'
  BY <1>2, RetryInvOf DEF RetryInv, RetryOf, Attempts
<1>3. ASSUME NEW r \in Nat, HandleError(s, r), fails[s] <= r, fails[s] < MaxAttempts
      PROVE  RetryInv'
  <2>1. \A t \in Streams \ {s} :
            state'[t] = state[t] /\ retry'[t] = retry[t] /\ fails'[t] = fails[t]
    BY <1>0, <1>3 DEF HandleError, Fatal
  <2> QED
    BY <1>2, <1>3, <2>1, HandleErrorRetry
<1>4. CASE ConnectErr(s)
  <2>1. retry[s] \in Nat /\ fails[s] <= retry[s] /\ fails[s] < MaxAttempts
    BY <1>0, <1>1, <1>4 DEF ConnectErr, RetryOf, Attempts
  <2> QED
    BY <1>3, <1>4, <2>1 DEF ConnectErr
<1>5. CASE StreamErr(s)
  <2>1. Attempts(s) \in Nat /\ fails[s] <= Attempts(s) /\ fails[s] < MaxAttempts
    BY <1>0, <1>1, <1>5 DEF StreamErr, Reading, RetryOf, Attempts
  <2> QED
    BY <1>3, <1>5, <2>1 DEF StreamErr, Attempts
<1>6. CASE Heartbeat(s) \/ EmptyMessage(s)
  BY <1>0, <1>2, <1>6 DEF Heartbeat, EmptyMessage, Reading, RetryOf, Attempts
<1>7. CASE SchemaError(s) \/ PageError(s) \/ SwitchPage(s)
  BY <1>0, <1>2, <1>7 DEF SchemaError, PageError, SwitchPage, Fatal, RetryOf
<1>8. CASE Page(s)
  <2>1. /\ fails'[s] = 0
        /\ \/ state'[s] = "SendErr"
           \/ state'[s] = "Enqueue" /\ retry'[s] = NoRetry
        /\ \A t \in Streams \ {s} :
              state'[t] = state[t] /\ retry'[t] = retry[t] /\ fails'[t] = fails[t]
    BY <1>0, <1>8 DEF Page, Fatal
  <2> QED
    BY <1>0, <1>2, <2>1 DEF RetryOf, Attempts
<1>9. ASSUME UNCHANGED <<retry, fails>>,
             \A t \in Streams \ {s} : state'[t] = state[t],
             \/ state'[s] \in {"SendErr", "Terminated", "Switched"}
             \/ state[s] \in {"Connecting", "Backoff", "Enqueue", "Reading"} /\ state'[s] = "Reading"
             \/ state[s] \in {"Backoff", "FirstPage"} /\ state'[s] = "Connecting"
      PROVE  RetryInv'
  BY <1>1, <1>2, <1>9 DEF RetryOf, Attempts
<1>10. CASE ConnectOk(s) \/ StreamEof(s)
  BY <1>0, <1>9, <1>10 DEF ConnectOk, StreamEof
<1>11. CASE Advance(s)
  BY <1>0, <1>9, <1>11
     DEF Advance, LocalStep, Cancelled, BackoffElapsed, EnqueuePermit, EnqueueRefused, SendFatal
<1>12. CASE \E hasMore \in BOOLEAN : FirstPagePermit(s, hasMore)
  BY <1>0, <1>9, <1>12 DEF FirstPagePermit
<1>13. CASE TaskAborted(s)
  BY <1>0, <1>9, <1>13 DEF TaskAborted
<1> QED
  BY <1>4, <1>5, <1>6, <1>7, <1>8, <1>10, <1>11, <1>12, <1>13 DEF ReaderStep, ReadRows, ServiceStep

LEMMA RetryStep == ASSUME ReadTypeOK, RetryInv, PartStep PROVE RetryInv'
<1>1. ASSUME UNCHANGED <<state, retry, fails>> PROVE RetryInv'
  BY <1>1 DEF RetryInv, Attempts
<1> QED
  BY <1>1, RetryReader
     DEF PartStep, Drain, Decode, RecvStep, RecvBatch, RecvErr, RecvNone, Drop, readerVars, vars

LEMMA RetryBound == ASSUME RetryInv PROVE RetriesBounded
BY DEF RetryInv, RetriesBounded

-----------------------------------------------------------------------------
(* Errors on their way.  Raising the flag comes first and reporting the    *)
(* error second; in between the error is in one of three places.           *)

ErrQueued == \E i \in nread + 1 .. Len(sent) : sent[i].kind = "err"

ErrInJob == \E j \in jobs : j.phase = "failing"

ErrInReader == \E s \in Streams : state[s] = "SendErr"

ErrOnWay == ErrQueued \/ ErrInJob \/ ErrInReader

LEMMA ErrQueuedStays ==
    ASSUME ReadTypeOK, NEW item \in Items, sent' = Append(sent, item), nread' = nread
    PROVE  /\ ErrQueued => ErrQueued'
           /\ item.kind = "err" => ErrQueued'
<1>1. Len(sent) \in Nat /\ nread \in 0 .. Len(sent)
  BY LenProperties DEF ReadTypeOK, ChannelTypeOK
<1>2. /\ Len(sent') = Len(sent) + 1
      /\ sent'[Len(sent) + 1] = item
      /\ \A i \in 1 .. Len(sent) : sent'[i] = sent[i]
  BY SentGrows DEF ReadTypeOK, ChannelTypeOK
<1> QED
  BY <1>1, <1>2 DEF ErrQueued

LEMMA JobErrOnWay ==
    ASSUME ReadTypeOK, NEW j \in jobs, JobSides, JobEffect(j), cancel', cancel => ErrOnWay
    PROVE  ErrOnWay'
<1>1. (ErrInReader => ErrInReader') /\ nread' = nread /\ j.s \in Streams /\ j.lo \in Int
  BY DEF ErrInReader, JobSides, readerVars, ReadTypeOK, QueueTypeOK, Jobs
<1>2. j.phase # "failing" => (ErrInJob => ErrInJob')
  BY DEF ErrInJob, JobEffect, JobKept, JobDropped, JobErred, JobSent, Becomes
<1>3. ASSUME NEW k, JobKept(j, k) PROVE ErrOnWay'
  <2>1. CASE k.phase = "failing"
    BY <1>3, <2>1 DEF JobKept, Becomes, ErrOnWay, ErrInJob
  <2>2. CASE k.phase # "failing"
    <3>1. cancel /\ j.phase # "failing" /\ sent' = sent
      BY <1>3, <2>2 DEF JobKept, ReadTypeOK, ChannelTypeOK
    <3>2. ErrQueued => ErrQueued'
      BY <1>1, <3>1 DEF ErrQueued
    <3> QED
      BY <1>1, <1>2, <3>1, <3>2 DEF ErrOnWay
  <2> QED
    BY <2>1, <2>2
<1>4. CASE JobDropped(j)
  <2>1. cancel /\ j.phase # "failing" /\ sent' = sent
    BY <1>4 DEF JobDropped
  <2>2. ErrQueued => ErrQueued'
    BY <1>1, <2>1 DEF ErrQueued
  <2> QED
    BY <1>1, <1>2, <2>1, <2>2 DEF ErrOnWay
<1>5. CASE JobErred(j)
  BY <1>1, <1>5, ItemTypes, ErrQueuedStays DEF JobErred, Err, ErrOnWay
<1>6. ASSUME NEW m, JobSent(j, m) PROVE ErrOnWay'
  <2>1. cancel /\ j.phase # "failing" /\ m \in Int
    BY <1>6 DEF JobSent
  <2>2. ErrQueued => ErrQueued'
    BY <1>1, <1>6, <2>1, ItemTypes, ErrQueuedStays DEF JobSent
  <2> QED
    BY <1>1, <1>2, <2>1, <2>2 DEF ErrOnWay
<1> QED
  BY <1>3, <1>4, <1>5, <1>6 DEF JobEffect

\* As long as the consumer is reading, an error is on its way once the flag is
\* up, unless it went to the caller through the schema oneshot.
LEMMA ErrOnWayStep ==
    ASSUME ReadTypeOK, FlagInv, BoundsInv, PartStep, outcome' = "open", cancel'
    PROVE  \/ ErrOnWay'
           \/ cancel /\ ~ErrOnWay
           \/ schema' = "err" /\ \E s \in Streams : schemaTx[s]
<1> SUFFICES ASSUME cancel => ErrOnWay,
                    ~(schema' = "err" /\ \E s \in Streams : schemaTx[s])
             PROVE  ErrOnWay'
  OBVIOUS
<1>1. ASSUME NEW s \in Streams, ReaderStep(s) \/ TaskAborted(s) PROVE ErrOnWay'
  <2>0. ReaderSides(s) /\ ReaderEffect(s)
    BY <1>1, ReaderHasSides, ReaderHasEffect
  <2>1. nread' = nread /\ outcome = "open" /\ state \in [Streams -> ReaderStates]
    BY <2>0 DEF ReaderSides, ReadTypeOK, ReaderTypeOK
  <2>2. ASSUME cancel, jobs \subseteq jobs', sent' = sent, state[s] # "SendErr" PROVE ErrOnWay'
    <3>1. ErrInReader => ErrInReader'
      BY <2>0, <2>2 DEF ErrInReader, ReaderSides, OnlyStream
    <3>2. (ErrQueued => ErrQueued') /\ (ErrInJob => ErrInJob')
      BY <2>1, <2>2 DEF ErrQueued, ErrInJob
    <3> QED
      BY <2>2, <3>1, <3>2 DEF ErrOnWay
  <2>3. CASE ReaderQuiet(s)
    <3>1. CASE state'[s] = "SendErr"
      BY <3>1 DEF ErrOnWay, ErrInReader
    <3>2. CASE state'[s] # "SendErr"
      BY <2>1, <2>2, <2>3, <3>2 DEF ReaderQuiet
    <3> QED
      BY <3>1, <3>2
  <2>4. CASE \E n, d : ReaderPage(s, n, d)
    BY <2>2, <2>4 DEF ReaderPage
  <2>5. CASE ReaderPush(s)
    BY <2>2, <2>5 DEF ReaderPush, Push, PageHeld
  <2>6. CASE ReaderErred(s)
    BY <2>1, <2>6, ItemTypes, ErrQueuedStays DEF ReaderErred, Err, ErrOnWay
  <2> QED
    BY <2>0, <2>3, <2>4, <2>5, <2>6 DEF ReaderEffect
<1>2. ASSUME NEW j \in jobs, Decode(j) PROVE ErrOnWay'
  BY <1>2, DecodeEffect, JobErrOnWay
<1>3. ASSUME NEW s \in Streams, Drain(s) PROVE ErrOnWay'
  <2>1. CASE QueueIdles(s)
    BY <2>1 DEF QueueIdles, readerVars, ErrOnWay, ErrQueued, ErrInJob, ErrInReader
  <2>2. CASE \E j \in jobs : JobSides /\ \E k : JobKept(j, k)
    BY <2>2, JobErrOnWay DEF JobEffect
  <2> QED
    BY <1>3, <2>1, <2>2, DrainHasEffect
<1>4. CASE RecvStep
  <2>1. RecvBatch /\ cancel
    BY <1>4 DEF RecvStep, RecvErr, RecvNone, Drop, Abort, RecvBatch
  <2>2. Len(sent) \in Nat /\ nread \in Nat
    BY LogLength
  <2>3. UNCHANGED <<jobs, state, sent>> /\ nread' = nread + 1 /\ sent[nread + 1].kind = "batch"
    BY <2>1 DEF RecvBatch, queueVars, readerVars
  <2>4. ErrQueued => ErrQueued'
    BY <2>2, <2>3 DEF ErrQueued
  <2> QED
    BY <2>1, <2>3, <2>4 DEF ErrOnWay, ErrInJob, ErrInReader
<1>5. CASE UNCHANGED vars
  BY <1>5 DEF vars, chanVars, queueVars, readerVars, ErrOnWay, ErrQueued, ErrInJob, ErrInReader
<1> QED
  BY <1>1, <1>2, <1>3, <1>4, <1>5 DEF PartStep

-----------------------------------------------------------------------------
(* Where the rows of a stream are.  A page with a wrong row count puts the *)
(* reader's offset off, so all is as it should be only as long as no such  *)
(* page is on its way; its job fails and raises the flag.                  *)

Sound(s) ==
    \/ Skew \subseteq {0}
    \/ /\ ~cancel
       /\ PageHeld(s) => ~page[s].bad
       /\ \A j \in jobs : j.s = s => ~j.bad

InJob(j, s, r) == j.s = s /\ j.lo <= r /\ r < j.hi

InPage(s, r) == PageHeld(s) /\ page[s].lo <= r /\ r < page[s].hi

InLog(i, s, r) == Covers(sent[i], s, r)

\* Row r of stream s is in one place at most, ...
OnePlace(s, r) ==
    /\ \A i, k \in 1 .. Len(sent) : InLog(i, s, r) /\ InLog(k, s, r) => i = k
    /\ \A i \in 1 .. Len(sent), j \in jobs : ~(InLog(i, s, r) /\ InJob(j, s, r))
    /\ \A j, k \in jobs : InJob(j, s, r) /\ InJob(k, s, r) => j = k
    /\ InPage(s, r) => /\ \A i \in 1 .. Len(sent) : ~InLog(i, s, r)
                       /\ \A j \in jobs : ~InJob(j, s, r)

Placed(s, r) ==
    \/ \E i \in 1 .. Len(sent) : InLog(i, s, r)
    \/ \E j \in jobs : InJob(j, s, r)
    \/ InPage(s, r)

\* ... and in none exactly if the reader has still to ask for it; rows are only
\* dropped once the flag is up.
RowInv(s, r) ==
    /\ OnePlace(s, r)
    /\ Placed(s, r) => r < offset[s]
    /\ ~cancel /\ r < offset[s] => Placed(s, r)

OffsetInv(s) ==
    /\ offset[s] \in 0 .. Rows[s]
    /\ state[s] \in {"Reading", "Enqueue"} => pos[s] = offset[s]
    /\ PageHeld(s) => page[s].hi = offset[s]
    /\ state[s] = "Terminated" /\ metadata[s] /\ ~cancel => offset[s] = Rows[s]

RowsInv ==
    \A s \in Streams : Sound(s) =>
        OffsetInv(s) /\ \A r \in 0 .. Rows[s] - 1 : RowInv(s, r)

-----------------------------------------------------------------------------
(* The order of the pieces of a stream, with maintain_order: what is in    *)
(* the log, then the jobs by their number, then the page, then the offset. *)

IsOf(i, s) == sent[i].kind = "batch" /\ sent[i].s = s

\* The first n items of the log have the rows of s up to x.
FrontAt(n, s, x) ==
    \/ x = 0 /\ \A i \in 1 .. n : ~IsOf(i, s)
    \/ \E k \in 1 .. n :
          IsOf(k, s) /\ sent[k].hi = x /\ \A i \in 1 .. n : IsOf(i, s) => i <= k

Front(s, x) == FrontAt(Len(sent), s, x)

\* Log and jobs together have them up to x.
TailAt(s, x) ==
    \/ \E k \in jobs : k.s = s /\ k.n = pushed[s] - 1 /\ k.hi = x
    \/ Front(s, x) /\ \A k \in jobs : k.s # s

\* No job before j is going to fail.
Trusted(j) == ~cancel /\ \A k \in jobs : k.s = j.s /\ k.n < j.n => ~k.bad

\* j starts where the job before it, or the log, stops.
Linked(j) ==
    \/ \E k \in jobs : k.s = j.s /\ k.n = j.n - 1 /\ k.hi = j.lo
    \/ Front(j.s, j.lo) /\ \A k \in jobs : k.s = j.s => j.n <= k.n

\* The item at i goes on where the batches of its stream before it stop.
InOrderAt(i) == sent[i].kind = "batch" => FrontAt(i - 1, sent[i].s, sent[i].lo)

\* The job of a stream that has left the queue is the first one.
ActiveFirst == \A j, k \in jobs : j.s = k.s /\ j.phase # "queued" => j.n <= k.n

\* The stream has no page on its way that is going to fail.
Clean(s) == ~cancel /\ \A j \in jobs : j.s = s => ~j.bad

\* Where the rows begin that are not in the decode queue yet.
Edge(s) == IF PageHeld(s) THEN page[s].lo ELSE offset[s]

OrderInv ==
    MaintainOrder =>
        /\ \A i \in 1 .. Len(sent) : InOrderAt(i)
        /\ ActiveFirst
        /\ \A j \in jobs : Sending(j) => Front(j.s, j.lo)
        /\ \A j \in jobs : Trusted(j) => Linked(j)
        /\ \A s \in Streams : Clean(s) => TailAt(s, Edge(s))

-----------------------------------------------------------------------------
(* RowsInv.  First: what is unsound stays unsound.                         *)

LEMMA SoundBack ==
    ASSUME ReadTypeOK, FlagInv, PartEffect, NEW s \in Streams, Sound(s)'
    PROVE  Sound(s)
<1> SUFFICES ASSUME ~(Skew \subseteq {0})
             PROVE  /\ ~cancel
                    /\ PageHeld(s) => ~page[s].bad
                    /\ \A j \in jobs : j.s = s => ~j.bad
  BY DEF Sound
<1>0. /\ ~cancel'
      /\ PageHeld(s)' => ~page'[s].bad
      /\ \A j \in jobs' : j.s = s => ~j.bad
  BY DEF Sound
<1>b. cancel \in BOOLEAN
  BY DEF ReadTypeOK, ChannelTypeOK
<1>1. ASSUME NEW j \in jobs, JobSides, JobEffect(j)
      PROVE  /\ ~cancel
             /\ PageHeld(s) => ~page[s].bad
             /\ \A i \in jobs : i.s = s => ~i.bad
  <2>1. ~cancel
    <3>1. \/ cancel' = cancel
          \/ \E k : cancel' = (cancel \/ k.phase = "failing")
      BY <1>1 DEF JobEffect, JobKept, JobDropped, JobErred, JobSent
    <3> QED
      BY <1>0, <1>b, <3>1
  <2>2. PageHeld(s) => ~page[s].bad
    BY <1>0, <1>1 DEF JobSides, readerVars, PageHeld
  <2>3. \A i \in jobs \ {j} : i \in jobs'
    BY <1>1 DEF JobEffect, JobKept, JobDropped, JobErred, JobSent, Becomes
  <2>4. j.s = s => ~j.bad
    <3>1. CASE \E k : Becomes(j, k)
      BY <1>0, <3>1 DEF Becomes
    <3>2. CASE JobDropped(j) \/ JobErred(j)
      BY <2>1, <3>2 DEF JobDropped, JobErred, FlagInv
    <3>3. CASE \E m : JobSent(j, m)
      BY <3>3 DEF JobSent, FlagInv, Sending
    <3> QED
      BY <1>1, <3>1, <3>2, <3>3 DEF JobEffect, JobKept
  <2> QED
    BY <1>0, <2>1, <2>2, <2>3, <2>4
<1>2. ASSUME NEW t \in Streams, ReaderSides(t), ReaderEffect(t)
      PROVE  /\ ~cancel
             /\ PageHeld(s) => ~page[s].bad
             /\ \A i \in jobs : i.s = s => ~i.bad
  <2>1. ~cancel
    BY <1>0, <1>2 DEF ReaderEffect, ReaderQuiet, ReaderPage, ReaderPush, ReaderErred
  <2>2. jobs \subseteq jobs'
    BY <1>2 DEF ReaderEffect, ReaderQuiet, ReaderPage, ReaderPush, ReaderErred, Push
  <2>3. CASE t # s
    BY <1>0, <1>2, <2>1, <2>2, <2>3 DEF ReaderSides, OnlyStream, PageHeld
  <2>4. CASE t = s
    <3>1. CASE ReaderQuiet(s) \/ \E n, d : ReaderPage(s, n, d)
      BY <1>0, <2>1, <2>2, <3>1 DEF ReaderQuiet, ReaderPage, PageHeld
    <3>2. CASE ReaderPush(s)
      <4>1. \E i \in jobs' : i.s = s /\ i.bad = page[s].bad
        BY <3>2, Pushed DEF ReaderPush, NewJob
      <4> QED
        BY <1>0, <2>1, <2>2, <4>1
    <3>3. CASE ReaderErred(s)
      BY <2>1, <3>3 DEF ReaderErred
    <3> QED
      BY <1>2, <2>4, <3>1, <3>2, <3>3 DEF ReaderEffect
  <2> QED
    BY <2>3, <2>4
<1>3. CASE (\E t \in Streams : QueueIdles(t)) \/ RecvEffect
  BY <1>0, <1>3 DEF QueueIdles, RecvEffect, FlagInv, queueVars, readerVars, PageHeld
<1>4. CASE SpawnEffect
  BY <1>0, <1>4 DEF SpawnEffect, queueVars, PageHeld
<1> QED
  BY <1>1, <1>2, <1>3, <1>4 DEF PartEffect

\* A step lowers the flag in no case.
LEMMA FlagStays ==
    ASSUME ReadTypeOK, FlagInv, PartEffect, cancel
    PROVE  cancel'
<1>b. cancel \in BOOLEAN
  BY DEF ReadTypeOK, ChannelTypeOK
<1>1. ASSUME NEW j \in jobs, JobEffect(j) PROVE cancel'
  <2>1. \/ cancel' = cancel
        \/ \E k : cancel' = (cancel \/ k.phase = "failing")
    BY <1>1 DEF JobEffect, JobKept, JobDropped, JobErred, JobSent
  <2> QED
    BY <1>b, <2>1
<1>2. ASSUME NEW s \in Streams, ReaderEffect(s) PROVE cancel'
  BY <1>2 DEF ReaderEffect, ReaderQuiet, ReaderPage, ReaderPush, ReaderErred
<1> QED
  BY <1>1, <1>2 DEF PartEffect, QueueIdles, RecvEffect, SpawnEffect

\* A first page that is the whole result ends the task; the stream is then at
\* its end.
FirstPageIsAll ==
    \A s \in Streams :
        (Sound(s) /\ state[s] = "FirstPage" /\ state'[s] = "Terminated" /\ ~cancel)
            => offset[s] = Rows[s]

LEMMA OffsetStep ==
    ASSUME ReadTypeOK, FlagInv, PartEffect, FirstPageIsAll,
           NEW s \in Streams, Sound(s), Sound(s)', OffsetInv(s)
    PROVE  OffsetInv(s)'
<1>0. /\ pos \in [Streams -> Nat] /\ offset \in [Streams -> Int]
      /\ Rows \in [Streams -> Nat] /\ Skew \subseteq Int
  BY ReadAssumption DEF ReadTypeOK, ReaderTypeOK
<1>c. cancel => cancel'
  BY FlagStays
<1>1. ASSUME state'[s] = state[s], offset'[s] = offset[s], pos'[s] = pos[s],
             page'[s] = page[s], metadata'[s] = metadata[s]
      PROVE  OffsetInv(s)'
  BY <1>c, <1>1 DEF OffsetInv, PageHeld
<1>2. ASSUME NEW j \in jobs, JobSides PROVE OffsetInv(s)'
  BY <1>1, <1>2 DEF JobSides, readerVars
<1>3. ASSUME NEW t \in Streams, ReaderSides(t), t # s PROVE OffsetInv(s)'
  BY <1>1, <1>3 DEF ReaderSides, OnlyStream
<1>4. CASE ReaderQuiet(s)
  <2>1. /\ offset'[s] = offset[s] /\ ~PageHeld(s)'
        /\ offset[s] \in 0 .. Rows[s] /\ (state[s] = "Reading" => pos[s] = offset[s])
    BY <1>4 DEF ReaderQuiet, OffsetInv
  <2>2. state'[s] \in {"Reading", "Enqueue"} => pos'[s] = offset[s]
    BY <1>4, <2>1 DEF ReaderQuiet, PageHeld
  <2>3. state'[s] = "Terminated" /\ metadata'[s] /\ ~cancel' => offset[s] = Rows[s]
    BY <1>4, <2>1 DEF ReaderQuiet
  <2> QED
    BY <2>1, <2>2, <2>3 DEF OffsetInv
<1>5. ASSUME NEW n, NEW d, ReaderPage(s, n, d) PROVE OffsetInv(s)'
  <2>1. d = 0
    BY <1>5 DEF ReaderPage, Sound, PageHeld
  <2>2. pos[s] = offset[s] /\ pos'[s] = pos[s] + n /\ n \in 1 .. Rows[s] - pos[s]
    BY <1>5 DEF ReaderPage, OffsetInv
  <2>3. offset'[s] = pos'[s] /\ page'[s].hi = pos'[s] /\ state'[s] = "Enqueue"
    BY <1>0, <1>5, <2>1, <2>2 DEF ReaderPage
  <2> QED
    BY <1>0, <2>2, <2>3 DEF OffsetInv, PageHeld
<1>6. CASE ReaderPush(s)
  BY <1>6 DEF ReaderPush, OffsetInv, FirstPageIsAll, PageHeld
<1>7. CASE ReaderErred(s)
  BY <1>7 DEF ReaderErred, OffsetInv, PageHeld
<1>8. CASE (\E t \in Streams : QueueIdles(t)) \/ RecvEffect
  BY <1>1, <1>8 DEF QueueIdles, RecvEffect, readerVars
<1>9. CASE SpawnEffect
  BY <1>9 DEF SpawnEffect, OffsetInv, PageHeld
<1> QED
  BY <1>2, <1>3, <1>4, <1>5, <1>6, <1>7, <1>8, <1>9 DEF PartEffect, ReaderEffect

-----------------------------------------------------------------------------
(* One row under each effect.                                              *)

LEMMA RowKept ==
    ASSUME ReadTypeOK, JobsInv, NEW s \in Streams, NEW r \in Nat, RowInv(s, r),
           NEW j \in jobs, NEW k, Becomes(j, k), k.lo = j.lo, cancel => cancel',
           UNCHANGED <<sent, state, page, offset>>
    PROVE  RowInv(s, r)'
<1>1. \A i \in jobs' : i = k \/ (i \in jobs /\ i # j)
  BY DEF Becomes
<1>2. InJob(k, s, r) <=> InJob(j, s, r)
  BY DEF Becomes, InJob
<1>3. \A i \in jobs : i # j => i \in jobs'
  BY DEF Becomes
<1>4. k \in jobs'
  BY DEF Becomes
<1>5. (InPage(s, r)' <=> InPage(s, r)) /\ \A i : InLog(i, s, r)' <=> InLog(i, s, r)
  BY DEF InPage, PageHeld, InLog
<1>6. OnePlace(s, r)'
  BY <1>1, <1>2, <1>5 DEF RowInv, OnePlace
<1>7. Placed(s, r)' <=> Placed(s, r)
  BY <1>1, <1>2, <1>3, <1>4, <1>5 DEF Placed
<1> QED
  BY <1>6, <1>7 DEF RowInv

\* Rows that leave the read do so under a raised flag.
LEMMA RowGone ==
    ASSUME ReadTypeOK, NEW s \in Streams, NEW r \in Nat, RowInv(s, r),
           jobs' \subseteq jobs, cancel',
           InPage(s, r)' => InPage(s, r),
           \A i \in 1 .. Len(sent') : InLog(i, s, r)' => i \in 1 .. Len(sent) /\ InLog(i, s, r),
           offset'[s] = offset[s]
    PROVE  RowInv(s, r)'
<1>1. OnePlace(s, r)'
  BY DEF RowInv, OnePlace
<1>2. Placed(s, r)' => Placed(s, r)
  BY DEF Placed
<1> QED
  BY <1>1, <1>2 DEF RowInv

\* A batch leaves its job for the log.
LEMMA RowSent ==
    ASSUME ReadTypeOK, JobsInv, BoundsInv, NEW s \in Streams, NEW r \in Nat, RowInv(s, r),
           NEW j \in jobs, NEW m, JobSent(j, m),
           UNCHANGED <<state, page, offset>>
    PROVE  RowInv(s, r)'
<1>0. /\ j.s \in Streams /\ j.lo \in Int /\ j.hi \in Int /\ m \in Int
      /\ j.lo < m /\ m <= j.hi /\ cancel' = cancel
  BY DEF ReadTypeOK, QueueTypeOK, Jobs, JobSent
<1> DEFINE In(i) == InJob(i, s, r)
<1>t. PICK top : top = Len(sent) + 1
  OBVIOUS
<1>1. /\ Len(sent) \in Nat /\ Len(sent') = top
      /\ \A i \in 1 .. Len(sent) : sent'[i] = sent[i]
      /\ \A i \in 1 .. Len(sent') : i \in 1 .. Len(sent) \/ i = top
      /\ sent'[top] = Batch(j.s, j.lo, m)
  BY <1>0, <1>t, ItemTypes, LogGrows DEF JobSent
<1>2. InPage(s, r)' <=> InPage(s, r)
  BY DEF InPage, PageHeld
<1>3. \A i \in 1 .. Len(sent) : InLog(i, s, r)' <=> InLog(i, s, r)
  BY <1>1, <1>t DEF InLog
<1>4. InLog(top, s, r)' <=> (In(j) /\ r < m)
  BY <1>0, <1>1 DEF InLog, Covers, Batch, InJob
<1>5. \A i \in jobs' : \/ i \in jobs /\ i # j
                       \/ In(i) <=> (In(j) /\ ~(r < m))
  BY <1>0 DEF JobSent, Becomes, InJob
<1>6. \A i \in jobs : i # j => i \in jobs'
  BY DEF JobSent, Becomes
<1>7. In(j) /\ ~(r < m) => \E i \in jobs' : In(i)
  BY <1>0 DEF JobSent, Becomes, InJob
<1>8. \A i, l \in jobs' : (~(i \in jobs /\ i # j) /\ ~(l \in jobs /\ l # j)) => i = l
  BY DEF JobSent, Becomes
<1>9. top \in 1 .. Len(sent')
  BY <1>1, <1>t
<1> HIDE DEF In
<1>10. OnePlace(s, r)'
  <2> USE DEF In
  <2>1. \A i, k \in 1 .. Len(sent') : InLog(i, s, r)' /\ InLog(k, s, r)' => i = k
    BY <1>1, <1>3, <1>4 DEF RowInv, OnePlace
  <2>2. \A i \in 1 .. Len(sent'), k \in jobs' : ~(InLog(i, s, r)' /\ InJob(k, s, r))
    <3> SUFFICES ASSUME NEW i \in 1 .. Len(sent'), NEW k \in jobs',
                        InLog(i, s, r)', In(k)
                 PROVE  FALSE
      OBVIOUS
    <3>1. CASE i = top
      BY <1>4, <1>5, <3>1 DEF RowInv, OnePlace
    <3>2. CASE i \in 1 .. Len(sent)
      BY <1>3, <1>5, <3>2 DEF RowInv, OnePlace
    <3> QED
      BY <1>1, <3>1, <3>2
  <2>3. \A i, k \in jobs' : InJob(i, s, r) /\ InJob(k, s, r) => i = k
    BY <1>5, <1>8 DEF RowInv, OnePlace
  <2>4. InPage(s, r)' => /\ \A i \in 1 .. Len(sent') : ~InLog(i, s, r)'
                         /\ \A k \in jobs' : ~InJob(k, s, r)
    BY <1>1, <1>2, <1>3, <1>4, <1>5 DEF RowInv, OnePlace
  <2> QED
    BY <2>1, <2>2, <2>3, <2>4 DEF OnePlace, InJob
<1>11. Placed(s, r)' => Placed(s, r)
  <2> SUFFICES ASSUME Placed(s, r)' PROVE Placed(s, r)
    OBVIOUS
  <2>1. CASE \E i \in 1 .. Len(sent') : InLog(i, s, r)'
    BY <1>1, <1>3, <1>4, <2>1 DEF Placed, In
  <2>2. CASE \E i \in jobs' : InJob(i, s, r)
    BY <1>5, <2>2 DEF Placed, In
  <2>3. CASE InPage(s, r)'
    BY <1>2, <2>3 DEF Placed
  <2> QED
    BY <2>1, <2>2, <2>3 DEF Placed, InJob
<1>12. Placed(s, r) => Placed(s, r)'
  <2> SUFFICES ASSUME Placed(s, r) PROVE Placed(s, r)'
    OBVIOUS
  <2>1. CASE \E i \in 1 .. Len(sent) : InLog(i, s, r)
    BY <1>1, <1>3, <1>t, <2>1 DEF Placed
  <2>2. CASE \E i \in jobs : i # j /\ InJob(i, s, r)
    BY <1>6, <2>2 DEF Placed, InJob
  <2>3. CASE In(j) /\ r < m
    BY <1>4, <1>9, <2>3 DEF Placed
  <2>4. CASE In(j) /\ ~(r < m)
    BY <1>7, <2>4 DEF Placed, In, InJob
  <2>5. CASE InPage(s, r)
    BY <1>2, <2>5 DEF Placed
  <2> QED
    BY <2>1, <2>2, <2>3, <2>4, <2>5 DEF Placed, In
<1> QED
  BY <1>0, <1>10, <1>11, <1>12 DEF RowInv

\* The page of t goes into the decode queue.
LEMMA RowPushed ==
    ASSUME ReadTypeOK, JobsInv, NEW s \in Streams, NEW r \in Nat, RowInv(s, r),
           NEW t \in Streams, ReaderSides(t), ReaderPush(t)
    PROVE  RowInv(s, r)'
<1>1. PICK k : NewJob(t, k)
  BY Pushed DEF ReaderPush
<1>2. /\ jobs' = jobs \cup {k} /\ UNCHANGED <<sent, cancel>> /\ offset'[s] = offset[s]
      /\ \A i : InLog(i, s, r)' <=> InLog(i, s, r)
  BY <1>1 DEF NewJob, ReaderPush, ReaderSides, OnlyStream, InLog
<1>3. CASE t # s
  <2>1. ~InJob(k, s, r) /\ (InPage(s, r)' <=> InPage(s, r))
    BY <1>1, <1>3 DEF NewJob, InJob, InPage, PageHeld, ReaderSides, OnlyStream
  <2>2. OnePlace(s, r)'
    BY <1>2, <2>1 DEF RowInv, OnePlace
  <2>3. Placed(s, r)' <=> Placed(s, r)
    BY <1>2, <2>1 DEF Placed
  <2> QED
    BY <1>2, <2>2, <2>3 DEF RowInv
<1>4. CASE t = s
  <2>1. (InJob(k, s, r) <=> InPage(s, r)) /\ ~InPage(s, r)'
    BY <1>1, <1>4 DEF NewJob, InJob, InPage, ReaderPush, PageHeld
  <2>2. OnePlace(s, r)'
    BY <1>2, <2>1 DEF RowInv, OnePlace
  <2>3. Placed(s, r)' <=> Placed(s, r)
    BY <1>2, <2>1 DEF Placed
  <2> QED
    BY <1>2, <2>2, <2>3 DEF RowInv
<1> QED
  BY <1>3, <1>4

\* A new page has the rows from the offset on, which were nowhere yet.
LEMMA RowPaged ==
    ASSUME ReadTypeOK, BoundsInv, NEW s \in Streams, NEW r \in Nat, RowInv(s, r), OffsetInv(s),
           OffsetInv(s)', NEW n, NEW d, ReaderPage(s, n, d)
    PROVE  RowInv(s, r)'
<1>0. pos[s] \in Nat /\ offset[s] \in Int /\ Rows[s] \in Nat
  BY ReadAssumption DEF ReadTypeOK, ReaderTypeOK
<1>1. /\ UNCHANGED <<jobs, sent, cancel>> /\ ~InPage(s, r)
      /\ \A i : InLog(i, s, r)' <=> InLog(i, s, r)
  BY DEF ReaderPage, InLog, InPage, PageHeld
<1>2. offset[s] = pos[s] /\ offset'[s] = pos[s] + n /\ n \in Nat
  BY <1>0 DEF ReaderPage, OffsetInv, PageHeld
<1>3. InPage(s, r)' <=> (offset[s] <= r /\ r < offset'[s])
  BY <1>2 DEF ReaderPage, InPage, PageHeld
<1>4. OnePlace(s, r)'
  BY <1>0, <1>1, <1>2, <1>3 DEF RowInv, OnePlace, Placed
<1>5. Placed(s, r)' <=> (Placed(s, r) \/ InPage(s, r)')
  BY <1>1 DEF Placed
<1> QED
  BY <1>0, <1>1, <1>2, <1>3, <1>4, <1>5 DEF RowInv

\* Nothing happens to the row.
LEMMA RowSame ==
    ASSUME NEW s \in Streams, NEW r \in Nat, RowInv(s, r), cancel => cancel',
           UNCHANGED <<jobs, sent>>, offset'[s] = offset[s], InPage(s, r)' <=> InPage(s, r)
    PROVE  RowInv(s, r)'
<1>1. \A i : InLog(i, s, r)' <=> InLog(i, s, r)
  BY DEF InLog
<1>2. OnePlace(s, r)'
  BY <1>1 DEF RowInv, OnePlace
<1>3. Placed(s, r)' <=> Placed(s, r)
  BY <1>1 DEF Placed
<1> QED
  BY <1>2, <1>3 DEF RowInv

\* RowsInv survives every step.
LEMMA RowsStep ==
    ASSUME ReadTypeOK, FlagInv, JobsInv, BoundsInv, RowsInv, PartEffect, FirstPageIsAll
    PROVE  RowsInv'
<1> SUFFICES ASSUME NEW s \in Streams, Sound(s)'
             PROVE  OffsetInv(s)' /\ \A r \in 0 .. Rows[s] - 1 : RowInv(s, r)'
  BY DEF RowsInv
<1>1. Sound(s) /\ (cancel => cancel')
  BY SoundBack, FlagStays
<1>2. OffsetInv(s) /\ \A r \in 0 .. Rows[s] - 1 : RowInv(s, r)
  BY <1>1 DEF RowsInv
<1>3. OffsetInv(s)'
  BY <1>1, <1>2, OffsetStep
<1>4. ASSUME NEW r \in 0 .. Rows[s] - 1 PROVE RowInv(s, r)'
  <2>0. r \in Nat /\ RowInv(s, r)
    BY <1>2, <1>4
  <2>1. ASSUME NEW j \in jobs, JobSides, JobEffect(j) PROVE RowInv(s, r)'
    <3>0. UNCHANGED <<state, page, offset>> /\ j.s \in Streams
      BY <2>1 DEF JobSides, readerVars, ReadTypeOK, QueueTypeOK, Jobs
    <3>1. ASSUME NEW k, JobKept(j, k) PROVE RowInv(s, r)'
      BY <1>1, <2>0, <3>0, <3>1, RowKept DEF JobKept
    <3>2. CASE JobDropped(j)
      <4>1. /\ jobs' \subseteq jobs /\ cancel' /\ sent' = sent
            /\ (InPage(s, r)' => InPage(s, r)) /\ offset'[s] = offset[s]
        BY <3>0, <3>2 DEF JobDropped, InPage, PageHeld
      <4>2. \A i \in 1 .. Len(sent') : InLog(i, s, r)' => i \in 1 .. Len(sent) /\ InLog(i, s, r)
        BY <4>1 DEF InLog
      <4> QED
        BY <2>0, <4>1, <4>2, RowGone
    <3>3. CASE JobErred(j)
      <4>1. /\ jobs' \subseteq jobs /\ cancel'
            /\ (InPage(s, r)' => InPage(s, r)) /\ offset'[s] = offset[s]
        BY <3>0, <3>3 DEF JobErred, InPage, PageHeld, FlagInv
      <4>2. \A i \in 1 .. Len(sent') : InLog(i, s, r)' => i \in 1 .. Len(sent) /\ InLog(i, s, r)
        BY <3>0, <3>3, ItemTypes, LogGrows DEF JobErred, InLog, Covers, Err
      <4> QED
        BY <2>0, <4>1, <4>2, RowGone
    <3>4. ASSUME NEW m, JobSent(j, m) PROVE RowInv(s, r)'
      BY <2>0, <3>0, <3>4, RowSent
    <3> QED
      BY <2>1, <3>1, <3>2, <3>3, <3>4 DEF JobEffect
  <2>2. ASSUME NEW t \in Streams, ReaderSides(t), ReaderEffect(t) PROVE RowInv(s, r)'
    <3>1. CASE ReaderPush(t)
      BY <2>0, <2>2, <3>1, RowPushed
    <3>2. CASE ReaderErred(t)
      <4>1. /\ jobs' \subseteq jobs /\ cancel' /\ offset'[s] = offset[s]
            /\ InPage(s, r)' => InPage(s, r)
        BY <2>2, <3>2 DEF ReaderErred, ReaderSides, OnlyStream, InPage, PageHeld
      <4>2. \A i \in 1 .. Len(sent') : InLog(i, s, r)' => i \in 1 .. Len(sent) /\ InLog(i, s, r)
        BY <3>2, ItemTypes, LogGrows DEF ReaderErred, InLog, Covers, Err
      <4> QED
        BY <2>0, <4>1, <4>2, RowGone
    <3>3. CASE ReaderQuiet(t) \/ \E n, d : ReaderPage(t, n, d)
      <4>1. UNCHANGED <<jobs, sent>>
        BY <3>3 DEF ReaderQuiet, ReaderPage
      <4>2. CASE t # s
        <5>1. offset'[s] = offset[s] /\ (InPage(s, r)' <=> InPage(s, r))
          BY <2>2, <4>2 DEF ReaderSides, OnlyStream, InPage, PageHeld
        <5> QED
          BY <1>1, <2>0, <4>1, <5>1, RowSame
      <4>3. ASSUME t = s, NEW n, NEW d, ReaderPage(t, n, d) PROVE RowInv(s, r)'
        BY <1>2, <1>3, <2>0, <4>3, RowPaged
      <4>4. CASE t = s /\ ReaderQuiet(s)
        <5>1. offset'[s] = offset[s] /\ ~InPage(s, r)' /\ (PageHeld(s) => cancel)
          BY <4>4 DEF ReaderQuiet, InPage
        <5>2. CASE cancel
          <6>1. \A i \in 1 .. Len(sent') :
                    InLog(i, s, r)' => i \in 1 .. Len(sent) /\ InLog(i, s, r)
            BY <4>1 DEF InLog
          <6> QED
            BY <1>1, <2>0, <4>1, <5>1, <5>2, <6>1, RowGone
        <5>3. CASE ~cancel
          BY <1>1, <2>0, <4>1, <5>1, <5>3, RowSame DEF InPage
        <5> QED
          BY <5>2, <5>3
      <4> QED
        BY <3>3, <4>2, <4>3, <4>4
    <3> QED
      BY <2>2, <3>1, <3>2, <3>3 DEF ReaderEffect
  <2>3. CASE (\E t \in Streams : QueueIdles(t)) \/ RecvEffect \/ SpawnEffect
    <3>1. UNCHANGED <<jobs, sent, offset, page>>
      BY <2>3 DEF QueueIdles, RecvEffect, SpawnEffect, queueVars, readerVars
    <3>2. PageHeld(s)' <=> PageHeld(s)
      BY <2>3 DEF QueueIdles, RecvEffect, SpawnEffect, readerVars, PageHeld
    <3>3. InPage(s, r)' <=> InPage(s, r)
      BY <3>1, <3>2 DEF InPage
    <3> QED
      BY <1>1, <2>0, <3>1, <3>3, RowSame
  <2> QED
    BY <2>1, <2>2, <2>3 DEF PartEffect
<1> QED
  BY <1>3, <1>4

\* No row is in the log twice.
LEMMA LogHasRowsOnce ==
    ASSUME ReadTypeOK, BoundsInv, RowsInv, NEW s \in Streams, Sound(s),
           NEW r \in 0 .. Rows[s] - 1, NEW I \in SUBSET (1 .. Len(sent))
    PROVE  /\ Copies(s, r, I) \in {0, 1}
           /\ (\E i \in I : InLog(i, s, r)) => Copies(s, r, I) = 1
           /\ (\A i \in I : ~InLog(i, s, r)) => Copies(s, r, I) = 0
<1> DEFINE C == {i \in I : Covers(sent[i], s, r)}
<1>1. Copies(s, r, I) = Cardinality(C)
  BY DEF Copies
<1>2. \A i, k \in I : InLog(i, s, r) /\ InLog(k, s, r) => i = k
  BY DEF RowsInv, RowInv, OnePlace
<1>3. ASSUME NEW i \in I, InLog(i, s, r) PROVE C = {i}
  BY <1>2, <1>3 DEF InLog
<1>4. (\A i \in I : ~InLog(i, s, r)) => C = {}
  BY DEF InLog
<1> HIDE DEF C
<1>5. ASSUME NEW i \in I, InLog(i, s, r) PROVE Cardinality(C) = 1
  BY <1>3, <1>5, FS_Singleton, Zenon
<1>6. (\A i \in I : ~InLog(i, s, r)) => Cardinality(C) = 0
  BY <1>4, FS_EmptySet, Zenon
<1> QED
  BY <1>1, <1>5, <1>6

-----------------------------------------------------------------------------
(* OrderInv.  The log first.                                               *)

\* A longer log has the same beginning.
LEMMA FrontAtSame ==
    ASSUME ReadTypeOK, NEW n \in 0 .. Len(sent), NEW s, NEW x,
           \A i \in 1 .. Len(sent) : sent'[i] = sent[i]
    PROVE  FrontAt(n, s, x)' <=> FrontAt(n, s, x)
<1>1. Len(sent) \in Nat
  BY LogLength
<1>2. \A i \in 1 .. n : sent'[i] = sent[i]
  BY <1>1
<1> QED
  BY <1>2 DEF FrontAt, IsOf

\* An item that is no batch of s does not move the front of s.
LEMMA FrontStays ==
    ASSUME ReadTypeOK, NEW item \in Items, sent' = Append(sent, item),
           NEW s, item.kind = "err" \/ item.s # s, NEW x
    PROVE  Front(s, x)' <=> Front(s, x)
<1>1. /\ Len(sent) \in Nat /\ Len(sent') = Len(sent) + 1
      /\ sent'[Len(sent) + 1] = item
      /\ \A i \in 1 .. Len(sent) : sent'[i] = sent[i]
      /\ \A i \in 1 .. Len(sent') : i \in 1 .. Len(sent) \/ i = Len(sent) + 1
  BY LogGrows
<1>2. \A i \in 1 .. Len(sent') : IsOf(i, s)' => i \in 1 .. Len(sent) /\ IsOf(i, s)
  BY <1>1 DEF IsOf
<1>3. \A i \in 1 .. Len(sent) : i \in 1 .. Len(sent') /\ (IsOf(i, s) => IsOf(i, s)')
  BY <1>1 DEF IsOf
<1> QED
  BY <1>1, <1>2, <1>3 DEF Front, FrontAt

\* A batch that starts at the front of its stream is in order and moves it.
LEMMA FrontMoves ==
    ASSUME ReadTypeOK, NEW s \in Streams, NEW lo \in Int, NEW hi \in Int,
           sent' = Append(sent, Batch(s, lo, hi)), Front(s, lo),
           \A i \in 1 .. Len(sent) : InOrderAt(i)
    PROVE  /\ Front(s, hi)'
           /\ \A i \in 1 .. Len(sent') : InOrderAt(i)'
<1>t. PICK top : top = Len(sent) + 1
  OBVIOUS
<1>1. /\ Len(sent) \in Nat /\ Len(sent') = top
      /\ sent'[top] = Batch(s, lo, hi)
      /\ \A i \in 1 .. Len(sent) : sent'[i] = sent[i]
      /\ \A i \in 1 .. Len(sent') : i \in 1 .. Len(sent) \/ i = top
  BY <1>t, ItemTypes, LogGrows
<1>2. /\ sent'[top].kind = "batch" /\ sent'[top].s = s
      /\ sent'[top].lo = lo /\ sent'[top].hi = hi
  BY <1>1 DEF Batch
<1>3. Front(s, hi)'
  <2>1. top \in 1 .. Len(sent') /\ \A i \in 1 .. Len(sent') : i <= top
    BY <1>1, <1>t
  <2> QED
    BY <1>2, <2>1 DEF Front, FrontAt, IsOf
<1>4. ASSUME NEW i \in 1 .. Len(sent) PROVE InOrderAt(i)'
  <2>1. i - 1 \in 0 .. Len(sent) /\ sent'[i] = sent[i] /\ InOrderAt(i)
    BY <1>1
  <2> QED
    BY <1>1, <2>1, FrontAtSame DEF InOrderAt
<1>5. InOrderAt(top)'
  <2>1. top - 1 = Len(sent) /\ top - 1 \in 0 .. Len(sent)
    BY <1>1, <1>t
  <2>2. FrontAt(top - 1, s, lo)
    BY <2>1 DEF Front
  <2> QED
    BY <1>1, <1>2, <2>1, <2>2, FrontAtSame DEF InOrderAt
<1> QED
  BY <1>1, <1>3, <1>4, <1>5

\* An error in the log disturbs nothing.
LEMMA ErrInOrder ==
    ASSUME ReadTypeOK, NEW s \in Streams, sent' = Append(sent, Err(s)),
           \A i \in 1 .. Len(sent) : InOrderAt(i)
    PROVE  \A i \in 1 .. Len(sent') : InOrderAt(i)'
<1>t. PICK top : top = Len(sent) + 1
  OBVIOUS
<1>1. /\ Len(sent) \in Nat /\ Len(sent') = top
      /\ sent'[top] = Err(s)
      /\ \A i \in 1 .. Len(sent) : sent'[i] = sent[i]
      /\ \A i \in 1 .. Len(sent') : i \in 1 .. Len(sent) \/ i = top
  BY <1>t, ItemTypes, LogGrows
<1>2. InOrderAt(top)'
  BY <1>1 DEF InOrderAt, Err
<1>3. ASSUME NEW i \in 1 .. Len(sent) PROVE InOrderAt(i)'
  <2>1. i - 1 \in 0 .. Len(sent) /\ sent'[i] = sent[i] /\ InOrderAt(i)
    BY <1>1
  <2> QED
    BY <1>1, <2>1, FrontAtSame DEF InOrderAt
<1> QED
  BY <1>1, <1>2, <1>3

LEMMA FrontUnchanged ==
    ASSUME UNCHANGED sent
    PROVE  /\ \A s, x : Front(s, x)' <=> Front(s, x)
           /\ (\A i \in 1 .. Len(sent) : InOrderAt(i))
                  => \A i \in 1 .. Len(sent') : InOrderAt(i)'
BY DEF Front, FrontAt, IsOf, InOrderAt

LEMMA InOrderMeansPrefix ==
    ASSUME ReadTypeOK, OrderInv
    PROVE  OrderedPrefix
<1> SUFFICES ASSUME MaintainOrder, NEW i \in 1 .. nread, sent[i].kind = "batch"
             PROVE  LET before == {k \in 1 .. i - 1 : sent[k].kind = "batch"
                                                       /\ sent[k].s = sent[i].s}
                    IN  IF before = {} THEN sent[i].lo = 0
                        ELSE \E k \in before : sent[k].hi = sent[i].lo
                                               /\ \A l \in before : l <= k
  BY DEF OrderedPrefix, Received
<1>1. i \in 1 .. Len(sent)
  BY LogLength DEF ReadTypeOK, ChannelTypeOK
<1>2. FrontAt(i - 1, sent[i].s, sent[i].lo)
  BY <1>1 DEF OrderInv, InOrderAt
<1> DEFINE before == {k \in 1 .. i - 1 : sent[k].kind = "batch" /\ sent[k].s = sent[i].s}
<1>3. CASE sent[i].lo = 0 /\ \A k \in 1 .. i - 1 : ~IsOf(k, sent[i].s)
  BY <1>3 DEF IsOf
<1>4. ASSUME NEW k \in 1 .. i - 1, IsOf(k, sent[i].s), sent[k].hi = sent[i].lo,
             \A l \in 1 .. i - 1 : IsOf(l, sent[i].s) => l <= k
      PROVE  /\ before # {}
             /\ \E m \in before : sent[m].hi = sent[i].lo /\ \A l \in before : l <= m
  BY <1>4 DEF IsOf
<1> QED
  BY <1>2, <1>3, <1>4 DEF FrontAt

-----------------------------------------------------------------------------
(* The jobs and the edge, effect by effect.                                *)

\* The job at the front of its queue starts at the front of the log.
LEMMA FirstAtFront ==
    ASSUME ReadTypeOK, MaintainOrder, OrderInv, NEW j \in jobs, j.phase # "queued", ~cancel
    PROVE  Front(j.s, j.lo)
<1>1. \A k \in jobs : k.s = j.s => j.n <= k.n
  BY DEF OrderInv, ActiveFirst
<1>2. \A k \in jobs : k.n \in Nat
  BY DEF ReadTypeOK, QueueTypeOK, Jobs
<1>3. Trusted(j)
  BY <1>1, <1>2 DEF Trusted
<1>4. Linked(j)
  BY <1>3 DEF OrderInv
<1> QED
  BY <1>1, <1>2, <1>4 DEF Linked

\* A replaced job is as good a link as it was.
LEMMA LinksKept ==
    ASSUME ReadTypeOK, MaintainOrder, OrderInv, cancel => cancel',
           NEW j \in jobs, NEW k, Becomes(j, k), k.lo = j.lo, UNCHANGED <<sent, pushed>>
    PROVE  /\ \A i \in jobs' : Trusted(i)' => Linked(i)'
           /\ \A s \in Streams : Clean(s)' => \A x : TailAt(s, x) => TailAt(s, x)'
           /\ \A s \in Streams : Clean(s)' => Clean(s)
<1>1. \A i \in jobs' : i = k \/ (i \in jobs /\ i # j)
  BY DEF Becomes
<1>2. k \in jobs' /\ \A i \in jobs : i # j => i \in jobs'
  BY DEF Becomes
<1>3. k.s = j.s /\ k.n = j.n /\ k.lo = j.lo /\ k.hi = j.hi /\ k.bad = j.bad
  BY DEF Becomes
<1>4. \A s, x : Front(s, x)' <=> Front(s, x)
  BY FrontUnchanged
<1>5. ASSUME NEW i \in jobs', Trusted(i)' PROVE Linked(i)'
  <2>1. PICK o \in jobs : o.s = i.s /\ o.n = i.n /\ o.lo = i.lo
    BY <1>1, <1>3
  <2>2. ~cancel /\ \A l \in jobs' : l.s = i.s /\ l.n < i.n => ~l.bad
    BY <1>5 DEF Trusted
  <2>3. Trusted(o)
    BY <1>2, <1>3, <2>1, <2>2 DEF Trusted
  <2>4. Linked(o)
    BY <2>3 DEF OrderInv
  <2>5. CASE \E l \in jobs : l.s = o.s /\ l.n = o.n - 1 /\ l.hi = o.lo
    <3>1. \E l \in jobs' : l.s = i.s /\ l.n = i.n - 1 /\ l.hi = i.lo
      BY <1>2, <1>3, <2>1, <2>5
    <3> QED
      BY <3>1 DEF Linked
  <2>6. CASE Front(o.s, o.lo) /\ \A l \in jobs : l.s = o.s => o.n <= l.n
    <3>1. \A l \in jobs' : l.s = i.s => i.n <= l.n
      BY <1>1, <1>3, <2>1, <2>6
    <3>2. Front(i.s, i.lo)'
      BY <1>4, <2>1, <2>6
    <3> QED
      BY <3>1, <3>2 DEF Linked
  <2> QED
    BY <2>4, <2>5, <2>6 DEF Linked
<1>6. ASSUME NEW s \in Streams, Clean(s)', NEW x, TailAt(s, x) PROVE TailAt(s, x)'
  <2>1. CASE \E l \in jobs : l.s = s /\ l.n = pushed[s] - 1 /\ l.hi = x
    <3>1. \E l \in jobs' : l.s = s /\ l.n = pushed'[s] - 1 /\ l.hi = x
      BY <1>2, <1>3, <2>1
    <3> QED
      BY <3>1 DEF TailAt
  <2>2. CASE Front(s, x) /\ \A l \in jobs : l.s # s
    BY <1>1, <1>3, <1>4, <2>2 DEF TailAt
  <2> QED
    BY <1>6, <2>1, <2>2 DEF TailAt
<1>7. \A s \in Streams : Clean(s)' => Clean(s)
  BY <1>2, <1>3 DEF Clean
<1> QED
  BY <1>5, <1>6, <1>7

LEMMA OrderKept ==
    ASSUME ReadTypeOK, MaintainOrder, OrderInv, cancel => cancel',
           NEW j \in jobs, NEW k, JobKept(j, k), JobSides
    PROVE  OrderInv'
<1>1. Becomes(j, k) /\ k.lo = j.lo /\ UNCHANGED <<sent, pushed, state, page, offset>>
  BY DEF JobKept, JobSides, readerVars
<1>2. \A i \in jobs' : i = k \/ (i \in jobs /\ i # j)
  BY <1>1 DEF Becomes
<1>3. k.s = j.s /\ k.n = j.n
  BY <1>1 DEF Becomes
<1>4. \A i \in 1 .. Len(sent') : InOrderAt(i)'
  BY <1>1, FrontUnchanged DEF OrderInv
<1>5. ActiveFirst'
  <2>1. \A l \in jobs : l.s = j.s => j.n <= l.n
    BY DEF JobKept, OrderInv, ActiveFirst
  <2>2. \A l \in jobs : l.n \in Nat
    BY DEF ReadTypeOK, QueueTypeOK, Jobs
  <2> QED
    BY <1>2, <1>3, <2>1, <2>2 DEF OrderInv, ActiveFirst
<1>6. ASSUME NEW i \in jobs', Sending(i) PROVE Front(i.s, i.lo)'
  <2>1. CASE i # k
    BY <1>1, <1>2, <1>6, <2>1, FrontUnchanged DEF OrderInv
  <2>2. CASE i = k
    <3>1. (j.phase = "decoding" /\ ~cancel) \/ j.phase = "more"
      BY <1>6, <2>2 DEF JobKept, Sending
    <3>2. Front(j.s, j.lo)
      BY <3>1, FirstAtFront DEF OrderInv, Sending
    <3> QED
      BY <1>1, <1>3, <2>2, <3>2, FrontUnchanged
  <2> QED
    BY <2>1, <2>2
<1>7. \A i \in jobs' : Trusted(i)' => Linked(i)'
  BY <1>1, LinksKept
<1>8. ASSUME NEW s \in Streams, Clean(s)' PROVE TailAt(s, Edge(s))'
  <2>1. PICK x : x = Edge(s)
    OBVIOUS
  <2>2. Edge(s)' = x
    BY <1>1, <2>1 DEF Edge, PageHeld
  <2>3. TailAt(s, x)'
    BY <1>1, <1>8, <2>1, LinksKept DEF OrderInv
  <2> QED
    BY <2>2, <2>3 DEF TailAt, Front, FrontAt
<1> QED
  BY <1>4, <1>5, <1>6, <1>7, <1>8 DEF OrderInv, Sending

\* Under a raised flag only the jobs that are sending matter.
LEMMA OrderCancelled ==
    ASSUME ReadTypeOK, MaintainOrder, OrderInv, cancel', jobs' \subseteq jobs,
           sent' = sent \/ \E s \in Streams : sent' = Append(sent, Err(s))
    PROVE  OrderInv'
<1>1. \A i \in 1 .. Len(sent') : InOrderAt(i)'
  BY FrontUnchanged, ErrInOrder DEF OrderInv
<1>2. \A s, x : Front(s, x)' <=> Front(s, x)
  <2>1. ASSUME NEW t \in Streams, sent' = Append(sent, Err(t)), NEW s, NEW x
        PROVE  Front(s, x)' <=> Front(s, x)
    BY <2>1, ItemTypes, FrontStays DEF Err
  <2> QED
    BY <2>1, FrontUnchanged
<1>3. ActiveFirst'
  BY DEF OrderInv, ActiveFirst
<1>4. \A j \in jobs' : Sending(j) => Front(j.s, j.lo)'
  BY <1>2 DEF OrderInv
<1>5. (\A j \in jobs' : ~Trusted(j)') /\ \A s \in Streams : ~Clean(s)'
  BY DEF Trusted, Clean
<1> QED
  BY <1>1, <1>3, <1>4, <1>5 DEF OrderInv, Sending

LEMMA OrderSent ==
    ASSUME ReadTypeOK, FlagInv, JobsInv, BoundsInv, MaintainOrder, OrderInv,
           NEW j \in jobs, NEW m, JobSent(j, m), JobSides
    PROVE  OrderInv'
<1>0. /\ j.s \in Streams /\ j.lo \in Int /\ j.hi \in Int /\ m \in Int /\ ~j.bad
      /\ \A i \in jobs : i.n \in Nat /\ i.s \in Streams
      /\ pushed \in [Streams -> Nat] /\ Batch(j.s, j.lo, m) \in Items
  <2>1. \A i \in jobs : i.n \in Nat /\ i.s \in Streams /\ i.lo \in Int /\ i.hi \in Int
    BY DEF ReadTypeOK, QueueTypeOK, Jobs
  <2>2. m \in Int /\ ~j.bad
    BY DEF JobSent, FlagInv, Sending
  <2> QED
    BY <2>1, <2>2, ItemTypes DEF ReadTypeOK, QueueTypeOK
<1>1. /\ sent' = Append(sent, Batch(j.s, j.lo, m))
      /\ UNCHANGED <<cancel, pushed, state, page, offset>>
  BY DEF JobSent, JobSides, readerVars
<1>2. Front(j.s, j.lo)
  BY DEF JobSent, OrderInv, Sending
<1>3. Front(j.s, m)' /\ \A i \in 1 .. Len(sent') : InOrderAt(i)'
  BY <1>0, <1>1, <1>2, FrontMoves DEF OrderInv
<1>4. \A s, x : s # j.s => (Front(s, x)' <=> Front(s, x))
  BY <1>0, <1>1, FrontStays DEF Batch
<1>5. \A l \in jobs : l.s = j.s => j.n <= l.n
  BY DEF JobSent, OrderInv, ActiveFirst
<1>6. \A l \in jobs : l.s = j.s /\ l # j => j.n < l.n
  BY <1>0, <1>5 DEF JobsInv
\* the rest of the page, if there is one, is the job k
<1>7. \A i \in jobs' : \/ i \in jobs /\ i # j
                       \/ /\ i.s = j.s /\ i.n = j.n /\ i.hi = j.hi /\ i.bad = j.bad
                          /\ i.lo = m /\ m # j.hi
  BY DEF JobSent, Becomes
<1>8. \A i \in jobs : i # j => i \in jobs'
  BY DEF JobSent, Becomes
<1>9. m = j.hi \/ \E k \in jobs' : k.s = j.s /\ k.n = j.n /\ k.hi = j.hi /\ k.bad = j.bad
  BY DEF JobSent, Becomes
<1>10. ActiveFirst'
  BY <1>0, <1>5, <1>7 DEF OrderInv, ActiveFirst
<1>11. ASSUME NEW i \in jobs', Sending(i) PROVE Front(i.s, i.lo)'
  <2>1. CASE i \in jobs /\ i # j
    <3>1. i.s # j.s
      <4>1. i.phase # "queued" /\ (i.s = j.s => i.n <= j.n)
        BY <1>11, <2>1 DEF OrderInv, ActiveFirst, Sending
      <4> QED
        BY <1>0, <1>6, <2>1, <4>1
    <3> QED
      BY <1>4, <1>11, <2>1, <3>1 DEF OrderInv
  <2>2. CASE i.s = j.s /\ i.lo = m
    BY <1>3, <2>2
  <2> QED
    BY <1>7, <2>1, <2>2
<1>12. ASSUME NEW i \in jobs', Trusted(i)' PROVE Linked(i)'
  <2>0. ~cancel /\ \A l \in jobs' : l.s = i.s /\ l.n < i.n => ~l.bad
    BY <1>1, <1>12 DEF Trusted
  <2>1. CASE i.s = j.s /\ i.n = j.n /\ i.lo = m
    <3>1. \A l \in jobs' : l.s = i.s => i.n <= l.n
      BY <1>0, <1>5, <1>7, <2>1
    <3> QED
      BY <1>3, <2>1, <3>1 DEF Linked
  <2>2. CASE i \in jobs /\ i # j
    <3>1. Trusted(i)
      BY <1>0, <1>8, <2>0, <2>2 DEF Trusted
    <3>2. Linked(i)
      BY <2>2, <3>1 DEF OrderInv
    <3>3. ASSUME NEW l \in jobs, l.s = i.s, l.n = i.n - 1, l.hi = i.lo PROVE Linked(i)'
      <4>1. CASE l # j
        BY <1>8, <3>3, <4>1 DEF Linked
      <4>2. CASE l = j /\ m # j.hi
        <5>1. PICK k \in jobs' : k.s = j.s /\ k.n = j.n /\ k.hi = j.hi
          BY <1>9, <4>2
        <5> QED
          BY <3>3, <4>2, <5>1 DEF Linked
      <4>3. CASE l = j /\ m = j.hi
        <5>1. \A o \in jobs' : o.s = i.s => i.n <= o.n
          BY <1>0, <1>6, <1>7, <2>2, <3>3, <4>3
        <5>2. Front(i.s, i.lo)'
          BY <1>3, <3>3, <4>3
        <5> QED
          BY <5>1, <5>2 DEF Linked
      <4> QED
        BY <4>1, <4>2, <4>3
    <3>4. CASE Front(i.s, i.lo) /\ \A l \in jobs : l.s = i.s => i.n <= l.n
      <4>1. i.s # j.s
        BY <1>0, <1>6, <2>2, <3>4
      <4>2. \A l \in jobs' : l.s = i.s => i.n <= l.n
        BY <1>7, <3>4, <4>1
      <4> QED
        BY <1>4, <3>4, <4>1, <4>2 DEF Linked
    <3> QED
      BY <3>2, <3>3, <3>4 DEF Linked
  <2> QED
    BY <1>7, <2>1, <2>2
<1>13. ASSUME NEW s \in Streams, Clean(s)' PROVE TailAt(s, Edge(s))'
  <2>1. PICK x : x = Edge(s)
    OBVIOUS
  <2>2. Edge(s)' = x
    BY <1>1, <2>1 DEF Edge, PageHeld
  <2>3. Clean(s)
    BY <1>0, <1>1, <1>8, <1>13 DEF Clean
  <2>4. TailAt(s, x)
    BY <2>1, <2>3 DEF OrderInv
  <2>5. TailAt(s, x)'
    <3>1. ASSUME NEW l \in jobs, l.s = s, l.n = pushed[s] - 1, l.hi = x PROVE TailAt(s, x)'
      <4>1. CASE l # j
        BY <1>1, <1>8, <3>1, <4>1 DEF TailAt
      <4>2. CASE l = j /\ m # j.hi
        <5>1. PICK k \in jobs' : k.s = j.s /\ k.n = j.n /\ k.hi = j.hi
          BY <1>9, <4>2
        <5> QED
          BY <1>1, <3>1, <4>2, <5>1 DEF TailAt
      <4>3. CASE l = j /\ m = j.hi
        <5>1. \A o \in jobs : o.n < pushed[o.s]
          BY DEF JobsInv
        <5>2. \A o \in jobs : o # j => o.s # s
          BY <1>0, <1>6, <3>1, <4>3, <5>1
        <5>3. \A o \in jobs' : o.s # s
          BY <1>7, <4>3, <5>2
        <5> QED
          BY <1>3, <3>1, <4>3, <5>3 DEF TailAt
      <4> QED
        BY <4>1, <4>2, <4>3
    <3>2. CASE Front(s, x) /\ \A l \in jobs : l.s # s
      BY <1>4, <1>7, <3>2 DEF TailAt
    <3> QED
      BY <2>4, <3>1, <3>2 DEF TailAt
  <2> QED
    BY <2>2, <2>5 DEF TailAt, Front, FrontAt
<1> QED
  BY <1>3, <1>10, <1>11, <1>12, <1>13 DEF OrderInv, Sending

\* A page that waits behind a clean queue starts where the queue ends.
LEMMA CleanIsSound ==
    ASSUME FlagInv, NEW s \in Streams, Clean(s), PageHeld(s) => ~page[s].bad
    PROVE  Sound(s)
BY DEF Clean, Sound

LEMMA OrderPushed ==
    ASSUME ReadTypeOK, FlagInv, JobsInv, RowsInv, MaintainOrder, OrderInv,
           NEW s \in Streams, ReaderSides(s), ReaderPush(s)
    PROVE  OrderInv'
<1>0. /\ pushed \in [Streams -> Nat]
      /\ \A i \in jobs : i.n \in Nat /\ i.s \in Streams /\ i.n < pushed[i.s]
  BY DEF ReadTypeOK, QueueTypeOK, Jobs, JobsInv
<1>1. PICK k : NewJob(s, k)
  BY Pushed DEF ReaderPush
<1>2. /\ jobs' = jobs \cup {k} /\ UNCHANGED <<sent, cancel>> /\ k \in jobs'
      /\ k.s = s /\ k.n = pushed[s] /\ k.phase = "queued"
      /\ k.lo = page[s].lo /\ k.hi = page[s].hi /\ k.bad = page[s].bad
      /\ pushed' = [pushed EXCEPT ![s] = @ + 1] /\ PageHeld(s)
  BY <1>1 DEF NewJob, ReaderPush, Push
<1>3. (\A t, x : Front(t, x)' <=> Front(t, x)) /\ \A i \in 1 .. Len(sent') : InOrderAt(i)'
  BY <1>2, FrontUnchanged DEF OrderInv
<1>4. ActiveFirst'
  BY <1>0, <1>2 DEF OrderInv, ActiveFirst
<1>5. \A i \in jobs' : Sending(i) => Front(i.s, i.lo)'
  BY <1>2, <1>3 DEF OrderInv, Sending
<1>6. ASSUME NEW i \in jobs', Trusted(i)' PROVE Linked(i)'
  <2>0. ~cancel /\ \A l \in jobs : l.s = i.s /\ l.n < i.n => ~l.bad
    BY <1>2, <1>6 DEF Trusted
  <2>1. CASE i \in jobs
    <3>1. Linked(i)
      BY <2>0, <2>1 DEF Trusted, OrderInv
    <3>2. CASE \E l \in jobs : l.s = i.s /\ l.n = i.n - 1 /\ l.hi = i.lo
      BY <1>2, <3>2 DEF Linked
    <3>3. CASE Front(i.s, i.lo) /\ \A l \in jobs : l.s = i.s => i.n <= l.n
      <4>1. \A l \in jobs' : l.s = i.s => i.n <= l.n
        BY <1>0, <1>2, <2>1, <3>3
      <4> QED
        BY <1>3, <3>3, <4>1 DEF Linked
    <3> QED
      BY <3>1, <3>2, <3>3 DEF Linked
  <2>2. CASE i = k
    <3>1. Clean(s)
      BY <1>0, <1>2, <2>0, <2>2 DEF Clean
    <3>2. TailAt(s, k.lo)
      BY <1>2, <3>1 DEF OrderInv, Edge
    <3>3. CASE \E l \in jobs : l.s = s /\ l.n = pushed[s] - 1 /\ l.hi = k.lo
      BY <1>2, <2>2, <3>3 DEF Linked
    <3>4. CASE Front(s, k.lo) /\ \A l \in jobs : l.s # s
      <4>1. \A l \in jobs' : l.s = s => k.n <= l.n
        BY <1>0, <1>2, <3>4
      <4> QED
        BY <1>2, <1>3, <2>2, <3>4, <4>1 DEF Linked
    <3> QED
      BY <3>2, <3>3, <3>4 DEF TailAt
  <2> QED
    BY <1>2, <2>1, <2>2
<1>7. ASSUME NEW t \in Streams, Clean(t)' PROVE TailAt(t, Edge(t))'
  <2>0. Clean(t)
    BY <1>2, <1>7 DEF Clean
  <2>1. CASE t = s
    <3>1. ~page[s].bad
      BY <1>2, <1>7, <2>1 DEF Clean
    <3>2. page[s].hi = offset[s]
      BY <1>2, <2>0, <2>1, <3>1, CleanIsSound DEF RowsInv, OffsetInv
    <3>3. PICK x : x = offset[s]
      OBVIOUS
    <3>4. Edge(s)' = x /\ pushed'[s] - 1 = pushed[s]
      BY <1>0, <1>2, <3>3 DEF Edge, ReaderPush, PageHeld
    <3>5. k.s = s /\ k.n = pushed'[s] - 1 /\ k.hi = x
      BY <1>2, <3>2, <3>3, <3>4
    <3>6. TailAt(s, x)'
      BY <1>2, <3>5 DEF TailAt
    <3> QED
      BY <2>1, <3>4, <3>6 DEF TailAt, Front, FrontAt
  <2>2. CASE t # s
    <3>1. PICK x : x = Edge(t)
      OBVIOUS
    <3>2. Edge(t)' = x /\ pushed'[t] = pushed[t]
      BY <1>0, <1>2, <2>2, <3>1 DEF Edge, ReaderSides, OnlyStream, PageHeld
    <3>3. TailAt(t, x)
      BY <2>0, <3>1 DEF OrderInv
    <3>4. TailAt(t, x)'
      BY <1>2, <1>3, <2>2, <3>2, <3>3 DEF TailAt
    <3> QED
      BY <3>2, <3>4 DEF TailAt, Front, FrontAt
  <2> QED
    BY <2>1, <2>2
<1> QED
  BY <1>3, <1>4, <1>5, <1>6, <1>7 DEF OrderInv, Sending

\* Steps that leave the log and the jobs alone keep the edge of every clean
\* stream where it is.
LEMMA OrderSame ==
    ASSUME ReadTypeOK, MaintainOrder, OrderInv, cancel => cancel',
           UNCHANGED <<jobs, sent, pushed>>,
           \A s \in Streams : Clean(s)' => Edge(s)' = Edge(s)
    PROVE  OrderInv'
<1>1. (\A t, x : Front(t, x)' <=> Front(t, x)) /\ \A i \in 1 .. Len(sent') : InOrderAt(i)'
  BY FrontUnchanged DEF OrderInv
<1>2. ActiveFirst' /\ \A i \in jobs' : Sending(i) => Front(i.s, i.lo)'
  BY <1>1 DEF OrderInv, ActiveFirst
<1>3. ASSUME NEW i \in jobs', Trusted(i)' PROVE Linked(i)'
  <2>1. Linked(i)
    BY <1>3 DEF OrderInv, Trusted
  <2> QED
    BY <1>1, <2>1 DEF Linked
<1>4. ASSUME NEW s \in Streams, Clean(s)' PROVE TailAt(s, Edge(s))'
  <2>1. PICK x : x = Edge(s)
    OBVIOUS
  <2>2. TailAt(s, x)
    BY <1>4, <2>1 DEF Clean, OrderInv
  <2>3. TailAt(s, x)'
    BY <1>1, <2>2 DEF TailAt
  <2>4. Edge(s)' = x
    BY <1>4, <2>1
  <2> QED
    BY <2>3, <2>4 DEF TailAt, Front, FrontAt
<1> QED
  BY <1>1, <1>2, <1>3, <1>4 DEF OrderInv, Sending

\* OrderInv survives every step.
LEMMA OrderStep ==
    ASSUME ReadTypeOK, FlagInv, JobsInv, BoundsInv, RowsInv, OrderInv, PartEffect
    PROVE  OrderInv'
<1> SUFFICES ASSUME MaintainOrder PROVE OrderInv'
  BY DEF OrderInv
<1>c. cancel => cancel'
  BY FlagStays
<1>1. ASSUME NEW j \in jobs, JobSides, JobEffect(j) PROVE OrderInv'
  <2>0. j.s \in Streams
    BY DEF ReadTypeOK, QueueTypeOK, Jobs
  <2>1. ASSUME NEW k, JobKept(j, k) PROVE OrderInv'
    BY <1>1, <1>c, <2>1, OrderKept
  <2>2. CASE JobDropped(j) \/ JobErred(j)
    BY <1>c, <2>0, <2>2, OrderCancelled DEF JobDropped, JobErred, FlagInv
  <2>3. ASSUME NEW m, JobSent(j, m) PROVE OrderInv'
    BY <1>1, <2>3, OrderSent
  <2> QED
    BY <1>1, <2>1, <2>2, <2>3 DEF JobEffect
<1>2. ASSUME NEW s \in Streams, ReaderSides(s), ReaderEffect(s) PROVE OrderInv'
  <2>1. CASE ReaderPush(s)
    BY <1>2, <2>1, OrderPushed
  <2>2. CASE ReaderErred(s)
    BY <1>c, <2>2, OrderCancelled DEF ReaderErred
  <2>3. CASE ReaderQuiet(s)
    <3>1. ASSUME NEW t \in Streams, Clean(t)' PROVE Edge(t)' = Edge(t)
      <4>1. CASE t # s
        BY <1>2, <4>1 DEF ReaderSides, OnlyStream, Edge, PageHeld
      <4>2. CASE t = s
        <5>1. ~PageHeld(s) /\ ~PageHeld(s)' /\ offset'[s] = offset[s]
          BY <1>c, <2>3, <3>1, <4>2 DEF ReaderQuiet, Clean
        <5> QED
          BY <4>2, <5>1 DEF Edge
      <4> QED
        BY <4>1, <4>2
    <3> QED
      BY <1>c, <2>3, <3>1, OrderSame DEF ReaderQuiet
  <2>4. ASSUME NEW n, NEW d, ReaderPage(s, n, d) PROVE OrderInv'
    <3>1. ASSUME NEW t \in Streams, Clean(t)' PROVE Edge(t)' = Edge(t)
      <4>1. CASE t # s
        BY <1>2, <4>1 DEF ReaderSides, OnlyStream, Edge, PageHeld
      <4>2. CASE t = s
        <5>1. Clean(s) /\ ~PageHeld(s) /\ PageHeld(s)' /\ page'[s].lo = pos[s]
          BY <2>4, <3>1, <4>2 DEF ReaderPage, Clean, PageHeld
        <5>2. pos[s] = offset[s]
          BY <2>4, <5>1, CleanIsSound DEF RowsInv, OffsetInv, ReaderPage
        <5> QED
          BY <4>2, <5>1, <5>2 DEF Edge
      <4> QED
        BY <4>1, <4>2
    <3> QED
      BY <1>c, <2>4, <3>1, OrderSame DEF ReaderPage
  <2> QED
    BY <1>2, <2>1, <2>2, <2>3, <2>4 DEF ReaderEffect
<1>3. CASE (\E t \in Streams : QueueIdles(t)) \/ RecvEffect \/ SpawnEffect
  <2>1. UNCHANGED <<jobs, sent, pushed, offset, page>>
    BY <1>3 DEF QueueIdles, RecvEffect, SpawnEffect, queueVars, readerVars
  <2>2. \A s \in Streams : PageHeld(s)' <=> PageHeld(s)
    BY <1>3 DEF QueueIdles, RecvEffect, SpawnEffect, readerVars, PageHeld
  <2>3. \A s \in Streams : Edge(s)' = Edge(s)
    BY <2>1, <2>2 DEF Edge
  <2> QED
    BY <1>c, <2>1, <2>3, OrderSame
<1> QED
  BY <1>1, <1>2, <1>3 DEF PartEffect

-----------------------------------------------------------------------------
(* The inductive invariant of every read, put together.                    *)

FlowInv ==
    /\ FlagInv
    /\ JobsInv
    /\ PermitsConserved
    /\ NoStrandedJob
    /\ BoundsInv
    /\ RowsInv
    /\ OrderInv

PartInv == ReadTypeOK /\ RetryInv /\ FlowInv

LEMMA FlowStep ==
    ASSUME ReadTypeOK, FlowInv, PartEffect, FirstPageIsAll
    PROVE  FlowInv'
<1>1. FlagInv' /\ JobsInv' /\ BoundsInv'
  BY FlagStep, JobsStep, BoundsStep DEF FlowInv
<1>2. PermitsConserved' /\ NoStrandedJob'
  BY PermitsStep, StrandedStep DEF FlowInv
<1>3. RowsInv' /\ OrderInv'
  BY RowsStep, OrderStep DEF FlowInv
<1> QED
  BY <1>1, <1>2, <1>3 DEF FlowInv

LEMMA PartInvStep ==
    ASSUME PartInv, PartStep, FirstPageIsAll
    PROVE  PartInv' /\ PartEffect
<1>1. PartEffect
  BY StepHasEffect DEF PartInv, FlowInv
<1> QED
  BY <1>1, PartTypes, RetryStep, FlowStep DEF PartInv

\* Where the task of a stream starts: not yet, before its first call, or with an
\* inline first page of hi rows that says it has hi + d.
Started(s) ==
    \/ state[s] \in {"Idle", "Connecting"} /\ offset[s] = 0
    \/ /\ state[s] = "FirstPage"
       /\ page[s].lo = 0 /\ page[s].hi \in 1 .. Rows[s]
       /\ \E d \in Skew : offset[s] = page[s].hi + d /\ page[s].bad = (d # 0)

Fresh ==
    /\ sent = <<>> /\ nread = 0 /\ permits = Capacity /\ ~closed /\ ~cancel
    /\ QueueInit
    /\ ReceiverInit
    /\ \A s \in Streams : Started(s) /\ retry[s] = 0 /\ fails[s] = 0 /\ pos[s] = 0

LEMMA FreshInv == ASSUME ReadTypeOK, Fresh PROVE PartInv
<1>0. /\ sent = <<>> /\ nread = 0 /\ permits = Capacity /\ ~closed /\ ~cancel
      /\ jobs = {} /\ outcome = "open"
  BY DEF Fresh, QueueInit, ReceiverInit
<1>1. /\ Rows \in [Streams -> Nat] /\ Skew \subseteq Int
      /\ page \in [Streams -> [lo : Int, hi : Int, bad : BOOLEAN]]
      /\ Len(sent) = 0 /\ pushed = [s \in Streams |-> 0]
  BY <1>0, ReadAssumption DEF ReadTypeOK, ReaderTypeOK, Fresh, QueueInit
<1>2. FlagInv
  <2>1. ASSUME Skew \subseteq {0}, NEW s \in Streams, PageHeld(s) PROVE ~page[s].bad
    BY <1>1, <2>1 DEF Fresh, Started, PageHeld
  <2>2. \A s \in Streams : state[s] # "SendErr"
    BY DEF Fresh, Started
  <2> QED
    BY <1>0, <2>1, <2>2 DEF FlagInv
<1>3. JobsInv
  BY <1>0, FS_EmptySet, Zenon DEF JobsInv
<1>4. PermitsConserved
  <2>1. {j \in jobs : HoldsPermit(j)} = {}
    BY <1>0
  <2>2. Cardinality({}) = 0
    BY FS_EmptySet, Zenon
  <2> QED
    BY <1>0, <1>1, <2>1, <2>2, CapacityAssumption DEF PermitsConserved
<1>5. NoStrandedJob
  BY <1>0 DEF NoStrandedJob
<1>6. BoundsInv
  <2>1. ASSUME NEW s \in Streams PROVE pos[s] <= Rows[s] /\ (PageHeld(s) => Piece(s, page[s]))
    <3>1. Rows[s] \in Nat /\ pos[s] = 0 /\ Started(s)
      BY <1>1 DEF Fresh
    <3>2. PageHeld(s) => page[s].lo = 0 /\ page[s].hi \in 1 .. Rows[s]
      BY <3>1 DEF Started, PageHeld
    <3> QED
      BY <3>1, <3>2 DEF Piece
  <2> QED
    BY <1>0, <1>1, <2>1 DEF BoundsInv
<1>7. RetryInv
  <2>1. MaxAttempts \in Nat /\ 0 < MaxAttempts /\ NoRetry # 0
    BY RetryAssumption DEF NoRetry
  <2>2. \A s \in Streams : retry[s] = 0 /\ fails[s] = 0
    BY DEF Fresh
  <2> QED
    BY <2>1, <2>2 DEF RetryInv, Attempts
<1>8. RowsInv
  <2> SUFFICES ASSUME NEW s \in Streams, Sound(s)
               PROVE  OffsetInv(s) /\ \A r \in 0 .. Rows[s] - 1 : RowInv(s, r)
    BY DEF RowsInv
  <2>1. CASE state[s] \in {"Idle", "Connecting"} /\ offset[s] = 0
    BY <1>0, <1>1, <2>1 DEF OffsetInv, PageHeld, RowInv, OnePlace, Placed, InPage
  <2>2. CASE state[s] = "FirstPage"
    <3>0. Rows[s] \in Nat /\ Started(s) /\ PageHeld(s)
      BY <1>1, <2>2 DEF Fresh, PageHeld
    <3>a. PICK d \in Skew : offset[s] = page[s].hi + d /\ page[s].bad = (d # 0)
      BY <2>2, <3>0 DEF Started
    <3>b. d = 0
      BY <1>1, <3>0, <3>a DEF Sound
    <3>1. page[s].lo = 0 /\ page[s].hi \in 1 .. Rows[s] /\ offset[s] = page[s].hi
      BY <1>1, <2>2, <3>0, <3>a, <3>b DEF Started
    <3>2. OffsetInv(s)
      BY <1>1, <2>2, <3>1 DEF OffsetInv
    <3>3. \A r \in 0 .. Rows[s] - 1 : RowInv(s, r)
      BY <1>0, <1>1, <2>2, <3>1 DEF PageHeld, RowInv, OnePlace, Placed, InPage
    <3> QED
      BY <3>2, <3>3
  <2> QED
    BY <2>1, <2>2 DEF Fresh, Started
<1>9. OrderInv
  <2>1. ASSUME NEW s \in Streams PROVE TailAt(s, Edge(s))
    <3>1. Edge(s) = 0
      BY DEF Edge, PageHeld, Fresh, Started
    <3> QED
      BY <1>0, <1>1, <3>1 DEF TailAt, Front, FrontAt
  <2> QED
    BY <1>0, <1>1, <2>1 DEF OrderInv, ActiveFirst
<1> QED
  BY <1>2, <1>3, <1>4, <1>5, <1>6, <1>7, <1>8, <1>9 DEF PartInv, FlowInv

-----------------------------------------------------------------------------
(* What follows for the consumer.                                          *)

\* The log only grows at its end.
LEMMA LogKept ==
    ASSUME ReadTypeOK, PartEffect
    PROVE  /\ Len(sent) \in Nat /\ Len(sent') \in Nat /\ Len(sent) <= Len(sent')
           /\ \A i \in 1 .. Len(sent) : sent'[i] = sent[i]
<1>0. Len(sent) \in Nat
  BY LogLength
<1>1. CASE sent' = sent
  BY <1>0, <1>1
<1>2. ASSUME NEW item \in Items, sent' = Append(sent, item)
      PROVE  /\ Len(sent') \in Nat /\ Len(sent) <= Len(sent')
             /\ \A i \in 1 .. Len(sent) : sent'[i] = sent[i]
  BY <1>0, <1>2, LogGrows
<1>3. ASSUME NEW j \in jobs, JobEffect(j)
      PROVE  sent' = sent \/ \E item \in Items : sent' = Append(sent, item)
  <2>1. j.s \in Streams /\ j.lo \in Int
    BY DEF ReadTypeOK, QueueTypeOK, Jobs
  <2> QED
    BY <1>3, <2>1, ItemTypes DEF JobEffect, JobKept, JobDropped, JobErred, JobSent
<1>4. ASSUME NEW s \in Streams, ReaderEffect(s)
      PROVE  sent' = sent \/ \E item \in Items : sent' = Append(sent, item)
  BY <1>4, ItemTypes DEF ReaderEffect, ReaderQuiet, ReaderPage, ReaderPush, ReaderErred
<1> QED
  BY <1>0, <1>1, <1>2, <1>3, <1>4 DEF PartEffect, QueueIdles, RecvEffect, SpawnEffect

\* Items that are in the log keep their rows.
LEMMA CopiesKept ==
    ASSUME ReadTypeOK, PartEffect, NEW s, NEW r, NEW I \in SUBSET (1 .. Len(sent)), I' = I
    PROVE  Copies(s, r, I)' = Copies(s, r, I)
<1>1. {i \in I : Covers(sent'[i], s, r)} = {i \in I : Covers(sent[i], s, r)}
  BY LogKept
<1> QED
  BY <1>1 DEF Copies, Covers

\* With page counts that are right, no row reaches the consumer twice.
LEMMA RowsReceivedOnce ==
    ASSUME PartInv, Skew \subseteq {0}
    PROVE  RowsOnce
<1>1. Received \in SUBSET (1 .. Len(sent))
  BY LogLength DEF PartInv, ReadTypeOK, ChannelTypeOK, Received
<1>2. \A s \in Streams : Sound(s)
  BY DEF Sound
<1>3. ASSUME NEW s \in Streams, NEW r \in 0 .. Rows[s] - 1 PROVE Copies(s, r, Received) <= 1
  <2>1. Copies(s, r, Received) \in {0, 1}
    BY <1>1, <1>2, LogHasRowsOnce DEF PartInv, FlowInv
  <2> QED
    BY <2>1
<1> QED
  BY <1>3 DEF RowsOnce

\* When the log is read, nobody has cancelled, and the task of s is over after
\* its last row with no job left, every row of s has arrived.
LEMMA AllRowsReceived ==
    ASSUME PartInv, ~cancel, jobs = {}, NEW s \in Streams, state[s] = "Terminated",
           metadata[s], NEW I, I = 1 .. Len(sent)
    PROVE  \A r \in 0 .. Rows[s] - 1 : Copies(s, r, I) = 1
<1>1. Sound(s) /\ ~PageHeld(s)
  BY DEF Sound, PageHeld
<1>2. OffsetInv(s) /\ \A r \in 0 .. Rows[s] - 1 : RowInv(s, r)
  BY <1>1 DEF PartInv, FlowInv, RowsInv
<1>3. ASSUME NEW r \in 0 .. Rows[s] - 1 PROVE Copies(s, r, I) = 1
  <2>1. Rows[s] \in Nat /\ r < offset[s]
    BY <1>2, ReadAssumption DEF OffsetInv
  <2>2. \E i \in I : InLog(i, s, r)
    BY <1>1, <1>2, <2>1 DEF RowInv, Placed, InPage
  <2> QED
    BY <1>1, <2>2, LogHasRowsOnce DEF PartInv, FlowInv
<1> QED
  BY <1>3

\* Only recv() and abort() move the consumer.
LEMMA ConsumerMoves ==
    ASSUME PartInv, PartStep
    PROVE  RecvStep \/ UNCHANGED <<nread, outcome>>
<1>0. ReadTypeOK /\ FlagInv /\ BoundsInv
  BY DEF PartInv, FlowInv
<1>1. CASE \E s \in Streams : ReaderStep(s) \/ TaskAborted(s)
  BY <1>0, <1>1, ReaderHasSides DEF ReaderSides
<1>2. CASE \E s \in Streams : Drain(s)
  BY <1>0, <1>2, DrainHasEffect DEF JobSides, QueueIdles
<1>3. CASE \E j \in jobs : Decode(j)
  BY <1>0, <1>3, DecodeEffect DEF JobSides
<1> QED
  BY <1>1, <1>2, <1>3 DEF PartStep, vars, chanVars

-----------------------------------------------------------------------------
(* What a read starts with and what it never gets back.                    *)

\* No step of the parts forgets the schema, or gives a task a schema sender, a
\* first-page check or an inline page.
ShapeKept ==
    \A t \in Streams :
        /\ metadata[t] => metadata'[t]
        /\ schemaTx'[t] => schemaTx[t]
        /\ check'[t] => check[t]
        /\ state'[t] \in {"Idle", "FirstPage"} => state'[t] = state[t]
        /\ state'[t] = "Switched" => state[t] = "Switched" \/ check[t]

LEMMA ReaderShape ==
    ASSUME ReadTypeOK, NEW s \in Streams, ReaderStep(s) \/ TaskAborted(s)
    PROVE  ShapeKept
<1>1. /\ state \in [Streams -> ReaderStates] /\ metadata \in [Streams -> BOOLEAN]
      /\ schemaTx \in [Streams -> BOOLEAN] /\ check \in [Streams -> BOOLEAN]
  BY DEF ReadTypeOK, ReaderTypeOK
<1>2. metadata' = metadata \/ metadata' = [metadata EXCEPT ![s] = TRUE]
  BY DEF ReaderStep, FirstPagePermit, ReadRows, ServiceStep, ConnectOk, ConnectErr, Heartbeat,
         SchemaError, EmptyMessage, PageError, SwitchPage, Page, StreamErr, StreamEof,
         HandleError, SchemaKnown, Advance, LocalStep, Cancelled, BackoffElapsed,
         EnqueuePermit, EnqueueRefused, SendFatal, TaskAborted
<1>3. schemaTx' = schemaTx \/ schemaTx' = [schemaTx EXCEPT ![s] = FALSE]
  BY DEF ReaderStep, FirstPagePermit, ReadRows, ServiceStep, ConnectOk, ConnectErr, Heartbeat,
         SchemaError, EmptyMessage, PageError, SwitchPage, Page, StreamErr, StreamEof,
         HandleError, SchemaKnown, SchemaAfterFatal, Advance, LocalStep, Cancelled,
         BackoffElapsed, EnqueuePermit, EnqueueRefused, SendFatal, TaskAborted
<1>4. check' = check \/ check' = [check EXCEPT ![s] = FALSE]
  BY DEF ReaderStep, FirstPagePermit, ReadRows, ServiceStep, ConnectOk, ConnectErr, Heartbeat,
         SchemaError, EmptyMessage, PageError, SwitchPage, Page, StreamErr, StreamEof,
         HandleError, SchemaKnown, Advance, LocalStep, Cancelled, BackoffElapsed,
         EnqueuePermit, EnqueueRefused, SendFatal, TaskAborted
<1>5. \/ state' = state
      \/ SwitchPage(s) /\ state' = [state EXCEPT ![s] = "Switched"]
      \/ \E st \in {"Connecting", "Backoff", "Reading", "Enqueue", "SendErr", "Terminated"} :
            state' = [state EXCEPT ![s] = st]
  BY DEF ReaderStep, FirstPagePermit, ReadRows, ServiceStep, ConnectOk, ConnectErr, Heartbeat,
         SchemaError, EmptyMessage, PageError, SwitchPage, Page, StreamErr, StreamEof,
         HandleError, Fatal, Advance, LocalStep, Cancelled, BackoffElapsed,
         EnqueuePermit, EnqueueRefused, SendFatal, TaskAborted
<1>6. SwitchPage(s) => check[s]
  BY DEF SwitchPage
<1> QED
  BY <1>1, <1>2, <1>3, <1>4, <1>5, <1>6 DEF ShapeKept

LEMMA ShapeStays == ASSUME ReadTypeOK, PartStep PROVE ShapeKept
<1>1. CASE UNCHANGED readerVars
  BY <1>1 DEF readerVars, ShapeKept
<1> QED
  BY <1>1, ReaderShape
     DEF PartStep, RecvStep, RecvBatch, RecvErr, RecvNone, Drop, Drain, Decode, vars

-----------------------------------------------------------------------------
(* What the consumer has been given, for the refinements of BatchDelivery. *)

\* recv() has returned nothing but batches, an error at most as the last.
BatchesOnly == \A i \in 1 .. nread : sent[i].kind = "batch" \/ (outcome = "err" /\ i = nread)

LEMMA BatchesStep ==
    ASSUME PartInv, BatchesOnly, PartStep, PartEffect
    PROVE  BatchesOnly'
<1>1. /\ Len(sent) \in Nat /\ nread \in 0 .. Len(sent)
      /\ \A i \in 1 .. Len(sent) : sent'[i] = sent[i]
  BY LogKept DEF PartInv, ReadTypeOK, ChannelTypeOK
<1>2. CASE UNCHANGED <<nread, outcome>>
  BY <1>1, <1>2 DEF BatchesOnly
<1>3. CASE RecvBatch
  BY <1>1, <1>3 DEF RecvBatch, BatchesOnly
<1>4. CASE RecvErr
  BY <1>1, <1>4 DEF RecvErr, Abort, BatchesOnly
<1>5. CASE (\E gone \in BOOLEAN : RecvNone(gone)) \/ Drop
  BY <1>1, <1>5 DEF RecvNone, Drop, Abort, BatchesOnly
<1> QED
  BY <1>2, <1>3, <1>4, <1>5, ConsumerMoves DEF RecvStep

LEMMA PrefixOfLog ==
    ASSUME ReadTypeOK, NEW n \in Int, n <= nread
    PROVE  /\ SubSeq(sent, 1, n) \in Seq(Items)
           /\ Len(SubSeq(sent, 1, n)) = IF 1 <= n THEN n ELSE 0
           /\ \A i \in 1 .. n : SubSeq(sent, 1, n)[i] = sent[i]
<1>1. Len(sent) \in Nat /\ nread \in 0 .. Len(sent)
  BY LenProperties DEF ReadTypeOK, ChannelTypeOK
<1>2. \A i \in 1 .. n : sent[i] \in Items
  BY <1>1, ElementOfSeq DEF ReadTypeOK, ChannelTypeOK
<1>3. /\ SubSeq(sent, 1, n) \in Seq(Items)
      /\ Len(SubSeq(sent, 1, n)) = IF 1 <= n THEN n - 1 + 1 ELSE 0
      /\ \A i \in 1 .. n - 1 + 1 : SubSeq(sent, 1, n)[i] = sent[1 + i - 1]
  BY <1>2, SubSeqProperties
<1> QED
  BY <1>3

\* What has been received stays as it is when the log grows.
LEMMA PrefixKept ==
    ASSUME ReadTypeOK, ReadTypeOK', PartEffect, NEW n \in Int, n <= nread, n <= nread'
    PROVE  SubSeq(sent', 1, n) = SubSeq(sent, 1, n)
<1>1. /\ Len(sent) \in Nat /\ nread \in 0 .. Len(sent)
      /\ \A i \in 1 .. Len(sent) : sent'[i] = sent[i]
  BY LogKept DEF ReadTypeOK, ChannelTypeOK
<1>2. /\ SubSeq(sent, 1, n) \in Seq(Items)
      /\ Len(SubSeq(sent, 1, n)) = IF 1 <= n THEN n ELSE 0
      /\ \A i \in 1 .. n : SubSeq(sent, 1, n)[i] = sent[i]
  BY PrefixOfLog
<1>3. /\ Len(sent') \in Nat /\ nread' \in 0 .. Len(sent') /\ sent' \in Seq(Items)
  BY LenProperties DEF ReadTypeOK, ChannelTypeOK
<1>4. \A i \in 1 .. n : sent'[i] \in Items
  BY <1>3, ElementOfSeq
<1>5. /\ SubSeq(sent', 1, n) \in Seq(Items)
      /\ Len(SubSeq(sent', 1, n)) = IF 1 <= n THEN n - 1 + 1 ELSE 0
      /\ \A i \in 1 .. n - 1 + 1 : SubSeq(sent', 1, n)[i] = sent'[1 + i - 1]
  BY <1>4, SubSeqProperties
<1>6. PICK u, v : u = SubSeq(sent, 1, n) /\ v = SubSeq(sent', 1, n)
  OBVIOUS
<1>7. u \in Seq(Items) /\ v \in Seq(Items) /\ Len(u) = Len(v)
  BY <1>2, <1>5, <1>6
<1>8. ASSUME NEW i \in 1 .. Len(u) PROVE u[i] = v[i]
  <2>1. i \in 1 .. n /\ i \in 1 .. n - 1 + 1 /\ i \in 1 .. Len(sent) /\ 1 + i - 1 = i
    BY <1>1, <1>2, <1>6
  <2>2. u[i] = sent[i] /\ v[i] = sent'[i]
    BY <1>2, <1>5, <1>6, <2>1
  <2> QED
    BY <1>1, <2>1, <2>2
<1>9. u = v
  BY <1>7, <1>8, SeqEqual
<1> QED
  BY <1>6, <1>9

\* A batch item is the batch it says.
LEMMA BatchItem ==
    ASSUME NEW item \in Items, item.kind = "batch"
    PROVE  item = [kind |-> "batch", s |-> item.s, lo |-> item.lo, hi |-> item.hi]
BY DEF Items

\* While the read is open, what the consumer has is the received log.
LEMMA GivenIs ==
    ASSUME ReadTypeOK, BatchesOnly, outcome = "open"
    PROVE  /\ Given = SubSeq(sent, 1, nread)
           /\ Given \in Seq(Items) /\ Len(Given) = nread /\ DOMAIN Given = 1 .. nread
           /\ \A i \in 1 .. nread : Given[i] = sent[i] /\ sent[i].kind = "batch"
<1>1. ReadTypeOK /\ nread \in Nat
  BY LogLength
<1>2. Given = SubSeq(sent, 1, nread)
  BY DEF Given
<1>3. /\ Given \in Seq(Items) /\ Len(Given) = nread
      /\ \A i \in 1 .. nread : Given[i] = sent[i]
  BY <1>1, <1>2, PrefixOfLog
<1>4. DOMAIN Given = 1 .. nread
  BY <1>3, LenProperties
<1> QED
  BY <1>2, <1>3, <1>4 DEF BatchesOnly

\* It stays as it is until recv() returns something or the read ends.
LEMMA GivenStays ==
    ASSUME ReadTypeOK, ReadTypeOK', PartEffect, UNCHANGED <<nread, outcome>>
    PROVE  Given' = Given
<1>1. nread \in Nat
  BY LogLength
<1>2. SubSeq(sent', 1, nread) = SubSeq(sent, 1, nread)
  BY <1>1, PrefixKept
<1>3. SubSeq(sent', 1, nread - 1) = SubSeq(sent, 1, nread - 1)
  BY <1>1, PrefixKept
<1> QED
  BY <1>2, <1>3 DEF Given

\* It stays as it is when the read ends.
LEMMA GivenAtEnd ==
    ASSUME ReadTypeOK, RecvErr \/ Drop \/ \E gone \in BOOLEAN : RecvNone(gone)
    PROVE  Given' = Given /\ outcome = "open"
<1>0. nread \in Nat /\ outcome = "open" /\ sent' = sent
  BY LogLength DEF RecvErr, Drop, RecvNone, Abort
<1>1. CASE RecvErr
  BY <1>0, <1>1 DEF RecvErr, Abort, Given
<1>2. CASE Drop
  BY <1>0, <1>2 DEF Drop, Abort, Given
<1>3. CASE \E gone \in BOOLEAN : RecvNone(gone)
  BY <1>0, <1>3 DEF RecvNone, Abort, Given
<1> QED
  BY <1>0, <1>1, <1>2, <1>3

LEMMA GivenFrom ==
    ASSUME ReadTypeOK, BatchesOnly, outcome = "open"
    PROVE  \A k \in DOMAIN Given : Given[k].s \in Streams
<1>1. /\ DOMAIN Given = 1 .. nread
      /\ \A i \in 1 .. nread : Given[i] = sent[i] /\ sent[i].kind = "batch"
  BY GivenIs
<1>2. \A i \in 1 .. nread : sent[i] \in Items
  BY LogLength, ElementOfSeq DEF ReadTypeOK, ChannelTypeOK
<1> QED
  BY <1>1, <1>2 DEF Items

\* The batch b is the next one of its stream for the consumer.
ContinuesGiven(b) ==
    LET before == {k \in DOMAIN Given : Given[k].s = b.s}
    IN  IF before = {} THEN b.lo = 0
        ELSE \E k \in before : Given[k].hi = b.lo /\ \A l \in before : l <= k

\* recv() returns a batch: a piece of its stream that is put behind the others.
LEMMA GivenGrows ==
    ASSUME PartInv, BatchesOnly, RecvBatch, NEW b, b = sent[nread + 1]
    PROVE  /\ nread + 1 \in 1 .. Len(sent) /\ b.kind = "batch" /\ b.s \in Streams
           /\ b = [kind |-> "batch", s |-> b.s, lo |-> b.lo, hi |-> b.hi]
           /\ b.lo \in 0 .. Rows[b.s] - 1 /\ b.hi \in b.lo + 1 .. Rows[b.s]
           /\ Given' = Append(Given, b) /\ outcome = "open" /\ outcome' = "open"
           /\ MaintainOrder => ContinuesGiven(b)
<1>0. /\ ReadTypeOK /\ outcome = "open" /\ outcome' = "open" /\ sent' = sent
      /\ nread < Len(sent) /\ nread' = nread + 1 /\ nread \in Nat /\ Len(sent) \in Nat
  BY LogLength DEF PartInv, RecvBatch
<1>1. b = sent[nread + 1]
  OBVIOUS
<1>2. b \in Items /\ b.kind = "batch" /\ sent \in Seq(Items)
  BY <1>0, <1>1, ElementOfSeq DEF RecvBatch, ReadTypeOK, ChannelTypeOK
<1>3. b.s \in Streams /\ b.lo \in Int /\ b.hi \in Int
  BY <1>2 DEF Items
<1>4. Piece(b.s, b) /\ Rows[b.s] \in Nat
  BY <1>0, <1>1, <1>2, <1>3, ReadAssumption DEF PartInv, FlowInv, BoundsInv
<1>5. b.lo \in 0 .. Rows[b.s] - 1 /\ b.hi \in b.lo + 1 .. Rows[b.s]
  BY <1>3, <1>4 DEF Piece
<1>6. /\ Given = SubSeq(sent, 1, nread)
      /\ Given \in Seq(Items) /\ Len(Given) = nread /\ DOMAIN Given = 1 .. nread
      /\ \A i \in 1 .. nread : Given[i] = sent[i] /\ sent[i].kind = "batch"
  BY <1>0, GivenIs
<1>7. Given' = Append(Given, b)
  <2>1. Given' = SubSeq(sent, 1, nread + 1)
    BY <1>0 DEF Given
  <2>2. \A i \in 1 .. nread + 1 : sent[i] \in Items
    BY <1>0, <1>2, ElementOfSeq
  <2>3. /\ SubSeq(sent, 1, nread + 1) \in Seq(Items)
        /\ Len(SubSeq(sent, 1, nread + 1)) = nread + 1
        /\ \A i \in 1 .. nread + 1 : SubSeq(sent, 1, nread + 1)[i] = sent[i]
    <3>1. /\ SubSeq(sent, 1, nread + 1) \in Seq(Items)
          /\ Len(SubSeq(sent, 1, nread + 1)) =
                IF 1 <= nread + 1 THEN nread + 1 - 1 + 1 ELSE 0
          /\ \A i \in 1 .. nread + 1 - 1 + 1 : SubSeq(sent, 1, nread + 1)[i] = sent[1 + i - 1]
      BY <1>0, <2>2, SubSeqProperties
    <3> QED
      BY <1>0, <3>1
  <2>4. /\ Append(Given, b) \in Seq(Items)
        /\ Len(Append(Given, b)) = nread + 1
        /\ \A i \in 1 .. nread : Append(Given, b)[i] = Given[i]
        /\ Append(Given, b)[nread + 1] = b
    BY <1>2, <1>6, AppendProperties
  <2>5. \A i \in 1 .. nread + 1 : SubSeq(sent, 1, nread + 1)[i] = Append(Given, b)[i]
    BY <1>0, <1>1, <1>6, <2>3, <2>4
  <2> QED
    BY <2>1, <2>3, <2>4, <2>5, SeqEqual
<1>8. MaintainOrder => ContinuesGiven(b)
  <2> SUFFICES ASSUME MaintainOrder PROVE ContinuesGiven(b)
    OBVIOUS
  <2>1. InOrderAt(nread + 1)
    BY <1>0 DEF PartInv, FlowInv, OrderInv
  <2>2. FrontAt(nread, b.s, b.lo)
    <3>1. PICK i : i = nread + 1
      OBVIOUS
    <3>2. PICK n : n = i - 1
      OBVIOUS
    <3>3. FrontAt(n, b.s, b.lo)
      BY <1>1, <1>2, <2>1, <3>1, <3>2, Zenon DEF InOrderAt
    <3>4. n = nread
      BY <1>0, <3>1, <3>2
    <3> QED
      BY <3>3, <3>4
  <2>3. {k \in DOMAIN Given : Given[k].s = b.s} = {k \in 1 .. nread : IsOf(k, b.s)}
    BY <1>6 DEF IsOf
  <2> QED
    BY <1>6, <2>2, <2>3 DEF FrontAt, ContinuesGiven
<1>9. b = [kind |-> "batch", s |-> b.s, lo |-> b.lo, hi |-> b.hi]
  BY <1>2, BatchItem
<1>10. nread + 1 \in 1 .. Len(sent)
  BY <1>0
<1> QED
  BY <1>0, <1>2, <1>3, <1>5, <1>7, <1>8, <1>9, <1>10
=============================================================================
