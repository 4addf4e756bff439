--------------------------- MODULE JobStreamProofs ---------------------------
(***************************************************************************)
(* Theorems about JobStreamRead, the read of a query job with a switch to  *)
(* a read session, for every number of session streams, rows, slots,       *)
(* workers and retries, with and without a first-page check and a schema,  *)
(* up to the refinement of BatchDelivery.                                  *)
(***************************************************************************)
EXTENDS JobStreamRead, ReceiverProofs

\* Nothing of stream s has gone further than its reader.
Unread(s) ==
    /\ ~PageHeld(s)
    /\ \A j \in jobs : j.s # s
    /\ \A i \in 1 .. Len(sent) : ~IsOf(i, s)

\* The tasks of the session know the schema and check nothing; they are spawned
\* when the reader of the job's stream has asked for the switch.
SourceInv ==
    /\ \A s \in Session : metadata[s] /\ ~schemaTx[s] /\ ~check[s] /\ state[s] # "Switched"
    /\ \A s \in Streams : state[s] # "FirstPage"
    /\ state[Default] # "Idle"
    /\ state[Default] # "Switched" => \A s \in Session : state[s] = "Idle"

\* A reader that waits for its first page, gave it up or was never spawned has
\* put nothing into the decode queue.
UnreadInv ==
    \A s \in Streams :
        state[s] \in {"Idle", "Switched"} \/ check[s] \/ schemaTx[s] => Unread(s)

\* Where the outer task is.
TaskInv ==
    /\ task \in {"reading", "resolving", "sendErr"} => \A s \in Session : state[s] = "Idle"
    /\ task \in {"resolving", "joining", "sendErr"} => state[Default] = "Switched"
    /\ task = "joining" => \A s \in Session : state[s] # "Idle"
    /\ task = "done" => state[Default] \in {"Terminated", "Switched"}
    /\ task = "done" /\ state[Default] = "Switched"
          => cancel \/ \A s \in Session : state[s] # "Idle"
    /\ task = "sendErr" => cancel

\* The oneshot is used exactly when its sender is gone; until then nothing can
\* have failed, so only the caller can have cancelled the read.
SchemaInv ==
    /\ schema = "pending" <=> schemaTx[Default]
    /\ schema = "ok" => metadata[Default]
    /\ caller = "receiving" => metadata[Default] /\ schema \notin {"pending", "err"}
    /\ schemaTx[Default] /\ outcome = "open" => ~cancel /\ state[Default] \notin Stopped

\* A caller that waits for the schema has received nothing.
CallerInv == caller = "waiting" => nread = 0

JobInv ==
    /\ PartInv
    /\ task \in {"reading", "resolving", "joining", "sendErr", "done"}
    /\ caller \in {"waiting", "receiving"}
    /\ SourceInv /\ UnreadInv /\ TaskInv /\ SchemaInv /\ CallerInv
    /\ BatchesOnly /\ CancelIsReported /\ ResultIsComplete

LEMMA OneDefault == Default \in Streams /\ \A s \in Streams : s = Default \/ s \in Session
BY JobStreamAssumption DEF Session

LEMMA InvInit == Init => JobInv
<1> SUFFICES ASSUME Init PROVE JobInv
  OBVIOUS
<1>0. /\ sent = <<>> /\ waiters = <<>> /\ nread = 0 /\ permits = Capacity /\ jobs = {}
      /\ closed = FALSE /\ cancel = FALSE /\ outcome = "open" /\ task = "reading"
      /\ caller = IF SchemaGiven THEN "receiving" ELSE "waiting"
  BY DEF Init, ChannelInit, ReceiverInit, QueueInit
<1>1. PICK first, chk : /\ ReaderInit({Default}, first, chk)
                        /\ first = IF SchemaGiven THEN {} ELSE {Default}
                        /\ chk \subseteq {Default}
  BY DEF Init
<1>2. /\ state = [s \in Streams |-> IF s \in {Default} THEN "Connecting" ELSE "Idle"]
      /\ offset = [s \in Streams |-> 0] /\ retry = [s \in Streams |-> 0]
      /\ page = [s \in Streams |-> NoPage] /\ pos = [s \in Streams |-> 0]
      /\ metadata = [s \in Streams |-> s \notin first]
      /\ schemaTx = [s \in Streams |-> s \in first]
      /\ check = [s \in Streams |-> s \in chk]
      /\ schema = IF first = {} THEN "known" ELSE "pending"
      /\ fails = [s \in Streams |-> 0]
  BY <1>1 DEF ReaderInit
<1>3. Default \in Streams /\ SchemaGiven \in BOOLEAN
  BY JobStreamAssumption
<1>4. ReadTypeOK
  <2>1. sent \in Seq(Items) /\ Len(sent) = 0 /\ waiters \in Seq(Waiters)
    BY <1>0, EmptySeq
  <2>2. closed \in BOOLEAN /\ cancel \in BOOLEAN
    BY <1>0
  <2>3. ChannelTypeOK
    <3>1. nread = 0 /\ permits = Capacity
      BY <1>0
    <3>2. permits \in Nat /\ nread \in 0 .. Len(sent)
      BY <2>1, <3>1, CapacityAssumption
    <3> QED
      BY <2>1, <2>2, <3>2 DEF ChannelTypeOK
  <2>4. QueueTypeOK /\ ReceiverTypeOK
    BY DEF Init, QueueInit, QueueTypeOK, ReceiverInit, ReceiverTypeOK
  <2>5. NoPage \in [lo : Int, hi : Int, bad : BOOLEAN]
    BY DEF NoPage
  <2>6. ReaderTypeOK
    BY <1>2, <2>5 DEF ReaderTypeOK, ReaderStates
  <2> QED
    BY <2>3, <2>4, <2>6 DEF ReadTypeOK
<1>5. Fresh
  BY <1>0, <1>2 DEF Init, Fresh, Started, ReceiverInit
<1>6. PartInv
  BY <1>4, <1>5, FreshInv
<1>7. SourceInv /\ TaskInv
  BY <1>0, <1>1, <1>2, <1>3 DEF SourceInv, TaskInv, Session
<1>8. UnreadInv
  <2>1. Len(sent) = 0
    BY <1>0, EmptySeq
  <2> QED
    BY <1>0, <1>2, <2>1 DEF UnreadInv, Unread, PageHeld
<1>9. SchemaInv
  BY <1>0, <1>1, <1>2, <1>3 DEF SchemaInv, Stopped
<1>10. CallerInv /\ BatchesOnly /\ CancelIsReported /\ ResultIsComplete
  BY <1>0 DEF CallerInv, BatchesOnly, CancelIsReported, ResultIsComplete
<1> QED
  BY <1>0, <1>6, <1>7, <1>8, <1>9, <1>10 DEF JobInv

-----------------------------------------------------------------------------
(* The outer task and the caller as steps of the parts.                    *)

\* The steps of the outer task and of the caller that touch the channel, the
\* flag or a reader.
OuterStep == SwitchOk \/ SwitchErr \/ SwitchSendErr \/ OuterAborted \/ NoReceiver

\* Those that only move on themselves.
QuietStep == TaskReturns \/ SwitchBegins \/ SwitchJoined \/ SchemaArrives

LEMMA StepKind ==
    ASSUME [Next]_jobVars
    PROVE  \/ PartStep /\ UNCHANGED <<task, caller>>
           \/ UNCHANGED vars /\ QuietStep
           \/ OuterStep
<1>0. SendersGone \in BOOLEAN
  BY DEF SendersGone
<1>1. CASE \/ \E s \in Streams : StreamStep(s) /\ UNCHANGED <<task, caller>>
           \/ \E j \in jobs : Decode(j) /\ UNCHANGED <<task, caller>>
  BY <1>1 DEF StreamStep, PartStep, ReaderStep
<1>2. CASE TaskStep
  BY <1>2 DEF TaskStep, OuterStep, QuietStep, TaskReturns, SwitchBegins, SwitchJoined
<1>3. CASE CallerStep
  BY <1>0, <1>3 DEF CallerStep, OuterStep, QuietStep, SchemaArrives, RecvSome, RecvEnd, PartStep, RecvStep
<1>4. CASE Drop /\ UNCHANGED <<task, caller>>
  BY <1>4 DEF PartStep, RecvStep
<1>5. CASE UNCHANGED jobVars
  BY <1>5 DEF jobVars, PartStep
<1> QED
  BY <1>1, <1>2, <1>3, <1>4, <1>5 DEF Next

LEMMA OuterEffect == ASSUME JobInv, OuterStep PROVE PartEffect
<1>1. CASE SwitchOk
  <2>1. \A s \in Session : state[s] = "Idle"
    BY <1>1 DEF SwitchOk, JobInv, TaskInv
  <2> QED
    BY <1>1, <2>1, OneDefault DEF SwitchOk, chanVars, PartEffect, SpawnEffect
<1>2. CASE SwitchErr \/ OuterAborted \/ NoReceiver
  BY <1>2 DEF SwitchErr, OuterAborted, NoReceiver, Abort, PartEffect, RecvEffect
<1>3. CASE SwitchSendErr
  <2>1. cancel
    BY <1>3 DEF SwitchSendErr, JobInv, TaskInv
  <2>2. CASE Send(ReaderWaiter(Default), Err(Default))
    <3>1. ReaderErred(Default) /\ ReaderSides(Default)
      BY <1>3, <2>1, <2>2
         DEF SwitchSendErr, Send, ReserveOwned, ReaderErred, ReaderSides, OnlyStream, queueVars, readerVars
    <3> QED
      BY <3>1, OneDefault DEF PartEffect, ReaderEffect
  <2>3. CASE UNCHANGED <<sent, permits>>
    BY <1>3, <2>3 DEF SwitchSendErr, PartEffect, RecvEffect
  <2> QED
    BY <1>3, <2>2, <2>3 DEF SwitchSendErr
<1> QED
  BY <1>1, <1>2, <1>3 DEF OuterStep

LEMMA OuterTypes == ASSUME ReadTypeOK, OuterStep PROVE ReadTypeOK'
<1> USE DEF ReadTypeOK
<1>1. CASE SwitchOk
  <2>1. "Connecting" \in ReaderStates
    BY DEF ReaderStates
  <2>2. ReaderTypeOK'
    BY <1>1, <2>1 DEF SwitchOk, ReaderTypeOK
  <2> QED
    BY <1>1, <2>2 DEF SwitchOk, chanVars, queueVars, ChannelTypeOK, QueueTypeOK, ReceiverTypeOK
<1>2. CASE NoReceiver
  BY <1>2 DEF NoReceiver, Abort, queueVars, readerVars, ChannelTypeOK, QueueTypeOK, ReaderTypeOK, ReceiverTypeOK
<1>3. CASE SwitchErr
  <2>1. waiters' \in Seq(Waiters)
    BY <1>3, OneDefault, WaiterTypes, WaitType DEF SwitchErr, ChannelTypeOK
  <2> QED
    BY <1>3, <2>1 DEF SwitchErr, queueVars, readerVars, ChannelTypeOK, QueueTypeOK, ReaderTypeOK, ReceiverTypeOK
<1>4. CASE OuterAborted
  <2>1. waiters' \in Seq(Waiters)
    BY <1>4, LeaveType DEF OuterAborted, ChannelTypeOK
  <2> QED
    BY <1>4, <2>1 DEF OuterAborted, queueVars, readerVars, ChannelTypeOK, QueueTypeOK, ReaderTypeOK, ReceiverTypeOK
<1>5. CASE SwitchSendErr
  <2>1. QueueTypeOK' /\ ReaderTypeOK' /\ ReceiverTypeOK' /\ UNCHANGED <<nread, closed, cancel>>
    BY <1>5 DEF SwitchSendErr, queueVars, readerVars, QueueTypeOK, ReaderTypeOK, ReceiverTypeOK
  <2>2. CASE Send(ReaderWaiter(Default), Err(Default))
    <3>1. permits' \in Nat /\ waiters' \in Seq(Waiters)
      BY <2>2, ReserveType DEF Send, ChannelTypeOK
    <3>2. sent' \in Seq(Items) /\ nread' \in 0 .. Len(sent')
      BY <2>1, <2>2, OneDefault, ItemTypes, SentGrows DEF Send, ChannelTypeOK
    <3> QED
      BY <2>1, <3>1, <3>2 DEF ChannelTypeOK
  <2>3. CASE Leave(ReaderWaiter(Default)) /\ UNCHANGED <<sent, permits>>
    <3>1. waiters' \in Seq(Waiters)
      BY <2>3, LeaveType DEF ChannelTypeOK
    <3> QED
      BY <2>1, <2>3, <3>1 DEF ChannelTypeOK
  <2> QED
    BY <1>5, <2>2, <2>3 DEF SwitchSendErr
<1> QED
  BY <1>1, <1>2, <1>3, <1>4, <1>5 DEF OuterStep

LEMMA OuterRetry == ASSUME JobInv, OuterStep PROVE RetryInv'
<1>1. CASE SwitchOk
  <2>1. \A s \in Session : state[s] = "Idle"
    BY <1>1 DEF SwitchOk, JobInv, TaskInv
  <2>2. \A s \in Streams : state'[s] = IF s \in Session THEN "Connecting" ELSE state[s]
    BY <1>1 DEF SwitchOk
  <2>3. UNCHANGED <<retry, fails>>
    BY <1>1 DEF SwitchOk
  <2> QED
    BY <2>1, <2>2, <2>3 DEF JobInv, PartInv, RetryInv, Attempts
<1>2. CASE UNCHANGED readerVars
  BY <1>2 DEF readerVars, JobInv, PartInv, RetryInv, Attempts
<1> QED
  BY <1>1, <1>2 DEF OuterStep, SwitchErr, SwitchSendErr, OuterAborted, NoReceiver

LEMMA PartsStep == ASSUME JobInv, [Next]_jobVars PROVE PartInv' /\ PartEffect
<1>1. FirstPageIsAll
  BY DEF JobInv, SourceInv, FirstPageIsAll
<1>2. CASE PartStep
  BY <1>1, <1>2, PartInvStep DEF JobInv
<1>3. CASE OuterStep
  <2>1. PartEffect /\ ReadTypeOK' /\ RetryInv'
    BY <1>3, OuterEffect, OuterTypes, OuterRetry DEF JobInv, PartInv
  <2> QED
    BY <1>1, <2>1, FlowStep DEF JobInv, PartInv
<1> QED
  BY <1>2, <1>3, StepKind DEF PartStep

-----------------------------------------------------------------------------
(* Stopped readers, and readers that have passed nothing on.               *)

\* A task that is not spawned or is over stays so, but for the switch.
LEMMA StoppedStays ==
    ASSUME ReadTypeOK, FlagInv, PartStep, NEW s \in Streams, state[s] \in Stopped
    PROVE  state'[s] = state[s]
<1>1. CASE UNCHANGED readerVars
  BY <1>1 DEF readerVars
<1>2. ASSUME NEW t \in Streams, ReaderStep(t) \/ TaskAborted(t) PROVE state'[s] = state[s]
  <2>1. ReaderSides(t) /\ ReaderEffect(t)
    BY <1>2, ReaderHasSides, ReaderHasEffect
  <2>2. CASE t # s
    BY <2>1, <2>2 DEF ReaderSides, OnlyStream
  <2>3. CASE t = s
    BY <2>1, <2>3 DEF ReaderEffect, ReaderQuiet, ReaderPage, ReaderPush, ReaderErred, PageHeld, Stopped
  <2> QED
    BY <2>2, <2>3
<1> QED
  BY <1>1, <1>2
     DEF PartStep, RecvStep, RecvBatch, RecvErr, RecvNone, Drop, Drain, Decode, vars

\* The first page uses up the schema sender and the first-page check.
LEMMA PageUsesUp ==
    ASSUME ReadTypeOK, PartStep, NEW s \in Streams, state'[s] = "Enqueue"
    PROVE  state[s] = "Enqueue" \/ (~check'[s] /\ ~schemaTx'[s])
<1>0. /\ state \in [Streams -> ReaderStates] /\ schemaTx \in [Streams -> BOOLEAN]
      /\ check \in [Streams -> BOOLEAN]
  BY DEF ReadTypeOK, ReaderTypeOK
<1>1. CASE UNCHANGED readerVars
  BY <1>1 DEF readerVars
<1>2. ASSUME NEW t \in Streams, ReaderStep(t) \/ TaskAborted(t), state' # state, ~Page(t)
      PROVE  \E st \in ReaderStates \ {"Enqueue"} : state' = [state EXCEPT ![t] = st]
  BY <1>2
     DEF ReaderStep, FirstPagePermit, ReadRows, ServiceStep, ConnectOk, ConnectErr, Heartbeat,
         SchemaError, EmptyMessage, PageError, SwitchPage, StreamErr, StreamEof,
         HandleError, Fatal, Advance, LocalStep, Cancelled, BackoffElapsed,
         EnqueuePermit, EnqueueRefused, SendFatal, TaskAborted, ReaderStates
<1>3. ASSUME NEW t \in Streams, Page(t) PROVE state[s] = "Enqueue" \/ (~check'[s] /\ ~schemaTx'[s])
  BY <1>0, <1>3 DEF Page, SchemaKnown, Fatal
<1>4. ASSUME NEW t \in Streams, ReaderStep(t) \/ TaskAborted(t)
      PROVE  state[s] = "Enqueue" \/ (~check'[s] /\ ~schemaTx'[s])
  BY <1>0, <1>2, <1>3, <1>4
<1> QED
  BY <1>1, <1>4
     DEF PartStep, RecvStep, RecvBatch, RecvErr, RecvNone, Drop, Drain, Decode, vars

LEMMA UnreadStays ==
    ASSUME ReadTypeOK, PartEffect, NEW s \in Streams, Unread(s), ~PageHeld(s)'
    PROVE  Unread(s)'
<1>0. Len(sent) \in Nat /\ jobs \subseteq Jobs
  BY LogLength DEF ReadTypeOK, QueueTypeOK
<1>1. ASSUME NEW item \in Items, item.kind = "err" \/ item.s # s, sent' = Append(sent, item)
      PROVE  \A i \in 1 .. Len(sent') : ~IsOf(i, s)'
  <2>1. /\ Len(sent') = Len(sent) + 1 /\ sent'[Len(sent) + 1] = item
        /\ \A i \in 1 .. Len(sent) : sent'[i] = sent[i]
    BY <1>1, LogGrows
  <2> SUFFICES ASSUME NEW i \in 1 .. Len(sent') PROVE ~IsOf(i, s)'
    OBVIOUS
  <2>2. CASE i \in 1 .. Len(sent)
    BY <2>1, <2>2 DEF Unread, IsOf
  <2>3. CASE i = Len(sent) + 1
    BY <1>1, <2>1, <2>3 DEF IsOf
  <2> QED
    BY <1>0, <2>1, <2>2, <2>3
<1>2. ASSUME sent' = sent PROVE \A i \in 1 .. Len(sent') : ~IsOf(i, s)'
  BY <1>2 DEF Unread, IsOf
<1>3. ASSUME NEW j \in jobs, JobSides, JobEffect(j) PROVE Unread(s)'
  <2>1. j.s \in Streams /\ j.s # s /\ j.lo \in Int
    BY <1>0 DEF Jobs, Unread
  <2>2. \A i \in jobs' : i.s # s
    BY <1>3, <2>1, JobsAfter DEF Becomes, Unread
  <2>3. CASE sent' = sent
    BY <1>2, <2>2, <2>3 DEF Unread
  <2>4. CASE JobErred(j)
    BY <1>1, <2>1, <2>2, <2>4, ItemTypes DEF JobErred, Err, Unread
  <2>5. ASSUME NEW m, JobSent(j, m) PROVE Unread(s)'
    BY <1>1, <2>1, <2>2, <2>5, ItemTypes DEF JobSent, Batch, Unread
  <2> QED
    BY <1>3, <2>3, <2>4, <2>5 DEF JobEffect, JobKept, JobDropped
<1>4. CASE UNCHANGED <<jobs, sent>>
  BY <1>2, <1>4 DEF Unread
<1>5. ASSUME NEW t \in Streams, ReaderEffect(t) PROVE Unread(s)'
  <2>1. CASE ReaderPush(t)
    <3>1. t # s /\ Push(t, page[t]) /\ sent' = sent
      BY <2>1 DEF ReaderPush, Unread
    <3>2. PICK k : NewJob(t, k)
      BY <3>1, Pushed
    <3> QED
      BY <1>2, <3>1, <3>2 DEF NewJob, Unread
  <2>2. CASE ReaderErred(t)
    BY <1>1, <2>2, ItemTypes DEF ReaderErred, Err, Unread
  <2> QED
    BY <1>4, <1>5, <2>1, <2>2 DEF ReaderEffect, ReaderQuiet, ReaderPage
<1> QED
  BY <1>3, <1>4, <1>5 DEF PartEffect, QueueIdles, RecvEffect, SpawnEffect, queueVars

\* What the steps of the outer task and the caller do to the readers.
LEMMA OuterShape ==
    ASSUME JobInv, OuterStep
    PROVE  /\ UNCHANGED <<offset, page, pos, metadata, schemaTx, check, schema>>
           /\ \/ state' = state
              \/ /\ SwitchOk
                 /\ \A s \in Session : state[s] = "Idle" /\ state'[s] = "Connecting"
                 /\ state'[Default] = state[Default]
<1>1. CASE SwitchOk
  BY <1>1, OneDefault DEF SwitchOk, Session, JobInv, TaskInv
<1>2. CASE UNCHANGED readerVars
  BY <1>2 DEF readerVars
<1> QED
  BY <1>1, <1>2 DEF OuterStep, SwitchErr, SwitchSendErr, OuterAborted, NoReceiver

-----------------------------------------------------------------------------
(* The switch.                                                             *)

LEMMA SourceStep == ASSUME JobInv, [Next]_jobVars PROVE SourceInv'
<1>0. ReadTypeOK /\ FlagInv /\ SourceInv /\ TaskInv
  BY DEF JobInv, PartInv, FlowInv
<1>1. CASE PartStep
  <2>1. ShapeKept /\ \A s \in Streams : state[s] \in Stopped => state'[s] = state[s]
    BY <1>0, <1>1, ShapeStays, StoppedStays
  <2> QED
    BY <1>0, <2>1, OneDefault DEF SourceInv, ShapeKept, Session, Stopped
<1>2. CASE OuterStep
  <2>1. SwitchOk => state[Default] = "Switched"
    BY <1>0 DEF SwitchOk, TaskInv
  <2> QED
    BY <1>0, <1>2, <2>1, OuterShape, OneDefault DEF SourceInv, Session
<1> QED
  BY <1>1, <1>2, StepKind DEF PartStep

LEMMA TasksStep == ASSUME JobInv, PartEffect, [Next]_jobVars PROVE TaskInv'
<1>0. ReadTypeOK /\ FlagInv /\ SourceInv /\ TaskInv /\ (cancel => cancel')
  BY FlagStays DEF JobInv, PartInv, FlowInv
<1>1. CASE PartStep /\ UNCHANGED <<task, caller>>
  <2>1. /\ \A s \in Streams : state[s] \in Stopped => state'[s] = state[s]
        /\ \A s \in Streams : state'[s] = "Idle" => state[s] = "Idle"
    BY <1>0, <1>1, ShapeStays, StoppedStays DEF ShapeKept
  <2> QED
    BY <1>0, <1>1, <2>1, OneDefault DEF TaskInv, Session, Stopped
<1>2. CASE UNCHANGED vars /\ QuietStep
  <2>1. UNCHANGED <<state, cancel>>
    BY <1>2 DEF vars, chanVars, readerVars
  <2> QED
    BY <1>0, <1>2, <2>1 DEF QuietStep, TaskReturns, SwitchBegins, SwitchJoined, SchemaArrives, TaskInv
<1>3. CASE SwitchOk
  <2>1. OuterStep /\ task = "resolving" /\ task' = "joining"
    BY <1>3 DEF OuterStep, SwitchOk
  <2>2. state[Default] = "Switched" /\ state'[Default] = state[Default]
    BY <1>0, <1>3, <2>1, OuterShape DEF TaskInv
  <2>3. \A s \in Session : state'[s] # "Idle"
    BY <1>3, OneDefault DEF SwitchOk, Session
  <2> QED
    BY <2>1, <2>2, <2>3 DEF TaskInv
<1>4. CASE SwitchErr \/ SwitchSendErr \/ OuterAborted \/ NoReceiver
  <2>1. state' = state
    BY <1>4 DEF SwitchErr, SwitchSendErr, OuterAborted, NoReceiver, readerVars
  <2>2. OuterAborted => cancel
    BY <1>0 DEF OuterAborted, FlagInv
  <2> QED
    BY <1>0, <1>4, <2>1, <2>2 DEF SwitchErr, SwitchSendErr, OuterAborted, NoReceiver, Abort, TaskInv
<1> QED
  BY <1>1, <1>2, <1>3, <1>4, StepKind DEF OuterStep

LEMMA UnreadStep == ASSUME JobInv, PartEffect, SourceInv', [Next]_jobVars PROVE UnreadInv'
<1>0. ReadTypeOK /\ FlagInv /\ SourceInv /\ UnreadInv
  BY DEF JobInv, PartInv, FlowInv
<1> SUFFICES ASSUME NEW s \in Streams, (state[s] \in {"Idle", "Switched"} \/ check[s] \/ schemaTx[s])'
             PROVE  Unread(s)'
  BY DEF UnreadInv
<1>1. CASE PartStep
  <2>1. ShapeKept
    BY <1>0, <1>1, ShapeStays
  <2>2. Unread(s)
    BY <1>0, <2>1 DEF UnreadInv, ShapeKept
  <2>3. ~PageHeld(s)'
    BY <1>0, <1>1, <2>2, PageUsesUp DEF Unread, PageHeld, SourceInv
  <2> QED
    BY <1>0, <2>2, <2>3, UnreadStays
<1>2. CASE OuterStep
  <2>1. UNCHANGED <<check, schemaTx>> /\ state'[s] \in {state[s], "Connecting"}
    BY <1>2, OuterShape, OneDefault
  <2>2. Unread(s)
    BY <1>0, <2>1 DEF UnreadInv
  <2>3. ~PageHeld(s)'
    BY <2>1, <2>2 DEF Unread, PageHeld
  <2> QED
    BY <1>0, <2>2, <2>3, UnreadStays
<1> QED
  BY <1>1, <1>2, StepKind DEF PartStep

-----------------------------------------------------------------------------
(* The schema oneshot.                                                     *)

\* What a step of the reader of s makes of the oneshot it owns: nothing while
\* it neither fails nor stops, else it answers.
SchemaMoves(s) ==
    /\ ~schemaTx[s] => schema' = schema
    /\ schemaTx[s] /\ ~schemaTx'[s] => schema' \in {"ok", "empty", "err"}
    /\ schemaTx[s] /\ schema' = "ok" => metadata'[s] \/ schema = "ok"
    /\ schemaTx'[s] => UNCHANGED <<schema, cancel>>
    /\ schemaTx'[s] /\ state'[s] \in Stopped => cancel \/ outcome # "open"

LEMMA ReaderAnswers ==
    ASSUME ReadTypeOK, FlagInv, NEW s \in Streams, ReaderStep(s) \/ TaskAborted(s),
           state[s] # "FirstPage"
    PROVE  SchemaMoves(s)
<1>0. /\ state \in [Streams -> ReaderStates] /\ metadata \in [Streams -> BOOLEAN]
      /\ schemaTx \in [Streams -> BOOLEAN] /\ cancel \in BOOLEAN
      /\ (closed => outcome # "open") /\ (state[s] = "SendErr" => cancel)
  BY DEF ReadTypeOK, ReaderTypeOK, ChannelTypeOK, FlagInv
<1> USE DEF Stopped
<1>1. ASSUME NEW r, HandleError(s, r) PROVE SchemaMoves(s)
  BY <1>0, <1>1 DEF HandleError, Fatal, SchemaAfterFatal, SchemaMoves
<1>2. CASE ReadRows(s)
  <2>1. CASE ConnectErr(s) \/ StreamErr(s)
    BY <1>1, <2>1 DEF ConnectErr, StreamErr
  <2>2. CASE ConnectOk(s) \/ Heartbeat(s)
    BY <1>0, <2>2 DEF ConnectOk, Heartbeat, Reading, chanVars, SchemaMoves
  <2>3. CASE EmptyMessage(s) \/ PageError(s) \/ SwitchPage(s) \/ Page(s)
    <3>1. SchemaKnown(s)
      BY <2>3 DEF EmptyMessage, PageError, SwitchPage, Page
    <3> QED
      BY <1>0, <3>1 DEF SchemaKnown, SchemaMoves
  <2>4. CASE SchemaError(s)
    BY <1>0, <2>4 DEF SchemaError, Reading, SchemaAfterFatal, SchemaMoves
  <2>5. CASE StreamEof(s)
    BY <1>0, <2>5 DEF StreamEof, Reading, SchemaMoves
  <2> QED
    BY <1>2, <2>1, <2>2, <2>3, <2>4, <2>5 DEF ReadRows, ServiceStep
<1>3. CASE Advance(s)
  BY <1>0, <1>3
     DEF Advance, LocalStep, Cancelled, BackoffElapsed, EnqueuePermit, EnqueueRefused, SendFatal,
         chanVars, SchemaMoves
<1>4. CASE TaskAborted(s)
  BY <1>0, <1>4 DEF TaskAborted, SchemaMoves
<1> QED
  BY <1>2, <1>3, <1>4 DEF ReaderStep, FirstPagePermit

\* Before the schema is known there is nothing to decode and the only task is
\* the reader of the job's stream.
LEMMA QuietBeforeSchema ==
    ASSUME JobInv, schemaTx[Default], outcome = "open"
    PROVE  jobs = {} /\ ~cancel /\ \A s \in Session : state[s] = "Idle"
<1>1. ~cancel /\ state[Default] \notin Stopped
  BY DEF JobInv, SchemaInv
<1>2. \A s \in Session : state[s] = "Idle"
  BY <1>1 DEF JobInv, SourceInv, Stopped
<1>3. \A s \in Streams : Unread(s)
  BY <1>2, OneDefault DEF JobInv, UnreadInv
<1>4. jobs = {}
  BY <1>3 DEF Unread, JobInv, PartInv, ReadTypeOK, QueueTypeOK, Jobs
<1> QED
  BY <1>1, <1>2, <1>4

LEMMA OtherSenders ==
    ASSUME NEW s \in Streams, ReaderStep(s) \/ TaskAborted(s)
    PROVE  schemaTx' = schemaTx \/ schemaTx' = [schemaTx EXCEPT ![s] = FALSE]
BY DEF ReaderStep, FirstPagePermit, ReadRows, ServiceStep, ConnectOk, ConnectErr, Heartbeat,
       SchemaError, EmptyMessage, PageError, SwitchPage, Page, StreamErr, StreamEof,
       HandleError, SchemaKnown, SchemaAfterFatal, Advance, LocalStep, Cancelled,
       BackoffElapsed, EnqueuePermit, EnqueueRefused, SendFatal, TaskAborted

LEMMA SchemaPart ==
    ASSUME JobInv, PartStep, UNCHANGED caller
    PROVE  SchemaInv' /\ (~schemaTx[Default] => schema' = schema)
<1>0. ReadTypeOK /\ FlagInv /\ BoundsInv /\ SourceInv /\ SchemaInv /\ ShapeKept
  BY ShapeStays DEF JobInv, PartInv, FlowInv
<1>t. schemaTx \in [Streams -> BOOLEAN] /\ Default \in Streams
  BY <1>0, OneDefault DEF ReadTypeOK, ReaderTypeOK
<1>1. ASSUME NEW t \in Streams, ReaderStep(t) \/ TaskAborted(t)
      PROVE  SchemaInv' /\ (~schemaTx[Default] => schema' = schema)
  <2>1. SchemaMoves(t) /\ outcome' = outcome
    BY <1>0, <1>1, ReaderAnswers, ReaderHasSides DEF SourceInv, ReaderSides
  <2>2. CASE t = Default
    BY <1>0, <1>t, <2>1, <2>2 DEF SchemaMoves, SchemaInv, ShapeKept
  <2>3. CASE t \in Session
    <3>1. schema' = schema /\ schemaTx'[Default] = schemaTx[Default]
      BY <1>0, <1>1, <1>t, <2>1, <2>3, OtherSenders DEF SchemaMoves, SourceInv, Session
    <3>2. schemaTx[Default] => outcome # "open"
      <4>1. SUFFICES ASSUME schemaTx[Default], outcome = "open" PROVE FALSE
        OBVIOUS
      <4>2. ~cancel /\ state[t] = "Idle"
        BY <2>3, <4>1, QuietBeforeSchema
      <4> QED
        BY <1>0, <1>1, <4>2, ReaderHasEffect
           DEF ReaderEffect, ReaderQuiet, ReaderPage, ReaderPush, ReaderErred, PageHeld, Stopped
    <3> QED
      BY <1>0, <1>t, <2>1, <3>1, <3>2 DEF SchemaInv, ShapeKept
  <2> QED
    BY <2>2, <2>3, OneDefault
<1>2. ASSUME UNCHANGED readerVars, outcome' = "open" => outcome = "open",
             schemaTx[Default] /\ outcome' = "open" => cancel' = cancel
      PROVE  SchemaInv' /\ (~schemaTx[Default] => schema' = schema)
  BY <1>0, <1>2 DEF readerVars, SchemaInv
<1>3. ASSUME NEW s \in Streams, Drain(s) PROVE UNCHANGED <<readerVars, outcome, cancel>>
  BY <1>3 DEF Drain, DrainStep, DrainPop, DrainStop, chanVars
<1>4. ASSUME NEW j \in jobs, Decode(j)
      PROVE  UNCHANGED <<readerVars, outcome>> /\ ~(schemaTx[Default] /\ outcome = "open")
  BY <1>4, QuietBeforeSchema DEF Decode
<1>5. CASE RecvStep
  <2>1. /\ UNCHANGED readerVars
        /\ outcome' = "open" => outcome = "open" /\ cancel' = cancel
    BY <1>5 DEF RecvStep, RecvBatch, RecvErr, RecvNone, Drop, Abort
  <2> QED
    BY <1>2, <2>1
<1>6. CASE UNCHANGED vars
  BY <1>2, <1>6 DEF vars, chanVars
<1> QED
  BY <1>1, <1>2, <1>3, <1>4, <1>5, <1>6 DEF PartStep

LEMMA SchemaStep == ASSUME JobInv, [Next]_jobVars PROVE SchemaInv'
<1>0. SchemaInv /\ TaskInv
  BY DEF JobInv
<1>1. CASE PartStep /\ UNCHANGED <<task, caller>>
  BY <1>1, SchemaPart
<1>2. CASE UNCHANGED vars /\ QuietStep
  <2>1. UNCHANGED <<schema, schemaTx, metadata, outcome, cancel, state>>
    BY <1>2 DEF vars, chanVars, readerVars
  <2> QED
    BY <1>0, <1>2, <2>1
       DEF QuietStep, TaskReturns, SwitchBegins, SwitchJoined, SchemaArrives, SchemaInv
<1>3. CASE OuterStep
  <2>1. /\ UNCHANGED <<metadata, schemaTx, schema>> /\ state'[Default] = state[Default]
    BY <1>3, OuterShape
  <2>2. caller' = caller /\ (outcome' = "open" => outcome = "open" /\ (cancel' = cancel \/ SwitchErr))
    BY <1>3 DEF OuterStep, SwitchOk, SwitchErr, SwitchSendErr, OuterAborted, NoReceiver, Abort, chanVars
  <2>3. SwitchErr => state[Default] \in Stopped
    BY <1>0 DEF SwitchErr, TaskInv, Stopped
  <2> QED
    BY <1>0, <2>1, <2>2, <2>3 DEF SchemaInv
<1> QED
  BY <1>1, <1>2, <1>3, StepKind

-----------------------------------------------------------------------------
(* The report of a failure and the end of the read.                        *)

LEMMA ReportedIs ==
    CancelIsReported <=>
        (cancel /\ outcome = "open"
            => ErrOnWay \/ task = "sendErr" \/ (caller = "waiting" /\ schema = "err"))
BY DEF CancelIsReported, ErrOnWay, ErrQueued, ErrInJob, ErrInReader

LEMMA ReportStep == ASSUME JobInv, [Next]_jobVars PROVE CancelIsReported'
<1>0. ReadTypeOK /\ FlagInv /\ BoundsInv /\ SourceInv /\ SchemaInv /\ TaskInv
  BY DEF JobInv, PartInv, FlowInv
<1> SUFFICES ASSUME cancel', outcome' = "open"
             PROVE  (ErrOnWay \/ task = "sendErr" \/ (caller = "waiting" /\ schema = "err"))'
  BY DEF CancelIsReported, ErrOnWay, ErrQueued, ErrInJob, ErrInReader
<1>1. cancel /\ outcome = "open"
          => ErrOnWay \/ task = "sendErr" \/ (caller = "waiting" /\ schema = "err")
  BY ReportedIs DEF JobInv
<1>2. CASE PartStep /\ UNCHANGED <<task, caller>>
  <2>1. outcome = "open"
    BY <1>2, ConsumerMoves DEF JobInv, RecvStep, RecvBatch, RecvErr, RecvNone, Drop, Abort
  <2>2. \/ ErrOnWay'
        \/ cancel /\ ~ErrOnWay
        \/ schema' = "err" /\ \E s \in Streams : schemaTx[s]
    BY <1>0, <1>2, ErrOnWayStep
  <2>3. CASE cancel /\ ~ErrOnWay
    BY <1>0, <1>1, <1>2, <2>1, <2>3, SchemaPart DEF SchemaInv
  <2>4. CASE schema' = "err" /\ \E s \in Streams : schemaTx[s]
    <3>1. schemaTx[Default]
      BY <1>0, <2>4, OneDefault DEF SourceInv
    <3>2. caller = "waiting"
      BY <1>0, <3>1 DEF SchemaInv, JobInv
    <3> QED
      BY <1>2, <2>4, <3>2
  <2> QED
    BY <2>2, <2>3, <2>4
<1>3. CASE UNCHANGED vars /\ QuietStep
  <2>1. UNCHANGED <<cancel, outcome, schema>> /\ (ErrOnWay => ErrOnWay')
    BY <1>3 DEF vars, chanVars, queueVars, readerVars, ErrOnWay, ErrQueued, ErrInJob, ErrInReader
  <2> QED
    BY <1>1, <1>3, <2>1 DEF QuietStep, TaskReturns, SwitchBegins, SwitchJoined, SchemaArrives
<1>4. CASE SwitchOk
  <2>1. UNCHANGED <<cancel, outcome, schema, caller, jobs, sent, nread>> /\ task # "sendErr"
    BY <1>4 DEF SwitchOk, chanVars, queueVars
  <2>2. \A s \in Streams : state[s] = "SendErr" => state'[s] = "SendErr"
    BY <1>0, <1>4, OuterShape, OneDefault DEF OuterStep
  <2>3. ErrOnWay => ErrOnWay'
    BY <2>1, <2>2 DEF ErrOnWay, ErrQueued, ErrInJob, ErrInReader
  <2> QED
    BY <1>1, <2>1, <2>3
<1>5. CASE SwitchErr
  BY <1>5 DEF SwitchErr
<1>6. CASE SwitchSendErr
  <2>1. Send(ReaderWaiter(Default), Err(Default)) /\ nread' = nread
    BY <1>0, <1>6 DEF SwitchSendErr, FlagInv
  <2>2. ErrQueued'
    BY <1>0, <2>1, ItemTypes, OneDefault, ErrQueuedStays DEF Send, Err
  <2> QED
    BY <2>2 DEF ErrOnWay
<1>7. CASE OuterAborted \/ NoReceiver
  BY <1>7 DEF OuterAborted, NoReceiver, Abort
<1> QED
  BY <1>2, <1>3, <1>4, <1>5, <1>6, <1>7, StepKind DEF OuterStep

LEMMA NothingReceived ==
    ASSUME ReadTypeOK, NEW s \in Streams, Unread(s)
    PROVE  \A r : Copies(s, r, Received) = 0
<1>1. nread \in 0 .. Len(sent) /\ Len(sent) \in Nat
  BY LogLength DEF ReadTypeOK, ChannelTypeOK
<1>2. \A r : {i \in Received : Covers(sent[i], s, r)} = {}
  BY <1>1 DEF Received, Unread, IsOf, Covers
<1> QED
  BY <1>2, FS_EmptySet DEF Copies

\* recv() returns None only when the whole result has been received, and
\* nothing of the source it was not taken from.
LEMMA EndOfSource ==
    ASSUME JobInv, RecvEnd
    PROVE  \/ AllRows({Default}, 1) /\ \A s \in Session : Unread(s)
           \/ Unread(Default) /\ AllRows(Session, 1)
<1>0. ReadTypeOK /\ SourceInv /\ TaskInv /\ SchemaInv /\ UnreadInv /\ Default \in Streams
  BY OneDefault DEF JobInv, PartInv
<1>1. /\ nread = Len(sent) /\ outcome = "open" /\ jobs = {} /\ task = "done"
      /\ caller = "receiving" /\ \A s \in Streams : state[s] \in Stopped
  BY DEF RecvEnd, RecvNone, Abort, SendersGone
<1>2. Received = 1 .. Len(sent) /\ nread \in Nat
  BY <1>0, <1>1, LogLength DEF Received
<1>3. ~cancel
  BY <1>1, <1>2, ReportedIs DEF JobInv, ErrOnWay, ErrQueued, ErrInJob, ErrInReader, Stopped
<1>4. ASSUME NEW s \in Streams, state[s] = "Terminated", metadata[s]
      PROVE  \A r \in 0 .. Rows[s] - 1 : Copies(s, r, Received) = 1
  BY <1>1, <1>2, <1>3, <1>4, AllRowsReceived DEF JobInv
<1>5. \A s \in Streams : state[s] \in {"Idle", "Switched"} => Unread(s)
  BY <1>0 DEF UnreadInv
<1>6. CASE state[Default] = "Terminated"
  <2>1. metadata[Default]
    BY <1>0, <1>1 DEF SchemaInv
  <2>2. \A s \in Session : state[s] = "Idle"
    BY <1>0, <1>6 DEF SourceInv
  <2> QED
    BY <1>0, <1>4, <1>5, <1>6, <2>1, <2>2 DEF AllRows, Session
<1>7. CASE state[Default] = "Switched"
  <2>1. \A s \in Session : state[s] = "Terminated" /\ metadata[s]
    BY <1>0, <1>1, <1>3, <1>7 DEF TaskInv, SourceInv, Session, Stopped
  <2> QED
    BY <1>0, <1>4, <1>5, <1>7, <2>1 DEF AllRows, Session
<1> QED
  BY <1>0, <1>1, <1>6, <1>7 DEF TaskInv

LEMMA EndIsComplete ==
    ASSUME JobInv, RecvEnd
    PROVE  \/ AllRows({Default}, 1) /\ AllRows(Session, 0)
           \/ AllRows({Default}, 0) /\ AllRows(Session, 1)
<1>1. \A s \in Streams : Unread(s) => AllRows({s}, 0)
  BY NothingReceived DEF JobInv, PartInv, AllRows
<1>2. (\A s \in Session : Unread(s)) => AllRows(Session, 0)
  BY <1>1 DEF AllRows, Session
<1> QED
  BY <1>1, <1>2, EndOfSource, OneDefault

\* What the consumer sees changes through recv(), when no receiver is made, or
\* when the consumer leaves.
LEMMA CallerMoves ==
    ASSUME JobInv, [Next]_jobVars
    PROVE  UNCHANGED <<nread, outcome>> \/ RecvSome \/ RecvEnd \/ NoReceiver \/ Drop
<1>0. ReadTypeOK /\ FlagInv /\ BoundsInv
  BY DEF JobInv, PartInv, FlowInv
<1>1. CASE OuterStep
  BY <1>1 DEF OuterStep, SwitchOk, SwitchErr, SwitchSendErr, OuterAborted, chanVars
<1>2. CASE UNCHANGED vars
  BY <1>2 DEF vars, chanVars
<1>3. CASE \/ \E s \in Streams : StreamStep(s)
           \/ \E j \in jobs : Decode(j)
  <2>1. CASE \E s \in Streams : ReaderStep(s) \/ TaskAborted(s)
    BY <1>0, <2>1, ReaderHasSides DEF ReaderSides
  <2>2. CASE \E s \in Streams : Drain(s)
    BY <1>0, <2>2, DrainHasEffect DEF JobSides, QueueIdles
  <2>3. CASE \E j \in jobs : Decode(j)
    BY <1>0, <2>3, DecodeEffect DEF JobSides
  <2> QED
    BY <1>3, <2>1, <2>2, <2>3 DEF StreamStep, ReaderStep
<1> QED
  BY <1>1, <1>2, <1>3
     DEF Next, TaskStep, TaskReturns, SwitchBegins, SwitchJoined, CallerStep, SchemaArrives,
         OuterStep, jobVars

LEMMA CallerStays ==
    ASSUME JobInv, [Next]_jobVars, caller' = "waiting"
    PROVE  caller = "waiting"
BY StepKind
   DEF QuietStep, TaskReturns, SwitchBegins, SwitchJoined, SchemaArrives,
       OuterStep, SwitchOk, SwitchErr, SwitchSendErr, OuterAborted, NoReceiver

LEMMA ReceivedStep ==
    ASSUME JobInv, PartEffect, [Next]_jobVars
    PROVE  CallerInv' /\ BatchesOnly'
<1>0. PartInv /\ BatchesOnly /\ CallerInv
  BY DEF JobInv
<1>1. CASE UNCHANGED <<nread, outcome>>
  <2>1. /\ Len(sent) \in Nat /\ nread \in 0 .. Len(sent)
        /\ \A i \in 1 .. Len(sent) : sent'[i] = sent[i]
    BY <1>0, LogKept DEF PartInv, ReadTypeOK, ChannelTypeOK
  <2>2. BatchesOnly'
    BY <1>0, <1>1, <2>1 DEF BatchesOnly
  <2> QED
    BY <1>0, <1>1, <2>2, CallerStays DEF CallerInv
<1>2. CASE RecvSome \/ RecvEnd
  <2>1. PartStep /\ caller' = "receiving"
    BY <1>2 DEF RecvSome, RecvEnd, SendersGone, PartStep, RecvStep
  <2> QED
    BY <1>0, <2>1, BatchesStep DEF CallerInv
<1>3. CASE NoReceiver
  <2>1. nread = 0 /\ nread' = 0
    BY <1>0, <1>3 DEF NoReceiver, CallerInv
  <2> QED
    BY <2>1 DEF CallerInv, BatchesOnly
<1>4. CASE Drop
  <2>1. PartStep /\ nread' = nread
    BY <1>4 DEF Drop, PartStep, RecvStep
  <2> QED
    BY <1>0, <2>1, BatchesStep, CallerStays DEF CallerInv
<1> QED
  BY <1>1, <1>2, <1>3, <1>4, CallerMoves

LEMMA EndStep ==
    ASSUME JobInv, PartEffect, [Next]_jobVars
    PROVE  ResultIsComplete'
<1> SUFFICES ASSUME outcome' = "end"
             PROVE  (\/ AllRows({Default}, 1) /\ AllRows(Session, 0)
                     \/ AllRows({Default}, 0) /\ AllRows(Session, 1))'
  BY DEF ResultIsComplete
<1>0. ReadTypeOK /\ FlagInv /\ BoundsInv
  BY DEF JobInv, PartInv, FlowInv
<1>1. Received \in SUBSET (1 .. Len(sent))
  BY <1>0, LogLength DEF ReadTypeOK, ChannelTypeOK, Received
<1>2. nread' = nread /\ (outcome = "end" \/ RecvEnd)
  BY CallerMoves DEF RecvSome, RecvBatch, RecvErr, RecvEnd, RecvNone, NoReceiver, Drop, Abort
<1>3. \A s, r : Copies(s, r, Received)' = Copies(s, r, Received)
  BY <1>0, <1>1, <1>2, CopiesKept DEF Received
<1>4. \/ AllRows({Default}, 1) /\ AllRows(Session, 0)
      \/ AllRows({Default}, 0) /\ AllRows(Session, 1)
  BY <1>2, EndIsComplete DEF JobInv, ResultIsComplete
<1> QED
  BY <1>3, <1>4 DEF AllRows

LEMMA InvStep == JobInv /\ [Next]_jobVars => JobInv'
<1> SUFFICES ASSUME JobInv, [Next]_jobVars PROVE JobInv'
  OBVIOUS
<1>1. PartInv' /\ PartEffect
  BY PartsStep
<1>2. SourceInv' /\ TaskInv' /\ SchemaInv'
  BY <1>1, SourceStep, TasksStep, SchemaStep
<1>3. UnreadInv' /\ CancelIsReported' /\ ResultIsComplete'
  BY <1>1, <1>2, UnreadStep, ReportStep, EndStep
<1>4. CallerInv' /\ BatchesOnly'
  BY <1>1, ReceivedStep
<1>5. /\ task' \in {"reading", "resolving", "joining", "sendErr", "done"}
      /\ caller' \in {"waiting", "receiving"}
  BY StepKind
     DEF JobInv, QuietStep, TaskReturns, SwitchBegins, SwitchJoined, SchemaArrives,
         OuterStep, SwitchOk, SwitchErr, SwitchSendErr, OuterAborted, NoReceiver
<1> QED
  BY <1>1, <1>2, <1>3, <1>4, <1>5 DEF JobInv

\* The invariant all the others follow from.
THEOREM Invariance == Spec => []JobInv
BY InvInit, InvStep, PTL DEF Spec

-----------------------------------------------------------------------------
(* What the run checks on a small instance.                                *)

\* Every variable of the read, the outer task and the caller included, keeps
\* its type.
THEOREM TypeCorrect == Spec => []TypeOK
<1>1. JobInv => TypeOK
  BY DEF JobInv, PartInv, ReadTypeOK, TypeOK
<1> QED
  BY <1>1, Invariance, PTL

\* At the clean end the consumer has the result exactly once: all of it from the
\* job's stream, or all of it from the session that switch_to_read_session opened
\* and nothing of the page that was given up for it.
THEOREM ResultComplete == Spec => []ResultIsComplete
<1>1. JobInv => ResultIsComplete
  BY DEF JobInv
<1> QED
  BY <1>1, Invariance, PTL

\* A stream that is unread has no batch in the log.
LEMMA NoneOfUnread ==
    ASSUME JobInv, NEW i \in 1 .. Len(sent), sent[i].kind = "batch"
    PROVE  sent[i].s \in Streams /\ ~Unread(sent[i].s)
<1>1. sent[i] \in Items
  BY ElementOfSeq DEF JobInv, PartInv, ReadTypeOK, ChannelTypeOK
<1> QED
  BY <1>1 DEF Items, Unread, IsOf

LEMMA LogSource ==
    ASSUME JobInv
    PROVE  \E source \in {{Default}, Session} :
               \A i \in 1 .. Len(sent) : sent[i].kind = "batch" => sent[i].s \in source
<1>1. CASE state[Default] = "Switched"
  <2>1. Unread(Default)
    BY <1>1, OneDefault DEF JobInv, UnreadInv
  <2>2. \A i \in 1 .. Len(sent) : sent[i].kind = "batch" => sent[i].s \in Session
    BY <2>1, NoneOfUnread, OneDefault
  <2> QED
    BY <2>2
<1>2. CASE state[Default] # "Switched"
  <2>1. \A s \in Session : Unread(s)
    BY <1>2 DEF JobInv, SourceInv, UnreadInv, Session
  <2>2. \A i \in 1 .. Len(sent) : sent[i].kind = "batch" => sent[i].s \in {Default}
    BY <2>1, NoneOfUnread, OneDefault
  <2> QED
    BY <2>2
<1> QED
  BY <1>1, <1>2

\* The job's stream and the session, which hold the same rows, are never both
\* handed to the consumer, however the read ends.
THEOREM OneSource == Spec => []NeverBothSources
<1>1. JobInv => NeverBothSources
  <2> SUFFICES ASSUME JobInv, NEW i \in Received, NEW k \in Received,
                      sent[i].kind = "batch", sent[k].kind = "batch"
               PROVE  sent[i].s = Default <=> sent[k].s = Default
    BY DEF NeverBothSources
  <2>1. i \in 1 .. Len(sent) /\ k \in 1 .. Len(sent)
    BY LogLength DEF JobInv, PartInv, ReadTypeOK, ChannelTypeOK, Received
  <2> QED
    BY <2>1, LogSource DEF Session
<1> QED
  BY <1>1, Invariance, PTL

\* When the reader is over, a caller that waits for the schema has an answer on
\* the oneshot: it never reports that the task terminated before sending one.
THEOREM SchemaAnswered == Spec => []SchemaIsAnswered
<1>1. JobInv => SchemaIsAnswered
  BY DEF JobInv, SchemaInv, SchemaIsAnswered
<1> QED
  BY <1>1, Invariance, PTL

\* A read that cancels itself has told the consumer why or is about to: through
\* the oneshot, the channel or a pending send, that of the failed switch included.
THEOREM CancelReported == Spec => []CancelIsReported
<1>1. JobInv => CancelIsReported
  BY DEF JobInv
<1> QED
  BY <1>1, Invariance, PTL

\* Across the switch no slot is lost, no queued job is stranded and no stream is
\* retried beyond the limit; with maintain_order the rows come in order.
THEOREM PartsHold == Spec => [](PermitsConserved /\ NoStrandedJob /\ RetriesBounded /\ OrderedPrefix)
<1>1. JobInv => PermitsConserved /\ NoStrandedJob /\ RetriesBounded /\ OrderedPrefix
  BY RetryBound, InOrderMeansPrefix DEF JobInv, PartInv, FlowInv
<1> QED
  BY <1>1, Invariance, PTL
-----------------------------------------------------------------------------
(* The refinement of BatchDelivery.                                        *)

LEMMA DeliverStep ==
    ASSUME JobInv, RecvBatch
    PROVE  Delivery!Next
<1>1. PICK b : b = sent[nread + 1]
  OBVIOUS
<1>2. /\ nread + 1 \in 1 .. Len(sent) /\ b.kind = "batch"
      /\ b = [kind |-> "batch", s |-> b.s, lo |-> b.lo, hi |-> b.hi]
      /\ b.lo \in 0 .. Rows[b.s] - 1 /\ b.hi \in b.lo + 1 .. Rows[b.s]
      /\ Given' = Append(Given, b) /\ outcome = "open" /\ outcome' = "open"
      /\ MaintainOrder => ContinuesGiven(b)
  BY <1>1, GivenGrows DEF JobInv
<1>3. MaintainOrder => Delivery!Continues(b)
  BY <1>2 DEF ContinuesGiven, Delivery!Continues, Delivery!Of
<1>4. PICK source \in {{Default}, Session} :
          \A i \in 1 .. Len(sent) : sent[i].kind = "batch" => sent[i].s \in source
  BY LogSource
<1>5. b.s \in source
  BY <1>1, <1>2, <1>4
<1>6. Delivery!From(source)
  <2>1. /\ DOMAIN Given = 1 .. nread /\ nread \in 0 .. Len(sent) /\ Len(sent) \in Nat
        /\ \A i \in 1 .. nread : Given[i] = sent[i] /\ sent[i].kind = "batch"
    BY <1>2, GivenIs, LogLength DEF JobInv, PartInv, ReadTypeOK, ChannelTypeOK
  <2> QED
    BY <1>4, <2>1 DEF Delivery!From
<1>7. Delivery!Deliver
  BY <1>2, <1>3, <1>5, <1>6 DEF Delivery!Deliver
<1> QED
  BY <1>7 DEF Delivery!Next

LEMMA StopStep ==
    ASSUME JobInv, RecvErr \/ Drop
    PROVE  Delivery!Next
<1>1. Given' = Given /\ outcome = "open"
  BY GivenAtEnd DEF JobInv, PartInv
<1>2. outcome' \in {"err", "dropped"}
  BY DEF RecvErr, Drop, Abort
<1> QED
  BY <1>1, <1>2 DEF Delivery!Next, Delivery!Stop

\* A caller without a receiver has been given nothing but the error.
LEMMA NoReceiverStep ==
    ASSUME JobInv, NoReceiver
    PROVE  Delivery!Next
<1>1. /\ nread = 0 /\ nread' = 0 /\ outcome = "open"
      /\ outcome' \in {"err", "dropped"} /\ sent' = sent
  BY DEF NoReceiver, Abort, JobInv, CallerInv
<1>2. SubSeq(sent, 1, 0) = <<>> /\ SubSeq(sent, 1, -1) = <<>>
  BY SubSeqEmpty
<1>3. Given = <<>> /\ Given' = <<>>
  BY <1>1, <1>2 DEF Given
<1> QED
  BY <1>1, <1>3 DEF Delivery!Next, Delivery!Stop

\* The instance counts as this module does.
LEMMA SameCardinality == ASSUME NEW S PROVE Delivery!Cardinality(S) = Cardinality(S)
BY DEF Cardinality, Delivery!Cardinality

LEMMA EndOfDelivery ==
    ASSUME JobInv, RecvEnd
    PROVE  Delivery!Next
<1>0. /\ outcome' = "end" /\ ReadTypeOK /\ BatchesOnly
      /\ \E gone \in BOOLEAN : RecvNone(gone)
  BY DEF RecvEnd, RecvNone, Abort, SendersGone, JobInv, PartInv
<1>1. Given' = Given /\ outcome = "open"
  BY <1>0, GivenAtEnd
<1>2. /\ DOMAIN Given = 1 .. nread /\ nread \in 0 .. Len(sent) /\ Len(sent) \in Nat
      /\ \A i \in 1 .. nread : Given[i] = sent[i] /\ sent[i].kind = "batch"
  BY <1>0, <1>1, GivenIs, LogLength DEF ReadTypeOK, ChannelTypeOK
<1>3. PICK source \in {{Default}, Session} :
          AllRows(source, 1) /\ \A s \in Streams \ source : Unread(s)
  BY EndOfSource, OneDefault DEF Session
<1>4. Delivery!From(source)
  BY <1>2, <1>3, NoneOfUnread DEF Delivery!From
<1>5. ASSUME NEW s \in source, NEW r \in 0 .. Rows[s] - 1
      PROVE  Delivery!Cardinality(Delivery!Holders(s, r)) = 1
  <2>1. Delivery!Holders(s, r) = {i \in 1 .. nread : Covers(sent[i], s, r)}
    BY <1>2 DEF Delivery!Holders, Delivery!Of, Covers
  <2>2. Cardinality({i \in 1 .. nread : Covers(sent[i], s, r)}) = 1
    BY <1>3 DEF AllRows, Copies, Received
  <2> QED
    BY <2>1, <2>2, SameCardinality
<1>6. Delivery!Complete
  BY <1>4, <1>5, Zenon DEF Delivery!Complete
<1>7. Delivery!End
  BY <1>0, <1>1, <1>6 DEF Delivery!End
<1> QED
  BY <1>7 DEF Delivery!Next

LEMMA DeliveryStep ==
    JobInv /\ JobInv' /\ [Next]_jobVars => Delivery!Next \/ UNCHANGED <<Given, outcome>>
<1> SUFFICES ASSUME JobInv, JobInv', [Next]_jobVars
             PROVE  Delivery!Next \/ UNCHANGED <<Given, outcome>>
  OBVIOUS
<1>1. PartEffect /\ ReadTypeOK /\ ReadTypeOK'
  BY PartsStep DEF JobInv, PartInv
<1>2. CASE UNCHANGED <<nread, outcome>>
  BY <1>1, <1>2, GivenStays
<1>3. CASE RecvSome
  BY <1>3, DeliverStep, StopStep DEF RecvSome
<1> QED
  BY <1>2, <1>3, CallerMoves, EndOfDelivery, NoReceiverStep, StopStep

\* The read of a query job implements the delivery of batches one by one: the
\* caller cannot tell that read_stream_with_first_page_check has given up the
\* job's stream for a session, since all its batches are of one of the two, and
\* the clean end comes only after the last row of that one.
THEOREM Refinement == Spec => ImplementsDelivery
<1>1. Init => Delivery!Init
  <2> SUFFICES ASSUME Init PROVE Delivery!Init
    OBVIOUS
  <2>1. nread = 0 /\ outcome = "open"
    BY DEF Init, ChannelInit, ReceiverInit
  <2>2. SubSeq(sent, 1, 0) = <<>>
    BY SubSeqEmpty
  <2> QED
    BY <2>1, <2>2 DEF Given, Delivery!Init
<1>2. JobInv /\ JobInv' /\ [Next]_jobVars => [Delivery!Next]_<<Given, outcome>>
  BY DeliveryStep
<1> QED
  BY <1>1, <1>2, Invariance, PTL DEF Spec, ImplementsDelivery, Delivery!Spec
=============================================================================
