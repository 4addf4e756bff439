---------------------------- MODULE JobStreamRead ----------------------------
(***************************************************************************)
(* lib.rs: read_stream_with_first_page_check and switch_to_read_session.   *)
(* The rows of a query job are read from its stream `Default`.  The caller *)
(* first waits for the schema on a oneshot channel, unless it brought one. *)
(* If the first page shows that the result is large, the page is dropped   *)
(* and the same channel is fed from a read session on the destination      *)
(* table, whose streams hold the result once more.                         *)
(*                                                                         *)
(* `task` is the spawned task around the reader of Default: "reading" in   *)
(* read_stream(..).await, "resolving" in resolve and prepare of the        *)
(* switch, "joining" in join_next(), "sendErr" in tx.send(Err(err)).await. *)
(***************************************************************************)
EXTENDS Receiver

CONSTANTS
    Default,        \* the job's streams/_default
    HasCheck,       \* was a first-page check given, with a destination table?
    SchemaGiven     \* was the schema part of the options?

ASSUME JobStreamAssumption ==
    /\ Default \in Streams
    /\ HasCheck \in BOOLEAN
    /\ SchemaGiven \in BOOLEAN
    /\ HasCheck => ~MaintainOrder   \* query.rs: can_read_destination_table

VARIABLES
    task,
    caller      \* "waiting" for the schema, or "receiving"

jobVars == <<vars, task, caller>>

Session == Streams \ {Default}

Init ==
    /\ ChannelInit
    /\ QueueInit
    /\ ReaderInit({Default}, IF SchemaGiven THEN {} ELSE {Default},
                  IF HasCheck THEN {Default} ELSE {})
    /\ ReceiverInit
    /\ task = "reading"
    /\ caller = IF SchemaGiven THEN "receiving" ELSE "waiting"

\* The outer task keeps a clone of tx until it returns.
SendersGone == jobs = {} /\ task = "done" /\ \A s \in Streams : state[s] \in Stopped

-----------------------------------------------------------------------------
(* The spawned task.                                                       *)

\* Mutant: the task also returns when the reader asked for the switch.
TaskReturnsAlways ==
    /\ task = "reading"
    /\ state[Default] \in {"Terminated", "Switched"}
    /\ task' = "done"
    /\ UNCHANGED <<vars, caller>>

\* read_stream returned Finished.
TaskReturns ==
    /\ task = "reading"
    /\ state[Default] = "Terminated"
    /\ task' = "done"
    /\ UNCHANGED <<vars, caller>>

\* read_stream returned SwitchToReadSession.
SwitchBegins ==
    /\ task = "reading"
    /\ state[Default] = "Switched"
    /\ task' = "resolving"
    /\ UNCHANGED <<vars, caller>>

\* The destination table is found and the session is open: one reader task
\* per session stream, from row 0.
SwitchOk ==
    /\ task = "resolving"
    /\ task' = "joining"
    /\ state' = [s \in Streams |-> IF s \in Session THEN "Connecting" ELSE state[s]]
    /\ UNCHANGED <<offset, retry, page, pos, metadata, schemaTx, check, schema, fails>>
    /\ UNCHANGED <<chanVars, queueVars, outcome, caller>>

\* resolve, create_read_session or the schema of the session failed.
SwitchErr ==
    /\ task = "resolving"
    /\ task' = "sendErr"
    /\ cancel' = TRUE
    /\ Wait(ReaderWaiter(Default))
    /\ UNCHANGED <<sent, nread, permits, closed, queueVars, readerVars, outcome, caller>>

SwitchSendErr ==
    /\ task = "sendErr"
    /\ task' = "done"
    /\ \/ Send(ReaderWaiter(Default), Err(Default))
       \/ closed /\ Leave(ReaderWaiter(Default)) /\ UNCHANGED <<sent, permits>>
    /\ UNCHANGED <<nread, closed, cancel, queueVars, readerVars, outcome, caller>>

\* join_next() returned None: every stream task of the session is over.
SwitchJoined ==
    /\ task = "joining"
    /\ \A s \in Session : state[s] \in Stopped
    /\ task' = "done"
    /\ UNCHANGED <<vars, caller>>

\* The handle is aborted past read_stream(..); dropping the JoinSet aborts the
\* stream tasks of the session, each by its TaskAborted.
OuterAborted ==
    /\ outcome # "open"
    /\ task \in {"resolving", "joining", "sendErr"}
    /\ task' = "done"
    /\ Leave(ReaderWaiter(Default))
    /\ UNCHANGED <<sent, nread, permits, closed, cancel, queueVars, readerVars, outcome, caller>>

TaskStep ==
    \/ TaskReturns \/ SwitchBegins \/ SwitchOk \/ SwitchErr \/ SwitchSendErr
    \/ SwitchJoined \/ OuterAborted

-----------------------------------------------------------------------------
(* The caller: schema_rx.await, then recv().                               *)

SchemaArrives ==
    /\ caller = "waiting"
    /\ outcome = "open"
    /\ schema = "ok"
    /\ caller' = "receiving"
    /\ UNCHANGED <<vars, task>>

\* Err(err), or the sender is gone: an error instead of a receiver.  Ok(None):
\* read_stream makes an error of it and a query asks its job what became of the
\* result (query.rs).  Each time the receiver is dropped, which aborts the read.
NoReceiver ==
    /\ caller = "waiting"
    /\ \/ schema = "empty" /\ Abort("dropped")
       \/ /\ schema = "err" \/ (schema = "pending" /\ state[Default] \in Stopped)
          /\ Abort("err")
    /\ UNCHANGED <<sent, nread, permits, waiters, queueVars, readerVars, task, caller>>

RecvSome == caller = "receiving" /\ (RecvBatch \/ RecvErr) /\ UNCHANGED <<task, caller>>

RecvEnd == caller = "receiving" /\ RecvNone(SendersGone) /\ UNCHANGED <<task, caller>>

CallerStep == SchemaArrives \/ NoReceiver \/ RecvSome \/ RecvEnd

StreamStep(s) == ReadRows(s) \/ Advance(s) \/ TaskAborted(s) \/ Drain(s)

Finished == outcome # "open" /\ SendersGone /\ \A s \in Streams : ~running[s]

Next ==
    \/ \E s \in Streams : StreamStep(s) /\ UNCHANGED <<task, caller>>
    \/ \E j \in jobs : Decode(j) /\ UNCHANGED <<task, caller>>
    \/ TaskStep
    \/ CallerStep
    \/ Drop /\ UNCHANGED <<task, caller>>
    \/ Finished /\ UNCHANGED jobVars

Spec == Init /\ [][Next]_jobVars

\* The runtimes run what is ready and the caller keeps waiting for the schema
\* and receiving; the service does not answer without progress for ever.
Fairness ==
    /\ \A s \in Streams :
          /\ WF_jobVars((ReadRows(s) \/ Advance(s)) /\ UNCHANGED <<task, caller>>)
          /\ SF_jobVars((Page(s) \/ SwitchPage(s) \/ StreamEof(s))
                           /\ UNCHANGED <<outcome, task, caller>>)
          /\ WF_jobVars(Drain(s) /\ UNCHANGED <<task, caller>>)
    /\ WF_jobVars(\E j \in jobs : Decode(j) /\ UNCHANGED <<task, caller>>)
    /\ WF_jobVars(TaskStep)
    /\ WF_jobVars(CallerStep)

FairSpec == Spec /\ Fairness

-----------------------------------------------------------------------------

\* Every variable of a job-stream read, the outer task and the caller included,
\* has its type.
TypeOK ==
    /\ ChannelTypeOK
    /\ QueueTypeOK
    /\ ReaderTypeOK
    /\ ReceiverTypeOK
    /\ task \in {"reading", "resolving", "joining", "sendErr", "done"}
    /\ caller \in {"waiting", "receiving"}

\* The rows of the streams in S, each received exactly n times.
AllRows(S, n) == \A s \in S : \A r \in 0 .. Rows[s] - 1 : Copies(s, r, Received) = n

\* A clean end means the whole result exactly once: all of it from the job's
\* stream, or all of it from the session that replaced it and nothing of the
\* page that made the reader switch.
ResultIsComplete ==
    outcome = "end" =>
        \/ AllRows({Default}, 1) /\ AllRows(Session, 0)
        \/ AllRows({Default}, 0) /\ AllRows(Session, 1)

\* Even in a read that fails, batches of the job's stream and batches of the
\* session, which hold the same rows, are never both given to the consumer.
NeverBothSources ==
    \A i, k \in Received :
        (sent[i].kind = "batch" /\ sent[k].kind = "batch")
            => (sent[i].s = Default <=> sent[k].s = Default)

\* The caller is never left without an answer: when the reader is over, the
\* oneshot has been used, so "terminated before sending schema" is not reached.
SchemaIsAnswered ==
    caller = "waiting" /\ outcome = "open" /\ state[Default] \in Stopped
        => schema # "pending"

\* Whoever cancels a read that the consumer has not left has told it why, or
\* is about to: on the oneshot, in the channel, or in a pending send.
CancelIsReported ==
    cancel /\ outcome = "open" =>
        \/ caller = "waiting" /\ schema = "err"
        \/ \E i \in nread + 1 .. Len(sent) : sent[i].kind = "err"
        \/ \E j \in jobs : j.phase = "failing"
        \/ \E s \in Streams : state[s] = "SendErr"
        \/ task = "sendErr"

Delivery == INSTANCE BatchDelivery
                WITH got <- Given, status <- outcome, InOrder <- MaintainOrder,
                     Sources <- {{Default}, Session}

\* The caller sees a delivery of batches one by one, all of the job's stream or all
\* of the session: the switch between them is invisible.
ImplementsDelivery == Delivery!Spec

\* The caller gets a schema or an error, and a caller that keeps receiving
\* sees the end of the read.
ReadEnds == <>(outcome # "open")

\* Dropping the receiver ends the outer task, the tasks of the session and all
\* decode work, at whatever point of the switch it happens.
CancelStopsEverything == cancel ~> (SendersGone /\ \A s \in Streams : ~running[s])
=============================================================================
