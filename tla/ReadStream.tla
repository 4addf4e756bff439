------------------------------ MODULE ReadStream ------------------------------
(***************************************************************************)
(* bigquery_read_stream.rs: the reader task of one Storage Read API stream *)
(* as the state machine ReadStream::step, and the server side of ReadRows. *)
(*                                                                         *)
(* Rows of a stream are numbered from 0.  A ReadRows call at `offset`      *)
(* yields the rows from there on, cut into pages as the service likes.     *)
(* `pos` is where the open call has got to.  A page says how many rows it  *)
(* has; the service may get that wrong by an element of Skew.              *)
(*                                                                         *)
(* state[s] is ReadStreamState plus the awaits inside a step: "Enqueue" is *)
(* enqueue_decode_batch waiting for a permit, "SendErr" is send_fatal_error*)
(* waiting to put the error into the channel.  "Terminated" and "Switched" *)
(* are Terminated(Finished) and Terminated(SwitchToReadSession).  "Idle"   *)
(* is a stream whose task has not been spawned, "FirstPage" a task that is *)
(* still enqueueing the inline first page (read_query_stream).             *)
(***************************************************************************)
EXTENDS DecodeQueue, ReadRetry

CONSTANTS
    Rows,       \* Rows[s]: the number of rows of stream s
    Skew,       \* row_count minus the rows really in the page
    MaxOffset,  \* stands for i64::MAX, where offset.checked_add fails
    SwitchBytes \* threshold_bytes of the first page check; a row has one byte

ASSUME ReadAssumption ==
    /\ Rows \in [Streams -> Nat]
    /\ Skew \subseteq Int
    /\ MaxOffset \in Nat
    /\ SwitchBytes \in Nat \ {0}
    /\ \A s \in Streams : Rows[s] <= MaxOffset

VARIABLES
    state,      \* the reader's state
    offset,     \* the offset it would (re)connect at
    retry,      \* retry_state.attempt_count, or NoRetry
    page,       \* the page waiting for a permit in state "Enqueue"
    pos,        \* server: next row of the open ReadRows call
    metadata,   \* is the Arrow schema known?
    schemaTx,   \* does the reader still own the schema oneshot sender?
    check,      \* is first_page_check still to be done?
    schema,     \* what the schema oneshot carries
    fails       \* history: consecutive errors since the last message

readerVars == <<state, offset, retry, page, pos, metadata, schemaTx, check, schema, fails>>

ReaderWaiter(s) == Waiter("reader", s, 0)

\* retry_state = None.
NoRetry == -1

NoPage == [lo |-> 0, hi |-> 0, bad |-> FALSE]

ReaderStates == {"Idle", "FirstPage", "Connecting", "Backoff", "Reading", "Enqueue", "SendErr",
                 "Terminated", "Switched"}

Stopped == {"Idle", "Terminated", "Switched"}

\* ReadStream::new for the streams of `spawned`; `first` says whether the task
\* must still learn the schema and report it, `chk` whether it has a
\* FirstPageCheck.
ReaderInit(spawned, first, chk) ==
    /\ state = [s \in Streams |-> IF s \in spawned THEN "Connecting" ELSE "Idle"]
    /\ offset = [s \in Streams |-> 0]
    /\ retry = [s \in Streams |-> 0]
    /\ page = [s \in Streams |-> NoPage]
    /\ pos = [s \in Streams |-> 0]
    /\ metadata = [s \in Streams |-> s \notin first]
    /\ schemaTx = [s \in Streams |-> s \in first]
    /\ check = [s \in Streams |-> s \in chk]
    /\ schema = IF first = {} THEN "known" ELSE "pending"
    /\ fails = [s \in Streams |-> 0]

-----------------------------------------------------------------------------
(* send_fatal_error: cancel first, then report through the schema oneshot  *)
(* if it is still unused (hasTx), else through the channel.                *)

Fatal(s, hasTx) ==
    /\ cancel' = TRUE
    /\ IF hasTx THEN UNCHANGED waiters ELSE Wait(ReaderWaiter(s))
    /\ state' = [state EXCEPT ![s] = IF hasTx THEN "Terminated" ELSE "SendErr"]

\* Mutant: the oneshot is dropped without the error.
SchemaAfterFatalSilent(s, hasTx) ==
    /\ schemaTx' = [schemaTx EXCEPT ![s] = FALSE]
    /\ UNCHANGED schema

\* What becomes of the oneshot.
SchemaAfterFatal(s, hasTx) ==
    /\ schema' = IF hasTx THEN "err" ELSE schema
    /\ schemaTx' = [schemaTx EXCEPT ![s] = FALSE]

\* Mutant: the error is only reported if a slot is free right now.
TrySendFatal(s) ==
    /\ state[s] = "SendErr"
    /\ IF permits > 0 /\ ~closed
       THEN Send(ReaderWaiter(s), Err(s))
       ELSE Leave(ReaderWaiter(s)) /\ UNCHANGED <<sent, permits>>
    /\ state' = [state EXCEPT ![s] = "Terminated"]
    /\ UNCHANGED <<offset, retry, page, pos, metadata, schemaTx, check, schema, fails>>
    /\ UNCHANGED <<queueVars, nread, closed, cancel>>

\* tx.send(Err(err)).await returns: the error is in the channel, or nobody
\* can receive it any more.
SendFatal(s) ==
    /\ state[s] = "SendErr"
    /\ \/ Send(ReaderWaiter(s), Err(s))
       \/ closed /\ Leave(ReaderWaiter(s)) /\ UNCHANGED <<sent, permits>>
    /\ state' = [state EXCEPT ![s] = "Terminated"]
    /\ UNCHANGED <<offset, retry, page, pos, metadata, schemaTx, check, schema, fails>>
    /\ UNCHANGED <<queueVars, nread, closed, cancel>>

-----------------------------------------------------------------------------
(* handle_error: count the attempt, ask the policy and the throttler, then *)
(* back off or fail.  r is the attempt count carried into the call.        *)

HandleError(s, r) ==
    /\ fails' = [fails EXCEPT ![s] = @ + 1]
    /\ \E e \in Errors, throttled \in BOOLEAN :
         \* Permanent or Exhausted, on_throttle's Exhausted, remaining_time <= delay
         \/ /\ OnError(e, r + 1) # "Continue" \/ throttled \/ TimeLimited
            /\ Fatal(s, schemaTx[s])
            /\ SchemaAfterFatal(s, schemaTx[s])
            /\ UNCHANGED retry
         \* a throttled attempt counts twice
         \/ /\ OnError(e, r + 1) = "Continue"
            /\ retry' = [retry EXCEPT ![s] = IF throttled THEN r + 2 ELSE r + 1]
            /\ state' = [state EXCEPT ![s] = "Backoff"]
            /\ UNCHANGED <<cancel, waiters, schema, schemaTx>>
    /\ UNCHANGED <<offset, page, pos, metadata, check>>
    /\ UNCHANGED <<queueVars, sent, nread, permits, closed>>

-----------------------------------------------------------------------------
(* ReadStream::step.                                                       *)

\* Mutant: the wait for the backoff deadline does not watch the flag.
CancelledNotInBackoff(s) ==
    /\ cancel
    /\ state[s] \in {"Connecting", "Reading"}
    /\ state' = [state EXCEPT ![s] = "Terminated"]
    /\ UNCHANGED <<offset, retry, page, pos, metadata, schemaTx, check, schema, fails>>
    /\ UNCHANGED <<queueVars, chanVars>>

\* The check at the top of step and the first arm of every biased select!.
Cancelled(s) ==
    /\ cancel
    /\ state[s] \in {"Connecting", "Backoff", "Reading"}
    /\ state' = [state EXCEPT ![s] = "Terminated"]
    /\ UNCHANGED <<offset, retry, page, pos, metadata, schemaTx, check, schema, fails>>
    /\ UNCHANGED <<queueVars, chanVars>>

\* Mutant: a successful connect already forgets the failed attempts.
ConnectOkResets(s) ==
    /\ state[s] = "Connecting"
    /\ ~cancel
    /\ offset[s] \in 0 .. Rows[s]
    /\ state' = [state EXCEPT ![s] = "Reading"]
    /\ pos' = [pos EXCEPT ![s] = offset[s]]
    /\ retry' = [retry EXCEPT ![s] = NoRetry]
    /\ UNCHANGED <<offset, page, metadata, schemaTx, check, schema, fails>>
    /\ UNCHANGED <<queueVars, chanVars>>

\* Mutant: the reconnect asks for the stream from its beginning.
ConnectOkFromStart(s) ==
    /\ state[s] = "Connecting"
    /\ ~cancel
    /\ offset[s] \in 0 .. Rows[s]
    /\ state' = [state EXCEPT ![s] = "Reading"]
    /\ pos' = [pos EXCEPT ![s] = 0]
    /\ UNCHANGED <<offset, retry, page, metadata, schemaTx, check, schema, fails>>
    /\ UNCHANGED <<queueVars, chanVars>>

\* Connecting: read_rows.set_offset(offset).send() succeeds.  The service has
\* no stream beyond the last row.
ConnectOk(s) ==
    /\ state[s] = "Connecting"
    /\ ~cancel
    /\ offset[s] \in 0 .. Rows[s]
    /\ state' = [state EXCEPT ![s] = "Reading"]
    /\ pos' = [pos EXCEPT ![s] = offset[s]]
    /\ UNCHANGED <<offset, retry, page, metadata, schemaTx, check, schema, fails>>
    /\ UNCHANGED <<queueVars, chanVars>>

ConnectErr(s) ==
    /\ state[s] = "Connecting"
    /\ ~cancel
    /\ HandleError(s, retry[s])

\* Backoff: the deadline has passed.
BackoffElapsed(s) ==
    /\ state[s] = "Backoff"
    /\ ~cancel
    /\ state' = [state EXCEPT ![s] = "Connecting"]
    /\ UNCHANGED <<offset, retry, page, pos, metadata, schemaTx, check, schema, fails>>
    /\ UNCHANGED <<queueVars, chanVars>>

\* Reading: stream.next() yields something before the task is cancelled.
Reading(s) == state[s] = "Reading" /\ ~cancel

\* A message without rows before the schema is known.
Heartbeat(s) ==
    /\ Reading(s)
    /\ ~metadata[s]
    /\ retry' = [retry EXCEPT ![s] = NoRetry]
    /\ fails' = [fails EXCEPT ![s] = 0]
    /\ UNCHANGED <<state, offset, page, pos, metadata, schemaTx, check, schema>>
    /\ UNCHANGED <<queueVars, chanVars>>

\* The first message with content has no Arrow schema, or one that does not
\* parse.
SchemaError(s) ==
    /\ Reading(s)
    /\ ~metadata[s]
    /\ Fatal(s, schemaTx[s])
    /\ SchemaAfterFatal(s, schemaTx[s])
    /\ fails' = [fails EXCEPT ![s] = 0]
    /\ UNCHANGED <<offset, retry, page, pos, metadata, check>>
    /\ UNCHANGED <<queueVars, sent, nread, permits, closed>>

\* Mutant: the schema is stored but not handed to the caller.
SchemaKnownUnsent(s) ==
    /\ metadata' = [metadata EXCEPT ![s] = TRUE]
    /\ schemaTx' = [schemaTx EXCEPT ![s] = FALSE]
    /\ UNCHANGED schema

\* The schema is known, or this message brings it and it is handed to the
\* waiting caller; either way the oneshot is used up.
SchemaKnown(s) ==
    /\ metadata' = [metadata EXCEPT ![s] = TRUE]
    /\ schemaTx' = [schemaTx EXCEPT ![s] = FALSE]
    /\ schema' = IF schemaTx[s] THEN "ok" ELSE schema

\* extract_response_arrow_bytes: Ok(None), an empty message.
EmptyMessage(s) ==
    /\ Reading(s)
    /\ SchemaKnown(s)
    /\ retry' = [retry EXCEPT ![s] = NoRetry]
    /\ fails' = [fails EXCEPT ![s] = 0]
    /\ UNCHANGED <<state, offset, page, pos, check>>
    /\ UNCHANGED <<queueVars, chanVars>>

\* A page that is refused at once: not Arrow, rows announced but none sent, a
\* negative row_count on the first page.  The error goes to the channel: the
\* oneshot was used before the page was looked at.
PageError(s) ==
    /\ Reading(s)
    /\ SchemaKnown(s)
    /\ Fatal(s, FALSE)
    /\ fails' = [fails EXCEPT ![s] = 0]
    /\ check' \in {check, [check EXCEPT ![s] = FALSE]}
    /\ UNCHANGED <<offset, retry, page, pos>>
    /\ UNCHANGED <<queueVars, sent, nread, permits, closed>>

\* Mutant: the size check is made on every page, not only on the first.
SwitchAnyPage(s) ==
    /\ Reading(s)
    /\ pos[s] < Rows[s]
    /\ SchemaKnown(s)
    /\ check' = [check EXCEPT ![s] = FALSE]
    /\ state' = [state EXCEPT ![s] = "Switched"]
    /\ fails' = [fails EXCEPT ![s] = 0]
    /\ UNCHANGED <<offset, retry, page, pos>>
    /\ UNCHANGED <<queueVars, chanVars>>

\* estimate_remaining_bytes is at least the threshold: the page has `bytes` and
\* says it has `count` rows of `total`, 0 if nobody knows the total.
EstimateReaches(bytes, count, total) ==
    /\ count > 0 /\ total > count
    /\ bytes * (total - count) >= SwitchBytes * count

\* The first page is estimated to be followed by a lot: it is given up and the
\* task ends with SwitchToReadSession.  The total comes from the stream or from
\* the query's response and may be wrong.
SwitchPage(s) ==
    /\ Reading(s)
    /\ check[s]
    /\ \E n \in 1 .. Rows[s] - pos[s], k \in Skew, total \in 0 .. Rows[s] + 1 :
          EstimateReaches(n, n + k, total)
    /\ SchemaKnown(s)
    /\ check' = [check EXCEPT ![s] = FALSE]
    /\ state' = [state EXCEPT ![s] = "Switched"]
    /\ fails' = [fails EXCEPT ![s] = 0]
    /\ UNCHANGED <<offset, retry, page, pos>>
    /\ UNCHANGED <<queueVars, chanVars>>

\* A page of n rows that says it has n + k: the offset moves on by what the
\* page says, before the page is in the decode queue.
Page(s) ==
    /\ Reading(s)
    /\ SchemaKnown(s)
    /\ check' = [check EXCEPT ![s] = FALSE]
    /\ fails' = [fails EXCEPT ![s] = 0]
    /\ \E n \in 1 .. Rows[s] - pos[s], k \in Skew :
         /\ check[s] => n + k >= 0
         /\ IF offset[s] + n + k > MaxOffset
            THEN /\ Fatal(s, FALSE)
                 /\ UNCHANGED <<offset, retry, page, pos>>
            ELSE /\ offset' = [offset EXCEPT ![s] = @ + n + k]
                 /\ pos' = [pos EXCEPT ![s] = @ + n]
                 /\ retry' = [retry EXCEPT ![s] = NoRetry]
                 /\ page' = [page EXCEPT ![s] =
                               [lo |-> pos[s], hi |-> pos[s] + n, bad |-> k # 0]]
                 /\ state' = [state EXCEPT ![s] = "Enqueue"]
                 /\ Wait(ReaderWaiter(s))
                 /\ UNCHANGED cancel
    /\ UNCHANGED <<queueVars, sent, nread, permits, closed>>

\* A message is Err: after data progress this starts a fresh RetryState.
StreamErr(s) ==
    /\ Reading(s)
    /\ HandleError(s, IF retry[s] = NoRetry THEN 0 ELSE retry[s])

\* None: the service closes the stream after its last row, or, for a query
\* that still runs, before it sent anything.  A schema that never came is
\* reported as Ok(None).
StreamEof(s) ==
    /\ Reading(s)
    /\ pos[s] = Rows[s] \/ ~metadata[s]
    /\ state' = [state EXCEPT ![s] = "Terminated"]
    /\ schema' = IF schemaTx[s] THEN "empty" ELSE schema
    /\ schemaTx' = [schemaTx EXCEPT ![s] = FALSE]
    /\ UNCHANGED <<offset, retry, page, pos, metadata, check, fails>>
    /\ UNCHANGED <<queueVars, chanVars>>

-----------------------------------------------------------------------------
(* enqueue_decode_batch: cancellation, then a permit or a closed channel.  *)

\* A permit, and the job is in the decode queue.  The two arms of the select!
\* are polled one after the other, so a cancel that lands between the polls
\* does not prevent it.
EnqueuePermit(s) ==
    /\ state[s] = "Enqueue"
    /\ ReserveOwned(ReaderWaiter(s))
    /\ Push(s, page[s])
    /\ state' = [state EXCEPT ![s] = "Reading"]
    /\ page' = [page EXCEPT ![s] = NoPage]
    /\ UNCHANGED <<offset, retry, pos, metadata, schemaTx, check, schema, fails>>
    /\ UNCHANGED <<sent, nread, closed, cancel>>

EnqueueRefused(s) ==
    /\ state[s] \in {"Enqueue", "FirstPage"}
    /\ cancel \/ closed
    /\ state' = [state EXCEPT ![s] = "Terminated"]
    /\ page' = [page EXCEPT ![s] = NoPage]
    /\ Leave(ReaderWaiter(s))
    /\ UNCHANGED <<offset, retry, pos, metadata, schemaTx, check, schema, fails>>
    /\ UNCHANGED <<queueVars, sent, nread, permits, closed, cancel>>

\* Mutant: the stream is read from row 0 although the inline page has its start.
FirstPagePermitFromZero(s, hasMore) ==
    /\ state[s] = "FirstPage"
    /\ ReserveOwned(ReaderWaiter(s))
    /\ Push(s, page[s])
    /\ state' = [state EXCEPT ![s] = IF hasMore THEN "Connecting" ELSE "Terminated"]
    /\ page' = [page EXCEPT ![s] = NoPage]
    /\ offset' = [offset EXCEPT ![s] = 0]
    /\ UNCHANGED <<retry, pos, metadata, schemaTx, check, schema, fails>>
    /\ UNCHANGED <<sent, nread, closed, cancel>>

\* read_query_stream: the inline page is enqueued, then the reader connects at
\* the row after it, or the task is over if there are no more rows.
FirstPagePermit(s, hasMore) ==
    /\ state[s] = "FirstPage"
    /\ ReserveOwned(ReaderWaiter(s))
    /\ Push(s, page[s])
    /\ state' = [state EXCEPT ![s] = IF hasMore THEN "Connecting" ELSE "Terminated"]
    /\ page' = [page EXCEPT ![s] = NoPage]
    /\ UNCHANGED <<offset, retry, pos, metadata, schemaTx, check, schema, fails>>
    /\ UNCHANGED <<sent, nread, closed, cancel>>

\* What the service decides.
ServiceStep(s) ==
    \/ ConnectOk(s) \/ ConnectErr(s)
    \/ Heartbeat(s) \/ SchemaError(s) \/ EmptyMessage(s)
    \/ PageError(s) \/ SwitchPage(s) \/ Page(s)
    \/ StreamErr(s) \/ StreamEof(s)

\* What the task does by itself.
LocalStep(s) ==
    \/ Cancelled(s) \/ BackoffElapsed(s)
    \/ EnqueuePermit(s) \/ EnqueueRefused(s) \/ SendFatal(s)

ReaderTypeOK ==
    /\ state \in [Streams -> ReaderStates]
    /\ offset \in [Streams -> Int]
    /\ retry \in [Streams -> Nat \cup {NoRetry}]
    /\ page \in [Streams -> [lo : Int, hi : Int, bad : BOOLEAN]]
    /\ pos \in [Streams -> Nat]
    /\ metadata \in [Streams -> BOOLEAN]
    /\ schemaTx \in [Streams -> BOOLEAN]
    /\ check \in [Streams -> BOOLEAN]
    /\ schema \in {"known", "pending", "ok", "empty", "err"}
    /\ fails \in [Streams -> Nat]
=============================================================================
