----------------------------- MODULE DecodeQueue -----------------------------
(***************************************************************************)
(* decode.rs: DecodeJob, OrderedDecodeQueue and DecodeQueue.               *)
(*                                                                         *)
(* A job is one page of serialized rows together with the channel permit   *)
(* that was reserved for it.  With maintain_order every stream has one     *)
(* FIFO queue that a single `drain` closure empties; otherwise each job is *)
(* a closure of its own in rayon's work-stealing pool.  The VecDeque is    *)
(* the set of jobs in phase "queued": `n`, the position in which a job was *)
(* pushed, is its place in the queue.                                      *)
(*                                                                         *)
(* Phases of a job:                                                        *)
(*   queued    in the VecDeque of an OrderedDecodeQueue                    *)
(*   spawned   handed to a worker; DecodeJob::run has not begun            *)
(*   decoding  past the first cancellation check                           *)
(*   decoded   past the second check, decode returned Ok                   *)
(*   failed    past the second check, decode returned Err                  *)
(*   failing   cancel_tx is set, the error is not in the channel yet       *)
(*   more      the first batch is sent, further batches remain             *)
(*   blocking  inside tx.blocking_send for the next one                    *)
(***************************************************************************)
EXTENDS BatchChannel

CONSTANTS
    MaintainOrder,  \* options.maintain_order
    Workers,        \* threads of the rayon pool
    MultiBatch      \* may one page decode into several record batches?

ASSUME DecodeAssumption ==
    /\ MaintainOrder \in BOOLEAN
    /\ MultiBatch \in BOOLEAN
    /\ Workers \in Nat \ {0}

VARIABLES
    jobs,       \* jobs pushed and not finished
    running,    \* OrderedQueueState.running, per stream's queue
    pushed      \* per stream, how many jobs were pushed

queueVars == <<jobs, running, pushed>>

Phases == {"queued", "spawned", "decoding", "decoded", "failed", "failing",
           "more", "blocking"}

\* bad: the response's row_count differs from the rows in its Arrow payload.
Jobs == [s : Streams, n : Nat, lo : Int, hi : Int, bad : BOOLEAN, phase : Phases]

\* The jobs that still hold the permit they were pushed with.
HoldsPermit(j) == j.phase \notin {"more", "blocking"}

\* The jobs a worker thread is executing.
OnWorker(j) == j.phase \notin {"queued", "spawned"}

\* A worker thread is free to begin a closure.
WorkerFree == Cardinality({j \in jobs : OnWorker(j)}) < Workers

JobWaiter(j) == Waiter("job", j.s, j.n)

QueueInit ==
    /\ jobs = {}
    /\ running = [s \in Streams |-> FALSE]
    /\ pushed = [s \in Streams |-> 0]

Finish(j) == jobs' = jobs \ {j}

MoveTo(j, phase) == jobs' = (jobs \ {j}) \cup {[j EXCEPT !.phase = phase]}

-----------------------------------------------------------------------------
(* DecodeQueue::push.                                                      *)

\* Mutant: a push onto an idle queue forgets to start the drain closure.
PushNoSpawn(s, p) ==
    /\ jobs' = jobs \cup {[s |-> s, n |-> pushed[s], lo |-> p.lo, hi |-> p.hi,
                           bad |-> p.bad,
                           phase |-> IF MaintainOrder THEN "queued" ELSE "spawned"]}
    /\ pushed' = [pushed EXCEPT ![s] = @ + 1]
    /\ UNCHANGED running

\* Append to the queue and, when no drain is running, spawn one; without
\* maintain_order spawn the job itself.
Push(s, p) ==
    /\ jobs' = jobs \cup {[s |-> s, n |-> pushed[s], lo |-> p.lo, hi |-> p.hi,
                           bad |-> p.bad,
                           phase |-> IF MaintainOrder THEN "queued" ELSE "spawned"]}
    /\ pushed' = [pushed EXCEPT ![s] = @ + 1]
    /\ running' = [running EXCEPT ![s] = @ \/ MaintainOrder]

-----------------------------------------------------------------------------
(* OrderedDecodeQueue::drain: pop a job and run it to its end, or find the *)
(* queue empty and clear `running` under the same lock.                    *)

Queued(s) == {j \in jobs : j.s = s /\ j.phase = "queued"}

\* The drain closure of stream s is between two jobs.
DrainReady(s) == running[s] /\ {j \in jobs : j.s = s} = Queued(s)

\* Mutant: the queue is popped from the back.
DrainPopBack(s) ==
    /\ DrainReady(s)
    /\ \E j \in Queued(s) :
          /\ \A k \in Queued(s) : k.n <= j.n
          /\ MoveTo(j, "spawned")
    /\ UNCHANGED <<running, pushed, chanVars>>

\* The front of the queue is next.
DrainPop(s) ==
    /\ DrainReady(s)
    /\ \E j \in Queued(s) :
          /\ \A k \in Queued(s) : j.n <= k.n
          /\ MoveTo(j, "spawned")
    /\ UNCHANGED <<running, pushed, chanVars>>

DrainStop(s) ==
    /\ DrainReady(s)
    /\ Queued(s) = {}
    /\ running' = [running EXCEPT ![s] = FALSE]
    /\ UNCHANGED <<jobs, pushed, chanVars>>

-----------------------------------------------------------------------------
(* DecodeJob::run.                                                         *)

\* First check: cancelled while queued, the permit is dropped undecoded.
JobSkip(j) ==
    /\ j.phase = "spawned"
    /\ cancel
    /\ WorkerFree
    /\ Finish(j)
    /\ DropPermit
    /\ UNCHANGED <<running, pushed, nread, closed, cancel>>

JobStart(j) ==
    /\ j.phase = "spawned"
    /\ ~cancel
    /\ WorkerFree
    /\ MoveTo(j, "decoding")
    /\ UNCHANGED <<running, pushed, chanVars>>

\* Second check: cancelled while decoding, whatever the result was.
JobAbandon(j) ==
    /\ j.phase = "decoding"
    /\ cancel
    /\ Finish(j)
    /\ DropPermit
    /\ UNCHANGED <<running, pushed, nread, closed, cancel>>

\* Second check passed.  A page with the wrong row count always fails to
\* decode, any other page may (a corrupt Arrow payload).
JobDecode(j) ==
    /\ j.phase = "decoding"
    /\ ~cancel
    /\ (~j.bad /\ MoveTo(j, "decoded")) \/ MoveTo(j, "failed")
    /\ UNCHANGED <<running, pushed, chanVars>>

\* Err: cancel_tx.send_replace(true) ...
JobFail(j) ==
    /\ j.phase = "failed"
    /\ cancel' = TRUE
    /\ MoveTo(j, "failing")
    /\ UNCHANGED <<running, pushed, sent, nread, permits, waiters, closed>>

\* Mutant: the failing job drops its permit instead of sending the error.
JobDropErr(j) ==
    /\ j.phase = "failing"
    /\ DropPermit
    /\ Finish(j)
    /\ UNCHANGED <<running, pushed, nread, closed, cancel>>

\* ... then permit.send(Err(err)).
JobSendErr(j) ==
    /\ j.phase = "failing"
    /\ PermitSend(Err(j.s))
    /\ Finish(j)
    /\ UNCHANGED <<running, pushed, nread, closed, cancel>>

\* The batch of rows j.lo .. m-1 is out: the job ends or has m .. j.hi-1 left.
AfterBatch(j, m) ==
    IF m = j.hi THEN Finish(j)
    ELSE jobs' = (jobs \ {j}) \cup {[j EXCEPT !.lo = m, !.phase = "more"]}

\* Where the record batch that begins at row j.lo may end.
BatchEnds(j) == IF MultiBatch THEN j.lo + 1 .. j.hi ELSE {j.hi}

\* Ok: permit.send(Ok(first)).  A cancel that lands after the second check
\* does not stop it.
JobSendFirst(j) ==
    /\ j.phase = "decoded"
    /\ \E m \in BatchEnds(j) :
          /\ PermitSend(Batch(j.s, j.lo, m))
          /\ AfterBatch(j, m)
    /\ UNCHANGED <<running, pushed, nread, closed, cancel>>

\* for batch in iter: give up when cancelled or closed ...
JobStopMore(j) ==
    /\ j.phase = "more"
    /\ cancel \/ closed
    /\ Finish(j)
    /\ UNCHANGED <<running, pushed, chanVars>>

\* ... else tx.blocking_send(Ok(batch)), which waits for a slot and does not
\* look at the cancellation flag.
JobContinue(j) ==
    /\ j.phase = "more"
    /\ ~cancel /\ ~closed
    /\ MoveTo(j, "blocking")
    /\ Wait(JobWaiter(j))
    /\ UNCHANGED <<running, pushed, sent, nread, permits, closed, cancel>>

\* Mutant: the further batches of a page are sent without a slot of their own.
JobSendMoreUnreserved(j) ==
    /\ j.phase = "blocking"
    /\ \E m \in BatchEnds(j) :
          /\ sent' = Append(sent, Batch(j.s, j.lo, m))
          /\ AfterBatch(j, m)
    /\ Leave(JobWaiter(j))
    /\ UNCHANGED <<running, pushed, nread, permits, closed, cancel>>

\* blocking_send returns Ok(()).
JobSendMore(j) ==
    /\ j.phase = "blocking"
    /\ \E m \in BatchEnds(j) :
          /\ Send(JobWaiter(j), Batch(j.s, j.lo, m))
          /\ AfterBatch(j, m)
    /\ UNCHANGED <<running, pushed, nread, closed, cancel>>

JobSendClosed(j) ==
    /\ j.phase = "blocking"
    /\ closed
    /\ Finish(j)
    /\ Leave(JobWaiter(j))
    /\ UNCHANGED <<running, pushed, sent, nread, permits, closed, cancel>>

JobStep(j) ==
    \/ JobSkip(j) \/ JobStart(j) \/ JobAbandon(j) \/ JobDecode(j)
    \/ JobFail(j) \/ JobSendErr(j)
    \/ JobSendFirst(j) \/ JobStopMore(j) \/ JobContinue(j)
    \/ JobSendMore(j) \/ JobSendClosed(j)

DrainStep(s) == DrainPop(s) \/ DrainStop(s)

QueueTypeOK ==
    /\ jobs \subseteq Jobs
    /\ running \in [Streams -> BOOLEAN]
    /\ pushed \in [Streams -> Nat]
=============================================================================
