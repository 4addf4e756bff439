----------------------------- MODULE StreamExport -----------------------------
(***************************************************************************)
(* py-arrow-bigquery/src/stream.rs: what Python sees of a read.            *)
(* ArrowStreamExporter holds the receiver until __arrow_c_stream__ moves   *)
(* it into a ReceiverIterator; Polars pulls batches by calling next().     *)
(* next() loops: look for a signal with the GIL held, then wait for the    *)
(* receiver without the GIL, for 100 ms at most.  `pull` is where the call *)
(* in progress is.  A signal is only seen on Python's main thread; Polars  *)
(* may pull on any thread.                                                 *)
(***************************************************************************)
EXTENDS Receiver

VARIABLES
    source,     \* the Mutex<Option<StreamSource>>: "receiver", or what became of it
    rx,         \* does the iterator still own the receiver?
    pull,       \* "idle", "check" or "recv"
    pulled,     \* the log items that next() has returned as batches
    answer,     \* what the pulls came to: "open" until next() returned something else
    signal,     \* "none", "pending", "raised"
    mainThread  \* is next() called on the main thread?

exportVars == <<source, rx, pull, pulled, answer, signal, mainThread>>

ExportInit ==
    /\ source = "receiver"
    /\ rx = FALSE
    /\ pull = "idle"
    /\ pulled = {}
    /\ answer = "open"
    /\ signal = "none"
    /\ mainThread \in BOOLEAN

\* __arrow_c_stream__: the source is taken out under the mutex.
ArrowCStream ==
    /\ source = "receiver"
    /\ source' = "taken"
    /\ rx' = TRUE
    /\ UNCHANGED <<vars, pull, pulled, answer, signal, mainThread>>

\* "Stream already consumed".
ArrowCStreamAgain == source = "taken" /\ UNCHANGED <<vars, exportVars>>

\* The exporter is garbage collected before it was used.
ExporterDropped ==
    /\ source = "receiver"
    /\ source' = "dropped"
    /\ Drop
    /\ UNCHANGED <<rx, pull, pulled, answer, signal, mainThread>>

\* Polars releases the stream between two pulls.
Release ==
    /\ rx /\ pull = "idle"
    /\ rx' = FALSE
    /\ answer' = "released"
    /\ Drop
    /\ UNCHANGED <<source, pull, pulled, signal, mainThread>>

Signal ==
    /\ signal = "none"
    /\ signal' = "pending"
    /\ UNCHANGED <<vars, source, rx, pull, pulled, answer, mainThread>>

-----------------------------------------------------------------------------
(* ReceiverIterator::next *)

NextCalled ==
    /\ rx /\ pull = "idle"
    /\ pull' = "check"
    /\ UNCHANGED <<vars, source, rx, pulled, answer, signal, mainThread>>

\* rx is None: the iterator stays at its end.
NextAtEnd == source = "taken" /\ ~rx /\ UNCHANGED <<vars, exportVars>>

Interrupted == mainThread /\ signal = "pending"

\* Mutant: the receiver outlives the interrupt.
InterruptKeepsReceiver ==
    /\ pull = "check"
    /\ Interrupted
    /\ signal' = "raised"
    /\ pull' = "idle"
    /\ answer' = "interrupt"
    /\ UNCHANGED <<vars, source, rx, pulled, mainThread>>

\* check_signals fails: the receiver is dropped and next() returns an error.
Interrupt ==
    /\ pull = "check"
    /\ Interrupted
    /\ signal' = "raised"
    /\ rx' = FALSE
    /\ pull' = "idle"
    /\ answer' = "interrupt"
    /\ Drop
    /\ UNCHANGED <<source, pulled, mainThread>>

NoInterrupt ==
    /\ pull = "check"
    /\ ~Interrupted
    /\ pull' = "recv"
    /\ UNCHANGED <<vars, source, rx, pulled, answer, signal, mainThread>>

\* recv() returned a batch: next() hands it to Polars.
PullBatch ==
    /\ pull = "recv"
    /\ RecvBatch
    /\ pulled' = pulled \cup {nread + 1}
    /\ pull' = "idle"
    /\ UNCHANGED <<source, rx, answer, signal, mainThread>>

\* recv() returned an error or None: the receiver is dropped at once.
PullLast(sendersGone) ==
    /\ pull = "recv"
    /\ \/ RecvErr /\ answer' = "err"
       \/ RecvNone(sendersGone) /\ answer' = "end"
    /\ rx' = FALSE
    /\ pull' = "idle"
    /\ UNCHANGED <<source, pulled, signal, mainThread>>

\* Mutant: the wait goes on until the receiver answers.
TimeoutNever(sendersGone) == FALSE

\* 100 ms are over and recv() is still pending; dropping its future takes
\* nothing out of the channel.
Timeout(sendersGone) ==
    /\ pull = "recv"
    /\ nread = Len(sent)
    /\ ~sendersGone
    /\ pull' = "check"
    /\ UNCHANGED <<vars, source, rx, pulled, answer, signal, mainThread>>

\* What a call of next() does by itself.
Pull(sendersGone) ==
    \/ Interrupt \/ NoInterrupt
    \/ PullBatch \/ PullLast(sendersGone) \/ Timeout(sendersGone)

ExportTypeOK ==
    /\ source \in {"receiver", "taken", "dropped"}
    /\ rx \in BOOLEAN
    /\ pull \in {"idle", "check", "recv"}
    /\ pulled \subseteq 1 .. Len(sent)
    /\ answer \in {"open", "released", "interrupt", "err", "end"}
    /\ signal \in {"none", "pending", "raised"}
    /\ mainThread \in BOOLEAN

-----------------------------------------------------------------------------

\* How the read has ended for Python, if it has.
Seen == IF source = "dropped" \/ answer \in {"released", "interrupt"} THEN "dropped" ELSE answer

\* next() gives Polars nothing more after an interrupt, an error or the end,
\* and never turns one of them into another.
LastAnswerIsLast ==
    [][answer # "open" => UNCHANGED <<answer, pulled>>]_<<vars, exportVars>>

\* A pull on the main thread gives way to a signal although the service may
\* hang: next() returns, and Python can raise KeyboardInterrupt.
InterruptIsNoticed ==
    Interrupted /\ pull # "idle" ~> pull = "idle"
=============================================================================
