---------------------------- MODULE InlinePageRead ----------------------------
(***************************************************************************)
(* lib.rs: spawn_query_stream with bigquery_read_stream.rs:                *)
(* read_query_stream.  The first page of a query result came with the      *)
(* query's response; the task puts it into the decode queue and reads the  *)
(* rest, if there is one, from the job's stream at offset page_row_count.  *)
(* The consumer is the Python iterator of StreamExport.                    *)
(***************************************************************************)
EXTENDS StreamExport

CONSTANT Default    \* the job's streams/_default

ASSUME InlineAssumption == Streams = {Default} /\ Rows[Default] > 0

VARIABLE hasMore    \* read_rows is Some: rows remain after the inline page

inlineVars == <<vars, exportVars, hasMore>>

\* The inline page has n rows and says n + k; without remaining rows it is the
\* whole result.
Init ==
    /\ \E n \in 1 .. Rows[Default], k \in Skew :
          /\ n + k >= 0
          /\ hasMore \in BOOLEAN
          /\ ~hasMore => n = Rows[Default]
          /\ page = [s \in Streams |-> [lo |-> 0, hi |-> n, bad |-> k # 0]]
          /\ offset = [s \in Streams |-> n + k]
    /\ state = [s \in Streams |-> "FirstPage"]
    /\ waiters = <<ReaderWaiter(Default)>>
    /\ retry = [s \in Streams |-> 0]
    /\ pos = [s \in Streams |-> 0]
    /\ metadata = [s \in Streams |-> TRUE]
    /\ schemaTx = [s \in Streams |-> FALSE]
    /\ check = [s \in Streams |-> FALSE]
    /\ schema = "known"
    /\ fails = [s \in Streams |-> 0]
    /\ sent = <<>> /\ nread = 0 /\ permits = Capacity /\ closed = FALSE /\ cancel = FALSE
    /\ QueueInit
    /\ ReceiverInit
    /\ ExportInit

SendersGone == jobs = {} /\ state[Default] \in Stopped

Reader ==
    \/ FirstPagePermit(Default, hasMore) /\ UNCHANGED outcome
    \/ ReadRows(Default) \/ Advance(Default)

Decoder == Drain(Default) \/ \E j \in jobs : Decode(j)

Background == Reader \/ TaskAborted(Default) \/ Decoder

Python ==
    \/ ArrowCStream \/ ArrowCStreamAgain \/ ExporterDropped \/ Release
    \/ Signal
    \/ NextCalled \/ NextAtEnd \/ Pull(SendersGone)

Finished == outcome # "open" /\ SendersGone /\ ~running[Default]

Next ==
    \/ Background /\ UNCHANGED <<exportVars, hasMore>>
    \/ Python /\ UNCHANGED hasMore
    \/ Finished /\ UNCHANGED inlineVars

Spec == Init /\ [][Next]_inlineVars

\* A call of next() goes on by itself, aborted tasks are dropped and the decode
\* pool works.  Nothing is assumed of the service, of the reader's progress or of
\* Polars: ReadRows may hang for ever.
Fairness ==
    /\ WF_inlineVars(Pull(SendersGone) /\ UNCHANGED hasMore)
    /\ WF_inlineVars(TaskAborted(Default) /\ UNCHANGED <<exportVars, hasMore>>)
    /\ WF_inlineVars(Drain(Default) /\ UNCHANGED <<exportVars, hasMore>>)
    /\ WF_inlineVars(\E j \in jobs : Decode(j) /\ UNCHANGED <<exportVars, hasMore>>)

FairSpec == Spec /\ Fairness

\* Every variable of a read with an inline first page has its type.
TypeOK ==
    /\ ChannelTypeOK
    /\ QueueTypeOK
    /\ ReaderTypeOK
    /\ ReceiverTypeOK
    /\ ExportTypeOK
    /\ hasMore \in BOOLEAN

\* When next() has returned None without an error, Polars has every row of the
\* result exactly once: the inline page and the stream meet without a gap, and
\* the timeouts of the pulls have lost nothing.
PythonReadIsComplete ==
    answer = "end" =>
        \A r \in 0 .. Rows[Default] - 1 : Copies(Default, r, pulled) = 1

Delivery == INSTANCE BatchDelivery
                WITH got <- Given, status <- Seen, InOrder <- MaintainOrder, Sources <- {Streams}

\* Python sees a delivery of batches one by one, of which the inline page is the
\* beginning: nothing is taken back and nothing arrives after its end.
ImplementsDelivery == Delivery!Spec

\* Once Python has let go of the read (an unused exporter, a released stream, an
\* interrupt, an error, the end), its task and its decode work end.
LetGoStopsEverything ==
    source = "dropped" \/ (source = "taken" /\ ~rx) ~> SendersGone /\ ~running[Default]
=============================================================================
