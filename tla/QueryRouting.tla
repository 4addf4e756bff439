---------------------------- MODULE QueryRouting ----------------------------
(***************************************************************************)
(* query.rs: Query::read.  One jobs.query call, whose response decides     *)
(* where schema and rows come from: the page inside the response, the      *)
(* job's stream streams/_default, the destination table of the job, or     *)
(* nowhere because the result is empty; the jobs.get calls that look at    *)
(* the job; the read sessions that are created; and the retries of these   *)
(* requests.  The reads themselves are JobStreamRead, InlinePageRead and   *)
(* TableRead; the Python calls around this module are ClientCalls.         *)
(*                                                                         *)
(* What the query really is (its statement type, its number of rows, how   *)
(* its job ends) is in `query`; the client only sees responses.            *)
(***************************************************************************)
EXTENDS Integers

CONSTANTS
    MaxRows,        \* bound: rows of a query
    ThresholdBytes, \* MULTI_STREAM_THRESHOLD_BYTES
    MedianRowSize,  \* MEDIAN_ROW_SIZE_BYTES
    MaxTries,       \* retries of a request before the time limit of its policy
    Parallelism     \* available_parallelism()

ASSUME RoutingAssumption ==
    /\ {MaxRows, MaxTries} \subseteq Nat
    /\ {ThresholdBytes, MedianRowSize, Parallelism} \subseteq Nat \ {0}

VARIABLES
    query,      \* the truth: type, rows, fails
    ordered,    \* maintain_order
    job,        \* the job behind the query: "running", "done" or "failed"
    response,   \* the QueryResponse
    pc,         \* where the call is: what it awaits
    fetched,    \* the Job that jobs.get returned
    result,     \* what the call returned
    options,    \* ReadOptions of the read session to create
    seen,       \* service: the request ids it has run the query for
    tries,      \* retries of the request so far
    blame       \* what the last failed request failed of

rpcVars == <<seen, tries, blame>>

routingVars == <<query, ordered, job, response, pc, fetched, result, options, rpcVars>>

\* MULTI_STREAM_THRESHOLD_ROWS
Threshold == ThresholdBytes \div MedianRowSize

Types == {"SELECT", "INSERT", "CREATE", "SCRIPT"}

None == -1

\* Only SELECT statements and scripts have rows.
Queries == {q \in [type : Types, rows : 0 .. MaxRows, fails : BOOLEAN] :
              q.rows > 0 => q.type \in {"SELECT", "SCRIPT"}}

\* The fields of a job reference that are there; a response may carry the
\* location outside of it.
References == {{"project", "job", "location"}, {"project", "job", "response_location"},
               {"project", "job"}, {"project", "location"}, {}}

Responses == [complete : BOOLEAN,
              schema : {"arrow", "none", "other"},
              batch : {"arrow", "none", "other"},
              page : {None} \cup 0 .. MaxRows,
              total : {None} \cup 0 .. MaxRows,
              token : BOOLEAN,
              type : Types \cup {""},
              ref : References]

NoResponse == [complete |-> FALSE, schema |-> "none", batch |-> "none", page |-> 0,
               total |-> None, token |-> FALSE, type |-> "", ref |-> {}]

\* jobs.get: whether the job has failed, its statement type and DDL operation if
\* they are given, and its destination table, which may lack one of its parts.
Jobs == [failed : BOOLEAN, type : Types \cup {""}, ddl : BOOLEAN, table : {"none", "partial", "whole"}]

NoJob == [failed |-> FALSE, type |-> "", ddl |-> FALSE, table |-> "none"]

\* The order and stream count of a ReadOptions.
NoOptions == [ordered |-> FALSE, limit |-> None]

\* A result: the page it starts with, the row from which streams/_default goes
\* on (None: it is not read), whether that stream may be left for the
\* destination table, whether a table is read instead, and the number of
\* streams that are read.
Ok(page, from, switch, schema) ==
    [kind |-> "ok", page |-> page, from |-> from, switch |-> switch, table |-> FALSE,
     streams |-> IF from = None THEN 0 ELSE 1, schema |-> schema, py |-> FALSE]

Empty(schema) == Ok(0, None, FALSE, schema)

OkTable(n) ==
    [kind |-> "ok", page |-> 0, from |-> None, switch |-> FALSE, table |-> TRUE,
     streams |-> n, schema |-> "typed", py |-> FALSE]

\* An error of a kind; py says whether a Python exception is among its causes.
\* "Other" stands for the kinds of which the routing knows nothing more: Arrow,
\* Other, and protocol errors of a stream.
Err(e, py) ==
    [kind |-> e, page |-> 0, from |-> None, switch |-> FALSE, table |-> FALSE,
     streams |-> 0, schema |-> "none", py |-> py]

Pending == Err("pending", FALSE)

Errors == {"JobFailed", "Protocol", "Grpc", "Other"}

Results == [kind : {"pending", "ok"} \cup Errors, page : 0 .. MaxRows, from : {None} \cup 0 .. MaxRows,
            switch : BOOLEAN, table : BOOLEAN, streams : Nat,
            schema : {"none", "typed", "columnless"}, py : BOOLEAN]

\* A request fails before it is sent because the credentials provider raised, on
\* the way, or with a status of the service.
Failings == {"provider", "transport", "status"}

NoQuery == [type |-> "SELECT", rows |-> 0, fails |-> FALSE]

\* The state of a call that has not begun.
NoCall ==
    /\ query = NoQuery
    /\ ordered = FALSE
    /\ job = "running"
    /\ response = NoResponse
    /\ pc = "idle"
    /\ fetched = NoJob
    /\ result = Pending
    /\ options = NoOptions
    /\ seen = {}
    /\ tries = 0
    /\ blame = "none"

-----------------------------------------------------------------------------
(* The service *)

JobEnds ==
    /\ seen # {}
    /\ job = "running"
    /\ job' = IF query.fails THEN "failed" ELSE "done"
    /\ UNCHANGED <<query, ordered, response, pc, fetched, result, options, rpcVars>>

\* What jobs.query may answer.  A complete response is about a job that has
\* succeeded, gives the right total if it gives one, and says by total or page
\* token when there are rows beyond its page.  Fields may be missing, or be of
\* a kind the client did not ask for.
Answers ==
    LET Incomplete == [complete : {FALSE}, schema : {"none"}, batch : {"none"}, page : {0}, total : {None},
                       token : {FALSE}, type : {"", query.type}, ref : References]
        Complete == [complete : {TRUE}, schema : {"arrow", "none", "other"}, batch : {"arrow", "none", "other"},
                     page : {None} \cup 0 .. query.rows, total : {None, query.rows}, token : BOOLEAN,
                     type : {"", query.type}, ref : References]
    IN  Incomplete \cup {r \in Complete :
                           job = "done" /\ (r.page < query.rows => r.total = query.rows \/ r.token)}

\* What jobs.get may answer about the job.  A SELECT has its type or its
\* destination table in the answer, the parent job of a script has no table.
MayGet(j) ==
    /\ j.failed = (job = "failed")
    /\ j.type \in {"", query.type}
    /\ j.ddl => query.type = "CREATE"
    /\ query.type = "SCRIPT" => j.table = "none"
    /\ query.type = "SELECT" => j.type = "SELECT" \/ j.table # "none"

-----------------------------------------------------------------------------

\* Query::new and its setters: of the options only the order decides where the
\* rows come from.
WithOptions == ordered' \in BOOLEAN

Return(res) == pc' = "done" /\ result' = res

Await(where) == pc' = where /\ UNCHANGED result

Local == UNCHANGED <<query, ordered, job, response, fetched, options, rpcVars>>

\* extract_required_job_reference
HasReference ==
    /\ {"project", "job"} \subseteq response.ref
    /\ response.ref \cap {"location", "response_location"} # {}

RequireReference(A) == IF HasReference THEN A ELSE Return(Err("Protocol", FALSE))

-----------------------------------------------------------------------------
(* Requests are retried by the SDK.  All of them are marked idempotent, so *)
(* that a lost answer is retried too, until the time limit of the policy.  *)

\* Mutant: the policy has no time limit.
RetryWithoutLimit(where) ==
    /\ pc' = where
    /\ tries' = IF tries < MaxTries THEN tries + 1 ELSE tries
    /\ UNCHANGED <<result, blame>>

Retry(where) ==
    /\ tries < MaxTries
    /\ tries' = tries + 1
    /\ pc' = where
    /\ UNCHANGED <<result, blame>>

GiveUp(why, err) ==
    /\ Return(err)
    /\ blame' = why
    /\ tries' = 0

\* Mutant: every attempt has an id of its own.
RequestIdPerTry == tries

\* The id is made once, with the request.
RequestId == 0

\* Mutant: every error of jobs.query is the failure of a job.
MapEveryQueryError(why) == Err("JobFailed", FALSE)

\* map_query_error: an error with a status is the failure of the query.
MapQueryError(why) ==
    IF why = "status" THEN Err("JobFailed", FALSE) ELSE Err("Grpc", why = "provider")

RpcError(why) == Err("Grpc", why = "provider")

\* jobs.query reaches the service, which runs the query unless it knows the id.
Deliver ==
    /\ pc = "send"
    /\ seen' = seen \cup {RequestId}
    /\ Await("sent")
    /\ UNCHANGED <<query, ordered, job, response, fetched, options, tries, blame>>

\* It does not reach the service, or its answer is lost or an error.
SendErr ==
    /\ \E why \in Failings :
          /\ pc = IF why = "provider" THEN "send" ELSE "sent"
          /\ Retry("send") \/ GiveUp(why, MapQueryError(why))
    /\ UNCHANGED <<query, ordered, job, response, fetched, options, seen>>

\* The answer arrives.
Send ==
    /\ pc = "sent"
    /\ response' \in Answers
    /\ Await("route")
    /\ tries' = 0
    /\ UNCHANGED <<query, ordered, job, fetched, options, seen, blame>>

-----------------------------------------------------------------------------
(* Query::read, once there is a response *)

\* Mutant: scripts too.
CanReadDestinationTableScript == ~ordered

CanReadDestinationTable == ~ordered /\ response.type # "SCRIPT"

\* Not Arrow, a negative row count, or rows announced without their bytes.
Unreadable ==
    \/ response.schema = "other"
    \/ response.page < 0
    \/ response.batch = "other"
    \/ response.batch = "none" /\ response.page # 0

IsLarge == CanReadDestinationTable /\ response.total # None /\ response.total >= Threshold

\* Mutant: the page token is ignored.
HasRemainingRowsByTotal == response.total # None /\ response.total > response.page

HasRemainingRows == (response.total # None /\ response.total > response.page) \/ response.token

HasPage == response.batch = "arrow"

RouteIncomplete ==
    /\ ~response.complete
    /\ RequireReference(Await("stream"))

RouteUnreadable ==
    /\ response.complete /\ Unreadable
    /\ Return(Err("Protocol", FALSE))

Readable == response.complete /\ ~Unreadable

RouteTable ==
    /\ Readable /\ IsLarge
    /\ RequireReference(Await("get_table"))

RouteStream ==
    /\ Readable /\ ~IsLarge
    /\ HasRemainingRows /\ ~HasPage
    /\ RequireReference(Await("stream"))

\* Mutant: a statement of unknown type is taken for one without columns.
RouteEmptyUntyped ==
    /\ Readable /\ ~IsLarge
    /\ ~HasRemainingRows /\ ~HasPage
    /\ IF response.schema = "arrow"
       THEN Return(Empty("typed"))
       ELSE RequireReference(IF response.type # "SELECT"
                             THEN Return(Empty("columnless"))
                             ELSE Await("get_empty"))

\* No rows here and none elsewhere.
RouteEmpty ==
    /\ Readable /\ ~IsLarge
    /\ ~HasRemainingRows /\ ~HasPage
    /\ IF response.schema = "arrow"
       THEN Return(Empty("typed"))
       ELSE RequireReference(IF response.type \notin {"", "SELECT"}
                             THEN Return(Empty("columnless"))
                             ELSE Await("get_empty"))

RouteInline ==
    /\ Readable /\ ~IsLarge
    /\ HasPage
    /\ IF (HasRemainingRows /\ ~HasReference) \/ response.schema = "none"
       THEN Return(Err("Protocol", FALSE))
       ELSE Return(Ok(response.page, IF HasRemainingRows THEN response.page ELSE None,
                      FALSE, "typed"))

Route ==
    /\ pc = "route"
    /\ \/ RouteIncomplete \/ RouteUnreadable \/ RouteTable
       \/ RouteStream \/ RouteEmpty \/ RouteInline
    /\ Local

\* An inline schema, or the page bytes, do not parse.
ParseErr ==
    /\ pc = "route"
    /\ Readable /\ ~IsLarge /\ response.schema = "arrow"
    /\ HasRemainingRows => HasReference
    /\ HasPage \/ ~HasRemainingRows
    /\ Return(Err("Other", FALSE))
    /\ Local

-----------------------------------------------------------------------------
(* read_stream_with_first_page_check returns *)

\* The schema was in the response, or the stream has sent it.
StreamSchema ==
    /\ pc = "stream"
    /\ \/ response.schema = "arrow"
       \/ job = "done" /\ query.type \in {"SELECT", "SCRIPT"}
    /\ Return(Ok(0, 0, CanReadDestinationTable, "typed"))
    /\ Local

\* The stream of a job without rows, or of a failed one, ends without a schema;
\* it does not end while the job is running.
StreamEnd ==
    /\ pc = "stream"
    /\ response.schema # "arrow"
    /\ job = "failed" \/ (job = "done" /\ query.rows = 0)
    /\ Await("get_empty")
    /\ Local

\* An error before the schema.  A gRPC error, which is kept, leads to a look at
\* the job if it can be named; a schema from the response is returned before
\* the stream fails.
StreamErr ==
    /\ pc = "stream"
    /\ response.schema # "arrow"
    /\ \/ \E why \in Failings : blame' = why /\ Await("get_error")
       \/ Return(Err("Other", FALSE)) /\ UNCHANGED blame
    /\ UNCHANGED <<query, ordered, job, response, fetched, options, seen, tries>>

\* The schema of the response does not parse.
StreamSchemaErr ==
    /\ pc = "stream"
    /\ response.schema = "arrow"
    /\ Return(Err("Other", FALSE))
    /\ Local

-----------------------------------------------------------------------------
(* jobs.get *)

Get(where) ==
    /\ pc = where
    /\ fetched' \in Jobs
    /\ MayGet(fetched')
    /\ UNCHANGED <<query, ordered, job, response, rpcVars>>

\* extract_destination_table
DestinationTable == fetched'.table

\* create_read_session is next, with these ReadOptions.
AwaitSession(where, isOrdered, limit) ==
    /\ Await(where)
    /\ options' = [ordered |-> isOrdered, limit |-> limit]

ReturnOnly(res) == Return(res) /\ UNCHANGED options

\* The destination table is resolved; the status of the job is not looked at.
GetTable ==
    /\ Get("get_table")
    /\ IF DestinationTable = "whole"
       THEN AwaitSession("table", FALSE, None)
       ELSE ReturnOnly(Err("Protocol", FALSE))

StatementType == IF fetched'.type # "" THEN fetched'.type ELSE response.type

\* Mutant: a job that jobs.get can show is taken for a successful one.
JobErrorIgnored == FALSE

\* check_job_status_error
JobError == fetched'.failed

\* resolve_empty_job_stream
GetEmpty ==
    /\ Get("get_empty")
    /\ IF JobError THEN ReturnOnly(Err("JobFailed", FALSE))
       ELSE IF fetched'.ddl \/ StatementType \notin {"", "SELECT"} THEN ReturnOnly(Empty("columnless"))
       ELSE IF DestinationTable = "whole" THEN AwaitSession("session", TRUE, 1)
       ELSE ReturnOnly(IF DestinationTable = "partial" \/ StatementType = "SELECT"
                       THEN Err("Protocol", FALSE) ELSE Empty("columnless"))

\* resolve_job_error: the failure of the job, or the original error.
GetError ==
    /\ Get("get_error")
    /\ ReturnOnly(IF JobError THEN Err("JobFailed", FALSE) ELSE RpcError(blame))

\* jobs.get itself fails; resolve_job_error keeps the original error.
GetErr ==
    /\ \/ /\ pc \in {"get_table", "get_empty"}
          /\ \E why \in Failings : GiveUp(why, RpcError(why))
       \/ /\ pc = "get_error"
          /\ Return(RpcError(blame))
          /\ UNCHANGED <<tries, blame>>
    /\ UNCHANGED <<query, ordered, job, response, fetched, options, seen>>

-----------------------------------------------------------------------------
(* create_read_session: for the rows of a table, or only for its schema *)

\* Mutant: the order is forgotten.
MaxStreamCountAnyOrder(opts) == IF opts.limit = None THEN Parallelism ELSE opts.limit

\* build_request
MaxStreamCount(opts) ==
    IF opts.ordered THEN 1 ELSE IF opts.limit = None THEN Parallelism ELSE opts.limit

\* The number of streams that the service may make; 0 leaves it to the service.
SessionStreams(max) == IF max = 0 THEN 0 .. Parallelism + 1 ELSE 0 .. max

SessionOk ==
    /\ \/ /\ pc = "table"
          /\ \E n \in SessionStreams(MaxStreamCount(options)) : Return(OkTable(n))
       \/ pc = "session" /\ Return(Empty("typed"))
    /\ tries' = 0
    /\ UNCHANGED <<query, ordered, job, response, fetched, options, seen, blame>>

\* The session has no Arrow schema, or one that does not parse.
SessionUnreadable ==
    /\ pc \in {"table", "session"}
    /\ \E e \in {"Protocol", "Other"} : Return(Err(e, FALSE))
    /\ Local

SessionErr ==
    /\ pc \in {"table", "session"}
    /\ \E why \in Failings : Retry(pc) \/ GiveUp(why, RpcError(why))
    /\ UNCHANGED <<query, ordered, job, response, fetched, options, seen>>

RoutingNext ==
    \/ Deliver \/ Send \/ SendErr
    \/ Route \/ ParseErr
    \/ StreamSchema \/ StreamEnd \/ StreamErr \/ StreamSchemaErr
    \/ GetTable \/ GetEmpty \/ GetError \/ GetErr
    \/ SessionOk \/ SessionUnreadable \/ SessionErr

-----------------------------------------------------------------------------

\* Every variable has its type, and no result starts with a negative page.
RoutingTypeOK ==
    /\ query \in Queries
    /\ ordered \in BOOLEAN
    /\ job \in {"running", "done", "failed"}
    /\ response \in Responses
    /\ pc \in {"idle", "send", "sent", "dry", "route", "stream", "get_table", "get_empty", "get_error",
               "table", "session", "done"}
    /\ fetched \in Jobs
    /\ result \in Results
    /\ options \in [ordered : BOOLEAN, limit : Int]
    /\ seen \subseteq 0 .. MaxTries
    /\ tries \in 0 .. MaxTries
    /\ blame \in Failings \cup {"none"}

\* How often a result brings row i of the query.
Copies(i) ==
      (IF i < result.page THEN 1 ELSE 0)
    + (IF result.from # None /\ i >= result.from THEN 1 ELSE 0)
    + (IF result.table THEN 1 ELSE 0)

\* Whatever the response leaves out, the sources that read() chooses bring
\* every row of the query exactly once; in particular an empty result means
\* that the query has no rows.
ResultCoversRows == result.kind = "ok" => \A i \in 0 .. query.rows - 1 : Copies(i) = 1

\* The failure of a job never looks like a result, and once jobs.get has shown
\* it, it is what the caller is told.
FailedJobIsReported ==
    /\ result.kind = "ok" => job # "failed"
    /\ pc = "done" /\ fetched.failed => result.kind = "JobFailed"

\* An ordered read is a read of one stream, whatever number of streams the
\* caller asked for and however many the service would give, and it is never
\* left for the parallel streams of a table.
OrderedReadHasOneStream == ordered /\ result.kind = "ok" => result.streams <= 1 /\ ~result.switch

\* A SELECT always has the columns of its result, even if it has no rows and
\* the response does not say that it is a SELECT.
SelectHasSchema == result.kind = "ok" /\ query.type = "SELECT" => result.schema = "typed"

\* A script that is known as one is never sent to a destination table it does
\* not have: a readable response with a job reference is not refused.
ScriptIsServed ==
    /\ response.type = "SCRIPT"
    /\ HasReference
    /\ response.complete => ~Unreadable /\ (HasPage => response.schema = "arrow")
    => result.kind # "Protocol" /\ ~result.switch
=============================================================================
