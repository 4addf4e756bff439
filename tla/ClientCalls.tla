----------------------------- MODULE ClientCalls -----------------------------
(***************************************************************************)
(* py-arrow-bigquery/src/lib.rs: the calls that Python makes.  A program   *)
(* creates a Client and then parses table identifiers, reads tables, and   *)
(* runs or dry-runs queries, one call after the other on its thread.  Each *)
(* call returns an exporter (what it does is StreamExport) or raises.      *)
(***************************************************************************)
EXTENDS QueryRouting, TableIds, ErrorReport

CONSTANTS
    Texts,      \* the texts that are parsed as table identifiers
    Ids,        \* the identifiers that are made from their parts
    Limits      \* the values given as max_stream_count

ASSUME CallAssumption ==
    /\ Texts \subseteq Seq(Chars)
    /\ Ids \subseteq [project : Seq(Chars), dataset : Seq(Chars), table : Seq(Chars)]
    /\ Limits \subseteq Int \ {None}

VARIABLES
    stage,      \* the call that runs, or "new", "idle", "failed" or "returned"
    client,     \* the Client
    arg,        \* what a table was named by: a text, an object, or its parts
    table,      \* the BigQueryTableId, or the exception that was raised
    error,      \* the error of the call
    why,        \* what it failed of: blame, "job", or "client"
    said,       \* the messages that came with the error
    exported,   \* what the exporter holds: the receiver, or the columns of a batch
    raised      \* the Python exception

callVars == <<arg, table, error, why, said, exported, raised>>

vars == <<routingVars, stage, client, callVars>>

NoClient == [quota |-> "none", provider |-> FALSE]

NoArg == [kind |-> "none", text |-> <<>>, object |-> [a \in Attributes |-> "missing"]]

NotParsed == [id |-> Invalid, raises |-> "none"]

NoError == Err("pending", FALSE)

\* The values of callVars between calls.
Cleared ==
    /\ arg' = NoArg /\ table' = NotParsed
    /\ error' = NoError /\ why' = "none" /\ said' = {}
    /\ exported' = {} /\ raised' = NoException

Init ==
    /\ NoCall
    /\ stage = "new" /\ client = NoClient
    /\ arg = NoArg /\ table = NotParsed
    /\ error = NoError /\ why = "none" /\ said = {}
    /\ exported = {} /\ raised = NoException

-----------------------------------------------------------------------------
(* Client::new, ServiceConfigBuilder *)

\* Fail(kind, w): the call has failed in Rust, which to_py_err reports.
Fail(err, w) ==
    /\ stage' = "failed"
    /\ error' = err
    /\ why' = w
    /\ UNCHANGED <<arg, table, said, exported, raised>>

\* An exception that is raised without an error of the library.
Raise(type) ==
    /\ stage' = "returned"
    /\ raised' = [NoException EXCEPT !.type = type]
    /\ UNCHANGED <<arg, table, error, why, said, exported>>

\* trim().is_empty()
IsBlankQuota(quota) == quota \in {"empty", "blank"}

\* Client::from_parts, of what matters here.
FromParts(quota, provider) == [quota |-> quota, provider |-> provider]

NewClient ==
    /\ stage = "new"
    /\ \E quota \in {"empty", "blank", "project"}, provider \in BOOLEAN :
          \/ /\ IsBlankQuota(quota)
             /\ Fail(Err("InvalidConfig", FALSE), "client")
             /\ UNCHANGED client
          \/ /\ ~IsBlankQuota(quota)      \* one of the two service clients is not built
             /\ Fail(Err("ClientBuilder", FALSE), "client")
             /\ UNCHANGED client
          \/ /\ ~IsBlankQuota(quota)
             /\ client' = FromParts(quota, provider)
             /\ stage' = "idle"
             /\ UNCHANGED callVars
    /\ UNCHANGED routingVars

-----------------------------------------------------------------------------
(* BigQueryTableId *)

\* The constructor checks nothing.
NewTable ==
    /\ stage = "idle"
    /\ \E id \in Ids :
          /\ arg' = [NoArg EXCEPT !.kind = "parts"]
          /\ table' = [NotParsed EXCEPT !.id = id]
    /\ stage' = "returned"
    /\ UNCHANGED <<routingVars, client, error, why, said, exported, raised>>

FromString(text) ==
    IF FromStr(text) = Invalid
    THEN [NotParsed EXCEPT !.raises = "ValueError"]
    ELSE [NotParsed EXCEPT !.id = FromStr(text)]

ParseText ==
    /\ stage = "idle"
    /\ \E text \in Texts :
          /\ arg' = [NoArg EXCEPT !.kind = "text", !.text = text]
          /\ table' = FromString(text)
    /\ stage' = "returned"
    /\ UNCHANGED <<routingVars, client, error, why, said, exported, raised>>

\* The parts of an object are taken as they are.
ParseReference ==
    /\ stage = "idle"
    /\ \E object \in [Attributes -> Getters] :
          /\ arg' = [NoArg EXCEPT !.kind = "object", !.object = object]
          /\ table' = IF ParseObject(object) = "Some"
                      THEN [NotParsed EXCEPT !.id = NewTableId(<<"n">>, <<"n">>, <<"n">>)]
                      ELSE [NotParsed EXCEPT !.raises = ParseObject(object)]
    /\ stage' = "returned"
    /\ UNCHANGED <<routingVars, client, error, why, said, exported, raised>>

-----------------------------------------------------------------------------
(* read_table, read_query *)

\* parse_compression_codec, and the snapshot time of parse_read_options.
BadArgument ==
    /\ stage = "idle"
    /\ Raise("ValueError")
    /\ UNCHANGED <<routingVars, client>>

\* read_table: the options go to create_read_session as they are; whether the
\* table exists only the service knows.
ReadTable ==
    /\ stage = "idle"
    /\ stage' = "table" /\ pc' = "table"
    /\ \E isOrdered \in BOOLEAN, limit \in Limits \cup {None} :
          /\ ordered' = isOrdered
          /\ options' = [ordered |-> isOrdered, limit |-> limit]
    /\ UNCHANGED <<client, callVars, query, job, response, fetched, result, rpcVars>>

ReadQuery ==
    /\ stage = "idle"
    /\ stage' = "query" /\ pc' = "send"
    /\ query' \in Queries
    /\ WithOptions
    /\ UNCHANGED <<client, callVars, job, response, fetched, result, options, rpcVars>>

DryRun ==
    /\ stage = "idle"
    /\ stage' = "dry" /\ pc' = "dry"
    /\ UNCHANGED <<client, callVars, query, ordered, job, response, fetched, result, options, rpcVars>>

\* The columns of a dry run that have a value, from query_response_to_record_batch;
\* the bytes processed always have one.
DryRunColumns(ref, type) ==
      (ref \cap {"project", "job"})
    \cup (IF ref \cap {"location", "response_location"} # {} THEN {"location"} ELSE {})
    \cup (IF type # "" THEN {"type"} ELSE {})
    \cup {"bytes"}

\* Query::dry_run: the answer has no page and no schema of its own.  A schema
\* that cannot be written as JSON is an error.
DryRunAnswered ==
    /\ pc = "dry"
    /\ \/ /\ \E ref \in References, type \in Types \cup {""} :
                 exported' = DryRunColumns(ref, type)
          /\ Return(Empty("typed"))
       \/ /\ Return(Err("Other", FALSE))
          /\ UNCHANGED exported
    /\ tries' = 0
    /\ UNCHANGED <<stage, client, query, ordered, job, response, fetched, options, seen, blame,
                   arg, table, error, why, said, raised>>

DryRunErr ==
    /\ pc = "dry"
    /\ \E w \in Failings : Retry("dry") \/ GiveUp(w, MapQueryError(w))
    /\ UNCHANGED <<stage, client, query, ordered, job, response, fetched, options, seen, callVars>>

\* The steps of Query::read and of the requests of all calls.  Only a client
\* that was given a credentials provider can fail of it.
Step ==
    /\ \/ RoutingNext /\ UNCHANGED <<stage, client, callVars>>
       \/ DryRunAnswered \/ DryRunErr
    /\ blame' = "provider" => client.provider

ServiceStep == JobEnds /\ UNCHANGED <<stage, client, callVars>>

-----------------------------------------------------------------------------
(* The call returns *)

EndOfCall ==
    /\ query' = NoQuery /\ ordered' = FALSE /\ job' = "running" /\ response' = NoResponse
    /\ pc' = "idle" /\ fetched' = NoJob /\ result' = Pending /\ options' = NoOptions
    /\ seen' = {} /\ tries' = 0 /\ blame' = "none"

\* Ok: the exporter has the receiver, or for a dry run its batch.
ReturnExporter ==
    /\ pc = "done" /\ result.kind = "ok"
    /\ exported' = IF stage = "dry" THEN exported ELSE {"receiver"}
    /\ stage' = "returned"
    /\ EndOfCall
    /\ UNCHANGED <<client, arg, table, error, why, said, raised>>

ReturnError ==
    /\ pc = "done" /\ result.kind # "ok"
    /\ Fail(result, IF fetched.failed THEN "job" ELSE blame)
    /\ EndOfCall
    /\ UNCHANGED client

\* to_py_err of an error that wraps others, one of which is the exception of the
\* provider if it failed of that.
RaiseWrapped ==
    /\ stage = "failed" /\ error.kind \in Wrapping
    /\ \E causes \in BoundedSeq(Causes, MaxCauses) :
          /\ causes # <<>>
          /\ error.py = \E i \in DOMAIN causes : causes[i].py
          /\ said' = {causes[i].msg : i \in DOMAIN causes}
          /\ raised' = ToPyErr(BigQueryError(error.kind, causes, NoFailure))
    /\ stage' = "returned"
    /\ UNCHANGED <<routingVars, client, arg, table, error, why, exported>>

RaisePlain ==
    /\ stage = "failed" /\ error.kind \in {"Protocol", "InvalidConfig"}
    /\ raised' = ToPyErr(BigQueryError(error.kind, <<>>, NoFailure))
    /\ stage' = "returned"
    /\ UNCHANGED <<routingVars, client, arg, table, error, why, said, exported>>

\* The failure of a job: from check_job_status_error if jobs.get has shown it,
\* from the status of the request otherwise.
RaiseJobFailed ==
    /\ stage = "failed" /\ error.kind = "JobFailed"
    /\ \/ /\ why = "job"
          /\ \E failure \in Failures :
                /\ said' = {FormatJobError(e) : e \in {failure.error} \cup ToSet(failure.errors)}
                /\ raised' = ToPyErr(BigQueryError("JobFailed", <<>>, failure))
       \/ /\ why # "job"
          /\ \E message \in SUBSET Words, infos \in BoundedSeq(Infos, MaxCauses) :
                /\ said' = {message} \cup {FormatJobError(infos[i]) \ NoMessage : i \in DOMAIN infos}
                /\ raised' = ToPyErr(BigQueryError("JobFailed", <<>>, JobFailedFromStatus(message, infos)))
    /\ stage' = "returned"
    /\ UNCHANGED <<routingVars, client, arg, table, error, why, exported>>

\* The program has used the result, or caught the exception.
GoOn ==
    /\ stage = "returned"
    /\ stage' = IF client = NoClient THEN "new" ELSE "idle"
    /\ Cleared
    /\ UNCHANGED <<routingVars, client>>

Calls == NewClient \/ NewTable \/ ParseText \/ ParseReference \/ BadArgument \/ ReadTable \/ ReadQuery \/ DryRun

Returns == ReturnExporter \/ ReturnError \/ RaiseWrapped \/ RaisePlain \/ RaiseJobFailed

Next == Calls \/ Step \/ ServiceStep \/ Returns \/ GoOn

Spec == Init /\ [][Next]_vars

\* Requests are answered or give up at the time limit of their policy, and jobs
\* end.
FairSpec == Spec /\ WF_vars(Step) /\ WF_vars(ServiceStep) /\ WF_vars(Returns)

-----------------------------------------------------------------------------

\* Every variable has its type; a call runs only for a client that has a project
\* to be billed.
TypeOK ==
    /\ RoutingTypeOK
    /\ stage \in {"new", "idle", "table", "query", "dry", "failed", "returned"}
    /\ client \in [quota : {"none", "project"}, provider : BOOLEAN]
    /\ stage \in {"idle", "table", "query", "dry"} => client # NoClient
    /\ error.kind \in Kinds \cup {"pending"}
    /\ why \in Failings \cup {"none", "job", "client"}
    /\ raised.type \in {"none", "ValueError", "BigQueryError"}

\* A query is run at most once by the service however often its request is
\* retried after a lost answer, a result of it means that it was run, and
\* neither a dry run nor the read of a table runs one.
QueryRunsOnce ==
    /\ Cardinality(seen) <= 1
    /\ stage = "query" /\ result.kind = "ok" => seen # {}
    /\ stage \in {"dry", "table"} => seen = {}

\* The exception of a credentials provider is the __cause__ of what the call
\* raises, whichever request failed of it, unless the job itself has failed.
PythonCauseIsKept == stage = "returned" /\ why = "provider" => raised.cause # 0

Shown(words) == \E i \in DOMAIN raised.text : words \subseteq raised.text[i]

\* The exception shows everything that was said about the failure, though
\* format_causal_chain and Display leave out what they take for repetitions: the
\* message of every error in a chain of causes, and of a failed job the message
\* of the status and of each detail, the main error and the others.
FailureIsShown == stage = "returned" => \A words \in said : Shown(words)

\* A text is accepted exactly if the grammar has a reading of it, then it has
\* only one, and the parser has found that one.
TextHasOneReading ==
    arg.kind = "text" =>
        Readings(arg.text) = IF table.raises = "none" THEN {table.id} ELSE {}

\* An identifier written as text and parsed again is the same identifier exactly
\* if its parts are well formed, however it was made.
TextRoundTrip ==
    arg.kind \in {"text", "parts"} /\ table.raises = "none" =>
        (FromStr(Display(table.id)) = table.id) = WellFormed(table.id)

\* Every call returns or raises, though requests may fail again and again.
CallReturns == (stage \in {"table", "query", "dry", "failed"}) ~> (stage = "returned")
=============================================================================
