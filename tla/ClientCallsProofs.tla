-------------------------- MODULE ClientCallsProofs --------------------------
(***************************************************************************)
(* Theorems about ClientCalls for every number of rows, threshold, number  *)
(* of retries and parallelism, and for texts, chains of causes and lists   *)
(* of job errors of every length: what Query::read makes of the responses, *)
(* what an exception says and keeps, and what a table identifier means.    *)
(***************************************************************************)
EXTENDS ClientCalls, TableIdProofs, FiniteSetTheorems, TLAPS

-----------------------------------------------------------------------------
(* The inductive invariant. *)

\* Only a query has a query, and only it reaches the service.
StageInv ==
    /\ stage # "query" => query = NoQuery /\ seen = {} /\ job = "running" /\ response = NoResponse
    /\ stage = "table" => pc \in {"table", "done"}
    /\ stage = "dry" => pc \in {"dry", "done"}
    /\ stage = "query" => pc \notin {"idle", "dry"}
    /\ stage \notin {"table", "dry", "query"} => pc = "idle"

\* Nothing is returned and no failed job has been shown before the call is done.
PendingInv == pc # "done" => result = Pending /\ ~fetched.failed

\* The client sends the query under one id, before it can have an answer.
SentInv ==
    /\ seen \subseteq {RequestId}
    /\ stage = "query" /\ pc \notin {"send", "done"} => seen # {}
    /\ stage = "query" /\ pc = "done" /\ result.kind = "ok" => seen # {}

\* What a response says is true of the query and of its job.
AnswerInv ==
    /\ response.type \in {"", query.type}
    /\ response.complete =>
          /\ job = "done"
          /\ response.page <= query.rows
          /\ response.page < query.rows => response.total = query.rows \/ response.token
    /\ ~response.complete => response.schema # "arrow"

\* What read() has found out at each of its awaits.
PlaceInv ==
    /\ pc = "get_table" => response.complete /\ ~ordered /\ response.type # "SCRIPT"
    /\ pc = "get_empty" => job = "failed" \/ (job = "done" /\ query.rows = 0)
    /\ pc = "session" => job = "done" /\ query.rows = 0 /\ response.type # "SCRIPT"
    /\ pc = "table" => /\ options.ordered = ordered
                       /\ stage = "query" => job = "done" /\ ~ordered /\ response.type # "SCRIPT"

\* A result is complete and final.
ResultInv ==
    /\ stage = "query" /\ result.kind = "ok" => job = "done"
    /\ ResultCoversRows
    /\ pc = "done" /\ fetched.failed => result.kind = "JobFailed"
    /\ OrderedReadHasOneStream
    /\ SelectHasSchema
    /\ ScriptIsServed

RoutingInv ==
    /\ RoutingTypeOK /\ StageInv /\ PendingInv /\ SentInv
    /\ AnswerInv /\ PlaceInv /\ ResultInv

-----------------------------------------------------------------------------
(* Results. *)

\* Steps that end a call with an error.
LEMMA ErrorKeepsInv ==
    ASSUME RoutingInv, NEW e \in Errors, NEW py \in BOOLEAN,
           stage \in {"table", "dry", "query"},
           Return(Err(e, py)),
           UNCHANGED <<stage, query, ordered, job, response, options, seen>>,
           fetched' \in Jobs, fetched'.failed => e = "JobFailed",
           tries' \in 0 .. MaxTries, blame' \in Failings \cup {"none"},
           e = "Protocol" => ~( /\ response.type = "SCRIPT" /\ HasReference
                                /\ response.complete => ~Unreadable /\ (HasPage => response.schema = "arrow"))
    PROVE  RoutingInv'
<1> DEFINE res == Err(e, py)
<1>a. 0 \in 0 .. MaxRows
  BY RoutingAssumption
<1>b. res \in Results
  BY <1>a DEF Results, Err
<1>c. /\ res.kind = e /\ res.page = 0 /\ res.from = None /\ res.switch = FALSE /\ res.table = FALSE
      /\ res.streams = 0 /\ res.schema = "none" /\ res.py = py
  BY DEF Err
<1>1. /\ res.kind = e /\ res.page = 0 /\ res.from = None /\ res.switch = FALSE /\ res.table = FALSE
      /\ res.streams = 0 /\ res.schema = "none" /\ res.py = py /\ res \in Results
  BY <1>b, <1>c
<1>2. pc' = "done" /\ result' = res
  BY DEF Return
<1>3. e # "ok"
  BY DEF Errors
<1> HIDE DEF res
<1>4. RoutingTypeOK'
  BY <1>1, <1>2 DEF RoutingInv, RoutingTypeOK
<1>5. StageInv' /\ PendingInv' /\ SentInv' /\ AnswerInv' /\ PlaceInv'
  BY <1>1, <1>2, <1>3 DEF RoutingInv, StageInv, PendingInv, SentInv, AnswerInv, PlaceInv, RequestId
<1>6. ResultInv'
  BY <1>1, <1>2, <1>3 DEF ResultInv, ResultCoversRows, OrderedReadHasOneStream, SelectHasSchema, ScriptIsServed,
       HasReference, Unreadable, HasPage
<1> QED
  BY <1>4, <1>5, <1>6 DEF RoutingInv

\* Steps that end a call with a result.
LEMMA ResultKeepsInv ==
    ASSUME RoutingInv,
           stage \in {"table", "dry", "query"}, stage = "query" => job = "done" /\ seen # {},
           pc' = "done", result'.kind = "ok", ~result'.switch \/ (~ordered /\ response.type # "SCRIPT"),
           result' \in Results,
           UNCHANGED <<stage, query, ordered, job, response, seen>>,
           fetched' \in Jobs, ~fetched'.failed,
           options' \in [ordered : BOOLEAN, limit : Int],
           tries' \in 0 .. MaxTries, blame' \in Failings \cup {"none"},
           ordered => result'.streams <= 1,
           query.type = "SELECT" => result'.schema = "typed",
           ResultCoversRows'
    PROVE  RoutingInv'
<1>1. RoutingTypeOK'
  BY DEF RoutingInv, RoutingTypeOK
<1>2. StageInv' /\ PendingInv' /\ SentInv' /\ AnswerInv' /\ PlaceInv'
  BY DEF RoutingInv, StageInv, PendingInv, SentInv, AnswerInv, PlaceInv, RequestId
<1>3. ResultInv'
  BY DEF ResultInv, OrderedReadHasOneStream, SelectHasSchema, ScriptIsServed,
       HasReference, Unreadable, HasPage
<1> QED
  BY <1>1, <1>2, <1>3 DEF RoutingInv

Places == {"send", "sent", "route", "stream", "get_table", "get_empty", "get_error", "table", "session"}

\* Steps that go on to another await.
LEMMA AwaitKeepsInv ==
    ASSUME RoutingInv, stage = "query", pc # "done",
           NEW where \in Places, Await(where),
           UNCHANGED <<stage, query, ordered, job, response, seen>>,
           where = "send" \/ seen # {},
           fetched' \in Jobs, ~fetched'.failed,
           options' \in [ordered : BOOLEAN, limit : Int],
           tries' \in 0 .. MaxTries, blame' \in Failings \cup {"none"},
           PlaceInv'
    PROVE  RoutingInv'
<1>1. pc' = where /\ result' = result /\ result = Pending
  BY DEF Await, RoutingInv, PendingInv
<1>2. RoutingTypeOK'
  BY <1>1 DEF RoutingInv, RoutingTypeOK, Places
<1>3. StageInv' /\ PendingInv' /\ SentInv' /\ AnswerInv'
  BY <1>1 DEF RoutingInv, StageInv, PendingInv, SentInv, AnswerInv, RequestId, Places
<1>4. ResultInv'
  BY <1>1 DEF RoutingInv, ResultInv, ResultCoversRows, Pending, Err, OrderedReadHasOneStream, SelectHasSchema,
       ScriptIsServed, Places, HasReference, Unreadable, HasPage
<1> QED
  BY <1>2, <1>3, <1>4 DEF RoutingInv

\* Where a call is tells which call it is.
LEMMA WhichCall ==
    ASSUME RoutingInv
    PROVE  /\ pc # "idle" => stage \in {"table", "dry", "query"}
           /\ pc \in Places \ {"table"} => stage = "query"
           /\ pc \in Places \ {"table", "send"} => seen # {}
           /\ pc = "table" => stage \in {"table", "query"}
           /\ pc = "dry" => stage = "dry"
BY DEF RoutingInv, StageInv, SentInv, Places

LEMMA RoutingTypes ==
    ASSUME RoutingInv
    PROVE  /\ query.rows \in 0 .. MaxRows /\ query.type \in Types
           /\ fetched \in Jobs /\ tries \in 0 .. MaxTries /\ blame \in Failings \cup {"none"}
           /\ options \in [ordered : BOOLEAN, limit : Int]
           /\ response.complete \in BOOLEAN /\ response.token \in BOOLEAN
           /\ response.page \in {None} \cup 0 .. MaxRows
           /\ response.total \in {None} \cup 0 .. MaxRows
BY DEF RoutingInv, RoutingTypeOK, Queries, Responses

-----------------------------------------------------------------------------
(* One lemma per action: it keeps the invariant.  First jobs.query.        *)

LEMMA DeliverInv ==
    ASSUME RoutingInv, stage' = stage, Deliver
    PROVE  RoutingInv'
<1>1. stage = "query" /\ result = Pending /\ result' = result /\ pc' = "sent"
  BY WhichCall DEF Deliver, Places, RoutingInv, PendingInv, Await
<1>2. seen' = {RequestId}
  BY DEF Deliver, RoutingInv, SentInv
<1>3. RoutingTypeOK'
  BY <1>1, <1>2, RoutingAssumption DEF RoutingInv, RoutingTypeOK, Deliver, RequestId
<1>4. StageInv' /\ PendingInv' /\ SentInv' /\ AnswerInv' /\ PlaceInv'
  BY <1>1, <1>2 DEF Deliver, RoutingInv, StageInv, PendingInv, SentInv, AnswerInv, PlaceInv, RequestId
<1>5. ResultInv'
  BY <1>1 DEF Deliver, RoutingInv, ResultInv, ResultCoversRows, Pending, Err, OrderedReadHasOneStream,
       SelectHasSchema, ScriptIsServed, HasReference, Unreadable, HasPage
<1> QED
  BY <1>3, <1>4, <1>5 DEF RoutingInv

LEMMA SendInv ==
    ASSUME RoutingInv, stage' = stage, Send
    PROVE  RoutingInv'
<1>1. stage = "query" /\ seen # {} /\ result = Pending /\ result' = result /\ pc' = "route"
  BY WhichCall DEF Send, Places, RoutingInv, PendingInv, Await
<1>2. response' \in Responses /\ AnswerInv'
  <2>1. response' \in Answers /\ UNCHANGED <<query, job>>
    BY DEF Send
  <2>2. /\ query.type \in Types /\ query.rows \in 0 .. MaxRows /\ MaxRows \in Nat
        /\ 0 .. query.rows \subseteq 0 .. MaxRows /\ 0 \in 0 .. MaxRows
    BY RoutingTypes, RoutingAssumption
  <2> DEFINE Incomplete == [complete : {FALSE}, schema : {"none"}, batch : {"none"}, page : {0}, total : {None},
                            token : {FALSE}, type : {"", query.type}, ref : References]
             Complete == [complete : {TRUE}, schema : {"arrow", "none", "other"}, batch : {"arrow", "none", "other"},
                          page : {None} \cup 0 .. query.rows, total : {None, query.rows}, token : BOOLEAN,
                          type : {"", query.type}, ref : References]
             Accounted == response'.page < query.rows => response'.total = query.rows \/ response'.token
  <2>3. CASE response' \in Incomplete
    <3>1. response' \in Responses
      BY <2>2, <2>3 DEF Responses
    <3> QED
      BY <2>1, <2>3, <3>1 DEF AnswerInv
  <2>4. CASE response' \in Complete /\ job = "done" /\ Accounted
    <3>1. response' \in Responses
      BY <2>2, <2>4 DEF Responses
    <3>2. response'.page \in {None} \cup 0 .. query.rows
      BY <2>4
    <3>3. response'.page <= query.rows
      BY <2>2, <3>2 DEF None
    <3> QED
      BY <2>1, <2>4, <3>1, <3>3 DEF AnswerInv
  <2>5. response' \in Incomplete \/ (response' \in Complete /\ job = "done" /\ Accounted)
    BY <2>1, Zenon DEF Answers
  <2> QED
    BY <2>3, <2>4, <2>5
<1>3. RoutingTypeOK'
  BY <1>1, <1>2, RoutingAssumption DEF RoutingInv, RoutingTypeOK, Send
<1>4. StageInv' /\ PendingInv' /\ SentInv' /\ PlaceInv'
  BY <1>1 DEF Send, RoutingInv, StageInv, PendingInv, SentInv, PlaceInv, RequestId
<1>5. ResultInv'
  BY <1>1 DEF Send, RoutingInv, ResultInv, ResultCoversRows, Pending, Err, OrderedReadHasOneStream,
       SelectHasSchema, ScriptIsServed, HasReference, Unreadable, HasPage
<1> QED
  BY <1>2, <1>3, <1>4, <1>5 DEF RoutingInv

\* The errors of failed requests are no protocol errors.
LEMMA RequestErrors ==
    ASSUME NEW w \in Failings
    PROVE  /\ \E e \in Errors \ {"Protocol"}, py \in BOOLEAN : RpcError(w) = Err(e, py)
           /\ \E e \in Errors \ {"Protocol"}, py \in BOOLEAN : MapQueryError(w) = Err(e, py)
<1>1. "Grpc" \in Errors \ {"Protocol"} /\ "JobFailed" \in Errors \ {"Protocol"}
  BY DEF Errors
<1>2. (w = "provider") \in BOOLEAN
  OBVIOUS
<1> QED
  BY <1>1, <1>2, Zenon DEF RpcError, MapQueryError

\* A request that is given up ends the call with such an error.
LEMMA GiveUpKeepsInv ==
    ASSUME RoutingInv, stage \in {"table", "dry", "query"}, pc # "done",
           NEW w \in Failings, NEW err,
           \E e \in Errors \ {"Protocol"}, py \in BOOLEAN : err = Err(e, py),
           GiveUp(w, err),
           UNCHANGED <<stage, query, ordered, job, response, fetched, options, seen>>
    PROVE  RoutingInv'
<1>1. PICK e \in Errors \ {"Protocol"}, py \in BOOLEAN : err = Err(e, py)
  OBVIOUS
<1>2. fetched' \in Jobs /\ ~fetched'.failed
  BY RoutingTypes DEF RoutingInv, PendingInv
<1>3. tries' \in 0 .. MaxTries /\ blame' \in Failings \cup {"none"} /\ Return(Err(e, py))
  BY <1>1, RoutingAssumption DEF GiveUp
<1> QED
  BY <1>1, <1>2, <1>3, ErrorKeepsInv

LEMMA SendErrInv ==
    ASSUME RoutingInv, stage' = stage, SendErr
    PROVE  RoutingInv'
<1>1. stage = "query" /\ pc # "done" /\ fetched' \in Jobs /\ ~fetched'.failed
  BY WhichCall, RoutingTypes DEF SendErr, Places, RoutingInv, PendingInv
<1>2. PICK w \in Failings : Retry("send") \/ GiveUp(w, MapQueryError(w))
  BY DEF SendErr
<1>3. CASE Retry("send")
  <2>1. Await("send") /\ tries' \in 0 .. MaxTries /\ blame' = blame
    BY <1>3, RoutingTypes, RoutingAssumption DEF Retry, Await
  <2>2. PlaceInv'
    BY <2>1 DEF Await, PlaceInv
  <2> QED
    BY <1>1, <2>1, <2>2, RoutingTypes, AwaitKeepsInv DEF SendErr, Places
<1>4. CASE GiveUp(w, MapQueryError(w))
  BY <1>1, <1>4, RequestErrors, GiveUpKeepsInv DEF SendErr
<1> QED
  BY <1>2, <1>3, <1>4

-----------------------------------------------------------------------------
(* Query::read, once there is a response *)

\* Local steps leave all but place and result alone.
LEMMA LocalFacts ==
    ASSUME RoutingInv, stage' = stage, Local, pc # "done"
    PROVE  /\ UNCHANGED <<stage, query, ordered, job, response, fetched, options, seen>>
           /\ fetched' \in Jobs /\ ~fetched'.failed
           /\ options' \in [ordered : BOOLEAN, limit : Int]
           /\ tries' \in 0 .. MaxTries /\ blame' \in Failings \cup {"none"}
BY RoutingTypes DEF Local, rpcVars, RoutingInv, PendingInv

LEMMA ProtocolErrorInv ==
    ASSUME RoutingInv, stage' = stage, Local, pc # "done", stage \in {"table", "dry", "query"},
           Return(Err("Protocol", FALSE)),
           ~( /\ response.type = "SCRIPT" /\ HasReference
              /\ response.complete => ~Unreadable /\ (HasPage => response.schema = "arrow"))
    PROVE  RoutingInv'
BY LocalFacts, ErrorKeepsInv DEF Errors

LEMMA RouteIncompleteInv ==
    ASSUME RoutingInv, stage' = stage, pc = "route", RouteIncomplete, Local
    PROVE  RoutingInv'
<1>1. stage = "query" /\ seen # {}
  BY WhichCall DEF Places
<1>2. CASE HasReference
  <2>1. Await("stream")
    BY <1>2 DEF RouteIncomplete, RequireReference
  <2>2. PlaceInv'
    BY <2>1 DEF Await, PlaceInv
  <2> QED
    BY <1>1, <2>1, <2>2, LocalFacts, AwaitKeepsInv DEF Places
<1>3. CASE ~HasReference
  BY <1>1, <1>3, ProtocolErrorInv DEF RouteIncomplete, RequireReference
<1> QED
  BY <1>2, <1>3

LEMMA RouteUnreadableInv ==
    ASSUME RoutingInv, stage' = stage, pc = "route", RouteUnreadable, Local
    PROVE  RoutingInv'
<1>1. stage = "query"
  BY WhichCall DEF Places
<1> QED
  BY <1>1, ProtocolErrorInv DEF RouteUnreadable

LEMMA RouteTableInv ==
    ASSUME RoutingInv, stage' = stage, pc = "route", RouteTable, Local
    PROVE  RoutingInv'
<1>1. stage = "query" /\ seen # {}
  BY WhichCall DEF Places
<1>2. response.complete /\ ~ordered /\ response.type # "SCRIPT"
  BY DEF RouteTable, Readable, IsLarge, CanReadDestinationTable
<1>3. CASE HasReference
  <2>1. Await("get_table")
    BY <1>3 DEF RouteTable, RequireReference
  <2>2. PlaceInv'
    BY <1>2, <2>1, LocalFacts DEF Await, PlaceInv
  <2> QED
    BY <1>1, <2>1, <2>2, LocalFacts, AwaitKeepsInv DEF Places
<1>4. CASE ~HasReference
  BY <1>1, <1>2, <1>4, ProtocolErrorInv DEF RouteTable, RequireReference
<1> QED
  BY <1>3, <1>4

LEMMA RouteStreamInv ==
    ASSUME RoutingInv, stage' = stage, pc = "route", RouteStream, Local
    PROVE  RoutingInv'
<1>1. stage = "query" /\ seen # {}
  BY WhichCall DEF Places
<1>2. CASE HasReference
  <2>1. Await("stream")
    BY <1>2 DEF RouteStream, RequireReference
  <2>2. PlaceInv'
    BY <2>1 DEF Await, PlaceInv
  <2> QED
    BY <1>1, <2>1, <2>2, LocalFacts, AwaitKeepsInv DEF Places
<1>3. CASE ~HasReference
  BY <1>1, <1>3, ProtocolErrorInv DEF RouteStream, RequireReference
<1> QED
  BY <1>2, <1>3

\* A page that is the whole result, or no page where there is nothing.
LEMMA NothingElsewhere ==
    ASSUME RoutingInv, Readable, ~HasRemainingRows
    PROVE  /\ job = "done"
           /\ response.page \in 0 .. MaxRows /\ response.page = query.rows
           /\ ~HasPage => query.rows = 0
<1>1. /\ response.complete /\ ~(response.page < 0)
      /\ response.batch = "none" => response.page = 0
      /\ response.batch # "other" /\ ~response.token
      /\ response.total # None => ~(response.total > response.page)
  BY DEF Readable, Unreadable, HasRemainingRows
<1>2. /\ job = "done" /\ response.page <= query.rows
      /\ response.page < query.rows => response.total = query.rows
  BY <1>1 DEF RoutingInv, AnswerInv
<1>3. response.batch \in {"arrow", "none", "other"}
  BY DEF RoutingInv, RoutingTypeOK, Responses
<1>4. response.page \in 0 .. MaxRows /\ query.rows \in Nat
  BY <1>1, RoutingTypes, RoutingAssumption DEF None
<1>5. response.page = query.rows
  BY <1>1, <1>2, <1>4 DEF None
<1> QED
  BY <1>1, <1>2, <1>3, <1>4, <1>5 DEF HasPage

\* A call may return an empty result if its query has no rows.
LEMMA EmptyResultInv ==
    ASSUME RoutingInv, stage' = stage, stage \in {"table", "dry", "query"},
           NEW sch \in {"typed", "columnless"}, Return(Empty(sch)),
           query.rows = 0, stage = "query" => job = "done" /\ seen # {},
           query.type = "SELECT" => sch = "typed",
           UNCHANGED <<query, ordered, job, response, seen>>,
           fetched' \in Jobs, ~fetched'.failed,
           options' \in [ordered : BOOLEAN, limit : Int],
           tries' \in 0 .. MaxTries, blame' \in Failings \cup {"none"}
    PROVE  RoutingInv'
<1>1. result' = [kind |-> "ok", page |-> 0, from |-> None, switch |-> FALSE, table |-> FALSE,
                 streams |-> 0, schema |-> sch, py |-> FALSE]
  BY DEF Return, Empty, Ok
<1>2. 0 \in 0 .. MaxRows
  BY RoutingAssumption
<1>3. result' \in Results
  BY <1>1, <1>2 DEF Results
<1>4. ResultCoversRows'
  BY DEF ResultCoversRows
<1>5. pc' = "done"
  BY DEF Return
<1> QED
  BY <1>1, <1>3, <1>4, <1>5, ResultKeepsInv

LEMMA RouteEmptyInv ==
    ASSUME RoutingInv, stage' = stage, pc = "route", RouteEmpty, Local
    PROVE  RoutingInv'
<1>1. stage = "query" /\ seen # {}
  BY WhichCall DEF Places
<1>2. job = "done" /\ query.rows = 0
  BY NothingElsewhere DEF RouteEmpty
<1>3. CASE Return(Empty("typed"))
  BY <1>1, <1>2, <1>3, LocalFacts, EmptyResultInv
<1>4. CASE response.type \notin {"", "SELECT"} /\ Return(Empty("columnless"))
  <2>1. query.type # "SELECT"
    BY <1>4 DEF RoutingInv, AnswerInv
  <2> QED
    BY <1>1, <1>2, <1>4, <2>1, LocalFacts, EmptyResultInv
<1>5. CASE Await("get_empty")
  <2>1. PlaceInv'
    BY <1>2, <1>5, LocalFacts DEF Await, PlaceInv
  <2> QED
    BY <1>1, <1>5, <2>1, LocalFacts, AwaitKeepsInv DEF Places
<1>6. CASE ~HasReference /\ Return(Err("Protocol", FALSE))
  BY <1>1, <1>6, ProtocolErrorInv
<1> QED
  BY <1>3, <1>4, <1>5, <1>6 DEF RouteEmpty, RequireReference

LEMMA RouteInlineInv ==
    ASSUME RoutingInv, stage' = stage, pc = "route", RouteInline, Local
    PROVE  RoutingInv'
<1>1. stage = "query" /\ seen # {} /\ HasPage /\ response.complete /\ job = "done" /\ ~(response.page < 0)
  BY WhichCall DEF Places, RouteInline, Readable, Unreadable, RoutingInv, AnswerInv
<1>2. CASE ((HasRemainingRows /\ ~HasReference) \/ response.schema = "none") /\ Return(Err("Protocol", FALSE))
  BY <1>1, <1>2, ProtocolErrorInv
<1>3. ASSUME NEW from, from = IF HasRemainingRows THEN response.page ELSE None,
             Return(Ok(response.page, from, FALSE, "typed"))
      PROVE  RoutingInv'
  <2>1. result' = [kind |-> "ok", page |-> response.page, from |-> from, switch |-> FALSE, table |-> FALSE,
                   streams |-> IF from = None THEN 0 ELSE 1, schema |-> "typed", py |-> FALSE]
    BY <1>3 DEF Return, Ok
  <2>2. response.page \in 0 .. MaxRows /\ from \in {None} \cup 0 .. MaxRows
    BY <1>1, <1>3, RoutingTypes, RoutingAssumption DEF None
  <2>3. result' \in Results
    BY <2>1, <2>2 DEF Results
  <2>4. query' = query /\ query.rows \in Nat
    BY LocalFacts, RoutingTypes, RoutingAssumption
  <2>5. ResultCoversRows'
    <3>1. SUFFICES ASSUME NEW i \in 0 .. query.rows - 1
                   PROVE  Copies(i)' = 1
      BY <2>4 DEF ResultCoversRows
    <3>2. result'.page = response.page /\ result'.from = from /\ result'.table = FALSE
      BY <2>1
    <3>3. CASE HasRemainingRows
      BY <1>3, <2>2, <2>4, <3>2, <3>3 DEF Copies, None
    <3>4. CASE ~HasRemainingRows
      <4>1. response.page = query.rows
        BY <3>4, NothingElsewhere DEF RouteInline
      <4> QED
        BY <1>3, <2>2, <2>4, <3>2, <3>4, <4>1 DEF Copies, None
    <3> QED
      BY <3>3, <3>4
  <2>6. pc' = "done"
    BY <1>3 DEF Return
  <2> QED
    BY <1>1, <2>1, <2>3, <2>5, <2>6, LocalFacts, ResultKeepsInv
<1> QED
  BY <1>2, <1>3 DEF RouteInline

LEMMA RouteInv ==
    ASSUME RoutingInv, stage' = stage, Route
    PROVE  RoutingInv'
BY RouteIncompleteInv, RouteUnreadableInv, RouteTableInv, RouteStreamInv, RouteEmptyInv, RouteInlineInv DEF Route

LEMMA ParseErrInv ==
    ASSUME RoutingInv, stage' = stage, ParseErr
    PROVE  RoutingInv'
<1>1. stage = "query" /\ pc # "done" /\ Return(Err("Other", FALSE)) /\ Local
  BY WhichCall DEF Places, ParseErr
<1> QED
  BY <1>1, LocalFacts, ErrorKeepsInv DEF Errors

-----------------------------------------------------------------------------
(* The job's stream, jobs.get, create_read_session *)

LEMMA StreamSchemaInv ==
    ASSUME RoutingInv, stage' = stage, StreamSchema
    PROVE  RoutingInv'
<1>1. stage = "query" /\ seen # {} /\ pc # "done" /\ job = "done" /\ Local
  BY WhichCall DEF Places, StreamSchema, RoutingInv, AnswerInv
<1>2. pc' = "done" /\ result' = [kind |-> "ok", page |-> 0, from |-> 0, switch |-> CanReadDestinationTable,
                                 table |-> FALSE, streams |-> 1, schema |-> "typed", py |-> FALSE]
  BY DEF StreamSchema, Return, Ok, None
<1>3. result' \in Results
  BY <1>2, RoutingAssumption DEF Results, CanReadDestinationTable
<1>4. ResultCoversRows'
  <2>1. SUFFICES ASSUME NEW i \in 0 .. query.rows - 1
                 PROVE  Copies(i)' = 1
    BY <1>1, LocalFacts DEF ResultCoversRows
  <2>2. i >= 0 /\ ~(i < 0) /\ 0 # None
    BY RoutingTypes, RoutingAssumption DEF None
  <2> QED
    BY <1>2, <2>2 DEF Copies
<1>5. result'.kind = "ok" /\ result'.streams <= 1 /\ result'.schema = "typed"
  BY <1>2
<1>6. ~result'.switch \/ (~ordered /\ response.type # "SCRIPT")
  BY <1>2 DEF CanReadDestinationTable
<1>7. pc' = "done"
  BY <1>2
<1> QED
  BY <1>1, <1>3, <1>4, <1>5, <1>6, <1>7, LocalFacts, ResultKeepsInv

LEMMA StreamEndInv ==
    ASSUME RoutingInv, stage' = stage, StreamEnd
    PROVE  RoutingInv'
<1>1. stage = "query" /\ seen # {} /\ pc # "done" /\ Local /\ Await("get_empty")
  BY WhichCall DEF Places, StreamEnd
<1>2. PlaceInv'
  BY <1>1, LocalFacts DEF Await, PlaceInv, StreamEnd
<1> QED
  BY <1>1, <1>2, LocalFacts, AwaitKeepsInv DEF Places

LEMMA StreamErrInv ==
    ASSUME RoutingInv, stage' = stage, StreamErr
    PROVE  RoutingInv'
<1>1. stage = "query" /\ seen # {} /\ pc # "done" /\ fetched' \in Jobs /\ ~fetched'.failed
  BY WhichCall, RoutingTypes DEF Places, StreamErr, RoutingInv, PendingInv
<1>2. CASE Await("get_error") /\ blame' \in Failings
  <2>1. PlaceInv'
    BY <1>2 DEF Await, PlaceInv
  <2> QED
    BY <1>1, <1>2, <2>1, RoutingTypes, AwaitKeepsInv DEF Places, StreamErr
<1>3. CASE Return(Err("Other", FALSE)) /\ UNCHANGED blame
  BY <1>1, <1>3, RoutingTypes, ErrorKeepsInv DEF StreamErr, Errors
<1> QED
  BY <1>2, <1>3 DEF StreamErr

LEMMA StreamSchemaErrInv ==
    ASSUME RoutingInv, stage' = stage, StreamSchemaErr
    PROVE  RoutingInv'
<1>1. stage = "query" /\ pc # "done" /\ Return(Err("Other", FALSE)) /\ Local
  BY WhichCall DEF Places, StreamSchemaErr
<1> QED
  BY <1>1, LocalFacts, ErrorKeepsInv DEF Errors

\* What jobs.get leaves alone, and what it may show.
LEMMA GetFacts ==
    ASSUME RoutingInv, stage' = stage, NEW where \in {"get_table", "get_empty", "get_error"}, Get(where)
    PROVE  /\ pc = where /\ stage = "query" /\ seen # {}
           /\ UNCHANGED <<query, ordered, job, response, seen>>
           /\ fetched' \in Jobs /\ MayGet(fetched')
           /\ tries' \in 0 .. MaxTries /\ blame' \in Failings \cup {"none"}
BY WhichCall, RoutingTypes DEF Get, Places, rpcVars

LEMMA GetTableInv ==
    ASSUME RoutingInv, stage' = stage, GetTable
    PROVE  RoutingInv'
<1>1. Get("get_table")
  BY DEF GetTable
<1>2. ~ordered /\ response.type # "SCRIPT" /\ job = "done" /\ ~fetched'.failed
  BY <1>1, GetFacts DEF RoutingInv, PlaceInv, AnswerInv, MayGet
<1>3. CASE AwaitSession("table", FALSE, None)
  <2>1. Await("table") /\ options' = [ordered |-> FALSE, limit |-> None]
    BY <1>3 DEF AwaitSession
  <2>2. options' \in [ordered : BOOLEAN, limit : Int] /\ options'.ordered = FALSE
    BY <2>1 DEF None
  <2>3. ordered = FALSE
    BY <1>2 DEF RoutingInv, RoutingTypeOK
  <2>4. PlaceInv'
    BY <1>1, <1>2, <2>1, <2>2, <2>3, GetFacts DEF Await, PlaceInv
  <2> QED
    BY <1>1, <1>2, <2>1, <2>2, <2>4, GetFacts, AwaitKeepsInv DEF Places
<1>4. CASE ReturnOnly(Err("Protocol", FALSE))
  BY <1>1, <1>2, <1>4, GetFacts, ErrorKeepsInv DEF ReturnOnly, Errors
<1> QED
  BY <1>3, <1>4 DEF GetTable

LEMMA GetEmptyInv ==
    ASSUME RoutingInv, stage' = stage, GetEmpty
    PROVE  RoutingInv'
<1>1. Get("get_empty")
  BY DEF GetEmpty
<1>2. fetched'.failed = (job = "failed") /\ fetched'.type \in {"", query.type} /\ response.type \in {"", query.type}
  BY <1>1, GetFacts DEF MayGet, RoutingInv, AnswerInv
<1>3. job = "failed" \/ (job = "done" /\ query.rows = 0)
  BY <1>1, GetFacts DEF RoutingInv, PlaceInv
<1>5. CASE JobError
  BY <1>1, <1>5, GetFacts, RoutingTypes, ErrorKeepsInv DEF GetEmpty, ReturnOnly, Errors
<1>6. CASE ~JobError /\ (fetched'.ddl \/ StatementType \notin {"", "SELECT"})
  <2>1. ReturnOnly(Empty("columnless"))
    BY <1>6 DEF GetEmpty
  <2>2. query.type # "SELECT"
    BY <1>1, <1>2, <1>6, GetFacts DEF MayGet, StatementType
  <2>3. ~fetched'.failed /\ job = "done" /\ query.rows = 0
    BY <1>2, <1>3, <1>6 DEF JobError
  <2> QED
    BY <1>1, <2>1, <2>2, <2>3, GetFacts, RoutingTypes, EmptyResultInv DEF ReturnOnly
<1>7. CASE ~JobError /\ ~(fetched'.ddl \/ StatementType \notin {"", "SELECT"})
  <2>1. ~fetched'.failed /\ job = "done" /\ query.rows = 0
    BY <1>2, <1>3, <1>7 DEF JobError
  <2>2. response.type # "SCRIPT"
    <3>1. SUFFICES ASSUME response.type = "SCRIPT"
                   PROVE  FALSE
      OBVIOUS
    <3>2. query.type = "SCRIPT" /\ StatementType = "SCRIPT"
      BY <1>2, <3>1 DEF StatementType
    <3> QED
      BY <1>7, <3>2
  <2>3. CASE DestinationTable = "whole"
    <3>1. Await("session") /\ options' = [ordered |-> TRUE, limit |-> 1]
      BY <1>7, <2>3 DEF GetEmpty, AwaitSession
    <3>2. PlaceInv'
      BY <1>1, <2>1, <2>2, <3>1, GetFacts DEF Await, PlaceInv
    <3> QED
      BY <1>1, <2>1, <3>1, <3>2, GetFacts, AwaitKeepsInv DEF Places
  <2>4. CASE DestinationTable # "whole" /\ (DestinationTable = "partial" \/ StatementType = "SELECT")
    <3>1. ReturnOnly(Err("Protocol", FALSE))
      BY <1>7, <2>4 DEF GetEmpty
    <3> QED
      BY <1>1, <2>1, <2>2, <3>1, GetFacts, ErrorKeepsInv DEF ReturnOnly, Errors
  <2>5. CASE DestinationTable # "whole" /\ ~(DestinationTable = "partial" \/ StatementType = "SELECT")
    <3>1. ReturnOnly(Empty("columnless"))
      BY <1>7, <2>5 DEF GetEmpty
    <3>2. fetched'.table = "none" /\ fetched'.type # "SELECT"
      BY <1>1, <2>5, GetFacts DEF Jobs, DestinationTable, StatementType
    <3>3. query.type # "SELECT"
      BY <1>1, <3>2, GetFacts DEF MayGet
    <3> QED
      BY <1>1, <2>1, <3>1, <3>3, GetFacts, RoutingTypes, EmptyResultInv DEF ReturnOnly
  <2> QED
    BY <2>3, <2>4, <2>5
<1> QED
  BY <1>5, <1>6, <1>7

LEMMA GetErrorInv ==
    ASSUME RoutingInv, stage' = stage, GetError
    PROVE  RoutingInv'
<1>1. Get("get_error")
  BY DEF GetError
<1>2. CASE JobError
  BY <1>1, <1>2, GetFacts, ErrorKeepsInv DEF GetError, ReturnOnly, Errors
<1>3. CASE ~JobError
  <2>1. Return(Err("Grpc", blame = "provider")) /\ options' = options
    BY <1>3 DEF GetError, ReturnOnly, RpcError
  <2>2. (blame = "provider") \in BOOLEAN /\ "Grpc" \in Errors
    BY DEF Errors
  <2> QED
    BY <1>1, <1>3, <2>1, <2>2, GetFacts, ErrorKeepsInv DEF JobError
<1> QED
  BY <1>2, <1>3

LEMMA GetErrInv ==
    ASSUME RoutingInv, stage' = stage, GetErr
    PROVE  RoutingInv'
<1>1. stage = "query" /\ pc # "done" /\ fetched' \in Jobs /\ ~fetched'.failed
  BY WhichCall, RoutingTypes DEF Places, GetErr, RoutingInv, PendingInv
<1>2. ASSUME NEW w \in Failings, GiveUp(w, RpcError(w))
      PROVE  RoutingInv'
  BY <1>1, <1>2, RequestErrors, GiveUpKeepsInv DEF GetErr
<1>3. CASE Return(RpcError(blame)) /\ UNCHANGED <<tries, blame>>
  <2>1. Return(Err("Grpc", blame = "provider"))
    BY <1>3 DEF RpcError
  <2>2. (blame = "provider") \in BOOLEAN /\ "Grpc" \in Errors
    BY DEF Errors
  <2> QED
    BY <1>1, <1>3, <2>1, <2>2, RoutingTypes, ErrorKeepsInv DEF GetErr
<1> QED
  BY <1>2, <1>3 DEF GetErr

LEMMA SessionOkInv ==
    ASSUME RoutingInv, stage' = stage, SessionOk
    PROVE  RoutingInv'
<1>1. /\ UNCHANGED <<stage, query, ordered, job, response, fetched, options, seen>>
      /\ pc # "done" /\ fetched' \in Jobs /\ ~fetched'.failed
      /\ options' \in [ordered : BOOLEAN, limit : Int]
      /\ tries' \in 0 .. MaxTries /\ blame' \in Failings \cup {"none"}
  BY RoutingTypes, RoutingAssumption DEF SessionOk, RoutingInv, PendingInv
<1>2. ASSUME pc = "table", NEW n \in SessionStreams(MaxStreamCount(options)), Return(OkTable(n))
      PROVE  RoutingInv'
  <2>1. /\ stage \in {"table", "query"}
        /\ stage = "query" => job = "done" /\ seen # {}
        /\ options.ordered = ordered /\ options.limit \in Int
    BY <1>2, WhichCall, RoutingTypes DEF Places, RoutingInv, PlaceInv, SentInv
  <2>2. MaxStreamCount(options) \in Int
    BY <2>1, RoutingAssumption DEF MaxStreamCount
  <2>3. n \in Nat /\ (ordered => n <= 1)
    BY <1>2, <2>1, <2>2, RoutingAssumption DEF SessionStreams, MaxStreamCount
  <2>4. pc' = "done" /\ result' = [kind |-> "ok", page |-> 0, from |-> None, switch |-> FALSE, table |-> TRUE,
                                   streams |-> n, schema |-> "typed", py |-> FALSE]
    BY <1>2 DEF Return, OkTable
  <2>5. result' \in Results
    BY <2>3, <2>4, RoutingAssumption DEF Results
  <2>6. ResultCoversRows'
    <3>1. SUFFICES ASSUME NEW i \in 0 .. query.rows - 1
                   PROVE  Copies(i)' = 1
      BY <1>1 DEF ResultCoversRows
    <3>2. ~(i < 0)
      BY RoutingTypes, RoutingAssumption
    <3> QED
      BY <2>4, <3>2 DEF Copies
  <2>7. result'.kind = "ok" /\ ~result'.switch /\ result'.streams = n /\ result'.schema = "typed"
    BY <2>4
  <2> QED
    BY <1>1, <2>1, <2>3, <2>4, <2>5, <2>6, <2>7, ResultKeepsInv
<1>3. CASE pc = "session" /\ Return(Empty("typed"))
  <2>1. stage = "query" /\ seen # {} /\ job = "done" /\ query.rows = 0
    BY <1>3, WhichCall DEF Places, RoutingInv, PlaceInv
  <2> QED
    BY <1>1, <1>3, <2>1, EmptyResultInv
<1> QED
  BY <1>2, <1>3 DEF SessionOk

LEMMA SessionUnreadableInv ==
    ASSUME RoutingInv, stage' = stage, SessionUnreadable
    PROVE  RoutingInv'
<1>1. /\ stage \in {"table", "query"} /\ pc # "done" /\ Local
      /\ stage = "query" => response.type # "SCRIPT"
      /\ stage = "table" => query.type = "SELECT"
  BY WhichCall DEF Places, SessionUnreadable, RoutingInv, PlaceInv, StageInv, NoQuery
<1>2. response.type # "SCRIPT"
  BY <1>1 DEF RoutingInv, AnswerInv
<1>3. PICK e \in {"Protocol", "Other"} : Return(Err(e, FALSE))
  BY DEF SessionUnreadable
<1>4. e \in Errors
  BY <1>3 DEF Errors
<1> QED
  BY <1>1, <1>2, <1>3, <1>4, LocalFacts, ErrorKeepsInv

\* A request that is sent again leaves the call where it is.
LEMMA RetryKeepsInv ==
    ASSUME RoutingInv, pc # "done", Retry(pc),
           UNCHANGED <<stage, query, ordered, job, response, fetched, options, seen>>
    PROVE  RoutingInv'
<1>1. pc' = pc /\ result' = result /\ blame' = blame /\ tries' \in 0 .. MaxTries
  BY RoutingTypes, RoutingAssumption DEF Retry
<1>2. RoutingTypeOK'
  BY <1>1 DEF RoutingInv, RoutingTypeOK
<1>3. StageInv' /\ PendingInv' /\ SentInv' /\ AnswerInv' /\ PlaceInv'
  BY <1>1 DEF RoutingInv, StageInv, PendingInv, SentInv, AnswerInv, PlaceInv, RequestId
<1>4. ResultInv'
  BY <1>1 DEF RoutingInv, ResultInv, ResultCoversRows, Copies, OrderedReadHasOneStream, SelectHasSchema,
       ScriptIsServed, HasReference, Unreadable, HasPage
<1> QED
  BY <1>2, <1>3, <1>4 DEF RoutingInv

LEMMA SessionErrInv ==
    ASSUME RoutingInv, stage' = stage, SessionErr
    PROVE  RoutingInv'
<1>1. stage \in {"table", "dry", "query"} /\ pc # "done"
  BY WhichCall DEF Places, SessionErr
<1>2. PICK w \in Failings : Retry(pc) \/ GiveUp(w, RpcError(w))
  BY DEF SessionErr
<1>3. CASE Retry(pc)
  BY <1>1, <1>3, RetryKeepsInv DEF SessionErr
<1>4. CASE GiveUp(w, RpcError(w))
  BY <1>1, <1>4, RequestErrors, GiveUpKeepsInv DEF SessionErr
<1> QED
  BY <1>2, <1>3, <1>4

-----------------------------------------------------------------------------
(* The calls around Query::read *)

LEMMA DryRunAnsweredInv ==
    ASSUME RoutingInv, DryRunAnswered
    PROVE  RoutingInv'
<1>a. /\ UNCHANGED <<stage, query, ordered, job, response, fetched, options, seen, blame>>
      /\ pc = "dry" /\ tries' = 0
  BY DEF DryRunAnswered
<1>b. stage = "dry" /\ ~fetched.failed /\ query = NoQuery
  BY <1>a, WhichCall DEF RoutingInv, PendingInv, StageInv
<1>c. query.rows = 0 /\ query.type = "SELECT"
  BY <1>b DEF NoQuery
<1>1. /\ fetched' \in Jobs /\ ~fetched'.failed
      /\ options' \in [ordered : BOOLEAN, limit : Int]
      /\ tries' \in 0 .. MaxTries /\ blame' \in Failings \cup {"none"}
  BY <1>a, <1>b, RoutingTypes, RoutingAssumption
<1>2. CASE Return(Empty("typed"))
  BY <1>a, <1>b, <1>c, <1>1, <1>2, EmptyResultInv
<1>3. CASE Return(Err("Other", FALSE))
  BY <1>a, <1>b, <1>1, <1>3, ErrorKeepsInv DEF Errors
<1> QED
  BY <1>2, <1>3 DEF DryRunAnswered

LEMMA DryRunErrInv ==
    ASSUME RoutingInv, DryRunErr
    PROVE  RoutingInv'
<1>1. stage \in {"table", "dry", "query"} /\ pc = "dry"
  BY WhichCall DEF DryRunErr
<1>2. PICK w \in Failings : Retry("dry") \/ GiveUp(w, MapQueryError(w))
  BY DEF DryRunErr
<1>3. CASE Retry("dry")
  BY <1>1, <1>3, RetryKeepsInv DEF DryRunErr
<1>4. CASE GiveUp(w, MapQueryError(w))
  BY <1>1, <1>4, RequestErrors, GiveUpKeepsInv DEF DryRunErr
<1> QED
  BY <1>2, <1>3, <1>4

\* The end of a job cannot spoil what was found out before: nothing is complete
\* while the job is running.
LEMMA JobEndsInv ==
    ASSUME RoutingInv, stage' = stage, JobEnds
    PROVE  RoutingInv'
<1>1. /\ job = "running" /\ job' \in {"failed", "done"} /\ stage = "query"
      /\ UNCHANGED <<query, ordered, response, pc, fetched, result, options, seen, tries, blame>>
  BY DEF JobEnds, rpcVars, RoutingInv, StageInv
<1>2. RoutingTypeOK'
  BY <1>1 DEF RoutingInv, RoutingTypeOK
<1>3. StageInv' /\ PendingInv' /\ SentInv' /\ AnswerInv' /\ PlaceInv'
  BY <1>1 DEF RoutingInv, StageInv, PendingInv, SentInv, AnswerInv, PlaceInv, RequestId
<1>4. ResultInv'
  BY <1>1 DEF RoutingInv, ResultInv, ResultCoversRows, Copies, OrderedReadHasOneStream, SelectHasSchema,
       ScriptIsServed, HasReference, Unreadable, HasPage
<1> QED
  BY <1>2, <1>3, <1>4 DEF RoutingInv

\* Between calls all is as in the beginning.
Outside == {"new", "idle", "failed", "returned"}

LEMMA NoCallInv ==
    ASSUME NoCall, stage \in Outside
    PROVE  RoutingInv
<1>1. /\ NoQuery \in Queries /\ NoResponse \in Responses /\ NoJob \in Jobs /\ Pending \in Results
      /\ NoOptions \in [ordered : BOOLEAN, limit : Int] /\ 0 \in 0 .. MaxTries
  <2>1. 0 \in 0 .. MaxRows /\ 0 \in 0 .. MaxTries
    BY RoutingAssumption
  <2>2. NoQuery \in Queries
    BY <2>1 DEF NoQuery, Queries, Types
  <2>3. NoResponse \in Responses
    BY <2>1 DEF NoResponse, Responses, References
  <2>4. NoJob \in Jobs
    BY DEF NoJob, Jobs, Types
  <2>5. Pending \in Results
    BY <2>1 DEF Pending, Err, Results
  <2>6. NoOptions \in [ordered : BOOLEAN, limit : Int]
    BY DEF NoOptions, None
  <2> QED
    BY <2>1, <2>2, <2>3, <2>4, <2>5, <2>6
<1>2. RoutingTypeOK
  BY <1>1 DEF NoCall, RoutingTypeOK
<1>3. Pending.kind = "pending" /\ ~NoJob.failed /\ NoResponse.type = "" /\ ~NoResponse.complete
      /\ NoResponse.schema = "none"
  BY DEF Pending, Err, NoJob, NoResponse
<1>4. StageInv /\ PendingInv /\ SentInv /\ AnswerInv /\ PlaceInv
  BY <1>3 DEF NoCall, StageInv, PendingInv, SentInv, AnswerInv, PlaceInv, Outside
<1>5. ResultInv
  BY <1>3 DEF NoCall, ResultInv, ResultCoversRows, OrderedReadHasOneStream, SelectHasSchema, ScriptIsServed
<1> QED
  BY <1>2, <1>4, <1>5 DEF RoutingInv

LEMMA EndOfCallInv ==
    ASSUME EndOfCall, stage' \in Outside
    PROVE  RoutingInv'
<1>1. NoCall'
  BY DEF EndOfCall, NoCall
<1>2. (NoCall /\ stage \in Outside => RoutingInv)'
  BY NoCallInv, PTL
<1> QED
  BY <1>1, <1>2

\* Steps outside of Query::read: parsing, raising, and going on.
LEMMA OutsideInv ==
    ASSUME RoutingInv, stage \in Outside, stage' \in Outside, UNCHANGED routingVars
    PROVE  RoutingInv'
<1>1. UNCHANGED <<query, ordered, job, response, pc, fetched, result, options, seen, tries, blame>>
  BY DEF routingVars, rpcVars
<1>2. RoutingTypeOK'
  BY <1>1 DEF RoutingInv, RoutingTypeOK
<1>3. StageInv' /\ PendingInv' /\ SentInv' /\ AnswerInv' /\ PlaceInv'
  BY <1>1 DEF RoutingInv, StageInv, PendingInv, SentInv, AnswerInv, PlaceInv, RequestId, Outside
<1>4. ResultInv'
  BY <1>1 DEF RoutingInv, ResultInv, ResultCoversRows, Copies, OrderedReadHasOneStream, SelectHasSchema,
       ScriptIsServed, HasReference, Unreadable, HasPage, Outside
<1> QED
  BY <1>2, <1>3, <1>4 DEF RoutingInv

\* A call begins from a state in which nothing has happened.
LEMMA IdleFacts ==
    ASSUME RoutingInv, stage = "idle"
    PROVE  /\ query = NoQuery /\ seen = {} /\ job = "running" /\ response = NoResponse /\ pc = "idle"
           /\ result = Pending /\ ~fetched.failed
           /\ NoResponse.type = "" /\ ~NoResponse.complete /\ NoResponse.schema = "none"
           /\ Pending.kind = "pending" /\ ~Pending.switch
BY DEF RoutingInv, StageInv, PendingInv, NoResponse, Pending, Err

LEMMA ReadTableInv ==
    ASSUME RoutingInv, ReadTable
    PROVE  RoutingInv'
<1>1. /\ stage = "idle" /\ stage' = "table" /\ pc' = "table"
      /\ UNCHANGED <<query, job, response, fetched, result, seen, tries, blame>>
  BY DEF ReadTable, rpcVars
<1>2. options' \in [ordered : BOOLEAN, limit : Int] /\ ordered' \in BOOLEAN /\ options'.ordered = ordered'
  BY CallAssumption DEF ReadTable, None
<1>3. RoutingTypeOK'
  BY <1>1, <1>2 DEF RoutingInv, RoutingTypeOK
<1>4. StageInv' /\ PendingInv' /\ SentInv' /\ AnswerInv' /\ PlaceInv'
  BY <1>1, <1>2, IdleFacts DEF RoutingInv, StageInv, PendingInv, SentInv, AnswerInv, PlaceInv, RequestId
<1>5. ResultInv'
  BY <1>1, IdleFacts DEF ResultInv, ResultCoversRows, OrderedReadHasOneStream, SelectHasSchema, ScriptIsServed
<1> QED
  BY <1>3, <1>4, <1>5 DEF RoutingInv

LEMMA ReadQueryInv ==
    ASSUME RoutingInv, ReadQuery
    PROVE  RoutingInv'
<1>1. /\ stage = "idle" /\ stage' = "query" /\ pc' = "send" /\ query' \in Queries /\ ordered' \in BOOLEAN
      /\ UNCHANGED <<job, response, fetched, result, options, seen, tries, blame>>
  BY DEF ReadQuery, WithOptions, rpcVars
<1>2. RoutingTypeOK'
  BY <1>1 DEF RoutingInv, RoutingTypeOK
<1>3. StageInv' /\ PendingInv' /\ SentInv' /\ AnswerInv' /\ PlaceInv'
  BY <1>1, IdleFacts DEF RoutingInv, StageInv, PendingInv, SentInv, AnswerInv, PlaceInv, RequestId
<1>4. ResultInv'
  BY <1>1, IdleFacts DEF ResultInv, ResultCoversRows, OrderedReadHasOneStream, SelectHasSchema, ScriptIsServed
<1> QED
  BY <1>2, <1>3, <1>4 DEF RoutingInv

LEMMA DryRunInv ==
    ASSUME RoutingInv, DryRun
    PROVE  RoutingInv'
<1>1. /\ stage = "idle" /\ stage' = "dry" /\ pc' = "dry"
      /\ UNCHANGED <<query, ordered, job, response, fetched, result, options, seen, tries, blame>>
  BY DEF DryRun, rpcVars
<1>2. RoutingTypeOK'
  BY <1>1 DEF RoutingInv, RoutingTypeOK
<1>3. StageInv' /\ PendingInv' /\ SentInv' /\ AnswerInv' /\ PlaceInv'
  BY <1>1, IdleFacts DEF RoutingInv, StageInv, PendingInv, SentInv, AnswerInv, PlaceInv, RequestId
<1>4. ResultInv'
  BY <1>1, IdleFacts DEF ResultInv, ResultCoversRows, OrderedReadHasOneStream, SelectHasSchema, ScriptIsServed
<1> QED
  BY <1>2, <1>3, <1>4 DEF RoutingInv

-----------------------------------------------------------------------------

LEMMA RoutingNextInv ==
    ASSUME RoutingInv, stage' = stage, RoutingNext
    PROVE  RoutingInv'
BY DeliverInv, SendInv, SendErrInv, RouteInv, ParseErrInv, StreamSchemaInv, StreamEndInv, StreamErrInv,
   StreamSchemaErrInv, GetTableInv, GetEmptyInv, GetErrorInv, GetErrInv, SessionOkInv, SessionUnreadableInv,
   SessionErrInv
   DEF RoutingNext

LEMMA CallsInv ==
    ASSUME RoutingInv, Calls
    PROVE  RoutingInv'
<1>1. CASE NewClient \/ NewTable \/ ParseText \/ ParseReference \/ BadArgument
  <2>1. stage \in Outside /\ stage' \in Outside /\ UNCHANGED routingVars
    BY <1>1 DEF NewClient, NewTable, ParseText, ParseReference, BadArgument, Fail, Raise, Outside
  <2> QED
    BY <2>1, OutsideInv
<1>2. CASE ReadTable \/ ReadQuery \/ DryRun
  BY <1>2, ReadTableInv, ReadQueryInv, DryRunInv
<1> QED
  BY <1>1, <1>2 DEF Calls

LEMMA ReturnsInv ==
    ASSUME RoutingInv, Returns \/ GoOn
    PROVE  RoutingInv'
<1>1. CASE ReturnExporter \/ ReturnError
  <2>1. EndOfCall /\ stage' \in Outside
    BY <1>1 DEF ReturnExporter, ReturnError, Fail, Outside
  <2> QED
    BY <2>1, EndOfCallInv
<1>2. CASE RaiseWrapped \/ RaisePlain \/ RaiseJobFailed \/ GoOn
  <2>1. stage \in Outside /\ stage' \in Outside /\ UNCHANGED routingVars
    BY <1>2 DEF RaiseWrapped, RaisePlain, RaiseJobFailed, GoOn, Outside
  <2> QED
    BY <2>1, OutsideInv
<1> QED
  BY <1>1, <1>2 DEF Returns

\* The invariant is inductive.
THEOREM RoutingCorrect == Spec => []RoutingInv
<1>1. Init => RoutingInv
  BY NoCallInv DEF Init, Outside
<1>2. ASSUME RoutingInv, [Next]_vars
      PROVE  RoutingInv'
  <2>1. CASE Calls
    BY <1>2, <2>1, CallsInv
  <2>2. CASE Step
    BY <1>2, <2>2, RoutingNextInv, DryRunAnsweredInv, DryRunErrInv DEF Step
  <2>3. CASE ServiceStep
    BY <1>2, <2>3, JobEndsInv DEF ServiceStep
  <2>4. CASE Returns \/ GoOn
    BY <1>2, <2>4, ReturnsInv
  <2>5. CASE UNCHANGED vars
    <3>1. stage' = stage /\ UNCHANGED <<query, ordered, job, response, pc, fetched, result, options, seen, tries, blame>>
      BY <2>5 DEF vars, routingVars, rpcVars
    <3>2. RoutingTypeOK'
      BY <1>2, <3>1 DEF RoutingInv, RoutingTypeOK
    <3>3. StageInv' /\ PendingInv' /\ SentInv' /\ AnswerInv' /\ PlaceInv'
      BY <1>2, <3>1 DEF RoutingInv, StageInv, PendingInv, SentInv, AnswerInv, PlaceInv, RequestId
    <3>4. ResultInv'
      BY <1>2, <3>1 DEF RoutingInv, ResultInv, ResultCoversRows, Copies, OrderedReadHasOneStream, SelectHasSchema,
           ScriptIsServed, HasReference, Unreadable, HasPage
    <3> QED
      BY <3>2, <3>3, <3>4 DEF RoutingInv
  <2> QED
    BY <1>2, <2>1, <2>2, <2>3, <2>4, <2>5 DEF Next
<1> QED
  BY <1>1, <1>2, PTL DEF Spec

\* The types outside of Query::read, of which ClientTypes says that a call runs
\* only for a client that was created.
CallTypes ==
    /\ error.kind \in Kinds \cup {"pending"}
    /\ why \in Failings \cup {"none", "job", "client"}
    /\ raised.type \in {"none", "ValueError", "BigQueryError"}

ClientTypes ==
    /\ stage \in {"new", "idle", "table", "query", "dry", "failed", "returned"}
    /\ client \in [quota : {"none", "project"}, provider : BOOLEAN]
    /\ stage \in {"idle", "table", "query", "dry"} => client # NoClient

LEMMA ClientTyped == ASSUME RoutingInv, ClientTypes, [Next]_vars PROVE ClientTypes'
<1>1. CASE NewClient
  <2>1. PICK quota \in {"empty", "blank", "project"}, provider \in BOOLEAN :
            \/ stage' = "failed" /\ client' = client
            \/ /\ ~IsBlankQuota(quota) /\ stage' = "idle"
               /\ client' = FromParts(quota, provider)
    BY <1>1 DEF NewClient, Fail
  <2>2. CASE stage' = "failed" /\ client' = client
    BY <2>2 DEF ClientTypes
  <2>3. CASE ~IsBlankQuota(quota) /\ stage' = "idle" /\ client' = FromParts(quota, provider)
    <3>1. quota = "project"
      BY <2>3 DEF IsBlankQuota
    <3>2. FromParts("project", provider) \in [quota : {"none", "project"}, provider : BOOLEAN]
      BY Zenon DEF FromParts
    <3>3. FromParts("project", provider).quota # NoClient.quota
      BY DEF FromParts, NoClient
    <3> QED
      BY <2>3, <3>1, <3>2, <3>3 DEF ClientTypes
  <2> QED
    BY <2>1, <2>2, <2>3
<1>2. CASE GoOn
  BY <1>2 DEF GoOn, ClientTypes
<1>3. CASE NewTable \/ ParseText \/ ParseReference \/ BadArgument \/ ReadTable \/ ReadQuery \/ DryRun
  BY <1>3 DEF NewTable, ParseText, ParseReference, BadArgument, ReadTable, ReadQuery, DryRun, Raise, ClientTypes
<1>4. CASE Returns
  BY <1>4 DEF Returns, ReturnExporter, ReturnError, RaiseWrapped, RaisePlain, RaiseJobFailed, Fail, ClientTypes
<1>5. CASE Step \/ ServiceStep \/ UNCHANGED vars
  <2>1. UNCHANGED <<stage, client>>
    BY <1>5 DEF Step, ServiceStep, DryRunAnswered, DryRunErr, vars
  <2> QED
    BY <2>1 DEF ClientTypes
<1> QED
  BY <1>1, <1>2, <1>3, <1>4, <1>5 DEF Next, Calls

LEMMA CallTyped == ASSUME RoutingInv, CallTypes, [Next]_vars PROVE CallTypes'
<1>1. /\ Err("InvalidConfig", FALSE).kind = "InvalidConfig"
      /\ Err("ClientBuilder", FALSE).kind = "ClientBuilder"
  BY DEF Err
<1>2. \A type : [NoException EXCEPT !.type = type].type = type
  BY DEF NoException
<1>3. \A err : ToPyErr(err).type \in {"ValueError", "BigQueryError"}
  BY DEF ToPyErr
<1>4. CASE UNCHANGED <<error, why, raised>>
  BY <1>4 DEF CallTypes
<1>5. CASE NewClient
  <2>1. \/ UNCHANGED <<error, why, raised>>
        \/ /\ error' \in {Err("InvalidConfig", FALSE), Err("ClientBuilder", FALSE)}
           /\ why' = "client" /\ raised' = raised
    BY <1>5 DEF NewClient, Fail, callVars
  <2>2. error'.kind \in {error.kind, "InvalidConfig", "ClientBuilder"}
    BY <1>1, <2>1
  <2> QED
    BY <2>1, <2>2 DEF CallTypes, Kinds
<1>6. CASE BadArgument
  BY <1>2, <1>6 DEF BadArgument, Raise, CallTypes
<1>7. CASE ReturnError
  <2>1. result.kind \in {"pending", "ok"} \cup Errors /\ blame \in Failings \cup {"none"}
    BY DEF RoutingInv, RoutingTypeOK, Results
  <2>2. error'.kind \in Kinds \cup {"pending"}
    BY <1>7, <2>1 DEF ReturnError, Fail, Errors, Kinds
  <2> QED
    BY <1>7, <2>1, <2>2 DEF ReturnError, Fail, CallTypes
<1>8. CASE RaiseWrapped \/ RaisePlain \/ RaiseJobFailed
  <2>1. UNCHANGED <<error, why>> /\ \E err : raised' = ToPyErr(err)
    BY <1>8 DEF RaiseWrapped, RaisePlain, RaiseJobFailed
  <2> QED
    BY <1>3, <2>1 DEF CallTypes
<1>9. CASE GoOn
  <2>1. NoException.type = "none" /\ NoError.kind = "pending"
    BY DEF NoException, NoError, Err
  <2> QED
    BY <1>9, <2>1 DEF GoOn, Cleared, CallTypes
<1>10. CASE NewTable \/ ParseText \/ ParseReference \/ ReadTable \/ ReadQuery \/ DryRun \/ ReturnExporter
  BY <1>4, <1>10 DEF NewTable, ParseText, ParseReference, ReadTable, ReadQuery, DryRun, ReturnExporter, callVars
<1>11. CASE Step \/ ServiceStep \/ UNCHANGED vars
  BY <1>4, <1>11 DEF Step, ServiceStep, DryRunAnswered, DryRunErr, vars, callVars
<1> QED
  BY <1>5, <1>6, <1>7, <1>8, <1>9, <1>10, <1>11 DEF Next, Calls, Returns

\* Type correctness; a call runs only for a client with a project to be billed.
THEOREM TypeCorrect == Spec => []TypeOK
<1>1. Init => ClientTypes /\ CallTypes
  <2>1. NoClient \in [quota : {"none", "project"}, provider : BOOLEAN]
    BY Zenon DEF NoClient
  <2>2. NoException.type = "none" /\ NoError.kind = "pending"
    BY DEF NoException, NoError, Err
  <2> QED
    BY <2>1, <2>2 DEF Init, ClientTypes, CallTypes
<1>2. RoutingInv /\ ClientTypes /\ CallTypes => TypeOK
  BY DEF RoutingInv, ClientTypes, CallTypes, TypeOK
<1> QED
  BY <1>1, <1>2, RoutingCorrect, ClientTyped, CallTyped, PTL DEF Spec

\* Whatever the response of jobs.query leaves out, the sources that Query::read
\* chooses bring every row of the query exactly once.
THEOREM RowsCovered == Spec => []ResultCoversRows
<1>1. RoutingInv => ResultCoversRows
  BY DEF RoutingInv, ResultInv
<1> QED
  BY <1>1, RoutingCorrect, PTL

\* The failure of a job is never taken for a result, and is reported once
\* jobs.get has shown it.
THEOREM FailureReported == Spec => []FailedJobIsReported
<1>1. RoutingInv => FailedJobIsReported
  BY DEF RoutingInv, ResultInv, StageInv, FailedJobIsReported
<1> QED
  BY <1>1, RoutingCorrect, PTL

\* With maintain_order a read has one stream, whatever max_stream_count is.
THEOREM OrderKept == Spec => []OrderedReadHasOneStream
<1>1. RoutingInv => OrderedReadHasOneStream
  BY DEF RoutingInv, ResultInv
<1> QED
  BY <1>1, RoutingCorrect, PTL

\* An empty SELECT still has its columns.
THEOREM SchemaFound == Spec => []SelectHasSchema
<1>1. RoutingInv => SelectHasSchema
  BY DEF RoutingInv, ResultInv
<1> QED
  BY <1>1, RoutingCorrect, PTL

\* A script is not sent to a destination table it does not have.
THEOREM ScriptServed == Spec => []ScriptIsServed
<1>1. RoutingInv => ScriptIsServed
  BY DEF RoutingInv, ResultInv
<1> QED
  BY <1>1, RoutingCorrect, PTL

\* However often a request is sent, the service runs the query once.
THEOREM RunsOnce == Spec => []QueryRunsOnce
<1>1. RoutingInv => QueryRunsOnce
  <2>1. SUFFICES ASSUME RoutingInv PROVE QueryRunsOnce
    OBVIOUS
  <2>2. seen \subseteq {RequestId}
    BY <2>1 DEF RoutingInv, SentInv
  <2>3. seen = {} \/ seen = {RequestId}
    BY <2>2
  <2>4. Cardinality(seen) <= 1
    <3>1. Cardinality({}) = 0 /\ Cardinality({RequestId}) = 1
      BY FS_EmptySet, FS_Singleton, Zenon
    <3> QED
      BY <2>3, <3>1
  <2>5. stage = "query" /\ result.kind = "ok" => seen # {}
    <3>1. pc # "done" => result.kind = "pending"
      BY <2>1 DEF RoutingInv, PendingInv, Pending, Err
    <3> QED
      BY <2>1, <3>1 DEF RoutingInv, SentInv
  <2>6. stage \in {"dry", "table"} => seen = {}
    BY <2>1 DEF RoutingInv, StageInv
  <2> QED
    BY <2>4, <2>5, <2>6 DEF QueryRunsOnce
<1> QED
  BY <1>1, RoutingCorrect, PTL

-----------------------------------------------------------------------------
(* The exception of a credentials provider.                                *)

\* The loop over source() finds a Python exception if there is one.
LEMMA PyCauseFound ==
    ASSUME NEW causes \in Seq(Causes), NEW i \in DOMAIN causes, causes[i].py,
           NEW kind, NEW failure
    PROVE  PyCause(BigQueryError(kind, causes, failure)) # 0
<1> DEFINE I == {k \in 1 .. Len(causes) : causes[k].py}
<1>1. I # {} /\ I \subseteq Nat \ {0}
  OBVIOUS
<1>2. \E x \in I : \A y \in I : x <= y
  BY <1>1, LeastNatural
<1>3. Min(I) \in I
  BY <1>2 DEF Min
<1>4. BigQueryError(kind, causes, failure).causes = causes
  BY DEF BigQueryError
<1>5. PyCause(BigQueryError(kind, causes, failure)) = Min(I)
  BY <1>1, <1>4 DEF PyCause, SelectInSeq
<1> QED
  BY <1>1, <1>3, <1>5

\* What is blamed on the provider is the error of the request that failed of it,
\* from the request through jobs.get, which may show a failed job instead, to
\* the exception.
BlameInv ==
    /\ blame = "provider" => pc \in {"get_error", "done"}
    /\ blame = "provider" /\ pc = "done" => fetched.failed \/ result = RpcError("provider")

CauseInv ==
    /\ BlameInv
    /\ why = "provider" => stage \in {"failed", "returned"}
    /\ stage = "failed" /\ why = "provider" => error = RpcError("provider")
    /\ PythonCauseIsKept

LEMMA GiveUpBlames ==
    ASSUME NEW w \in Failings, GiveUp(w, RpcError(w)) \/ GiveUp(w, MapQueryError(w))
    PROVE  BlameInv'
BY DEF GiveUp, Return, BlameInv, MapQueryError, RpcError

LEMMA RoutingBlames ==
    ASSUME BlameInv, RoutingNext \/ DryRunAnswered \/ DryRunErr
    PROVE  BlameInv'
<1>1. ASSUME blame' = blame, pc \notin {"get_error", "done"} PROVE BlameInv'
  BY <1>1 DEF BlameInv
<1>2. CASE Deliver \/ Send \/ Route \/ ParseErr
  BY <1>1, <1>2 DEF Deliver, Send, Route, ParseErr, Local, rpcVars
<1>3. CASE StreamSchema \/ StreamEnd \/ StreamSchemaErr \/ SessionOk \/ SessionUnreadable
  BY <1>1, <1>3 DEF StreamSchema, StreamEnd, StreamSchemaErr, SessionOk, SessionUnreadable,
                    Local, rpcVars
<1>4. CASE GetTable \/ GetEmpty \/ DryRunAnswered
  BY <1>1, <1>4 DEF GetTable, GetEmpty, Get, DryRunAnswered, rpcVars
<1>5. CASE SendErr
  <2>1. PICK w \in Failings : /\ pc = IF w = "provider" THEN "send" ELSE "sent"
                              /\ Retry("send") \/ GiveUp(w, MapQueryError(w))
    BY <1>5 DEF SendErr
  <2> QED
    BY <1>1, <2>1, GiveUpBlames DEF Retry
<1>6. CASE SessionErr
  <2>1. PICK w \in Failings : Retry(pc) \/ GiveUp(w, RpcError(w))
    BY <1>6 DEF SessionErr
  <2> QED
    BY <1>1, <1>6, <2>1, GiveUpBlames DEF SessionErr, Retry
<1>7. CASE DryRunErr
  <2>1. PICK w \in Failings : Retry("dry") \/ GiveUp(w, MapQueryError(w))
    BY <1>7 DEF DryRunErr
  <2> QED
    BY <1>1, <1>7, <2>1, GiveUpBlames DEF DryRunErr, Retry
<1>8. CASE StreamErr
  BY <1>8 DEF StreamErr, Await, Return, BlameInv
<1>9. CASE GetError
  BY <1>9 DEF GetError, Get, JobError, ReturnOnly, Return, rpcVars, BlameInv
<1>10. CASE GetErr
  <2>1. CASE \E w \in Failings : GiveUp(w, RpcError(w))
    BY <2>1, GiveUpBlames
  <2>2. CASE Return(RpcError(blame)) /\ UNCHANGED <<tries, blame>>
    BY <2>2 DEF Return, BlameInv
  <2> QED
    BY <1>10, <2>1, <2>2 DEF GetErr
<1> QED
  BY <1>2, <1>3, <1>4, <1>5, <1>6, <1>7, <1>8, <1>9, <1>10 DEF RoutingNext

LEMMA CausesBegin == ASSUME RoutingInv, CauseInv, Calls PROVE CauseInv'
<1>1. stage \in {"new", "idle"} /\ why # "provider"
  BY DEF Calls, NewClient, NewTable, ParseText, ParseReference, BadArgument, ReadTable,
         ReadQuery, DryRun, CauseInv
<1>2. pc = "idle" /\ blame # "provider"
  BY <1>1 DEF RoutingInv, StageInv, CauseInv, BlameInv
<1>3. blame' = blame
  BY DEF Calls, NewClient, NewTable, ParseText, ParseReference, BadArgument, ReadTable,
         ReadQuery, DryRun, routingVars, rpcVars
<1>4. why' # "provider"
  BY <1>1 DEF Calls, NewClient, NewTable, ParseText, ParseReference, BadArgument, ReadTable,
         ReadQuery, DryRun, Fail, Raise, callVars
<1> QED
  BY <1>2, <1>3, <1>4 DEF CauseInv, BlameInv, PythonCauseIsKept

LEMMA CausesEnd == ASSUME RoutingInv, CauseInv, Returns \/ GoOn PROVE CauseInv'
<1>1. CASE ReturnExporter
  <2>1. stage # "failed" /\ stage # "returned"
    BY <1>1 DEF ReturnExporter, RoutingInv, StageInv
  <2> QED
    BY <1>1, <2>1 DEF ReturnExporter, EndOfCall, CauseInv, BlameInv, PythonCauseIsKept
<1>2. CASE ReturnError
  <2>1. stage' = "failed" /\ blame' = "none" /\ error' = result
        /\ why' = IF fetched.failed THEN "job" ELSE blame
    BY <1>2 DEF ReturnError, Fail, EndOfCall
  <2>2. why' = "provider" => error' = RpcError("provider")
    BY <1>2, <2>1 DEF ReturnError, CauseInv, BlameInv
  <2> QED
    BY <2>1, <2>2 DEF CauseInv, BlameInv, PythonCauseIsKept
<1>3. CASE GoOn
  BY <1>3 DEF GoOn, Cleared, routingVars, rpcVars, CauseInv, BlameInv, PythonCauseIsKept
<1>4. ASSUME stage = "failed", stage' = "returned", UNCHANGED <<routingVars, error, why>>,
             why = "provider" => raised'.cause # 0
      PROVE  CauseInv'
  BY <1>4 DEF routingVars, rpcVars, CauseInv, BlameInv, PythonCauseIsKept
<1>5. why = "provider" /\ stage = "failed" => error.kind = "Grpc" /\ error.py = TRUE
  <2>1. RpcError("provider").kind = "Grpc"
    BY DEF RpcError, Err
  <2>2. RpcError("provider").py = TRUE
    BY Zenon DEF RpcError, Err
  <2> QED
    BY <2>1, <2>2 DEF CauseInv
<1>6. CASE RaisePlain \/ RaiseJobFailed
  <2>1. stage = "failed" /\ error.kind # "Grpc"
    BY <1>6 DEF RaisePlain, RaiseJobFailed
  <2> QED
    BY <1>4, <1>5, <1>6, <2>1 DEF RaisePlain, RaiseJobFailed
<1>7. CASE RaiseWrapped
  <2>1. stage = "failed" /\ stage' = "returned" /\ UNCHANGED <<routingVars, error, why>>
        /\ error.kind \in Wrapping
    BY <1>7 DEF RaiseWrapped
  <2>2. PICK causes \in BoundedSeq(Causes, MaxCauses) :
            /\ error.py = \E i \in DOMAIN causes : causes[i].py
            /\ raised' = ToPyErr(BigQueryError(error.kind, causes, NoFailure))
    BY <1>7 DEF RaiseWrapped
  <2>3. causes \in Seq(Causes)
    BY <2>2 DEF BoundedSeq, SeqOf
  <2>4. ASSUME why = "provider" PROVE raised'.cause # 0
    <3>1. error.kind = "Grpc" /\ \E i \in DOMAIN causes : causes[i].py
      BY <1>5, <2>1, <2>2, <2>4
    <3>2. PyCause(BigQueryError(error.kind, causes, NoFailure)) # 0
      BY <2>3, <3>1, PyCauseFound
    <3>3. BigQueryError(error.kind, causes, NoFailure).kind = error.kind
      BY DEF BigQueryError
    <3> QED
      BY <2>2, <3>1, <3>2, <3>3 DEF ToPyErr
  <2> QED
    BY <1>4, <2>1, <2>4
<1> QED
  BY <1>1, <1>2, <1>3, <1>6, <1>7 DEF Returns

\* The exception that a credentials provider raised is the __cause__ of what the
\* call raises, whichever of its requests failed of it and whatever errors wrap
\* it: to_py_err looks through the whole chain of causes.
THEOREM CauseKept == Spec => []PythonCauseIsKept
<1>1. Init => CauseInv
  BY DEF Init, NoCall, CauseInv, BlameInv, PythonCauseIsKept
<1>2. ASSUME RoutingInv, CauseInv, [Next]_vars PROVE CauseInv'
  <2>1. CASE Step
    <3>1. UNCHANGED <<stage, error, why, raised>>
      BY <2>1 DEF Step, DryRunAnswered, DryRunErr, callVars
    <3>2. BlameInv'
      BY <1>2, <2>1, RoutingBlames DEF Step, CauseInv
    <3> QED
      BY <1>2, <3>1, <3>2 DEF CauseInv, PythonCauseIsKept
  <2>2. CASE ServiceStep \/ UNCHANGED vars
    BY <1>2, <2>2 DEF ServiceStep, JobEnds, vars, routingVars, rpcVars, callVars, CauseInv,
                      BlameInv, PythonCauseIsKept
  <2> QED
    BY <1>2, <2>1, <2>2, CausesBegin, CausesEnd DEF Next
<1>3. CauseInv => PythonCauseIsKept
  BY DEF CauseInv
<1> QED
  BY <1>1, <1>2, <1>3, RoutingCorrect, PTL DEF Spec

-----------------------------------------------------------------------------
(* What an exception says.                                                 *)

ShownIn(text, words) == \E i \in DOMAIN text : words \subseteq text[i]

\* Nothing is said before the call returns, and then all of it is shown.
SaidInv == (stage # "returned" => said = {}) /\ FailureIsShown

\* A message that the loop leaves out is part of one that it has written.
LEMMA ChainShown ==
    ASSUME NEW err, err.causes \in Seq(Causes), NEW n \in DOMAIN err.causes
    PROVE  ShownIn(FormatCausalChain(err), err.causes[n].msg)
<1>1. PICK causes \in Seq(Causes) : causes = err.causes
  OBVIOUS
<1>2. PICK text : text = FormatCausalChain(err)
  OBVIOUS
<1>3. /\ DOMAIN causes = 1 .. Len(causes) /\ Len(causes) \in Nat
  BY LenProperties
<1>4. /\ 0 \in DOMAIN text /\ text[0] = Top(err)
      /\ \A i \in DOMAIN causes : IsWritten(causes[i].msg, PrevMsg(err, i)) =>
            i \in DOMAIN text /\ text[i] = causes[i].msg
  BY <1>1, <1>2, <1>3 DEF FormatCausalChain
<1> DEFINE T == {i \in DOMAIN causes : ~ShownIn(text, causes[i].msg)}
<1>5. ASSUME T # {} PROVE FALSE
  <2>1. T \in SUBSET Nat
    BY <1>3
  <2>2. PICK i \in T : \A j \in T : i <= j
    BY <1>5, <2>1, LeastNatural
  <2>3. i \in 1 .. Len(causes) /\ ~ShownIn(text, causes[i].msg)
    BY <1>3, <2>2
  <2>4. ~IsWritten(causes[i].msg, PrevMsg(err, i))
    BY <1>3, <1>4, <2>3 DEF ShownIn
  <2>5. causes[i].msg \subseteq PrevMsg(err, i)
    <3>1. ~(causes[i].msg \subseteq text[0])
      BY <1>4, <2>3 DEF ShownIn
    <3>2. causes[i].msg # {}
      BY <3>1
    <3> QED
      BY <2>4, <3>2 DEF IsWritten
  <2>6. CASE i = 1
    BY <1>4, <2>3, <2>5, <2>6 DEF PrevMsg, ShownIn
  <2>7. CASE i # 1
    <3>1. i - 1 \in DOMAIN causes /\ ~(i <= i - 1)
      BY <1>3, <2>3, <2>7
    <3>2. ShownIn(text, causes[i - 1].msg)
      BY <2>2, <3>1
    <3>3. causes[i].msg \subseteq causes[i - 1].msg
      BY <1>1, <2>5, <2>7 DEF PrevMsg
    <3> QED
      BY <2>3, <3>2, <3>3 DEF ShownIn
  <2> QED
    BY <2>6, <2>7
<1> QED
  BY <1>1, <1>2, <1>5

\* An error of a job that Display leaves out is the one that it begins with.
LEMMA JobShown ==
    ASSUME NEW failure, \A i \in DOMAIN failure.errors : i # 0
    PROVE  /\ ShownIn(FormatJobFailed(failure), FormatJobError(failure.error))
           /\ \A i \in DOMAIN failure.errors :
                 ShownIn(FormatJobFailed(failure), FormatJobError(failure.errors[i]))
<1>1. PICK text : text = FormatJobFailed(failure)
  OBVIOUS
<1>2. 0 \in DOMAIN text /\ text[0] = FormatJobError(failure.error)
  BY <1>1 DEF FormatJobFailed
<1>3. ASSUME NEW i \in DOMAIN failure.errors PROVE ShownIn(text, FormatJobError(failure.errors[i]))
  <2>1. CASE IsSameJobError(failure.error, failure.errors[i])
    BY <1>2, <2>1 DEF IsSameJobError, FormatJobError, ShownIn
  <2>2. CASE ~IsSameJobError(failure.error, failure.errors[i])
    <3>1. i \in DOMAIN text /\ text[i] = FormatJobError(failure.errors[i])
      BY <1>1, <2>2 DEF FormatJobFailed
    <3> QED
      BY <3>1 DEF ShownIn
  <2> QED
    BY <2>1, <2>2
<1> QED
  BY <1>1, <1>2, <1>3 DEF ShownIn

\* The message of a status and those of its details are in the failure that
\* is made of them.
LEMMA StatusShown ==
    ASSUME NEW message, NEW infos \in Seq(Infos),
           NEW failure, failure = JobFailedFromStatus(message, infos)
    PROVE  /\ DOMAIN failure.errors = IF infos = <<>> THEN {1} ELSE DOMAIN infos
           /\ message \subseteq FormatJobError(failure.error)
           /\ \A i \in DOMAIN infos :
                 FormatJobError(infos[i]) \ NoMessage \subseteq FormatJobError(failure.errors[i])
<1>1. CASE infos = <<>>
  <2>1. /\ failure.error = [NoJobError EXCEPT !.message = message]
        /\ failure.errors = <<failure.error>>
    BY <1>1 DEF JobFailedFromStatus
  <2>2. failure.error.message = message
    BY <2>1 DEF NoJobError
  <2>3. DOMAIN failure.errors = {1}
    BY <2>1
  <2>4. DOMAIN infos = {}
    BY <1>1
  <2> QED
    BY <1>1, <2>2, <2>3, <2>4 DEF FormatJobError
<1>2. CASE infos # <<>>
  <2> DEFINE Item(i) == [reason |-> infos[i].reason, location |-> infos[i].location,
                    message |-> IF infos[i].message = NoMessage THEN message ELSE infos[i].message]
             items == [i \in DOMAIN infos |-> Item(i)]
  <2>1. /\ failure.errors = items
        /\ failure.error = [items[1] EXCEPT !.message = IF message # {} THEN message ELSE @]
    BY <1>2 DEF JobFailedFromStatus
  <2>2. 1 \in DOMAIN infos
    BY <1>2, LenProperties, EmptySeq
  <2>3. message # {} => failure.error.message = message
    <3>1. items[1] = Item(1)
      BY <2>2
    <3>2. message # {} => failure.error = [Item(1) EXCEPT !.message = message]
      BY <2>1, <3>1
    <3> QED
      BY <3>2
  <2>4. ASSUME NEW i \in DOMAIN infos
        PROVE  FormatJobError(infos[i]) \ NoMessage \subseteq FormatJobError(failure.errors[i])
    <3>1. failure.errors[i] = Item(i)
      BY <2>1
    <3>2. /\ failure.errors[i].reason = infos[i].reason /\ failure.errors[i].location = infos[i].location
          /\ infos[i].message = NoMessage \/ failure.errors[i].message = infos[i].message
      BY <3>1
    <3> QED
      BY <3>2 DEF FormatJobError
  <2> QED
    BY <1>2, <2>1, <2>3, <2>4 DEF FormatJobError
<1> QED
  BY <1>1, <1>2

LEMMA ReturnsSay == ASSUME RoutingInv, SaidInv, Returns PROVE SaidInv'
<1>1. stage # "returned" /\ said = {}
  BY DEF Returns, ReturnExporter, ReturnError, RaisePlain, RaiseWrapped, RaiseJobFailed,
         SaidInv, RoutingInv, StageInv
<1>2. CASE ReturnExporter \/ ReturnError \/ RaisePlain
  <2>1. said' = {}
    BY <1>1, <1>2 DEF ReturnExporter, ReturnError, RaisePlain, Fail
  <2> QED
    BY <2>1 DEF SaidInv, FailureIsShown
<1>3. ASSUME stage' = "returned", \A words \in said' : ShownIn(raised'.text, words)
      PROVE  SaidInv'
  BY <1>3 DEF SaidInv, FailureIsShown, Shown, ShownIn
<1>4. ASSUME NEW kind, NEW causes, NEW failure
      PROVE  LET err == BigQueryError(kind, causes, failure)
             IN  /\ err.causes = causes /\ err.failure = failure
                 /\ ToPyErr(err).text = IF kind = "JobFailed" THEN FormatJobFailed(failure)
                                        ELSE FormatCausalChain(err)
  BY DEF BigQueryError, ToPyErr
<1>5. CASE RaiseWrapped
  <2>1. stage' = "returned" /\ error.kind # "JobFailed"
    BY <1>5 DEF RaiseWrapped, Wrapping
  <2>2. PICK causes \in BoundedSeq(Causes, MaxCauses) :
            /\ said' = {causes[i].msg : i \in DOMAIN causes}
            /\ raised' = ToPyErr(BigQueryError(error.kind, causes, NoFailure))
    BY <1>5 DEF RaiseWrapped
  <2>3. causes \in Seq(Causes)
    BY <2>2 DEF BoundedSeq, SeqOf
  <2>4. PICK err : err = BigQueryError(error.kind, causes, NoFailure)
    OBVIOUS
  <2>5. err.causes = causes /\ raised'.text = FormatCausalChain(err)
    BY <1>4, <2>1, <2>2, <2>4
  <2>6. ASSUME NEW i \in DOMAIN causes PROVE ShownIn(raised'.text, causes[i].msg)
    BY <2>3, <2>5, ChainShown
  <2> QED
    BY <1>3, <2>1, <2>2, <2>6
<1>6. CASE RaiseJobFailed
  <2>1. stage' = "returned"
    BY <1>6 DEF RaiseJobFailed
  <2>2. ASSUME NEW failure \in Failures,
               said' = {FormatJobError(e) : e \in {failure.error} \cup ToSet(failure.errors)},
               raised' = ToPyErr(BigQueryError("JobFailed", <<>>, failure))
        PROVE  SaidInv'
    <3>1. raised'.text = FormatJobFailed(failure)
      BY <1>4, <2>2
    <3>2. failure.errors \in Seq(JobErrors)
      BY DEF Failures, BoundedSeq, SeqOf
    <3>3. \A i \in DOMAIN failure.errors : i # 0
      BY <3>2, LenProperties
    <3>4. \A words \in said' : words = FormatJobError(failure.error)
              \/ \E i \in DOMAIN failure.errors : words = FormatJobError(failure.errors[i])
      BY <2>2 DEF ToSet
    <3> QED
      BY <1>3, <2>1, <3>1, <3>3, <3>4, JobShown
  <2>3. ASSUME NEW message, NEW infos \in BoundedSeq(Infos, MaxCauses),
               said' = {message} \cup {FormatJobError(infos[i]) \ NoMessage : i \in DOMAIN infos},
               raised' = ToPyErr(BigQueryError("JobFailed", <<>>, JobFailedFromStatus(message, infos)))
        PROVE  SaidInv'
    <3>1. PICK failure : failure = JobFailedFromStatus(message, infos)
      OBVIOUS
    <3>2. raised'.text = FormatJobFailed(failure)
      BY <1>4, <2>3, <3>1
    <3>3. infos \in Seq(Infos)
      BY DEF BoundedSeq, SeqOf
    <3>4. /\ DOMAIN failure.errors = IF infos = <<>> THEN {1} ELSE DOMAIN infos
          /\ message \subseteq FormatJobError(failure.error)
          /\ \A i \in DOMAIN infos :
                FormatJobError(infos[i]) \ NoMessage \subseteq FormatJobError(failure.errors[i])
      BY <3>1, <3>3, StatusShown
    <3>5. (\A i \in DOMAIN failure.errors : i # 0) /\ DOMAIN infos \subseteq DOMAIN failure.errors
      BY <3>3, <3>4, LenProperties, EmptySeq
    <3>6. /\ ShownIn(raised'.text, FormatJobError(failure.error))
          /\ \A i \in DOMAIN failure.errors : ShownIn(raised'.text, FormatJobError(failure.errors[i]))
      BY <3>2, <3>5, JobShown
    <3>7. ShownIn(raised'.text, message)
      BY <3>4, <3>6 DEF ShownIn
    <3>8. ASSUME NEW i \in DOMAIN infos PROVE ShownIn(raised'.text, FormatJobError(infos[i]) \ NoMessage)
      BY <3>4, <3>5, <3>6 DEF ShownIn
    <3> QED
      BY <1>3, <2>1, <2>3, <3>7, <3>8
  <2> QED
    BY <1>6, <2>2, <2>3 DEF RaiseJobFailed
<1> QED
  BY <1>2, <1>5, <1>6 DEF Returns

\* An exception shows everything that was said about the failure, for chains of
\* causes and lists of job errors of every length: what format_causal_chain and
\* Display leave out is part of something that they have written.
THEOREM AllIsShown == Spec => []FailureIsShown
<1>1. Init => SaidInv
  BY DEF Init, SaidInv, FailureIsShown
<1>2. ASSUME RoutingInv, SaidInv, [Next]_vars PROVE SaidInv'
  <2>1. CASE Step
    <3>1. UNCHANGED <<stage, said, raised>>
      BY <2>1 DEF Step, DryRunAnswered, DryRunErr, callVars
    <3> QED
      BY <1>2, <3>1 DEF SaidInv, FailureIsShown, Shown
  <2>2. CASE ServiceStep \/ UNCHANGED vars
    <3>1. UNCHANGED <<stage, said, raised>>
      BY <2>2 DEF ServiceStep, vars, callVars
    <3> QED
      BY <1>2, <3>1 DEF SaidInv, FailureIsShown, Shown
  <2>3. CASE Calls \/ GoOn
    <3>1. said' = {}
      BY <1>2, <2>3 DEF Calls, GoOn, Cleared, NewClient, NewTable, ParseText, ParseReference, BadArgument,
                        ReadTable, ReadQuery, DryRun, Fail, Raise, callVars, SaidInv
    <3> QED
      BY <3>1 DEF SaidInv, FailureIsShown
  <2> QED
    BY <1>2, <2>1, <2>2, <2>3, ReturnsSay DEF Next
<1>3. SaidInv => FailureIsShown
  BY DEF SaidInv
<1> QED
  BY <1>1, <1>2, <1>3, RoutingCorrect, PTL DEF Spec

-----------------------------------------------------------------------------
(* Table identifiers.                                                      *)

\* A table that was named by a text is what FromStr made of it, and one that was
\* named by its parts has them.
NamedInv ==
    /\ arg.kind = "text" => arg.text \in Texts /\ table = FromString(arg.text)
    /\ arg.kind = "parts" => table.id \in Ids

LEMMA NamesKept == ASSUME NamedInv, [Next]_vars PROVE NamedInv'
<1>1. CASE UNCHANGED <<arg, table>>
  BY <1>1 DEF NamedInv
<1>2. NoArg.kind = "none"
  BY DEF NoArg
<1>3. CASE GoOn
  BY <1>2, <1>3 DEF GoOn, Cleared, NamedInv
<1>4. CASE NewTable
  <2>1. PICK id \in Ids : /\ arg' = [NoArg EXCEPT !.kind = "parts"]
                          /\ table' = [NotParsed EXCEPT !.id = id]
    BY <1>4 DEF NewTable
  <2>2. arg'.kind = "parts" /\ table'.id = id
    BY <2>1 DEF NoArg, NotParsed
  <2> QED
    BY <2>2 DEF NamedInv
<1>5. CASE ParseText
  <2>1. PICK text \in Texts : /\ arg' = [NoArg EXCEPT !.kind = "text", !.text = text]
                              /\ table' = FromString(text)
    BY <1>5 DEF ParseText
  <2>2. arg'.kind = "text" /\ arg'.text = text
    BY <2>1 DEF NoArg
  <2> QED
    BY <2>1, <2>2 DEF NamedInv
<1>6. CASE ParseReference
  <2>1. PICK object : arg' = [NoArg EXCEPT !.kind = "object", !.object = object]
    BY <1>6 DEF ParseReference
  <2>2. arg'.kind = "object"
    BY <2>1 DEF NoArg
  <2> QED
    BY <2>2 DEF NamedInv
<1>7. CASE NewClient \/ BadArgument \/ ReadTable \/ ReadQuery \/ DryRun \/ Step \/ ServiceStep
  <2>1. UNCHANGED <<arg, table>>
    BY <1>7 DEF NewClient, BadArgument, ReadTable, ReadQuery, DryRun, Step, ServiceStep, DryRunAnswered,
                DryRunErr, Fail, Raise, callVars
  <2> QED
    BY <1>1, <2>1
<1>8. CASE Returns \/ UNCHANGED vars
  <2>1. UNCHANGED <<arg, table>>
    BY <1>8 DEF Returns, ReturnExporter, ReturnError, RaiseWrapped, RaisePlain, RaiseJobFailed, Fail,
                vars, callVars
  <2> QED
    BY <1>1, <2>1
<1> QED
  BY <1>3, <1>4, <1>5, <1>6, <1>7, <1>8 DEF Next, Calls

LEMMA Named == Spec => []NamedInv
<1>1. Init => NamedInv
  BY DEF Init, NoArg, NamedInv
<1> QED
  BY <1>1, NamesKept, PTL DEF Spec

\* What FromString returns.
LEMMA FromStringIs ==
    ASSUME NEW text
    PROVE  /\ FromStr(text) = Invalid => FromString(text).raises = "ValueError"
           /\ FromStr(text) # Invalid => /\ FromString(text).raises = "none"
                                         /\ FromString(text).id = FromStr(text)
BY DEF FromString, NotParsed

\* A text of any length is accepted exactly if the grammar has a reading of it;
\* it has no second one, so that no table but the one named can be read.
THEOREM OneMeaning == Spec => []TextHasOneReading
<1>1. ASSUME NamedInv, arg.kind = "text"
      PROVE  Readings(arg.text) = IF table.raises = "none" THEN {table.id} ELSE {}
  <2>1. arg.text \in Seq(Chars) /\ table = FromString(arg.text)
    BY <1>1, CallAssumption DEF NamedInv
  <2>2. Readings(arg.text) = IF FromStr(arg.text) = Invalid THEN {} ELSE {FromStr(arg.text)}
    BY <2>1, OneReading
  <2> QED
    BY <2>1, <2>2, FromStringIs
<1>2. NamedInv => TextHasOneReading
  BY <1>1 DEF TextHasOneReading
<1> QED
  BY <1>2, Named, PTL

\* The parts of an identifier are texts.
LEMMA PartsOfId ==
    ASSUME NEW id \in [project : Seq(Chars), dataset : Seq(Chars), table : Seq(Chars)]
    PROVE  FromStr(Display(id)) = id <=> WellFormed(id)
<1>1. id = NewTableId(id.project, id.dataset, id.table)
  BY DEF NewTableId
<1>2. id.project \in Seq(Chars) /\ id.dataset \in Seq(Chars) /\ id.table \in Seq(Chars)
  OBVIOUS
<1> QED
  BY <1>1, <1>2, RoundTrip

\* An identifier is the same after Display and FromStr exactly if its parts are
\* well formed, whether it was parsed or made of parts of any length.
THEOREM WrittenAndRead == Spec => []TextRoundTrip
<1>1. ASSUME NamedInv, arg.kind \in {"text", "parts"}, table.raises = "none"
      PROVE  FromStr(Display(table.id)) = table.id <=> WellFormed(table.id)
  <2>1. CASE arg.kind = "parts"
    BY <1>1, <2>1, CallAssumption, PartsOfId DEF NamedInv
  <2>2. CASE arg.kind = "text"
    <3>1. arg.text \in Seq(Chars) /\ FromStr(arg.text) # Invalid /\ table.id = FromStr(arg.text)
      BY <1>1, <2>2, CallAssumption, FromStringIs DEF NamedInv
    <3>2. table.id \in Readings(arg.text)
      BY <3>1, OneReading
    <3>3. Display(table.id) = arg.text /\ WellFormed(table.id)
      BY <3>2 DEF Readings
    <3> QED
      BY <3>1, <3>3
  <2> QED
    BY <1>1, <2>1, <2>2
<1>2. NamedInv => TextRoundTrip
  <2>1. SUFFICES ASSUME NamedInv, arg.kind \in {"text", "parts"}, table.raises = "none"
                 PROVE  (FromStr(Display(table.id)) = table.id) = WellFormed(table.id)
    BY DEF TextRoundTrip
  <2>2. WellFormed(table.id) \in BOOLEAN
    BY Zenon DEF WellFormed
  <2> QED
    BY <1>1, <2>1, <2>2
<1> QED
  BY <1>2, Named, PTL
=============================================================================
