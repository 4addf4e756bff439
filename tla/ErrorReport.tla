----------------------------- MODULE ErrorReport -----------------------------
(***************************************************************************)
(* error.rs and py-arrow-bigquery/src/error.rs: what a failed call tells   *)
(* Python.  A message is the set of the words in it, so that one message   *)
(* contains another if it has all of its words.  A text is the messages    *)
(* that are written one after the other, each under the position of the    *)
(* cause or job error that it is of, and under 0 the one it begins with.   *)
(*                                                                         *)
(* An error is its kind, the causes below it (source() of source() ...),   *)
(* some of which may be Python exceptions, and, if it is the failure of a  *)
(* job, what the service said of the job.                                  *)
(***************************************************************************)
EXTENDS Integers, Sequences, SequencesExt

CONSTANTS
    Words,      \* the words of messages
    MaxCauses   \* bound: length of a chain of causes and of a list of job errors

Kinds == {"Grpc", "ClientBuilder", "JobFailed", "Protocol", "InvalidConfig", "Other"}

\* Kinds that wrap another error; the others have no source().
Wrapping == {"Grpc", "ClientBuilder", "Other"}

Causes == [msg : SUBSET Words, py : BOOLEAN]

\* JobError, an ErrorProto whose empty fields are None; debug_info is not shown.
JobErrors == [reason : {{}, {"reason"}}, location : {{}, {"location"}}, message : SUBSET Words]

Failures == [error : JobErrors, errors : BoundedSeq(JobErrors, MaxCauses)]

NoJobError == [reason |-> {}, location |-> {}, message |-> {}]

NoFailure == [error |-> NoJobError, errors |-> <<>>]

BigQueryError(kind, causes, failure) == [kind |-> kind, causes |-> causes, failure |-> failure]

\* Display: the kind's own words around the first cause.
Top(err) == IF err.causes = <<>> THEN {err.kind} ELSE {err.kind} \cup err.causes[1].msg

\* prev_msg, which every turn of the loop sets, at the i-th cause.
PrevMsg(err, i) == IF i = 1 THEN Top(err) ELSE err.causes[i - 1].msg

\* Mutant: containment is tested the wrong way round.
IsWrittenSwapped(msg, prev) == msg # {} /\ ~(prev \subseteq msg)

\* A message is left out if it is empty or part of the message before it.
IsWritten(msg, prev) == msg # {} /\ ~(msg \subseteq prev)

FormatCausalChain(err) ==
    LET written == {i \in DOMAIN err.causes : IsWritten(err.causes[i].msg, PrevMsg(err, i))}
    IN  [i \in {0} \cup written |-> IF i = 0 THEN Top(err) ELSE err.causes[i].msg]

-----------------------------------------------------------------------------
(* Failures of jobs *)

FormatJobError(e) == e.reason \cup e.location \cup e.message

IsSameJobError(a, b) == a.reason = b.reason /\ a.location = b.location /\ a.message = b.message

\* Display for JobFailedError: the primary error, then the others, each once.
FormatJobFailed(failure) ==
    LET others == {i \in DOMAIN failure.errors : ~IsSameJobError(failure.error, failure.errors[i])}
    IN  [i \in {0} \cup others |-> FormatJobError(IF i = 0 THEN failure.error ELSE failure.errors[i])]

\* job_failed_from_gax_status: the status of a failed jobs.query call.  Each of
\* its ErrorInfo details has a message of its own or (NoMessage) none.
NoMessage == {"no message"}

Infos == [reason : {{}, {"reason"}}, location : {{}, {"location"}}, message : SUBSET Words \cup {NoMessage}]

JobFailedFromStatus(message, infos) ==
    LET Item(i) == [reason |-> infos[i].reason, location |-> infos[i].location,
                    message |-> IF infos[i].message = NoMessage THEN message ELSE infos[i].message]
        items == [i \in DOMAIN infos |-> Item(i)]
        error == IF infos = <<>> THEN [NoJobError EXCEPT !.message = message]
                 ELSE [items[1] EXCEPT !.message = IF message # {} THEN message ELSE @]
    IN  [error |-> error, errors |-> IF infos = <<>> THEN <<error>> ELSE items]

-----------------------------------------------------------------------------
(* to_py_err *)

\* The position of the first cause that is a Python exception, or 0.
PyCause(err) == SelectInSeq(err.causes, LAMBDA c : c.py)

ToPyErr(err) ==
    [type |-> IF err.kind = "InvalidConfig" THEN "ValueError" ELSE "BigQueryError",
     cause |-> IF err.kind = "InvalidConfig" THEN 0 ELSE PyCause(err),
     text |-> IF err.kind = "JobFailed" THEN FormatJobFailed(err.failure) ELSE FormatCausalChain(err)]

NoException == [type |-> "none", cause |-> 0, text |-> <<>>]
=============================================================================
