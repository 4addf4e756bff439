------------------------------ MODULE ReadRetry ------------------------------
(***************************************************************************)
(* bigquery_read_retry.rs: which errors of a ReadRows stream are retried,  *)
(* and for how long.  The attempt-limit decorator, the throttler and the   *)
(* backoff delays belong to google_cloud_gax, which is external.           *)
(***************************************************************************)
EXTENDS Integers

CONSTANTS
    Errors,         \* the error classes the service may answer with
    MaxAttempts,    \* STREAM_RECONNECT_MAX_ATTEMPTS
    TimeLimited     \* does the retry policy also have a time limit?

\* What is_retryable_error tells apart: a failure before the RPC was sent, a
\* broken connection, an HTTP status, a gRPC status code, anything else.
ErrorClasses ==
    {"BeforeRpc", "Io", "Timeout", "Connect", "TransportNoStatus",
     "Http429", "Http500", "Http502", "Http503", "Http504", "HttpOther",
     "DeadlineExceeded", "Aborted", "ResourceExhausted", "Unavailable",
     "Internal", "StatusOther", "Other"}

ASSUME RetryAssumption ==
    /\ Errors \subseteq ErrorClasses
    /\ MaxAttempts \in Nat \ {0}
    /\ TimeLimited \in BOOLEAN

IsRetryableError(e, idempotent) ==
    \/ e = "BeforeRpc"
    \/ /\ idempotent
       /\ e \notin {"HttpOther", "StatusOther", "Other"}

\* RetryableErrors.on_error, for an idempotent read.
Verdict(e) == IF IsRetryableError(e, TRUE) THEN "Continue" ELSE "Permanent"

\* stream_reconnect_retry_policy: the verdict with the attempt limit on the
\* attempt-th consecutive failure.
OnError(e, attempt) ==
    IF Verdict(e) = "Continue" /\ attempt >= MaxAttempts THEN "Exhausted" ELSE Verdict(e)
=============================================================================
