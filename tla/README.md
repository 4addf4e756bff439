# Verification of the Polars BigQuery client

TLA+ models of the code that moves rows from the BigQuery Storage Read API to a
Polars consumer (`crates/arrow-bigquery`), of the Python calls around it and the
iterator that Polars pulls from (`py-arrow-bigquery`), of the token cache between
the Google Cloud SDK and Python (`py-arrow-bigquery/src/auth.rs`) and of the
compiler from Polars filters to row restrictions (`py-polars-bigquery`), with TLC
runs on small instances and TLAPS proofs for every size. Paths below are relative to the repository.

## The system

| part | source | state | operations |
|---|---|---|---|
| stream reader | `crates/arrow-bigquery/src/bigquery_read_stream.rs` | connection state, row offset, retry state, schema, first-page check | connect, back off, read a message, enqueue a page, fail, end |
| retry policy | `bigquery_read_retry.rs` | none of its own | classify an error, limit attempts |
| decode pipeline | `decode.rs` | queued jobs, `running` flag of each ordered queue, permits | push, drain, decode, send |
| receiver | `lib.rs` (`BigQueryRecordBatchReceiver`) | receiving end, cancellation flag, task handles | `recv`, `abort`, drop |
| reads | `lib.rs` (`read_table`, `read_stream_with_first_page_check`, `switch_to_read_session`, `spawn_query_stream`) | the tasks of one read | spawn, switch to a session, answer the schema |
| query routing | `query.rs` | request id, none across calls | send with retries, choose a read from a `QueryResponse`, recover schema and job errors, dry run |
| table identifiers | `lib.rs`, `py-arrow-bigquery/src/table_id.rs` | none | parse a text or an object, format, build a resource path |
| Python calls | `client_builder.rs`, `py-arrow-bigquery/src/lib.rs` | the client | `Client()`, `read_table`, `read_query`, `dry_run` |
| errors | `error.rs`, `py-arrow-bigquery/src/error.rs` | none | from a chain of causes or a failed job to a Python exception |
| token cache | `py-arrow-bigquery/src/auth.rs` | cached token, deadlines, cooldown, refresh mutex | `headers`, refresh with timeout |
| Python stream export | `py-arrow-bigquery/src/stream.rs` | the receiver, taken once | `__arrow_c_stream__`, next batch, interrupt, release |
| predicate compiler | `py-polars-bigquery/polars_bigquery/core/compiler` | none | parse, rewrite, emit SQL |
| scan planning | `_read_bigquery.py` | none | columns and row restriction of a scan |
| REST metadata, schema mapping | the rest of `py-polars-bigquery` | none | fetch, map |

**How the parts interact.** A read creates one bounded channel and one
cancellation flag. Reader tasks (tokio) pull pages from the service. For each
page a task first reserves a slot of the channel, then hands page and permit to
the decode pipeline (rayon threads), which sends the decoded batch through the
permit. The receiver takes items from the channel. Everybody can raise the
flag: a reader or a job that fails, and the receiver when it is dropped or when
`recv()` returns `None` or an error; everybody else returns as soon as they see
it. A read ends cleanly when the channel is empty and every sender is gone.

A query is one `jobs.query` call; its response decides which of the reads is
started, and `jobs.get` is asked afterwards when a job's stream brought no
schema. The call returns an exporter that owns the receiver; Polars moves the
receiver out of it and pulls batches, waiting without the GIL for 100 ms at a time
and looking for signals in between. Every request asks the token cache for headers,
and an exception of the credentials provider comes back up as the `__cause__` of
what the call raises. A scan
compiles its filter to a row restriction of the read session and filters again
locally, so a restriction may keep too many rows but never too few.

**What is hard.** The end of a read is signalled by the *absence* of senders, and
every early return on the flag drops a sender without a word. So whether the
consumer sees an error or a clean but truncated end depends on the order of
steps of several tasks and threads. Row offsets are moved by one thread and
validated by another. Slots are handed from semaphore to permit to job to
buffered item and back, with an early return at each stage. A job's result may be
read from two sources that hold the same rows.
Responses leave out fields, and each combination leads elsewhere; the request
behind them is sent again when its answer is lost, although the query may be a DML
statement. A read can be let go at any moment, by an interrupt, a release or the
garbage collector, and only `Drop` tells the tasks. A token
refresh that timed out goes on running after its mutex was freed. Rewriting a
filter is only safe where its value is used as a condition, in three-valued logic
that Polars and SQL apply at different places.

**What makes the parts correct.**

- *Table read*: a clean end means every row exactly once; with `maintain_order`
  the consumer has a gap-free prefix at any time; a cancelled read reports an
  error; slots are conserved; retries without progress are bounded; every read
  ends, and nothing outlives a cancelled one.
- *Job stream*: additionally, the caller waiting for the schema is always
  answered, and rows come from the job's stream or from the session, never both.
- *Inline page and Python iterator*: the page and the stream meet without gap or
  overlap and no timeout loses a batch; nothing follows an interrupt, an error or
  the end; a pending signal is noticed although the service hangs; whatever way
  Python lets go of a read, its task ends.
- *Query routing*: the chosen sources bring every row once; a failed job is
  reported; an ordered read has one stream whatever the caller asks for; a
  `SELECT` has its columns; a script is not sent to a table it does not have; the
  service runs a query once however often the request is sent.
- *Python calls and errors*: every call returns; the exception of a provider is
  kept as the cause, every message of a chain and of a failed job is in the text.
- *Table identifiers*: a text has at most one reading and the parser finds it; what
  it accepts names one table; text and identifier correspond.
- *Token cache*: one refresh at a time, no Python call that is not needed, a late
  refresh never replaces a newer token, nothing dead is served from the cache,
  and every call returns although Python may hang.
- *Predicate compiler*: the row restriction keeps every row that the filter
  keeps; SQL called exact is exact; rewriting does not cost pushdown.

## Modules

| module | models |
|---|---|
| `BatchChannel` | the tokio mpsc channel (log of sent items, receive cursor, free slots, first-come-first-served waiters) and the watch flag; external code, modelled from its use |
| `DecodeQueue` | `DecodeJob::run`, `OrderedDecodeQueue`, `DecodeQueue` |
| `ReadRetry` | `is_retryable_error`, the verdict on an attempt |
| `ReadStream` | `ReadStream::step` and what it calls, `read_query_stream`, and the service side of `ReadRows` |
| `Receiver` | `BigQueryRecordBatchReceiver`; the properties every read shares |
| `TableRead` | `read_table`: the composition for a table, its fairness and properties |
| `JobStreamRead` | `read_stream_with_first_page_check` and `switch_to_read_session` |
| `StreamExport` | `ArrowStreamExporter` and `ReceiverIterator`: the Python consumer of a read |
| `InlinePageRead` | `spawn_query_stream`, consumed through `StreamExport` |
| `BatchDelivery` | abstract: what each of the three reads promises its consumer |
| `QueryRouting` | `Query::read` with its requests, their retries and the calls of `jobs.get` behind it |
| `TableIds` | `BigQueryTableId`: parser, display, resource path, Python objects; a grammar as reference |
| `ErrorReport` | `BigQueryError`, `JobFailedError` and `to_py_err` |
| `ClientCalls` | the calls that Python makes, composed of `QueryRouting`, `TableIds` and `ErrorReport` |
| `TokenCache` | `PythonTokenSource` |
| `PredicateCompiler` | the construction of the tree, `rewrite_tree` with its rewriters, and the SQL emitter |
| `ReceiverProofs` | lemmas on what the parts of every read preserve: types, slots, jobs, retries, errors on their way; where rows are and in which order |
| `TableReadProofs`, `InlinePageProofs`, `JobStreamProofs` | theorems about the three reads, on top of `ReceiverProofs` |
| `TableIdProofs` | lemmas: the parser of table identifiers against their grammar |
| `ClientCallsProofs` | theorems about `ClientCalls`, on top of `TableIdProofs` |
| `TokenCacheProofs` | theorems about `TokenCache` |
| `PredicateProofs` | theorems about `PredicateCompiler` |
| `MC…` | instances for TLC |

Each module extends the one before it in the chain `BatchChannel`, `DecodeQueue`,
`ReadStream` (with `ReadRetry`), `Receiver`; `TableRead` and `JobStreamRead` extend
`Receiver`, `InlinePageRead` extends `StreamExport`, which extends `Receiver`.
`ClientCalls` extends `QueryRouting`, `TableIds` and `ErrorReport`; what a read does
once it is chosen is the subject of the reads. `TokenCache` and `PredicateCompiler`
stand alone.
Definitions named `Mutant:` in their comment are deliberate bugs; no specification
uses them. They show that the properties notice such bugs.

### State and steps against the code

- A **page** is a row range `lo .. hi-1` of its stream and a flag `bad`: the
  announced `row_count` differs from the rows in the payload. The offset moves by
  the announced count, the service by the real one, as in the code. Payloads that
  are not empty but hold no rows are left out.
- A **job** has one phase per place in `DecodeJob::run` where another thread can
  step in between. The `VecDeque` of an ordered queue is the set of its queued
  jobs, ordered by the index `n` in which they were pushed. The drain closure
  is "between two jobs" when all jobs of the stream are queued; popping, and
  clearing `running`, are atomic because the code holds the mutex.
- A **reader** state is a `ReadStreamState`, or an await inside a step: `Enqueue`
  (waiting for a slot), `SendErr` (waiting to send the error). The arms of a
  `biased` select are modelled by guarding the service's steps with `~cancel`; a
  message taken just before a cancel is the message taken in the state before it.
  In `enqueue_decode_batch` the two arms are polled one after the other, so a
  permit can be granted after a cancel and `EnqueuePermit` has no such guard.
- **Errors**: the retry verdict is computed, the throttler's answer is any, and a
  time limit (only in policies a caller may configure) may strike at any failure.
  A throttled attempt counts twice, as in the code.
- **The receiver** stops calling `recv()` after `None` or an error, as the Python
  iterator does. `SpecRecvAgain` is the read under a caller that goes on.
- **Abort** takes effect on each task separately and at any later time; a task
  may also notice the flag by itself first.
- `fails` is a history variable: consecutive errors since the last message.
- **First page check**: a page of `n` rows has `n` bytes; the total that the estimate
  uses may be missing or wrong, and `EstimateReaches` is the code's comparison
  without its division.
- **Python iterator**: `pull` is where a call of `next()` is: looking for signals or in
  `recv()`. Dropping the receiver is `Receiver!Drop`. A signal is seen only on
  Python's main thread; Polars may pull on any thread, so both happen.
- **Requests**: a request fails because the provider raised (before it is sent), on
  the way, or with a status; `tries` counts retries, and `MaxTries` stands for the time
  limit of the policies. That the service runs a request id once is what
  `query.rs:374-375` relies on; the model gives each id one run and checks that a
  call uses one id.
- **Texts** are sequences of tokens, a run of ordinary characters or one of the four
  characters that the parser tells apart. **Messages** are sets of words, so that
  "contains" is a subset; the text of an exception has each message under the position
  of the cause it is of, which `prev_msg` makes possible without a loop: it is always
  the message one position before.
- **Query routing**: `query` and `job` are the truth about the statement, which
  the client only sees through responses; a response may leave out any field it
  is allowed to and may be of the wrong format, but what it says is true. `pc` is
  the await that `read()` is in. `result` says which rows come from the inline page,
  from the stream (from which offset, and whether it may switch) and from the table.
- **Token cache**: a caller's `headers()` is a step per await or lock: reading the
  cache, `try_lock`, queueing for the mutex, the second look. A refresh has a
  worker (Python call, first look at `timed_out`, write lock, second look and store)
  and a coordinator (join, timer, giving up); the guard goes from the caller to
  the coordinator. Python may answer, fail or hang; the timer may fire at any time
  a worker is not done. Tokens are numbered by their refresh.
- **Predicate compiler**: the heap is the sequence of all nodes built so far, and a
  node is a place in it, as the code knows it by `id()`: nodes are frozen and are built
  after their operands. `Parse` builds the filter bottom-up, as `json_to_ir` does.
  `rewrite_tree` is the code's loop: `nodes`, `children_map` and `curr_idx` are its
  variables, `Expand` is a turn of the first loop, `Leaf` or `Build` with `Rebuilt` one of
  the second, and `Rewrite` one turn of `_apply_node_rewriter`. (The code also stops at a
  node that is *equal* to the one before; no rewriter returns such a node except the
  node itself.) `boolean_nodes` is the code's set of ids. A node that `replace_children`
  builds may get the address of one that nothing refers to any more (`Live`), and with it
  a place in that set.
  All columns are Boolean: a column stands for any condition with SQL, `Unsupported`
  for one without. A node carries what it means (`mean`, its value in every row) and
  what is emitted for it (`sql`: whether there is SQL, whether it is called exact, and its
  value in every row); both follow from the operands when the node is built, and no
  rewriter looks at them. `Value` is the logic of both worlds, which do not differ in
  what the trees can express. `rewritten` is a history variable.

### The service

ReadRows at an offset yields the rows from there in pages of any size, may fail
at any time, may send empty messages, may miscount (`Skew`), may send undecodable
pages and closes the stream only after the last row; for a job that still runs
it may also close it before it sent anything. A connect beyond the last row does
not succeed.

## Runs

| run | checks | shows |
|---|---|---|
| `table_ordered` | `TypeOK`, `RetriesBounded`, `NoStrandedJob`, `ImplementsDelivery`, `ReadEnds` | order and completeness under reconnects, decode errors and wrong counts; the pipeline implements `BatchDelivery`, which has both; the read ends |
| `table_parallel` | `CleanEndIsComplete`, `CancelIsReported`, `RowsOnce` | two streams racing for two slots: an error is never turned into a clean end, rows come once |
| `job_stream` | `ResultIsComplete`, `NeverBothSources`, `SchemaIsAnswered`, `ReadEnds`, `CancelStopsEverything` | the schema answer and the switch to two session streams; nobody waits for ever, before, in or after the switch |
| `inline_page` | `PythonReadIsComplete`, `OrderedPrefix`, `PermitsConserved`, `LastAnswerIsLast`, `InterruptIsNoticed`, `LetGoStopsEverything` | inline page followed by the stream, with pages of several batches and all that happens to their slots, pulled by Polars with timeouts, signals, releases and unused exporters |
| `client_calls` | `ResultCoversRows`, `FailedJobIsReported`, `OrderedReadHasOneStream`, `SelectHasSchema`, `ScriptIsServed`, `QueryRunsOnce`, `PythonCauseIsKept`, `FailureIsShown`, `TextHasOneReading`, `TextRoundTrip`, `CallReturns` | all responses to all kinds of statements, with the job ending and requests failing at any moment, and what Python gets of it; table identifiers against their grammar |
| `token_cache` | `OneRefresh`, `GivenTokensAreCached`, `NeverOlder`, `FetchOnlyWhenNeeded`, `ServedFromCacheIsLive` | two callers, three calls, late and failing Python calls, cancelled callers |
| `token_cache_live` | `CallsReturn`, `LockIsReleased` | nobody waits for ever when Python hangs |
| `predicate` | `RowsAreKept`, `ExactIsExact`, `RewritesOnlySharpen` | logic, null checks, literals and conditionals as conditions and as values, over columns with and without NULLs |
| `miscount_twice` (violation) | `RowsOnce` | see below |
| `recv_after_err` (violation) | `ErrIsLast` | see below |
| `predicate_nullable`, `predicate_null_literal` (violation) | `SupersetOfRows` | see below |

**Bounds.** Two slots (`Capacity`) with up to four pages make readers, jobs and
errors wait for one another; two streams are the least that can race, and streams
meet only in the channel and the flag. `job_stream` has one slot, since it has
two sources and three readers and also checks liveness. Three rows per stream allow pages before,
at and after a break. `MaxAttempts` 2 or 3 lets a retry succeed, fail again and
exhaust. `MaxOffset` stands for `i64::MAX` and lies just above the last row, so
that overflow happens. Two error classes represent the retryable and the
permanent ones. All state spaces are finite without a constraint: retries, rows
and pages are bounded by these constants. Symmetry is used only in runs without
liveness properties, over session streams with equal row counts.
`client_calls` has up to three rows with the multi-stream threshold at three (7 bytes
at 2 per row, rounded down), so that pages can be empty, partial and whole on both
sides of it; two retries, after which a request gives up; stream limits below, at
and above zero and above the parallelism; chains of two causes and lists of two job
errors over two words, enough for messages that are equal, contained and disjoint.
Texts have up to nine tokens of names, dots and colons (a domain with a dot, a
project, a dataset of two parts and a table fit in) and up to six of all; two names in
a row are one. Identifiers made from parts have parts of up to three tokens.
`SwitchBytes` is one row, so that a first page may or may not be followed by enough. In `token_cache`
three calls are the least for a refresh that times out, a later one that
succeeds, and the late answer of the first; lifetimes of 1 and 3 with buffers of 1
and 2 give tokens that are dead, soft-expired and fresh on arrival. Its symmetry
over callers is used without liveness only; the action properties are invariant
under it. The predicate runs take every filter of the families in
`MCPredicateCompiler`, three to four levels deep, so that each rewriter meets the
result of the others, over all values of two columns.

**Fairness.** tokio polls tasks that are ready and rayon runs closures: weak
fairness on every task, drain and job. The consumer keeps calling `recv()`: weak
fairness on it. `Drop` and the effect of `abort()` are never assumed. The service
gets strong fairness on *progress* (a page or the end of the stream): a stream that
is read again and again is not answered with heartbeats for ever. Without it no
client could end, since the code has no timeout for an idle stream (the
design document lists that as future work). `inline_page` assumes less: only that
a call of `next()` goes on, that aborted tasks are dropped and that the decode pool
works; ReadRows may hang for ever and Polars may stop pulling. In `client_calls` each
request is answered or given up (weak fairness on the steps of a call, since the
policies are time-limited), jobs end, and a call that has its answer returns. For
the token cache the runtime
polls tasks, runs closures and fires timers: weak fairness on callers, workers
that have their answer, coordinators and background tasks. Nothing is assumed of
Python, nor of callers giving up.

Liveness is checked with one batch per page. With several, TLC finds that a read
can get stuck: the job in `blocking_send` waits for a slot while permits are held
by jobs queued behind it on the same worker (`decode.rs:109-116`).
`docs/designs/arrow_bigquery_crate_read_table_reconnection.md:122` states that
BigQuery never sends such pages; `inline_page` allows them.

**Disagreements with the documentation.**

1. `recv_after_err`: the design document says (line 76) that an error from `recv()`
   is "followed by `None` on subsequent calls". `abort()` closes the channel but
   buffered batches stay receivable, and a job past its second check still sends.
2. `miscount_twice`: the same document says (line 165) that the offset "advances by
   each frame's validated row count". The code moves it by the announced count, which is
   validated only in the decode job; after a break the reconnect can deliver a
   row twice before the mismatch is reported. The read still fails:
   `CleanEndIsComplete` holds.
3. `predicate_nullable`: `when(p).then(t).otherwise(f)` as a condition becomes
   `(p & t) | (~p & f)`. Where `p` is NULL, Polars takes `f`; the restriction drops the
   row, against the superset that `compiler/__init__.py:29` promises. A test
   (`tests/unit/core/test_predicates.py:2121`) expects such a restriction.
4. `predicate_null_literal`: `x & NULL` is folded to `FALSE` also below `is_null()`,
   `~` and `fill_null()`, where the two differ.

`SupersetOfRows` is what the compiler promises and does not keep in these two cases;
`RowsAreKept` is the same promise under `Harmless`, which rules out exactly them: a NULL
literal in the filter, and a rewritten conditional whose condition is NULL in some row.
There is a second way to the latter. `rewrite_boolean_when` is meant for conditionals
that are used as conditions (`rewriter/boolean.py:42`), but it remembers them by `id()`
(line 48) and the second pass of `rewrite_tree` frees nodes that it remembers: a
conditional that is built again, below `is_not_null()` say, can get such an address
and is rewritten too. The filters `RecycledFilters` of the run `predicate` do that.

A narrower window was left without a run: the guard of the refresh mutex is
dropped before a failed background refresh is recorded (`auth.rs:443`), so that
the next one may start without its cooldown.

## Proofs

All safety properties and action properties of the passing runs are theorems, and so is
the refinement of `BatchDelivery` by each of the three reads. They hold for every
value of the constants that the named assumptions allow; these say no more than that
sizes are numbers, capacities and workers are not zero, offsets fit, a first-page
check is not combined with `maintain_order`, the hard buffer of a token is not longer than
the soft one, different names are different values, and a filter lists its nodes after
their operands.

**The three reads.** `TableRead`, `InlinePageRead` and `JobStreamRead` are composed of
the same parts, so what the parts preserve is proved once. `ReceiverProofs` first
reduces each of their actions to one of a few *effects* (`PartStep => PartEffect`: a job
moves on, sends, fails or is dropped; a reader moves, takes a page, pushes it or
reports an error; the consumer takes an item; tasks are spawned), and every part of
the invariant is shown to survive the effects, not each action. `PartInv` is
inductive in any composition in which a first page that is the whole result ends its
stream (`FirstPageIsAll`). Its parts are:

- `ReadTypeOK`, and `JobsInv` (a job keeps stream and number through all its phases).
  `PermitsConserved` counts the jobs that hold a permit, so it needs their keys to be
  unique: a job that moves on must not merge with another.
- `RetryInv`: `fails`, the failures in a row, is what `retry_state` counts, and a task
  that is alive is below the limit. Hence `RetriesBounded`.
- `BoundsInv`: pages, jobs and batches are pieces of their stream.
- `RowInv`: row `r` of a stream is in one place at most (the log, a job, the page that
  waits for a permit, the rest of the stream) and is in none only if the flag is up.
  A page whose count is wrong puts the reader's offset off, so this is said of streams
  without such a page on its way (`Sound`, `Clean`); its job fails.
- `OrderInv`: with `maintain_order` each job of a stream begins where the job before it
  or the log stops, and the job that has left the queue is the first.
- `FlagInv`: whoever fails, and the end of the read, has raised the flag; only the
  consumer's end closes the channel; no bad page gets past its check.

| theorem | states | rests on |
|---|---|---|
| `TableReadProofs!TypeCorrect` | `TypeOK` | `ReadTypeOK` |
| `…!CancelReported` | `CancelIsReported` | only the consumer closes the channel; no task of a table read owns a schema sender |
| `…!NoSilentLoss` | `CleanEndIsComplete` | `CancelReported` and `RowInv`: at a clean end the flag was never up, so each row is in the log |
| `…!PrefixInOrder` | `OrderedPrefix` | `OrderInv` |
| `…!NoRowTwice` | `RowsOnce`, if counts are right (`Skew \subseteq {0}`) | `OnePlace`; `miscount_twice` shows that the hypothesis is needed |
| `…!SlotsConserved`, `…!QueueIsDrained`, `…!RetriesEnd` | `PermitsConserved`, `NoStrandedJob`, `RetriesBounded` | `PartInv` |
| `…!Refinement` | `ImplementsDelivery` | all of `TableInv`: a step of the pipeline is a step of `BatchDelivery` or a stutter |
| `InlinePageProofs!PolarsHasAll` | `PythonReadIsComplete` | the iterator has handed on what `recv()` returned (`PulledInv`), and `RowInv` from the inline page on |
| `…!AnswerIsFinal` | `LastAnswerIsLast` (action property) | an answer that is no batch is given by a receiver that is dropped (`AnswerInv`) |
| `…!PrefixInOrder`, `…!SlotsConserved` | `OrderedPrefix`, `PermitsConserved` | `PartInv` |
| `…!Refinement` | `InlinePageRead!ImplementsDelivery` | `InlineInv`, with `SeenInv`: what Python has been told is what became of the receiver |
| `JobStreamProofs!ResultComplete` | `ResultIsComplete` | `TaskInv`, `RowInv` of the source that is read |
| `…!OneSource` | `NeverBothSources` | `UnreadInv`: a reader that waits for its first page, gave it up or was not spawned has put nothing into the queue |
| `…!SchemaAnswered` | `SchemaIsAnswered` | `SchemaInv`: the oneshot is used exactly when its sender is gone; until then nothing can have failed |
| `…!CancelReported`, `…!PartsHold` | `CancelIsReported`; `PermitsConserved`, `NoStrandedJob`, `RetriesBounded`, `OrderedPrefix` for this read | `JobInv` |
| `…!Refinement` | `JobStreamRead!ImplementsDelivery` | `JobInv`: all batches in the log are of one source (`LogSource`), the end completes that source (`EndOfSource`), a caller without a receiver has received nothing (`CallerInv`) |

The three refinements show that a consumer cannot tell the reads apart. `BatchDelivery`
has batches that arrive one at a time from one *source*, a set of streams that holds the
result, and a clean end only when that source is complete. For a table the source is all
streams of the session, for an inline page the job's stream, and for a job stream either
the job's stream or the session, undecided until the first batch: the switch is invisible.
`Given`, what `recv()` has returned without an error that ended it, is the sequence of
batches; the lemmas on it (`GivenStays`, `GivenGrows`, `GivenAtEnd`) are shared by the
reads. For the inline page `Seen` is how the read ended for Python, whichever of the
exporter, the iterator and the receiver ended it. The refinement of a table read is also
checked by the run `table_ordered`; TLC confirmed the other two on the instances of
`inline_page` and `job_stream`.

`RowsOnce` is the one property that needs a hypothesis beyond the assumptions. The
invariants of the three reads were checked with TLC on small instances before they
were proved. In a read with a schema sender an error may go to the caller instead of
the channel; `SchemaInv` is what makes `JobInv` inductive there.

**Token cache.** `TokenCacheProofs`, for any number of callers and refreshes, any
lifetimes and buffers, and any moment of timers, cancellations and answers of Python.
`Inv` joins `LockInv` (who has the mutex: a coordinator that has not ended or a caller
between its looks), `TasksInv` (a coordinator ends before its worker only after it has
set `timed_out`; who stores has `cache.write()`), `OrderInv` (refreshes start in order and
none starts while an earlier one may still store, which is what the second look at
`timed_out` is for), `TokenInv` (every token came from Python, none is newer than the
cache's) and `CallInv` (what a call remembers between its looks). From it:
`RefreshesSerialised` (`OneRefresh`), `NoUpdateLost` (`GivenTokensAreCached`) and the action
properties `CacheOnlyAdvances` (`NeverOlder`), `PythonCalledWhenNeeded`
(`FetchOnlyWhenNeeded`) and `ServedLive` (`ServedFromCacheIsLive`).

**Calls.** `ClientCallsProofs`, for any number of rows, retries, cores and any threshold:

- `RowsCovered` (`ResultCoversRows`), `FailureReported` (`FailedJobIsReported`), `OrderKept`
  (`OrderedReadHasOneStream`), `SchemaFound` (`SelectHasSchema`), `ScriptServed`
  (`ScriptIsServed`) and `RunsOnce` (`QueryRunsOnce`). None is inductive: what a later step
  returns depends on what an earlier one found out. They share the invariant
  `RoutingInv`. Its parts say which calls have a query (`StageInv`), that nothing is
  decided before the end (`PendingInv`), that one request id is used and precedes
  every answer (`SentInv`), that a complete response is about a finished job and
  accounts for its rows (`AnswerInv`), and what is known at each await (`PlaceInv`):
  whoever asks `jobs.get` about an empty stream has a job that failed or a result
  without rows, whoever resolves a table is neither ordered nor a script. There is one
  lemma per action.
- `CauseKept` (`PythonCauseIsKept`): `CauseInv` follows the blame from the request that
  failed through `map_query_error` and the chain of causes to the exception.
- `AllIsShown` (`FailureIsShown`), for chains and lists of any length: the first message
  that is not shown would be part of the one before it, which is.
- `OneMeaning` (`TextHasOneReading`) and `WrittenAndRead` (`TextRoundTrip`), for texts of any
  length. `TableIdProofs` restates the grammar as positions: a text is *cut* at the dots
  `a` and `b`. A reading is a cut (`ReadingIsCut`), the parser finds every cut
  (`CutIsParsed`, hence there is only one) and accepts nothing else (`ParsedIsCut`).
- `TypeCorrect` (`TypeOK`): in particular a call runs only for a client that was created.

**Predicate compiler.** `PredicateProofs`, for filters of every size and shape, tables of
any number of rows and any reuse of addresses. What a tree means is not defined by
recursion over it but stored when a node is built, so that the invariant can say it of
each node and its operands (`GoodHeap`):

- the value of a node, and its SQL, follow from those of its operands; SQL that is
  called exact has the value of the node in every row, and other SQL is true wherever
  the node is. This is preserved by every node that is ever added (`NewGood`), and gives
  `ExactSql` (`ExactIsExact`).
- `Replaces(h, i, j)`: node `j` may stand for node `i`. It has the same value in every row,
  its SQL is exact if that of `i` is, and it lets no more rows pass. It is reflexive and
  transitive, and a node stays replaceable when its operands are replaced
  (`ReplacedChildren`), which takes one lemma per operator, with conjunctions that
  drop a side as the delicate case. Each rule of the rewriters is a lemma of this kind:
  `BooleanTernaryReplaces` (if the condition is never NULL), the lemmas of the literal
  folds (if no literal is NULL), `ChainReplaces` (a prefix of a chain of any length,
  merged) and `DeMorganReplaces`.
- `Walk`: the shape of the lists of `rewrite_tree` in each phase. `Keeps`: the root stands
  for the filter, and each rewritten entry of `nodes`, and its children, for what they
  were. These hold as long as nothing rewritten so far was harmful, so they are
  stated under `Harmless`.

`IInv` joins these; there is one lemma per action. `NoRowIsLost` (`RowsAreKept`) and
`NoRewriteWidens` (`RewritesOnlySharpen`) are its last step: the node that is emitted
replaces the filter. `NoNullNoLoss` discharges `Harmless` from the input alone: in a filter
without NULL literals over columns without NULLs no node that is ever built is NULL in
any row, so `SupersetOfRows` holds without a condition on what was rewritten.

Where a chain, a list or a text may be of any length, the least position with some
property (`LeastNatural`) takes the place of induction.

**Only model-checked.** Liveness under fairness (`ReadEnds`, `CancelStopsEverything`,
`InterruptIsNoticed`, `LetGoStopsEverything`, `CallReturns`, `CallsReturn`, `LockIsReleased`),
which is out of the prover's reach, as are facts about `ENABLED`.
The liveness half of the refinement is not stated: `BatchDelivery` has no fairness.

## Plan

`PredicateParser`: which shapes of JSON become which nodes, and scan planning with its
local filter.

## Not modelled

- The predicate parser and scan planning: a dispatch over the JSON of Polars
  expressions; without the expressions themselves a model would be a copy of the
  table. `DropNulls`, lists and the text of SQL literals and column names.
- The REST client and the mapping of BigQuery types to Polars types: one request
  through a library, and a table.
- The mapping of compression codecs, and the setters of builders, which store
  what they are given; what the columns of a dry run contain beyond being there.
- Poisoned locks and the classification of Python errors in the token cache.
- Payload bytes, Arrow types and schema contents; timing (delays are "some time
  later"); panics of tasks; the throttler's internal budget; the Google Cloud SDK;
  logging.
