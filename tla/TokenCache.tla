----------------------------- MODULE TokenCache -----------------------------
(***************************************************************************)
(* py-arrow-bigquery/src/auth.rs: PythonTokenSource, the cache of bearer   *)
(* tokens between the Google Cloud SDK and a Python callable.              *)
(*                                                                         *)
(* Every request of every stream calls headers().  A fresh token is served *)
(* from the cache; a soft-expired one is served while one background task  *)
(* refreshes it; otherwise the caller refreshes under a mutex.  A refresh  *)
(* is two tasks: a worker on the blocking pool, which calls Python and     *)
(* stores the token, and a coordinator, which owns the guard of the mutex  *)
(* and gives up on a worker that takes too long.                           *)
(*                                                                         *)
(* Tokens are told apart by gen, the number of the refresh that fetched    *)
(* them (the EntityTag of the code); gen = 0 is "no token".  Time is a     *)
(* clock that may tick at any moment.  When the refresh timeout expires is *)
(* left open, because Python may take any time to answer.                  *)
(***************************************************************************)
EXTENDS Integers, Sequences, FiniteSets

CONSTANTS
    Callers,        \* concurrent users of the token source
    MaxCalls,       \* bound: calls of headers() in a run
    MaxTime,        \* bound: ticks of the clock
    SoftBuffer,     \* SOFT_EXPIRY_BUFFER
    HardBuffer,     \* HARD_EXPIRY_BUFFER
    Lifetimes,      \* seconds a token returned by Python may have left
    BaseCooldown,   \* soft_refresh_base_cooldown
    MaxCooldown,    \* MAX_SOFT_REFRESH_COOLDOWN
    Free,           \* the mutex has no holder
    Background      \* its holder is a spawned closure that has not called Python yet

ASSUME CacheAssumption ==
    /\ {MaxCalls, MaxTime, SoftBuffer, HardBuffer, BaseCooldown, MaxCooldown} \subseteq Nat
    /\ HardBuffer <= SoftBuffer
    /\ Lifetimes \subseteq Nat
    /\ Free # Background
    /\ Callers \cap (0 .. MaxCalls) = {}
    /\ {Free, Background} \cap (Callers \cup (0 .. MaxCalls)) = {}

VARIABLES
    clock,      \* Instant::now()
    cache,      \* CacheState: token, failures, nextAt (0: None)
    writer,     \* the refresh whose worker holds cache.write(), or 0
    lock,       \* who holds refresh_lock: a caller, a refresh, Background or Free
    waiting,    \* the callers queued for refresh_lock, first come first served
    call,       \* per caller: the state of its headers() future
    refresh,    \* per refresh: its worker and its coordinator
    calls       \* number of calls made so far

vars == <<clock, cache, writer, lock, waiting, call, refresh, calls>>

\* A call starts at most one refresh.
Refreshes == 1 .. MaxCalls

\* A deadline that is never reached: the token has no expiration.
Never == MaxTime + 1

Tokens == [gen : 0 .. MaxCalls, soft : Nat, hard : Nat]

NoToken == [gen |-> 0, soft |-> 0, hard |-> 0]

\* No call is under way; the SDK keeps the headers it was given.
Idle(token) == [pc |-> "idle", since |-> 0, tag |-> 0, resource |-> NoToken,
                attempt |-> FALSE, refresh |-> 0, held |-> token]

NoRefresh == [by |-> Free, worker |-> "unused", coord |-> "unused",
              timedOut |-> FALSE, ok |-> FALSE, token |-> NoToken]

Init ==
    /\ clock = 0
    /\ cache = [token |-> NoToken, failures |-> 0, nextAt |-> 0]
    /\ writer = 0
    /\ lock = Free
    /\ waiting = <<>>
    /\ call = [c \in Callers |-> Idle(NoToken)]
    /\ refresh = [r \in Refreshes |-> NoRefresh]
    /\ calls = 0

-----------------------------------------------------------------------------
(* Deadlines and freshness *)

SaturatingSub(a, b) == IF a < b THEN 0 ELSE a - b

\* A token fetched now, from the life that its expiration leaves it.
FromUtcExpiry(r, life) ==
    [gen |-> r, soft |-> clock + SaturatingSub(life, SoftBuffer),
                hard |-> clock + SaturatingSub(life, HardBuffer)]

\* The expiration is None.
NonExpiring(r) == [gen |-> r, soft |-> Never, hard |-> Never]

Freshness(token, now) ==
    CASE token.gen # 0 /\ now < token.soft -> "Fresh"
      [] token.gen # 0 /\ token.soft <= now /\ now < token.hard -> "SoftExpired"
      [] OTHER -> "HardExpired"

CanAttemptSoftRefresh(now) == now >= cache.nextAt

Cooldown(failures) ==
    LET doubled == BaseCooldown * 2 ^ (IF failures < 5 THEN failures ELSE 5)
    IN  IF doubled < MaxCooldown THEN doubled ELSE MaxCooldown

\* Mutant: NotModified for whoever sends a tag.
ToCacheableResourceAnyTag(token, c) ==
    IF call[c].tag # 0 THEN call[c].held ELSE token

\* What a caller has after it was served a token: the headers it had, if it
\* sent their tag (NotModified), and the new ones otherwise.
ToCacheableResource(token, c) ==
    IF call[c].tag = token.gen THEN call[c].held ELSE token

-----------------------------------------------------------------------------
(* headers() *)

Return(c, token) == call' = [call EXCEPT ![c] = Idle(token)]

\* The SDK calls headers(), with the tag of the headers it has or without one.
Headers(c) ==
    /\ call[c].pc = "idle"
    /\ calls < MaxCalls
    /\ calls' = calls + 1
    /\ \E tag \in {0, call[c].held.gen} :
          call' = [call EXCEPT ![c].pc = "read", ![c].since = clock, ![c].tag = tag]
    /\ UNCHANGED <<clock, cache, writer, lock, waiting, refresh>>

\* 1. Look at the cache under the shared lock, with the `now` of the call.
ReadCache(c) ==
    /\ call[c].pc = "read"
    /\ writer = 0
    /\ LET now == call[c].since
           token == cache.token
           freshness == Freshness(token, now)
       IN  \/ /\ freshness = "Fresh"
              /\ Return(c, ToCacheableResource(token, c))
              /\ UNCHANGED waiting
           \/ /\ freshness = "SoftExpired"
              /\ call' = [call EXCEPT ![c].pc = "soft",
                                      ![c].resource = ToCacheableResource(token, c),
                                      ![c].attempt = CanAttemptSoftRefresh(now)]
              /\ UNCHANGED waiting
           \/ /\ freshness = "HardExpired"
              /\ call' = [call EXCEPT ![c].pc = "queued"]
              /\ waiting' = Append(waiting, c)
    /\ UNCHANGED <<clock, cache, writer, lock, refresh, calls>>

\* 2. Serve the soft-expired token; the one who gets the mutex without waiting
\* spawns the background refresh.  A waiter is handed the mutex, so try_lock
\* fails while there is one.
SoftRefresh(c) ==
    /\ call[c].pc = "soft"
    /\ lock' = IF call[c].attempt /\ lock = Free /\ waiting = <<>> THEN Background ELSE lock
    /\ Return(c, call[c].resource)
    /\ UNCHANGED <<clock, cache, writer, waiting, refresh, calls>>

\* 3. The mutex is handed to the first waiter.
AcquireLock(c) ==
    /\ call[c].pc = "queued"
    /\ lock = Free
    /\ Head(waiting) = c
    /\ lock' = c
    /\ waiting' = Tail(waiting)
    /\ call' = [call EXCEPT ![c].pc = "check"]
    /\ UNCHANGED <<clock, cache, writer, refresh, calls>>

\* refresh_token_with_guard: the guard moves into the detached coordinator.
StartRefresh(r, by) ==
    /\ refresh[r].worker = "unused"
    /\ \A q \in Refreshes : q < r => refresh[q].worker # "unused"
    /\ refresh' = [refresh EXCEPT ![r].by = by, ![r].worker = "calling", ![r].coord = "running"]
    /\ lock' = r

\* Double-checked locking: serve what another caller fetched meanwhile, or
\* refresh and wait for the outcome.
CheckAgain(c) ==
    /\ call[c].pc = "check"
    /\ writer = 0
    /\ \/ /\ Freshness(cache.token, clock) # "HardExpired"
          /\ Return(c, ToCacheableResource(cache.token, c))
          /\ lock' = Free
          /\ UNCHANGED refresh
       \/ /\ Freshness(cache.token, clock) = "HardExpired"
          /\ \E r \in Refreshes :
                /\ StartRefresh(r, c)
                /\ call' = [call EXCEPT ![c].pc = "await", ![c].refresh = r]
    /\ UNCHANGED <<clock, cache, writer, waiting, calls>>

\* Mutant: the worker's result, even after a timeout.
WorkerSucceeded(r) == refresh[r].ok

\* The outcome that the coordinator reports: a timeout is an error whatever the
\* worker has done since.
Succeeded(r) == refresh[r].ok /\ ~refresh[r].timedOut

\* The coordinator is done and its caller takes the outcome.
TakeOutcome(c) ==
    /\ call[c].pc = "await"
    /\ LET r == call[c].refresh
       IN  /\ refresh[r].coord = "ended"
           /\ Return(c, IF Succeeded(r) THEN refresh[r].token ELSE call[c].held)
    /\ UNCHANGED <<clock, cache, writer, lock, waiting, refresh, calls>>

\* A dropped future leaves the queue of the mutex, if it is in there.
LeaveQueue(c) ==
    \/ \E i \in DOMAIN waiting :
          /\ waiting[i] = c
          /\ waiting' = [k \in 1 .. Len(waiting) - 1 |-> waiting[IF k < i THEN k ELSE k + 1]]
    \/ (\A i \in DOMAIN waiting : waiting[i] # c) /\ UNCHANGED waiting

\* Mutant: the refresh is not detached, so its guard is dropped with the future.
CancelDropsGuard(c) ==
    /\ call[c].pc \in {"queued", "await"}
    /\ LeaveQueue(c)
    /\ lock' = IF call[c].pc = "await" /\ lock = call[c].refresh THEN Free ELSE lock
    /\ Return(c, call[c].held)
    /\ UNCHANGED <<clock, cache, writer, refresh, calls>>

\* The caller's future is dropped at one of its awaits; the coordinator is
\* detached and goes on.
Cancel(c) ==
    /\ call[c].pc \in {"queued", "await"}
    /\ LeaveQueue(c)
    /\ Return(c, call[c].held)
    /\ UNCHANGED <<clock, cache, writer, lock, refresh, calls>>

-----------------------------------------------------------------------------
(* The background task *)

\* Mutant: no second look.
BackgroundCheckOnce ==
    /\ lock = Background
    /\ \E r \in Refreshes : StartRefresh(r, Background)
    /\ UNCHANGED <<clock, cache, writer, waiting, call, calls>>

\* Look again before calling Python: whoever held the mutex in between may have
\* refreshed the token or failed to.
BackgroundCheck ==
    /\ lock = Background
    /\ writer = 0
    /\ LET shouldRefresh == /\ CanAttemptSoftRefresh(clock)
                            /\ cache.token.gen # 0
                            /\ Freshness(cache.token, clock) # "Fresh"
       IN  \/ shouldRefresh /\ \E r \in Refreshes : StartRefresh(r, Background)
           \/ ~shouldRefresh /\ lock' = Free /\ UNCHANGED refresh
    /\ UNCHANGED <<clock, cache, writer, waiting, call, calls>>

\* Record a failed background refresh.  The coordinator has ended, so the mutex
\* is already free.
RecordFailure(r) ==
    /\ refresh[r].by = Background
    /\ refresh[r].coord = "ended"
    /\ ~Succeeded(r)
    /\ writer = 0
    /\ cache' = [token |-> cache.token, failures |-> cache.failures + 1,
                 nextAt |-> clock + Cooldown(cache.failures)]
    /\ refresh' = [refresh EXCEPT ![r].coord = "recorded"]
    /\ UNCHANGED <<clock, writer, lock, waiting, call, calls>>

-----------------------------------------------------------------------------
(* The worker of a refresh, on the blocking pool *)

\* Python raises, or returns something that is not a token and its expiration.
FetchErr(r) ==
    /\ refresh[r].worker = "calling"
    /\ refresh' = [refresh EXCEPT ![r].worker = "done"]
    /\ UNCHANGED <<clock, cache, writer, lock, waiting, call, calls>>

FetchOk(r) ==
    /\ refresh[r].worker = "calling"
    /\ \E token \in {FromUtcExpiry(r, life) : life \in Lifetimes} \cup {NonExpiring(r)} :
          refresh' = [refresh EXCEPT ![r].worker = "fetched", ![r].token = token]
    /\ UNCHANGED <<clock, cache, writer, lock, waiting, call, calls>>

\* The first look at timed_out, without the cache lock.
LateAnswer(r) ==
    /\ refresh[r].worker = "fetched"
    /\ refresh' = [refresh EXCEPT ![r].worker = IF refresh[r].timedOut THEN "done" ELSE "ready"]
    /\ UNCHANGED <<clock, cache, writer, lock, waiting, call, calls>>

\* Mutant: timed_out is only looked at before the lock is taken.
LockCacheUnchecked(r) ==
    /\ refresh[r].worker = "ready"
    /\ writer = 0
    /\ refresh' = [refresh EXCEPT ![r].worker = "storing"]
    /\ writer' = r
    /\ UNCHANGED <<clock, cache, lock, waiting, call, calls>>

\* Take cache.write() and look at timed_out again.  Too late, and nothing is
\* stored, although the worker's own result is Ok.
LockCache(r) ==
    /\ refresh[r].worker = "ready"
    /\ writer = 0
    /\ \/ /\ refresh[r].timedOut
          /\ refresh' = [refresh EXCEPT ![r].worker = "done", ![r].ok = TRUE]
          /\ UNCHANGED writer
       \/ /\ ~refresh[r].timedOut
          /\ refresh' = [refresh EXCEPT ![r].worker = "storing"]
          /\ writer' = r
    /\ UNCHANGED <<clock, cache, lock, waiting, call, calls>>

StoreToken(r) ==
    /\ refresh[r].worker = "storing"
    /\ cache' = [token |-> refresh[r].token, failures |-> 0, nextAt |-> 0]
    /\ writer' = 0
    /\ refresh' = [refresh EXCEPT ![r].worker = "done", ![r].ok = TRUE]
    /\ UNCHANGED <<clock, lock, waiting, call, calls>>

-----------------------------------------------------------------------------
(* The coordinator of a refresh, a detached task that owns the guard *)

\* The worker is done in time: the guard is dropped with the task.
Join(r) ==
    /\ refresh[r].coord = "running"
    /\ refresh[r].worker = "done"
    /\ refresh' = [refresh EXCEPT ![r].coord = "ended"]
    /\ lock' = Free
    /\ UNCHANGED <<clock, cache, writer, waiting, call, calls>>

\* Mutant: the worker is awaited without a timeout.
TimerNever(r) == FALSE

\* The timer fires; the worker may still finish before it is told.
TimerFires(r) ==
    /\ refresh[r].coord = "running"
    /\ refresh[r].worker # "done"
    /\ refresh' = [refresh EXCEPT ![r].coord = "expired"]
    /\ UNCHANGED <<clock, cache, writer, lock, waiting, call, calls>>

\* Mutant: the guard is kept until the worker comes back.
GiveUpAfterWorker(r) ==
    /\ refresh[r].coord = "expired"
    /\ refresh[r].worker = "done"
    /\ refresh' = [refresh EXCEPT ![r].timedOut = TRUE, ![r].coord = "ended"]
    /\ lock' = Free
    /\ UNCHANGED <<clock, cache, writer, waiting, call, calls>>

\* timed_out is set, then the guard is dropped with the task.
GiveUp(r) ==
    /\ refresh[r].coord = "expired"
    /\ refresh' = [refresh EXCEPT ![r].timedOut = TRUE, ![r].coord = "ended"]
    /\ lock' = Free
    /\ UNCHANGED <<clock, cache, writer, waiting, call, calls>>

-----------------------------------------------------------------------------

Tick ==
    /\ clock < MaxTime
    /\ clock' = clock + 1
    /\ UNCHANGED <<cache, writer, lock, waiting, call, refresh, calls>>

\* Nothing is left to do, except for Python calls that never return.
Finished ==
    /\ calls = MaxCalls
    /\ clock = MaxTime
    /\ lock = Free
    /\ \A c \in Callers : call[c].pc = "idle"

Done == Finished /\ UNCHANGED vars

Caller(c) == ReadCache(c) \/ SoftRefresh(c) \/ AcquireLock(c) \/ CheckAgain(c) \/ TakeOutcome(c)

Worker(r) == LateAnswer(r) \/ LockCache(r) \/ StoreToken(r)

Coordinator(r) == Join(r) \/ TimerFires(r) \/ GiveUp(r)

Next ==
    \/ \E c \in Callers : Headers(c) \/ Caller(c) \/ Cancel(c)
    \/ BackgroundCheck
    \/ \E r \in Refreshes :
          Worker(r) \/ Coordinator(r) \/ RecordFailure(r) \/ FetchOk(r) \/ FetchErr(r)
    \/ Tick
    \/ Done

Spec == Init /\ [][Next]_vars

\* The runtime polls every task and runs started closures, timers included.
\* Nothing is assumed of Python: a call may hang for ever.
Fairness ==
    /\ \A c \in Callers : WF_vars(Caller(c))
    /\ WF_vars(BackgroundCheck)
    /\ \A r \in Refreshes :
          WF_vars(Worker(r)) /\ WF_vars(Coordinator(r)) /\ WF_vars(RecordFailure(r))

FairSpec == Spec /\ Fairness

-----------------------------------------------------------------------------

\* Every variable has its type, and the mutex is held by an existing party.
TypeOK ==
    /\ clock \in 0 .. MaxTime
    /\ cache \in [token : Tokens, failures : Nat, nextAt : Nat]
    /\ writer \in Refreshes \cup {0}
    /\ lock \in Callers \cup Refreshes \cup {Free, Background}
    /\ waiting \in Seq(Callers)
    /\ call \in [Callers -> [pc : {"idle", "read", "soft", "queued", "check", "await"},
                             since : 0 .. MaxTime, tag : 0 .. MaxCalls, resource : Tokens,
                             attempt : BOOLEAN, refresh : Refreshes \cup {0}, held : Tokens]]
    /\ refresh \in [Refreshes -> [by : Callers \cup {Free, Background},
                                  worker : {"unused", "calling", "fetched", "ready", "storing", "done"},
                                  coord : {"unused", "running", "expired", "ended", "recorded"},
                                  timedOut : BOOLEAN, ok : BOOLEAN, token : Tokens]]
    /\ calls \in 0 .. MaxCalls

\* Refreshes are serialised by the mutex even when callers are cancelled and
\* the guard changes hands: at most one coordinator is at work, and no caller
\* or background task is in its critical section beside it.
OneRefresh ==
    /\ \A q, r \in Refreshes :
          refresh[q].coord \in {"running", "expired"} /\ refresh[r].coord \in {"running", "expired"} => q = r
    /\ \A r \in Refreshes : refresh[r].coord \in {"running", "expired"} => lock = r
    /\ \A c \in Callers : call[c].pc = "check" => lock = c

\* A worker that answers after its timeout never overwrites a token fetched by
\* a later refresh (the comment on refresh_token_with_guard), although it looks
\* at timed_out and stores in two steps and the guard is gone by then.
NeverOlder == [][cache'.token # cache.token => cache'.token.gen > cache.token.gen]_vars

\* No token update is lost: a token that any caller was given is in the cache,
\* unless a newer one is.
GivenTokensAreCached == \A c \in Callers : call[c].held.gen <= cache.token.gen

\* Python is only called when it must be: never for a token that is still
\* fresh, by a caller only for one that is past its hard deadline, and by the
\* background task never within the cooldown of a recorded failure.
FetchOnlyWhenNeeded ==
    [][\A r \in Refreshes :
         refresh[r].worker = "unused" /\ refresh'[r].worker = "calling" =>
            IF refresh'[r].by = Background
            THEN Freshness(cache.token, clock) # "Fresh" /\ clock >= cache.nextAt
            ELSE Freshness(cache.token, clock) = "HardExpired"]_vars

\* Whoever is served from the cache goes away with headers that were not yet
\* past their hard deadline when it called, NotModified answers included.
ServedFromCacheIsLive ==
    [][\A c \in Callers :
         call[c].pc \in {"read", "soft", "check"} /\ call'[c].pc = "idle" =>
            Freshness(call'[c].held, call[c].since) # "HardExpired"]_vars

\* Every call of headers() returns, even if Python hangs in every refresh and
\* other callers give up or keep coming.
CallsReturn == \A c \in Callers : call[c].pc # "idle" ~> call[c].pc = "idle"

\* The mutex is not held for ever by a background task or by a coordinator
\* whose caller has gone.
LockIsReleased == lock # Free ~> lock = Free
=============================================================================
