--------------------------- MODULE TokenCacheProofs ---------------------------
(***************************************************************************)
(* Theorems about TokenCache, for every number of callers and refreshes,   *)
(* every lifetime of a token and every moment at which a timer fires, a    *)
(* caller is cancelled or Python answers.                                  *)
(***************************************************************************)
EXTENDS TokenCache, SequenceTheorems, TLAPS

-----------------------------------------------------------------------------
(* The inductive invariant *)

\* The coordinators that own the guard of the mutex.
Active == {"running", "expired"}

\* Who has the mutex knows it: a coordinator that has not ended, and a caller
\* between its two looks at the cache.
LockInv ==
    /\ \A r \in Refreshes : refresh[r].coord \in Active => lock = r
    /\ \A c \in Callers : call[c].pc = "check" => lock = c

\* The tasks of one refresh: they start together, the coordinator only ends
\* before its worker if it has set timed_out, and who stores has cache.write().
TasksInv ==
    \A r \in Refreshes :
       /\ refresh[r].worker = "unused" <=> refresh[r].coord = "unused"
       /\ refresh[r].timedOut => refresh[r].coord \notin {"unused"} \cup Active
       /\ refresh[r].coord \in {"ended", "recorded"} /\ ~refresh[r].timedOut => refresh[r].worker = "done"
       /\ refresh[r].worker = "storing" => writer = r
       /\ refresh[r].worker \in {"fetched", "ready", "storing"} => refresh[r].token.gen = r
       /\ refresh[r].ok => refresh[r].worker = "done" /\ refresh[r].token.gen = r

\* The worker of r may still change the cache.
MayStore(r) ==
    \/ refresh[r].worker = "storing"
    \/ refresh[r].worker \in {"calling", "fetched", "ready"} /\ ~refresh[r].timedOut

\* Refreshes start in order, and none starts while an earlier one may store.
OrderInv ==
    \A q, r \in Refreshes : q < r =>
       /\ refresh[r].worker # "unused" => refresh[q].worker # "unused"
       /\ MayStore(q) => refresh[r].worker = "unused"

\* The token came from Python and its worker is through.
Fetched(token) ==
    \/ token = NoToken
    \/ /\ token.gen \in Refreshes
       /\ refresh[token.gen].worker = "done"
       /\ token = refresh[token.gen].token

\* Every token in the cache or in a caller's hands was fetched, none is newer
\* than the cache's, and a refresh that reports success has stored its own.
TokenInv ==
    /\ Fetched(cache.token)
    /\ \A c \in Callers :
          /\ Fetched(call[c].held) /\ call[c].held.gen <= cache.token.gen
          /\ Fetched(call[c].resource) /\ call[c].resource.gen <= cache.token.gen
    /\ \A r \in Refreshes : Succeeded(r) => r <= cache.token.gen

\* What a call remembers: when it was made, the tag of the headers its caller
\* has, a token that is good enough to serve, the refresh it waits for.
CallInv ==
    \A c \in Callers :
       /\ call[c].since <= clock
       /\ call[c].tag \in {0, call[c].held.gen}
       /\ call[c].pc = "soft" => Freshness(call[c].resource, call[c].since) # "HardExpired"
       /\ call[c].pc = "await" => call[c].refresh \in Refreshes
       /\ call[c].pc = "queued" => \E i \in DOMAIN waiting : waiting[i] = c

Inv == TypeOK /\ LockInv /\ TasksInv /\ OrderInv /\ TokenInv /\ CallInv

-----------------------------------------------------------------------------
(* Types *)

LEMMA CooldownType == \A n \in Nat : Cooldown(n) \in Nat
<1> SUFFICES ASSUME NEW n \in Nat PROVE Cooldown(n) \in Nat
  OBVIOUS
<1>1. 2 ^ 0 \in Nat /\ 2 ^ 1 \in Nat /\ 2 ^ 2 \in Nat /\ 2 ^ 3 \in Nat /\ 2 ^ 4 \in Nat /\ 2 ^ 5 \in Nat
  OBVIOUS
<1> DEFINE k == IF n < 5 THEN n ELSE 5
           doubled == BaseCooldown * 2 ^ k
<1>2. k \in {0, 1, 2, 3, 4, 5}
  OBVIOUS
<1>3. 2 ^ k \in Nat
  <2> HIDE DEF k
  <2> QED
    BY <1>1, <1>2
<1>4. doubled \in Nat
  <2> HIDE DEF k
  <2> QED
    BY <1>3, CacheAssumption
<1>5. Cooldown(n) = IF doubled < MaxCooldown THEN doubled ELSE MaxCooldown
  BY DEF Cooldown
<1> HIDE DEF doubled
<1> QED
  BY <1>4, <1>5, CacheAssumption

LEMMA NoTokenType == NoToken \in Tokens
BY CacheAssumption DEF NoToken, Tokens

LEMMA FetchedTypes ==
    ASSUME clock \in Nat, NEW r \in Refreshes
    PROVE  NonExpiring(r) \in Tokens /\ \A life \in Lifetimes : FromUtcExpiry(r, life) \in Tokens
BY CacheAssumption DEF Tokens, NonExpiring, FromUtcExpiry, Never, Refreshes, SaturatingSub

LEMMA LeaveQueueType ==
    ASSUME waiting \in Seq(Callers), NEW c \in Callers, LeaveQueue(c)
    PROVE  /\ waiting' \in Seq(Callers)
           /\ \A d \in Callers : (\E i \in DOMAIN waiting : waiting[i] = d) /\ d # c =>
                                  \E i \in DOMAIN waiting' : waiting'[i] = d
<1>1. CASE UNCHANGED waiting
  BY <1>1
<1>2. ASSUME NEW i \in DOMAIN waiting, waiting[i] = c,
             waiting' = [k \in 1 .. Len(waiting) - 1 |-> waiting[IF k < i THEN k ELSE k + 1]]
      PROVE  /\ waiting' \in Seq(Callers)
             /\ \A d \in Callers : (\E k \in DOMAIN waiting : waiting[k] = d) /\ d # c =>
                                    \E k \in DOMAIN waiting' : waiting'[k] = d
  <2>1. Len(waiting) \in Nat /\ DOMAIN waiting = 1 .. Len(waiting)
    BY LenProperties
  <2>2. Len(waiting) - 1 \in Nat
    BY <2>1, <1>2
  <2>3. \A k \in 1 .. Len(waiting) : waiting[k] \in Callers
    BY <2>1, ElementOfSeq
  <2>4. \A k \in 1 .. Len(waiting) - 1 : waiting[IF k < i THEN k ELSE k + 1] \in Callers
    BY <2>1, <2>3, <1>2
  <2>5. waiting' \in Seq(Callers)
    BY <2>2, <2>4, <1>2, IsASeq
  <2>6. ASSUME NEW d \in Callers, NEW k \in DOMAIN waiting, waiting[k] = d, d # c
        PROVE  \E j \in DOMAIN waiting' : waiting'[j] = d
    <3>1. k # i /\ k \in 1 .. Len(waiting) /\ i \in 1 .. Len(waiting)
      BY <2>1, <2>6, <1>2
    <3>2. DOMAIN waiting' = 1 .. Len(waiting) - 1
      BY <1>2
    <3>3. CASE k < i
      <4>1. k \in 1 .. Len(waiting) - 1
        BY <3>1, <3>3, <2>1
      <4> QED
        BY <4>1, <3>2, <3>3, <2>6, <1>2
    <3>4. CASE k > i
      <4>1. k - 1 \in 1 .. Len(waiting) - 1 /\ ~(k - 1 < i) /\ (k - 1) + 1 = k
        BY <3>1, <3>4, <2>1
      <4> QED
        BY <4>1, <3>2, <2>6, <1>2
    <3> QED
      BY <3>1, <3>3, <3>4, <2>1
  <2> QED
    BY <2>5, <2>6
<1> QED
  BY <1>1, <1>2 DEF LeaveQueue

-----------------------------------------------------------------------------
(* What the updates of one call or of one refresh leave *)

CallRecords ==
    [pc : {"idle", "read", "soft", "queued", "check", "await"},
     since : 0 .. MaxTime, tag : 0 .. MaxCalls, resource : Tokens,
     attempt : BOOLEAN, refresh : Refreshes \cup {0}, held : Tokens]

RefreshRecords ==
    [by : Callers \cup {Free, Background},
     worker : {"unused", "calling", "fetched", "ready", "storing", "done"},
     coord : {"unused", "running", "expired", "ended", "recorded"},
     timedOut : BOOLEAN, ok : BOOLEAN, token : Tokens]

CallBecomes(c, pc, since, tag, resource, attempt, r, held) ==
    /\ call' \in [Callers -> CallRecords]
    /\ call'[c].pc = pc /\ call'[c].since = since /\ call'[c].tag = tag
    /\ call'[c].resource = resource /\ call'[c].attempt = attempt
    /\ call'[c].refresh = r /\ call'[c].held = held
    /\ \A d \in Callers \ {c} : call'[d] = call[d]

RefreshBecomes(r, by, worker, coord, timedOut, ok, token) ==
    /\ refresh' \in [Refreshes -> RefreshRecords]
    /\ refresh'[r].by = by /\ refresh'[r].worker = worker /\ refresh'[r].coord = coord
    /\ refresh'[r].timedOut = timedOut /\ refresh'[r].ok = ok /\ refresh'[r].token = token
    /\ \A q \in Refreshes \ {r} : refresh'[q] = refresh[q]

LEMMA WorkerMoves ==
    ASSUME refresh \in [Refreshes -> RefreshRecords], NEW r \in Refreshes,
           NEW worker \in {"unused", "calling", "fetched", "ready", "storing", "done"},
           refresh' = [refresh EXCEPT ![r].worker = worker]
    PROVE  RefreshBecomes(r, refresh[r].by, worker, refresh[r].coord,
                          refresh[r].timedOut, refresh[r].ok, refresh[r].token)
BY DEF RefreshRecords, RefreshBecomes

LEMMA WorkerSucceeds ==
    ASSUME refresh \in [Refreshes -> RefreshRecords], NEW r \in Refreshes,
           refresh' = [refresh EXCEPT ![r].worker = "done", ![r].ok = TRUE]
    PROVE  RefreshBecomes(r, refresh[r].by, "done", refresh[r].coord,
                          refresh[r].timedOut, TRUE, refresh[r].token)
BY DEF RefreshRecords, RefreshBecomes

LEMMA WorkerFetches ==
    ASSUME refresh \in [Refreshes -> RefreshRecords], NEW r \in Refreshes, NEW token \in Tokens,
           refresh' = [refresh EXCEPT ![r].worker = "fetched", ![r].token = token]
    PROVE  RefreshBecomes(r, refresh[r].by, "fetched", refresh[r].coord,
                          refresh[r].timedOut, refresh[r].ok, token)
BY DEF RefreshRecords, RefreshBecomes

LEMMA CoordMoves ==
    ASSUME refresh \in [Refreshes -> RefreshRecords], NEW r \in Refreshes,
           NEW coord \in {"unused", "running", "expired", "ended", "recorded"},
           refresh' = [refresh EXCEPT ![r].coord = coord]
    PROVE  RefreshBecomes(r, refresh[r].by, refresh[r].worker, coord,
                          refresh[r].timedOut, refresh[r].ok, refresh[r].token)
BY DEF RefreshRecords, RefreshBecomes

LEMMA CoordGivesUp ==
    ASSUME refresh \in [Refreshes -> RefreshRecords], NEW r \in Refreshes,
           refresh' = [refresh EXCEPT ![r].timedOut = TRUE, ![r].coord = "ended"]
    PROVE  RefreshBecomes(r, refresh[r].by, refresh[r].worker, "ended",
                          TRUE, refresh[r].ok, refresh[r].token)
BY DEF RefreshRecords, RefreshBecomes

LEMMA RefreshStarts ==
    ASSUME refresh \in [Refreshes -> RefreshRecords], NEW r \in Refreshes, NEW by \in Callers \cup {Background},
           refresh' = [refresh EXCEPT ![r].by = by, ![r].worker = "calling", ![r].coord = "running"]
    PROVE  RefreshBecomes(r, by, "calling", "running",
                          refresh[r].timedOut, refresh[r].ok, refresh[r].token)
BY DEF RefreshRecords, RefreshBecomes

LEMMA CallReturns ==
    ASSUME call \in [Callers -> CallRecords], NEW c \in Callers, NEW token \in Tokens,
           Return(c, token)
    PROVE  CallBecomes(c, "idle", 0, 0, NoToken,
                       FALSE, 0, token)
BY NoTokenType, CacheAssumption DEF CallRecords, CallBecomes, Return, Idle

LEMMA CallStarts ==
    ASSUME call \in [Callers -> CallRecords], NEW c \in Callers, NEW since \in 0 .. MaxTime,
           NEW tag \in 0 .. MaxCalls,
           call' = [call EXCEPT ![c].pc = "read", ![c].since = since, ![c].tag = tag]
    PROVE  CallBecomes(c, "read", since, tag, call[c].resource,
                       call[c].attempt, call[c].refresh, call[c].held)
BY DEF CallRecords, CallBecomes

LEMMA CallIsSoft ==
    ASSUME call \in [Callers -> CallRecords], NEW c \in Callers, NEW resource \in Tokens,
           NEW attempt \in BOOLEAN,
           call' = [call EXCEPT ![c].pc = "soft", ![c].resource = resource, ![c].attempt = attempt]
    PROVE  CallBecomes(c, "soft", call[c].since, call[c].tag, resource,
                       attempt, call[c].refresh, call[c].held)
BY DEF CallRecords, CallBecomes

LEMMA CallMoves ==
    ASSUME call \in [Callers -> CallRecords], NEW c \in Callers,
           NEW pc \in {"queued", "check"},
           call' = [call EXCEPT ![c].pc = pc]
    PROVE  CallBecomes(c, pc, call[c].since, call[c].tag, call[c].resource,
                       call[c].attempt, call[c].refresh, call[c].held)
BY DEF CallRecords, CallBecomes

LEMMA CallAwaits ==
    ASSUME call \in [Callers -> CallRecords], NEW c \in Callers, NEW r \in Refreshes,
           call' = [call EXCEPT ![c].pc = "await", ![c].refresh = r]
    PROVE  CallBecomes(c, "await", call[c].since, call[c].tag, call[c].resource,
                       call[c].attempt, r, call[c].held)
BY DEF CallRecords, CallBecomes

-----------------------------------------------------------------------------
(* Types *)

\* A token served to a caller has its type.
LEMMA ServedType ==
    ASSUME TypeOK, NEW c \in Callers
    PROVE  ToCacheableResource(cache.token, c) \in Tokens
BY DEF TypeOK, ToCacheableResource

LEMMA TypeStep ==
    ASSUME TypeOK, CallInv, [Next]_vars
    PROVE  TypeOK'
<1>0. /\ call \in [Callers -> CallRecords] /\ refresh \in [Refreshes -> RefreshRecords]
      /\ clock \in 0 .. MaxTime /\ cache \in [token : Tokens, failures : Nat, nextAt : Nat]
      /\ writer \in Refreshes \cup {0} /\ lock \in Callers \cup Refreshes \cup {Free, Background}
      /\ waiting \in Seq(Callers) /\ calls \in 0 .. MaxCalls
  BY DEF TypeOK, CallRecords, RefreshRecords
<1>00. ASSUME /\ call' \in [Callers -> CallRecords] /\ refresh' \in [Refreshes -> RefreshRecords]
              /\ clock' \in 0 .. MaxTime /\ cache' \in [token : Tokens, failures : Nat, nextAt : Nat]
              /\ writer' \in Refreshes \cup {0} /\ lock' \in Callers \cup Refreshes \cup {Free, Background}
              /\ waiting' \in Seq(Callers) /\ calls' \in 0 .. MaxCalls
       PROVE  TypeOK'
  BY <1>00 DEF TypeOK, CallRecords, RefreshRecords
<1>1. ASSUME NEW c \in Callers, Headers(c) PROVE TypeOK'
  <2>1. PICK tag \in {0, call[c].held.gen} :
           call' = [call EXCEPT ![c].pc = "read", ![c].since = clock, ![c].tag = tag]
    BY <1>1 DEF Headers
  <2>2. tag \in 0 .. MaxCalls
    <3>1. MaxCalls \in Nat
      BY CacheAssumption
    <3>2. call[c].held.gen \in 0 .. MaxCalls
      BY <1>0 DEF CallRecords, Tokens
    <3> QED
      BY <3>1, <3>2
  <2>3. call' \in [Callers -> CallRecords]
    BY <1>0, <2>1, <2>2, CallStarts DEF CallBecomes
  <2> QED
    BY <1>0, <1>00, <1>1, <2>3, CacheAssumption DEF Headers
<1>2. ASSUME NEW c \in Callers, ReadCache(c) PROVE TypeOK'
  <2>1. CASE Return(c, ToCacheableResource(cache.token, c)) /\ UNCHANGED waiting
    <3>1. call' \in [Callers -> CallRecords]
      BY <1>0, <2>1, ServedType, CallReturns DEF CallBecomes
    <3> QED
      BY <1>0, <1>00, <1>2, <2>1, <3>1 DEF ReadCache
  <2>2. CASE /\ call' = [call EXCEPT ![c].pc = "soft",
                                     ![c].resource = ToCacheableResource(cache.token, c),
                                     ![c].attempt = CanAttemptSoftRefresh(call[c].since)]
             /\ UNCHANGED waiting
    <3>1. CanAttemptSoftRefresh(call[c].since) \in BOOLEAN
      BY DEF CanAttemptSoftRefresh
    <3>2. call' \in [Callers -> CallRecords]
      BY <1>0, <2>2, <3>1, ServedType, CallIsSoft DEF CallBecomes
    <3> QED
      BY <1>0, <1>00, <1>2, <2>2, <3>2 DEF ReadCache
  <2>3. CASE call' = [call EXCEPT ![c].pc = "queued"] /\ waiting' = Append(waiting, c)
    <3>1. call' \in [Callers -> CallRecords]
      BY <1>0, <2>3, CallMoves DEF CallBecomes
    <3> QED
      BY <1>0, <1>00, <1>2, <2>3, <3>1, AppendProperties DEF ReadCache
  <2> QED
    BY <1>2, <2>1, <2>2, <2>3 DEF ReadCache
<1>3. ASSUME NEW c \in Callers, SoftRefresh(c) PROVE TypeOK'
  <2>1. call[c].resource \in Tokens
    BY <1>0 DEF CallRecords
  <2>2. call' \in [Callers -> CallRecords]
    BY <1>0, <1>3, <2>1, CallReturns DEF SoftRefresh, CallBecomes
  <2> QED
    BY <1>0, <1>00, <1>3, <2>2 DEF SoftRefresh
<1>4. ASSUME NEW c \in Callers, AcquireLock(c) PROVE TypeOK'
  <2>1. waiting # <<>>
    <3>1. PICK i \in DOMAIN waiting : waiting[i] = c
      BY <1>4 DEF AcquireLock, CallInv
    <3>2. DOMAIN waiting = 1 .. Len(waiting)
      BY <1>0, LenProperties
    <3> QED
      BY <3>1, <3>2, EmptySeq
  <2>2. call' \in [Callers -> CallRecords]
    BY <1>0, <1>4, CallMoves DEF AcquireLock, CallBecomes
  <2> QED
    BY <1>0, <1>00, <1>4, <2>1, <2>2, HeadTailProperties DEF AcquireLock
<1>5. ASSUME NEW c \in Callers, CheckAgain(c) PROVE TypeOK'
  <2>1. CASE Return(c, ToCacheableResource(cache.token, c)) /\ lock' = Free /\ UNCHANGED refresh
    <3>1. call' \in [Callers -> CallRecords]
      BY <1>0, <2>1, ServedType, CallReturns DEF CallBecomes
    <3> QED
      BY <1>0, <1>00, <1>5, <2>1, <3>1 DEF CheckAgain
  <2>2. ASSUME NEW r \in Refreshes, StartRefresh(r, c),
               call' = [call EXCEPT ![c].pc = "await", ![c].refresh = r]
        PROVE  TypeOK'
    <3>1. call' \in [Callers -> CallRecords]
      BY <1>0, <2>2, CallAwaits DEF CallBecomes
    <3>2. refresh' \in [Refreshes -> RefreshRecords] /\ lock' = r
      BY <1>0, <2>2, RefreshStarts DEF StartRefresh, RefreshBecomes
    <3> QED
      BY <1>0, <1>00, <1>5, <3>1, <3>2 DEF CheckAgain
  <2> QED
    BY <1>5, <2>1, <2>2 DEF CheckAgain
<1>6. ASSUME NEW c \in Callers, TakeOutcome(c) PROVE TypeOK'
  <2> DEFINE r == call[c].refresh
             token == IF Succeeded(r) THEN refresh[r].token ELSE call[c].held
  <2>1. r \in Refreshes
    BY <1>6 DEF TakeOutcome, CallInv
  <2>2. token \in Tokens
    BY <1>0, <2>1 DEF CallRecords, RefreshRecords
  <2>3. call' \in [Callers -> CallRecords]
    BY <1>0, <1>6, <2>2, CallReturns DEF TakeOutcome, CallBecomes
  <2> QED
    BY <1>0, <1>00, <1>6, <2>3 DEF TakeOutcome
<1>7. ASSUME NEW c \in Callers, Cancel(c) PROVE TypeOK'
  <2>1. call[c].held \in Tokens
    BY <1>0 DEF CallRecords
  <2>2. call' \in [Callers -> CallRecords]
    BY <1>0, <1>7, <2>1, CallReturns DEF Cancel, CallBecomes
  <2>3. waiting' \in Seq(Callers)
    BY <1>0, <1>7, LeaveQueueType DEF Cancel
  <2> QED
    BY <1>0, <1>00, <1>7, <2>2, <2>3 DEF Cancel
<1>8. CASE BackgroundCheck
  <2>1. CASE lock' = Free /\ UNCHANGED refresh
    BY <1>0, <1>00, <1>8, <2>1 DEF BackgroundCheck
  <2>2. ASSUME NEW r \in Refreshes, StartRefresh(r, Background) PROVE TypeOK'
    <3>1. refresh' \in [Refreshes -> RefreshRecords] /\ lock' = r
      BY <1>0, <2>2, RefreshStarts DEF StartRefresh, RefreshBecomes
    <3> QED
      BY <1>0, <1>00, <1>8, <3>1 DEF BackgroundCheck
  <2> QED
    BY <1>8, <2>1, <2>2 DEF BackgroundCheck
<1>9. ASSUME NEW r \in Refreshes, RecordFailure(r) PROVE TypeOK'
  <2>1. refresh' \in [Refreshes -> RefreshRecords]
    BY <1>0, <1>9, CoordMoves DEF RecordFailure, RefreshBecomes
  <2>2. clock + Cooldown(cache.failures) \in Nat
    <3>1. clock \in Nat /\ cache.failures \in Nat
      BY <1>0, CacheAssumption
    <3>2. Cooldown(cache.failures) \in Nat
      BY <3>1, CooldownType
    <3> QED
      BY <3>1, <3>2
  <2>3. cache' \in [token : Tokens, failures : Nat, nextAt : Nat]
    BY <1>0, <1>9, <2>2 DEF RecordFailure
  <2> QED
    BY <1>0, <1>00, <1>9, <2>1, <2>3 DEF RecordFailure
<1>10. ASSUME NEW r \in Refreshes, FetchErr(r) PROVE TypeOK'
  <2>1. refresh' \in [Refreshes -> RefreshRecords]
    BY <1>0, <1>10, WorkerMoves DEF FetchErr, RefreshBecomes
  <2> QED
    BY <1>0, <1>00, <1>10, <2>1 DEF FetchErr
<1>11. ASSUME NEW r \in Refreshes, FetchOk(r) PROVE TypeOK'
  <2>1. PICK token \in {FromUtcExpiry(r, life) : life \in Lifetimes} \cup {NonExpiring(r)} :
           refresh' = [refresh EXCEPT ![r].worker = "fetched", ![r].token = token]
    BY <1>11 DEF FetchOk
  <2>2. token \in Tokens
    <3>1. clock \in Nat
      BY <1>0, CacheAssumption
    <3> QED
      BY <3>1, FetchedTypes
  <2>3. refresh' \in [Refreshes -> RefreshRecords]
    BY <1>0, <2>1, <2>2, WorkerFetches DEF RefreshBecomes
  <2> QED
    BY <1>0, <1>00, <1>11, <2>3 DEF FetchOk
<1>12. ASSUME NEW r \in Refreshes, LateAnswer(r) PROVE TypeOK'
  <2>1. refresh' \in [Refreshes -> RefreshRecords]
    BY <1>0, <1>12, WorkerMoves DEF LateAnswer, RefreshBecomes
  <2> QED
    BY <1>0, <1>00, <1>12, <2>1 DEF LateAnswer
<1>13. ASSUME NEW r \in Refreshes, LockCache(r) PROVE TypeOK'
  <2>1. refresh' \in [Refreshes -> RefreshRecords]
    BY <1>0, <1>13, WorkerMoves, WorkerSucceeds DEF LockCache, RefreshBecomes
  <2> QED
    BY <1>0, <1>00, <1>13, <2>1 DEF LockCache
<1>14. ASSUME NEW r \in Refreshes, StoreToken(r) PROVE TypeOK'
  <2>1. refresh' \in [Refreshes -> RefreshRecords]
    BY <1>0, <1>14, WorkerSucceeds DEF StoreToken, RefreshBecomes
  <2>2. cache' \in [token : Tokens, failures : Nat, nextAt : Nat]
    BY <1>0, <1>14 DEF StoreToken, RefreshRecords
  <2> QED
    BY <1>0, <1>00, <1>14, <2>1, <2>2 DEF StoreToken
<1>15. ASSUME NEW r \in Refreshes, Join(r) \/ TimerFires(r) PROVE TypeOK'
  <2>1. refresh' \in [Refreshes -> RefreshRecords]
    BY <1>0, <1>15, CoordMoves DEF Join, TimerFires, RefreshBecomes
  <2> QED
    BY <1>0, <1>00, <1>15, <2>1 DEF Join, TimerFires
<1>16. ASSUME NEW r \in Refreshes, GiveUp(r) PROVE TypeOK'
  <2>1. refresh' \in [Refreshes -> RefreshRecords]
    BY <1>0, <1>16, CoordGivesUp DEF GiveUp, RefreshBecomes
  <2> QED
    BY <1>0, <1>00, <1>16, <2>1 DEF GiveUp
<1>17. CASE Tick
  BY <1>0, <1>00, <1>17, CacheAssumption DEF Tick
<1>18. CASE UNCHANGED vars
  BY <1>0, <1>00, <1>18 DEF vars
<1> QED
  BY <1>1, <1>2, <1>3, <1>4, <1>5, <1>6, <1>7, <1>8, <1>9, <1>10, <1>11, <1>12, <1>13, <1>14,
     <1>15, <1>16, <1>17, <1>18 DEF Next, Caller, Worker, Coordinator, Done

-----------------------------------------------------------------------------
(* The parts of the invariant that a kind of step keeps *)

\* The parties that compete for the mutex are told apart.
LEMMA Parties ==
    /\ \A c \in Callers : c \notin Refreshes /\ c # 0 /\ c # Free /\ c # Background
    /\ \A r \in Refreshes : r # 0 /\ r # Free /\ r # Background /\ r \in Nat
    /\ Free # Background
BY CacheAssumption DEF Refreshes

LEMMA TypeParts ==
    ASSUME TypeOK
    PROVE  /\ call \in [Callers -> CallRecords] /\ refresh \in [Refreshes -> RefreshRecords]
           /\ clock \in 0 .. MaxTime /\ cache \in [token : Tokens, failures : Nat, nextAt : Nat]
           /\ writer \in Refreshes \cup {0} /\ lock \in Callers \cup Refreshes \cup {Free, Background}
           /\ waiting \in Seq(Callers) /\ calls \in 0 .. MaxCalls
BY DEF TypeOK, CallRecords, RefreshRecords

\* What is fetched stays fetched while no token of a finished worker changes.
LEMMA FetchedStays ==
    ASSUME \A q \in Refreshes : refresh[q].worker = "done" =>
              refresh'[q].worker = "done" /\ refresh'[q].token = refresh[q].token
    PROVE  \A token : Fetched(token) => Fetched(token)'
BY DEF Fetched, NoToken

\* A step of one caller that leaves cache and refreshes alone keeps what is
\* known of the tokens if the tokens it takes up are good.
LEMMA CallKeepsTokens ==
    ASSUME Inv, UNCHANGED <<cache, refresh>>, NEW c \in Callers,
           NEW pc, NEW since, NEW tag, NEW resource, NEW attempt, NEW r, NEW held,
           CallBecomes(c, pc, since, tag, resource, attempt, r, held),
           Fetched(resource), resource.gen <= cache.token.gen,
           Fetched(held), held.gen <= cache.token.gen
    PROVE  TokenInv'
<1>1. \A token : Fetched(token) => Fetched(token)'
  BY FetchedStays
<1>2. cache' = cache /\ refresh' = refresh
  OBVIOUS
<1>3. Fetched(cache.token)'
  BY <1>1, <1>2 DEF Inv, TokenInv
<1>4. ASSUME NEW d \in Callers
      PROVE  /\ Fetched(call[d].held)' /\ call'[d].held.gen <= cache'.token.gen
             /\ Fetched(call[d].resource)' /\ call'[d].resource.gen <= cache'.token.gen
  <2>1. CASE d = c
    <3>1. call'[d].held = held /\ call'[d].resource = resource
      BY <2>1 DEF CallBecomes
    <3> QED
      BY <1>1, <1>2, <3>1
  <2>2. CASE d # c
    <3>1. call'[d] = call[d]
      BY <2>2 DEF CallBecomes
    <3> QED
      BY <1>1, <1>2, <3>1 DEF Inv, TokenInv
  <2> QED
    BY <2>1, <2>2
<1>5. \A q \in Refreshes : Succeeded(q)' => q <= cache'.token.gen
  BY <1>2 DEF Inv, TokenInv, Succeeded
<1> QED
  BY <1>3, <1>4, <1>5 DEF TokenInv

\* It keeps what is known of the refreshes anyway.
LEMMA CallKeepsTasks ==
    ASSUME Inv, UNCHANGED <<refresh, writer>>
    PROVE  TasksInv' /\ OrderInv'
BY DEF Inv, TasksInv, OrderInv, MayStore

\* A step of a task that leaves cache and calls alone keeps what is known of
\* the tokens, if a finished worker stays as it is and no success is made up.
LEMMA TaskKeepsTokens ==
    ASSUME Inv, UNCHANGED <<cache, call>>,
           \A q \in Refreshes : refresh[q].worker = "done" =>
              refresh'[q].worker = "done" /\ refresh'[q].token = refresh[q].token,
           \A q \in Refreshes : Succeeded(q)' => Succeeded(q)
    PROVE  TokenInv'
<1>1. \A token : Fetched(token) => Fetched(token)'
  BY FetchedStays
<1> QED
  BY <1>1 DEF Inv, TokenInv

\* Time and the other variables do not matter to what a call remembers.
LEMMA TaskKeepsCalls ==
    ASSUME Inv, UNCHANGED <<clock, call, waiting>>
    PROVE  CallInv'
BY DEF Inv, CallInv, Freshness

LEMMA ServedIsGood ==
    ASSUME Inv, NEW c \in Callers
    PROVE  /\ Fetched(ToCacheableResource(cache.token, c))
           /\ ToCacheableResource(cache.token, c).gen <= cache.token.gen
<1>1. cache.token.gen \in Nat
  BY DEF Inv, TypeOK, Tokens
<1> QED
  BY <1>1 DEF Inv, TokenInv, ToCacheableResource

\* The headers that a tag stands for are the token it names.
LEMMA ServedIsTheToken ==
    ASSUME Inv, NEW c \in Callers, cache.token.gen # 0
    PROVE  ToCacheableResource(cache.token, c) = cache.token
<1>1. CASE call[c].tag # cache.token.gen
  BY <1>1 DEF ToCacheableResource
<1>2. CASE call[c].tag = cache.token.gen
  <2>1. call[c].held.gen = cache.token.gen
    BY <1>2 DEF Inv, CallInv
  <2>2. Fetched(call[c].held) /\ Fetched(cache.token)
    BY DEF Inv, TokenInv
  <2>3. call[c].held = cache.token
    BY <2>1, <2>2 DEF Fetched, NoToken
  <2> QED
    BY <1>2, <2>3 DEF ToCacheableResource
<1> QED
  BY <1>1, <1>2

\* A token that is past its hard deadline stays so.
LEMMA ExpiryIsFinal ==
    ASSUME NEW token \in Tokens, NEW before \in Nat, NEW now \in Nat, before <= now,
           Freshness(token, now) # "HardExpired"
    PROVE  Freshness(token, before) # "HardExpired" /\ token.gen # 0
<1>1. token.soft \in Nat /\ token.hard \in Nat
  BY DEF Tokens
<1>2. token.gen # 0 /\ (now < token.soft \/ now < token.hard)
  BY <1>1 DEF Freshness
<1>3. before < token.soft \/ (token.soft <= before /\ before < token.hard)
  BY <1>1, <1>2
<1> QED
  BY <1>1, <1>2, <1>3 DEF Freshness

\* What is known of one call depends on the rest only through its own caller.
LEMMA CallKeepsCalls ==
    ASSUME Inv, UNCHANGED clock, NEW c \in Callers,
           NEW pc, NEW since, NEW tag, NEW resource, NEW attempt, NEW r, NEW held,
           CallBecomes(c, pc, since, tag, resource, attempt, r, held),
           since <= clock, tag \in {0, held.gen},
           pc = "soft" => Freshness(resource, since) # "HardExpired",
           pc = "await" => r \in Refreshes,
           pc = "queued" => \E i \in DOMAIN waiting' : waiting'[i] = c,
           \A d \in Callers \ {c} : (\E i \in DOMAIN waiting : waiting[i] = d) =>
                                     \E i \in DOMAIN waiting' : waiting'[i] = d
    PROVE  CallInv'
<1> SUFFICES ASSUME NEW d \in Callers
             PROVE  /\ call'[d].since <= clock'
                    /\ call'[d].tag \in {0, call'[d].held.gen}
                    /\ call'[d].pc = "soft" => Freshness(call[d].resource, call[d].since)' # "HardExpired"
                    /\ call'[d].pc = "await" => call'[d].refresh \in Refreshes
                    /\ call'[d].pc = "queued" => \E i \in DOMAIN waiting' : waiting'[i] = d
  BY DEF CallInv
<1>1. CASE d = c
  BY <1>1 DEF CallBecomes, Freshness
<1>2. CASE d # c
  <2>1. call'[d] = call[d]
    BY <1>2 DEF CallBecomes
  <2> QED
    BY <1>2, <2>1 DEF Inv, CallInv, Freshness
<1> QED
  BY <1>1, <1>2

-----------------------------------------------------------------------------
(* The steps of a caller *)

LEMMA HeadersInv ==
    ASSUME Inv, NEW c \in Callers, Headers(c)
    PROVE  LockInv' /\ TasksInv' /\ OrderInv' /\ TokenInv' /\ CallInv'
<1> USE TypeParts DEF Inv
<1>1. PICK tag \in {0, call[c].held.gen} :
         call' = [call EXCEPT ![c].pc = "read", ![c].since = clock, ![c].tag = tag]
  BY DEF Headers
<1>2. tag \in 0 .. MaxCalls
  <2>1. MaxCalls \in Nat
    BY CacheAssumption
  <2>2. call[c].held.gen \in 0 .. MaxCalls
    BY DEF CallRecords, Tokens
  <2> QED
    BY <2>1, <2>2
<1>3. CallBecomes(c, "read", clock, tag, call[c].resource, call[c].attempt, call[c].refresh, call[c].held)
  BY <1>1, <1>2, CallStarts
<1>4. UNCHANGED <<clock, cache, writer, lock, waiting, refresh>>
  BY DEF Headers
<1>5. TokenInv'
  BY <1>3, <1>4, CallKeepsTokens DEF TokenInv
<1>6. CallInv'
  BY <1>3, <1>4, CallKeepsCalls
<1>7. LockInv'
  BY <1>3, <1>4 DEF LockInv, CallBecomes
<1> QED
  BY <1>4, <1>5, <1>6, <1>7, CallKeepsTasks

\* A caller that has its answer without holding the mutex.
LEMMA ReturnInv ==
    ASSUME Inv, NEW c \in Callers, NEW token \in Tokens, Return(c, token),
           Fetched(token), token.gen <= cache.token.gen,
           UNCHANGED <<clock, cache, writer, refresh>>,
           \A d \in Callers \ {c} : (\E i \in DOMAIN waiting : waiting[i] = d) =>
                                     \E i \in DOMAIN waiting' : waiting'[i] = d
    PROVE  /\ TasksInv' /\ OrderInv' /\ TokenInv' /\ CallInv'
           /\ \A d \in Callers : call'[d].pc = "check" => d # c /\ call[d].pc = "check"
<1> USE TypeParts DEF Inv
<1>1. CallBecomes(c, "idle", 0, 0, NoToken, FALSE, 0, token)
  BY CallReturns
<1>2. Fetched(NoToken) /\ NoToken.gen <= cache.token.gen
  <2>1. cache.token.gen \in Nat
    BY DEF Tokens
  <2> QED
    BY <2>1 DEF Fetched, NoToken
<1>3. TokenInv'
  BY <1>1, <1>2, CallKeepsTokens
<1>4. CallInv'
  <2>1. clock \in Nat /\ 0 <= clock
    BY CacheAssumption
  <2> QED
    BY <1>1, <2>1, CallKeepsCalls
<1>5. \A d \in Callers : call'[d].pc = "check" => d # c /\ call[d].pc = "check"
  BY <1>1 DEF CallBecomes
<1> QED
  BY <1>3, <1>4, <1>5, CallKeepsTasks

LEMMA ReadCacheInv ==
    ASSUME Inv, NEW c \in Callers, ReadCache(c)
    PROVE  LockInv' /\ TasksInv' /\ OrderInv' /\ TokenInv' /\ CallInv'
<1> USE TypeParts DEF Inv
<1> DEFINE now == call[c].since
           served == ToCacheableResource(cache.token, c)
<1>1. UNCHANGED <<clock, cache, writer, lock, refresh>>
  BY DEF ReadCache
<1>2. served \in Tokens /\ Fetched(served) /\ served.gen <= cache.token.gen
  BY ServedType, ServedIsGood
<1>3. CASE Return(c, served) /\ UNCHANGED waiting
  BY <1>1, <1>2, <1>3, ReturnInv DEF LockInv
<1>4. CASE /\ Freshness(cache.token, now) = "SoftExpired"
           /\ call' = [call EXCEPT ![c].pc = "soft", ![c].resource = served,
                                   ![c].attempt = CanAttemptSoftRefresh(now)]
           /\ UNCHANGED waiting
  <2>1. CanAttemptSoftRefresh(now) \in BOOLEAN
    BY DEF CanAttemptSoftRefresh
  <2>2. CallBecomes(c, "soft", now, call[c].tag, served, CanAttemptSoftRefresh(now), call[c].refresh, call[c].held)
    BY <1>2, <1>4, <2>1, CallIsSoft
  <2>3. TokenInv'
    BY <1>1, <1>2, <2>2, CallKeepsTokens DEF TokenInv
  <2>4. Freshness(served, now) # "HardExpired"
    <3>1. now \in Nat /\ cache.token \in Tokens
      BY CacheAssumption DEF CallRecords
    <3>2. cache.token.gen # 0
      BY <1>4, <3>1, ExpiryIsFinal
    <3> QED
      BY <1>4, <3>2, ServedIsTheToken
  <2>5. CallInv'
    BY <1>1, <1>4, <2>2, <2>4, CallKeepsCalls DEF CallInv
  <2>6. LockInv'
    BY <1>1, <2>2 DEF LockInv, CallBecomes
  <2> QED
    BY <1>1, <2>3, <2>5, <2>6, CallKeepsTasks
<1>5. CASE call' = [call EXCEPT ![c].pc = "queued"] /\ waiting' = Append(waiting, c)
  <2>1. CallBecomes(c, "queued", now, call[c].tag, call[c].resource, call[c].attempt, call[c].refresh, call[c].held)
    BY <1>5, CallMoves
  <2>2. TokenInv'
    BY <1>1, <2>1, CallKeepsTokens DEF TokenInv
  <2>3. /\ \E i \in DOMAIN waiting' : waiting'[i] = c
        /\ \A i \in DOMAIN waiting : i \in DOMAIN waiting' /\ waiting'[i] = waiting[i]
    <3>1. /\ waiting' \in Seq(Callers) /\ Len(waiting') = Len(waiting) + 1
          /\ \A i \in 1 .. Len(waiting) : waiting'[i] = waiting[i]
          /\ waiting'[Len(waiting) + 1] = c
      BY <1>5, AppendProperties
    <3>2. DOMAIN waiting = 1 .. Len(waiting) /\ DOMAIN waiting' = 1 .. Len(waiting') /\ Len(waiting) \in Nat
      BY <3>1, LenProperties
    <3> QED
      BY <3>1, <3>2
  <2>4. CallInv'
    BY <1>1, <2>1, <2>3, CallKeepsCalls DEF CallInv
  <2>5. LockInv'
    BY <1>1, <2>1 DEF LockInv, CallBecomes
  <2> QED
    BY <1>1, <2>2, <2>4, <2>5, CallKeepsTasks
<1> QED
  BY <1>3, <1>4, <1>5 DEF ReadCache

LEMMA SoftRefreshInv ==
    ASSUME Inv, NEW c \in Callers, SoftRefresh(c)
    PROVE  LockInv' /\ TasksInv' /\ OrderInv' /\ TokenInv' /\ CallInv'
<1> USE TypeParts DEF Inv
<1>1. UNCHANGED <<clock, cache, writer, waiting, refresh>> /\ Return(c, call[c].resource)
  BY DEF SoftRefresh
<1>2. call[c].resource \in Tokens /\ Fetched(call[c].resource) /\ call[c].resource.gen <= cache.token.gen
  BY DEF CallRecords, TokenInv
<1>3. /\ TasksInv' /\ OrderInv' /\ TokenInv' /\ CallInv'
      /\ \A d \in Callers : call'[d].pc = "check" => d # c /\ call[d].pc = "check"
  BY <1>1, <1>2, ReturnInv
<1>4. LockInv'
  BY <1>1, <1>3, Parties DEF LockInv, SoftRefresh
<1> QED
  BY <1>3, <1>4

LEMMA AcquireLockInv ==
    ASSUME Inv, NEW c \in Callers, AcquireLock(c)
    PROVE  LockInv' /\ TasksInv' /\ OrderInv' /\ TokenInv' /\ CallInv'
<1> USE TypeParts DEF Inv
<1>1. UNCHANGED <<clock, cache, writer, refresh>> /\ lock = Free /\ lock' = c
  BY DEF AcquireLock
<1>2. CallBecomes(c, "check", call[c].since, call[c].tag, call[c].resource, call[c].attempt, call[c].refresh, call[c].held)
  BY CallMoves DEF AcquireLock
<1>3. TokenInv'
  BY <1>1, <1>2, CallKeepsTokens DEF TokenInv
<1>4. LockInv'
  BY <1>1, <1>2, Parties DEF LockInv, CallBecomes
<1>5. ASSUME NEW d \in Callers \ {c}, NEW i \in DOMAIN waiting, waiting[i] = d
      PROVE  \E k \in DOMAIN waiting' : waiting'[k] = d
  <2>1. Len(waiting) \in Nat /\ DOMAIN waiting = 1 .. Len(waiting)
    BY LenProperties
  <2>2. waiting # <<>>
    BY <1>5, <2>1, EmptySeq
  <2>3. Head(waiting) = waiting[1] /\ Head(waiting) = c /\ waiting' = Tail(waiting)
    BY <2>2, HeadTailProperties DEF AcquireLock
  <2>4. i # 1
    BY <1>5, <2>3
  <2>5. /\ Tail(waiting) \in Seq(Callers) /\ Len(Tail(waiting)) = Len(waiting) - 1
        /\ \A k \in 1 .. Len(Tail(waiting)) : Tail(waiting)[k] = waiting[k + 1]
    BY <2>2, HeadTailProperties
  <2>6. DOMAIN Tail(waiting) = 1 .. Len(Tail(waiting))
    BY <2>5, LenProperties
  <2>7. i - 1 \in 1 .. Len(Tail(waiting)) /\ (i - 1) + 1 = i
    BY <2>1, <2>4, <2>5
  <2>8. Tail(waiting)[i - 1] = d
    BY <1>5, <2>5, <2>7
  <2> QED
    BY <2>3, <2>6, <2>7, <2>8
<1>6. CallInv'
  BY <1>1, <1>2, <1>5, CallKeepsCalls DEF CallInv
<1> QED
  BY <1>1, <1>3, <1>4, <1>6, CallKeepsTasks

LEMMA TakeOutcomeInv ==
    ASSUME Inv, NEW c \in Callers, TakeOutcome(c)
    PROVE  LockInv' /\ TasksInv' /\ OrderInv' /\ TokenInv' /\ CallInv'
<1> USE TypeParts DEF Inv
<1> DEFINE r == call[c].refresh
           token == IF Succeeded(r) THEN refresh[r].token ELSE call[c].held
<1>1. UNCHANGED <<clock, cache, writer, lock, waiting, refresh>> /\ Return(c, token)
  BY DEF TakeOutcome
<1>2. r \in Refreshes
  BY DEF TakeOutcome, CallInv
<1>3. CASE Succeeded(r)
  <2>1. token = refresh[r].token /\ token \in Tokens
    BY <1>2, <1>3 DEF RefreshRecords
  <2>2. token.gen = r /\ refresh[r].worker = "done"
    BY <1>2, <1>3, <2>1 DEF TasksInv, Succeeded
  <2>3. Fetched(token) /\ token.gen <= cache.token.gen
    BY <1>2, <1>3, <2>1, <2>2 DEF Fetched, TokenInv
  <2> HIDE DEF token
  <2> QED
    BY <1>1, <2>1, <2>3, ReturnInv DEF LockInv
<1>4. CASE ~Succeeded(r)
  <2>1. token = call[c].held /\ token \in Tokens
    BY <1>4 DEF CallRecords
  <2>2. Fetched(token) /\ token.gen <= cache.token.gen
    BY <2>1 DEF TokenInv
  <2> HIDE DEF token
  <2> QED
    BY <1>1, <2>1, <2>2, ReturnInv DEF LockInv
<1> QED
  BY <1>3, <1>4

LEMMA CancelInv ==
    ASSUME Inv, NEW c \in Callers, Cancel(c)
    PROVE  LockInv' /\ TasksInv' /\ OrderInv' /\ TokenInv' /\ CallInv'
<1> USE TypeParts DEF Inv
<1>1. UNCHANGED <<clock, cache, writer, lock, refresh>> /\ Return(c, call[c].held) /\ LeaveQueue(c)
  BY DEF Cancel
<1>2. call[c].held \in Tokens /\ Fetched(call[c].held) /\ call[c].held.gen <= cache.token.gen
  BY DEF CallRecords, TokenInv
<1>3. \A d \in Callers \ {c} : (\E i \in DOMAIN waiting : waiting[i] = d) =>
                                 \E i \in DOMAIN waiting' : waiting'[i] = d
  BY <1>1, LeaveQueueType
<1> QED
  BY <1>1, <1>2, <1>3, ReturnInv DEF LockInv

-----------------------------------------------------------------------------
(* The start of a refresh *)

\* Nobody may still store when the mutex is in the hands of a caller or of the
\* background task and the cache is not being written: a worker that could is
\* either storing or has its coordinator at work.
LEMMA NoStoreLeft ==
    ASSUME Inv, writer = 0, lock \notin Refreshes
    PROVE  \A q \in Refreshes : ~MayStore(q)
<1> SUFFICES ASSUME NEW q \in Refreshes, MayStore(q) PROVE FALSE
  OBVIOUS
<1>1. refresh[q].worker # "storing"
  BY Parties DEF Inv, TasksInv
<1>2. refresh[q].worker \in {"calling", "fetched", "ready"} /\ ~refresh[q].timedOut
  BY <1>1 DEF MayStore
<1>3. refresh[q].coord \notin {"unused", "ended", "recorded"}
  BY <1>2 DEF Inv, TasksInv
<1>4. refresh[q].coord \in Active
  BY <1>3, TypeParts DEF Inv, RefreshRecords, Active
<1> QED
  BY <1>4 DEF Inv, LockInv

LEMMA StartRefreshInv ==
    ASSUME Inv, NEW r \in Refreshes, NEW by \in Callers \cup {Background}, StartRefresh(r, by),
           writer = 0, lock \notin Refreshes, UNCHANGED <<cache, writer>>
    PROVE  /\ TasksInv' /\ OrderInv'
           /\ \A q \in Refreshes : refresh'[q].coord \in Active => lock' = q
           /\ \A q \in Refreshes : refresh[q].worker = "done" =>
                 refresh'[q].worker = "done" /\ refresh'[q].token = refresh[q].token
           /\ \A q \in Refreshes : Succeeded(q)' => Succeeded(q)
<1> USE TypeParts DEF Inv
<1>1. /\ refresh[r].worker = "unused" /\ lock' = r
      /\ \A q \in Refreshes : q < r => refresh[q].worker # "unused"
      /\ refresh' = [refresh EXCEPT ![r].by = by, ![r].worker = "calling", ![r].coord = "running"]
  BY DEF StartRefresh
<1>2. RefreshBecomes(r, by, "calling", "running", refresh[r].timedOut, refresh[r].ok, refresh[r].token)
  BY <1>1, RefreshStarts
<1>3. ~refresh[r].timedOut /\ ~refresh[r].ok /\ refresh[r].coord = "unused"
  BY <1>1 DEF TasksInv
<1>4. TasksInv'
  BY <1>2, <1>3 DEF TasksInv, RefreshBecomes, Active
<1>5. OrderInv'
  <2> SUFFICES ASSUME NEW p \in Refreshes, NEW q \in Refreshes, p < q
               PROVE  /\ refresh'[q].worker # "unused" => refresh'[p].worker # "unused"
                      /\ MayStore(p)' => refresh'[q].worker = "unused"
    BY DEF OrderInv
  <2>1. refresh'[q].worker # "unused" => refresh'[p].worker # "unused"
    BY <1>1, <1>2 DEF OrderInv, RefreshBecomes
  <2>2. ASSUME MayStore(p)' PROVE refresh'[q].worker = "unused"
    <3>1. p = r
      BY <1>2, <2>2, NoStoreLeft DEF RefreshBecomes, MayStore
    <3>2. q # r /\ refresh[q].worker = "unused"
      BY <1>1, <3>1, Parties DEF OrderInv
    <3> QED
      BY <1>2, <3>2 DEF RefreshBecomes
  <2> QED
    BY <2>1, <2>2
<1>6. \A q \in Refreshes : refresh'[q].coord \in Active => lock' = q
  BY <1>1, <1>2 DEF LockInv, RefreshBecomes
<1>7. \A q \in Refreshes : refresh[q].worker = "done" =>
         refresh'[q].worker = "done" /\ refresh'[q].token = refresh[q].token
  BY <1>1, <1>2 DEF RefreshBecomes
<1>8. \A q \in Refreshes : Succeeded(q)' => Succeeded(q)
  BY <1>2 DEF RefreshBecomes, Succeeded
<1> QED
  BY <1>4, <1>5, <1>6, <1>7, <1>8

LEMMA CheckAgainInv ==
    ASSUME Inv, NEW c \in Callers, CheckAgain(c)
    PROVE  LockInv' /\ TasksInv' /\ OrderInv' /\ TokenInv' /\ CallInv'
<1> USE TypeParts DEF Inv
<1>1. writer = 0 /\ lock = c /\ UNCHANGED <<clock, cache, writer, waiting>>
  BY DEF CheckAgain, LockInv
<1>2. \A d \in Callers : call[d].pc = "check" => d = c
  BY <1>1 DEF LockInv
<1>3. \A q \in Refreshes : refresh[q].coord \notin Active
  BY <1>1, Parties DEF LockInv
<1>4. CASE Return(c, ToCacheableResource(cache.token, c)) /\ lock' = Free /\ UNCHANGED refresh
  <2>1. /\ TasksInv' /\ OrderInv' /\ TokenInv' /\ CallInv'
        /\ \A d \in Callers : call'[d].pc = "check" => d # c /\ call[d].pc = "check"
    BY <1>1, <1>4, ServedType, ServedIsGood, ReturnInv
  <2>2. LockInv'
    BY <1>2, <1>3, <1>4, <2>1 DEF LockInv
  <2> QED
    BY <2>1, <2>2
<1>5. ASSUME NEW r \in Refreshes, StartRefresh(r, c),
             call' = [call EXCEPT ![c].pc = "await", ![c].refresh = r]
      PROVE  LockInv' /\ TasksInv' /\ OrderInv' /\ TokenInv' /\ CallInv'
  <2>1. CallBecomes(c, "await", call[c].since, call[c].tag, call[c].resource, call[c].attempt, r, call[c].held)
    BY <1>5, CallAwaits
  <2>2. lock \notin Refreshes
    BY <1>1, Parties
  <2>3. /\ TasksInv' /\ OrderInv'
        /\ \A q \in Refreshes : refresh'[q].coord \in Active => lock' = q
        /\ \A q \in Refreshes : refresh[q].worker = "done" =>
              refresh'[q].worker = "done" /\ refresh'[q].token = refresh[q].token
        /\ \A q \in Refreshes : Succeeded(q)' => Succeeded(q)
    BY <1>1, <1>5, <2>2, StartRefreshInv
  <2>4. LockInv'
    BY <1>2, <2>1, <2>3 DEF LockInv, CallBecomes
  <2>5. TokenInv'
    <3>1. \A token : Fetched(token) => Fetched(token)'
      BY <2>3, FetchedStays
    <3>2. \A d \in Callers : call'[d].held = call[d].held /\ call'[d].resource = call[d].resource
      BY <2>1 DEF CallBecomes
    <3> QED
      BY <1>1, <2>3, <3>1, <3>2 DEF TokenInv
  <2>6. CallInv'
    BY <1>1, <2>1, CallKeepsCalls DEF CallInv
  <2> QED
    BY <2>3, <2>4, <2>5, <2>6
<1> QED
  BY <1>4, <1>5 DEF CheckAgain

LEMMA BackgroundCheckInv ==
    ASSUME Inv, BackgroundCheck
    PROVE  LockInv' /\ TasksInv' /\ OrderInv' /\ TokenInv' /\ CallInv'
<1> USE TypeParts DEF Inv
<1>1. writer = 0 /\ lock = Background /\ UNCHANGED <<clock, cache, writer, waiting, call>>
  BY DEF BackgroundCheck
<1>2. lock \notin Refreshes /\ \A d \in Callers : call[d].pc # "check"
  BY <1>1, Parties DEF LockInv
<1>3. CallInv'
  BY <1>1, TaskKeepsCalls
<1>4. CASE lock' = Free /\ UNCHANGED refresh
  <2>1. LockInv'
    BY <1>1, <1>2, <1>4 DEF LockInv
  <2> QED
    BY <1>1, <1>3, <1>4, <2>1, CallKeepsTasks, TaskKeepsTokens DEF Succeeded
<1>5. ASSUME NEW r \in Refreshes, StartRefresh(r, Background)
      PROVE  LockInv' /\ TasksInv' /\ OrderInv' /\ TokenInv' /\ CallInv'
  <2>1. /\ TasksInv' /\ OrderInv'
        /\ \A q \in Refreshes : refresh'[q].coord \in Active => lock' = q
        /\ \A q \in Refreshes : refresh[q].worker = "done" =>
              refresh'[q].worker = "done" /\ refresh'[q].token = refresh[q].token
        /\ \A q \in Refreshes : Succeeded(q)' => Succeeded(q)
    BY <1>1, <1>2, <1>5, StartRefreshInv
  <2>2. LockInv'
    BY <1>1, <1>2, <2>1 DEF LockInv
  <2>3. TokenInv'
    BY <1>1, <2>1, TaskKeepsTokens
  <2> QED
    BY <1>3, <2>1, <2>2, <2>3
<1> QED
  BY <1>4, <1>5 DEF BackgroundCheck

-----------------------------------------------------------------------------
(* The steps of a worker *)

\* A worker that goes on, and neither starts nor regains the right to store.
LEMMA WorkerKeepsOrder ==
    ASSUME Inv, NEW r \in Refreshes, refresh[r].worker # "unused", refresh'[r].worker # "unused",
           MayStore(r)' => MayStore(r), \A q \in Refreshes \ {r} : refresh'[q] = refresh[q]
    PROVE  OrderInv'
<1> SUFFICES ASSUME NEW p \in Refreshes, NEW q \in Refreshes, p < q
             PROVE  /\ refresh'[q].worker # "unused" => refresh'[p].worker # "unused"
                    /\ MayStore(p)' => refresh'[q].worker = "unused"
  BY DEF OrderInv
<1>1. \A s \in Refreshes : refresh'[s].worker = "unused" <=> refresh[s].worker = "unused"
  OBVIOUS
<1>2. MayStore(p)' => MayStore(p)
  BY DEF MayStore
<1> QED
  BY <1>1, <1>2 DEF Inv, OrderInv

LEMMA FetchErrInv ==
    ASSUME Inv, NEW r \in Refreshes, FetchErr(r)
    PROVE  LockInv' /\ TasksInv' /\ OrderInv' /\ TokenInv' /\ CallInv'
<1> USE TypeParts DEF Inv
<1>1. RefreshBecomes(r, refresh[r].by, "done", refresh[r].coord, refresh[r].timedOut, refresh[r].ok, refresh[r].token)
  BY WorkerMoves DEF FetchErr
<1>2. UNCHANGED <<clock, cache, writer, lock, waiting, call>> /\ refresh[r].worker = "calling"
  BY DEF FetchErr
<1>3. ~refresh[r].ok /\ refresh[r].coord # "unused"
  BY <1>2 DEF TasksInv
<1>4. LockInv'
  BY <1>1, <1>2 DEF LockInv, RefreshBecomes
<1>5. TasksInv'
  BY <1>1, <1>2, <1>3 DEF TasksInv, RefreshBecomes
<1>6. OrderInv'
  BY <1>1, <1>2, WorkerKeepsOrder DEF RefreshBecomes, MayStore
<1>7. TokenInv'
  BY <1>1, <1>2, <1>3, TaskKeepsTokens DEF RefreshBecomes, Succeeded
<1> QED
  BY <1>2, <1>4, <1>5, <1>6, <1>7, TaskKeepsCalls

LEMMA FetchOkInv ==
    ASSUME Inv, NEW r \in Refreshes, FetchOk(r)
    PROVE  LockInv' /\ TasksInv' /\ OrderInv' /\ TokenInv' /\ CallInv'
<1> USE TypeParts DEF Inv
<1>0. PICK token \in {FromUtcExpiry(r, life) : life \in Lifetimes} \cup {NonExpiring(r)} :
         refresh' = [refresh EXCEPT ![r].worker = "fetched", ![r].token = token]
  BY DEF FetchOk
<1>1. token \in Tokens /\ token.gen = r
  <2>1. clock \in Nat
    BY CacheAssumption
  <2>2. NonExpiring(r).gen = r /\ \A life \in Lifetimes : FromUtcExpiry(r, life).gen = r
    BY DEF FromUtcExpiry, NonExpiring
  <2>3. NonExpiring(r) \in Tokens /\ \A life \in Lifetimes : FromUtcExpiry(r, life) \in Tokens
    BY <2>1, FetchedTypes
  <2> QED
    BY <2>2, <2>3
<1>2. UNCHANGED <<clock, cache, writer, lock, waiting, call>> /\ refresh[r].worker = "calling"
  BY DEF FetchOk
<1>3. RefreshBecomes(r, refresh[r].by, "fetched", refresh[r].coord, refresh[r].timedOut, refresh[r].ok, token)
  BY <1>0, <1>1, WorkerFetches
<1>4. ~refresh[r].ok /\ refresh[r].coord # "unused"
  BY <1>2 DEF TasksInv
<1>5. LockInv'
  BY <1>2, <1>3 DEF LockInv, RefreshBecomes
<1>6. TasksInv'
  BY <1>1, <1>2, <1>3, <1>4 DEF TasksInv, RefreshBecomes
<1>7. OrderInv'
  BY <1>2, <1>3, WorkerKeepsOrder DEF RefreshBecomes, MayStore
<1>8. TokenInv'
  BY <1>2, <1>3, <1>4, TaskKeepsTokens DEF RefreshBecomes, Succeeded
<1> QED
  BY <1>2, <1>5, <1>6, <1>7, <1>8, TaskKeepsCalls

LEMMA LateAnswerInv ==
    ASSUME Inv, NEW r \in Refreshes, LateAnswer(r)
    PROVE  LockInv' /\ TasksInv' /\ OrderInv' /\ TokenInv' /\ CallInv'
<1> USE TypeParts DEF Inv
<1> DEFINE worker == IF refresh[r].timedOut THEN "done" ELSE "ready"
<1>1. RefreshBecomes(r, refresh[r].by, worker, refresh[r].coord, refresh[r].timedOut, refresh[r].ok, refresh[r].token)
  BY WorkerMoves DEF LateAnswer
<1>2. UNCHANGED <<clock, cache, writer, lock, waiting, call>> /\ refresh[r].worker = "fetched"
  BY DEF LateAnswer
<1>3. ~refresh[r].ok /\ refresh[r].coord # "unused"
  BY <1>2 DEF TasksInv
<1>4. LockInv'
  BY <1>1, <1>2 DEF LockInv, RefreshBecomes
<1>5. TasksInv'
  BY <1>1, <1>2, <1>3 DEF TasksInv, RefreshBecomes
<1>6. OrderInv'
  BY <1>1, <1>2, WorkerKeepsOrder DEF RefreshBecomes, MayStore
<1>7. TokenInv'
  BY <1>1, <1>2, <1>3, TaskKeepsTokens DEF RefreshBecomes, Succeeded
<1> QED
  BY <1>2, <1>4, <1>5, <1>6, <1>7, TaskKeepsCalls

LEMMA LockCacheInv ==
    ASSUME Inv, NEW r \in Refreshes, LockCache(r)
    PROVE  LockInv' /\ TasksInv' /\ OrderInv' /\ TokenInv' /\ CallInv'
<1> USE TypeParts DEF Inv
<1>1. /\ UNCHANGED <<clock, cache, lock, waiting, call>> /\ writer = 0
      /\ refresh[r].worker = "ready" /\ refresh[r].token.gen = r /\ refresh[r].coord # "unused"
  BY DEF LockCache, TasksInv
<1>2. \A q \in Refreshes : refresh[q].worker # "storing"
  BY <1>1, Parties DEF TasksInv
<1>3. CASE /\ refresh[r].timedOut /\ UNCHANGED writer
           /\ refresh' = [refresh EXCEPT ![r].worker = "done", ![r].ok = TRUE]
  <2>1. RefreshBecomes(r, refresh[r].by, "done", refresh[r].coord, refresh[r].timedOut, TRUE, refresh[r].token)
    BY <1>3, WorkerSucceeds
  <2>2. LockInv'
    BY <1>1, <2>1 DEF LockInv, RefreshBecomes
  <2>3. TasksInv'
    BY <1>1, <1>3, <2>1 DEF TasksInv, RefreshBecomes
  <2>4. OrderInv'
    BY <1>1, <2>1, WorkerKeepsOrder DEF RefreshBecomes, MayStore
  <2>5. TokenInv'
    BY <1>1, <1>3, <2>1, TaskKeepsTokens DEF RefreshBecomes, Succeeded
  <2> QED
    BY <1>1, <2>2, <2>3, <2>4, <2>5, TaskKeepsCalls
<1>4. CASE ~refresh[r].timedOut /\ writer' = r /\ refresh' = [refresh EXCEPT ![r].worker = "storing"]
  <2>1. RefreshBecomes(r, refresh[r].by, "storing", refresh[r].coord, refresh[r].timedOut, refresh[r].ok, refresh[r].token)
    BY <1>4, WorkerMoves
  <2>2. LockInv'
    BY <1>1, <2>1 DEF LockInv, RefreshBecomes
  <2>3. TasksInv'
    BY <1>1, <1>2, <1>4, <2>1 DEF TasksInv, RefreshBecomes
  <2>4. OrderInv'
    BY <1>1, <1>4, <2>1, WorkerKeepsOrder DEF RefreshBecomes, MayStore
  <2>5. TokenInv'
    BY <1>1, <2>1, TaskKeepsTokens DEF RefreshBecomes, Succeeded
  <2> QED
    BY <1>1, <2>2, <2>3, <2>4, <2>5, TaskKeepsCalls
<1> QED
  BY <1>3, <1>4 DEF LockCache

\* A worker that may still store does so for a token newer than the cache's.
LEMMA StoresNewer ==
    ASSUME Inv, NEW r \in Refreshes, MayStore(r)
    PROVE  cache.token.gen < r
<1>1. cache.token.gen \in Nat
  BY TypeParts DEF Inv, Tokens
<1>2. CASE cache.token.gen = 0
  BY <1>2, Parties
<1>3. CASE cache.token.gen # 0
  <2>1. cache.token.gen \in Refreshes /\ refresh[cache.token.gen].worker = "done"
    BY <1>3 DEF Inv, TokenInv, Fetched, NoToken
  <2>2. cache.token.gen # r
    BY <2>1 DEF MayStore
  <2>3. ~(r < cache.token.gen)
    BY <2>1 DEF Inv, OrderInv
  <2> QED
    BY <1>1, <2>2, <2>3, Parties
<1> QED
  BY <1>2, <1>3

LEMMA StoreTokenInv ==
    ASSUME Inv, NEW r \in Refreshes, StoreToken(r)
    PROVE  LockInv' /\ TasksInv' /\ OrderInv' /\ TokenInv' /\ CallInv'
<1> USE TypeParts DEF Inv
<1>1. /\ UNCHANGED <<clock, lock, waiting, call>> /\ writer = r
      /\ refresh[r].worker = "storing" /\ refresh[r].token.gen = r /\ refresh[r].coord # "unused"
      /\ cache'.token = refresh[r].token
  BY DEF StoreToken, TasksInv
<1>2. RefreshBecomes(r, refresh[r].by, "done", refresh[r].coord, refresh[r].timedOut, TRUE, refresh[r].token)
  BY WorkerSucceeds DEF StoreToken
<1>3. \A q \in Refreshes : refresh[q].worker = "storing" => q = r
  BY <1>1 DEF TasksInv
<1>4. LockInv'
  BY <1>1, <1>2 DEF LockInv, RefreshBecomes
<1>5. TasksInv'
  BY <1>1, <1>2, <1>3 DEF TasksInv, RefreshBecomes
<1>6. OrderInv'
  BY <1>1, <1>2, WorkerKeepsOrder DEF RefreshBecomes, MayStore
<1>7. TokenInv'
  <2>1. cache.token.gen < r /\ r \in Nat /\ cache.token.gen \in Nat /\ cache'.token.gen = r
    BY <1>1, StoresNewer, Parties DEF MayStore, Tokens
  <2>2. \A token : Fetched(token) => Fetched(token)'
    BY <1>1, <1>2, FetchedStays DEF RefreshBecomes
  <2>3. Fetched(cache.token)'
    BY <1>1, <1>2 DEF Fetched, RefreshBecomes
  <2>4. ASSUME NEW c \in Callers
        PROVE  /\ Fetched(call[c].held)' /\ call'[c].held.gen <= cache'.token.gen
               /\ Fetched(call[c].resource)' /\ call'[c].resource.gen <= cache'.token.gen
    <3>1. call' = call /\ call[c].held.gen \in Nat /\ call[c].resource.gen \in Nat
      <4>1. call[c].held \in Tokens /\ call[c].resource \in Tokens
        BY DEF CallRecords
      <4>2. \A token \in Tokens : token.gen \in Nat
        BY DEF Tokens
      <4> QED
        BY <1>1, <4>1, <4>2
    <3>2. /\ Fetched(call[c].held) /\ call[c].held.gen <= cache.token.gen
          /\ Fetched(call[c].resource) /\ call[c].resource.gen <= cache.token.gen
      BY DEF TokenInv
    <3>3. call[c].held.gen <= cache'.token.gen /\ call[c].resource.gen <= cache'.token.gen
      BY <2>1, <3>1, <3>2
    <3>4. Fetched(call[c].held)' /\ Fetched(call[c].resource)'
      BY <2>2, <3>1, <3>2
    <3> QED
      BY <3>1, <3>3, <3>4
  <2>5. ASSUME NEW q \in Refreshes, Succeeded(q)' PROVE q <= cache'.token.gen
    <3>1. q # r => Succeeded(q)
      BY <1>2, <2>5 DEF Succeeded, RefreshBecomes
    <3> QED
      BY <2>1, <3>1, Parties DEF TokenInv
  <2> QED
    BY <2>3, <2>4, <2>5 DEF TokenInv
<1> QED
  BY <1>1, <1>4, <1>5, <1>6, <1>7, TaskKeepsCalls

-----------------------------------------------------------------------------
(* The steps of a coordinator, and the rest *)

LEMMA CoordinatorInv ==
    ASSUME Inv, NEW r \in Refreshes, Coordinator(r)
    PROVE  LockInv' /\ TasksInv' /\ OrderInv' /\ TokenInv' /\ CallInv'
<1> USE TypeParts DEF Inv
<1>1. /\ UNCHANGED <<clock, cache, writer, waiting, call>>
      /\ refresh[r].coord \in Active /\ lock = r /\ refresh[r].worker # "unused"
  BY DEF Coordinator, Join, TimerFires, GiveUp, Active, LockInv, TasksInv
<1>2. /\ \A q \in Refreshes \ {r} : refresh[q].coord \notin Active
      /\ \A c \in Callers : call[c].pc # "check"
  BY <1>1, Parties DEF LockInv
<1>3. CASE Join(r)
  <2>1. RefreshBecomes(r, refresh[r].by, refresh[r].worker, "ended", refresh[r].timedOut, refresh[r].ok, refresh[r].token)
    BY <1>3, CoordMoves DEF Join
  <2>2. LockInv'
    BY <1>1, <1>2, <2>1 DEF LockInv, RefreshBecomes, Active
  <2>3. TasksInv'
    BY <1>1, <1>3, <2>1 DEF TasksInv, RefreshBecomes, Join, Active
  <2>4. OrderInv'
    BY <1>1, <2>1, WorkerKeepsOrder DEF RefreshBecomes, MayStore
  <2>5. TokenInv'
    BY <1>1, <2>1, TaskKeepsTokens DEF RefreshBecomes, Succeeded
  <2> QED
    BY <1>1, <2>2, <2>3, <2>4, <2>5, TaskKeepsCalls
<1>4. CASE TimerFires(r)
  <2>1. RefreshBecomes(r, refresh[r].by, refresh[r].worker, "expired", refresh[r].timedOut, refresh[r].ok, refresh[r].token)
    BY <1>4, CoordMoves DEF TimerFires
  <2>2. LockInv'
    BY <1>1, <1>2, <1>4, <2>1 DEF LockInv, RefreshBecomes, TimerFires
  <2>3. TasksInv'
    BY <1>1, <2>1 DEF TasksInv, RefreshBecomes, Active
  <2>4. OrderInv'
    BY <1>1, <2>1, WorkerKeepsOrder DEF RefreshBecomes, MayStore
  <2>5. TokenInv'
    BY <1>1, <2>1, TaskKeepsTokens DEF RefreshBecomes, Succeeded
  <2> QED
    BY <1>1, <2>2, <2>3, <2>4, <2>5, TaskKeepsCalls
<1>5. CASE GiveUp(r)
  <2>1. RefreshBecomes(r, refresh[r].by, refresh[r].worker, "ended", TRUE, refresh[r].ok, refresh[r].token)
    BY <1>5, CoordGivesUp DEF GiveUp
  <2>2. LockInv'
    BY <1>1, <1>2, <2>1 DEF LockInv, RefreshBecomes, Active
  <2>3. TasksInv'
    BY <1>1, <2>1 DEF TasksInv, RefreshBecomes, Active
  <2>4. OrderInv'
    BY <1>1, <2>1, WorkerKeepsOrder DEF RefreshBecomes, MayStore
  <2>5. TokenInv'
    BY <1>1, <2>1, TaskKeepsTokens DEF RefreshBecomes, Succeeded
  <2> QED
    BY <1>1, <2>2, <2>3, <2>4, <2>5, TaskKeepsCalls
<1> QED
  BY <1>3, <1>4, <1>5 DEF Coordinator

LEMMA RecordFailureInv ==
    ASSUME Inv, NEW r \in Refreshes, RecordFailure(r)
    PROVE  LockInv' /\ TasksInv' /\ OrderInv' /\ TokenInv' /\ CallInv'
<1> USE TypeParts DEF Inv
<1>1. /\ UNCHANGED <<clock, writer, lock, waiting, call>> /\ cache'.token = cache.token
      /\ refresh[r].coord = "ended" /\ refresh[r].worker # "unused"
  BY DEF RecordFailure, TasksInv
<1>2. RefreshBecomes(r, refresh[r].by, refresh[r].worker, "recorded", refresh[r].timedOut, refresh[r].ok, refresh[r].token)
  BY CoordMoves DEF RecordFailure
<1>3. LockInv'
  BY <1>1, <1>2 DEF LockInv, RefreshBecomes, Active
<1>4. TasksInv'
  BY <1>1, <1>2 DEF TasksInv, RefreshBecomes, Active
<1>5. OrderInv'
  BY <1>1, <1>2, WorkerKeepsOrder DEF RefreshBecomes, MayStore
<1>6. TokenInv'
  <2>1. \A token : Fetched(token) => Fetched(token)'
    BY <1>2, FetchedStays DEF RefreshBecomes
  <2>2. \A q \in Refreshes : Succeeded(q)' => Succeeded(q)
    BY <1>2 DEF RefreshBecomes, Succeeded
  <2> QED
    BY <1>1, <2>1, <2>2 DEF TokenInv
<1> QED
  BY <1>1, <1>3, <1>4, <1>5, <1>6, TaskKeepsCalls

LEMMA TickInv ==
    ASSUME Inv, Tick
    PROVE  LockInv' /\ TasksInv' /\ OrderInv' /\ TokenInv' /\ CallInv'
<1> USE TypeParts DEF Inv
<1>1. UNCHANGED <<cache, writer, lock, waiting, call, refresh>> /\ clock' = clock + 1
  BY DEF Tick
<1>2. LockInv'
  BY <1>1 DEF LockInv
<1>3. TokenInv'
  BY <1>1, TaskKeepsTokens DEF Succeeded
<1>4. CallInv'
  <2>1. clock \in Nat /\ \A c \in Callers : call[c].since \in Nat
    BY CacheAssumption DEF CallRecords
  <2>2. \A c \in Callers : call'[c].since <= clock'
    BY <1>1, <2>1 DEF CallInv
  <2> QED
    BY <1>1, <2>2 DEF CallInv, Freshness
<1> QED
  BY <1>1, <1>2, <1>3, <1>4, CallKeepsTasks

LEMMA InitInv == Init => Inv
<1> SUFFICES ASSUME Init PROVE Inv
  OBVIOUS
<1>1. call \in [Callers -> CallRecords] /\ refresh \in [Refreshes -> RefreshRecords]
  BY NoTokenType, CacheAssumption DEF Init, Idle, NoRefresh, CallRecords, RefreshRecords
<1>2. TypeOK
  BY <1>1, NoTokenType, CacheAssumption, EmptySeq DEF Init, TypeOK, CallRecords, RefreshRecords
<1>3. LockInv /\ TasksInv /\ OrderInv
  BY DEF Init, LockInv, TasksInv, OrderInv, MayStore, Idle, NoRefresh, Active
<1>4. TokenInv /\ CallInv
  BY DEF Init, TokenInv, CallInv, Fetched, Succeeded, Idle, NoRefresh, NoToken
<1> QED
  BY <1>2, <1>3, <1>4 DEF Inv

LEMMA StepInv == Inv /\ [Next]_vars => Inv'
<1> SUFFICES ASSUME Inv, [Next]_vars PROVE Inv'
  OBVIOUS
<1>1. TypeOK'
  BY TypeStep DEF Inv
<1>2. LockInv' /\ TasksInv' /\ OrderInv' /\ TokenInv' /\ CallInv'
  <2>1. CASE UNCHANGED vars
    <3>1. UNCHANGED <<clock, cache, writer, lock, waiting, call, refresh>>
      BY <2>1 DEF vars
    <3>2. LockInv'
      BY <3>1 DEF Inv, LockInv
    <3> QED
      BY <3>1, <3>2, CallKeepsTasks, TaskKeepsTokens, TaskKeepsCalls DEF Succeeded
  <2> QED
    BY <2>1, HeadersInv, ReadCacheInv, SoftRefreshInv, AcquireLockInv, CheckAgainInv, TakeOutcomeInv, CancelInv,
       BackgroundCheckInv, RecordFailureInv, FetchErrInv, FetchOkInv, LateAnswerInv, LockCacheInv, StoreTokenInv,
       CoordinatorInv, TickInv DEF Next, Caller, Worker, Done
<1> QED
  BY <1>1, <1>2 DEF Inv

\* The tasks, the mutex and the tokens keep the invariant above in every run.
THEOREM Invariance == Spec => []Inv
BY InitInv, StepInv, PTL DEF Spec

-----------------------------------------------------------------------------
(* The theorems *)

\* Every variable has its type in every reachable state.
THEOREM TypeCorrect == Spec => []TypeOK
BY Invariance, PTL DEF Inv

\* However callers are cancelled and timers fire, PythonTokenSource runs one
\* refresh at a time and nobody is in the critical section beside it.
THEOREM RefreshesSerialised == Spec => []OneRefresh
<1>1. Inv => OneRefresh
  BY Parties DEF Inv, LockInv, OneRefresh, Active
<1> QED
  BY <1>1, Invariance, PTL

\* A token handed out by headers() is in the cache, unless a newer one is.
THEOREM NoUpdateLost == Spec => []GivenTokensAreCached
<1>1. Inv => GivenTokensAreCached
  BY DEF Inv, TokenInv, GivenTokensAreCached
<1> QED
  BY <1>1, Invariance, PTL

\* store_token never replaces a token by an older one, although a worker that
\* is told of its timeout between its check and its store stores nevertheless.
THEOREM CacheOnlyAdvances == Spec => NeverOlder
<1>1. Inv /\ [Next]_vars => [cache'.token # cache.token => cache'.token.gen > cache.token.gen]_vars
  <2> SUFFICES ASSUME Inv, [Next]_vars, cache'.token # cache.token
               PROVE  cache'.token.gen > cache.token.gen
    OBVIOUS
  <2>1. PICK r \in Refreshes : StoreToken(r)
    <3>1. ASSUME NEW c \in Callers, Headers(c) \/ Caller(c) \/ Cancel(c) PROVE cache' = cache
      BY <3>1 DEF Caller, Headers, ReadCache, SoftRefresh, AcquireLock, CheckAgain, TakeOutcome, Cancel
    <3>2. ASSUME BackgroundCheck \/ Tick \/ Done \/ UNCHANGED vars PROVE cache' = cache
      BY <3>2 DEF BackgroundCheck, Tick, Done, vars
    <3>3. ASSUME NEW r \in Refreshes, LateAnswer(r) \/ LockCache(r) \/ FetchOk(r) \/ FetchErr(r) PROVE cache' = cache
      BY <3>3 DEF LateAnswer, LockCache, FetchOk, FetchErr
    <3>4. ASSUME NEW r \in Refreshes, Coordinator(r) PROVE cache' = cache
      BY <3>4 DEF Coordinator, Join, TimerFires, GiveUp
    <3>5. ASSUME NEW r \in Refreshes, RecordFailure(r) PROVE cache'.token = cache.token
      BY <3>5 DEF RecordFailure
    <3> QED
      BY <3>1, <3>2, <3>3, <3>4, <3>5 DEF Next, Worker
  <2>2. refresh[r].worker = "storing" /\ cache'.token = refresh[r].token
    BY <2>1 DEF StoreToken
  <2>3. refresh[r].token.gen = r
    BY <2>2 DEF Inv, TasksInv
  <2>4. cache.token.gen < r
    BY <2>2, StoresNewer DEF MayStore
  <2>5. cache.token.gen \in Nat /\ r \in Nat
    BY TypeParts, Parties DEF Inv, Tokens
  <2> QED
    BY <2>2, <2>3, <2>4, <2>5
<1> QED
  BY <1>1, Invariance, PTL DEF Spec, NeverOlder

\* Python is never called for a fresh token, by headers() only for one past its
\* hard deadline, and by the background task only after the cooldown.
THEOREM PythonCalledWhenNeeded == Spec => FetchOnlyWhenNeeded
<1> DEFINE Needed(r) ==
             IF refresh'[r].by = Background
             THEN Freshness(cache.token, clock) # "Fresh" /\ clock >= cache.nextAt
             ELSE Freshness(cache.token, clock) = "HardExpired"
<1>1. ASSUME Inv, [Next]_vars, NEW r \in Refreshes,
             refresh[r].worker = "unused", refresh'[r].worker = "calling"
      PROVE  Needed(r)
  <2> USE TypeParts DEF Inv
  <2>1. ASSUME UNCHANGED refresh PROVE FALSE
    BY <1>1, <2>1
  <2>2. ASSUME NEW q \in Refreshes, NEW by \in Callers \cup {Background}, StartRefresh(q, by)
        PROVE  refresh'[r].by = by
    <3>1. RefreshBecomes(q, by, "calling", "running", refresh[q].timedOut, refresh[q].ok, refresh[q].token)
      BY <1>1, <2>2, RefreshStarts DEF StartRefresh
    <3> QED
      BY <1>1, <3>1 DEF RefreshBecomes
  <2>3. ASSUME NEW c \in Callers, Headers(c) \/ Caller(c) \/ Cancel(c) PROVE Needed(r)
    <3>1. CASE CheckAgain(c)
      <4>1. PICK q \in Refreshes : StartRefresh(q, c)
        BY <2>1, <3>1 DEF CheckAgain
      <4>2. refresh'[r].by = c /\ c # Background
        BY <2>2, <4>1, Parties
      <4> QED
        BY <2>1, <3>1, <4>2 DEF CheckAgain
    <3> QED
      BY <2>1, <2>3, <3>1 DEF Caller, Headers, ReadCache, SoftRefresh, AcquireLock, TakeOutcome, Cancel
  <2>4. CASE BackgroundCheck
    <3>1. PICK q \in Refreshes : StartRefresh(q, Background)
      BY <2>1, <2>4 DEF BackgroundCheck
    <3>2. refresh'[r].by = Background
      BY <2>2, <3>1
    <3> QED
      BY <2>1, <2>4, <3>2 DEF BackgroundCheck, CanAttemptSoftRefresh
  <2>5. ASSUME NEW q \in Refreshes, Worker(q) \/ FetchOk(q) \/ FetchErr(q) PROVE FALSE
    <3>1. refresh[q].worker \in {"calling", "fetched", "ready", "storing"}
      BY <2>5 DEF Worker, LateAnswer, LockCache, StoreToken, FetchOk, FetchErr
    <3>2. refresh'[r] = refresh[r]
      BY <1>1, <2>5, <3>1 DEF Worker, LateAnswer, LockCache, StoreToken, FetchOk, FetchErr
    <3> QED
      BY <1>1, <3>2
  <2>6. ASSUME NEW q \in Refreshes, Coordinator(q) \/ RecordFailure(q) PROVE FALSE
    <3>1. refresh[q].coord \notin {"unused"}
      BY <2>6 DEF Coordinator, Join, TimerFires, GiveUp, RecordFailure
    <3>2. refresh[q].worker # "unused"
      BY <1>1, <3>1 DEF TasksInv
    <3>3. refresh'[r] = refresh[r]
      BY <1>1, <2>6, <3>2 DEF Coordinator, Join, TimerFires, GiveUp, RecordFailure
    <3> QED
      BY <1>1, <3>3
  <2>7. ASSUME Tick \/ Done \/ UNCHANGED vars PROVE FALSE
    BY <2>1, <2>7 DEF Tick, Done, vars
  <2> QED
    BY <1>1, <2>3, <2>4, <2>5, <2>6, <2>7 DEF Next
<1>2. Inv /\ [Next]_vars =>
         [\A r \in Refreshes :
            refresh[r].worker = "unused" /\ refresh'[r].worker = "calling" => Needed(r)]_vars
  BY <1>1
<1> QED
  BY <1>2, Invariance, PTL DEF Spec, FetchOnlyWhenNeeded

\* Whoever headers() serves from the cache has headers that were not past their
\* hard deadline when it called, whatever tag it sent.
THEOREM ServedLive == Spec => ServedFromCacheIsLive
<1>1. ASSUME Inv, [Next]_vars, NEW c \in Callers,
             call[c].pc \in {"read", "soft", "check"}, call'[c].pc = "idle"
      PROVE  Freshness(call'[c].held, call[c].since) # "HardExpired"
  <2> USE TypeParts DEF Inv
  <2>1. ASSUME UNCHANGED call PROVE FALSE
    BY <1>1, <2>1
  <2>2. /\ call[c].since \in Nat /\ clock \in Nat /\ call[c].since <= clock
        /\ cache.token \in Tokens
    BY <1>1, CacheAssumption DEF CallRecords, CallInv
  <2>3. ASSUME NEW token \in Tokens, Return(c, token) PROVE call'[c].held = token
    <3>1. CallBecomes(c, "idle", 0, 0, NoToken, FALSE, 0, token)
      BY <1>1, <2>3, CallReturns
    <3> QED
      BY <3>1 DEF CallBecomes
  <2>4. CASE ReadCache(c)
    <3>1. Freshness(cache.token, call[c].since) = "Fresh" /\ Return(c, ToCacheableResource(cache.token, c))
      <4>1. CASE call' = [call EXCEPT ![c].pc = "soft",
                                      ![c].resource = ToCacheableResource(cache.token, c),
                                      ![c].attempt = CanAttemptSoftRefresh(call[c].since)]
        <5>1. CanAttemptSoftRefresh(call[c].since) \in BOOLEAN
          BY DEF CanAttemptSoftRefresh
        <5>2. call'[c].pc = "soft"
          BY <1>1, <4>1, <5>1, ServedType, CallIsSoft DEF CallBecomes
        <5> QED
          BY <1>1, <5>2
      <4>2. CASE call' = [call EXCEPT ![c].pc = "queued"]
        <5>1. call'[c].pc = "queued"
          BY <1>1, <4>2, CallMoves DEF CallBecomes
        <5> QED
          BY <1>1, <5>1
      <4> QED
        BY <2>4, <4>1, <4>2 DEF ReadCache
    <3>2. cache.token.gen # 0
      BY <2>2, <3>1, ExpiryIsFinal
    <3>3. ToCacheableResource(cache.token, c) = cache.token
      BY <1>1, <3>2, ServedIsTheToken
    <3>4. call'[c].held = cache.token
      BY <2>2, <2>3, <3>1, <3>3
    <3> QED
      BY <3>1, <3>4
  <2>5. CASE SoftRefresh(c)
    <3>1. /\ Return(c, call[c].resource) /\ call[c].resource \in Tokens
          /\ Freshness(call[c].resource, call[c].since) # "HardExpired"
      BY <1>1, <2>5 DEF SoftRefresh, CallInv, CallRecords
    <3> QED
      BY <2>3, <3>1
  <2>6. CASE CheckAgain(c)
    <3>1. Freshness(cache.token, clock) # "HardExpired" /\ Return(c, ToCacheableResource(cache.token, c))
      <4>1. ASSUME NEW r \in Refreshes, call' = [call EXCEPT ![c].pc = "await", ![c].refresh = r] PROVE FALSE
        <5>1. call'[c].pc = "await"
          BY <1>1, <4>1, CallAwaits DEF CallBecomes
        <5> QED
          BY <1>1, <5>1
      <4> QED
        BY <2>6, <4>1 DEF CheckAgain
    <3>2. cache.token.gen # 0 /\ Freshness(cache.token, call[c].since) # "HardExpired"
      BY <2>2, <3>1, ExpiryIsFinal
    <3>3. ToCacheableResource(cache.token, c) = cache.token
      BY <1>1, <3>2, ServedIsTheToken
    <3>4. call'[c].held = cache.token
      BY <2>2, <2>3, <3>1, <3>3
    <3> QED
      BY <3>2, <3>4
  <2>7. CASE Headers(c) \/ AcquireLock(c) \/ TakeOutcome(c) \/ Cancel(c)
    BY <1>1, <2>7 DEF Headers, AcquireLock, TakeOutcome, Cancel
  <2>8. ASSUME NEW d \in Callers \ {c}, Headers(d) \/ Caller(d) \/ Cancel(d) PROVE FALSE
    <3>1. call'[c] = call[c]
      BY <1>1, <2>8 DEF Caller, Headers, ReadCache, SoftRefresh, AcquireLock, CheckAgain, TakeOutcome, Cancel, Return
    <3> QED
      BY <1>1, <3>1
  <2>9. ASSUME BackgroundCheck \/ Tick \/ Done \/ UNCHANGED vars PROVE FALSE
    BY <2>1, <2>9 DEF BackgroundCheck, Tick, Done, vars
  <2>10. ASSUME NEW r \in Refreshes,
                Worker(r) \/ Coordinator(r) \/ RecordFailure(r) \/ FetchOk(r) \/ FetchErr(r)
         PROVE  FALSE
    BY <2>1, <2>10 DEF Worker, LateAnswer, LockCache, StoreToken, Coordinator, Join, TimerFires, GiveUp,
                       RecordFailure, FetchOk, FetchErr
  <2> QED
    BY <1>1, <2>4, <2>5, <2>6, <2>7, <2>8, <2>9, <2>10 DEF Next, Caller
<1>2. Inv /\ [Next]_vars =>
         [\A c \in Callers :
            call[c].pc \in {"read", "soft", "check"} /\ call'[c].pc = "idle" =>
               Freshness(call'[c].held, call[c].since) # "HardExpired"]_vars
  BY <1>1
<1> QED
  BY <1>2, Invariance, PTL DEF Spec, ServedFromCacheIsLive
=============================================================================
