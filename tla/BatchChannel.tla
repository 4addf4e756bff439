---------------------------- MODULE BatchChannel ----------------------------
(***************************************************************************)
(* The wiring every read shares: one bounded tokio mpsc channel that       *)
(* carries Result<RecordBatch, BigQueryError>, and one tokio watch flag    *)
(* for cooperative cancellation (lib.rs: read_table,                       *)
(* read_stream_with_first_page_check, spawn_query_stream).                 *)
(*                                                                         *)
(* tokio itself is external code.  The channel is modelled as the log of   *)
(* everything ever sent and the number of items the receiver has taken:    *)
(* what is buffered is the part of the log past the cursor.  The semaphore *)
(* behind `reserve_owned`, `send` and `blocking_send` is a counter of free *)
(* slots; a slot is held by an OwnedPermit until the permit is sent (the   *)
(* item then occupies the slot until it is received) or dropped.           *)
(***************************************************************************)
EXTENDS Integers, Sequences, FiniteSets

CONSTANTS
    Capacity,   \* channel_size(): the slots of the mpsc channel
    Streams     \* the Storage Read API streams of one read

ASSUME CapacityAssumption == Capacity \in Nat \ {0}

VARIABLES
    sent,       \* every item ever put into the channel, in order
    nread,      \* how many of them rx.recv() has returned
    permits,    \* free slots of the channel's semaphore
    waiters,    \* who waits for a slot; tokio's semaphore is first come, first served
    closed,     \* rx.close() has been called, or rx dropped
    cancel      \* value of the watch channel `cancel_tx`/`cancel_rx`

chanVars == <<sent, nread, permits, waiters, closed, cancel>>

\* Ok(batch): the rows lo .. hi-1 of stream s.
Batch(s, lo, hi) == [kind |-> "batch", s |-> s, lo |-> lo, hi |-> hi]

\* Err(_): which error it is makes no difference to the receiver.
Err(s) == [kind |-> "err", s |-> s, lo |-> 0, hi |-> 0]

Items == [kind : {"batch", "err"}, s : Streams, lo : Int, hi : Int]

ChannelInit ==
    /\ sent = <<>>
    /\ nread = 0
    /\ permits = Capacity
    /\ waiters = <<>>
    /\ closed = FALSE
    /\ cancel = FALSE

\* The tasks and decode jobs that may wait for a slot.
Waiter(who, s, n) == <<who, s, n>>

Waiters == {"reader", "job"} \X Streams \X Nat

\* The first poll of reserve_owned(), send() or blocking_send().
Wait(w) == waiters' = Append(waiters, w)

\* The waiting future is dropped, or fails because the channel is closed.
Leave(w) ==
    \/ /\ \A i \in DOMAIN waiters : waiters[i] # w
       /\ UNCHANGED waiters
    \/ \E i \in DOMAIN waiters :
          /\ waiters[i] = w
          /\ waiters' = [k \in 1 .. Len(waiters) - 1 |-> waiters[IF k < i THEN k ELSE k + 1]]

\* Mutant: a permit is handed out although no slot is free.
ReserveOverbooked(w) ==
    /\ ~closed
    /\ waiters # <<>> /\ Head(waiters) = w
    /\ waiters' = Tail(waiters)
    /\ permits' = permits - 1

\* tx.clone().reserve_owned() returning Ok(permit).
ReserveOwned(w) ==
    /\ ~closed
    /\ permits > 0
    /\ waiters # <<>> /\ Head(waiters) = w
    /\ waiters' = Tail(waiters)
    /\ permits' = permits - 1

\* permit.send(item): never blocks and never fails; the slot stays taken.
PermitSend(item) ==
    /\ sent' = Append(sent, item)
    /\ UNCHANGED <<permits, waiters>>

\* tx.send(item).await, and tx.blocking_send(item), returning Ok(()).
Send(w, item) ==
    /\ ReserveOwned(w)
    /\ sent' = Append(sent, item)

\* An OwnedPermit goes out of scope unused.
DropPermit ==
    /\ permits' = permits + 1
    /\ UNCHANGED <<sent, waiters>>

ChannelTypeOK ==
    /\ sent \in Seq(Items)
    /\ nread \in 0 .. Len(sent)
    /\ permits \in Nat
    /\ waiters \in Seq(Waiters)
    /\ closed \in BOOLEAN
    /\ cancel \in BOOLEAN
=============================================================================
