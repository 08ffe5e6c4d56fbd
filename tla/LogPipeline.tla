---------------------------- MODULE LogPipeline ----------------------------
(***************************************************************************)
(* The asynchronous query log of internal/logging/pipeline.go.             *)
(*                                                                         *)
(* DNS handler goroutines (Senders) call Send, which must never block; one *)
(* consumer goroutine moves entries from the buffered channel into a batch *)
(* and writes the batch to PostgreSQL when it is full, when the one-second *)
(* ticker fires, or when the channel has been closed and drained by Stop.  *)
(*                                                                         *)
(* An entry is <<s, n>>, the n-th entry of sender s, so that a lost, a     *)
(* duplicated and a reordered entry can all be told apart.                 *)
(***************************************************************************)
EXTENDS Integers, Sequences

CONSTANTS
    Senders,     \* handler goroutines that log a query
    BufferSize,  \* capacity of the channel (cfg.DB.LogBufferSize)
    BatchSize,   \* p.batchSize, 5000 in the code
    MaxSends     \* bound: entries each sender produces

ASSUME BufferAssumption == BufferSize \in Nat \ {0}
ASSUME BatchAssumption == BatchSize \in Nat \ {0}
ASSUME MaxSendsAssumption == MaxSends \in Nat

VARIABLES
    ch,        \* p.ch: the entries buffered in the channel
    closed,    \* p.ch has been closed
    dropped,   \* p.dropped, a plain uint64 that every sender increments
    sent,      \* sent[s]: how many times s has called Send
    sender,    \* sender[s]: where s is inside Send
    register,  \* register[s]: what s read of p.dropped, between load and store
    batch,     \* consume's local slice
    consumer,  \* where the consumer goroutine is
    stop,      \* how far Stop has come
    panicked,  \* a send on the closed channel has ended the process
    table,     \* rows of dns_query_logs, in the order they were stored
    accepted,  \* history: entries the channel accepted, in order
    flushed,   \* history: entries a finished flush was given, in order
    drops      \* history: entries Send discarded and has finished counting

channelVars  == <<ch, closed>>
senderVars   == <<dropped, sent, sender, register, drops>>
consumerVars == <<batch, consumer, table, flushed>>
vars == <<channelVars, senderVars, consumerVars, stop, panicked, accepted>>

Entries == Senders \X Nat

\* The shape of the state, with the two limits the code keeps: the channel's
\* capacity, and a batch that leaves the select loop as soon as it is full.
TypeOK ==
    /\ ch \in Seq(Entries)
    /\ Len(ch) <= BufferSize
    /\ closed \in BOOLEAN
    /\ dropped \in Nat
    /\ sent \in [Senders -> Nat]
    /\ sender \in [Senders -> {"idle", "load", "store"}]
    /\ register \in [Senders -> Nat]
    /\ batch \in Seq(Entries)
    /\ Len(batch) <= BatchSize
    /\ consumer = "select" => Len(batch) < BatchSize
    /\ consumer \in {"select", "flush", "final", "done"}
    /\ stop \in {"running", "waiting", "stopped"}
    /\ panicked \in BOOLEAN
    /\ table \in Seq(Entries)
    /\ accepted \in Seq(Entries)
    /\ flushed \in Seq(Entries)
    /\ drops \in Nat

Init ==
    /\ ch = <<>>
    /\ closed = FALSE
    /\ dropped = 0
    /\ sent = [s \in Senders |-> 0]
    /\ sender = [s \in Senders |-> "idle"]
    /\ register = [s \in Senders |-> 0]
    /\ batch = <<>>
    /\ consumer = "select"
    /\ stop = "running"
    /\ panicked = FALSE
    /\ table = <<>>
    /\ accepted = <<>>
    /\ flushed = <<>>
    /\ drops = 0

-----------------------------------------------------------------------------
(* Send: a select over one channel send and a default branch.              *)

Calls(s) ==
    /\ ~panicked
    /\ sender[s] = "idle"
    /\ sent[s] < MaxSends
    /\ sent' = [sent EXCEPT ![s] = @ + 1]

\* Variant of Enqueue with an off-by-one capacity test.
Enqueue_OffByOne(s) ==
    /\ Calls(s)
    /\ ~closed
    /\ Len(ch) <= BufferSize
    /\ ch' = Append(ch, <<s, sent[s]>>)
    /\ accepted' = Append(accepted, <<s, sent[s]>>)
    /\ UNCHANGED <<closed, dropped, sender, register, drops, consumerVars,
                   stop, panicked>>

\* The channel has room: the entry is queued and Send returns.
Enqueue(s) ==
    /\ Calls(s)
    /\ ~closed
    /\ Len(ch) < BufferSize
    /\ ch' = Append(ch, <<s, sent[s]>>)
    /\ accepted' = Append(accepted, <<s, sent[s]>>)
    /\ UNCHANGED <<closed, dropped, sender, register, drops, consumerVars,
                   stop, panicked>>

\* Variant of Discard that counts the entry before the counting step does.
Discard_CountedTwice(s) ==
    /\ Calls(s)
    /\ ~closed
    /\ Len(ch) >= BufferSize
    /\ dropped' = dropped + 1
    /\ sender' = [sender EXCEPT ![s] = "load"]
    /\ UNCHANGED <<channelVars, register, drops, consumerVars, stop, panicked,
                   accepted>>

\* The buffer is full: the default branch discards the entry and is about to
\* evaluate p.dropped++.
Discard(s) ==
    /\ Calls(s)
    /\ ~closed
    /\ Len(ch) >= BufferSize
    /\ sender' = [sender EXCEPT ![s] = "load"]
    /\ UNCHANGED <<channelVars, dropped, register, drops, consumerVars, stop,
                   panicked, accepted>>

\* p.dropped++ is neither atomic nor locked: it reads ...
LoadDropped(s) ==
    /\ ~panicked
    /\ sender[s] = "load"
    /\ register' = [register EXCEPT ![s] = dropped]
    /\ sender' = [sender EXCEPT ![s] = "store"]
    /\ UNCHANGED <<channelVars, dropped, sent, drops, consumerVars, stop,
                   panicked, accepted>>

\* ... and later writes what it read plus one, whatever happened in between.
StoreDropped(s) ==
    /\ ~panicked
    /\ sender[s] = "store"
    /\ dropped' = register[s] + 1
    /\ drops' = drops + 1
    /\ sender' = [sender EXCEPT ![s] = "idle"]
    /\ UNCHANGED <<channelVars, sent, register, consumerVars, stop, panicked,
                   accepted>>

\* Sending on a closed channel panics even inside a select with a default
\* branch; no handler recovers, so the process ends.
SendOnClosed(s) ==
    /\ Calls(s)
    /\ closed
    /\ panicked' = TRUE
    /\ UNCHANGED <<channelVars, dropped, sender, register, drops, consumerVars,
                   stop, accepted>>

Send(s) == Enqueue(s) \/ Discard(s) \/ SendOnClosed(s)
FinishSend(s) == LoadDropped(s) \/ StoreDropped(s)

-----------------------------------------------------------------------------
(* consume: the consumer goroutine's select loop.                          *)

\* Variant of Receive in which a full batch makes room by forgetting an entry.
Receive_Overwrite ==
    /\ ~panicked
    /\ consumer = "select"
    /\ ch # <<>>
    /\ ch' = Tail(ch)
    /\ batch' = IF Len(batch) + 1 >= BatchSize
                THEN <<Head(ch)>> ELSE Append(batch, Head(ch))
    /\ consumer' = IF Len(batch) + 1 >= BatchSize THEN "flush" ELSE "select"
    /\ UNCHANGED <<closed, senderVars, table, flushed, stop, panicked, accepted>>

\* case entry, ok := <-p.ch with ok: append, and flush when the batch is full.
Receive ==
    /\ ~panicked
    /\ consumer = "select"
    /\ ch # <<>>
    /\ ch' = Tail(ch)
    /\ batch' = Append(batch, Head(ch))
    /\ consumer' = IF Len(batch') >= BatchSize THEN "flush" ELSE "select"
    /\ UNCHANGED <<closed, senderVars, table, flushed, stop, panicked, accepted>>

\* Variant of ReceiveClosed that returns without the last flush.
ReceiveClosed_NoFlush ==
    /\ ~panicked
    /\ consumer = "select"
    /\ closed
    /\ ch = <<>>
    /\ consumer' = "done"
    /\ UNCHANGED <<channelVars, senderVars, batch, table, flushed, stop,
                   panicked, accepted>>

\* Variant of ReceiveClosed that ends only when there is something to flush.
ReceiveClosed_KeepsLooping ==
    /\ ~panicked
    /\ consumer = "select"
    /\ closed
    /\ ch = <<>>
    /\ consumer' = IF batch = <<>> THEN "select" ELSE "final"
    /\ UNCHANGED <<channelVars, senderVars, batch, table, flushed, stop,
                   panicked, accepted>>

\* The channel is closed and drained: flush what is left, if anything, and end.
ReceiveClosed ==
    /\ ~panicked
    /\ consumer = "select"
    /\ closed
    /\ ch = <<>>
    /\ consumer' = IF batch = <<>> THEN "done" ELSE "final"
    /\ UNCHANGED <<channelVars, senderVars, batch, table, flushed, stop,
                   panicked, accepted>>

\* Variant of Tick that flushes only full batches.
Tick_FullOnly ==
    /\ ~panicked
    /\ consumer = "select"
    /\ Len(batch) >= BatchSize
    /\ consumer' = "flush"
    /\ UNCHANGED <<channelVars, senderVars, batch, table, flushed, stop,
                   panicked, accepted>>

\* case <-ticker.C: it may win the select at any time; an empty batch is a no-op.
Tick ==
    /\ ~panicked
    /\ consumer = "select"
    /\ batch # <<>>
    /\ consumer' = "flush"
    /\ UNCHANGED <<channelVars, senderVars, batch, table, flushed, stop,
                   panicked, accepted>>

\* The database's part of a flush: the batch is one implicit transaction, so
\* all of its rows are stored or none (offline, error, ten-second timeout, no pool).
SendBatch ==
    \/ table' = table \o batch
    \/ table' = table

\* Variant of Flush that keeps the batch of a failed write for the next flush
\* after an error that the database had in fact committed.
Flush_Retry ==
    /\ ~panicked
    /\ consumer \in {"flush", "final"}
    /\ \/ /\ SendBatch
          /\ flushed' = flushed \o batch
          /\ batch' = <<>>
       \/ /\ table' = table \o batch
          /\ UNCHANGED <<flushed, batch>>
    /\ consumer' = IF consumer = "flush" THEN "select" ELSE "done"
    /\ UNCHANGED <<channelVars, senderVars, stop, panicked, accepted>>

\* flush returns after at most ten seconds.  The caller forgets the batch
\* (batch[:0], or return) whether or not it was stored; senders keep filling
\* the channel while consumer = "flush".
Flush ==
    /\ ~panicked
    /\ consumer \in {"flush", "final"}
    /\ SendBatch
    /\ flushed' = flushed \o batch
    /\ batch' = <<>>
    /\ consumer' = IF consumer = "flush" THEN "select" ELSE "done"
    /\ UNCHANGED <<channelVars, senderVars, stop, panicked, accepted>>

Consume == Receive \/ ReceiveClosed \/ Tick \/ Flush

-----------------------------------------------------------------------------
(* Stop: close(p.ch), then p.wg.Wait().                                    *)

StopClose ==
    /\ ~panicked
    /\ stop = "running"
    /\ closed' = TRUE
    /\ stop' = "waiting"
    /\ UNCHANGED <<ch, senderVars, consumerVars, panicked, accepted>>

StopReturn ==
    /\ ~panicked
    /\ stop = "waiting"
    /\ consumer = "done"
    /\ stop' = "stopped"
    /\ UNCHANGED <<channelVars, senderVars, consumerVars, panicked, accepted>>

Stop == StopClose \/ StopReturn

-----------------------------------------------------------------------------

Next ==
    \/ \E s \in Senders : Send(s) \/ FinishSend(s)
    \/ Consume
    \/ Stop

\* A goroutine inside Send is not blocked on anything, and the consumer runs
\* whenever an entry, a close, a tick or the end of a flush (which has a
\* ten-second timeout) is there.  Nothing forces a query to come or Stop to be
\* called; once called it returns when the consumer has ended.
Fairness ==
    /\ \A s \in Senders : WF_vars(FinishSend(s))
    /\ WF_vars(Consume)
    /\ WF_vars(StopReturn)

Spec == Init /\ [][Next]_vars

FairSpec == Spec /\ Fairness

-----------------------------------------------------------------------------
(* Properties.                                                             *)

\* No accepted entry is lost, duplicated or overtaken between Send and flush:
\* what the channel accepted is what flush was given, then the batch, then the
\* channel, in that order, whichever of the three flush triggers fired.
InOrderExactlyOnce == accepted = flushed \o batch \o ch

\* When Stop has returned, every accepted entry has been given to flush
\* (pipeline.go: "Stop signals the pipeline to flush remaining entries and exit").
StopDrains == stop = "stopped" => flushed = accepted

\* A row is stored at most once, and only for an entry the channel accepted:
\* a failed flush is never written again later.
StoredAtMostOnce ==
    /\ \A i, j \in DOMAIN table : table[i] = table[j] => i = j
    /\ \A i \in DOMAIN table : \E j \in DOMAIN flushed : table[i] = flushed[j]

\* The unsynchronised p.dropped++ can lose increments but never invents one:
\* the "total dropped" that Stop prints is at most the number of entries dropped.
DroppedNeverOvercounts == dropped <= drops

\* After close, and unless a late Send ends the process, the consumer drains
\* the channel and Stop returns, even when every write fails.
StopTerminates == (stop = "waiting") ~> (stop = "stopped" \/ panicked)

\* An accepted entry does not wait for a full batch: the ticker gets it to
\* flush in the end, unless the process ends first.
AcceptedIsFlushed ==
    \A s \in Senders : \A n \in 0 .. MaxSends - 1 :
        (\E i \in DOMAIN accepted : accepted[i] = <<s, n>>)
            ~> (panicked \/ \E i \in DOMAIN flushed : flushed[i] = <<s, n>>)
=============================================================================
