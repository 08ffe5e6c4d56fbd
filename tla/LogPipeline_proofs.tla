------------------------ MODULE LogPipeline_proofs ------------------------
(***************************************************************************)
(* Proofs about LogPipeline for every set of senders, buffer and batch     *)
(* size: the types and limits, exactly-once in-order hand-over, a complete *)
(* drain when Stop returns, rows stored at most once, and the bound on the *)
(* racy drop counter.                                                      *)
(***************************************************************************)
EXTENDS LogPipeline, SequenceTheorems, TLAPS

\* The consumer ends only after the channel was closed and emptied, and Stop
\* returns only after the consumer has ended.
Closing ==
    /\ consumer \in {"final", "done"} => closed /\ ch = <<>>
    /\ consumer = "done" => batch = <<>>
    /\ stop = "stopped" => consumer = "done"

\* Whatever a sender read of p.dropped, and p.dropped itself, is at most the
\* number of drops counted so far.
Counting ==
    /\ dropped <= drops
    /\ \A s \in Senders : register[s] <= drops

IInv == TypeOK /\ InOrderExactlyOnce /\ Closing /\ Counting

-----------------------------------------------------------------------------
(* Sequences.                                                              *)

\* Appending to the right operand of a concatenation appends to the whole.
LEMMA ConcatAppend ==
    ASSUME NEW S, NEW u \in Seq(S), NEW v \in Seq(S), NEW e \in S
    PROVE  u \o Append(v, e) = Append(u \o v, e)
<1>1. /\ u \o v \in Seq(S)
      /\ Len(u \o v) = Len(u) + Len(v)
      /\ \A i \in 1 .. Len(u) + Len(v) :
            (u \o v)[i] = IF i <= Len(u) THEN u[i] ELSE v[i - Len(u)]
  BY ConcatProperties
<1>2. Append(v, e) \in Seq(S) /\ Len(Append(v, e)) = Len(v) + 1
  OBVIOUS
<1>3. /\ u \o Append(v, e) \in Seq(S)
      /\ Len(u \o Append(v, e)) = Len(u) + Len(v) + 1
      /\ \A i \in 1 .. Len(u) + Len(v) + 1 :
            (u \o Append(v, e))[i] =
                IF i <= Len(u) THEN u[i] ELSE Append(v, e)[i - Len(u)]
  BY <1>2, ConcatProperties
<1>4. Append(u \o v, e) \in Seq(S)
      /\ Len(Append(u \o v, e)) = Len(u) + Len(v) + 1
  BY <1>1
<1>5. ASSUME NEW i \in 1 .. Len(u) + Len(v) + 1
      PROVE  (u \o Append(v, e))[i] = Append(u \o v, e)[i]
  BY <1>1, <1>3
<1> QED
  BY <1>3, <1>4, <1>5, SeqEqual

\* Moving the head of one sequence to the end of the one before it leaves
\* their concatenation as it was.
LEMMA MoveHead ==
    ASSUME NEW S, NEW u \in Seq(S), NEW v \in Seq(S), v # <<>>
    PROVE  Append(u, Head(v)) \o Tail(v) = u \o v
<1>1. /\ Head(v) \in S /\ Head(v) = v[1]
      /\ Tail(v) \in Seq(S)
      /\ Len(Tail(v)) = Len(v) - 1
      /\ \A i \in 1 .. Len(Tail(v)) : Tail(v)[i] = v[i + 1]
  BY HeadTailProperties
<1>2. Len(v) \in Nat \ {0}
  BY EmptySeq
<1>3. Append(u, Head(v)) \in Seq(S) /\ Len(Append(u, Head(v))) = Len(u) + 1
  BY <1>1
<1>4. /\ Append(u, Head(v)) \o Tail(v) \in Seq(S)
      /\ Len(Append(u, Head(v)) \o Tail(v)) = Len(u) + Len(v)
      /\ \A i \in 1 .. Len(u) + Len(v) :
            (Append(u, Head(v)) \o Tail(v))[i] =
                IF i <= Len(u) + 1 THEN Append(u, Head(v))[i]
                                   ELSE Tail(v)[i - (Len(u) + 1)]
  BY <1>1, <1>2, <1>3, ConcatProperties
<1>5. /\ u \o v \in Seq(S)
      /\ Len(u \o v) = Len(u) + Len(v)
      /\ \A i \in 1 .. Len(u) + Len(v) :
            (u \o v)[i] = IF i <= Len(u) THEN u[i] ELSE v[i - Len(u)]
  BY ConcatProperties
<1>6. ASSUME NEW i \in 1 .. Len(u) + Len(v)
      PROVE  (Append(u, Head(v)) \o Tail(v))[i] = (u \o v)[i]
  <2>1. CASE i <= Len(u)
    BY <1>1, <1>4, <1>5, <2>1
  <2>2. CASE i = Len(u) + 1
    BY <1>1, <1>4, <1>5, <2>2
  <2>3. CASE i > Len(u) + 1
    <3>1. i - (Len(u) + 1) \in 1 .. Len(Tail(v))
      BY <1>1, <1>2, <2>3
    <3>2. Tail(v)[i - (Len(u) + 1)] = v[i - Len(u)]
      BY <1>1, <3>1
    <3> QED
      BY <1>4, <1>5, <2>3, <3>2
  <2> QED
    BY <2>1, <2>2, <2>3
<1> QED
  BY <1>4, <1>5, <1>6, SeqEqual

-----------------------------------------------------------------------------
(* The inductive invariant.                                                *)

LEMMA InitIInv == Init => IInv
<1> SUFFICES ASSUME Init PROVE IInv
  OBVIOUS
<1> USE BufferAssumption, BatchAssumption DEF Init
<1>0. <<>> \in Seq(Entries) /\ Len(<<>>) = 0
  BY EmptySeq
<1>1. TypeOK
  <2>1. /\ ch \in Seq(Entries) /\ batch \in Seq(Entries) /\ table \in Seq(Entries)
        /\ accepted \in Seq(Entries) /\ flushed \in Seq(Entries)
    BY <1>0
  <2>2. Len(ch) <= BufferSize /\ Len(batch) < BatchSize
    BY <1>0
  <2>3. /\ sent \in [Senders -> Nat] /\ register \in [Senders -> Nat]
        /\ sender \in [Senders -> {"idle", "load", "store"}]
    OBVIOUS
  <2>4. Len(batch) <= BatchSize
    BY <1>0
  <2> QED
    BY <2>1, <2>2, <2>3, <2>4 DEF TypeOK
<1>2. InOrderExactlyOnce
  BY EmptySeq, ConcatEmptySeq DEF InOrderExactlyOnce
<1>3. Closing /\ Counting
  BY DEF Closing, Counting
<1> QED
  BY <1>1, <1>2, <1>3 DEF IInv

\* Every step keeps the types and the limits of channel and batch.
LEMMA NextTypeOK == TypeOK /\ Closing /\ [Next]_vars => TypeOK'
<1> SUFFICES ASSUME TypeOK, Closing, [Next]_vars PROVE TypeOK'
  OBVIOUS
<1> USE BufferAssumption, BatchAssumption
<1>1. ASSUME NEW s \in Senders, Enqueue(s) PROVE TypeOK'
  <2>1. <<s, sent[s]>> \in Entries
    BY DEF TypeOK, Entries
  <2>2. /\ ch' \in Seq(Entries) /\ Len(ch') = Len(ch) + 1
        /\ accepted' \in Seq(Entries)
    BY <1>1, <2>1 DEF TypeOK, Enqueue
  <2> QED
    BY <1>1, <2>2 DEF TypeOK, Enqueue, Calls, consumerVars
<1>2. ASSUME NEW s \in Senders, Discard(s) PROVE TypeOK'
  BY <1>2 DEF TypeOK, Discard, Calls, channelVars, consumerVars
<1>3. ASSUME NEW s \in Senders, LoadDropped(s) PROVE TypeOK'
  BY <1>3 DEF TypeOK, LoadDropped, channelVars, consumerVars
<1>4. ASSUME NEW s \in Senders, StoreDropped(s) PROVE TypeOK'
  BY <1>4 DEF TypeOK, StoreDropped, channelVars, consumerVars
<1>5. ASSUME NEW s \in Senders, SendOnClosed(s) PROVE TypeOK'
  BY <1>5 DEF TypeOK, SendOnClosed, Calls, channelVars, consumerVars
<1>6. CASE Receive
  <2>1. /\ Head(ch) \in Entries
        /\ ch' \in Seq(Entries) /\ Len(ch') = Len(ch) - 1
    BY <1>6, HeadTailProperties DEF TypeOK, Receive
  <2>2. batch' \in Seq(Entries) /\ Len(batch') = Len(batch) + 1
    BY <1>6, <2>1 DEF TypeOK, Receive
  <2> QED
    BY <1>6, <2>1, <2>2 DEF TypeOK, Receive, senderVars
<1>7. CASE ReceiveClosed
  BY <1>7 DEF TypeOK, ReceiveClosed, channelVars, senderVars
<1>8. CASE Tick
  BY <1>8 DEF TypeOK, Tick, channelVars, senderVars
<1>9. CASE Flush
  <2>0. table \o batch \in Seq(Entries) /\ flushed \o batch \in Seq(Entries)
    BY ConcatProperties DEF TypeOK
  <2>1. table' \in Seq(Entries) /\ flushed' \in Seq(Entries)
    BY <1>9, <2>0 DEF TypeOK, Flush, SendBatch
  <2>2. batch' \in Seq(Entries) /\ Len(batch') = 0
    BY <1>9, EmptySeq DEF Flush
  <2> QED
    BY <1>9, <2>1, <2>2 DEF TypeOK, Flush, channelVars, senderVars
<1>10. CASE Stop
  BY <1>10 DEF TypeOK, Stop, StopClose, StopReturn, channelVars, senderVars,
               consumerVars
<1>11. CASE UNCHANGED vars
  BY <1>11 DEF TypeOK, vars, channelVars, senderVars, consumerVars
<1> QED
  BY <1>1, <1>2, <1>3, <1>4, <1>5, <1>6, <1>7, <1>8, <1>9, <1>10, <1>11
  DEF Next, Send, FinishSend, Consume

\* Every step keeps the order and the completeness of the hand-over.
LEMMA NextInOrder ==
    TypeOK /\ InOrderExactlyOnce /\ [Next]_vars => InOrderExactlyOnce'
<1> SUFFICES ASSUME TypeOK, InOrderExactlyOnce, [Next]_vars
             PROVE  InOrderExactlyOnce'
  OBVIOUS
<1>0. /\ flushed \in Seq(Entries) /\ batch \in Seq(Entries) /\ ch \in Seq(Entries)
      /\ flushed \o batch \in Seq(Entries)
      /\ (flushed \o batch) \o ch \in Seq(Entries)
  BY ConcatProperties DEF TypeOK
<1>1. ASSUME NEW s \in Senders, Enqueue(s) PROVE InOrderExactlyOnce'
  <2> DEFINE e == <<s, sent[s]>>
  <2>1. e \in Entries
    BY DEF TypeOK, Entries
  <2>2. /\ accepted' = Append(accepted, e)
        /\ ch' = Append(ch, e)
        /\ flushed' = flushed /\ batch' = batch
    BY <1>1 DEF Enqueue, consumerVars
  <2>3. ASSUME NEW x \in Entries
        PROVE  (flushed \o batch) \o Append(ch, x)
                   = Append((flushed \o batch) \o ch, x)
    BY <1>0, ConcatAppend
  <2>4. (flushed \o batch) \o Append(ch, e) = Append((flushed \o batch) \o ch, e)
    BY <2>1, <2>3, Zenon
  <2> QED
    BY <2>2, <2>4 DEF InOrderExactlyOnce
<1>2. CASE Receive
  <2>1. /\ ch # <<>> /\ ch' = Tail(ch) /\ batch' = Append(batch, Head(ch))
        /\ flushed' = flushed /\ accepted' = accepted
    BY <1>2 DEF Receive
  <2>2. Head(ch) \in Entries
    BY <2>1, HeadTailProperties DEF TypeOK
  <2>3. flushed \o Append(batch, Head(ch)) = Append(flushed \o batch, Head(ch))
    BY <1>0, <2>2, ConcatAppend
  <2>4. Append(flushed \o batch, Head(ch)) \o Tail(ch) = (flushed \o batch) \o ch
    BY <1>0, <2>1, MoveHead
  <2> QED
    BY <2>1, <2>3, <2>4 DEF InOrderExactlyOnce
<1>3. CASE Flush
  <2>1. /\ flushed' = flushed \o batch /\ batch' = <<>>
        /\ ch' = ch /\ accepted' = accepted
    BY <1>3 DEF Flush, channelVars
  <2>2. (flushed \o batch) \o <<>> = flushed \o batch
    BY <1>0, ConcatEmptySeq
  <2> QED
    BY <2>1, <2>2 DEF InOrderExactlyOnce
<1>4. CASE UNCHANGED <<accepted, flushed, batch, ch>>
  BY <1>4 DEF InOrderExactlyOnce
<1>5. ASSUME NEW s \in Senders,
             Discard(s) \/ LoadDropped(s) \/ StoreDropped(s) \/ SendOnClosed(s)
      PROVE  UNCHANGED <<accepted, flushed, batch, ch>>
  BY <1>5 DEF Discard, LoadDropped, StoreDropped, SendOnClosed, channelVars,
              consumerVars
<1>6. ReceiveClosed \/ Tick \/ Stop \/ UNCHANGED vars
        => UNCHANGED <<accepted, flushed, batch, ch>>
  BY DEF ReceiveClosed, Tick, Stop, StopClose, StopReturn, vars, channelVars,
         consumerVars
<1> QED
  BY <1>1, <1>2, <1>3, <1>4, <1>5, <1>6 DEF Next, Send, FinishSend, Consume

\* Every step keeps the order of the closing steps.
LEMMA NextClosing == TypeOK /\ Closing /\ [Next]_vars => Closing'
<1> SUFFICES ASSUME TypeOK, Closing, [Next]_vars PROVE Closing'
  OBVIOUS
<1>1. ASSUME NEW s \in Senders, Send(s) \/ FinishSend(s) PROVE Closing'
  BY <1>1 DEF Closing, Send, FinishSend, Enqueue, Discard, SendOnClosed,
              LoadDropped, StoreDropped, channelVars, consumerVars
<1>2. CASE Consume
  BY <1>2 DEF Closing, TypeOK, Consume, Receive, ReceiveClosed, Tick, Flush,
              channelVars
<1>3. CASE Stop
  BY <1>3 DEF Closing, Stop, StopClose, StopReturn, channelVars, consumerVars
<1>4. CASE UNCHANGED vars
  BY <1>4 DEF Closing, vars, channelVars, consumerVars
<1> QED
  BY <1>1, <1>2, <1>3, <1>4 DEF Next

\* Every step keeps the drop counter at or below the drops.
LEMMA NextCounting == TypeOK /\ Counting /\ [Next]_vars => Counting'
<1> SUFFICES ASSUME TypeOK, Counting, [Next]_vars PROVE Counting'
  OBVIOUS
<1>1. ASSUME NEW s \in Senders, LoadDropped(s) PROVE Counting'
  BY <1>1 DEF Counting, TypeOK, LoadDropped
<1>2. ASSUME NEW s \in Senders, StoreDropped(s) PROVE Counting'
  BY <1>2 DEF Counting, TypeOK, StoreDropped
<1>3. CASE UNCHANGED <<dropped, drops, register>>
  BY <1>3 DEF Counting
<1>4. ASSUME NEW s \in Senders, Send(s) PROVE UNCHANGED <<dropped, drops, register>>
  BY <1>4 DEF Send, Enqueue, Discard, SendOnClosed
<1>5. Consume \/ Stop \/ UNCHANGED vars => UNCHANGED <<dropped, drops, register>>
  BY DEF Consume, Receive, ReceiveClosed, Tick, Flush, Stop, StopClose,
         StopReturn, vars, senderVars
<1> QED
  BY <1>1, <1>2, <1>3, <1>4, <1>5 DEF Next, FinishSend

THEOREM Invariance == Spec => []IInv
<1>1. IInv /\ [Next]_vars => IInv'
  BY NextTypeOK, NextInOrder, NextClosing, NextCounting DEF IInv
<1> QED
  BY InitIInv, <1>1, PTL DEF Spec

-----------------------------------------------------------------------------

\* The channel never exceeds its capacity and a batch never exceeds batchSize
\* (with every variable in its type), for every interleaving of the goroutines.
THEOREM TypeCorrect == Spec => []TypeOK
<1>1. IInv => TypeOK
  BY DEF IInv
<1> QED
  BY Invariance, <1>1, PTL

\* Between Send and flush the pipeline neither loses nor duplicates nor
\* reorders an accepted entry.
THEOREM ExactlyOnce == Spec => []InOrderExactlyOnce
<1>1. IInv => InOrderExactlyOnce
  BY DEF IInv
<1> QED
  BY Invariance, <1>1, PTL

\* When Stop returns, flush has been given every entry ever accepted.
THEOREM Drained == Spec => []StopDrains
<1>1. IInv => StopDrains
  <2> SUFFICES ASSUME IInv, stop = "stopped" PROVE flushed = accepted
    BY DEF StopDrains
  <2>1. ch = <<>> /\ batch = <<>> /\ flushed \in Seq(Entries)
    BY DEF IInv, Closing, TypeOK
  <2>2. accepted = (flushed \o <<>>) \o <<>>
    BY <2>1 DEF IInv, InOrderExactlyOnce
  <2> QED
    BY <2>1, <2>2, ConcatEmptySeq
<1> QED
  BY Invariance, <1>1, PTL

\* The racy p.dropped++ can only undercount.
THEOREM Undercount == Spec => []DroppedNeverOvercounts
<1>1. IInv => DroppedNeverOvercounts
  BY DEF IInv, Counting, DroppedNeverOvercounts
<1> QED
  BY Invariance, <1>1, PTL

-----------------------------------------------------------------------------
(* What the database is given.                                             *)

Distinct(u) == \A i, j \in DOMAIN u : u[i] = u[j] => i = j

PartOf(t, u) == \A i \in DOMAIN t : \E j \in DOMAIN u : t[i] = u[j]

\* Entries are numbered as they are sent, so no two accepted ones are equal.
Numbered ==
    /\ Distinct(accepted)
    /\ \A i \in DOMAIN accepted : accepted[i][2] < sent[accepted[i][1]]

\* A beginning of a sequence without repetitions has none.
LEMMA PrefixDistinct ==
    ASSUME NEW S, NEW u \in Seq(S), NEW v \in Seq(S), Distinct(u \o v)
    PROVE  Distinct(u)
<1>1. /\ Len(u) \in Nat /\ Len(v) \in Nat /\ DOMAIN u = 1 .. Len(u)
      /\ DOMAIN (u \o v) = 1 .. Len(u) + Len(v)
      /\ \A i \in 1 .. Len(u) : (u \o v)[i] = u[i]
  BY ConcatProperties, LenProperties
<1>2. ASSUME NEW i \in 1 .. Len(u), NEW j \in 1 .. Len(u), u[i] = u[j]
      PROVE  i = j
  <2>1. i \in DOMAIN (u \o v) /\ j \in DOMAIN (u \o v)
    BY <1>1
  <2>2. (u \o v)[i] = (u \o v)[j]
    BY <1>1, <1>2
  <2> QED
    BY <2>1, <2>2 DEF Distinct
<1> QED
  BY <1>1, <1>2 DEF Distinct

\* What is stored, t, being part of what was flushed, u, a further batch v of
\* entries that are all new may be stored after it.
LEMMA StoreBatch ==
    ASSUME NEW S, NEW t \in Seq(S), NEW u \in Seq(S), NEW v \in Seq(S),
           Distinct(u \o v), Distinct(t), PartOf(t, u)
    PROVE  Distinct(t \o v) /\ PartOf(t \o v, u \o v) /\ PartOf(t, u \o v)
<1>1. /\ Len(t) \in Nat /\ Len(u) \in Nat /\ Len(v) \in Nat
      /\ DOMAIN t = 1 .. Len(t) /\ DOMAIN u = 1 .. Len(u)
  BY LenProperties
<1>2. /\ DOMAIN (t \o v) = 1 .. Len(t) + Len(v)
      /\ \A i \in 1 .. Len(t) + Len(v) :
            (t \o v)[i] = IF i <= Len(t) THEN t[i] ELSE v[i - Len(t)]
  BY ConcatProperties, LenProperties
<1>3. /\ DOMAIN (u \o v) = 1 .. Len(u) + Len(v)
      /\ \A i \in 1 .. Len(u) + Len(v) :
            (u \o v)[i] = IF i <= Len(u) THEN u[i] ELSE v[i - Len(u)]
  BY ConcatProperties, LenProperties
\* Where an entry of t \o v is in u \o v.
<1> DEFINE tv == t \o v
           uv == u \o v
<1>4. ASSUME NEW i \in 1 .. Len(t)
      PROVE  /\ i \in DOMAIN tv /\ tv[i] = t[i]
             /\ \E j \in 1 .. Len(u) : j \in DOMAIN uv /\ tv[i] = uv[j]
  <2>1. PICK j \in 1 .. Len(u) : t[i] = u[j]
    BY <1>1 DEF PartOf
  <2>2. i \in DOMAIN tv /\ tv[i] = t[i]
    BY <1>1, <1>2
  <2>3. j \in DOMAIN uv /\ uv[j] = u[j]
    BY <1>1, <1>3
  <2> QED
    BY <2>1, <2>2, <2>3
<1>5. ASSUME NEW i \in Len(t) + 1 .. Len(t) + Len(v)
      PROVE  /\ i - Len(t) + Len(u) \in Len(u) + 1 .. Len(u) + Len(v)
             /\ i - Len(t) + Len(u) \in DOMAIN uv
             /\ tv[i] = uv[i - Len(t) + Len(u)]
  BY <1>1, <1>2, <1>3
<1>6. \A i \in DOMAIN tv : i \in 1 .. Len(t) \/ i \in Len(t) + 1 .. Len(t) + Len(v)
  BY <1>1, <1>2
<1>7. \A i, j \in DOMAIN uv : uv[i] = uv[j] => i = j
  BY DEF Distinct
<1> HIDE DEF tv, uv
<1>8. ASSUME NEW i \in DOMAIN tv, NEW k \in DOMAIN tv, tv[i] = tv[k]
      PROVE  i = k
  <2>1. CASE i \in 1 .. Len(t) /\ k \in 1 .. Len(t)
    BY <1>1, <1>4, <1>8, <2>1 DEF Distinct
  <2>2. CASE i \in Len(t) + 1 .. Len(t) + Len(v) /\ k \in Len(t) + 1 .. Len(t) + Len(v)
    <3>1. i - Len(t) + Len(u) = k - Len(t) + Len(u)
      BY <1>5, <1>8, <1>7, <2>2
    <3> QED
      BY <1>1, <2>2, <3>1
  <2>3. ASSUME NEW a \in 1 .. Len(t), NEW c \in Len(t) + 1 .. Len(t) + Len(v),
               tv[a] = tv[c]
        PROVE  FALSE
    <3>1. PICK j \in 1 .. Len(u) : j \in DOMAIN uv /\ tv[a] = uv[j]
      BY <1>4
    <3>2. c - Len(t) + Len(u) = j
      BY <1>5, <1>7, <2>3, <3>1
    <3> QED
      BY <1>1, <1>5, <3>2
  <2> QED
    BY <1>8, <1>6, <2>1, <2>2, <2>3
<1>9. ASSUME NEW i \in DOMAIN tv
      PROVE  \E j \in DOMAIN uv : tv[i] = uv[j]
  BY <1>4, <1>5, <1>6
<1>10. ASSUME NEW i \in DOMAIN t
      PROVE  \E j \in DOMAIN uv : t[i] = uv[j]
  BY <1>1, <1>4
<1>11. Distinct(tv)
  BY <1>8 DEF Distinct
<1>12. PartOf(tv, uv) /\ PartOf(t, uv)
  BY <1>9, <1>10 DEF PartOf
<1> QED
  BY <1>11, <1>12 DEF tv, uv

LEMMA NextNumbered == TypeOK /\ Numbered /\ [Next]_vars => Numbered'
<1> SUFFICES ASSUME TypeOK, Numbered, [Next]_vars PROVE Numbered'
  OBVIOUS
<1>0. /\ accepted \in Seq(Entries) /\ Len(accepted) \in Nat
      /\ DOMAIN accepted = 1 .. Len(accepted)
      /\ \A i \in DOMAIN accepted : accepted[i][1] \in Senders
  BY LenProperties, ElementOfSeq DEF TypeOK, Entries
<1>1. ASSUME NEW s \in Senders, Enqueue(s) PROVE Numbered'
  <2> DEFINE e == <<s, sent[s]>>
  <2>1. e \in Entries /\ e[1] = s /\ e[2] = sent[s] /\ sent[s] \in Nat
    BY DEF TypeOK, Entries
  <2>2. accepted' = Append(accepted, e) /\ sent' = [sent EXCEPT ![s] = @ + 1]
    BY <1>1 DEF Enqueue, Calls
  <2> HIDE DEF e
  <2>3. /\ DOMAIN accepted' = 1 .. Len(accepted) + 1
        /\ accepted'[Len(accepted) + 1] = e
        /\ \A i \in 1 .. Len(accepted) : accepted'[i] = accepted[i]
    BY <1>0, <2>1, <2>2
  <2>4. sent'[s] = sent[s] + 1 /\ \A r \in Senders : sent[r] <= sent'[r]
    BY <2>1, <2>2 DEF TypeOK
  <2>5. \A i \in 1 .. Len(accepted) : accepted[i] # e
    BY <1>0, <2>1 DEF Numbered
  <2>6. Distinct(accepted)'
    BY <1>0, <2>3, <2>5 DEF Numbered, Distinct
  <2>7. ASSUME NEW i \in DOMAIN accepted'
        PROVE  accepted'[i][2] < sent'[accepted'[i][1]]
    <3>1. CASE i = Len(accepted) + 1
      BY <2>1, <2>3, <2>4, <3>1
    <3>2. CASE i \in 1 .. Len(accepted)
      <4>1. accepted[i] \in Senders \X Nat
        BY <1>0, <3>2, ElementOfSeq DEF Entries
      <4>2. accepted[i][2] < sent[accepted[i][1]]
        BY <1>0, <3>2 DEF Numbered
      <4>3. sent[accepted[i][1]] <= sent'[accepted[i][1]]
        BY <2>4, <4>1
      <4>4. sent[accepted[i][1]] \in Nat /\ sent'[accepted[i][1]] \in Nat
        BY <2>2, <4>1 DEF TypeOK
      <4> QED
        BY <2>3, <3>2, <4>1, <4>2, <4>3, <4>4
    <3> QED
      BY <1>0, <2>3, <3>1, <3>2
  <2> QED
    BY <2>6, <2>7 DEF Numbered
<1>2. ASSUME NEW s \in Senders, Discard(s) \/ SendOnClosed(s) PROVE Numbered'
  <2>1. accepted' = accepted /\ sent' = [sent EXCEPT ![s] = @ + 1]
    BY <1>2 DEF Discard, SendOnClosed, Calls
  <2>2. \A r \in Senders : sent[r] <= sent'[r] /\ sent[r] \in Nat /\ sent'[r] \in Nat
    BY <2>1 DEF TypeOK
  <2>3. ASSUME NEW i \in DOMAIN accepted
        PROVE  accepted[i][2] < sent'[accepted[i][1]]
    <3>1. accepted[i] \in Senders \X Nat
      BY <1>0, ElementOfSeq DEF Entries
    <3> QED
      BY <2>2, <3>1 DEF Numbered
  <2> QED
    BY <2>1, <2>3 DEF Numbered, Distinct
<1>3. CASE UNCHANGED <<accepted, sent>>
  BY <1>3 DEF Numbered, Distinct
<1>4. ASSUME NEW s \in Senders, FinishSend(s) PROVE UNCHANGED <<accepted, sent>>
  BY <1>4 DEF FinishSend, LoadDropped, StoreDropped
<1>5. Consume \/ Stop \/ UNCHANGED vars => UNCHANGED <<accepted, sent>>
  BY DEF Consume, Receive, ReceiveClosed, Tick, Flush, Stop, StopClose,
         StopReturn, vars, senderVars
<1> QED
  BY <1>1, <1>2, <1>3, <1>4, <1>5 DEF Next, Send

LEMMA NextStored ==
    IInv /\ Numbered /\ StoredAtMostOnce /\ [Next]_vars => StoredAtMostOnce'
<1> SUFFICES ASSUME IInv, Numbered, StoredAtMostOnce, [Next]_vars
             PROVE  StoredAtMostOnce'
  OBVIOUS
<1>1. CASE Flush
  <2>1. /\ table \in Seq(Entries) /\ flushed \in Seq(Entries)
        /\ batch \in Seq(Entries) /\ ch \in Seq(Entries)
        /\ flushed \o batch \in Seq(Entries)
    BY ConcatProperties DEF IInv, TypeOK
  <2>2. Distinct((flushed \o batch) \o ch)
    BY DEF IInv, InOrderExactlyOnce, Numbered
  <2>3. Distinct(flushed \o batch)
    BY <2>1, <2>2, PrefixDistinct
  <2>4. Distinct(table) /\ PartOf(table, flushed)
    BY DEF StoredAtMostOnce, Distinct, PartOf
  <2>5. /\ Distinct(table \o batch)
        /\ PartOf(table \o batch, flushed \o batch) /\ PartOf(table, flushed \o batch)
    BY <2>1, <2>3, <2>4, StoreBatch
  <2>6. flushed' = flushed \o batch /\ (table' = table \o batch \/ table' = table)
    BY <1>1 DEF Flush, SendBatch
  <2>7. Distinct(table') /\ PartOf(table', flushed')
    BY <2>4, <2>5, <2>6
  <2> QED
    BY <2>7 DEF StoredAtMostOnce, Distinct, PartOf
<1>2. CASE UNCHANGED <<table, flushed>>
  BY <1>2 DEF StoredAtMostOnce
<1>3. ASSUME NEW s \in Senders, Send(s) \/ FinishSend(s)
      PROVE  UNCHANGED <<table, flushed>>
  BY <1>3 DEF Send, FinishSend, Enqueue, Discard, SendOnClosed, LoadDropped,
              StoreDropped, consumerVars
<1>4. Receive \/ ReceiveClosed \/ Tick \/ Stop \/ UNCHANGED vars
        => UNCHANGED <<table, flushed>>
  BY DEF Receive, ReceiveClosed, Tick, Stop, StopClose, StopReturn, vars,
         consumerVars
<1> QED
  BY <1>1, <1>2, <1>3, <1>4 DEF Next, Consume

\* No row is stored twice and none that was not given to flush, however many
\* writes fail in between (pipeline.go 107-150).
THEOREM NoRowTwice == Spec => []StoredAtMostOnce
<1>1. Init => Numbered /\ StoredAtMostOnce
  BY DEF Init, Numbered, Distinct, StoredAtMostOnce
<1>2. IInv /\ Numbered /\ StoredAtMostOnce /\ [Next]_vars
        => Numbered' /\ StoredAtMostOnce'
  BY NextNumbered, NextStored DEF IInv
<1> QED
  BY <1>1, <1>2, Invariance, PTL DEF Spec
=============================================================================
