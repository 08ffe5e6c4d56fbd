---------------------- MODULE GracefulShutdown_proofs ----------------------
(***************************************************************************)
(* Proofs about GracefulShutdown for every set of handlers: whatever the   *)
(* listeners and the shutdown goroutine do, the log pipeline only ever     *)
(* takes steps of its own specification, and main returns only when every  *)
(* handler has ended and every accepted entry has been given to flush.     *)
(***************************************************************************)
EXTENDS GracefulShutdown, LogPipeline_proofs

\* A query in progress keeps its listener from ending.
HandlersHeld ==
    \A h \in Senders : query[h] # "none" => listener[via[h]] \in {"serving", "closing"}

\* The shutdown goroutine goes on to the servers only when Stop has returned.
LogFirst == shutdown \notin {"idle", "stop"} => stop = "stopped"

\* Until Stop has returned no listener is told to end: one is still serving,
\* or none ever was (both failed to bind, or have not yet bound) and so
\* nothing was logged.
ServesOrIdle ==
    \/ stop = "stopped"
    \/ \E l \in Listeners : listener[l] = "serving"
    \/ accepted = <<>> /\ \A h \in Senders : query[h] = "none"

\* main waits for both listeners.
ExitLast == exited => \A l \in Listeners : listener[l] = "stopped"

\* The part of ProcessTypeOK that is not the log's.
ProcessShape ==
    /\ listener \in [Listeners -> {"init", "serving", "closing", "stopped"}]
    /\ query \in [Senders -> {"none", "serving", "answered", "logging"}]
    /\ via \in [Senders -> Listeners]
    /\ shutdown \in {"idle", "stop", "portal", "udp", "udpWait", "tcp",
                     "tcpWait", "done"}
    /\ exited \in BOOLEAN

ProcessInv == ProcessShape /\ HandlersHeld /\ LogFirst /\ ServesOrIdle /\ ExitLast

-----------------------------------------------------------------------------
(* The log inside the process.                                             *)

\* A step of the process is a step of the log pipeline, or leaves it alone.
LEMMA ProcessStep == [ProcessNext]_allVars => [Next]_vars
<1> SUFFICES ASSUME [ProcessNext]_allVars PROVE [Next]_vars
  OBVIOUS
<1>1. ASSUME NEW l \in Listeners,
             Listen(l) \/ ListenFails(l) \/ Drain(l) \/ \E h \in Senders : Accept(l, h)
      PROVE  UNCHANGED vars
  BY <1>1 DEF Listen, ListenFails, Drain, Accept
<1>2. ASSUME NEW h \in Senders, Handle(h) PROVE [Next]_vars
  <2>1. CASE Answer(h) \/ AnswerUnlogged(h) \/ Return(h)
    BY <2>1 DEF Answer, AnswerUnlogged, Return
  <2>2. CASE LogQuery(h) \/ CountDrop(h)
    BY <2>2 DEF LogQuery, CountDrop, Next
  <2> QED
    BY <1>2, <2>1, <2>2 DEF Handle
<1>3. CASE WriteLog
  BY <1>3 DEF WriteLog, Next
<1>4. Signal \/ StopPortal \/ MainReturns => UNCHANGED vars
  BY DEF Signal, StopPortal, MainReturns
<1>5. CASE StopLog
  BY <1>5 DEF StopLog, Next, Stop
<1>6. ASSUME NEW l, NEW at, NEW wait, NEW next, ShutdownServer(l, at, wait, next)
      PROVE  UNCHANGED vars
  BY <1>6 DEF ShutdownServer
<1>7. CASE Terminate
  BY <1>4, <1>5, <1>6, <1>7 DEF Terminate
<1>8. CASE UNCHANGED allVars
  BY <1>8 DEF allVars
<1> QED
  BY <1>1, <1>2, <1>3, <1>4, <1>7, <1>8 DEF ProcessNext

\* What the process does to the variables of the log: an entry is accepted only
\* from a handler that has a query, and a Stop that has returned stays so.
LEMMA ProcessLog ==
    ASSUME [ProcessNext]_allVars
    PROVE  /\ stop = "stopped" => stop' = "stopped"
           /\ accepted' = accepted \/ \E h \in Senders : query[h] # "none"
<1>1. ASSUME NEW h \in Senders, Handle(h)
      PROVE  stop' = stop /\ (accepted' = accepted \/ query[h] # "none")
  <2>1. CASE Answer(h) \/ AnswerUnlogged(h) \/ Return(h)
    BY <2>1 DEF Answer, AnswerUnlogged, Return, vars
  <2>2. CASE LogQuery(h)
    BY <2>2 DEF LogQuery, Send, Enqueue, Discard, SendOnClosed
  <2>3. CASE CountDrop(h)
    BY <2>3 DEF CountDrop, FinishSend, LoadDropped, StoreDropped
  <2> QED
    BY <1>1, <2>1, <2>2, <2>3 DEF Handle
<1>2. CASE WriteLog
  BY <1>2 DEF WriteLog, Consume, Receive, ReceiveClosed, Tick, Flush
<1>3. CASE StopLog
  BY <1>3 DEF StopLog, StopClose, StopReturn
<1>4. UNCHANGED vars => stop' = stop /\ accepted' = accepted
  BY DEF vars
<1>5. ASSUME NEW l \in Listeners,
             Listen(l) \/ ListenFails(l) \/ Drain(l) \/ \E h \in Senders : Accept(l, h)
      PROVE  UNCHANGED vars
  BY <1>5 DEF Listen, ListenFails, Drain, Accept
<1>6. Signal \/ StopPortal \/ MainReturns \/ UNCHANGED allVars => UNCHANGED vars
  BY DEF Signal, StopPortal, MainReturns, allVars
<1>7. ASSUME NEW l, NEW at, NEW wait, NEW next, ShutdownServer(l, at, wait, next)
      PROVE  UNCHANGED vars
  BY <1>7 DEF ShutdownServer
<1> QED
  BY <1>1, <1>2, <1>3, <1>4, <1>5, <1>6, <1>7 DEF ProcessNext, Terminate

-----------------------------------------------------------------------------
(* Preservation, action by action.                                         *)

LEMMA ListenerSteps ==
    ASSUME ProcessInv, NEW l \in Listeners,
           Listen(l) \/ ListenFails(l) \/ Drain(l)
    PROVE  ProcessInv'
<1>1. /\ UNCHANGED <<query, via, shutdown, exited, stop, accepted>> /\ ~exited
      /\ listener[l] \in {"init", "closing"}
  BY DEF Listen, ListenFails, Drain, Up, vars
<1>2. PICK x \in {"serving", "stopped"} : listener' = [listener EXCEPT ![l] = x]
  BY DEF Listen, ListenFails, Drain
<1>3. \A m \in Listeners : listener'[m] = IF m = l THEN x ELSE listener[m]
  BY <1>2 DEF ProcessInv, ProcessShape
<1>4. ProcessShape'
  BY <1>1, <1>2 DEF ProcessInv, ProcessShape
<1>5. HandlersHeld'
  <2> SUFFICES ASSUME NEW h \in Senders, query[h] # "none"
               PROVE  listener'[via[h]] \in {"serving", "closing"}
    BY <1>1 DEF HandlersHeld
  <2>1. listener[via[h]] \in {"serving", "closing"} /\ via[h] \in Listeners
    BY DEF ProcessInv, HandlersHeld, ProcessShape
  <2>2. via[h] # l
    BY <2>1 DEF Listen, ListenFails, Drain
  <2> QED
    BY <1>3, <2>1, <2>2
<1>6. ServesOrIdle'
  BY <1>1, <1>3 DEF ProcessInv, ServesOrIdle
<1>7. LogFirst' /\ ExitLast'
  BY <1>1 DEF ProcessInv, LogFirst, ExitLast
<1> QED
  BY <1>4, <1>5, <1>6, <1>7 DEF ProcessInv

LEMMA AcceptStep ==
    ASSUME ProcessInv, NEW l \in Listeners, NEW h \in Senders, Accept(l, h)
    PROVE  ProcessInv'
<1>1. /\ UNCHANGED <<listener, shutdown, exited, stop, accepted>> /\ ~exited
      /\ listener[l] = "serving"
      /\ query' = [query EXCEPT ![h] = "serving"]
      /\ via' = [via EXCEPT ![h] = l]
  BY DEF Accept, Up, vars
<1>2. ProcessShape'
  BY <1>1 DEF ProcessInv, ProcessShape
<1>3. \A g \in Senders : /\ via'[g] = IF g = h THEN l ELSE via[g]
                         /\ query'[g] = IF g = h THEN "serving" ELSE query[g]
  BY <1>1 DEF ProcessInv, ProcessShape
<1>4. HandlersHeld'
  BY <1>1, <1>3 DEF ProcessInv, HandlersHeld
<1>5. LogFirst' /\ ServesOrIdle' /\ ExitLast'
  BY <1>1 DEF ProcessInv, LogFirst, ServesOrIdle, ExitLast
<1> QED
  BY <1>2, <1>4, <1>5 DEF ProcessInv

LEMMA HandleSteps ==
    ASSUME ProcessInv, [ProcessNext]_allVars,
           NEW h \in Senders, Handle(h)
    PROVE  ProcessInv'
<1>1. UNCHANGED <<listener, via, shutdown, exited>> /\ ~exited
  BY DEF Handle, Answer, AnswerUnlogged, LogQuery, CountDrop, Return, Up, processVars
<1>2. \/ UNCHANGED query
      \/ /\ query[h] # "none"
         /\ \E x \in {"none", "answered", "logging"} : query' = [query EXCEPT ![h] = x]
  BY DEF Handle, Answer, AnswerUnlogged, LogQuery, CountDrop, Return, processVars
<1>3. ProcessShape'
  BY <1>1, <1>2 DEF ProcessInv, ProcessShape
<1>4. \A g \in Senders : query'[g] # "none" => query[g] # "none"
  BY <1>2 DEF ProcessInv, ProcessShape
<1>5. HandlersHeld'
  BY <1>1, <1>4 DEF ProcessInv, HandlersHeld
<1>6. LogFirst' /\ ServesOrIdle'
  BY <1>1, <1>4, ProcessLog DEF ProcessInv, LogFirst, ServesOrIdle
<1>7. ExitLast'
  BY <1>1 DEF ExitLast
<1> QED
  BY <1>3, <1>5, <1>6, <1>7 DEF ProcessInv

\* server.Shutdown for one listener, once Stop has returned.
LEMMA ShutdownStep ==
    ASSUME ProcessInv, NEW l \in Listeners,
           NEW at \in {"udp", "tcp"}, NEW wait \in {"udpWait", "tcpWait"},
           NEW next \in {"tcp", "done"}, ShutdownServer(l, at, wait, next)
    PROVE  ProcessInv'
<1>1. /\ UNCHANGED <<query, via, exited, stop, accepted>> /\ ~exited
      /\ shutdown \in {at, wait} /\ shutdown' \in {wait, next}
  BY DEF ShutdownServer, Up, vars
<1>2. \/ UNCHANGED listener
      \/ listener[l] = "serving" /\ listener' = [listener EXCEPT ![l] = "closing"]
  BY DEF ShutdownServer
<1>3. stop = "stopped"
  BY <1>1 DEF ProcessInv, LogFirst
<1>4. ProcessShape'
  BY <1>1, <1>2 DEF ProcessInv, ProcessShape
<1>5. \A m \in Listeners : \/ listener'[m] = listener[m]
                           \/ listener'[m] = "closing"
  BY <1>2 DEF ProcessInv, ProcessShape
<1>6. HandlersHeld'
  BY <1>1, <1>5 DEF ProcessInv, HandlersHeld, ProcessShape
<1>7. LogFirst' /\ ServesOrIdle' /\ ExitLast'
  BY <1>1, <1>3 DEF LogFirst, ServesOrIdle, ExitLast
<1> QED
  BY <1>4, <1>6, <1>7 DEF ProcessInv

LEMMA NextProcessInv == ProcessInv /\ [ProcessNext]_allVars => ProcessInv'
<1> SUFFICES ASSUME ProcessInv, [ProcessNext]_allVars PROVE ProcessInv'
  OBVIOUS
<1>1. ASSUME NEW l \in Listeners,
             Listen(l) \/ ListenFails(l) \/ Drain(l) \/ \E h \in Senders : Accept(l, h)
      PROVE  ProcessInv'
  BY <1>1, ListenerSteps, AcceptStep
<1>2. ASSUME NEW h \in Senders, Handle(h) PROVE ProcessInv'
  BY <1>2, HandleSteps
<1>3. CASE WriteLog \/ UNCHANGED allVars
  <2>1. UNCHANGED processVars /\ stop' = stop /\ accepted' = accepted
    BY <1>3 DEF WriteLog, allVars, vars, Consume, Receive, ReceiveClosed, Tick, Flush
  <2> QED
    BY <2>1 DEF processVars, ProcessInv, ProcessShape, HandlersHeld, LogFirst,
                      ServesOrIdle, ExitLast
<1>4. CASE Signal \/ StopPortal
  <2>1. /\ UNCHANGED <<listener, query, via, exited, stop, accepted>>
        /\ \/ shutdown' = "stop"
           \/ shutdown = "portal" /\ shutdown' = "udp"
    BY <1>4 DEF Signal, StopPortal, vars
  <2> QED
    BY <2>1 DEF ProcessInv, ProcessShape, HandlersHeld, LogFirst, ServesOrIdle,
                      ExitLast
<1>5. CASE StopLog
  <2>1. /\ UNCHANGED <<listener, query, via, exited, accepted>>
        /\ \/ shutdown = "stop" /\ shutdown' = "stop" /\ stop # "stopped"
           \/ shutdown' = "portal" /\ stop' = "stopped"
    BY <1>5 DEF StopLog, StopClose, StopReturn
  <2> QED
    BY <2>1 DEF ProcessInv, ProcessShape, HandlersHeld, LogFirst, ServesOrIdle,
                      ExitLast
<1>6. CASE Terminate
  BY <1>4, <1>5, <1>6, ShutdownStep DEF Terminate, Listeners
<1>7. CASE MainReturns
  <2>1. /\ UNCHANGED <<listener, query, via, shutdown, stop, accepted>> /\ exited' = TRUE
        /\ \A l \in Listeners : listener[l] = "stopped"
    BY <1>7 DEF MainReturns, vars
  <2> QED
    BY <2>1 DEF ProcessInv, ProcessShape, HandlersHeld, LogFirst, ServesOrIdle,
                      ExitLast
<1> QED
  BY <1>1, <1>2, <1>3, <1>4, <1>6, <1>7 DEF ProcessNext

-----------------------------------------------------------------------------
(* Theorems.                                                               *)

LEMMA ProcessInvHolds == ProcessSpec => []ProcessInv
<1>1. ProcessInit => ProcessInv
  <2> SUFFICES ASSUME ProcessInit PROVE ProcessInv
    OBVIOUS
  <2>1. ProcessShape
    BY DEF ProcessInit, ProcessShape, Listeners
  <2>2. HandlersHeld /\ LogFirst /\ ServesOrIdle /\ ExitLast
    BY DEF ProcessInit, Init, HandlersHeld, LogFirst, ServesOrIdle, ExitLast
  <2> QED
    BY <2>1, <2>2 DEF ProcessInv
<1> QED
  BY <1>1, NextProcessInv, PTL DEF ProcessSpec

\* The process runs the log pipeline as LogPipeline specifies it, so what is
\* proved of the pipeline alone holds inside the process.
THEOREM ProcessRunsLog == ProcessSpec => Spec
<1>1. ProcessInit => Init
  BY DEF ProcessInit
<1> QED
  BY <1>1, ProcessStep, PTL DEF ProcessSpec, Spec

\* The process keeps its variables and the log's in their types and limits.
THEOREM ProcessTypeCorrect == ProcessSpec => []ProcessTypeOK
<1>1. ProcessInv /\ TypeOK => ProcessTypeOK
  BY DEF ProcessInv, ProcessShape, HandlersHeld, ProcessTypeOK
<1> QED
  BY ProcessInvHolds, ProcessRunsLog, TypeCorrect, <1>1, PTL

\* When main returns no handler is working and every accepted log entry has
\* been given to flush: the order logPipeline.Stop, server.Shutdown is enough
\* (main.go, the shutdown goroutine).
THEOREM MainLosesNothing == ProcessSpec => []CleanExit
<1>1. ProcessInv /\ IInv => CleanExit
  <2> SUFFICES ASSUME ProcessInv, IInv, exited
               PROVE  (\A h \in Senders : query[h] = "none") /\ flushed = accepted
    BY DEF CleanExit
  <2>1. \A h \in Senders : query[h] = "none"
    BY DEF ProcessInv, ProcessShape, ExitLast, HandlersHeld
  <2>2. /\ flushed \in Seq(Entries) /\ batch \in Seq(Entries) /\ ch \in Seq(Entries)
        /\ accepted = (flushed \o batch) \o ch
    BY DEF IInv, TypeOK, InOrderExactlyOnce
  <2>3. CASE stop = "stopped"
    <3>1. ch = <<>> /\ batch = <<>>
      BY <2>3 DEF IInv, Closing
    <3> QED
      BY <2>1, <2>2, <3>1, ConcatEmptySeq
  <2>4. CASE stop # "stopped"
    <3>1. accepted = <<>>
      BY <2>4 DEF ProcessInv, ServesOrIdle, ExitLast
    <3>2. flushed \o batch \in Seq(Entries) /\ Len(flushed \o batch) = Len(flushed) + Len(batch)
      BY <2>2, ConcatProperties
    <3>3. Len(accepted) = Len(flushed) + Len(batch) + Len(ch)
      BY <2>2, <3>2, ConcatProperties
    <3>4. Len(flushed) = 0
      BY <2>2, <3>1, <3>3
    <3> QED
      BY <2>1, <2>2, <3>1, <3>4
  <2> QED
    BY <2>3, <2>4
<1> QED
  BY ProcessInvHolds, ProcessRunsLog, Invariance, <1>1, PTL
=============================================================================
