-------------------------- MODULE GracefulShutdown --------------------------
(***************************************************************************)
(* The life of the process, composed from the query log (LogPipeline), the *)
(* UDP and TCP listeners of internal/dns/server.go, the handler goroutines *)
(* they spawn, and the shutdown goroutine of cmd/dnsfilter/main.go, which  *)
(* on SIGINT or SIGTERM calls logPipeline.Stop, portal.Shutdown and        *)
(* server.Shutdown in that order.                                          *)
(*                                                                         *)
(* A handler slot h of Senders stands for one handler goroutine at a time: *)
(* it serves a query, answers it and logs it (ServeDNS), then is free.     *)
(***************************************************************************)
EXTENDS LogPipeline

VARIABLES
    listener,  \* listener[l]: state of a miekg/dns server
    query,     \* query[h]: how far handler h is with its query
    via,       \* via[h]: the listener that spawned handler h
    shutdown,  \* where the shutdown goroutine is
    exited     \* main has returned from server.Start

processVars == <<listener, query, via, shutdown, exited>>
allVars == <<vars, processVars>>

Listeners == {"udp", "tcp"}

\* Types, and a query only where its listener has not ended.
ProcessTypeOK ==
    /\ TypeOK
    /\ listener \in [Listeners -> {"init", "serving", "closing", "stopped"}]
    /\ query \in [Senders -> {"none", "serving", "answered", "logging"}]
    /\ via \in [Senders -> Listeners]
    /\ \A h \in Senders : query[h] # "none" => listener[via[h]] \in {"serving", "closing"}
    /\ shutdown \in {"idle", "stop", "portal", "udp", "udpWait", "tcp",
                     "tcpWait", "done"}
    /\ exited \in BOOLEAN

ProcessInit ==
    /\ Init
    /\ listener = [l \in Listeners |-> "init"]
    /\ query = [h \in Senders |-> "none"]
    /\ via = [h \in Senders |-> "udp"]
    /\ shutdown = "idle"
    /\ exited = FALSE

\* The process runs until main returns or a goroutine panics.
Up == ~exited /\ ~panicked

-----------------------------------------------------------------------------
(* server.Start: both listeners, each in its own goroutine.                *)

Listen(l) ==
    /\ Up
    /\ listener[l] = "init"
    /\ listener' = [listener EXCEPT ![l] = "serving"]
    /\ UNCHANGED <<vars, query, via, shutdown, exited>>

\* ListenAndServe fails to bind: its goroutine ends, the other one goes on.
ListenFails(l) ==
    /\ Up
    /\ listener[l] = "init"
    /\ listener' = [listener EXCEPT ![l] = "stopped"]
    /\ UNCHANGED <<vars, query, via, shutdown, exited>>

\* A query arrives and gets a handler goroutine.
Accept(l, h) ==
    /\ Up
    /\ listener[l] = "serving"
    /\ query[h] = "none"
    /\ sent[h] < MaxSends
    /\ query' = [query EXCEPT ![h] = "serving"]
    /\ via' = [via EXCEPT ![h] = l]
    /\ UNCHANGED <<vars, listener, shutdown, exited>>

\* miekg/dns: once told to stop, a server ends when its handlers have ended.
Drain(l) ==
    /\ Up
    /\ listener[l] = "closing"
    /\ \A h \in Senders : query[h] = "none" \/ via[h] # l
    /\ listener' = [listener EXCEPT ![l] = "stopped"]
    /\ UNCHANGED <<vars, query, via, shutdown, exited>>

\* wg.Wait in server.Start returns, and with it main.
MainReturns ==
    /\ Up
    /\ \A l \in Listeners : listener[l] = "stopped"
    /\ exited' = TRUE
    /\ UNCHANGED <<vars, listener, query, via, shutdown>>

-----------------------------------------------------------------------------
(* ServeDNS, seen from the log: answer, then log, then return.             *)

\* The reply is written (captive, blocked, cached or resolved) and will be logged.
Answer(h) ==
    /\ Up
    /\ query[h] = "serving"
    /\ query' = [query EXCEPT ![h] = "answered"]
    /\ UNCHANGED <<vars, listener, via, shutdown, exited>>

\* Identity or upstream error: SERVFAIL is written and the handler returns
\* without logging; a message without a question returns at once.
AnswerUnlogged(h) ==
    /\ Up
    /\ query[h] = "serving"
    /\ query' = [query EXCEPT ![h] = "none"]
    /\ UNCHANGED <<vars, listener, via, shutdown, exited>>

\* h.log calls Send, which queues, drops or panics.
LogQuery(h) ==
    /\ Up
    /\ query[h] = "answered"
    /\ Send(h)
    /\ query' = [query EXCEPT ![h] = "logging"]
    /\ UNCHANGED <<listener, via, shutdown, exited>>

CountDrop(h) ==
    /\ Up
    /\ FinishSend(h)
    /\ UNCHANGED processVars

Return(h) ==
    /\ Up
    /\ query[h] = "logging"
    /\ sender[h] = "idle"
    /\ query' = [query EXCEPT ![h] = "none"]
    /\ UNCHANGED <<vars, listener, via, shutdown, exited>>

Handle(h) == Answer(h) \/ AnswerUnlogged(h) \/ LogQuery(h) \/ CountDrop(h) \/ Return(h)

WriteLog == Up /\ Consume /\ UNCHANGED processVars

-----------------------------------------------------------------------------
(* The shutdown goroutine.                                                 *)

\* Variant of Signal that begins with server.Shutdown and never waits for the log.
Signal_ServerFirst ==
    /\ Up
    /\ shutdown = "idle"
    /\ shutdown' = "udp"
    /\ UNCHANGED <<vars, listener, query, via, exited>>

\* SIGINT or SIGTERM.
Signal ==
    /\ Up
    /\ shutdown = "idle"
    /\ shutdown' = "stop"
    /\ UNCHANGED <<vars, listener, query, via, exited>>

\* logPipeline.Stop: close the channel, wait for the consumer.
StopLog ==
    /\ Up
    /\ shutdown = "stop"
    /\ \/ StopClose /\ UNCHANGED shutdown
       \/ StopReturn /\ shutdown' = "portal"
    /\ UNCHANGED <<listener, query, via, exited>>

\* portal.Shutdown returns after at most five seconds.
StopPortal ==
    /\ Up
    /\ shutdown = "portal"
    /\ shutdown' = "udp"
    /\ UNCHANGED <<vars, listener, query, via, exited>>

\* Variant of ShutdownServer that closes the socket and waits for nobody.
ShutdownServer_NoWait(l, at, wait, next) ==
    /\ Up
    /\ shutdown = at
    /\ listener' = [listener EXCEPT ![l] = "stopped"]
    /\ shutdown' = next
    /\ UNCHANGED <<vars, query, via, exited>>

\* s.udp.Shutdown or s.tcp.Shutdown: a server that is not started returns an
\* error, which is ignored; otherwise it stops accepting and Shutdown waits.
ShutdownServer(l, at, wait, next) ==
    /\ Up
    /\ \/ /\ shutdown = at
          /\ listener[l] = "serving"
          /\ listener' = [listener EXCEPT ![l] = "closing"]
          /\ shutdown' = wait
       \/ /\ shutdown = at
          /\ listener[l] # "serving"
          /\ shutdown' = next
          /\ UNCHANGED listener
       \/ /\ shutdown = wait
          /\ listener[l] = "stopped"
          /\ shutdown' = next
          /\ UNCHANGED listener
    /\ UNCHANGED <<vars, query, via, exited>>

\* Variant of Terminate in which server.Shutdown forgets the TCP server.
Terminate_UdpOnly ==
    \/ StopLog
    \/ StopPortal
    \/ ShutdownServer("udp", "udp", "udpWait", "done")

Terminate ==
    \/ StopLog
    \/ StopPortal
    \/ ShutdownServer("udp", "udp", "udpWait", "tcp")
    \/ ShutdownServer("tcp", "tcp", "tcpWait", "done")

-----------------------------------------------------------------------------

ProcessNext ==
    \/ \E l \in Listeners :
        Listen(l) \/ ListenFails(l) \/ Drain(l) \/ \E h \in Senders : Accept(l, h)
    \/ \E h \in Senders : Handle(h)
    \/ WriteLog
    \/ Signal
    \/ Terminate
    \/ MainReturns

\* Handlers finish (upstream exchanges time out after five seconds), the
\* consumer runs, and the shutdown goroutine is blocked only where the code
\* waits.  Queries and signals need never come.
ProcessFairness ==
    /\ \A h \in Senders : WF_allVars(Handle(h))
    /\ \A l \in Listeners : WF_allVars(Drain(l))
    /\ WF_allVars(WriteLog)
    /\ WF_allVars(Terminate)
    /\ WF_allVars(MainReturns)

ProcessSpec == ProcessInit /\ [][ProcessNext]_allVars /\ ProcessFairness

-----------------------------------------------------------------------------

\* If main returns at all, it has lost nothing: no handler is still working,
\* and every log entry the channel accepted has been given to flush.  main waits
\* only for the listeners, so this rests on the order of the shutdown calls.
CleanExit ==
    exited => /\ \A h \in Senders : query[h] = "none"
              /\ flushed = accepted

\* A signal that finds both listeners serving ends the process: no step of the
\* shutdown waits for something that waits for it.
SignalEnds ==
    (shutdown = "stop" /\ \A l \in Listeners : listener[l] = "serving")
        ~> (exited \/ panicked)

\* docs/REQUIREMENTS.md, RNF02.4: on SIGTERM, finish the queries in progress
\* before ending.  When the process is gone, every query has its answer.
QueriesFinishBeforeEnd ==
    exited \/ panicked => \A h \in Senders : query[h] # "serving"
=============================================================================
