---------------------------- MODULE ServerShutdown ----------------------------
(***************************************************************************)
(* Accepting clients, tearing them down through the thread pool, the       *)
(* keep-alive scan, and the graceful-shutdown sequencer that               *)
(* ConnectionsManager::DoPeriodicActivities advances on every tick         *)
(* (LocalClientsManager.cpp, ClientsPool.cpp, ConnectionsManager.cpp).     *)
(*                                                                         *)
(* A client's requests and responses are abstracted to two flags, the      *)
(* pool's two counters being non-zero; the send pipeline itself is the     *)
(* subject of ResponsePipeline.  A peer server's connection goes through   *)
(* resolution, connect, close and retry as PeerConnection models it, less  *)
(* the synchronous failures of uv_getaddrinfo and uv_tcp_connect (the      *)
(* subject of PeerConnection) and a failing asynchronous resolution; its   *)
(* forwarded responses are one batch per peer, queued before shutdown.     *)
(*                                                                         *)
(* Event-loop callbacks are atomic steps.  The thread-pool work items      *)
(* (disconnection_processing_thread, send_keepalive_thread) are split      *)
(* where they look a request processor up and where they use it, because  *)
(* the event loop may delete the processors in between.                    *)
(*                                                                         *)
(* The libuv thread pool has a fixed set of threads taking work items in   *)
(* the order they were queued.  StartServer queues the logger's and the    *)
(* file writer's work items before the server listens; both loop until     *)
(* shutdown tells them to stop, so they hold two threads for as long as    *)
(* clients can be served.  A thread running request or disconnection work *)
(* claims the next index of ThreadIndexCounter once (thread-local          *)
(* m_ThreadIndex) and uses the processors m_RequestProcessors holds for    *)
(* that index.  Request work is one step on its thread.                    *)
(***************************************************************************)
EXTENDS Integers, FiniteSets

CONSTANTS
    Clients,    \* connections that may arrive (model values)
    Peers,      \* peer servers (model values)
    MaxStops,   \* bound: times Ctrl+S is pressed
    Threads,    \* the thread pool's threads (model values)
    MaxRequestProcessingThreads, \* CommonParameters::MaxRequestProcessingThreads
    ConnectOutlivesWait \* a resolution or connect may last longer than
                        \* WAIT_FOR_CONNECTION (Pulsar.h: 150 seconds)

\* CommonComponents' constructor: uv_set_threadpool_size, one thread for the
\* logger and one for the file writer besides the request-processing ones.
ThreadPoolSize == MaxRequestProcessingThreads + 1 + 1

ASSUME
    /\ MaxRequestProcessingThreads \in Nat \ {0}
    /\ Cardinality(Threads) = ThreadPoolSize
    /\ ConnectOutlivesWait \in BOOLEAN

VARIABLES
    cstate,       \* client -> "ABSENT", "POOL", "QUEUED", "PROCESSING",
                  \*           "WORKED", "CLOSING", "CLOSED", "REJECTED"
    marked,       \* client -> m_bToBeDisconnected
    req,          \* client -> a request is counted in the pool
    resp,         \* client -> a response is counted in the pool
    versioned,    \* client -> m_Version set by a first request
    qd,           \* QueuedDisconnections
    closing,      \* m_ClientsClosing
    listen,       \* m_tcp_server: "LISTENING", "CLOSING", "CLOSED"
    shuttingDown, \* ClientsPool::m_bIsServerShuttingDown
    initiated,    \* InitiateServerShutdown's static bShutdownInitiated
    stops,        \* times InitiateServerShutdown ran
    allDisc,      \* m_bAllClientsDisconnectedForShutdown
    procs,        \* request processors: "ALIVE" or "DELETED"
    ka,           \* m_keep_alive_work_t: "IDLE", "QUEUED", "VERSIONED", "NEXT",
                  \*   "VERSIONLESS", "DONE"
    kaSet,        \* idle clients the keep-alive scan found
    peer,         \* peer -> stPeerServer::Status: "DISCONNECTED", "RESOLVING"
                  \*   (CONNECTING, uv_getaddrinfo pending), "CONNECTING"
                  \*   (uv_tcp_connect pending), "CONNECTED", "CLOSING"
                  \*   (DISCONNECTING, uv_close pending)
    aged,         \* peer -> RETRY_CONNECTION_AFTER has passed since its
                  \*   DisconnectedTime, or WAIT_FOR_CONNECTION since its
                  \*   ConnectingTime
    fwd,          \* peer -> its forwarded responses: "NONE", "QUEUED" (in
                  \*   its queue) or "SENDING" (in m_pResponsesBeingSent)
    serversClosing, \* PeerServersManager::m_ServersClosing
    peersClosed,  \* static bConnectionsDisconnectedAndClosed
    phase         \* "RUNNING", "STDIN_CLOSING", "TIMER_CLOSING", "STOPPED"

\* The thread pool, the logger and the file writer.
VARIABLES
    processed,    \* client -> its request's work: "NO" (not run), "DONE", or
                  \*           "MEMEXC" (done with the memory-exception flag)
    thread,       \* thread -> "IDLE", "LOG", "FW", "KA", or the client whose
                  \*           disconnection work it runs
    tidx,         \* thread -> m_ThreadIndex (-1 until claimed)
    counter,      \* LocalClientsManager::ThreadIndexCounter
    logger,       \* log work item: "QUEUED", "RUNNING", "EXITED", "STOPPED"
    writer,       \* file-writing work item: the same
    logStop,      \* Logger::m_bStopLoggerThread
    fwStop,       \* WriteToFile::m_bStopFileWritingThread
    kaAhead       \* clients whose work item was queued before the keep-alive's

PoolVars == <<processed, thread, tidx, counter, logger, writer, logStop, fwStop,
             kaAhead>>

vars == <<cstate, marked, req, resp, versioned, qd, closing, listen,
          shuttingDown, initiated, stops, allDisc, procs, ka, kaSet, peer, aged, fwd,
          serversClosing, peersClosed, phase, PoolVars>>

Pool == {c \in Clients : cstate[c] = "POOL"}

\* ClientsPool::GetClients: DisconnectAllClients' snapshot of the pool.
GetClients == Pool

\* ClientsPool::AddClient refuses every client once shutdown is initiated;
\* otherwise it fails only on bad_alloc (an outcome of on_new_client).
AddClient == ~shuttingDown

\* ClientsPool::IncreaseCountForClient counts a request or response only for
\* a client still in the pool and not marked (stClient::IsMarkedToDisconnect).
IncreaseCountForClient(c) == c \in Pool /\ ~marked[c]

\* ClientsPool::DecreaseCountForClient on the counter f (zero or one here).
DecreaseCountForClient(f, c) == [f EXCEPT ![c] = FALSE]

\* Disconnection work queued on the thread pool and not yet completed.
InDisconnection == {c \in Clients : cstate[c] \in {"QUEUED", "PROCESSING", "WORKED"}}

Init ==
    /\ cstate = [c \in Clients |-> "ABSENT"]
    /\ marked = [c \in Clients |-> FALSE]
    /\ req = [c \in Clients |-> FALSE]
    /\ resp = [c \in Clients |-> FALSE]
    /\ versioned = [c \in Clients |-> FALSE]
    /\ qd = 0 /\ closing = 0
    /\ listen = "LISTENING"
    /\ shuttingDown = FALSE /\ initiated = FALSE /\ stops = 0
    /\ allDisc = FALSE
    /\ procs = "ALIVE"
    /\ ka = "IDLE" /\ kaSet = {}
    \* A peer disconnected not long ago, with forwards for it queued.  A
    \* peer starts UNINITIATED, which GetServerConnection treats as one
    \* disconnected for long: TimePasses leads there.
    /\ peer = [p \in Peers |-> "DISCONNECTED"]
    /\ aged = [p \in Peers |-> FALSE]
    /\ fwd = [p \in Peers |-> "QUEUED"]
    /\ serversClosing = 0 /\ peersClosed = FALSE
    /\ phase = "RUNNING"
    /\ processed = [c \in Clients |-> "NO"]
    /\ thread = [t \in Threads |-> "IDLE"]
    /\ tidx = [t \in Threads |-> -1]
    /\ counter = 0
    /\ logger = "QUEUED" /\ writer = "QUEUED"
    /\ logStop = FALSE /\ fwStop = FALSE
    /\ kaAhead = {}
-----------------------------------------------------------------------------
\* Clients whose pool counters are not both zero.
Busy(rq, rs) == {c \in Clients : rq[c] \/ rs[c]}
\* Mutant: the pool is left without checking the client's counters.
DisconnectAndDelete_NoBusyCheck(S, m, b) ==
    LET T == S \cap Pool
    IN  /\ marked' = [c \in Clients |-> m[c] \/ c \in T]
        /\ cstate' = [c \in Clients |-> IF c \in T THEN "QUEUED" ELSE cstate[c]]
        /\ qd' = qd + Cardinality(T)


\* LocalClientsManager::DisconnectAndDelete for the clients S, given the
\* marks m and the busy clients b as the caller leaves them.  A client whose
\* disconnection was already initiated is left alone (m_bDisconnectInitiated);
\* the others are marked and read no more; one with no request or response
\* counted is removed from the pool (ClientsPool::RemoveClient) and its
\* disconnection work queued (QueuedDisconnections++).
DisconnectAndDelete(S, m, b) ==
    LET T == S \cap Pool
        R == T \ b
    IN  /\ marked' = [c \in Clients |-> m[c] \/ c \in T]
        /\ cstate' = [c \in Clients |-> IF c \in R THEN "QUEUED" ELSE cstate[c]]
        /\ qd' = qd + Cardinality(R)

ShutdownVars == <<listen, shuttingDown, initiated, stops, allDisc, procs,
                  peer, aged, fwd, serversClosing, peersClosed, phase>>

ClientVars == <<marked, req, resp, versioned>>

\* on_new_client -> new stClient, AcceptConnection, ClientsPool::AddClient.
\* The listening socket calls back only until InitiateServerShutdown closes
\* it.  outcome: "NOCLIENT" (bad_alloc or ClientCreationException: the
\* connection is abandoned), "NOTACCEPTED" (uv_accept fails: the object is
\* deleted), "NOTADDED" (setsockopt, uv_read_start or AddClient fails after
\* uv_accept: DisconnectAndDelete of a client not in the pool queues its
\* disconnection at once) or "ADDED".
on_new_client(c, outcome) ==
    /\ listen = "LISTENING"
    /\ cstate[c] = "ABSENT"
    /\ CASE outcome = "ADDED" ->
              /\ AddClient
              /\ cstate' = [cstate EXCEPT ![c] = "POOL"]
              /\ UNCHANGED <<marked, qd>>
         [] outcome = "NOTADDED" ->
              /\ cstate' = [cstate EXCEPT ![c] = "QUEUED"]
              /\ marked' = [marked EXCEPT ![c] = TRUE]
              /\ qd' = qd + 1
         [] outcome \in {"NOCLIENT", "NOTACCEPTED"} ->
              /\ cstate' = [cstate EXCEPT ![c] = "REJECTED"]
              /\ UNCHANGED <<marked, qd>>
    /\ UNCHANGED <<req, resp, versioned, closing, ka, kaSet, ShutdownVars, PoolVars>>

\* on_read delivers a frame: CreateRequestAndQueue counts the request in the
\* pool and the first one sets the client's version.  Bytes are ignored once
\* shutdown is initiated or the client is marked; a client processes one
\* request at a time.
CreateRequestAndQueue(c) ==
    /\ IncreaseCountForClient(c) /\ ~shuttingDown /\ ~req[c]
    /\ req' = [req EXCEPT ![c] = TRUE]
    /\ versioned' = [versioned EXCEPT ![c] = TRUE]
    /\ UNCHANGED <<cstate, marked, resp, qd, closing, ka, kaSet, ShutdownVars, PoolVars>>

\* Mutant: the file writer's work item is queued after the server listens.
PoolServesClients_WriterAfterListen == logger # "QUEUED"

\* StartServer queues the logger's work (Logger::Start) and then the file
\* writer's (WriteToFile's constructor) before StartListening, and the pool
\* takes work in queue order: no client's work is taken before both.
PoolServesClients == logger # "QUEUED" /\ writer # "QUEUED"

\* The thread's m_ThreadIndex: claimed from ThreadIndexCounter the first time
\* the thread runs request or disconnection work, kept afterwards.
ClaimIndex(t) ==
    /\ tidx' = [tidx EXCEPT ![t] = IF @ = -1 THEN counter ELSE @]
    /\ counter' = IF tidx[t] = -1 THEN counter + 1 ELSE counter

\* The index the thread runs with once ClaimIndex is taken.
IndexOf(t) == IF tidx[t] = -1 THEN counter ELSE tidx[t]

\* InitiateRequestProcessorsAndValidateParameters fills m_RequestProcessors[i]
\* for i in 0..MaxRequestProcessingThreads-1; GetRequestProcessor returns NULL
\* for any other index and once DeleteRequestProcessors cleared the maps.
GetRequestProcessor(i) ==
    /\ procs = "ALIVE"
    /\ i \in 0..(MaxRequestProcessingThreads - 1)

IdleThreads == {t \in Threads : thread[t] = "IDLE"}

\* The idle threads a work item may be taken by.  Idle threads that have
\* not claimed a thread index are in the same state and nothing tells them
\* apart, so one of them stands for all.
TakingThreads ==
    LET fresh == {t \in IdleThreads : tidx[t] = -1}
    IN  (IdleThreads \ fresh) \cup (IF fresh = {} THEN {} ELSE {CHOOSE t \in fresh : TRUE})

\* request_processing_thread on the pool thread t: the thread index is
\* claimed, the processor looked up and, unless shutdown was initiated,
\* ProcessRequest run; without a processor the request is not processed.
\* ProcessRequest may store a response for its client (StoreMessage counts
\* it only for a client still in the pool and not marked) and may hit a
\* memory exception, which flags the request.
request_processing_thread(c, t, responded, memExc) ==
    LET ran == GetRequestProcessor(IndexOf(t)) /\ ~shuttingDown
    IN  /\ req[c] /\ processed[c] = "NO"
        /\ PoolServesClients /\ t \in TakingThreads
        /\ (responded \/ memExc) => ran
        /\ ClaimIndex(t)
        /\ resp' = [resp EXCEPT ![c] = @ \/ (responded /\ IncreaseCountForClient(c))]
        /\ processed' = [processed EXCEPT ![c] = IF memExc THEN "MEMEXC" ELSE "DONE"]
        /\ kaAhead' = kaAhead \ {c}
        /\ UNCHANGED <<cstate, marked, req, versioned, qd, closing, ka, kaSet,
                       ShutdownVars, thread, logger, writer, logStop, fwStop>>

\* after_request_processing_thread runs on the loop: a memory exception
\* marks the client (MarkToDisconnect), the request is counted off
\* (DecreaseCountForClient) and a marked client is DisconnectAndDelete'd.
\* (Deferral and the send queues are the subject of ResponsePipeline.)
after_request_processing_thread(c) ==
    /\ req[c] /\ processed[c] # "NO"
    /\ processed' = [processed EXCEPT ![c] = "NO"]
    /\ LET m  == [marked EXCEPT ![c] = @ \/ processed[c] = "MEMEXC"]
           rq == DecreaseCountForClient(req, c)
       IN  /\ req' = rq
           /\ DisconnectAndDelete(IF m[c] THEN {c} ELSE {}, m, Busy(rq, resp))
    /\ UNCHANGED <<resp, versioned, closing, ka, kaSet, ShutdownVars,
                   thread, tidx, counter, logger, writer, logStop, fwStop, kaAhead>>

\* on_read with an error or EOF: DisconnectAndDelete.
on_read_error(c) ==
    /\ c \in Pool /\ ~marked[c]
    /\ DisconnectAndDelete({c}, marked, Busy(req, resp))
    /\ UNCHANGED <<req, resp, versioned, closing, ka, kaSet, ShutdownVars, PoolVars>>

\* after_send_responses for the client's responses: a failed write marks it,
\* the responses are counted off, and a marked client is DisconnectAndDelete'd.
after_send_responses(c, ok) ==
    /\ resp[c]
    /\ LET m  == [marked EXCEPT ![c] = @ \/ ~ok]
           rs == DecreaseCountForClient(resp, c)
       IN  /\ resp' = rs
           /\ DisconnectAndDelete(IF m[c] THEN {c} ELSE {}, m, Busy(req, rs))
    /\ UNCHANGED <<req, versioned, closing, ka, kaSet, ShutdownVars, PoolVars>>

\* read_stdin reads Ctrl+S: ConnectionsManager::StopServer ->
\* LocalClientsManager::InitiateServerShutdown.  The first call closes the
\* listening socket; every call sets the pool's shutting-down flag and
\* DisconnectAndDelete's the clients in the pool (DisconnectAllClients); an
\* empty pool sets m_bAllClientsDisconnectedForShutdown at once.
InitiateServerShutdown ==
    /\ phase = "RUNNING" /\ stops < MaxStops
    /\ listen' = IF initiated THEN listen ELSE "CLOSING"
    /\ shuttingDown' = TRUE
    /\ DisconnectAndDelete(GetClients, marked, Busy(req, resp))
    /\ allDisc' = (allDisc \/ Pool = {})
    /\ initiated' = TRUE
    /\ stops' = stops + 1
    /\ UNCHANGED <<req, resp, versioned, closing, procs, ka, kaSet, peer, aged, fwd,
                   serversClosing, peersClosed, phase, PoolVars>>

\* on_server_stopped: the listening socket's close callback.
on_server_stopped ==
    /\ listen = "CLOSING"
    /\ listen' = "CLOSED"
    /\ UNCHANGED <<cstate, marked, req, resp, versioned, qd, closing, ka, kaSet,
                   shuttingDown, initiated, stops, allDisc, procs, peer, aged, fwd,
                   serversClosing, peersClosed, phase, PoolVars>>

\* disconnection_processing_thread on the pool thread t, up to
\* GetRequestProcessor: a client that never sent a request has no version
\* and returns at once; otherwise the thread index is claimed and the
\* processor looked up, and with none (the maps cleared) ProcessDisconnection
\* is skipped.  With a processor the thread stays busy with the client.
disconnection_processing_thread(c, t) ==
    /\ cstate[c] = "QUEUED"
    /\ PoolServesClients /\ t \in TakingThreads
    /\ IF versioned[c]
       THEN /\ ClaimIndex(t)
            /\ IF GetRequestProcessor(IndexOf(t))
               THEN /\ cstate' = [cstate EXCEPT ![c] = "PROCESSING"]
                    /\ thread' = [thread EXCEPT ![t] = c]
               ELSE /\ cstate' = [cstate EXCEPT ![c] = "WORKED"]
                    /\ UNCHANGED thread
       ELSE /\ cstate' = [cstate EXCEPT ![c] = "WORKED"]
            /\ UNCHANGED <<thread, tidx, counter>>
    /\ kaAhead' = kaAhead \ {c}
    /\ UNCHANGED <<ClientVars, qd, closing, ka, kaSet, ShutdownVars,
                   processed, logger, writer, logStop, fwStop>>

\* The rest of the work item: RequestProcessor::ProcessDisconnection runs on
\* the processor found, and the thread is free again.
ProcessDisconnection(c) ==
    /\ cstate[c] = "PROCESSING"
    /\ cstate' = [cstate EXCEPT ![c] = "WORKED"]
    /\ thread' = [t \in Threads |-> IF thread[t] = c THEN "IDLE" ELSE thread[t]]
    /\ UNCHANGED <<ClientVars, qd, closing, ka, kaSet, ShutdownVars,
                   processed, tidx, counter, logger, writer, logStop, fwStop, kaAhead>>
\* Mutant: QueuedDisconnections is not decremented.
after_disconnection_processing_thread_NoDecrement(c) ==
    /\ cstate[c] = "WORKED"
    /\ cstate' = [cstate EXCEPT ![c] = "CLOSING"]
    /\ closing' = closing + 1
    /\ UNCHANGED qd
    /\ allDisc' = (allDisc \/ (shuttingDown /\ Pool = {} /\ qd = 0))
    /\ UNCHANGED <<ClientVars, ka, kaSet, listen, shuttingDown, initiated, stops,
                   procs, peer, aged, fwd, serversClosing, peersClosed, phase, PoolVars>>

\* Mutant: the flag is set without checking the pool is empty.
after_disconnection_processing_thread_NoPoolCheck(c) ==
    /\ cstate[c] = "WORKED"
    /\ cstate' = [cstate EXCEPT ![c] = "CLOSING"]
    /\ closing' = closing + 1
    /\ qd' = qd - 1
    /\ allDisc' = (allDisc \/ (shuttingDown /\ qd - 1 = 0))
    /\ UNCHANGED <<ClientVars, ka, kaSet, listen, shuttingDown, initiated, stops,
                   procs, peer, aged, fwd, serversClosing, peersClosed, phase, PoolVars>>

after_disconnection_processing_thread(c) ==
    /\ cstate[c] = "WORKED"
    /\ cstate' = [cstate EXCEPT ![c] = "CLOSING"]
    /\ closing' = closing + 1
    /\ qd' = qd - 1
    /\ allDisc' = (allDisc \/ (shuttingDown /\ Pool = {} /\ qd - 1 = 0))
    /\ UNCHANGED <<ClientVars, ka, kaSet, listen, shuttingDown, initiated, stops,
                   procs, peer, aged, fwd, serversClosing, peersClosed, phase, PoolVars>>
\* Mutant: the close callback is taken for any client.
on_client_closed_Unguarded(c) ==
    /\ cstate[c] # "CLOSED"
    /\ cstate' = [cstate EXCEPT ![c] = "CLOSED"]
    /\ closing' = closing - 1
    /\ UNCHANGED <<ClientVars, qd, ka, kaSet, ShutdownVars, PoolVars>>


\* on_client_closed: the stClient is deleted and m_ClientsClosing--.
on_client_closed(c) ==
    /\ cstate[c] = "CLOSING"
    /\ cstate' = [cstate EXCEPT ![c] = "CLOSED"]
    /\ closing' = closing - 1
    /\ UNCHANGED <<ClientVars, qd, ka, kaSet, ShutdownVars, PoolVars>>

\* ClientsPool::GetIdleClients(Type): the clients in the pool with no request
\* or response counted, of the given type (versionless: m_Version not yet
\* set by a first request), whose last activity is old enough; the clock is
\* not modelled, so any subset of them.
GetIdleClients(isVersioned) ==
    {c \in Pool \ Busy(req, resp) : versioned[c] = isVersioned}

\* The keep-alive worker leaves the pool.
ReleaseKeepAliveThread ==
    [t \in Threads |-> IF thread[t] = "KA" THEN "IDLE" ELSE thread[t]]

\* send_keepalive_thread, first pass of its loop over client types: the
\* worker takes the item and GetIdleClients(VersionedClient); with
\* RecepientsCount zero the pass sends nothing.
send_keepalive_scan(S, t) ==
    /\ ka = "QUEUED"
    /\ PoolServesClients /\ t \in TakingThreads /\ kaAhead = {}
    /\ S \subseteq GetIdleClients(TRUE)
    /\ ka' = (IF S = {} THEN "NEXT" ELSE "VERSIONED") /\ kaSet' = S
    /\ thread' = [thread EXCEPT ![t] = "KA"]
    /\ UNCHANGED <<cstate, ClientVars, qd, closing, ShutdownVars,
                   processed, tidx, counter, logger, writer, logStop, fwStop, kaAhead>>

\* Second pass: GetIdleClients(VersionlessClient), after the keep-alive of
\* the first pass was handed to SendResponse.
send_keepalive_scan_versionless(S) ==
    /\ ka = "NEXT"
    /\ S \subseteq GetIdleClients(FALSE)
    /\ ka' = (IF S = {} THEN "DONE" ELSE "VERSIONLESS") /\ kaSet' = S
    /\ thread' = IF S = {} THEN ReleaseKeepAliveThread ELSE thread
    /\ UNCHANGED <<cstate, ClientVars, qd, closing, ShutdownVars,
                   processed, tidx, counter, logger, writer, logStop, fwStop, kaAhead>>

\* RequestProcessor::StoreMessage of one response to the clients S, as the
\* pool's response counters see it: GetVersionParameters looks the version
\* up in the processors' map and stores nothing when the map was cleared;
\* otherwise CreateResponseAndAddToQueues counts the response for each
\* client still in the pool and not marked (IncreaseCountForClient).
StoreMessage(S) ==
    [c \in Clients |-> resp[c] \/ (c \in S /\ IncreaseCountForClient(c) /\ procs = "ALIVE")]

\* The end of a pass that found clients:
\* m_pReqProcessorToSendKepAlive->SendResponse of RESPONSE_KEEP_ALIVE
\* (versioned pass) or RESPONSE_FATAL_ERROR (versionless pass) to the
\* clients found; the worker is released after the second pass.
send_keepalive_send ==
    /\ ka \in {"VERSIONED", "VERSIONLESS"}
    /\ resp' = StoreMessage(kaSet)
    /\ ka' = IF ka = "VERSIONED" THEN "NEXT" ELSE "DONE"
    /\ kaSet' = {}
    /\ thread' = IF ka = "VERSIONLESS" THEN ReleaseKeepAliveThread ELSE thread
    /\ UNCHANGED <<cstate, marked, req, versioned, qd, closing, ShutdownVars,
                   processed, tidx, counter, logger, writer, logStop, fwStop, kaAhead>>

\* after_send_keepalive_thread: the work item may be queued again.
after_send_keepalive_thread ==
    /\ ka = "DONE"
    /\ ka' = "IDLE"
    /\ UNCHANGED <<cstate, ClientVars, qd, closing, kaSet, ShutdownVars, PoolVars>>

\* What the peer callbacks leave alone.
OtherThanPeers == <<cstate, ClientVars, qd, closing, ka, kaSet, listen, shuttingDown,
                    initiated, stops, allDisc, procs, peersClosed, phase, PoolVars>>

\* GetServerConnection's status makes SendPeerServersResponses reconnect a
\* peer DISCONNECTED for longer than RETRY_CONNECTION_AFTER
\* (InitiateConnection: CONNECTING, a new ConnectingTime) ...
Reconnects(pr, ag, p) == pr[p] = "DISCONNECTED" /\ ag[p]

\* ... and skip (continue) a peer CONNECTING for less than WAIT_FOR_CONNECTION.
KeepsWaiting(pr, ag, p) == pr[p] \in {"RESOLVING", "CONNECTING"} /\ ~ag[p]

\* PeerServersManager::SendPeerServersResponses over the peers with forwards
\* queued: a reconnected or waiting peer keeps its batch; a connected one
\* has it written (uv_write); any other status (DISCONNECTED,
\* CONNECTING_TIMED_OUT, DISCONNECTING) completes it at once through
\* after_send_responses with UV_ECONNRESET, which frees it, and whose
\* DisconnectServer closes nothing (no m_connection before after_connect,
\* or a status it does not close).
SendPeerServersResponses(pr, ag, fw) ==
    LET Q == {p \in Peers : fw[p] = "QUEUED"}
        R == {p \in Q : Reconnects(pr, ag, p)}
    IN  [peer |-> [p \in Peers |-> IF p \in R THEN "RESOLVING" ELSE pr[p]],
         aged |-> [p \in Peers |-> ag[p] /\ p \notin R],
         fwd  |-> [p \in Peers |->
                     CASE p \notin Q \/ p \in R \/ KeepsWaiting(pr, ag, p) -> fw[p]
                       [] pr[p] = "CONNECTED" -> "SENDING"
                       [] OTHER -> "NONE"]]

\* A peer callback that sets the status ends with DoPeriodicActivities,
\* whose first step, SendResponses when GetResponsesInQueue is non-zero,
\* is this pass (a pass with no forward queued changes nothing); the
\* keep-alive and shutdown steps are left to the timer's next tick.
SendResponsesAfter(pr, ag, fw) ==
    LET s == SendPeerServersResponses(pr, ag, fw)
    IN  peer' = s.peer /\ aged' = s.aged /\ fwd' = s.fwd

\* A connected peer's connection fails on its own (on_read with an error):
\* PeerServersManager::DisconnectServer.
DisconnectServer(p) ==
    /\ peer[p] = "CONNECTED"
    /\ peer' = [peer EXCEPT ![p] = "CLOSING"]
    /\ serversClosing' = serversClosing + 1
    /\ UNCHANGED <<aged, fwd, OtherThanPeers>>

\* Time passes for a peer with forwards queued (the only peers whose status
\* is asked): its DisconnectedTime becomes older than RETRY_CONNECTION_AFTER,
\* or, where a connect may outlast it, its ConnectingTime older than
\* WAIT_FOR_CONNECTION.
TimePasses(p) ==
    /\ fwd[p] = "QUEUED" /\ ~aged[p]
    /\ \/ peer[p] = "DISCONNECTED"
       \/ ConnectOutlivesWait /\ peer[p] \in {"RESOLVING", "CONNECTING"}
    /\ aged' = [aged EXCEPT ![p] = TRUE]
    /\ UNCHANGED <<peer, fwd, serversClosing, OtherThanPeers>>

\* after_getaddrinfo with the address resolved: uv_tcp_connect, and
\* m_ServersConnecting is incremented.
after_getaddrinfo(p) ==
    /\ peer[p] = "RESOLVING"
    /\ peer' = [peer EXCEPT ![p] = "CONNECTING"]
    /\ UNCHANGED <<aged, fwd, serversClosing, OtherThanPeers>>

\* after_connect: m_connection is set, m_ServersConnecting decremented.  A
\* failed connect is DisconnectServer'd; otherwise the peer is CONNECTED
\* and, unless setsockopt fails and the callback returns ("NOSNDBUF"),
\* uv_read_start (-1: DisconnectServer, "NOREAD") and DoPeriodicActivities
\* follow.
ConnectOutcomes == {"FAILED", "NOSNDBUF", "NOREAD", "OK"}

after_connect(p, outcome) ==
    /\ peer[p] = "CONNECTING"
    /\ LET closes == outcome \in {"FAILED", "NOREAD"}
           pr == [peer EXCEPT ![p] = IF closes THEN "CLOSING" ELSE "CONNECTED"]
           ag == [aged EXCEPT ![p] = FALSE]
       IN  /\ serversClosing' = serversClosing + (IF closes THEN 1 ELSE 0)
           /\ IF outcome \in {"FAILED", "NOSNDBUF"}
              THEN peer' = pr /\ aged' = ag /\ UNCHANGED fwd
              ELSE SendResponsesAfter(pr, ag, fwd)
    /\ UNCHANGED OtherThanPeers

\* after_send_responses for a peer's batch: AfterSendingPeerServersResponses
\* frees the forwards and DisconnectServer's the peer on a failed write;
\* then DoPeriodicActivities.  libuv fails (UV_ECANCELED) a write pending
\* on a handle being closed.
after_send_forwards(p, ok) ==
    /\ fwd[p] = "SENDING"
    /\ ok => peer[p] = "CONNECTED"
    /\ LET closes == ~ok /\ peer[p] = "CONNECTED"
       IN  /\ serversClosing' = serversClosing + (IF closes THEN 1 ELSE 0)
           /\ SendResponsesAfter([peer EXCEPT ![p] = IF closes THEN "CLOSING" ELSE @],
                                 aged, [fwd EXCEPT ![p] = "NONE"])
    /\ UNCHANGED OtherThanPeers

\* PeerServersManager::DisconnectAndCloseAllConnections: DisconnectServer for
\* every peer, which closes only the CONNECTED ones: an unresolved or
\* connecting peer has no m_connection yet, and DISCONNECTING is not a
\* status it closes.
DisconnectAndCloseAllConnections ==
    LET C == {p \in Peers : peer[p] = "CONNECTED"}
    IN  /\ peer' = [p \in Peers |-> IF p \in C THEN "CLOSING" ELSE peer[p]]
        /\ serversClosing' = serversClosing + Cardinality(C)

\* PeerServersManager::on_server_closed: DISCONNECTED with a new
\* DisconnectedTime, m_ServersClosing decremented, DoPeriodicActivities.
\* libuv completes the handle's pending writes before its close callback.
on_server_closed(p) ==
    /\ peer[p] = "CLOSING" /\ fwd[p] # "SENDING"
    /\ serversClosing' = serversClosing - 1
    /\ SendResponsesAfter([peer EXCEPT ![p] = "DISCONNECTED"],
                          [aged EXCEPT ![p] = FALSE], fwd)
    /\ UNCHANGED OtherThanPeers

\* Logger::log_processing_thread taken by the pool thread t; Logger::Start
\* set m_bLoggerThreadStopped to FALSE when it queued the work.
log_processing_thread(t) ==
    /\ logger = "QUEUED" /\ t \in TakingThreads
    /\ logger' = "RUNNING" /\ thread' = [thread EXCEPT ![t] = "LOG"]
    /\ UNCHANGED <<cstate, ClientVars, qd, closing, ka, kaSet, ShutdownVars,
                   processed, tidx, counter, writer, logStop, fwStop, kaAhead>>

\* The logger's loop leaves after an empty queue check that follows a pause
\* in which it saw m_bStopLoggerThread; the thread returns to the pool.
log_processing_thread_quit(t) ==
    /\ thread[t] = "LOG" /\ logStop
    /\ logger' = "EXITED" /\ thread' = [thread EXCEPT ![t] = "IDLE"]
    /\ UNCHANGED <<cstate, ClientVars, qd, closing, ka, kaSet, ShutdownVars,
                   processed, tidx, counter, writer, logStop, fwStop, kaAhead>>

\* after_log_processing_thread: m_bLoggerThreadStopped = TRUE.
after_log_processing_thread ==
    /\ logger = "EXITED" /\ logger' = "STOPPED"
    /\ UNCHANGED <<cstate, ClientVars, qd, closing, ka, kaSet, ShutdownVars,
                   processed, thread, tidx, counter, writer, logStop, fwStop, kaAhead>>

\* WriteToFile::file_writing_thread, queued by WriteToFile's constructor
\* after the logger's work, taken by the pool thread t.
file_writing_thread(t) ==
    /\ writer = "QUEUED" /\ logger # "QUEUED" /\ t \in TakingThreads
    /\ writer' = "RUNNING" /\ thread' = [thread EXCEPT ![t] = "FW"]
    /\ UNCHANGED <<cstate, ClientVars, qd, closing, ka, kaSet, ShutdownVars,
                   processed, tidx, counter, logger, logStop, fwStop, kaAhead>>

\* The writer's loop leaves as the logger's does, on m_bStopFileWritingThread.
file_writing_thread_quit(t) ==
    /\ thread[t] = "FW" /\ fwStop
    /\ writer' = "EXITED" /\ thread' = [thread EXCEPT ![t] = "IDLE"]
    /\ UNCHANGED <<cstate, ClientVars, qd, closing, ka, kaSet, ShutdownVars,
                   processed, tidx, counter, logger, logStop, fwStop, kaAhead>>

\* after_file_writing_thread: m_bFileWritingThreadStopped = TRUE.
after_file_writing_thread ==
    /\ writer = "EXITED" /\ writer' = "STOPPED"
    /\ UNCHANGED <<cstate, ClientVars, qd, closing, ka, kaSet, ShutdownVars,
                   processed, thread, tidx, counter, logger, logStop, fwStop, kaAhead>>

\* Logger::Stop sets m_bStopLoggerThread and returns m_bLoggerThreadStopped;
\* WriteToFile::Stop likewise.
Logger_Stop == logger = "STOPPED"
WriteToFile_Stop == writer = "STOPPED"

\* The last shutdown step: if (m_pLogger->Stop() && m_pWriteToFile->Stop())
\* closes stdin (once).  The && evaluates WriteToFile::Stop, and so sets its
\* flag, only once the logger has stopped.
StopLoggerAndWriter ==
    /\ logStop' = TRUE
    /\ fwStop' = (fwStop \/ Logger_Stop)
    /\ phase' = IF Logger_Stop /\ WriteToFile_Stop THEN "STDIN_CLOSING" ELSE phase

\* LocalClientsManager::DeleteRequestProcessors: DeleteProcessor on every
\* processor of m_RequestProcessors, the maps cleared, and the keep-alive
\* processor deleted; each is freed by its async handle's close callback.
DeleteRequestProcessors == procs' = "DELETED"

\* ConnectionsManager::GetResponsesInQueue: the responses in local clients'
\* queues (those the pool counts) and the forwards not yet freed, given the
\* peers' batches fw.
GetResponsesInQueue(fw) ==
    Cardinality({c \in Clients : resp[c]}) + Cardinality({p \in Peers : fw[p] # "NONE"})

\* RequestProcessor::m_NumberOfActiveProcessors: a processor per
\* request-processing thread for the version in use and the keep-alive's,
\* each counted off at once by DeleteProcessor.
GetActiveProcessors == IF procs = "ALIVE" THEN MaxRequestProcessingThreads + 1 ELSE 0

\* PeerServersManager::m_ServersConnecting: uv_tcp_connect calls not yet
\* answered by after_connect (an unresolved peer is not counted).
AreServersConnecting == Cardinality({p \in Peers : peer[p] = "CONNECTING"})

\* Mutant: stdin is closed without waiting for the peers being closed.
ShutdownGate_NoPeerWait ==
    CASE procs = "ALIVE" ->
              /\ DeleteRequestProcessors
              /\ UNCHANGED <<peer, serversClosing, peersClosed, phase, logStop, fwStop>>
      [] GetActiveProcessors = 0 /\ ~peersClosed ->
              /\ DisconnectAndCloseAllConnections
              /\ peersClosed' = TRUE
              /\ UNCHANGED <<procs, phase, logStop, fwStop>>
      [] GetActiveProcessors = 0 /\ phase = "RUNNING" ->
              /\ StopLoggerAndWriter
              /\ UNCHANGED <<procs, peer, serversClosing, peersClosed>>
      [] OTHER -> UNCHANGED <<procs, peer, serversClosing, peersClosed, phase,
                              logStop, fwStop>>

\* The shutdown steps of DoPeriodicActivities, one per tick once all clients
\* are disconnected, no response is queued, the server socket is closed and
\* no client is closing: DeleteRequestProcessors (once); then, with no
\* processor active, DisconnectAndCloseAllConnections (once); then, when no
\* peer is closing or connecting, the close of stdin (once).
ShutdownGate ==
    CASE procs = "ALIVE" ->
              /\ DeleteRequestProcessors
              /\ UNCHANGED <<peer, serversClosing, peersClosed, phase, logStop, fwStop>>
      [] GetActiveProcessors = 0 /\ ~peersClosed ->
              /\ DisconnectAndCloseAllConnections
              /\ peersClosed' = TRUE
              /\ UNCHANGED <<procs, phase, logStop, fwStop>>
      [] GetActiveProcessors = 0 /\ serversClosing = 0 /\ AreServersConnecting = 0
           /\ phase = "RUNNING" ->
              /\ StopLoggerAndWriter
              /\ UNCHANGED <<procs, peer, serversClosing, peersClosed>>
      [] OTHER -> UNCHANGED <<procs, peer, serversClosing, peersClosed, phase,
                              logStop, fwStop>>

\* LocalClientsManager::SendKeepAlive: the keep-alive work item is queued
\* unless the last one is still in progress.
SendKeepAlive == IF ka = "IDLE" THEN "QUEUED" ELSE ka

\* Client work items queued and not yet taken by a thread.
PendingWork == {c \in Clients : cstate[c] = "QUEUED" \/ (req[c] /\ processed[c] = "NO")}

\* ConnectionsManager::DoPeriodicActivities, the timer's callback: the pass
\* of SendResponses; when the keep-alive interval elapsed (kaDue),
\* SendKeepAlive; then the shutdown gates, which read GetResponsesInQueue
\* after the pass.  When the gates run, the pass reconnected no peer (a
\* reconnected peer keeps its batch queued), so they see the peers as the
\* pass left them.
DoPeriodicActivities(kaDue) ==
    /\ phase \in {"RUNNING", "STDIN_CLOSING"}
    \* SendKeepAlive changes nothing while the last item is in progress.
    /\ kaDue => ka = "IDLE"
    /\ ka' = IF kaDue THEN SendKeepAlive ELSE ka
    /\ kaAhead' = IF kaDue /\ ka = "IDLE" THEN PendingWork ELSE kaAhead
    /\ LET s == SendPeerServersResponses(peer, aged, fwd)
       IN  /\ aged' = s.aged /\ fwd' = s.fwd
           /\ IF /\ allDisc /\ GetResponsesInQueue(s.fwd) = 0
                 /\ listen = "CLOSED" /\ closing = 0
              THEN ShutdownGate
              ELSE /\ peer' = s.peer
                   /\ UNCHANGED <<procs, serversClosing, peersClosed, phase,
                                  logStop, fwStop>>
    /\ UNCHANGED <<cstate, ClientVars, qd, closing, kaSet, listen, shuttingDown,
                   initiated, stops, allDisc, processed, thread, tidx, counter,
                   logger, writer>>

\* after_close_read_stdin closes the timer; after_timer_closed calls
\* ConnectionsManager::Shutdown, which stops the loop.
after_close_read_stdin ==
    /\ phase = "STDIN_CLOSING"
    /\ phase' = "TIMER_CLOSING"
    /\ UNCHANGED <<cstate, ClientVars, qd, closing, ka, kaSet, listen, shuttingDown,
                   initiated, stops, allDisc, procs, peer, aged, fwd, serversClosing, peersClosed, PoolVars>>

after_timer_closed ==
    /\ phase = "TIMER_CLOSING"
    /\ phase' = "STOPPED"
    /\ UNCHANGED <<cstate, ClientVars, qd, closing, ka, kaSet, listen, shuttingDown,
                   initiated, stops, allDisc, procs, peer, aged, fwd, serversClosing, peersClosed, PoolVars>>
-----------------------------------------------------------------------------
Outcomes == {"NOCLIENT", "NOTACCEPTED", "NOTADDED", "ADDED"}

\* Once uv_stop returns, neither the loop nor a work item's completion runs.
Next ==
    /\ phase # "STOPPED"
    /\ \/ \E c \in Clients, o \in Outcomes : on_new_client(c, o)
       \/ \E c \in Clients : CreateRequestAndQueue(c)
       \/ \E c \in Clients, t \in Threads, r, e \in BOOLEAN :
             request_processing_thread(c, t, r, e)
       \/ \E c \in Clients : after_request_processing_thread(c)
       \/ \E c \in Clients : on_read_error(c)
       \/ \E c \in Clients, ok \in BOOLEAN : after_send_responses(c, ok)
       \/ InitiateServerShutdown
       \/ on_server_stopped
       \/ \E c \in Clients, t \in Threads : disconnection_processing_thread(c, t)
       \/ \E c \in Clients : ProcessDisconnection(c)
       \/ \E c \in Clients : after_disconnection_processing_thread(c)
       \/ \E c \in Clients : on_client_closed(c)
       \/ \E S \in SUBSET Clients, t \in Threads : send_keepalive_scan(S, t)
       \/ \E S \in SUBSET Clients : send_keepalive_scan_versionless(S)
       \/ send_keepalive_send
       \/ after_send_keepalive_thread
       \/ \E p \in Peers : DisconnectServer(p)
       \/ \E p \in Peers : TimePasses(p)
       \/ \E p \in Peers : after_getaddrinfo(p)
       \/ \E p \in Peers, o \in ConnectOutcomes : after_connect(p, o)
       \/ \E p \in Peers, ok \in BOOLEAN : after_send_forwards(p, ok)
       \/ \E p \in Peers : on_server_closed(p)
       \/ \E k \in BOOLEAN : DoPeriodicActivities(k)
       \/ \E t \in Threads : log_processing_thread(t) \/ log_processing_thread_quit(t)
       \/ after_log_processing_thread
       \/ \E t \in Threads : file_writing_thread(t) \/ file_writing_thread_quit(t)
       \/ after_file_writing_thread
       \/ after_close_read_stdin
       \/ after_timer_closed

Spec == Init /\ [][Next]_vars

\* The steps of one work item and its callback, which follow one another:
\* no two are enabled in one state, and each stays enabled until taken.
RequestWork(c) ==
    \/ \E t \in Threads, r, e \in BOOLEAN : request_processing_thread(c, t, r, e)
    \/ after_request_processing_thread(c)
DisconnectionWork(c) ==
    \/ \E t \in Threads : disconnection_processing_thread(c, t)
    \/ ProcessDisconnection(c) \/ after_disconnection_processing_thread(c)
    \/ on_client_closed(c)
KeepAliveWork ==
    \/ \E S \in SUBSET Clients, t \in Threads : send_keepalive_scan(S, t)
    \/ \E S \in SUBSET Clients : send_keepalive_scan_versionless(S)
    \/ send_keepalive_send \/ after_send_keepalive_thread
LoggerWork ==
    \/ \E t \in Threads : log_processing_thread(t) \/ log_processing_thread_quit(t)
    \/ after_log_processing_thread
\* A peer's pending callback: at most one is enabled at a time.
PeerCallbacks(p) ==
    \/ after_getaddrinfo(p)
    \/ \E o \in ConnectOutcomes : after_connect(p, o)
    \/ \E ok \in BOOLEAN : after_send_forwards(p, ok)
    \/ on_server_closed(p)
FileWriterWork ==
    \/ \E t \in Threads : file_writing_thread(t) \/ file_writing_thread_quit(t)
    \/ after_file_writing_thread

\* The event loop's callbacks and the thread pool's work items that are
\* pending, the keep-alive work aside.
LoopWork ==
    \/ \E c \in Clients : \/ RequestWork(c) \/ DisconnectionWork(c)
                         \/ \E ok \in BOOLEAN : after_send_responses(c, ok)
    \/ \E p \in Peers : PeerCallbacks(p)
    \/ on_server_stopped \/ LoggerWork \/ FileWriterWork
    \/ after_close_read_stdin \/ after_timer_closed

\* The loop runs: while some callback or work item is pending, one of them
\* is eventually delivered or taken by an idle thread, and the timer ticks.
\* The keep-alive item has a fairness of its own, for the timer queues it
\* again and again.  What clients, peers, time and the operator do is not
\* assumed.  This is weaker than fairness for each work item: libuv's queue
\* order (kaAhead keeps the keep-alive item behind the client work queued
\* before it) is not needed for the shutdown to complete.
FairSpec ==
    /\ Spec
    /\ WF_vars(phase # "STOPPED" /\ LoopWork)
    /\ WF_vars(phase # "STOPPED" /\ KeepAliveWork)
    /\ WF_vars(phase # "STOPPED" /\ \E k \in BOOLEAN : DoPeriodicActivities(k))
-----------------------------------------------------------------------------
PeerStatus == {"DISCONNECTED", "RESOLVING", "CONNECTING", "CONNECTED", "CLOSING"}

CStates == {"ABSENT", "POOL", "QUEUED", "PROCESSING", "WORKED", "CLOSING",
            "CLOSED", "REJECTED"}

TypeOK ==
    /\ cstate \in [Clients -> CStates]
    /\ marked \in [Clients -> BOOLEAN]
    /\ req \in [Clients -> BOOLEAN] /\ resp \in [Clients -> BOOLEAN]
    /\ versioned \in [Clients -> BOOLEAN]
    /\ qd \in Nat /\ closing \in Nat /\ serversClosing \in Nat
    /\ listen \in {"LISTENING", "CLOSING", "CLOSED"}
    /\ {shuttingDown, initiated, allDisc, peersClosed} \subseteq BOOLEAN
    /\ stops \in 0..MaxStops
    /\ procs \in {"ALIVE", "DELETED"}
    /\ ka \in {"IDLE", "QUEUED", "VERSIONED", "NEXT", "VERSIONLESS", "DONE"} /\ kaSet \subseteq Clients
    /\ peer \in [Peers -> PeerStatus]
    /\ aged \in [Peers -> BOOLEAN]
    /\ fwd \in [Peers -> {"NONE", "QUEUED", "SENDING"}]
    /\ phase \in {"RUNNING", "STDIN_CLOSING", "TIMER_CLOSING", "STOPPED"}
    /\ processed \in [Clients -> {"NO", "DONE", "MEMEXC"}]
    /\ thread \in [Threads -> {"IDLE", "LOG", "FW", "KA"} \cup Clients]
    /\ tidx \in [Threads -> -1..Cardinality(Threads)] /\ counter \in Nat
    /\ {logger, writer} \subseteq {"QUEUED", "RUNNING", "EXITED", "STOPPED"}
    /\ {logStop, fwStop} \subseteq BOOLEAN

\* QueuedDisconnections, m_ClientsClosing and m_ServersClosing, which the
\* shutdown gates read, count exactly the clients with disconnection work
\* queued, the clients being closed and the peers being closed.
CountersTrack ==
    /\ qd = Cardinality(InDisconnection)
    /\ closing = Cardinality({c \in Clients : cstate[c] = "CLOSING"})
    /\ serversClosing = Cardinality({p \in Peers : peer[p] = "CLOSING"})

\* A client with a request or response counted (ClientsPool's counters) is
\* still in the pool: DisconnectAndDelete, the keep-alive thread and the
\* request workers never let a client leave the pool while work for it is
\* counted, nor count work for a client that left.
CountedClientsInPool ==
    \A c \in Busy(req, resp) : cstate[c] = "POOL"

\* m_bAllClientsDisconnectedForShutdown is set only after shutdown began and
\* then the pool stays empty: no client is added after it.
AllDisconnectedMeansPoolEmpty ==
    allDisc => shuttingDown /\ Pool = {}

\* The loop is stopped (stdin closed) only after the request processors were
\* deleted, the server socket closed, every peer connection closed, and the
\* logger's and the file writer's work items completed (uv_stop with a work
\* item still running would leave a pool thread in its loop).
ShutdownOrder ==
    phase # "RUNNING" =>
        /\ procs = "DELETED" /\ listen = "CLOSED" /\ peersClosed
        /\ \A p \in Peers : peer[p] = "DISCONNECTED"
        /\ logger = "STOPPED" /\ writer = "STOPPED"

\* The comment over DeleteRequestProcessors in DoPeriodicActivities: the
\* processors are deleted only after every client is closed, since a
\* client's disconnection work and on_client_closed use them.
ProcessorsOutliveClients ==
    procs = "DELETED" =>
        \A c \in Clients : cstate[c] \notin {"QUEUED", "PROCESSING", "WORKED", "CLOSING"}

\* send_keepalive_thread calls SendResponse on m_pReqProcessorToSendKepAlive,
\* which DeleteRequestProcessors deletes: a keep-alive for some clients is
\* never sent through a deleted processor.
KeepAliveUsesLiveProcessor ==
    [][(ka \in {"VERSIONED", "VERSIONLESS"} /\ kaSet # {} /\ ka' # ka) => procs = "ALIVE"]_vars

\* CommonComponents sizes the pool at MaxRequestProcessingThreads
\* plus one thread each for the logger and the file writer, and
\* request_processing_thread and disconnection_processing_thread ASSERT
\* that the index a thread claims from ThreadIndexCounter has processors
\* (m_RequestProcessors[m_ThreadIndex]): while the processors exist no
\* thread running client work has an index without them, which holds only
\* if the logger and writer keep their threads until then.
ThreadIndexInRange ==
    procs = "ALIVE" => \A t \in Threads : tidx[t] < MaxRequestProcessingThreads

====
