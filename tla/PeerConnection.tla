---------------------------- MODULE PeerConnection ----------------------------
(***************************************************************************)
(* The peer-server side of Pulsar's connection engine                      *)
(* (PeerServersManager.cpp): responses forwarded to other servers, the     *)
(* connection state machine of each peer (GetServerConnection,             *)
(* InitiateConnection, after_getaddrinfo, after_connect, DisconnectServer, *)
(* on_server_closed), the acknowledgements read back (on_read,             *)
(* ProcessResponse) and the send pipeline shared with local clients        *)
(* (direction flag, two queues and two receiving sets per side).           *)
(*                                                                         *)
(* Event-loop callbacks are atomic steps.  A callback that ends with       *)
(* DoPeriodicActivities moves the loop to "periodic"; "resume" says where  *)
(* the loop returns once DoPeriodicActivities and its drain are done: to   *)
(* "idle", or back into the acknowledgement loop of on_read.  A worker's   *)
(* AddResponseToQueues for a forwarded response queues it on one peer      *)
(* under the direction flag's read lock; the event loop cannot toggle the  *)
(* flag meanwhile, so the whole call is one step.                          *)
(*                                                                         *)
(* Wall-clock time is abstracted to two flags per peer: connAged (now -    *)
(* ConnectingTime > WAIT_FOR_CONNECTION) and discAged (now -               *)
(* DisconnectedTime > RETRY_CONNECTION_AFTER), reset where the code stores *)
(* the time stamp and set by the passing of time.                          *)
(***************************************************************************)
EXTENDS Naturals, Integers, Sequences, SequencesExt, FiniteSets

CONSTANTS
    Peers,              \* peer servers responses are forwarded to
    Fwd,                \* forwarded responses (model values)
    Target,             \* [Fwd -> Peers]: Response::GetServersIPv4Address
    SyncFailures,       \* whether libuv calls may fail synchronously
    MaxServersConnecting \* bound: m_ServersConnecting, which leaks (see after_getaddrinfo)

ASSUME
    /\ Target \in [Fwd -> Peers]
    /\ SyncFailures \in BOOLEAN
    /\ MaxServersConnecting \in Nat \ {0}

Sides == {1, 2}
EnqueueSide(f) == IF f THEN 1 ELSE 2
DrainSide(f) == IF f THEN 2 ELSE 1

\* Stored values of stPeerServer::Status (CONNECTION_OVERFLOWED is disabled
\* in the code and CONNECTION_CONNECTING_TIMED_OUT is only ever returned).
Statuses == {"UNINITIATED", "CONNECTING", "CONNECTED", "DISCONNECTING",
             "DISCONNECTED"}

VARIABLES
    flag,        \* m_bResponseDirectionFlag
    q,           \* q[p][k]: m_ResponsesQueue1 / m_ResponsesQueue2, oldest first
    recv,        \* recv[k]: m_RecevingServersSet1 / m_RecevingServersSet2
    beingSent,   \* m_pResponsesBeingSent
    respInQueue, \* m_stServerStat.ResponsesInPeerServersQueues
    rstate,      \* NEW, QUEUED, FREED
    status,      \* stPeerServer::Status
    connAged,    \* ConnectingTime is older than WAIT_FOR_CONNECTION
    discAged,    \* DisconnectedTime is older than RETRY_CONNECTION_AFTER
    handle,      \* m_connection: "none" (NULL), "open", "closing" (uv_close called)
    reading,     \* uv_read_start called and not stopped
    pendingReq,  \* libuv request in flight: "none", "gai", "connect"
    connecting,  \* m_ServersConnecting
    closing,     \* m_ServersClosing
    closeCalls,  \* uv_close calls on the current handle
    fwd,         \* ResponsesForwarded
    unacked,     \* responses the peer received and has not acknowledged yet
    acks,        \* acknowledgements left in the buffer on_read is parsing
    loop,        \* event loop: "idle", "periodic", "draining", "acks"
    resume,      \* where the loop returns after DoPeriodicActivities
    todo         \* servers of the drained set not yet visited in this pass

vars == <<flag, q, recv, beingSent, respInQueue, rstate, status, connAged,
          discAged, handle, reading, pendingReq, connecting, closing,
          closeCalls, fwd, unacked, acks, loop, resume, todo>>

\* The state the event loop's routines read and write, as a record.
S == [flag |-> flag, q |-> q, recv |-> recv, beingSent |-> beingSent,
      respInQueue |-> respInQueue, rstate |-> rstate, status |-> status,
      connAged |-> connAged, handle |-> handle, reading |-> reading,
      pendingReq |-> pendingReq, closing |-> closing,
      closeCalls |-> closeCalls, fwd |-> fwd, unacked |-> unacked]

Assign(s) ==
    LET t == s IN
    /\ flag' = t.flag /\ q' = t.q /\ recv' = t.recv
    /\ beingSent' = t.beingSent /\ respInQueue' = t.respInQueue
    /\ rstate' = t.rstate /\ status' = t.status /\ connAged' = t.connAged
    /\ handle' = t.handle /\ reading' = t.reading
    /\ pendingReq' = t.pendingReq /\ closing' = t.closing
    /\ closeCalls' = t.closeCalls /\ fwd' = t.fwd /\ unacked' = t.unacked

\* stPeerServer::Construct, PeerServersManager's constructor.  A server
\* object is created for a peer with the first response forwarded to it;
\* until then its state is the constructed one.  DisconnectedTime is NULL,
\* i.e. long past.
Init ==
    /\ flag = FALSE
    /\ q = [p \in Peers |-> [k \in Sides |-> <<>>]]
    /\ recv = [k \in Sides |-> {}]
    /\ beingSent = [p \in Peers |-> <<>>]
    /\ respInQueue = 0
    /\ rstate = [r \in Fwd |-> "NEW"]
    /\ status = [p \in Peers |-> "UNINITIATED"]
    /\ connAged = [p \in Peers |-> FALSE]
    /\ discAged = [p \in Peers |-> TRUE]
    /\ handle = [p \in Peers |-> "none"]
    /\ reading = [p \in Peers |-> FALSE]
    /\ pendingReq = [p \in Peers |-> "none"]
    /\ connecting = 0
    /\ closing = 0
    /\ closeCalls = [p \in Peers |-> 0]
    /\ fwd = [p \in Peers |-> 0]
    /\ unacked = [p \in Peers |-> 0]
    /\ acks = [p \in Peers |-> 0]
    /\ loop = "idle"
    /\ resume = "idle"
    /\ todo = {}
-----------------------------------------------------------------------------
(***************************************************************************)
(* Event-loop routines, as functions on the state record                   *)
(***************************************************************************)

\* Mutant: DisconnectServer does not check the status, so a peer already
\* DISCONNECTING is closed again.
DisconnectServer_NoStatusCheck(s, p) ==
    IF s.handle[p] = "none" THEN s
    ELSE [s EXCEPT !.status[p] = "DISCONNECTING", !.reading[p] = FALSE,
                   !.closing = @ + 1, !.closeCalls[p] = @ + 1,
                   !.handle[p] = "closing"]

\* PeerServersManager::DisconnectServer: nothing without a connection handle
\* or unless the status is CONNECTED or CONNECTING; otherwise DISCONNECTING,
\* uv_read_stop, ++m_ServersClosing and uv_close.
DisconnectServer(s, p) ==
    IF s.handle[p] = "none" \/ s.status[p] \notin {"CONNECTED", "CONNECTING"}
    THEN s
    ELSE [s EXCEPT !.status[p] = "DISCONNECTING", !.reading[p] = FALSE,
                   !.closing = @ + 1, !.closeCalls[p] = @ + 1,
                   !.handle[p] = "closing"]

\* PeerServersManager::InitiateConnection: CONNECTING with a new
\* ConnectingTime, then uv_getaddrinfo, whose result is gai.  A failed
\* allocation (bad_alloc) or a result of -1 is DISCONNECTED, without a new
\* DisconnectedTime.  Any other error code (libuv returns negative UV_E*
\* codes) is not tested for: the peer stays CONNECTING with no resolution
\* in flight.
InitiateConnection(s, p, gai) ==
    LET s1 == [s EXCEPT !.status[p] = "CONNECTING", !.connAged[p] = FALSE]
    IN  CASE gai = 0 -> [s1 EXCEPT !.pendingReq[p] = "gai"]
          [] gai = -1 -> [s1 EXCEPT !.status[p] = "DISCONNECTED"]
          [] OTHER -> s1

\* Mutant: a connection attempt never times out.
GetServerConnection_NoTimeout(s, p, gai) ==
    LET st == s.status[p]
        init == InitiateConnection(s, p, gai)
        retry == discAged[p]
    IN  CASE st = "UNINITIATED" -> <<init, init.status[p]>>
          [] st = "DISCONNECTED" /\ retry -> <<init, init.status[p]>>
          [] OTHER -> <<s, st>>

\* PeerServersManager::GetServerConnection: the record after the call and
\* the status it returns.  A connection CONNECTING for longer than
\* WAIT_FOR_CONNECTION is reported CONNECTING_TIMED_OUT but left alone (a
\* connect cannot be cancelled); a DISCONNECTED peer is reconnected once
\* RETRY_CONNECTION_AFTER has passed.
GetServerConnection(s, p, gai) ==
    LET st == s.status[p]
        init == InitiateConnection(s, p, gai)
        retry == discAged[p]
    IN  CASE st = "UNINITIATED" -> <<init, init.status[p]>>
          [] st = "CONNECTING" ->
                <<s, IF s.connAged[p] THEN "CONNECTING_TIMED_OUT" ELSE "CONNECTING">>
          [] st = "DISCONNECTED" /\ retry -> <<init, init.status[p]>>
          [] OTHER -> <<s, st>>

\* AfterSendingPeerServersResponses for each response of p's batch, then
\* AfterSendingResponse.  On success IncreaseForwardedResponsesCount counts
\* the response if the peer is CONNECTED (and the peer now holds it); on
\* an error the peer is disconnected.  p is re-added to the receiving set of
\* each non-empty queue, and every response (reference count 1) is freed.
AfterSendingPeerServersResponses(s, p, ok) ==
    LET b == s.beingSent[p]
        n == Len(b)
        s1 == IF ok
              THEN [s EXCEPT !.fwd[p] = IF s.status[p] = "CONNECTED" THEN @ + n ELSE @,
                             !.unacked[p] = @ + n]
              ELSE DisconnectServer(s, p)
        nonEmpty == {k \in Sides : s1.q[p][k] # <<>>}
    IN  [s1 EXCEPT !.recv = [k \in Sides |->
                               IF k \in nonEmpty THEN @[k] \cup {p} ELSE @[k]],
                   !.beingSent[p] = <<>>,
                   !.rstate = [r \in Fwd |-> IF r \in ToSet(b) THEN "FREED" ELSE @[r]],
                   !.respInQueue = @ - n]

\* Mutant: a connecting peer is erased from the receiving set like the others.
VisitServer_EraseConnecting(s, p, gai, wok) ==
    LET g == GetServerConnection(s, p, gai)
        s1 == g[1]
        cs == g[2]
        d == DrainSide(s1.flag)
        Erase(x) == [x EXCEPT !.recv[d] = @ \ {p}]
        s2 == [s1 EXCEPT !.beingSent[p] = s1.q[p][d], !.q[p][d] = <<>>]
        written == cs = "CONNECTED" /\ s1.handle[p] = "open" /\ wok
    IN  IF cs = "CONNECTING" THEN Erase(s1)
        ELSE IF s1.beingSent[p] # <<>> THEN Erase(s1)
        ELSE IF written THEN Erase(s2)
        ELSE Erase(AfterSendingPeerServersResponses(s2, p, FALSE))

\* One iteration of the loop of PeerServersManager::SendPeerServersResponses
\* for server p of the drained set, after GetServerConnection.  A
\* connecting peer is skipped and stays in the set; a peer with a write in
\* flight is erased.  Otherwise the whole queue becomes the batch.  It is
\* written with uv_write if the peer is CONNECTED; uv_write fails at once on
\* a handle being closed, and may fail at once otherwise (wok = FALSE).  A
\* batch not written is completed inline by after_send_responses with an
\* error.  The server is then erased from the set.
VisitServer(s, p, gai, wok) ==
    LET g == GetServerConnection(s, p, gai)
        s1 == g[1]
        cs == g[2]
        d == DrainSide(s1.flag)
        Erase(x) == [x EXCEPT !.recv[d] = @ \ {p}]
        s2 == [s1 EXCEPT !.beingSent[p] = s1.q[p][d], !.q[p][d] = <<>>]
        written == cs = "CONNECTED" /\ s1.handle[p] = "open" /\ wok
    IN  IF cs = "CONNECTING" THEN s1
        ELSE IF s1.beingSent[p] # <<>> THEN Erase(s1)
        ELSE IF written THEN Erase(s2)
        ELSE Erase(AfterSendingPeerServersResponses(s2, p, FALSE))

-----------------------------------------------------------------------------
(***************************************************************************)
(* Worker threads                                                          *)
(***************************************************************************)

\* ConnectionsManager::AddResponseToQueues for a forwarded response:
\* PeerServersManager::AddResponseToQueue pushes it on the target's queue of
\* the side the flag selects (there is no limit for peers) and adds the
\* server to that side's receiving set; the reference count is 1 and the
\* response is counted in ResponsesInPeerServersQueues.
AddResponseToQueue(r) ==
    /\ rstate[r] = "NEW"
    /\ LET p == Target[r]
           e == EnqueueSide(flag)
       IN  /\ q' = [q EXCEPT ![p][e] = Append(@, r)]
           /\ recv' = [recv EXCEPT ![e] = @ \cup {p}]
    /\ rstate' = [rstate EXCEPT ![r] = "QUEUED"]
    /\ respInQueue' = respInQueue + 1
    /\ UNCHANGED <<flag, beingSent, status, connAged, discAged, handle, reading,
                   pendingReq, connecting, closing, closeCalls, fwd, unacked,
                   acks, loop, resume, todo>>

\* Wall-clock time passes for peer p, between callbacks.  The timer runs
\* every TIMER_INTERVAL_IN_MILLISECONDS (201 ms) and each tick drains one
\* side, so a peer in a receiving set is visited many times before
\* RETRY_CONNECTION_AFTER (30 s) passes: its DisconnectedTime ages only
\* while no forwards for it are waiting in a set.
TimePasses(p) ==
    /\ loop = "idle"
    /\ LET waiting == p \in recv[1] \cup recv[2]
       IN  /\ ~connAged[p] \/ (~discAged[p] /\ ~waiting)
           /\ connAged' = [connAged EXCEPT ![p] = TRUE]
           /\ discAged' = [discAged EXCEPT ![p] = @ \/ ~waiting]
    /\ UNCHANGED <<flag, q, recv, beingSent, respInQueue, rstate, status, handle,
                   reading, pendingReq, connecting, closing, closeCalls, fwd,
                   unacked, acks, loop, resume, todo>>
-----------------------------------------------------------------------------
(***************************************************************************)
(* Event-loop handlers                                                     *)
(***************************************************************************)

LoopVars == <<discAged, connecting, acks>>

\* A callback ends with DoPeriodicActivities and returns to the idle loop.
Periodic == loop' = "periodic" /\ resume' = "idle"

\* ConnectionsManager::DoPeriodicActivities: if responses are queued,
\* SendResponses toggles the direction flag and SendPeerServersResponses
\* starts a pass over the receiving set of the other side.
DoPeriodicActivities ==
    /\ loop = "periodic"
    /\ IF respInQueue > 0
       THEN LET d == DrainSide(~flag) IN
            /\ flag' = ~flag
            /\ todo' = recv[d]
            /\ loop' = IF recv[d] = {} THEN resume ELSE "draining"
       ELSE /\ loop' = resume
            /\ UNCHANGED <<flag, todo>>
    /\ UNCHANGED <<q, recv, beingSent, respInQueue, rstate, status, connAged,
                   discAged, handle, reading, pendingReq, connecting, closing,
                   closeCalls, fwd, unacked, acks, resume>>

\* One iteration of SendPeerServersResponses, for server p.
SendPeerServersResponses(p, gai, wok) ==
    /\ loop = "draining"
    /\ p \in todo
    /\ Assign(VisitServer(S, p, gai, wok))
    /\ todo' = todo \ {p}
    /\ loop' = IF todo' = {} THEN resume ELSE "draining"
    /\ UNCHANGED <<discAged, connecting, acks, resume>>

\* ConnectionsManager::on_timer.
on_timer ==
    /\ loop = "idle"
    /\ Periodic
    /\ UNCHANGED <<flag, q, recv, beingSent, respInQueue, rstate, status,
                   connAged, discAged, handle, reading, pendingReq, connecting,
                   closing, closeCalls, fwd, unacked, acks, todo>>

\* ConnectionsManager::after_send_responses for p's batch: libuv completes
\* the write with success or an error; uv_close cancels a pending write, so
\* only a write on an open handle can succeed.
after_send_responses(p, ok) ==
    /\ loop = "idle"
    /\ beingSent[p] # <<>>
    /\ ok => handle[p] = "open"
    /\ Assign(AfterSendingPeerServersResponses(S, p, ok))
    /\ Periodic
    /\ UNCHANGED <<discAged, connecting, acks, todo>>

\* PeerServersManager::after_getaddrinfo.  A failed resolution leaves the
\* peer DISCONNECTED.  Otherwise uv_tcp_connect is called and
\* m_ServersConnecting increased; its result rv is 0 (after_connect will
\* run), -1 (DISCONNECTED), or another error code, which the code does not
\* test for.  libuv runs no callback for a connect that failed synchronously.
\* The counter is not decreased for it; the model stops choosing -1 once
\* the counter reaches MaxServersConnecting.
after_getaddrinfo(p, ok, rv) ==
    /\ loop = "idle"
    /\ pendingReq[p] = "gai"
    /\ ok /\ rv = -1 => connecting < MaxServersConnecting
    /\ IF ~ok
       THEN /\ status' = [status EXCEPT ![p] = "DISCONNECTED"]
            /\ pendingReq' = [pendingReq EXCEPT ![p] = "none"]
            /\ Periodic
            /\ UNCHANGED connecting
       ELSE /\ connecting' = connecting + 1
            /\ CASE rv = 0 ->
                      /\ pendingReq' = [pendingReq EXCEPT ![p] = "connect"]
                      /\ UNCHANGED <<status, loop, resume>>
                 [] rv = -1 ->
                      /\ status' = [status EXCEPT ![p] = "DISCONNECTED"]
                      /\ pendingReq' = [pendingReq EXCEPT ![p] = "none"]
                      /\ Periodic
                 [] OTHER ->
                      /\ pendingReq' = [pendingReq EXCEPT ![p] = "none"]
                      /\ UNCHANGED <<status, loop, resume>>
    /\ UNCHANGED <<flag, q, recv, beingSent, respInQueue, rstate, connAged,
                   discAged, handle, reading, closing, closeCalls, fwd, unacked,
                   acks, todo>>

\* PeerServersManager::after_connect: the handle is stored and
\* m_ServersConnecting decreased.  A failed connect is disconnected (the
\* handle must be closed).  On success the peer is CONNECTED; if setting the
\* socket's send buffer fails (sockOk = FALSE) the callback returns at once,
\* otherwise it starts reading and runs DoPeriodicActivities.
after_connect(p, ok, sockOk) ==
    /\ loop = "idle"
    /\ pendingReq[p] = "connect"
    /\ connecting' = connecting - 1
    /\ LET s1 == [S EXCEPT !.handle[p] = "open", !.pendingReq[p] = "none"]
       IN  IF ~ok
           THEN /\ Assign(DisconnectServer(s1, p))
                /\ UNCHANGED <<loop, resume>>
           ELSE LET s2 == [s1 EXCEPT !.status[p] = "CONNECTED"]
                IN  IF sockOk
                    THEN Assign([s2 EXCEPT !.reading[p] = TRUE]) /\ Periodic
                    ELSE Assign(s2) /\ UNCHANGED <<loop, resume>>
    /\ UNCHANGED <<discAged, acks, todo>>

\* Mutant: the close callback does not check that a close is pending.
on_server_closed_Unguarded(p) ==
    /\ loop = "idle"
    /\ status' = [status EXCEPT ![p] = "DISCONNECTED"]
    /\ discAged' = [discAged EXCEPT ![p] = FALSE]
    /\ fwd' = [fwd EXCEPT ![p] = 0]
    /\ handle' = [handle EXCEPT ![p] = "none"]
    /\ closing' = closing - 1
    /\ closeCalls' = [closeCalls EXCEPT ![p] = 0]
    /\ unacked' = [unacked EXCEPT ![p] = 0]
    /\ Periodic
    /\ UNCHANGED <<flag, q, recv, beingSent, respInQueue, rstate, connAged,
                   reading, pendingReq, connecting, acks, todo>>

\* Mutant: the close callback leaves the status DISCONNECTING.
on_server_closed_NoStatusReset(p) ==
    /\ loop = "idle"
    /\ handle[p] = "closing"
    /\ discAged' = [discAged EXCEPT ![p] = FALSE]
    /\ fwd' = [fwd EXCEPT ![p] = 0]
    /\ handle' = [handle EXCEPT ![p] = "none"]
    /\ closing' = closing - 1
    /\ closeCalls' = [closeCalls EXCEPT ![p] = 0]
    /\ unacked' = [unacked EXCEPT ![p] = 0]
    /\ Periodic
    /\ UNCHANGED <<flag, q, recv, beingSent, respInQueue, rstate, connAged,
                   reading, pendingReq, connecting, acks, todo, status>>

\* PeerServersManager::on_server_closed: DISCONNECTED with a new
\* DisconnectedTime, ResponsesForwarded reset, handle gone,
\* --m_ServersClosing, DoPeriodicActivities.  The peer's side of the closed
\* connection is gone with it.
on_server_closed(p) ==
    /\ loop = "idle"
    /\ handle[p] = "closing"
    /\ status' = [status EXCEPT ![p] = "DISCONNECTED"]
    /\ discAged' = [discAged EXCEPT ![p] = FALSE]
    /\ fwd' = [fwd EXCEPT ![p] = 0]
    /\ handle' = [handle EXCEPT ![p] = "none"]
    /\ closing' = closing - 1
    /\ closeCalls' = [closeCalls EXCEPT ![p] = 0]
    /\ unacked' = [unacked EXCEPT ![p] = 0]
    /\ Periodic
    /\ UNCHANGED <<flag, q, recv, beingSent, respInQueue, rstate, connAged,
                   reading, pendingReq, connecting, acks, todo>>

\* PeerServersManager::on_read with nread < 0: DisconnectServer.
on_read_error(p) ==
    /\ loop = "idle"
    /\ reading[p]
    /\ Assign(DisconnectServer(S, p))
    /\ UNCHANGED <<loop, resume, discAged, connecting, acks, todo>>

\* PeerServersManager::on_read delivers n acknowledgements the peer sent;
\* the loop of on_read then extracts them one by one.
on_read(p, n) ==
    /\ loop = "idle"
    /\ reading[p]
    /\ n \in 1..unacked[p]
    /\ unacked' = [unacked EXCEPT ![p] = @ - n]
    /\ acks' = [acks EXCEPT ![p] = n]
    /\ loop' = "acks"
    /\ UNCHANGED <<flag, q, recv, beingSent, respInQueue, rstate, status,
                   connAged, discAged, handle, reading, pendingReq, connecting,
                   closing, closeCalls, fwd, resume, todo>>

\* PeerServersManager::ProcessResponse for one
\* RESPONSE_ACKNOWLEDGEMENT_OF_FORWARDED_RESP: --ResponsesForwarded, and
\* when it drops below 1 the status is set to CONNECTED and
\* DoPeriodicActivities runs, inside on_read, before the next
\* acknowledgement is extracted.
ProcessResponse(p) ==
    /\ loop = "acks"
    /\ acks[p] > 0
    /\ acks' = [acks EXCEPT ![p] = @ - 1]
    /\ fwd' = [fwd EXCEPT ![p] = @ - 1]
    /\ LET after == IF acks'[p] > 0 THEN "acks" ELSE "idle" IN
       IF fwd'[p] < 1
       THEN /\ status' = [status EXCEPT ![p] = "CONNECTED"]
            /\ loop' = "periodic" /\ resume' = after
       ELSE /\ loop' = after
            /\ UNCHANGED <<status, resume>>
    /\ UNCHANGED <<flag, q, recv, beingSent, respInQueue, rstate, connAged,
                   discAged, handle, reading, pendingReq, connecting, closing,
                   closeCalls, unacked, todo>>
-----------------------------------------------------------------------------
\* Outcomes of libuv calls that fail synchronously only if SyncFailures.
SyncOutcomes == IF SyncFailures THEN BOOLEAN ELSE {TRUE}
ConnectResults == IF SyncFailures THEN {0, -1, -22} ELSE {0}
GaiResults == ConnectResults

Next ==
    \/ \E r \in Fwd : AddResponseToQueue(r)
    \/ \E p \in Peers : TimePasses(p)
    \/ on_timer
    \/ DoPeriodicActivities
    \/ \E p \in Peers, g \in GaiResults, w \in SyncOutcomes : SendPeerServersResponses(p, g, w)
    \/ \E p \in Peers, ok \in BOOLEAN : after_send_responses(p, ok)
    \/ \E p \in Peers, ok \in BOOLEAN, rv \in ConnectResults :
          after_getaddrinfo(p, ok, rv)
    \/ \E p \in Peers, ok \in BOOLEAN, so \in SyncOutcomes : after_connect(p, ok, so)
    \/ \E p \in Peers : on_server_closed(p)
    \/ \E p \in Peers : on_read_error(p)
    \/ \E p \in Peers : \E n \in 1..unacked[p] : on_read(p, n)
    \/ \E p \in Peers : ProcessResponse(p)

Spec == Init /\ [][Next]_vars

(***************************************************************************)
(* Fairness.  Time passes whenever the loop is idle (strong).  The timer  *)
(* fires periodically and a pass over a receiving set, or over the         *)
(* acknowledgements of one read, runs to its end inside one callback       *)
(* (weak).  libuv eventually runs the          *)
(* callback of every request it accepted (resolution, connect, write,      *)
(* close); timer ticks keep interleaving, and each turn of the loop runs   *)
(* every ready callback (strong).  What the peer sends is not fair.        *)
(*                                                                         *)
(* The code retries a peer whose resolution fails, or whose connect is     *)
(* refused synchronously with -1, on every pass: DisconnectedTime is not   *)
(* renewed, so the peer is DISCONNECTED for long again at once, and its    *)
(* forwards stay queued while it is re-initiated.  Nothing bounds these    *)
(* retries.  ResolutionSucceeds is the environment's side of the bargain:  *)
(* starting a resolution, and resolving the peer's numeric address and     *)
(* starting the connect, do not fail for ever.                             *)
(***************************************************************************)
ResolutionSucceeds(p) ==
    /\ SF_vars(\E w \in SyncOutcomes : SendPeerServersResponses(p, 0, w))
    /\ SF_vars(after_getaddrinfo(p, TRUE, 0))

Fairness ==
    /\ \A p \in Peers : SF_vars(TimePasses(p))
    /\ WF_vars(on_timer) /\ WF_vars(DoPeriodicActivities)
    /\ WF_vars(\E p \in Peers, g \in GaiResults, w \in SyncOutcomes : SendPeerServersResponses(p, g, w))
    /\ WF_vars(\E p \in Peers : ProcessResponse(p))
    /\ \A p \in Peers :
          /\ SF_vars(\E ok \in BOOLEAN : after_send_responses(p, ok))
          /\ ResolutionSucceeds(p)
          /\ SF_vars(\E ok \in BOOLEAN, so \in SyncOutcomes : after_connect(p, ok, so))
          /\ SF_vars(on_server_closed(p))

FairSpec == Spec /\ Fairness
-----------------------------------------------------------------------------
(***************************************************************************)
(* Properties                                                              *)
(***************************************************************************)

TypeOK ==
    /\ flag \in BOOLEAN
    /\ q \in [Peers -> [Sides -> Seq(Fwd)]]
    /\ recv \in [Sides -> SUBSET Peers]
    /\ beingSent \in [Peers -> Seq(Fwd)]
    /\ respInQueue \in Nat
    /\ rstate \in [Fwd -> {"NEW", "QUEUED", "FREED"}]
    /\ status \in [Peers -> Statuses]
    /\ connAged \in [Peers -> BOOLEAN] /\ discAged \in [Peers -> BOOLEAN]
    /\ handle \in [Peers -> {"none", "open", "closing"}]
    /\ reading \in [Peers -> BOOLEAN]
    /\ pendingReq \in [Peers -> {"none", "gai", "connect"}]
    /\ connecting \in Nat /\ closing \in Nat
    /\ closeCalls \in [Peers -> Nat]
    /\ fwd \in [Peers -> Int]
    /\ unacked \in [Peers -> Nat] /\ acks \in [Peers -> Nat]
    /\ loop \in {"idle", "periodic", "draining", "acks"}
    /\ resume \in {"idle", "acks"}
    /\ todo \in SUBSET Peers

\* m_ServersConnecting counts the connects whose after_connect is still to
\* come: the shutdown sequence of DoPeriodicActivities waits for it to be
\* zero (AreServersConnecting) because a connect cannot be cancelled.
ConnectingCounterTracksConnects ==
    connecting = Cardinality({p \in Peers : pendingReq[p] = "connect"})

\* uv_close is called at most once on a connection handle before its close
\* callback (libuv aborts on closing a closing handle), and m_ServersClosing,
\* which the shutdown sequence waits on, counts exactly the handles being
\* closed.  DisconnectServer is reached from on_read, after_connect, a
\* failed write of every response of a batch and DisconnectAndCloseAllConnections.
SingleCloseInFlight ==
    /\ \A p \in Peers : closeCalls[p] <= 1
    /\ closing = Cardinality({p \in Peers : handle[p] = "closing"})

\* The status GetServerConnection acts on agrees with the connection's
\* libuv state: CONNECTED only with an open handle, DISCONNECTING exactly
\* while the handle is being closed, a resolution or connect in flight only
\* while CONNECTING without a handle, and reads only on an open handle.
StatusMatchesConnection ==
    \A p \in Peers :
        /\ status[p] = "CONNECTED" => handle[p] = "open"
        /\ status[p] = "DISCONNECTING" <=> handle[p] = "closing"
        /\ pendingReq[p] # "none" => status[p] = "CONNECTING" /\ handle[p] = "none"
        /\ reading[p] => handle[p] = "open"

\* A forwarded response that is queued is held in exactly one place, its
\* peer's queues or in-flight batch, and ResponsesInPeerServersQueues counts
\* them; a server is in a receiving set only with responses on that side,
\* and responses on a side are reachable through that side's set or the
\* completion of the write in flight (a connecting peer is skipped, not
\* erased).
ForwardsTracked ==
    /\ respInQueue = Cardinality({r \in Fwd : rstate[r] = "QUEUED"})
    /\ \A r \in Fwd :
          LET places == {k \in Sides : r \in ToSet(q[Target[r]][k])}
          IN  IF rstate[r] = "QUEUED"
              THEN Cardinality(places) + (IF r \in ToSet(beingSent[Target[r]]) THEN 1 ELSE 0) = 1
              ELSE places = {} /\ r \notin ToSet(beingSent[Target[r]])
    /\ \A p \in Peers, k \in Sides :
          /\ p \in recv[k] => q[p][k] # <<>>
          /\ q[p][k] # <<>> => p \in recv[k] \/ beingSent[p] # <<>>

\* Every forwarded response is eventually written or failed and deleted,
\* provided the peer's address eventually resolves (ResolutionSucceeds):
\* a connect that never completes, or a resolution that never starts, is
\* reported CONNECTING_TIMED_OUT once WAIT_FOR_CONNECTION has passed, a
\* failed connect is closed and then fails the batch, and a connection
\* closed while a batch is queued fails it.
ForwardEventuallyFreed ==
    \A r \in Fwd : rstate[r] = "QUEUED" ~> rstate[r] = "FREED"
====
