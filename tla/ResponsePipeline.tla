--------------------------- MODULE ResponsePipeline ---------------------------
(***************************************************************************)
(* The local-client side of Pulsar's connection engine: the per-client     *)
(* request/response lifecycle (LocalClientsManager.cpp, ClientsPool.cpp),  *)
(* the reference-counted fan-out of a response by worker threads           *)
(* (ConnectionsManager::AddResponseToQueues), and the double-buffered send *)
(* pipeline driven by the event loop (SendResponses, after_send_responses).*)
(*                                                                         *)
(* Every client has two response queues and there are two receiving sets, *)
(* indexed here by the side 1 or 2.  Workers enqueue on the side picked by *)
(* the direction flag while holding its read lock; the event loop toggles  *)
(* the flag under the write lock and drains the other side.  A queue is    *)
(* kept oldest-first: the code's push_front is Append and its back() is    *)
(* the head of the sequence.                                               *)
(*                                                                         *)
(* Event-loop handlers are atomic steps (libuv runs one callback at a      *)
(* time).  A worker's fan-out is one step per target client: the pool's    *)
(* IncreaseCountForClient and AddResponseToQueue run under the client's    *)
(* WaitTillResponseForClientIsBeingAdded read lock, which DisconnectAndDelete*)
(* takes for writing, so they are atomic with respect to the disconnect.   *)
(***************************************************************************)
EXTENDS Naturals, Sequences, SequencesExt, FiniteSets, FiniteSetsExt

CONSTANTS
    Clients,             \* connected local clients (model values)
    Workers,             \* request processing threads that create responses
    WorkerResponses,     \* [Workers -> Seq(response ids)], in creation order
    MaxPendingResponses, \* CommonParameters.MaxPendingResponses
    MaxRequests,         \* bound: frames each client sends
    Updates              \* responses stored with SendUpdate/MulticastUpdate

Resps == UNION {ToSet(WorkerResponses[w]) : w \in Workers}
Sides == {1, 2}

\* Only RESPONSE_FATAL_ERROR changes what the send pipeline does with a
\* local response (Response::IsFatalErrorForLocallyConnectedClient); the
\* other response codes are sent alike and are represented by ORDINARY.
Kinds == {"ORDINARY", "FATAL"}

ASSUME
    /\ MaxPendingResponses \in Nat /\ MaxPendingResponses >= 2
    /\ MaxRequests \in Nat
    /\ Updates \subseteq Resps
    /\ \A w \in Workers : IsInjective(WorkerResponses[w])
    /\ \A v, w \in Workers : v # w =>
          ToSet(WorkerResponses[v]) \cap ToSet(WorkerResponses[w]) = {}

VARIABLES
    flag,        \* m_bResponseDirectionFlag
    q,           \* q[c][k]: m_ResponsesQueue1 / m_ResponsesQueue2 of client c
    recv,        \* recv[k]: m_RecevingClientsSet1 / m_RecevingClientsSet2
    beingSent,   \* m_pResponsesBeingSent: batch of an uv_write in flight
    marked,      \* m_bToBeDisconnected
    reading,     \* m_bIsReadStarted
    poolReq,     \* m_LockRequestsResponses.Requests
    poolResp,    \* m_LockRequestsResponses.Responses
    reqBusy,     \* m_bRequestIsBeingProcessed (= NOT m_bRequestProcessingFinished)
    reqs,        \* frames read so far (bounded by MaxRequests)
    disc,        \* CONNECTED, DISCONNECTING (work queued), CLOSING, CLOSED
    respInQueue, \* m_stServerStat.ResponsesInLocalClientsQueues
    rstate,      \* NEW, ADDING (fan-out under the flag read lock), QUEUED, FREED
    kind,        \* response type chosen by the worker
    pending,     \* target clients the fan-out loop has still to visit
    added,       \* ResponseReferenceCount accumulated by the fan-out loop
    ref,         \* Response reference count (SetReferenceCount)
    sent,        \* Response::ResponseSentCount
    loop,        \* event loop: "idle", "periodic" (DoPeriodicActivities next), "draining"
    wire,        \* history: responses handed to uv_write, per client
    barrier,     \* updates whose worker waits in WaitOnBarrier (m_Barrier)
    cb           \* {r}: send_update_callback for update r is running; else {}

vars == <<flag, q, recv, beingSent, marked, reading, poolReq, poolResp,
          reqBusy, reqs, disc, respInQueue, rstate, kind, pending, added,
          ref, sent, loop, wire, barrier, cb>>

UpdateVars == <<barrier, cb>>

EnqueueSide(f) == IF f THEN 1 ELSE 2
DrainSide(f) == IF f THEN 2 ELSE 1

\* The part of the state that event-loop handlers read and write, as a
\* record, so that a handler and the DoPeriodicActivities it ends with can be
\* composed as functions on it.
S == [flag |-> flag, q |-> q, recv |-> recv, beingSent |-> beingSent,
      marked |-> marked, reading |-> reading, poolReq |-> poolReq,
      poolResp |-> poolResp, reqBusy |-> reqBusy, disc |-> disc,
      respInQueue |-> respInQueue, rstate |-> rstate, sent |-> sent,
      wire |-> wire]

Assign(s) ==
    LET t == s IN
    /\ flag' = t.flag /\ q' = t.q /\ recv' = t.recv
    /\ beingSent' = t.beingSent /\ marked' = t.marked /\ reading' = t.reading
    /\ poolReq' = t.poolReq /\ poolResp' = t.poolResp /\ reqBusy' = t.reqBusy
    /\ disc' = t.disc /\ respInQueue' = t.respInQueue /\ rstate' = t.rstate
    /\ sent' = t.sent /\ wire' = t.wire

Init ==
    /\ flag = FALSE
    /\ q = [c \in Clients |-> [k \in Sides |-> <<>>]]
    /\ recv = [k \in Sides |-> {}]
    /\ beingSent = [c \in Clients |-> <<>>]
    /\ marked = [c \in Clients |-> FALSE]
    /\ reading = [c \in Clients |-> TRUE]
    /\ poolReq = [c \in Clients |-> 0]
    /\ poolResp = [c \in Clients |-> 0]
    /\ reqBusy = [c \in Clients |-> FALSE]
    /\ reqs = [c \in Clients |-> 0]
    /\ disc = [c \in Clients |-> "CONNECTED"]
    /\ respInQueue = 0
    /\ rstate = [r \in Resps |-> "NEW"]
    /\ kind = [r \in Resps |-> "ORDINARY"]
    /\ pending = [r \in Resps |-> {}]
    /\ added = [r \in Resps |-> 0]
    /\ ref = [r \in Resps |-> 0]
    /\ sent = [r \in Resps |-> 0]
    /\ loop = "idle"
    /\ wire = [c \in Clients |-> <<>>]
    /\ barrier = {}
    /\ cb = {}
-----------------------------------------------------------------------------
(***************************************************************************)
(* Event-loop routines, as functions from the state record to the state    *)
(* record.                                                                 *)
(***************************************************************************)

\* Mutant: RemoveClient checks only the request counter, so a client with
\* responses still queued is removed and deleted.
DisconnectAndDelete_IgnoresResponses(s, c) ==
    IF s.disc[c] # "CONNECTED" THEN s
    ELSE LET s1 == [s EXCEPT !.marked[c] = TRUE, !.reading[c] = FALSE]
         IN  IF ~s1.reqBusy[c] /\ s1.poolReq[c] = 0
             THEN [s1 EXCEPT !.disc[c] = "DISCONNECTING"]
             ELSE s1

\* LocalClientsManager::DisconnectAndDelete.  Returns at once if the
\* disconnection was already initiated; otherwise marks the client, stops
\* reading and, unless a request is being processed, removes the client from
\* the pool when ClientsPool::RemoveClient finds both its counters at zero,
\* queueing the disconnection work (m_bDisconnectInitiated).
DisconnectAndDelete(s, c) ==
    IF s.disc[c] # "CONNECTED" THEN s
    ELSE LET s1 == [s EXCEPT !.marked[c] = TRUE, !.reading[c] = FALSE]
             removable == s1.poolReq[c] = 0 /\ s1.poolResp[c] = 0
         IN  IF ~s1.reqBusy[c] /\ removable
             THEN [s1 EXCEPT !.disc[c] = "DISCONNECTING"]
             ELSE s1

\* Mutant: the response is deleted one completion too early
\* (ResponseSentCount compared with the reference count minus one).
AfterSendingLocalClientsResponses_EarlyFree(s, c, ok) ==
    LET b == s.beingSent[c]
        nonEmpty == {k \in Sides : s.q[c][k] # <<>>}
        s1 == [s EXCEPT !.marked[c] = @ \/ ~ok,
                        !.poolResp[c] = @ - Len(b),
                        !.recv = [k \in Sides |->
                                    IF k \in nonEmpty THEN @[k] \cup {c} ELSE @[k]],
                        !.beingSent[c] = <<>>,
                        !.sent = [r \in Resps |->
                                    IF r \in ToSet(b) THEN @[r] + 1 ELSE @[r]]]
        freed == {r \in ToSet(b) : s1.sent[r] >= ref[r] - 1}
        s2 == [s1 EXCEPT !.rstate = [r \in Resps |->
                                       IF r \in freed THEN "FREED" ELSE @[r]],
                         !.respInQueue = @ - Cardinality(freed)]
    IN  IF s2.marked[c] /\ nonEmpty = {} THEN DisconnectAndDelete(s2, c) ELSE s2

\* Mutant: the callback re-adds the client only to the receiving set of the
\* side the next send drains (the unlocked queue), relying on workers for
\* the other side.
AfterSendingLocalClientsResponses_UnlockedOnly(s, c, ok) ==
    LET b == s.beingSent[c]
        u == DrainSide(s.flag)
        nonEmpty == {k \in Sides : s.q[c][k] # <<>>}
        s1 == [s EXCEPT !.marked[c] = @ \/ ~ok,
                        !.poolResp[c] = @ - Len(b),
                        !.recv[u] = IF s.q[c][u] # <<>> THEN @ \cup {c} ELSE @,
                        !.beingSent[c] = <<>>,
                        !.sent = [r \in Resps |->
                                    IF r \in ToSet(b) THEN @[r] + 1 ELSE @[r]]]
        freed == {r \in ToSet(b) : s1.sent[r] = ref[r]}
        s2 == [s1 EXCEPT !.rstate = [r \in Resps |->
                                       IF r \in freed THEN "FREED" ELSE @[r]],
                         !.respInQueue = @ - Cardinality(freed)]
    IN  IF s2.marked[c] /\ nonEmpty = {} THEN DisconnectAndDelete(s2, c) ELSE s2

\* ConnectionsManager::after_send_responses for client c's batch: for each
\* response, AfterSendingLocalClientsResponses (mark on error, decrease the
\* pool's response count, re-add c to the receiving set of each non-empty
\* queue, DisconnectAndDelete a marked client whose queues are empty), then
\* AfterSendingResponse (++ResponseSentCount, free the response when it
\* reaches the reference count).  Only the last response of the batch can
\* bring the pool count to zero, so the per-response DisconnectAndDelete
\* attempts amount to one attempt after the whole batch.
AfterSendingLocalClientsResponses(s, c, ok) ==
    LET b == s.beingSent[c]
        nonEmpty == {k \in Sides : s.q[c][k] # <<>>}
        s1 == [s EXCEPT !.marked[c] = @ \/ ~ok,
                        !.poolResp[c] = @ - Len(b),
                        !.recv = [k \in Sides |->
                                    IF k \in nonEmpty THEN @[k] \cup {c} ELSE @[k]],
                        !.beingSent[c] = <<>>,
                        !.sent = [r \in Resps |->
                                    IF r \in ToSet(b) THEN @[r] + 1 ELSE @[r]]]
        freed == {r \in ToSet(b) : s1.sent[r] = ref[r]}
        s2 == [s1 EXCEPT !.rstate = [r \in Resps |->
                                       IF r \in freed THEN "FREED" ELSE @[r]],
                         !.respInQueue = @ - Cardinality(freed)]
    IN  IF s2.marked[c] /\ nonEmpty = {} THEN DisconnectAndDelete(s2, c) ELSE s2

\* The number of responses at the head of queue Q that one pass of the
\* drain loop takes: all of them for a client that is (or becomes, by a
\* FATAL_ERROR at the head) marked; otherwise those before the first
\* FATAL_ERROR further down, where the loop breaks.
BatchLength(Q, m) ==
    LET i == SelectInSeq(Q, LAMBDA r : kind[r] = "FATAL")
    IN  IF m \/ i = 0 THEN Len(Q) ELSE i - 1

\* Mutant: the batch is written but not popped from the queue (the
\* pop_back after m_pResponsesBeingSent.push_back is missing).
DrainClient_NoPop(s, c, wok) ==
    LET d == DrainSide(s.flag)
        Q == s.q[c][d]
        Erase(x) == [x EXCEPT !.recv[d] = @ \ {c}]
    IN  IF s.beingSent[c] # <<>>
        THEN Erase(s)
        ELSE LET m == s.marked[c] \/ kind[Q[1]] = "FATAL"
                 n == BatchLength(Q, m)
                 s1 == [s EXCEPT !.marked[c] = m,
                                 !.beingSent[c] = SubSeq(Q, 1, n)]
             IN  IF m \/ ~wok
                 THEN Erase(AfterSendingLocalClientsResponses(s1, c, FALSE))
                 ELSE Erase([s1 EXCEPT !.wire[c] = @ \o SubSeq(Q, 1, n)])

\* One iteration of the loop of LocalClientsManager::SendLocalClientsResponses
\* over the drained receiving set, for client c.  A client with a write in
\* flight is only erased from the set.  Otherwise the batch is moved to
\* m_pResponsesBeingSent and written with uv_write.  For a marked client the
\* write is skipped, and a uv_write that fails at once (wok = FALSE) is not
\* retried: either way after_send_responses runs inline with the error,
\* before the client is erased from the set (line 1679) in every case.
DrainClient(s, c, wok) ==
    LET d == DrainSide(s.flag)
        Q == s.q[c][d]
        Erase(x) == [x EXCEPT !.recv[d] = @ \ {c}]
    IN  IF s.beingSent[c] # <<>>
        THEN Erase(s)
        ELSE LET m == s.marked[c] \/ kind[Q[1]] = "FATAL"
                 n == BatchLength(Q, m)
                 s1 == [s EXCEPT !.marked[c] = m,
                                 !.q[c][d] = SubSeq(Q, n + 1, Len(Q)),
                                 !.beingSent[c] = SubSeq(Q, 1, n)]
             IN  IF m \/ ~wok
                 THEN Erase(AfterSendingLocalClientsResponses(s1, c, FALSE))
                 ELSE Erase([s1 EXCEPT !.wire[c] = @ \o SubSeq(Q, 1, n)])

\* The write lock on the direction flag is free when no worker is inside
\* AddResponseToQueues.
DirLockFree == \A r \in Resps : rstate[r] # "ADDING"

-----------------------------------------------------------------------------
(***************************************************************************)
(* Worker threads: StoreMessage -> ConnectionsManager::AddResponseToQueues *)
(***************************************************************************)

\* A worker creates its responses one after another.
Earlier(w, r) ==
    {WorkerResponses[w][i] :
        i \in 1..(CHOOSE j \in DOMAIN WorkerResponses[w] : WorkerResponses[w][j] = r) - 1}

\* The worker takes the direction flag's read lock and starts the loop over
\* the response's target handles.  It has returned from storing its earlier
\* responses, and from the barrier of an earlier update.
StartAddResponse(w, r, k, T) ==
    /\ r \in ToSet(WorkerResponses[w])
    /\ rstate[r] = "NEW"
    /\ \A e \in Earlier(w, r) : rstate[e] \in {"QUEUED", "FREED"} /\ e \notin barrier
    /\ rstate' = [rstate EXCEPT ![r] = "ADDING"]
    /\ kind' = [kind EXCEPT ![r] = k]
    /\ pending' = [pending EXCEPT ![r] = T]
    /\ added' = [added EXCEPT ![r] = 0]
    /\ UNCHANGED <<flag, q, recv, beingSent, marked, reading, poolReq, poolResp,
                   reqBusy, reqs, disc, respInQueue, ref, sent, loop, wire,
                   UpdateVars>>

\* Mutant: a full queue does not undo IncreaseCountForClient.
AddResponseToQueue_NoDecrease(r, c) ==
    /\ rstate[r] = "ADDING"
    /\ c \in pending[r]
    /\ pending' = [pending EXCEPT ![r] = @ \ {c}]
    /\ LET e == EnqueueSide(flag)
           ok == disc[c] = "CONNECTED" /\ ~marked[c]
       IN  IF ok /\ Len(q[c][e]) < MaxPendingResponses \div 2
           THEN /\ q' = [q EXCEPT ![c][e] = Append(@, r)]
                /\ recv' = [recv EXCEPT ![e] = @ \cup {c}]
                /\ poolResp' = [poolResp EXCEPT ![c] = @ + 1]
                /\ added' = [added EXCEPT ![r] = @ + 1]
           ELSE /\ poolResp' = IF ok THEN [poolResp EXCEPT ![c] = @ + 1] ELSE poolResp
                /\ UNCHANGED <<q, recv, added>>
    /\ UNCHANGED <<flag, beingSent, marked, reading, poolReq, reqBusy, reqs,
                   disc, respInQueue, rstate, kind, ref, sent, loop, wire,
                   UpdateVars>>

\* One iteration of LocalClientsManager::AddResponseToClientsQueues for
\* target c: ClientsPool::IncreaseCountForClient succeeds only for a client
\* still in the pool and not marked; AddResponseToQueue then pushes onto the
\* queue of the side the flag selects if it holds fewer than
\* MaxPendingResponses/2 responses, and adds c to that side's receiving set.
\* A full queue undoes the increase (DecreaseCountForClient).
AddResponseToQueue(r, c) ==
    /\ rstate[r] = "ADDING"
    /\ c \in pending[r]
    /\ pending' = [pending EXCEPT ![r] = @ \ {c}]
    /\ LET e == EnqueueSide(flag) IN
       IF /\ disc[c] = "CONNECTED" /\ ~marked[c]
          /\ Len(q[c][e]) < MaxPendingResponses \div 2
       THEN /\ q' = [q EXCEPT ![c][e] = Append(@, r)]
            /\ recv' = [recv EXCEPT ![e] = @ \cup {c}]
            /\ poolResp' = [poolResp EXCEPT ![c] = @ + 1]
            /\ added' = [added EXCEPT ![r] = @ + 1]
       ELSE UNCHANGED <<q, recv, poolResp, added>>
    /\ UNCHANGED <<flag, beingSent, marked, reading, poolReq, reqBusy, reqs,
                   disc, respInQueue, rstate, kind, ref, sent, loop, wire,
                   UpdateVars>>

\* Back in StoreMessage: for an update (bIsUpdate), uv_async_send on the
\* processor's m_AsyncHandle and WaitOnBarrier, whether or not any client
\* received the response.  The worker stays at the barrier until
\* send_update_callback meets it there.
WaitForUpdate(r) ==
    barrier' = IF r \in Updates THEN barrier \cup {r} ELSE barrier

\* Mutant: the queued response is not counted in
\* ResponsesInLocalClientsQueues (AddResponseDetailsToServerStat skipped).
FinishAddResponse_NoStat(r) ==
    /\ rstate[r] = "ADDING"
    /\ pending[r] = {}
    /\ ref' = [ref EXCEPT ![r] = added[r]]
    /\ rstate' = [rstate EXCEPT ![r] = IF added[r] = 0 THEN "FREED" ELSE "QUEUED"]
    /\ UNCHANGED <<flag, q, recv, beingSent, marked, reading, poolReq, poolResp,
                   reqBusy, reqs, disc, respInQueue, kind, pending, added, sent,
                   loop, wire, cb>>
    /\ WaitForUpdate(r)

\* End of AddResponseToQueues: SetReferenceCount, delete a response nobody
\* received, count a queued one (AddResponseDetailsToServerStat), release
\* the flag's read lock.
FinishAddResponse(r) ==
    /\ rstate[r] = "ADDING"
    /\ pending[r] = {}
    /\ ref' = [ref EXCEPT ![r] = added[r]]
    /\ IF added[r] = 0
       THEN rstate' = [rstate EXCEPT ![r] = "FREED"] /\ UNCHANGED respInQueue
       ELSE /\ rstate' = [rstate EXCEPT ![r] = "QUEUED"]
            /\ respInQueue' = respInQueue + 1
    /\ UNCHANGED <<flag, q, recv, beingSent, marked, reading, poolReq, poolResp,
                   reqBusy, reqs, disc, kind, pending, added, sent, loop, wire,
                   cb>>
    /\ WaitForUpdate(r)
-----------------------------------------------------------------------------
(***************************************************************************)
(* Event-loop handlers                                                     *)
(***************************************************************************)

WorkerVars == <<kind, pending, added, ref>>

\* Where the loop goes when a send cycle (DoPeriodicActivities and the drain
\* it starts) returns: back to libuv, or, inside send_update_callback, on
\* to the callback's WaitOnBarrier.
SendCycleDone == IF cb = {} THEN "idle" ELSE "barrier"

\* Mutant: the direction flag is toggled without taking its write lock.
DoPeriodicActivities_NoWriteLock ==
    /\ loop = "periodic"
    /\ IF respInQueue > 0
       THEN /\ flag' = ~flag
            /\ loop' = IF recv[DrainSide(~flag)] = {} THEN SendCycleDone ELSE "draining"
       ELSE /\ loop' = SendCycleDone
            /\ UNCHANGED flag
    /\ UNCHANGED <<q, recv, beingSent, marked, reading, poolReq, poolResp,
                   reqBusy, reqs, disc, respInQueue, rstate, sent, wire,
                   WorkerVars, UpdateVars>>

\* Mutant: SendResponses runs only when more than one response is queued.
DoPeriodicActivities_OffByOne ==
    /\ loop = "periodic"
    /\ IF respInQueue > 1
       THEN /\ DirLockFree
            /\ flag' = ~flag
            /\ loop' = IF recv[DrainSide(~flag)] = {} THEN SendCycleDone ELSE "draining"
       ELSE /\ loop' = SendCycleDone
            /\ UNCHANGED flag
    /\ UNCHANGED <<q, recv, beingSent, marked, reading, poolReq, poolResp,
                   reqBusy, reqs, disc, respInQueue, rstate, sent, wire,
                   WorkerVars, UpdateVars>>

\* ConnectionsManager::DoPeriodicActivities, which on_timer runs and which
\* after_send_responses, CreateRequestAndQueue and
\* after_request_processing_thread call as their last statement: those
\* handlers leave the loop at "periodic", where this is the only event-loop
\* step.  If responses are queued it runs SendResponses: toggle the
\* direction flag under its write lock (so the event loop waits while a
\* worker holds the read lock), then SendLocalClientsResponses, which
\* returns at once on an empty receiving set and otherwise leaves the loop
\* "draining" it.  The statistics, keep-alive and shutdown parts are
\* abstracted (README).
DoPeriodicActivities ==
    /\ loop = "periodic"
    /\ IF respInQueue > 0
       THEN /\ DirLockFree
            /\ flag' = ~flag
            /\ loop' = IF recv[DrainSide(~flag)] = {} THEN SendCycleDone ELSE "draining"
       ELSE /\ loop' = SendCycleDone
            /\ UNCHANGED flag
    /\ UNCHANGED <<q, recv, beingSent, marked, reading, poolReq, poolResp,
                   reqBusy, reqs, disc, respInQueue, rstate, sent, wire,
                   WorkerVars, UpdateVars>>

\* One iteration of SendLocalClientsResponses, for a client c of the
\* receiving set being drained.  No other event-loop step runs until the
\* set is empty.  wok: whether uv_write accepts the write.
SendLocalClientsResponses(c, wok) ==
    /\ loop = "draining"
    /\ c \in recv[DrainSide(flag)]
    /\ LET t == DrainClient(S, c, wok)
       IN  /\ Assign(t)
           /\ loop' = IF t.recv[DrainSide(flag)] = {} THEN SendCycleDone ELSE "draining"
    /\ UNCHANGED <<reqs, WorkerVars, UpdateVars>>

\* The loop's timer fires (every TIMER_INTERVAL_IN_MILLISECONDS).
on_timer ==
    /\ loop = "idle"
    /\ loop' = "periodic"
    /\ UNCHANGED <<flag, q, recv, beingSent, marked, reading, poolReq, poolResp,
                   reqBusy, reqs, disc, respInQueue, rstate, sent, wire,
                   WorkerVars, UpdateVars>>

\* Mutant: the callback runs the send cycle but does not WaitOnBarrier.
send_update_callback_NoWait(r) ==
    /\ loop = "idle"
    /\ r \in barrier /\ cb = {}
    /\ loop' = "periodic"
    /\ UNCHANGED <<flag, q, recv, beingSent, marked, reading, poolReq, poolResp,
                   reqBusy, reqs, disc, respInQueue, rstate, sent, wire,
                   WorkerVars, barrier, cb>>

\* libuv runs send_update_callback for the processor of a worker waiting at
\* the barrier with update r: m_pTimerFunction, which is
\* DoPeriodicActivities (LocalClientsManager.cpp:246), runs one send cycle.
\* Each worker thread has its own processor and async handle, so pending
\* wake-ups of different workers are not coalesced.
send_update_callback(r) ==
    /\ loop = "idle"
    /\ r \in barrier /\ cb = {}
    /\ cb' = {r}
    /\ loop' = "periodic"
    /\ UNCHANGED <<flag, q, recv, beingSent, marked, reading, poolReq, poolResp,
                   reqBusy, reqs, disc, respInQueue, rstate, sent, wire,
                   WorkerVars, barrier>>

\* The send cycle has returned; the callback's WaitOnBarrier meets the
\* worker's, and both pass the two-party barrier: the worker returns from
\* StoreMessage.
WaitOnBarrier ==
    /\ loop = "barrier"
    /\ barrier' = barrier \ cb
    /\ cb' = {}
    /\ loop' = "idle"
    /\ UNCHANGED <<flag, q, recv, beingSent, marked, reading, poolReq, poolResp,
                   reqBusy, reqs, disc, respInQueue, rstate, sent, wire,
                   WorkerVars>>

\* libuv completes client c's uv_write with success or an error.
after_send_responses(c, ok) ==
    /\ loop = "idle"
    /\ beingSent[c] # <<>>
    /\ Assign(AfterSendingLocalClientsResponses(S, c, ok))
    /\ loop' = "periodic"
    /\ UNCHANGED <<reqs, WorkerVars, UpdateVars>>

\* on_read delivers a complete, valid frame: ExtractRequestOffTheBuffer ->
\* CreateRequestAndQueue.  A buffer is offered only when no request is being
\* processed (GetRequestBuffer); bytes of a marked client are ignored.  The
\* Request constructor's IncreaseCountForClient succeeds for a client in the
\* pool and not marked; the request is queued to a worker.
CreateRequestAndQueue(c) ==
    /\ loop = "idle"
    /\ reading[c] /\ ~reqBusy[c] /\ ~marked[c]
    /\ reqs[c] < MaxRequests
    /\ reqs' = [reqs EXCEPT ![c] = @ + 1]
    /\ poolReq' = [poolReq EXCEPT ![c] = @ + 1]
    /\ reqBusy' = [reqBusy EXCEPT ![c] = TRUE]
    /\ loop' = "periodic"
    /\ UNCHANGED <<flag, q, recv, beingSent, marked, reading, poolResp, disc,
                   respInQueue, rstate, sent, wire,
                   WorkerVars, UpdateVars>>

\* on_read delivers a frame whose header is invalid: ProcessHeaderError ->
\* DisconnectAndDelete.
ProcessHeaderError(c) ==
    /\ loop = "idle"
    /\ reading[c] /\ ~reqBusy[c] /\ ~marked[c]
    /\ reqs[c] < MaxRequests
    /\ reqs' = [reqs EXCEPT ![c] = @ + 1]
    /\ Assign(DisconnectAndDelete(S, c))
    /\ UNCHANGED <<loop, WorkerVars, UpdateVars>>

\* on_read with nread < 0 (peer closed or read error): DisconnectAndDelete.
on_read_error(c) ==
    /\ loop = "idle"
    /\ reading[c] /\ ~reqBusy[c]
    /\ Assign(DisconnectAndDelete(S, c))
    /\ UNCHANGED <<reqs, loop, WorkerVars, UpdateVars>>

\* Mutant: the completion does not check that a request is being processed
\* (a second completion of the same request).
after_request_processing_thread_Unguarded(c, memExc, deferred) ==
    /\ loop = "idle"
    /\ LET s1 == [S EXCEPT !.marked[c] = @ \/ memExc]
           s2 == [s1 EXCEPT !.reqBusy[c] = FALSE, !.poolReq[c] = @ - 1]
           s3 == IF s2.marked[c] THEN DisconnectAndDelete(s2, c) ELSE s2
       IN  Assign(IF deferred THEN s1 ELSE s3)
    /\ loop' = "periodic"
    /\ UNCHANGED <<reqs, WorkerVars, UpdateVars>>

\* Mutant: a finished request of a marked client is not followed by
\* DisconnectAndDelete.
after_request_processing_thread_NoDisconnect(c, memExc, deferred) ==
    /\ loop = "idle"
    /\ reqBusy[c]
    /\ LET s1 == [S EXCEPT !.marked[c] = @ \/ memExc]
           s2 == [s1 EXCEPT !.reqBusy[c] = FALSE, !.poolReq[c] = @ - 1]
       IN  Assign(IF deferred THEN s1 ELSE s2)
    /\ loop' = "periodic"
    /\ UNCHANGED <<reqs, WorkerVars, UpdateVars>>

\* request_processing_thread followed by after_request_processing_thread.
\* A memory exception in the processor marks the client.  A deferred request
\* is queued again; otherwise the request is finished, the pool's request
\* count decreased, and a marked client DisconnectAndDelete'd.
after_request_processing_thread(c, memExc, deferred) ==
    /\ loop = "idle"
    /\ reqBusy[c]
    /\ LET s1 == [S EXCEPT !.marked[c] = @ \/ memExc]
           s2 == [s1 EXCEPT !.reqBusy[c] = FALSE, !.poolReq[c] = @ - 1]
           s3 == IF s2.marked[c] THEN DisconnectAndDelete(s2, c) ELSE s2
       IN  Assign(IF deferred THEN s1 ELSE s3)
    /\ loop' = "periodic"
    /\ UNCHANGED <<reqs, WorkerVars, UpdateVars>>

\* disconnection_processing_thread (ProcessDisconnection) followed by
\* after_disconnection_processing_thread: uv_close, m_ClientsClosing++.
after_disconnection_processing_thread(c) ==
    /\ loop = "idle"
    /\ disc[c] = "DISCONNECTING"
    /\ disc' = [disc EXCEPT ![c] = "CLOSING"]
    /\ UNCHANGED <<flag, q, recv, beingSent, marked, reading, poolReq, poolResp,
                   reqBusy, reqs, respInQueue, rstate, sent, loop, wire,
                   WorkerVars, UpdateVars>>

\* on_client_closed: the stClient object is deleted.
on_client_closed(c) ==
    /\ loop = "idle"
    /\ disc[c] = "CLOSING"
    /\ disc' = [disc EXCEPT ![c] = "CLOSED"]
    /\ UNCHANGED <<flag, q, recv, beingSent, marked, reading, poolReq, poolResp,
                   reqBusy, reqs, respInQueue, rstate, sent, loop, wire,
                   WorkerVars, UpdateVars>>
-----------------------------------------------------------------------------
Next ==
    \/ \E w \in Workers, r \in Resps, k \in Kinds, T \in SUBSET Clients \ {{}} :
          StartAddResponse(w, r, k, T)
    \/ \E r \in Resps, c \in Clients : AddResponseToQueue(r, c)
    \/ \E r \in Resps : FinishAddResponse(r)
    \/ on_timer
    \/ \E r \in Resps : send_update_callback(r)
    \/ WaitOnBarrier
    \/ DoPeriodicActivities
    \/ \E c \in Clients, wok \in BOOLEAN : SendLocalClientsResponses(c, wok)
    \/ \E c \in Clients, ok \in BOOLEAN : after_send_responses(c, ok)
    \/ \E c \in Clients : CreateRequestAndQueue(c)
    \/ \E c \in Clients : ProcessHeaderError(c)
    \/ \E c \in Clients : on_read_error(c)
    \/ \E c \in Clients, m, d \in BOOLEAN : after_request_processing_thread(c, m, d)
    \/ \E c \in Clients : after_disconnection_processing_thread(c)
    \/ \E c \in Clients : on_client_closed(c)

Spec == Init /\ [][Next]_vars

(***************************************************************************)
(* Fairness.  Worker threads run to completion, and the event loop waiting *)
(* for the flag's write lock gets it once the readers leave (weak).  The   *)
(* timer fires every TIMER_INTERVAL_IN_MILLISECONDS (weak).  libuv         *)
(* eventually completes every write (with success or an error) and runs    *)
(* queued work and close callbacks; each turn of the loop runs every ready *)
(* callback, so one that is ready again and again is run even though timer *)
(* ticks keep interleaving (strong).  A processor may defer a request, but *)
(* not forever.  Clients' own actions (sending, closing) are not fair.     *)
(***************************************************************************)
Fairness ==
    /\ WF_vars(\E r \in Resps : \/ \E c \in Clients : AddResponseToQueue(r, c)
                                 \/ FinishAddResponse(r))
    /\ WF_vars(on_timer) /\ WF_vars(DoPeriodicActivities)
    /\ WF_vars(\E c \in Clients, wok \in BOOLEAN : SendLocalClientsResponses(c, wok))
    /\ SF_vars(\E c \in Clients, ok \in BOOLEAN : after_send_responses(c, ok))
    /\ SF_vars(\E c \in Clients, m \in BOOLEAN :
                 after_request_processing_thread(c, m, FALSE))
    /\ SF_vars(\E c \in Clients : \/ after_disconnection_processing_thread(c)
                                   \/ on_client_closed(c))
    /\ SF_vars(WaitOnBarrier \/ \E r \in Resps : send_update_callback(r))

FairSpec == Spec /\ Fairness
-----------------------------------------------------------------------------
(***************************************************************************)
(* Properties                                                              *)
(***************************************************************************)

Holders(r) == {c \in Clients : \E k \in Sides : r \in ToSet(q[c][k])}
              \cup {c \in Clients : r \in ToSet(beingSent[c])}

TypeOK ==
    /\ flag \in BOOLEAN
    /\ q \in [Clients -> [Sides -> Seq(Resps)]]
    /\ recv \in [Sides -> SUBSET Clients]
    /\ beingSent \in [Clients -> Seq(Resps)]
    /\ marked \in [Clients -> BOOLEAN] /\ reading \in [Clients -> BOOLEAN]
    /\ poolReq \in [Clients -> Nat] /\ poolResp \in [Clients -> Nat]
    /\ reqBusy \in [Clients -> BOOLEAN] /\ reqs \in [Clients -> 0..MaxRequests]
    /\ disc \in [Clients -> {"CONNECTED", "DISCONNECTING", "CLOSING", "CLOSED"}]
    /\ respInQueue \in Nat
    /\ rstate \in [Resps -> {"NEW", "ADDING", "QUEUED", "FREED"}]
    /\ kind \in [Resps -> Kinds]
    /\ pending \in [Resps -> SUBSET Clients]
    /\ added \in [Resps -> Nat] /\ ref \in [Resps -> Nat] /\ sent \in [Resps -> Nat]
    /\ loop \in {"idle", "periodic", "draining", "barrier"}
    /\ barrier \subseteq Updates /\ cb \subseteq barrier /\ Cardinality(cb) <= 1
    /\ wire \in [Clients -> Seq(Resps)]

\* Reference counting of a Response (SetReferenceCount in AddResponseToQueues,
\* ++ResponseSentCount in AfterSendingResponse): a queued response is held
\* by exactly ref - sent clients' queues or in-flight batches, no response
\* is held before its count is set or after it is deleted, and the
\* ResponsesInLocalClientsQueues counter equals the number of live queued
\* responses.  A violation is a double delete, a leak or a use after free.
ResponseRefCounting ==
    /\ \A r \in Resps :
          /\ rstate[r] = "QUEUED" => ref[r] - sent[r] = Cardinality(Holders(r))
          /\ rstate[r] = "QUEUED" => sent[r] < ref[r]
          /\ rstate[r] = "FREED" => Holders(r) = {}
    /\ respInQueue = Cardinality({r \in Resps : rstate[r] = "QUEUED"})

\* The direction-flag protocol (ConnectionsManager::AddResponseToQueues holds
\* the read lock until SetReferenceCount; SendResponses toggles under the
\* write lock): the event loop never hands to uv_write, nor completes, a
\* response whose reference count is not yet set (the ASSERT on
\* GetReferenceCount in SendLocalClientsResponses).
NoSendBeforeRefCount ==
    \A c \in Clients : \A r \in ToSet(beingSent[c]) \cup ToSet(wire[c]) :
        rstate[r] \in {"QUEUED", "FREED"}

\* The pool's response counter of a client (IncreaseCountForClient /
\* DecreaseCountForClient) equals the responses queued for it or in its
\* in-flight batch.  ClientsPool::RemoveClient relies on it being zero only
\* when nothing refers to the client any more.
PoolCountMatchesQueues ==
    \A c \in Clients :
        poolResp[c] = Len(q[c][1]) + Len(q[c][2]) + Len(beingSent[c])

\* No response is stranded: a client in a receiving set has responses on
\* that side (the ASSERT ResponseQueueSize > 0 in SendLocalClientsResponses),
\* and a client with responses on a side is in that side's receiving set or
\* has a write in flight whose completion re-adds it
\* (AfterSendingLocalClientsResponses).
ReceivingSetsTrackQueues ==
    \A c \in Clients, k \in Sides :
        /\ c \in recv[k] => q[c][k] # <<>>
        /\ q[c][k] # <<>> => c \in recv[k] \/ beingSent[c] # <<>>

\* A client whose disconnection has been initiated (removed from the pool,
\* disconnection work queued, closing or deleted) is referred to by no
\* receiving set, queue, in-flight write or request.  A violation means
\* on_client_closed deletes an stClient that the event loop or a worker
\* still uses.
DisconnectedClientUnreferenced ==
    \A c \in Clients : disc[c] # "CONNECTED" =>
        /\ c \notin recv[1] \cup recv[2]
        /\ q[c][1] = <<>> /\ q[c][2] = <<>> /\ beingSent[c] = <<>>
        /\ ~reqBusy[c] /\ poolReq[c] = 0 /\ poolResp[c] = 0

\* Every queued response is eventually sent or failed on every client
\* holding it and deleted.
QueuedResponseEventuallyFreed ==
    \A r \in Resps : rstate[r] = "QUEUED" ~> rstate[r] = "FREED"

\* A client marked to disconnect (write failure, FATAL_ERROR, memory
\* exception, bad header, read error) is eventually deleted: some later
\* callback (after_request_processing_thread or after_send_responses) always
\* retries DisconnectAndDelete once the counters reach zero.
MarkedClientEventuallyClosed ==
    \A c \in Clients : marked[c] ~> disc[c] = "CLOSED"

\* Per session, the order in which one worker enqueues responses is the
\* order in which they are written to the socket (spec, section 5,
\* ordering guarantee (b)).
PerWorkerOrderOnWire ==
    \A c \in Clients, w \in Workers :
        \A i, j \in 1..Len(wire[c]) :
            /\ i < j
            /\ wire[c][i] \in ToSet(WorkerResponses[w])
            /\ wire[c][j] \in ToSet(WorkerResponses[w])
            => wire[c][j] \notin Earlier(w, wire[c][i])

\* send_update's promise (spec, section 7, "Update-then-wait": a worker
\* wants its response on the wire before it returns; send_update_callback's
\* comment: run the sending cycle once after the response is queued): when
\* the worker passes the barrier, its update is in no client's queue any
\* more: it has been handed to uv_write, or failed for a marked client.
UpdateSentBeforeWorkerResumes ==
    [][\A r \in barrier \ barrier' :
          \A c \in Clients, k \in Sides : r \notin ToSet(q'[c][k])]_vars

\* A worker blocked in StoreMessage's WaitOnBarrier is eventually released:
\* its wake-up is served by send_update_callback, whose send cycle gets the
\* direction flag's write lock and ends, and the callback then meets the
\* worker at the barrier.
UpdateWaitEnds ==
    \A r \in Updates : r \in barrier ~> r \notin barrier
-----------------------------------------------------------------------------
(***************************************************************************)
(* Refinement: the pipeline implements ResponseDelivery.  A response being *)
(* added (NEW or ADDING) is not yet published; a QUEUED one is owed to the *)
(* clients that hold it in a queue or in m_pResponsesBeingSent; the bytes  *)
(* on a client's socket are what was written to it; a client is gone once *)
(* on_client_closed has deleted it.                                        *)
(***************************************************************************)
DeliveryStatus ==
    [r \in Resps |-> CASE rstate[r] \in {"NEW", "ADDING"} -> "NEW"
                       [] rstate[r] = "QUEUED"          -> "LIVE"
                       [] rstate[r] = "FREED"           -> "FREED"]

RD == INSTANCE ResponseDelivery WITH
        status  <- DeliveryStatus,
        owed    <- [r \in Resps |-> IF rstate[r] = "QUEUED" THEN Holders(r) ELSE {}],
        written <- wire,
        gone    <- [c \in Clients |-> disc[c] = "CLOSED"]

\* Every step of the pipeline is a step of ResponseDelivery: a response is
\* freed (AfterSendingResponse's count reaching SetReferenceCount's value)
\* exactly when the last client holding it completes it, a batch written by
\* SendLocalClientsResponses holds only responses its client owes and was
\* never sent, and on_client_closed deletes only a client that owes nothing.
ImplementsResponseDelivery == RD!Spec

\* With the callbacks' fairness, the pipeline also meets ResponseDelivery's
\* fairness: a client holding responses eventually completes some of them
\* (its uv_write completes, or the drain loop fails them for a marked
\* client).
ImplementsFairResponseDelivery == RD!FairSpec
=============================================================================
