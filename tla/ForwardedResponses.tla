------------------------- MODULE ForwardedResponses -------------------------
(***************************************************************************)
(* The wire format of a response a worker stores for clients of another   *)
(* server, and what that server makes of it.                               *)
(*                                                                         *)
(* Sender: StoreMessage groups the handles by server, and                  *)
(* CreateResponseAndAddToQueues cuts a remote group into chunks of         *)
(* MAX_HANDLES_IN_FORWARDED_RESPONSE.  Each chunk becomes a Response       *)
(* whose bytes are                                                         *)
(*   "MAI" | 0xFFFF | size | sender version | count | count x reg | payload *)
(* Receiver: the peer connection's bytes go through                        *)
(* ValidateProtocolAndExtractRequest, and the body goes to the             *)
(* FORWARD_VERSION processor's ProcessRequest.  That stores the      *)
(* payload for the named local clients and an acknowledgement (code 2)     *)
(* for the sending server.                                                 *)
(*                                                                         *)
(* Everything here is a pure operator over byte sequences.  Bytes are      *)
(* integers 0..255, and multi-byte fields are big endian (htons, htonl,    *)
(* htonll).  A read past the end of a buffer is undefined behaviour: the   *)
(* model records it as "read_past_end" and stops there.                        *)
(***************************************************************************)
EXTENDS Integers, Sequences, SequencesExt, FiniteSets

CONSTANTS
    Versions,           \* application protocol versions with a processor
    VersionMaxRequestSize,     \* [Versions -> Nat]: VersionParameters::m_MaxRequestSize
    VersionMaxResponseSize,    \* [Versions -> Nat]: VersionParameters::m_MaxResponseSize
    MAX_HANDLES_IN_FORWARDED_RESPONSE,
    MAX_POSSIBLE_REQUEST_RESPONSE_SIZE

\* The inputs the properties range over.
CONSTANTS
    Sender,             \* the server whose worker stores the response
    Handles,            \* client handles [ip |-> server, reg |-> registration number]
    Payloads,           \* payloads a processor may pass to SendResponse
    HandleCounts,       \* handle counts written in a received request
    RequestTails        \* the bytes after the count in a received request

\* RequestProcessor's constructor asserts both limits stay below the bound
\* that the forwarded-response processor's own limits are computed from.
ASSUME \A v \in Versions : /\ VersionMaxRequestSize[v] < MAX_POSSIBLE_REQUEST_RESPONSE_SIZE
                       /\ VersionMaxResponseSize[v] < MAX_POSSIBLE_REQUEST_RESPONSE_SIZE

MSG_PREAMBLE == <<77, 65, 73>>              \* "MAI"
PREAMBLE_BYTES == 3
VERSION_BYTES == 2
SIZE_BYTES == 4
HANDLE_BYTES == 4
HEADER_SIZE == PREAMBLE_BYTES + VERSION_BYTES + SIZE_BYTES
REG_BYTES == 8                              \* sizeof(UINT64)
UNINITIALIZED_VERSION == 0
FORWARD_VERSION == 65535                     \* SPECIAL_COMMUNICATION (0xFFFF)
RESPONSE_ACKNOWLEDGEMENT_OF_FORWARDED_RESP == 2
ULONG_WRAP == 2^29                          \* 8 * n wraps where a 32-bit ULONG does

\* Outcome of a Response constructor that threw ResponseCreationException:
\* no bytes (a created response has at least a header).
Failed == <<>>
\* A read beyond the end of the request buffer.
ReadPastEnd == <<>>

-----------------------------------------------------------------------------
(* Byte order conversion: htons/htonl/htonll followed by memcpy, and the   *)
(* ntoh* of a field read back.                                             *)

RECURSIVE BigEndian(_, _)
BigEndian(n, w) == IF w = 0 THEN <<>> ELSE BigEndian(n \div 256, w - 1) \o <<n % 256>>

RECURSIVE FromBigEndian(_)
FromBigEndian(s) == IF s = <<>> THEN 0 ELSE FromBigEndian(Front(s)) * 256 + Last(s)

\* Mutant: the limit leaves out the handles' bytes.
CalculateVersionParameters_NoHandles == 2 + 4 + MAX_POSSIBLE_REQUEST_RESPONSE_SIZE

\* CalculateVersionParameters: limits of the FORWARD_VERSION processor.
CalculateVersionParameters ==
    2 + 4 + MAX_HANDLES_IN_FORWARDED_RESPONSE * REG_BYTES + MAX_POSSIBLE_REQUEST_RESPONSE_SIZE

\* GetVersionParameters: the processors registered, the forwarder's included.
HasProcessor(v) == v \in Versions \cup {FORWARD_VERSION}
RequestLimit(v) == IF v = FORWARD_VERSION THEN CalculateVersionParameters ELSE VersionMaxRequestSize[v]
ResponseLimit(v) == IF v = FORWARD_VERSION THEN CalculateVersionParameters ELSE VersionMaxResponseSize[v]

Header(v, size) == MSG_PREAMBLE \o BigEndian(v, VERSION_BYTES) \o BigEndian(size, SIZE_BYTES)

-----------------------------------------------------------------------------
(* Sender side                                                              *)

\* Response::ConstructResponseForLocalClients: preamble | version | size | payload.
ConstructResponseForLocalClients(p, v) ==
    IF ~HasProcessor(v) \/ Len(p) > ResponseLimit(v) THEN Failed
    ELSE Header(v, Len(p)) \o p

\* Response::ConstructResponseForRemoteClients: the handles in iterator order,
\* each as an 8-byte big-endian registration number.
ConstructResponseForRemoteClients(p, v, regs) ==
    LET handles == FlattenSeq([i \in DOMAIN regs |-> BigEndian(regs[i], REG_BYTES)])
        additional == VERSION_BYTES + HANDLE_BYTES + Len(handles)
    IN  IF Len(p) + additional > ResponseLimit(FORWARD_VERSION) THEN Failed
        ELSE Header(FORWARD_VERSION, Len(p) + additional)
               \o BigEndian(v, VERSION_BYTES) \o BigEndian(Len(regs), HANDLE_BYTES)
               \o handles \o p

\* Response::Response on server self for the handles regs, all of server s.
Response(self, p, v, s, regs) ==
    CASE p = <<>>                                          -> Failed
      [] s = self                                          -> ConstructResponseForLocalClients(p, v)
      [] Len(regs) > MAX_HANDLES_IN_FORWARDED_RESPONSE     -> Failed
      [] OTHER                                             -> ConstructResponseForRemoteClients(p, v, regs)

\* RequestProcessor::CreateResponseAndAddToQueues: the responses created for
\* the handles ptrs of server s, in order.  A remote group is cut into chunks
\* of MAX_HANDLES_IN_FORWARDED_RESPONSE; an exception returns and the rest of
\* the group is never created.
RECURSIVE CreateResponseAndAddToQueues(_, _, _, _, _)
CreateResponseAndAddToQueues(self, p, v, s, ptrs) ==
    IF ptrs = <<>> THEN <<>>
    ELSE LET n == IF s # self /\ Len(ptrs) > MAX_HANDLES_IN_FORWARDED_RESPONSE
                  THEN MAX_HANDLES_IN_FORWARDED_RESPONSE ELSE Len(ptrs)
             r == Response(self, p, v, s, SubSeq(ptrs, 1, n))
         IN  IF r = Failed THEN <<>>
             ELSE <<r>> \o CreateResponseAndAddToQueues(self, p, v, s, SubSeq(ptrs, n + 1, Len(ptrs)))

\* RequestProcessor::StoreMessage: the responses created for each server.  The
\* handles are [ip, reg] records; order lists them in the order of the
\* ClientHandlesPtrs set, a set of pointers ordered by address.
StoreMessage(self, order, p, v) ==
    IF ~HasProcessor(v) \/ order = <<>> \/ p = <<>> \/ Len(p) > ResponseLimit(v)
    THEN [s \in {} |-> <<>>]
    ELSE [s \in {order[i].ip : i \in DOMAIN order} |->
            LET OfServer(h) == h.ip = s
                group == SelectSeq(order, OfServer)
            IN  CreateResponseAndAddToQueues(self, p, v, s, [i \in DOMAIN group |-> group[i].reg])]

-----------------------------------------------------------------------------
(* Receiver side                                                            *)

\* RequestParser::ValidateProtocolAndExtractRequest on buffer buf of a
\* connection whose version is existing.
ValidateProtocolAndExtractRequest(buf, existing) ==
    LET ver  == FromBigEndian(SubSeq(buf, PREAMBLE_BYTES + 1, PREAMBLE_BYTES + VERSION_BYTES))
        size == FromBigEndian(SubSeq(buf, PREAMBLE_BYTES + VERSION_BYTES + 1, HEADER_SIZE))
    IN  CASE Len(buf) < HEADER_SIZE + 1                                  -> [code |-> "WAIT_FOR_MORE_BYTES"]
          [] SubSeq(buf, 1, PREAMBLE_BYTES) # MSG_PREAMBLE              -> [code |-> "INVALID_HEADER"]
          [] ver = UNINITIALIZED_VERSION
               \/ (existing # UNINITIALIZED_VERSION /\ existing # ver)  -> [code |-> "INVALID_VERSION"]
          [] size = 0                                                    -> [code |-> "INVALID_SIZE"]
          [] ~HasProcessor(ver)                                          -> [code |-> "INVALID_VERSION"]
          [] size > RequestLimit(ver)                                    -> [code |-> "INVALID_SIZE"]
          [] size + HEADER_SIZE > Len(buf)                               -> [code |-> "WAIT_FOR_MORE_BYTES"]
          [] OTHER -> [code |-> "REQUEST_FOUND", version |-> ver,
                       request |-> SubSeq(buf, HEADER_SIZE + 1, HEADER_SIZE + size)]

\* The registration number at byte offset of the request.  A UINT64
\* read off the wire is kept as its REG_BYTES big-endian bytes (ntohll is a
\* bijection, and TLC's integers have 32 bits).
ReadRegistrationNumber(req, offset) ==
    IF offset + REG_BYTES <= Len(req) THEN SubSeq(req, offset + 1, offset + REG_BYTES)
    ELSE ReadPastEnd

\* Mutant: the loop trusts MinimumLength and drops its room check.
RECURSIVE CollectHandles_NoRoomCheck(_, _, _, _)
CollectHandles_NoRoomCheck(req, offset, left, regs) ==
    IF left = 0 THEN [status |-> "processed", regs |-> regs, offset |-> offset]
    ELSE LET r == ReadRegistrationNumber(req, offset)
         IN  IF r = ReadPastEnd THEN [status |-> "read_past_end"]
             ELSE CollectHandles_NoRoomCheck(req, offset + REG_BYTES, left - 1, regs \cup {r})

\* The handle loop of ProcessRequest: left handles still to read at offset.
RECURSIVE CollectHandles(_, _, _, _)
CollectHandles(req, offset, left, regs) ==
    IF left = 0 THEN [status |-> "processed", regs |-> regs, offset |-> offset]
    ELSE IF offset + REG_BYTES >= Len(req) THEN [status |-> "rejected"]
    ELSE LET r == ReadRegistrationNumber(req, offset)
         IN  IF r = ReadPastEnd THEN [status |-> "read_past_end"]
             ELSE CollectHandles(req, offset + REG_BYTES, left - 1, regs \cup {r})

\* RequestProcessor_ForwardedResponses::ProcessRequest.  MinimumLength is a
\* 32-bit ULONG: 8 * count is kept modulo 2^32.  The handles get the local
\* server's address (self); the payload is stored for them with the sender's version,
\* and the acknowledgement for the sending server (a local client here).
ProcessRequest(self, req) ==
    LET ver   == FromBigEndian(SubSeq(req, 1, VERSION_BYTES))
        count == FromBigEndian(SubSeq(req, VERSION_BYTES + 1, VERSION_BYTES + HANDLE_BYTES))
        MinimumLength == VERSION_BYTES + HANDLE_BYTES + REG_BYTES * (count % ULONG_WRAP) + 1
        loop  == CollectHandles(req, VERSION_BYTES + HANDLE_BYTES, count, {})
    IN  CASE Len(req) < VERSION_BYTES + HANDLE_BYTES -> [status |-> "rejected"]
          [] Len(req) < MinimumLength               -> [status |-> "rejected"]
          [] loop.status # "processed"              -> loop
          [] OTHER -> LET resp == SubSeq(req, loop.offset + 1, Len(req))
                          order == SetToSeq({[ip |-> self, reg |-> r] : r \in loop.regs})
                      IN  [status |-> "processed", version |-> ver, regs |-> loop.regs,
                           response |-> resp,
                           stored |-> StoreMessage(self, order, resp, ver),
                           ack |-> StoreMessage(self, <<[ip |-> self, reg |-> 0]>>,
                                                <<RESPONSE_ACKNOWLEDGEMENT_OF_FORWARDED_RESP>>,
                                                FORWARD_VERSION)]

-----------------------------------------------------------------------------
(* End to end: a response stored on Sender for clients of its peers.       *)

\* The handles in every order the ClientHandlesPtrs set can hold them.
HandleOrders == SetToAllKPermutations(Handles) \ {<<>>}

\* What a peer makes of one forwarded frame read whole off a connection whose
\* version is existing.
Receive(peer, frame, existing) ==
    LET found == ValidateProtocolAndExtractRequest(frame, existing)
    IN  IF found.code = "REQUEST_FOUND" /\ Len(frame) = HEADER_SIZE + Len(found.request)
        THEN ProcessRequest(peer, found.request)
        ELSE [status |-> found.code]

\* What Sender's peer connection makes of the acknowledgement a peer stored.
AckAccepted(r, peer) ==
    LET found == ValidateProtocolAndExtractRequest(r.ack[peer][1], FORWARD_VERSION)
    IN  /\ found.code = "REQUEST_FOUND"
        /\ found.request = <<RESPONSE_ACKNOWLEDGEMENT_OF_FORWARDED_RESP>>

\* Forwarding is transparent.  For every response StoreMessage accepts on
\* Sender, every handle of every peer is carried by exactly one forwarded
\* frame, no chunk is lost to a ResponseCreationException, every frame passes
\* the peer's ValidateProtocolAndExtractRequest and ProcessRequest, the peer
\* stores for its clients the same bytes Sender stores for its own, and the
\* peer's acknowledgement is one Sender's peer connection accepts.  The frames
\* arrive on a connection whose version is existing: unset for the first
\* frame, FORWARD_VERSION for the rest.
ForwardedRoundTrip(existing) ==
    \A order \in HandleOrders, p \in Payloads, v \in Versions :
        LET out  == StoreMessage(Sender, order, p, v)
            mine == ConstructResponseForLocalClients(p, v)
        IN  Len(p) <= VersionMaxResponseSize[v] =>
            /\ DOMAIN out = {h.ip : h \in ToSet(order)}
            /\ Sender \in DOMAIN out => out[Sender] = <<mine>>
            /\ \A s \in DOMAIN out \ {Sender} :
                 LET regs == {h.reg : h \in {g \in ToSet(order) : g.ip = s}}
                     got  == [i \in DOMAIN out[s] |-> Receive(s, out[s][i], existing)]
                 IN  /\ Len(out[s]) = (Cardinality(regs) + MAX_HANDLES_IN_FORWARDED_RESPONSE - 1)
                                         \div MAX_HANDLES_IN_FORWARDED_RESPONSE
                     /\ \A i \in DOMAIN got :
                          /\ got[i].status = "processed"
                          /\ got[i].version = v
                          /\ got[i].stored = [t \in {s} |-> <<mine>>]
                          /\ AckAccepted(got[i], s)
                     /\ UNION {got[i].regs : i \in DOMAIN got} = {BigEndian(r, REG_BYTES) : r \in regs}
                     /\ \A i, j \in DOMAIN got : i # j => got[i].regs \cap got[j].regs = {}

\* Requests a peer can send: any version, any handle count, and any bytes
\* after it.
Requests ==
    {BigEndian(v, VERSION_BYTES) \o BigEndian(c, HANDLE_BYTES) \o t :
        v \in Versions, c \in HandleCounts, t \in RequestTails}

\* ProcessRequest never reads past the request, whatever handle count it
\* claims: MinimumLength is a 32-bit ULONG and wraps for counts of 2^29 and
\* more, so the handle loop's own room check is what keeps every read inside.
\* A request it processes holds exactly the handles it declares and a
\* non-empty payload after them.  Only requests that pass
\* ValidateProtocolAndExtractRequest on a connection of version existing
\* reach ProcessRequest.
DecoderStaysInBody(existing) ==
    \A req \in {q \in Requests :
                  ValidateProtocolAndExtractRequest(Header(FORWARD_VERSION, Len(q)) \o q,
                                                    existing).code = "REQUEST_FOUND"} :
        LET r == ProcessRequest(Sender, req)
            count == FromBigEndian(SubSeq(req, VERSION_BYTES + 1, VERSION_BYTES + HANDLE_BYTES))
        IN  /\ r.status # "read_past_end"
            /\ r.status = "processed" =>
                 /\ r.response # <<>>
                 /\ VERSION_BYTES + HANDLE_BYTES + REG_BYTES * count + Len(r.response) = Len(req)
=============================================================================
