----------------------------- MODULE FrameReader -----------------------------
(***************************************************************************)
(* How one local client's bytes become requests: the client's request      *)
(* buffer (stClient::m_Header / m_Request / m_Request_Index /              *)
(* m_RequestSizeFound, LocalClientsManager.cpp), the master-protocol       *)
(* parser RequestParser::ValidateProtocolAndExtractRequest, and the        *)
(* event-loop callbacks around them: alloc_buffer (GetRequestBuffer),      *)
(* on_read (ExtractRequestOffTheBuffer, CreateRequestAndQueue,             *)
(* ProcessHeaderError) and after_request_processing_thread                 *)
(* (ResetRequestBuffer).                                                   *)
(*                                                                         *)
(* The client sends a sequence of frames.  A frame is a header (preamble,  *)
(* version, size) and `size` payload bytes.  The header's three fields are *)
(* one abstract byte each, so HEADER_SIZE is 3 and m_Header, which holds   *)
(* HEADER_SIZE + 1 bytes, holds 4; the parser's logic only depends on      *)
(* where the fields are, not on their width.  A byte is a pair <<field,    *)
(* value>>; a payload byte never equals the preamble, so a buffer that     *)
(* does not start on a frame boundary fails the preamble check.            *)
(***************************************************************************)
EXTENDS Naturals, Sequences, SequencesExt

CONSTANTS
    Streams,               \* the frame sequences a client may send
    Processors,            \* versions that have a request processor
    MaxRequestSize,        \* [Processors -> Nat]: VersionParameters::m_MaxRequestSize
    SPECIAL_COMMUNICATION, \* version of peer servers' forwarded responses
    AllocFailures,         \* whether `new` may fail (GetRequestBuffer, processing)
    CreateFailures         \* whether `new Request` may fail in CreateRequestAndQueue

UNINITIALIZED_VERSION == 0
HEADER_SIZE == 3
HeaderBufSize == HEADER_SIZE + 1        \* sizeof(stClient::m_Header)
Preamble == <<"pre", 1>>                 \* MSG_PREAMBLE

Frame == [pre : {0, 1}, ver : Nat, size : Nat]
ASSUME
    /\ \A s \in Streams : s \in Seq(Frame)
    /\ SPECIAL_COMMUNICATION \in Processors
    /\ UNINITIALIZED_VERSION \notin Processors
    /\ MaxRequestSize \in [Processors -> Nat \ {0}]
    /\ AllocFailures \in BOOLEAN /\ CreateFailures \in BOOLEAN

\* The bytes of a frame, and of a sequence of frames, as sent on the socket.
Encode(f) == <<<<"pre", f.pre>>, <<"ver", f.ver>>, <<"size", f.size>>>>
               \o [i \in 1..f.size |-> <<"data", 0>>]
Bytes(fs) == FlattenSeq([k \in 1..Len(fs) |-> Encode(fs[k])])

\* Offset of frame k in Bytes(fs).
RECURSIVE Offset(_, _)
Offset(fs, k) == IF k = 1 THEN 0 ELSE Offset(fs, k - 1) + HEADER_SIZE + fs[k - 1].size

\* Mutant: a request that exactly fills the buffer is still waited for.
ValidateProtocolAndExtractRequest_WaitWhenExact(buf, ev) ==
    LET v == buf[2][2]
        sz == buf[3][2]
        R(ret, ver, len) == [ret |-> ret, ver |-> ver, len |-> len]
    IN  CASE Len(buf) < HEADER_SIZE + 1 -> R("WAIT_FOR_MORE_BYTES", ev, 0)
          [] buf[1] # Preamble -> R("INVALID_HEADER", ev, 0)
          [] v = UNINITIALIZED_VERSION \/ (ev # UNINITIALIZED_VERSION /\ ev # v)
                -> R("INVALID_VERSION", ev, 0)
          [] sz = 0 -> R("INVALID_SIZE", v, 0)
          [] v \notin Processors -> R("INVALID_VERSION", v, 0)
          [] sz > MaxRequestSize[v] -> R("INVALID_SIZE", v, 0)
          [] sz + HEADER_SIZE >= Len(buf) -> R("WAIT_FOR_MORE_BYTES", v, sz)
          [] OTHER -> R("REQUEST_FOUND", v, sz)

\* RequestParser::ValidateProtocolAndExtractRequest on the buffer `buf`
\* with the client's version `ev`: the return code, m_Version afterwards
\* (set as soon as the version passes its first check), and request_out.len.
ValidateProtocolAndExtractRequest(buf, ev) ==
    LET v == buf[2][2]
        sz == buf[3][2]
        R(ret, ver, len) == [ret |-> ret, ver |-> ver, len |-> len]
    IN  CASE Len(buf) < HEADER_SIZE + 1 -> R("WAIT_FOR_MORE_BYTES", ev, 0)
          [] buf[1] # Preamble -> R("INVALID_HEADER", ev, 0)
          [] v = UNINITIALIZED_VERSION \/ (ev # UNINITIALIZED_VERSION /\ ev # v)
                -> R("INVALID_VERSION", ev, 0)
          [] sz = 0 -> R("INVALID_SIZE", v, 0)
          [] v \notin Processors -> R("INVALID_VERSION", v, 0)
          [] sz > MaxRequestSize[v] -> R("INVALID_SIZE", v, 0)
          [] sz + HEADER_SIZE > Len(buf) -> R("WAIT_FOR_MORE_BYTES", v, sz)
          [] OTHER -> R("REQUEST_FOUND", v, sz)

VARIABLES
    frames,         \* what the client sends
    stream,         \* Bytes(frames)
    rd,             \* bytes libuv has read from the socket so far
    index,          \* m_Request_Index
    len,            \* m_Request.len
    base,           \* m_Request.base: "header" (m_Header) or "alloc"
    cap,            \* bytes allocated for m_Request.base when it is "alloc"
    streaming,      \* m_bStreaming
    allocStreaming, \* m_bRequestMemoryAllocatedForStreaming
    sizeFound,      \* m_RequestSizeFound
    version,        \* m_Version
    busy,           \* m_bRequestIsBeingProcessed
    marked,         \* m_bToBeDisconnected
    reading,        \* m_bIsReadStarted
    extracted,      \* history: <<offset, size>> of every REQUEST_FOUND
    closedBy,       \* history: why the client was marked
    asserted        \* the ASSERT that ended the process (Pulsar.h: exit(-1)), or "none"

vars == <<frames, stream, rd, index, len, base, cap, streaming, allocStreaming,
          sizeFound, version, busy, marked, reading, extracted, closedBy, asserted>>

\* The state as a record, for routines that compose within one callback.
S == [rd |-> rd, index |-> index, len |-> len, base |-> base, cap |-> cap,
      streaming |-> streaming, allocStreaming |-> allocStreaming,
      sizeFound |-> sizeFound, version |-> version, busy |-> busy,
      marked |-> marked, reading |-> reading, extracted |-> extracted,
      closedBy |-> closedBy, asserted |-> asserted]

Assign(s) ==
    /\ rd' = s.rd /\ index' = s.index /\ len' = s.len /\ base' = s.base
    /\ cap' = s.cap /\ streaming' = s.streaming
    /\ allocStreaming' = s.allocStreaming /\ sizeFound' = s.sizeFound
    /\ version' = s.version /\ busy' = s.busy /\ marked' = s.marked
    /\ reading' = s.reading /\ extracted' = s.extracted
    /\ closedBy' = s.closedBy /\ asserted' = s.asserted
    /\ UNCHANGED <<frames, stream>>

\* The bytes in the request buffer: the last `index` bytes read.
Buffer(s) == SubSeq(stream, s.rd - s.index + 1, s.rd)

\* stClient::stClient.
Init ==
    /\ frames \in Streams
    /\ stream = Bytes(frames)
    /\ rd = 0 /\ index = 0 /\ len = HeaderBufSize /\ base = "header"
    /\ cap = 0 /\ streaming = FALSE /\ allocStreaming = FALSE
    /\ sizeFound = 0 /\ version = UNINITIALIZED_VERSION /\ busy = FALSE
    /\ marked = FALSE /\ reading = TRUE /\ extracted = <<>>
    /\ closedBy = "none" /\ asserted = "none"
-----------------------------------------------------------------------------
\* LocalClientsManager::DisconnectAndDelete as far as reading is concerned:
\* MarkToDisconnect and StopReading.
DisconnectAndDelete(s, why) ==
    [s EXCEPT !.marked = TRUE, !.reading = FALSE,
              !.closedBy = IF s.marked THEN @ ELSE why]

\* Mutant: the allocation is one byte longer than the frame.
GetRequestBuffer_OffByOne(s) ==
    IF s.len - s.index = 0 /\ s.sizeFound > 0 /\ s.base = "header"
    THEN [s EXCEPT !.base = "alloc", !.cap = s.sizeFound + HEADER_SIZE + 1,
                   !.len = s.sizeFound + HEADER_SIZE + 1,
                   !.allocStreaming = s.streaming, !.sizeFound = 0]
    ELSE IF s.len - s.index = 0 /\ s.sizeFound > 0
    THEN [s EXCEPT !.len = s.sizeFound + HEADER_SIZE, !.sizeFound = 0]
    ELSE s

\* Mutant: m_Request.len is set to the bytes allocated.
GetRequestBuffer_LenIsAllocation(s) ==
    LET c == IF s.streaming THEN MaxRequestSize[s.version] + HEADER_SIZE
             ELSE s.sizeFound + HEADER_SIZE
    IN  IF s.len - s.index = 0 /\ s.sizeFound > 0 /\ s.base = "header"
        THEN [s EXCEPT !.base = "alloc", !.cap = c, !.len = c,
                       !.allocStreaming = s.streaming, !.sizeFound = 0]
        ELSE IF s.len - s.index = 0 /\ s.sizeFound > 0
        THEN [s EXCEPT !.len = s.cap, !.sizeFound = 0]
        ELSE s

\* Mutant: a streaming buffer is sized to the frame, not to the largest
\* request, and is still kept for the next frame.
GetRequestBuffer_StreamingSizedToFrame(s) ==
    IF s.len - s.index = 0 /\ s.sizeFound > 0
    THEN IF s.base = "header"
         THEN [s EXCEPT !.base = "alloc", !.cap = s.sizeFound + HEADER_SIZE,
                        !.len = s.sizeFound + HEADER_SIZE,
                        !.allocStreaming = s.streaming, !.sizeFound = 0]
         ELSE [s EXCEPT !.len = s.sizeFound + HEADER_SIZE, !.sizeFound = 0]
    ELSE s

\* LocalClientsManager::GetRequestBuffer when `new` succeeds: once the
\* header has been read into m_Header, allocate the request buffer (the
\* maximum request size if streaming) and copy the header into it; a
\* buffer kept for streaming is only resized.
GetRequestBuffer(s) ==
    IF s.len - s.index = 0 /\ s.sizeFound > 0
    THEN IF s.base = "header"
         THEN [s EXCEPT !.base = "alloc",
                        !.cap = IF s.streaming
                                THEN MaxRequestSize[s.version] + HEADER_SIZE
                                ELSE s.sizeFound + HEADER_SIZE,
                        !.len = s.sizeFound + HEADER_SIZE,
                        !.allocStreaming = s.streaming, !.sizeFound = 0]
         ELSE [s EXCEPT !.len = s.sizeFound + HEADER_SIZE, !.sizeFound = 0]
    ELSE s

\* LocalClientsManager::CreateRequestAndQueue: the request goes to a
\* worker, or `new` fails; then the client is disconnected unless it is a
\* peer server, and ExtractRequestOffTheBuffer drops the buffered bytes.
CreateRequestAndQueue(s, ok) ==
    IF ok THEN [s EXCEPT !.busy = TRUE]
    ELSE LET s1 == [s EXCEPT !.index = 0]
         IN  IF s.version # SPECIAL_COMMUNICATION
             THEN DisconnectAndDelete(s1, "memory") ELSE s1

\* The ASSERTs of the WAIT_FOR_MORE_BYTES case of ExtractRequestOffTheBuffer:
\* at the end of the header the buffer is m_Header (or the one kept for
\* streaming) and no longer; past it, the buffer is exactly the request
\* and not yet full; before it, as at the end of the header.
WaitForMoreBytesAsserts(s, p) ==
    IF s.index > HeaderBufSize
    THEN s.base # "header" /\ s.len = p.len + HEADER_SIZE /\ s.index < s.len
    ELSE (s.allocStreaming \/ s.base = "header") /\ s.len = HeaderBufSize

\* LocalClientsManager::ExtractRequestOffTheBuffer after n bytes were read;
\* a failed ASSERT exits the process.
ExtractRequestOffTheBuffer(s, n, createOk) ==
    LET s1 == [s EXCEPT !.index = @ + n, !.rd = @ + n]
        p == ValidateProtocolAndExtractRequest(Buffer(s1), s.version)
        s2 == [s1 EXCEPT !.version = p.ver]
    IN  CASE p.ret = "REQUEST_FOUND" ->
               CreateRequestAndQueue(
                   [s2 EXCEPT !.extracted = Append(@, <<s1.rd - s1.index, p.len>>)],
                   createOk)
          [] p.ret = "WAIT_FOR_MORE_BYTES" /\ ~WaitForMoreBytesAsserts(s2, p) ->
               [s2 EXCEPT !.asserted = "ExtractRequestOffTheBuffer"]
          [] p.ret = "WAIT_FOR_MORE_BYTES" ->
               IF s2.index = HeaderBufSize THEN [s2 EXCEPT !.sizeFound = p.len]
               ELSE s2
          [] OTHER -> DisconnectAndDelete([s2 EXCEPT !.index = 0], "header")

\* Mutant: a buffer is kept whenever streaming is on.
ResetRequestBuffer_KeepWhenStreaming(s) ==
    LET s1 == IF s.base = "header" \/ s.streaming THEN s
              ELSE [s EXCEPT !.base = "header", !.cap = 0, !.allocStreaming = FALSE]
    IN  [s1 EXCEPT !.len = HeaderBufSize, !.index = 0]

ResetRequestBuffer(s) ==
    LET keep == s.base = "header" \/ (s.streaming /\ s.allocStreaming)
        s1 == IF keep THEN s
              ELSE [s EXCEPT !.base = "header", !.cap = 0, !.allocStreaming = FALSE]
    IN  [s1 EXCEPT !.len = HeaderBufSize, !.index = 0]
-----------------------------------------------------------------------------
(***************************************************************************)
(* Event-loop callbacks                                                    *)
(***************************************************************************)

\* alloc_buffer when `new` throws in GetRequestBuffer: the buffer falls
\* back to m_Header, whose space is used up, and the client is
\* disconnected; on_read then gets UV_ENOBUFS and does nothing.
alloc_buffer_failed ==
    /\ AllocFailures
    /\ asserted = "none" /\ reading /\ rd < Len(stream)
    /\ len - index = 0 /\ sizeFound > 0 /\ base = "header"
    /\ Assign(DisconnectAndDelete([S EXCEPT !.len = HeaderBufSize], "memory"))

\* Mutant: alloc_buffer offers the whole m_Request.len, not what is left.
on_read_WholeBufferOffered(n, createOk) ==
    /\ asserted = "none" /\ reading /\ rd < Len(stream)
    /\ LET s1 == GetRequestBuffer(S)
       IN  /\ n <= s1.len
           /\ n <= Len(stream) - rd
           /\ Assign(IF s1.busy THEN [s1 EXCEPT !.asserted = "alloc_buffer"]
                     ELSE ExtractRequestOffTheBuffer(s1, n, createOk))

\* alloc_buffer (GetRequestBuffer) and on_read with n > 0 bytes: the
\* bytes are appended at m_Request_Index and ExtractRequestOffTheBuffer
\* runs.  With no room in the buffer libuv reads nothing (UV_ENOBUFS).
\* alloc_buffer's ASSERT exits the process, before anything is read, when
\* the buffer has room while the client's request is being processed.
on_read(n, createOk) ==
    /\ asserted = "none" /\ reading /\ rd < Len(stream)
    /\ LET s1 == GetRequestBuffer(S)
       IN  /\ n <= s1.len - s1.index
           /\ n <= Len(stream) - rd
           /\ Assign(IF s1.busy THEN [s1 EXCEPT !.asserted = "alloc_buffer"]
                     ELSE ExtractRequestOffTheBuffer(s1, n, createOk))

\* on_read with nread < 0 (the client closed or the socket failed).
on_read_error ==
    /\ asserted = "none" /\ reading
    /\ Assign(DisconnectAndDelete(S, "peer"))

\* LocalClientsManager::after_request_processing_thread for a request that
\* was not deferred.  The processor of forwarded responses turned on
\* streaming while it ran; a memory exception in processing marks a client
\* other than a peer server.  The buffer is reset, and a marked client is
\* disconnected.
after_request_processing_thread(memExc) ==
    /\ asserted = "none" /\ busy
    /\ LET s1 == [S EXCEPT !.streaming = @ \/ version = SPECIAL_COMMUNICATION]
           exc == memExc /\ version # SPECIAL_COMMUNICATION
           s2 == [ResetRequestBuffer(s1) EXCEPT !.busy = FALSE,
                                               !.marked = @ \/ exc,
                                               !.closedBy = IF ~marked /\ exc
                                                            THEN "memory" ELSE @]
       IN  Assign(IF s2.marked THEN DisconnectAndDelete(s2, s2.closedBy) ELSE s2)

MaxSizeOf(fs) == IF fs = <<>> THEN 0
                 ELSE LET m == CHOOSE k \in 1..Len(fs) :
                                   \A j \in 1..Len(fs) : fs[j].size <= fs[k].size
                      IN fs[m].size
\* Bound: the most bytes one read can deliver.
ReadSizes == 1..(HEADER_SIZE + 1 + MaxSizeOf(frames))
Outcomes(b) == IF b THEN BOOLEAN ELSE {FALSE}

Next ==
    \/ alloc_buffer_failed
    \/ \E n \in ReadSizes, fail \in Outcomes(CreateFailures) : on_read(n, ~fail)
    \/ on_read_error
    \/ \E exc \in Outcomes(AllocFailures) : after_request_processing_thread(exc)

Spec == Init /\ [][Next]_vars

\* libuv reads whenever the socket has data and the buffer has room, and
\* completes every request it queued.  The client closing is not fair.
FairSpec ==
    /\ Spec
    /\ WF_vars(\E n \in ReadSizes, fail \in Outcomes(CreateFailures) : on_read(n, ~fail))
    /\ WF_vars(\E exc \in Outcomes(AllocFailures) : after_request_processing_thread(exc))
-----------------------------------------------------------------------------
(***************************************************************************)
(* Properties                                                              *)
(***************************************************************************)

MaxFrameBytes == HEADER_SIZE + 1 + MaxSizeOf(frames)

TypeOK ==
    /\ rd \in 0..Len(stream)
    /\ len \in 1..MaxFrameBytes /\ index \in 0..len
    /\ base \in {"header", "alloc"} /\ cap \in 0..MaxFrameBytes
    /\ streaming \in BOOLEAN /\ allocStreaming \in BOOLEAN
    /\ sizeFound \in 0..MaxFrameBytes
    /\ busy \in BOOLEAN /\ marked \in BOOLEAN /\ reading \in BOOLEAN
    /\ extracted \in Seq((0..Len(stream)) \X (1..MaxFrameBytes))
    /\ closedBy \in {"none", "header", "memory", "peer"}
    /\ asserted \in {"none", "alloc_buffer", "ExtractRequestOffTheBuffer"}

\* Reference definition of a well-formed frame k of fs: the preamble, a
\* version with a processor that is the version of the first frame, and a
\* size between 1 and that version's maximum.
WellFormed(fs, k) ==
    /\ fs[k].pre = 1
    /\ fs[k].ver \in Processors /\ fs[k].ver = fs[1].ver
    /\ fs[k].size \in 1..MaxRequestSize[fs[k].ver]

\* Framing: every request ExtractRequestOffTheBuffer finds is the next frame
\* the client sent, at its offset and with its size, and a client is
\* disconnected for a header error (ProcessHeaderError) only when the next
\* frame it sent is malformed.
FramingFaithful ==
    /\ \A i \in 1..Len(extracted) :
          i <= Len(frames) /\ extracted[i] = <<Offset(frames, i), frames[i].size>>
    /\ closedBy = "header" =>
          LET k == Len(extracted) + 1 IN k <= Len(frames) /\ ~WellFormed(frames, k)

\* libuv is given a buffer within the allocation: m_Request.len never
\* exceeds the bytes allocated for m_Request.base (m_Header, or the array
\* GetRequestBuffer allocated, possibly kept for streaming).
BufferWithinAllocation ==
    len <= IF base = "header" THEN HeaderBufSize ELSE cap

\* The ASSERT of alloc_buffer (line 605): while a request is being
\* processed, its buffer has no room, so nothing more is read into it.
BufferFullWhileProcessing ==
    busy => index = len

NoAssertionFails ==
    asserted = "none"

\* The number of frames before the first malformed one.
WellFormedPrefixLen(fs) ==
    LET bad == {k \in 1..Len(fs) : ~WellFormed(fs, k)}
    IN  IF bad = {} THEN Len(fs)
        ELSE (CHOOSE k \in bad : \A j \in bad : k <= j) - 1

\* Every well-formed frame a client sends before a malformed one is
\* eventually extracted and processed, unless the client is disconnected.
\* (A malformed frame shorter than HEADER_SIZE + 1 bytes at the end of the
\* stream is only detected when more bytes arrive.)
FramesEventuallyServed ==
    <>(marked \/ (Len(extracted) >= WellFormedPrefixLen(frames) /\ ~busy))
====
