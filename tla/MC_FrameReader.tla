---------------------------- MODULE MC_FrameReader ----------------------------
(***************************************************************************)
(* Instances of FrameReader for TLC.  Version 1 is an application version  *)
(* with requests of up to 2 bytes; version 2 stands for                    *)
(* SPECIAL_COMMUNICATION (0xFFFF), the peer servers' forwarded responses,  *)
(* with requests of up to 3 bytes; version 3 has no processor.             *)
(***************************************************************************)
EXTENDS FrameReader

MC_Processors == {1, 2}
MC_MaxRequestSize == (1 :> 2) @@ (2 :> 3)

WellFormedFrames(v) == {[pre |-> 1, ver |-> v, size |-> s] : s \in 1..MC_MaxRequestSize[v]}

\* One malformed frame of each kind, for a client that speaks version v.
MalformedFrames(v) ==
    { [pre |-> 0, ver |-> v, size |-> 1],
      [pre |-> 1, ver |-> 0, size |-> 1],
      [pre |-> 1, ver |-> 3, size |-> 1],
      [pre |-> 1, ver |-> 3 - v, size |-> 1],
      [pre |-> 1, ver |-> v, size |-> 0],
      [pre |-> 1, ver |-> v, size |-> MC_MaxRequestSize[v] + 1] }

\* Up to MaxWellFormed well-formed frames of one version, optionally
\* followed by one malformed frame.
MaxWellFormed == 3
WellFormedPrefixes(v) == UNION {[1..n -> WellFormedFrames(v)] : n \in 0..MaxWellFormed}
StreamsOf(v) ==
    WellFormedPrefixes(v) \cup {p \o <<m>> : p \in WellFormedPrefixes(v), m \in MalformedFrames(v)}
MC_Streams == UNION {StreamsOf(v) : v \in MC_Processors}

(***************************************************************************)
(* The byte-level format of those SPECIAL_COMMUNICATION frames, as sent by *)
(* server A to its peers B and C.  Version 258 (0x0102) has both version   *)
(* bytes non-zero; the registration numbers need one, three and four       *)
(* bytes.  Payloads run to one byte past the largest MaxResponseSize, and  *)
(* three handles for B make two chunks.  Received requests claim counts    *)
(* from 0 up, and counts of 2^29 and 2^29 + 1, for which the 32-bit        *)
(* MinimumLength wraps to 7 and 15.                                        *)
(***************************************************************************)
Fwd == INSTANCE ForwardedResponses WITH
         Versions <- {1, 258},
         VersionMaxRequestSize <- (1 :> 2) @@ (258 :> 2),
         VersionMaxResponseSize <- (1 :> 2) @@ (258 :> 1),
         MAX_HANDLES_IN_FORWARDED_RESPONSE <- 2,
         MAX_POSSIBLE_REQUEST_RESPONSE_SIZE <- 3,
         Sender <- "A",
         Handles <- {[ip |-> "A", reg |-> 1], [ip |-> "C", reg |-> 1]}
                    \cup {[ip |-> "B", reg |-> r] : r \in {1, 65537, 2147483647}},
         Payloads <- UNION {[1..n -> {0, 255}] : n \in 1..3},
         HandleCounts <- {0, 1, 2, 2^29, 2^29 + 1},
         RequestTails <- UNION {[1..n -> {0, 1}] : n \in 0..10}

\* The forwarded-response properties of ForwardedResponses for the frames
\* arriving on this connection, for its version as it stands: unset, or
\* SPECIAL_COMMUNICATION (0xFFFF on the wire) once a first frame has set it.
\* A connection of an application version rejects forwarded frames.
RoundTripOnFresh == Fwd!ForwardedRoundTrip(0)
RoundTripOnPeer == Fwd!ForwardedRoundTrip(Fwd!FORWARD_VERSION)
DecoderOnFresh == Fwd!DecoderStaysInBody(0)
DecoderOnPeer == Fwd!DecoderStaysInBody(Fwd!FORWARD_VERSION)

\* Forwarding is transparent on this connection (ForwardedResponses).
ForwardedRoundTrip ==
    CASE version = 0                     -> RoundTripOnFresh
      [] version = SPECIAL_COMMUNICATION -> RoundTripOnPeer
      [] OTHER                           -> TRUE

\* ProcessRequest reads only inside the requests this connection passes on
\* to it (ForwardedResponses).
DecoderStaysInBody ==
    CASE version = 0                     -> DecoderOnFresh
      [] version = SPECIAL_COMMUNICATION -> DecoderOnPeer
      [] OTHER                           -> TRUE
====
