\* Framing and buffer safety with allocation and processing failures, and
\* every frame eventually served unless the client is disconnected;
\* request creation does not fail.  The byte format of the forwarded
\* responses such a connection carries when it is a peer's.
CONSTANTS
    Streams <- MC_Streams
    Processors <- MC_Processors
    MaxRequestSize <- MC_MaxRequestSize
    SPECIAL_COMMUNICATION = 2
    AllocFailures = TRUE
    CreateFailures = FALSE
SPECIFICATION FairSpec
INVARIANTS
    TypeOK
    FramingFaithful
    BufferWithinAllocation
    
    BufferFullWhileProcessing
    ForwardedRoundTrip
    DecoderStaysInBody
    NoAssertionFails
PROPERTY
    FramesEventuallyServed

\* A client that has sent all its frames, or has been disconnected, waits.
CHECK_DEADLOCK FALSE
