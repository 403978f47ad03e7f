\* A failed `new Request` for a peer server's connection, then a frame of another length.
CONSTANTS
    Streams <- MC_Streams
    Processors <- MC_Processors
    MaxRequestSize <- MC_MaxRequestSize
    SPECIAL_COMMUNICATION = 2
    AllocFailures = FALSE
    CreateFailures = TRUE
SPECIFICATION Spec
INVARIANT
    NoAssertionFails
CHECK_DEADLOCK FALSE
