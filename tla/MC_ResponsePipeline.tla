------------------------- MODULE MC_ResponsePipeline -------------------------
(* Model-checking instances of ResponsePipeline.                            *)
EXTENDS ResponsePipeline

CONSTANTS c1, c2, w1, w2, r1, r2, r3

MC_Clients == {c1, c2}
MC_Workers == {w1, w2}
\* A single session: the ordering question concerns one socket.
MC_OneClient == {c1}
\* Two workers with one response each: two fan-outs can overlap and race
\* the direction-flag toggle.
MC_TwoWorkers == (w1 :> <<r1>>) @@ (w2 :> <<r2>>)
\* One response: small enough for the liveness check of its whole lifetime.
MC_OneResponse == (w1 :> <<r1>>) @@ (w2 :> <<>>)
\* One worker creating two responses in order while another worker's
\* response is in flight to the same client.
MC_OrderedPair == (w1 :> <<r1, r2>>) @@ (w2 :> <<r3>>)
\* One worker creating two responses for one client: with room for two per
\* queue, a FATAL_ERROR behind an ordinary response splits the batch.
MC_SplitBatch == (w1 :> <<r1, r2>>) @@ (w2 :> <<>>)
\* Which responses are stored with SendUpdate (StoreMessage's bIsUpdate).
MC_NoUpdates == {}
MC_UpdateFirst == {r1}
MC_UpdateSecond == {r2}
=============================================================================
