--------------------------- MODULE ResponseDelivery ---------------------------
(***************************************************************************)
(* What the framework promises about a response a worker hands to          *)
(* ConnectionsManager::AddResponseToQueues, as the clients see it, with     *)
(* the double-buffered queues, the receiving sets, the direction flag and  *)
(* the reference counting left out.                                         *)
(*                                                                         *)
(* A response is published to the clients that accept it and is then owed  *)
(* to each of them.  The server writes batches of owed responses to a      *)
(* client's socket, never one response twice to the same client, and       *)
(* completes them (the write finished, failed or was skipped for a client  *)
(* being disconnected).  A response is freed exactly when no client owes   *)
(* it any more, and a client is deleted only when it owes nothing.          *)
(* Nothing here fixes the order of a client's responses.                   *)
(***************************************************************************)
EXTENDS Sequences, SequencesExt

CONSTANTS Clients, Resps

VARIABLES
    status,   \* response -> "NEW", "LIVE" or "FREED"
    owed,     \* response -> clients that still have to complete it
    written,  \* client -> responses written to its socket, in order
    gone      \* client -> whether it has been deleted

vars == <<status, owed, written, gone>>

TypeOK ==
    /\ status \in [Resps -> {"NEW", "LIVE", "FREED"}]
    /\ owed \in [Resps -> SUBSET Clients]
    /\ written \in [Clients -> Seq(Resps)]
    /\ gone \in [Clients -> BOOLEAN]

Init ==
    /\ status = [r \in Resps |-> "NEW"]
    /\ owed = [r \in Resps |-> {}]
    /\ written = [c \in Clients |-> <<>>]
    /\ gone = [c \in Clients |-> FALSE]

\* The responses client c owes.
Owes(c) == {r \in Resps : status[r] = "LIVE" /\ c \in owed[r]}

\* The responses that may still be written to client c.
Deliverable(c) == {r \in Owes(c) : r \notin ToSet(written[c])}

\* Response r is handed to the clients O that accept it, none of them
\* deleted; a response nobody accepts is freed at once.
Publish(r, O) ==
    /\ status[r] = "NEW"
    /\ \A c \in O : ~gone[c]
    /\ owed' = [owed EXCEPT ![r] = O]
    /\ status' = [status EXCEPT ![r] = IF O = {} THEN "FREED" ELSE "LIVE"]
    /\ UNCHANGED <<written, gone>>

\* A batch B of distinct responses, each owed by c and never written to c,
\* is written to c's socket in one write.
Deliver(c, B) ==
    /\ ~gone[c]
    /\ B # <<>> /\ IsInjective(B)
    /\ ToSet(B) \subseteq Deliverable(c)
    /\ written' = [written EXCEPT ![c] = @ \o B]
    /\ UNCHANGED <<status, owed, gone>>

\* Client c completes the responses T it owes; each one no client owes any
\* more is freed.
Complete(c, T) ==
    /\ T # {} /\ T \subseteq Owes(c)
    /\ owed' = [r \in Resps |-> IF r \in T THEN owed[r] \ {c} ELSE owed[r]]
    /\ status' = [r \in Resps |-> IF r \in T /\ owed'[r] = {}
                                  THEN "FREED" ELSE status[r]]
    /\ UNCHANGED <<written, gone>>

\* Client c, owing nothing, is deleted.
Close(c) ==
    /\ ~gone[c]
    /\ Owes(c) = {}
    /\ gone' = [gone EXCEPT ![c] = TRUE]
    /\ UNCHANGED <<status, owed, written>>

Next ==
    \/ \E r \in Resps, O \in SUBSET Clients : Publish(r, O)
    \/ \E c \in Clients : \E T \in SUBSET Deliverable(c) \ {{}} :
          \E B \in SetToSeqs(T) : Deliver(c, B)
    \/ \E c \in Clients : \E T \in SUBSET Owes(c) \ {{}} : Complete(c, T)
    \/ \E c \in Clients : Close(c)

Spec == Init /\ [][Next]_vars

\* A client that keeps owing responses eventually completes some of them.
FairSpec ==
    /\ Spec
    /\ \A c \in Clients : WF_vars(\E T \in SUBSET Owes(c) \ {{}} : Complete(c, T))
===============================================================================
