------------------------- MODULE MC_ServerShutdown --------------------------
(* Model-checking instances of ServerShutdown.                              *)
EXTENDS ServerShutdown, TLC

CONSTANTS c1, c2, p1, p2, t1, t2, t3, t4

\* Two connections: one can be busy or queued while the other is idle in
\* the pool, which the races of shutdown need.
MC_Clients == {c1, c2}
\* Two peers, connected or not at start.
MC_Peers == {p1, p2}
MC_OnePeer == {p1}
\* One request-processing thread, so the pool has three threads: the
\* smallest size at which a fourth work item (the keep-alive scan, a second
\* client's work) finds no thread free while the logger and writer run.
MC_Threads == {t1, t2, t3}
\* Two request-processing threads: a client's disconnection work can run
\* while the keep-alive scan holds a thread.
MC_Threads4 == {t1, t2, t3, t4}

\* Only behaviours in which InitiateServerShutdown sets
\* m_bAllClientsDisconnectedForShutdown as the comment over the last gate
\* says (no disconnection still queued), so that a violation found does
\* not go through finding 5.
MC_FlagAsDocumented == allDisc => qd = 0

\* Clients are interchangeable, and so are peers.
MC_Symmetry == Permutations(MC_Clients) \cup Permutations(MC_Peers)
=============================================================================
