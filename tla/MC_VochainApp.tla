--------------------------- MODULE MC_VochainApp ---------------------------
(* Instantiation of VochainApp for TLC: two processes, two entities, two  *)
(* voters, one key-holder, heights up to MaxHeight.                       *)
EXTENDS VochainApp, TLC

CONSTANTS p1, p2, e1, e2, v1, v2

MCPids == {p1, p2}
MCEntities == {e1, e2}
MCVoters == {v1, v2}
MCProcessTypes == {"poll-vote", "encrypted-poll"}

\* The liveness run: one entity, one voter, only key-requiring processes.
MCLiveEntities == {e1}
MCLiveVoters == {v1}
MCLiveProcessTypes == {"encrypted-poll"}

\* Process identifiers and voters are interchangeable (safety runs only).
MCSymmetry == Permutations(MCPids) \cup Permutations(MCVoters) \cup Permutations(MCEntities)
=============================================================================
