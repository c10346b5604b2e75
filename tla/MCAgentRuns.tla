---------------------------- MODULE MCAgentRuns ----------------------------
(* Bounded instances of AgentRuns for TLC.                                  *)
EXTENDS AgentRuns, TLC

\* Runs, workers and conversations are interchangeable: no definition tells them apart.
Symmetry == Permutations(Runs) \cup Permutations(Workers)
                \cup Permutations(Conversations)
=============================================================================
