---------------------------- MODULE MCAgentStore -----------------------------
(* Small instances of AgentStore for TLC.                                     *)
EXTENDS AgentStore, TLC

\* Provider sessions are interchangeable.
Symmetric == Permutations(Sessions)

=============================================================================
