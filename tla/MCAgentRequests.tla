--------------------------- MODULE MCAgentRequests ---------------------------
(* Small instances of AgentRequests for TLC.                                  *)
EXTENDS AgentRequests, TLC

\* Servers, inputs, approvals and devices are interchangeable.
Symmetric == Permutations(Servers) \cup Permutations(Inputs)
             \cup Permutations(Approvals) \cup Permutations(Devices)

=============================================================================
