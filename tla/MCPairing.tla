------------------------------ MODULE MCPairing ------------------------------
(* Small instances of Pairing for TLC.                                       *)
EXTENDS Pairing, TLC

\* Joins and decisions treat keys, requests and request ids alike.
Symmetric == Permutations(Keys) \cup Permutations(Requests) \cup Permutations(RequestIds)

=============================================================================
