-------------------------------- MODULE MCHub --------------------------------
(* Small instances of Hub for TLC.                                            *)
EXTENDS Hub, TLC

\* Devices and connections are interchangeable (safety runs only).
Symmetric == Permutations(Conns) \cup Permutations(Devices)

=============================================================================
