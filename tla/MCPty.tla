-------------------------------- MODULE MCPty --------------------------------
(* A small instance of Pty for TLC.                                           *)
EXTENDS Pty
=============================================================================
