----------------------------- MODULE MCRealtime -----------------------------
(* Small instances of Realtime for TLC.                                      *)
EXTENDS Realtime
=============================================================================
