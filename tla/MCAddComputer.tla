--------------------------- MODULE MCAddComputer ---------------------------
(* Small instances of AddComputer for TLC.                                  *)
EXTENDS AddComputer
=============================================================================
