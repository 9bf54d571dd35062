------------------------------- MODULE MCPlain -------------------------------
(* A small instance of Plain for TLC.                                         *)
EXTENDS Plain

\* A grandchild with every pipe, with its output redirected, or with none.
SomeInherits == {{"out", "err", "in"}, {"in"}, {}}

=============================================================================
