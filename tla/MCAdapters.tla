----------------------------- MODULE MCAdapters ------------------------------
(* A small instance of Adapters for TLC.                                      *)
EXTENDS Adapters

Line(whole, first, second) ==
    [p \in Part |-> CASE p = "whole" -> whole [] p = "first" -> first [] OTHER -> second]

\* A marker cut inside its prefix, one cut inside its text, and a session whose
\* id is cut where another marker begins.
SomeLines == {Line("EXITok", "other", "other"), Line("STEP", "STEP", "other"),
              Line("SESSION", "SESSION", "ERROR")}

\* Two lines on one stream, or one on each; the adapters repeat one code.
FewLines == [p \in Providers |->
                IF p = "claude" THEN [out |-> 2, err |-> 0]
                ELSE IF p = "generic" THEN [out |-> 2, err |-> 1]
                ELSE IF p = "codex" THEN [out |-> 1, err |-> 1]
                ELSE [out |-> 1, err |-> 0]]

=============================================================================
